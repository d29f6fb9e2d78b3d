------------------------------ MODULE Context ------------------------------
(***************************************************************************)
(* The registers of a task across system calls, interrupts and switches:   *)
(* entry.S, arm920t_s.S, syscall_entry.S, the parts of arm920t_c.c that    *)
(* build a first frame, and switch_task of task.c.                         *)
(*                                                                         *)
(* All paths save and restore one layout, struct pt_regs, on the kernel    *)
(* stack of the task, and a frame that one path has written may be loaded  *)
(* by another.  r1 to r12 are one register here.  A frame is one unit of   *)
(* the kernel stack, the calls of C functions in between are none: sp_svc  *)
(* counts the frames.  Entry and exit code runs with interrupts masked and *)
(* is one step.  What nobody may rely on is junk: the memory below sp_svc, *)
(* which C functions use, and the bank of the mode that is not the current *)
(* one, except sp_svc.  Of spsr in svc mode only the mode is kept.         *)
(***************************************************************************)
EXTENDS Naturals, FiniteSets

CONSTANTS
  Tasks,
  idle     \* the task that main becomes

ASSUME ContextAssumption == idle \in Tasks

VARIABLES
  cpu,      \* the registers, with the banks of user and svc mode
  kstack,   \* the frames on the kernel stack of each task
  base,     \* task->stack_base: the frame to resume from
  current,
  alive,    \* the tasks that are set up and have not exited
  flag,     \* PROCESS_TYPE_KERNEL or PROCESS_TYPE_USER
  loaded,   \* the task whose page tables are in the translation table
  call,     \* what the system call of a task has done so far
  saved,    \* what a task that lost the CPU must find again
  user      \* what a task in a system call must find again

ctxVars == <<cpu, kstack, base, current, alive, flag, loaded, call, saved, user>>

\* The deepest stack: a system call that is interrupted or sleeps.
MaxDepth == 2

-----------------------------------------------------------------------------
(* Registers and frames *)

Cpsr(c) == [mode |-> c.mode, masked |-> c.masked]

\* What the program sees of the registers.
View(c) ==
  [cpsr |-> Cpsr(c), r0 |-> c.r0, r |-> c.r, pc |-> c.pc, depth |-> c.sp_svc,
   lr |-> IF c.mode = "usr" THEN c.lr_usr ELSE c.lr_svc,
   sp |-> IF c.mode = "usr" THEN c.sp_usr ELSE <<"depth", c.sp_svc>>]

Junk == <<"junk">>

User == [mode |-> "usr", masked |-> FALSE]
Svc == [mode |-> "svc", masked |-> FALSE]

\* arch_init_pt_regs with a function: a kernel thread.
init_thread(t) ==
  [r0 |-> <<"arg", t>>, r |-> <<"init">>, spsr |-> "usr", lr |-> <<"14">>,
   sp |-> <<"13">>, cpsr |-> Svc, pc |-> <<"fn", t>>]

\* arch_init_pt_regs without one: a program that exec has loaded.
init_program ==
  [r0 |-> <<"argc">>, r |-> <<"init">>, spsr |-> "usr", lr |-> <<"14">>,
   sp |-> <<"stack base">>, cpsr |-> User, pc |-> <<"exec base">>]

\* software_interrupt.  The word for spsr is left as it is.
save_swi(c, old) ==
  [r0 |-> c.r0, r |-> c.r, spsr |-> old.spsr, lr |-> c.lr_usr, sp |-> c.sp_usr,
   cpsr |-> Cpsr(c), pc |-> c.pc]

\* irq, with user_to_irq or svc_to_irq.
save_irq(c) ==
  [r0 |-> c.r0, r |-> c.r, cpsr |-> Cpsr(c), pc |-> c.pc,
   spsr |-> IF c.mode = "usr" THEN "usr" ELSE c.spsr_svc,
   lr   |-> IF c.mode = "usr" THEN c.lr_usr ELSE c.lr_svc,
   sp   |-> IF c.mode = "usr" THEN c.sp_usr ELSE <<"depth", c.sp_svc>>]

\* The first half of arch_switch_task_sw.  It goes on at its return address; the
\* value stored for sp is that of a frame further down, and is never loaded.
save_sw(c) ==
  [r0 |-> c.r0, r |-> c.r, spsr |-> c.spsr_svc, lr |-> c.lr_svc,
   sp |-> <<"depth", c.sp_svc + 2>>, cpsr |-> Cpsr(c), pc |-> c.lr_svc]

\* What all paths load: r0 to r12, pc and, through spsr, cpsr.
load(c, f, d) ==
  [c EXCEPT !.r0 = f.r0, !.r = f.r, !.pc = f.pc, !.sp_svc = d - 1,
            !.mode = f.cpsr.mode, !.masked = f.cpsr.masked,
            !.sp_usr = Junk, !.lr_usr = Junk, !.lr_svc = Junk]

\* Mutant of restore_sw: sw_switch_to_svc does not load lr.
restore_sw_nolr(c, f, d) ==
  IF f.cpsr.mode = "usr"
  THEN [load(c, f, d) EXCEPT !.sp_usr = f.sp, !.lr_usr = f.lr, !.spsr_svc = f.cpsr.mode]
  ELSE [load(c, f, d) EXCEPT !.spsr_svc = f.cpsr.mode]

\* The second half of arch_switch_task_sw.  It runs in svc mode and returns
\* through spsr, so that the spsr which sw_switch_to_svc has just loaded is
\* overwritten.
restore_sw(c, f, d) ==
  IF f.cpsr.mode = "usr"
  THEN [load(c, f, d) EXCEPT !.sp_usr = f.sp, !.lr_usr = f.lr, !.spsr_svc = f.cpsr.mode]
  ELSE [load(c, f, d) EXCEPT !.lr_svc = f.lr, !.spsr_svc = f.cpsr.mode]

\* Mutant of restore_irq: exit_irq_from_user leaves sp of svc mode at the frame.
restore_irq_sp(c, f, d) ==
  IF f.cpsr.mode = "usr"
  THEN [load(c, f, d) EXCEPT !.sp_usr = f.sp, !.lr_usr = f.lr, !.sp_svc = d]
  ELSE [load(c, f, d) EXCEPT !.lr_svc = f.lr, !.spsr_svc = f.spsr]

\* The end of irq, with exit_irq_from_user or exit_irq_from_svc.
restore_irq(c, f, d) ==
  IF f.cpsr.mode = "usr"
  THEN [load(c, f, d) EXCEPT !.sp_usr = f.sp, !.lr_usr = f.lr]
  ELSE [load(c, f, d) EXCEPT !.lr_svc = f.lr, !.spsr_svc = f.spsr]

\* Mutant of restore_swi: the spsr register is taken as swi left it.
restore_swi_spsr(c, f, d) ==
  [load(c, f, d) EXCEPT !.sp_usr = f.sp, !.lr_usr = f.lr,
                        !.mode = c.spsr_svc]

\* The end of software_interrupt.
restore_swi(c, f, d) ==
  [load(c, f, d) EXCEPT !.sp_usr = f.sp, !.lr_usr = f.lr, !.spsr_svc = f.cpsr.mode]

-----------------------------------------------------------------------------
NoFrame == [r0 |-> Junk, r |-> Junk, spsr |-> "usr", lr |-> Junk, sp |-> Junk,
            cpsr |-> Svc, pc |-> Junk]

BootCpu ==
  [mode |-> "svc", masked |-> FALSE, r0 |-> Junk, r |-> Junk, pc |-> Junk,
   sp_usr |-> Junk, lr_usr |-> Junk, sp_svc |-> 0, lr_svc |-> Junk, spsr_svc |-> "usr"]

\* For a task that is not waiting, or not in a system call.
NoView == View(BootCpu)

CtxInit ==
  /\ cpu = BootCpu
  /\ kstack = [t \in Tasks |-> [d \in 1 .. MaxDepth + 1 |-> NoFrame]]
  /\ base = [t \in Tasks |-> 0]
  /\ current = idle
  /\ alive = {idle}
  /\ flag = [t \in Tasks |-> "kernel"]
  /\ loaded = idle
  /\ call = [t \in Tasks |-> "none"]
  /\ saved = [t \in Tasks |-> NoView]
  /\ user = [t \in Tasks |-> NoView]

-----------------------------------------------------------------------------
(* Steps *)

\* The registers of a program at one of two places, and those of a task that
\* runs in the kernel.
InUser(c, v) ==
  [c EXCEPT !.r0 = <<current, "r0", v>>, !.r = <<current, "r", v>>,
            !.pc = <<current, "pc", v>>, !.sp_usr = <<current, "sp", v>>,
            !.lr_usr = <<current, "lr", v>>]

InKernel(c) ==
  [c EXCEPT !.r0 = <<current, "k0">>, !.r = <<current, "k">>,
            !.pc = <<current, "kpc">>, !.lr_svc = <<current, "klr">>]

\* The current task computes: all registers of its mode get other values.
Run(v) ==
  /\ cpu' = IF cpu.mode = "usr" THEN InUser(cpu, v) ELSE InKernel(cpu)
  /\ UNCHANGED <<kstack, base, current, alive, flag, loaded, call, saved, user>>

\* enter_critical and exit_critical.
Mask(b) ==
  /\ cpu.mode = "svc" /\ cpu.masked # b
  /\ cpu' = [cpu EXCEPT !.masked = b]
  /\ UNCHANGED <<kstack, base, current, alive, flag, loaded, call, saved, user>>

\* software_interrupt and _syscall_handler up to the handler.
Swi ==
  LET d == cpu.sp_svc + 1
  IN  /\ cpu.mode = "usr"
      /\ kstack' = [kstack EXCEPT ![current][d] = save_swi(cpu, @)]
      /\ cpu' = InKernel([cpu EXCEPT !.mode = "svc", !.sp_svc = d, !.spsr_svc = cpu.mode,
                                     !.sp_usr = Junk, !.lr_usr = Junk])
      /\ user' = [user EXCEPT ![current] = View(cpu)]
      /\ UNCHANGED <<base, current, alive, flag, loaded, call, saved>>

InSyscall == flag[current] = "user" /\ cpu.mode = "svc" /\ cpu.sp_svc = 1

\* The value _syscall_handler stores in the frame.  fork returns 0 to the parent,
\* execve the r0 of the new frame.
Result == CASE call[current] = "fork" -> <<"zero">>
            [] call[current] = "exec" -> init_program.r0
            [] OTHER -> <<"result">>

\* The end of _syscall_handler and of software_interrupt.
SwiReturn ==
  LET f == [kstack[current][cpu.sp_svc] EXCEPT !.r0 = Result]
  IN  /\ InSyscall
      /\ kstack' = [kstack EXCEPT ![current][cpu.sp_svc] = NoFrame]
      /\ cpu' = restore_swi(cpu, f, cpu.sp_svc)
      /\ user' = [user EXCEPT ![current] = NoView]
      /\ call' = [call EXCEPT ![current] = "none"]
      /\ UNCHANGED <<base, current, alive, flag, loaded, saved>>

\* Mutant of switch_task: nothing is loaded when a kernel task is left.
switch_task_cur(n) ==
  IF flag[n] = "kernel" \/ flag[current] = "kernel" THEN loaded ELSE n

\* switch_task: the tables of a user task are loaded, a kernel task keeps those
\* of whoever ran before.
switch_task(n) == IF flag[n] = "kernel" THEN loaded ELSE n

\* An interrupt: irq, the handler, which may choose another task, os_exit_irq.
Irq(n) ==
  LET d == cpu.sp_svc + 1
      f == save_irq(cpu)
  IN  /\ ~cpu.masked
      /\ n \in alive
      /\ IF n = current
         THEN /\ cpu' = restore_irq(cpu, f, d)
              /\ UNCHANGED <<kstack, base, saved, loaded>>
         ELSE /\ cpu' = restore_irq(cpu, kstack[n][base[n]], base[n])
              /\ kstack' = [kstack EXCEPT ![current][d] = f, ![n][base[n]] = NoFrame]
              /\ base' = [base EXCEPT ![current] = d]
              /\ saved' = [saved EXCEPT ![current] = View(cpu), ![n] = NoView]
              /\ loaded' = switch_task(n)
      /\ current' = n
      /\ UNCHANGED <<alive, flag, call, user>>

\* sched: arch_switch_task_sw, to the task itself if nobody else is ready.
SwitchTo(n) ==
  LET d == cpu.sp_svc + 1
  IN  /\ cpu.mode = "svc" /\ cpu.masked
      /\ n \in alive
      /\ base' = [base EXCEPT ![current] = d]
      /\ LET stack == [kstack EXCEPT ![current][d] = save_sw(cpu)]
         IN  /\ cpu' = restore_sw(cpu, stack[n][base'[n]], base'[n])
             /\ kstack' = [stack EXCEPT ![n][base'[n]] = NoFrame]
      /\ saved' = [saved EXCEPT ![current] = [View(cpu) EXCEPT !.pc = cpu.lr_svc],
                                ![n] = NoView]
      /\ loaded' = switch_task(n)
      /\ current' = n
      /\ UNCHANGED <<alive, flag, call, user>>

\* sys_exit: sched as above, but the task is not chosen again and its stack is
\* given back.
Exit(n) ==
  /\ InSyscall /\ cpu.masked
  /\ n \in alive \ {current}
  /\ cpu' = restore_sw(cpu, kstack[n][base[n]], base[n])
  /\ kstack' = [kstack EXCEPT ![current] = [d \in DOMAIN @ |-> NoFrame],
                              ![n][base[n]] = NoFrame]
  /\ saved' = [saved EXCEPT ![n] = NoView]
  /\ user' = [user EXCEPT ![current] = NoView]
  /\ call' = [call EXCEPT ![current] = "none"]
  /\ loaded' = switch_task(n)
  /\ current' = n
  /\ alive' = alive \ {current}
  /\ UNCHANGED <<base, flag>>

\* arch_set_up_task_stack: the only frame is at the top of the kernel stack.
SetUp(t, k) ==
  /\ t \in Tasks \ alive /\ base[t] = 0
  /\ flag' = [flag EXCEPT ![t] = k]
  /\ alive' = alive \cup {t}
  /\ base' = [base EXCEPT ![t] = 1]

\* What the first frame stands for.
First(f) == [cpsr |-> f.cpsr, r0 |-> f.r0, r |-> f.r, pc |-> f.pc, lr |-> f.lr,
             depth |-> 0, sp |-> IF f.cpsr = User THEN f.sp ELSE <<"depth", 0>>]

\* sys_fork: the child starts from the frame of the parent, in which r0 is the
\* pid of the child.
Fork(t) ==
  LET f == [kstack[current][1] EXCEPT !.r0 = <<"pid", t>>]
  IN  /\ InSyscall /\ call[current] = "none"
      /\ SetUp(t, "user")
      /\ kstack' = [kstack EXCEPT ![current][1] = f, ![t][1] = f]
      /\ saved' = [saved EXCEPT ![t] = [user[current] EXCEPT !.r0 = f.r0]]
      /\ call' = [call EXCEPT ![current] = "fork"]
      /\ UNCHANGED <<cpu, current, loaded, user>>

\* do_exec by a process: its own frame is replaced.
Exec ==
  /\ InSyscall /\ call[current] = "none"
  /\ kstack' = [kstack EXCEPT ![current][1] = init_program]
  /\ user' = [user EXCEPT ![current] = First(init_program)]
  /\ call' = [call EXCEPT ![current] = "exec"]
  /\ UNCHANGED <<cpu, base, current, alive, flag, loaded, saved>>

\* kthread_run, and do_exec by a kernel task.
NewTask(t, k) ==
  LET f == IF k = "kernel" THEN init_thread(t) ELSE init_program
  IN  /\ flag[current] = "kernel" /\ cpu.mode = "svc"
      /\ SetUp(t, k)
      /\ kstack' = [kstack EXCEPT ![t][1] = f]
      /\ saved' = [saved EXCEPT ![t] = First(f)]
      /\ UNCHANGED <<cpu, current, loaded, call, user>>

CtxNext ==
  \/ \E v \in 0 .. 1 : Run(v)
  \/ \E b \in BOOLEAN : Mask(b)
  \/ Swi
  \/ SwiReturn
  \/ Exec
  \/ \E t \in Tasks :
        \/ Irq(t) \/ SwitchTo(t) \/ Exit(t) \/ Fork(t)
        \/ \E k \in {"kernel", "user"} : NewTask(t, k)

CtxSpec == CtxInit /\ [][CtxNext]_ctxVars

-----------------------------------------------------------------------------
(* Properties *)

\* Whoever wrote the frame of a waiting task, a system call of its parent, an
\* interrupt in either mode, sched or the code that set it up, both ways back
\* to the CPU load from it the registers the task had: mode, interrupt mask,
\* both stack pointers, return address and program counter.
FramesResume ==
  \A t \in alive \ {current} :
     LET f == kstack[t][base[t]]
     IN  /\ View(restore_sw(cpu, f, base[t])) = saved[t]
         /\ View(restore_irq(cpu, f, base[t])) = saved[t]

\* No path leaves a frame behind: a task in user mode has an empty kernel stack
\* however often it was interrupted, and no stack grows past a system call that
\* was interrupted.
StackBalanced ==
  /\ cpu.sp_svc <= 1
  /\ cpu.mode = "usr" => cpu.sp_svc = 0
  /\ flag[current] = "kernel" => cpu.sp_svc = 0

\* A system call comes back to the place it was made from, in user mode and with
\* interrupts on, with all registers but r0, whatever ran in between.  In r0 it
\* has its result: 0 for the parent of a fork.  After exec it comes back to the
\* new program.
SyscallComesBack ==
  [][ cpu.sp_svc = 1 /\ current' = current /\ cpu'.sp_svc = 0 =>
         View(cpu') = [user[current] EXCEPT !.r0 = Result] ]_ctxVars

\* A user task runs, in user mode and in its system calls, on its own page
\* tables, although kernel tasks leave those of others loaded.
RunsInOwnSpace == flag[current] = "user" => loaded = current

=============================================================================
