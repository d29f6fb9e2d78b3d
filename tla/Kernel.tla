------------------------------- MODULE Kernel -------------------------------
(***************************************************************************)
(* The tasks of the running kernel on top of the scheduler: boot           *)
(* (init/main.c), fork, exit, the system_killer thread that reaps exited   *)
(* tasks, the pid allocator, and the mutex that guards it (kernel/mutex.c, *)
(* whose wait list is kept pointer by pointer).                            *)
(*                                                                         *)
(* pc[t] is the point where task t is, or will resume, in kernel code.     *)
(* Every step is one section that the tick cannot split; the tick may fall *)
(* between any two steps except where the task is inside enter_critical    *)
(* (IrqOff).  set_task_state reads task->state before it masks interrupts, *)
(* so on the exit path, where the caller has not masked them, the read and *)
(* the update are two steps.                                               *)
(***************************************************************************)
EXTENDS Sched, FiniteSets

CONSTANTS
  Killer,                \* system_killer, the first task created: pid 0
  Init,                  \* the init process: pid 1
  Users,                 \* task_structs available to fork
  PROCESS_DEFAULT_PRIO,  \* 20 in sched.h
  PidNr,                 \* pid_map.nr, 1024 in the code
  Forkers,               \* the processes that call fork
  Exiters,               \* the processes that call exit
  M                      \* &pid_map_mutex.wait, the head of the wait list

ASSUME KernelAssumption ==
  /\ Tasks = {Idle, Killer, Init} \cup Users
  /\ Idle # Killer /\ Idle # Init /\ Killer # Init
  /\ Users \cap {Idle, Killer, Init} = {}
  /\ M \notin Tasks
  /\ PROCESS_DEFAULT_PRIO \in KERNEL_THREAD_PRIO .. MAX_PRIO - 2
  /\ PidNr \in Nat \ {0, 1}
  /\ Forkers \cup Exiters \subseteq {Init} \cup Users
  /\ Timeouts = {-1}

VARIABLES
  pc,        \* where each task is
  old,       \* the state set_task_state read before masking interrupts,
             \* "UNKNOWN" where no such read is pending
  child,     \* the task_struct a fork is filling in, M for none
  count,     \* m->count of the pid mutex
  owner,     \* the task on whose mutex_get list the mutex is, M for none
  heap,      \* the wait list: list_heads task->wait and m->wait
  walk,      \* cursor of mutex_unlock on the wait list
  pid,       \* task->pid
  pid_map,   \* the pid allocator
  kids,      \* tasks on task->child
  victim,    \* the node system_killer's walk of the idle list is at, M at its end
  succ       \* victim's next pointer, left in place by list_del

kernelVars == <<pc, old, child, count, owner, heap, walk, pid, pid_map, kids,
                victim, succ>>
vars == <<schedVars, kernelVars>>

L == INSTANCE KList

\* Inside enter_critical: a mutex_lock that is waiting, the wakeup loop of
\* mutex_unlock, and the endless loop of kill_task.
IrqOff == {"fork_sched", "fork_wait", "fork_walk",
           "kill_sched", "kill_wait", "kill_walk", "kill_spin"}

\* Task t executes the step at l.
At(t, l) == tick = 0 /\ current = t /\ pc[t] = l

Goto(t, l) == pc' = [pc EXCEPT ![t] = l]

-----------------------------------------------------------------------------
(* mutex_lock_timeout(m, -1) and mutex_unlock(m), kernel/mutex.c.  The      *)
(* callers are fork (prefix "fork") and system_killer (prefix "kill").      *)

\* Mutant of mutex_lock: a waiter that was woken takes the mutex untested.
mutex_lock_untested(t, sleeping, locked) ==
  IF count = 1 /\ pc[t] \notin {"fork_wait", "kill_wait"}
  THEN /\ heap' = L!list_add_tail(heap, M, t)
       /\ SuspendTask(t, -1)
       /\ Goto(t, sleeping)
       /\ UNCHANGED <<count, owner>>
  ELSE /\ count' = 1
       /\ owner' = t
       /\ Goto(t, locked)
       /\ UNCHANGED <<schedVars, heap>>

\* One round of the loop of mutex_lock: take the mutex and go on, or join the
\* wait list and go to sleep.  With a timeout of -1 the sleep never ends in a
\* timeout, so every return from it starts another round.
mutex_lock(t, sleeping, locked) ==
  IF count = 1
  THEN /\ heap' = L!list_add_tail(heap, M, t)
       /\ SuspendTask(t, -1)
       /\ Goto(t, sleeping)
       /\ UNCHANGED <<count, owner>>
  ELSE /\ count' = 1
       /\ owner' = t
       /\ Goto(t, locked)
       /\ UNCHANGED <<schedVars, heap>>

\* mutex_unlock up to its loop.
mutex_unlock(t, loop) ==
  /\ count' = 0
  /\ walk' = heap.next[M]
  /\ Goto(t, loop)
  /\ UNCHANGED <<schedVars, owner, heap>>

\* Mutant of mutex_wake: waiters are unlinked and not woken.
mutex_wake_silent(t, done) ==
  IF walk = M
  THEN /\ owner' = M
       /\ Goto(t, done)
       /\ UNCHANGED <<schedVars, heap, walk>>
  ELSE /\ heap' = L!list_del(heap, walk)
       /\ walk' = heap'.next[walk]
       /\ UNCHANGED <<schedVars, owner, pc>>

\* One round of the loop of mutex_unlock: unlink the waiter and wake it up;
\* at the end of the list drop the ownership.
mutex_wake(t, done) ==
  IF walk = M
  THEN /\ owner' = M
       /\ Goto(t, done)
       /\ UNCHANGED <<schedVars, heap, walk>>
  ELSE /\ heap' = L!list_del(heap, walk)
       /\ walk' = heap'.next[walk]
       /\ IF state[walk] = "SLEEP" THEN WakeupTask(walk) ELSE UNCHANGED schedVars
       /\ UNCHANGED <<owner, pc>>

-----------------------------------------------------------------------------
(* The pid allocator *)

\* get_new_pid: the first free slot from map->current on, -1 if there is none.
get_new_pid ==
  LET free == {i \in pid_map.current .. PidNr - 1 : pid_map.base[i] = M}
  IN  IF pid_map.nr_free = 0 \/ free = {} THEN -1
      ELSE CHOOSE i \in free : \A j \in free : i <= j

\* What get_new_pid does with the slot i it found for task t.
take_pid(t, i) ==
  pid_map' = IF i = -1 THEN pid_map
             ELSE [base    |-> [pid_map.base EXCEPT ![i] = t],
                   nr_free |-> pid_map.nr_free - 1,
                   current |-> pid_map.current + 1]

\* Mutant of release_pid: the slot given out last is cleared.
release_pid_last(t) == pid_map' = [pid_map EXCEPT !.base[pid_map.current - 1] = M]

\* release_pid clears the slot and nothing else.
release_pid(t) == pid_map' = [pid_map EXCEPT !.base[pid[t]] = M]

-----------------------------------------------------------------------------
(* Boot: main.c after build_idle_task *)

\* A new task: its pid, its place on the child list of its parent, and the
\* state change that makes it ready.
BootTask(t, p, entry, next) ==
  /\ CreateTask(t, p)
  /\ pid' = [pid EXCEPT ![t] = get_new_pid]
  /\ take_pid(t, get_new_pid)
  /\ kids' = [kids EXCEPT ![Idle] = @ \cup {t}]
  /\ pc' = [pc EXCEPT ![t] = entry, ![Idle] = next]
  /\ UNCHANGED <<old, child, count, owner, heap, walk, victim, succ>>

\* kthread_run("system_killer"): pid 0 is not a "kernel thread except idle"
\* for init_sched_struct.
BootKiller ==
  /\ At(Idle, "boot_killer")
  /\ BootTask(Killer, KERNEL_THREAD_PRIO - 1, "scan", "boot_init")

\* init_task
BootInit ==
  /\ At(Idle, "boot_init")
  /\ BootTask(Init, PROCESS_DEFAULT_PRIO, "run", "boot_prio")

BootPrio ==
  /\ At(Idle, "boot_prio")
  /\ SetTaskPrio(Idle, MAX_PRIO - 1)
  /\ Goto(Idle, "idle")
  /\ UNCHANGED <<old, child, count, owner, heap, walk, pid, pid_map, kids,
                 victim, succ>>

\* for (;;) sched();
IdleLoop ==
  /\ At(Idle, "idle")
  /\ Schedule
  /\ UNCHANGED kernelVars

-----------------------------------------------------------------------------
(* fork: do_fork, fork_new_task, init_task_struct *)

\* kmalloc gives a task_struct nobody uses.
Fork(t, n) ==
  /\ At(t, "run")
  /\ child' = [child EXCEPT ![t] = n]
  /\ Goto(t, "fork_lock")
  /\ UNCHANGED <<schedVars, old, count, owner, heap, walk, pid, pid_map, kids,
                 victim, succ>>

ForkLock(t) ==
  /\ At(t, "fork_lock") \/ At(t, "fork_wait")
  /\ mutex_lock(t, "fork_sched", "fork_pid")
  /\ UNCHANGED <<old, child, walk, pid, pid_map, kids, victim, succ>>

ForkSched(t) ==
  /\ At(t, "fork_sched")
  /\ Schedule
  /\ Goto(t, "fork_wait")
  /\ UNCHANGED <<old, child, count, owner, heap, walk, pid, pid_map, kids,
                 victim, succ>>

\* get_new_pid with the mutex held, interrupts on: the search, then the update.
ForkFind(t) ==
  /\ At(t, "fork_pid")
  /\ pid' = [pid EXCEPT ![child[t]] = get_new_pid]
  /\ Goto(t, "fork_take")
  /\ UNCHANGED <<schedVars, old, child, count, owner, heap, walk, pid_map, kids,
                 victim, succ>>

ForkTake(t) ==
  /\ At(t, "fork_take")
  /\ take_pid(child[t], pid[child[t]])
  /\ Goto(t, "fork_unlock")
  /\ UNCHANGED <<schedVars, old, child, count, owner, heap, walk, pid, kids,
                 victim, succ>>

ForkUnlock(t) ==
  /\ At(t, "fork_unlock")
  /\ mutex_unlock(t, "fork_walk")
  /\ UNCHANGED <<old, child, pid, pid_map, kids, victim, succ>>

ForkWake(t) ==
  /\ At(t, "fork_walk")
  /\ mutex_wake(t, "fork_rest")
  /\ UNCHANGED <<old, child, count, pid, pid_map, kids, victim, succ>>

\* The rest of fork_new_task and do_fork.  Without a pid the task_struct is
\* given up.  With one it is put on the child list of its parent; then memory
\* is allocated for it, and either that fails, which frees the task_struct
\* and leaves the pid and the child link behind, or the task becomes ready.
ForkRest(t, enough_memory) ==
  LET n == child[t]
  IN  /\ At(t, "fork_rest")
      /\ child' = [child EXCEPT ![t] = M]
      /\ kids' = IF pid[n] = -1 THEN kids ELSE [kids EXCEPT ![t] = @ \cup {n}]
      /\ IF pid[n] # -1 /\ enough_memory
         THEN /\ CreateTask(n, prio[t])
              /\ pc' = [pc EXCEPT ![t] = "run", ![n] = "run"]
         ELSE /\ Goto(t, "run")
              /\ UNCHANGED schedVars
      /\ UNCHANGED <<old, count, owner, heap, walk, pid, pid_map, victim, succ>>

-----------------------------------------------------------------------------
(* exit: sys_exit, sys_signal, signal_kill, task_kill_self *)

\* task_kill_self finds system_killer and set_task_state reads the state of
\* the task.
ExitRead(t) ==
  /\ At(t, "run")
  /\ pid_map.base[0] # M
  /\ old' = [old EXCEPT ![t] = state[t]]
  /\ Goto(t, "exit_stop")
  /\ UNCHANGED <<schedVars, child, count, owner, heap, walk, pid, pid_map, kids,
                 victim, succ>>

\* The update of set_task_state(task, IDLE).
ExitStop(t) ==
  /\ At(t, "exit_stop")
  /\ set_task_state(t, old[t], "IDLE")
  /\ old' = [old EXCEPT ![t] = "UNKNOWN"]
  /\ Goto(t, "exit_check")
  /\ UNCHANGED <<prio, wait_time, time_out, run_time, current, next_run, tick,
                 reaped>>
  /\ UNCHANGED <<child, count, owner, heap, walk, pid, pid_map, kids,
                 victim, succ>>

\* Mutant of ExitCheck: system_killer is not woken.
ExitCheck_never(t) ==
  /\ At(t, "exit_check")
  /\ Goto(t, "exit_sched")
  /\ UNCHANGED <<schedVars, old, child, count, owner, heap, walk, pid, pid_map,
                 kids, victim, succ>>

\* Mutant of ExitCheck: system_killer is woken whether or not it sleeps.
ExitCheck_always(t) ==
  /\ At(t, "exit_check")
  /\ Goto(t, "exit_read")
  /\ UNCHANGED <<schedVars, old, child, count, owner, heap, walk, pid, pid_map,
                 kids, victim, succ>>

\* wakeup_task(system_killer) looks whether it sleeps.
ExitCheck(t) ==
  /\ At(t, "exit_check")
  /\ Goto(t, IF state[pid_map.base[0]] = "SLEEP" THEN "exit_read" ELSE "exit_sched")
  /\ UNCHANGED <<schedVars, old, child, count, owner, heap, walk, pid, pid_map,
                 kids, victim, succ>>

\* get_task_run_time, and the read of set_task_state(task, PREPARE).
ExitReadKiller(t) ==
  /\ At(t, "exit_read")
  /\ run_time' = IF pid_map.base[0] = t THEN 1 ELSE run_time
  /\ old' = [old EXCEPT ![t] = state[pid_map.base[0]]]
  /\ Goto(t, "exit_wake")
  /\ UNCHANGED <<state, prio, wait_time, time_out, q, current, next_run, tick,
                 reaped>>
  /\ UNCHANGED <<child, count, owner, heap, walk, pid, pid_map, kids, victim,
                 succ>>

\* The update of set_task_state(system_killer, PREPARE).
ExitWake(t) ==
  /\ At(t, "exit_wake")
  /\ set_task_state(pid_map.base[0], old[t], "PREPARE")
  /\ old' = [old EXCEPT ![t] = "UNKNOWN"]
  /\ Goto(t, "exit_sched")
  /\ UNCHANGED <<prio, wait_time, time_out, run_time, current, next_run, tick,
                 reaped>>
  /\ UNCHANGED <<child, count, owner, heap, walk, pid, pid_map, kids,
                 victim, succ>>

\* sched(); if it ever returned, the system call would return to the program.
ExitSched(t) ==
  /\ At(t, "exit_sched")
  /\ Schedule
  /\ Goto(t, "run")
  /\ UNCHANGED <<old, child, count, owner, heap, walk, pid, pid_map, kids,
                 victim, succ>>

-----------------------------------------------------------------------------
(* system_killer and kill_task *)

\* The node after the one for t on the idle list, M at the end.
NextIdle(t) ==
  LET s == q.idle.list
  IN  IF \E i \in 1 .. Len(s) - 1 : s[i] = t
      THEN s[1 + CHOOSE i \in 1 .. Len(s) - 1 : s[i] = t]
      ELSE M

\* The walk of the idle list reaches node n.
Visit(n) ==
  /\ victim' = n
  /\ succ' = M
  /\ Goto(Killer, IF n = M THEN "suspend" ELSE "kill")

\* sched_list_for_each(idle, list) starts.
Scan ==
  /\ At(Killer, "scan")
  /\ Visit(IF q.idle.list = <<>> THEN M ELSE q.idle.list[1])
  /\ UNCHANGED <<schedVars, old, child, count, owner, heap, walk, pid, pid_map,
                 kids>>

\* kill_task up to release_pid: the task is IDLE already; sched_remove_task
\* refuses pids 0 and 1.
KillRemove ==
  /\ At(Killer, "kill")
  /\ IF pid[victim] \in {0, 1}
     THEN /\ Goto(Killer, "advance")
          /\ UNCHANGED <<schedVars, succ>>
     ELSE /\ RemoveTask(victim)
          /\ succ' = NextIdle(victim)
          /\ Goto(Killer, "kill_lock")
  /\ UNCHANGED <<old, child, count, owner, heap, walk, pid, pid_map, kids, victim>>

KillLock ==
  /\ At(Killer, "kill_lock") \/ At(Killer, "kill_wait")
  /\ mutex_lock(Killer, "kill_sched", "kill_pid")
  /\ UNCHANGED <<old, child, walk, pid, pid_map, kids, victim, succ>>

KillSched ==
  /\ At(Killer, "kill_sched")
  /\ Schedule
  /\ Goto(Killer, "kill_wait")
  /\ UNCHANGED <<old, child, count, owner, heap, walk, pid, pid_map, kids,
                 victim, succ>>

KillPid ==
  /\ At(Killer, "kill_pid")
  /\ release_pid(victim)
  /\ Goto(Killer, "kill_unlock")
  /\ UNCHANGED <<schedVars, old, child, count, owner, heap, walk, pid, kids,
                 victim, succ>>

KillUnlock ==
  /\ At(Killer, "kill_unlock")
  /\ mutex_unlock(Killer, "kill_walk")
  /\ UNCHANGED <<old, child, pid, pid_map, kids, victim, succ>>

KillWake ==
  /\ At(Killer, "kill_walk")
  /\ mutex_wake(Killer, "kill_rest")
  /\ UNCHANGED <<old, child, count, pid, pid_map, kids, victim, succ>>

\* Mutant of KillRest: the task stays on the child list of its parent.
KillRest_keeps_child ==
  /\ At(Killer, "kill_rest")
  /\ Goto(Killer, IF kids[victim] # {} THEN "kill_spin" ELSE "advance")
  /\ UNCHANGED <<schedVars, old, child, count, owner, heap, walk, pid, pid_map,
                 kids, victim, succ>>

\* The critical section of kill_task, then release_task.  A child is moved to
\* the parent while the loop stands on its node, so the walk goes on along the
\* parent's list and never meets the head it compares with: with a child the
\* loop does not end.  A wait node that was ever linked still
\* points at its old neighbours, is_list_empty calls it linked, and it is
\* deleted again.  The task exited from user mode and owns no mutex, so the
\* loop over mutex_get is empty.
KillRest ==
  /\ At(Killer, "kill_rest")
  /\ kids' = [p \in Tasks |-> kids[p] \ {victim}]
  /\ IF kids[victim] # {}
     THEN /\ Goto(Killer, "kill_spin")
          /\ UNCHANGED heap
     ELSE /\ Goto(Killer, "advance")
          /\ heap' = IF L!is_list_empty(heap, victim) THEN heap
                     ELSE L!list_del(heap, victim)
  /\ UNCHANGED <<schedVars, old, child, count, owner, walk, pid, pid_map, victim,
                 succ>>

\* The loop over the children goes round for ever with interrupts masked.
KillSpin == At(Killer, "kill_spin") /\ UNCHANGED vars

\* list = list->next, read from the node even if it has been deleted.
Advance ==
  /\ At(Killer, "advance")
  /\ Visit(IF victim \in reaped THEN succ ELSE NextIdle(victim))
  /\ UNCHANGED <<schedVars, old, child, count, owner, heap, walk, pid, pid_map,
                 kids>>

\* suspend_task(current)
KillerSuspend ==
  /\ At(Killer, "suspend")
  /\ SuspendTask(Killer, -1)
  /\ Goto(Killer, "rest")
  /\ UNCHANGED <<old, child, count, owner, heap, walk, pid, pid_map, kids,
                 victim, succ>>

KillerSched ==
  /\ At(Killer, "rest")
  /\ Schedule
  /\ Goto(Killer, "scan")
  /\ UNCHANGED <<old, child, count, owner, heap, walk, pid, pid_map, kids,
                 victim, succ>>

-----------------------------------------------------------------------------
(* The timer interrupt *)

IrqsOn == pc[current] \notin IrqOff

Tick ==
  /\ \/ IrqsOn /\ TickEnter
     \/ TickSleeper
     \/ TickSlice
  /\ UNCHANGED kernelVars

-----------------------------------------------------------------------------

KernelInit ==
  /\ SchedInit
  /\ pc = [t \in Tasks |-> IF t = Idle THEN "boot_killer" ELSE "none"]
  /\ old = [t \in Tasks |-> "UNKNOWN"]
  /\ child = [t \in Tasks |-> M]
  /\ count = 0
  /\ owner = M
  /\ heap = L!init_list(Tasks \cup {M})
  /\ walk = M
  /\ pid = [t \in Tasks |-> -1]
  /\ pid_map = [base |-> [i \in 0 .. PidNr - 1 |-> M],
                nr_free |-> PidNr, current |-> 0]
  /\ kids = [t \in Tasks |-> {}]
  /\ victim = M
  /\ succ = M

\* A task_struct that no fork uses and that never became a task.
Unused(n) == pid[n] = -1 /\ \A t \in Tasks : child[t] # n

BootStep == BootKiller \/ BootInit \/ BootPrio

ForkStep(t) ==
  \/ ForkLock(t)
  \/ ForkSched(t)
  \/ ForkFind(t)
  \/ ForkTake(t)
  \/ ForkUnlock(t)
  \/ ForkWake(t)
  \/ \E enough_memory \in BOOLEAN : ForkRest(t, enough_memory)

ExitStep(t) ==
  \/ ExitStop(t)
  \/ ExitCheck(t)
  \/ ExitReadKiller(t)
  \/ ExitWake(t)
  \/ ExitSched(t)

KillerStep ==
  \/ Scan
  \/ KillRemove
  \/ KillLock
  \/ KillSched
  \/ KillPid
  \/ KillUnlock
  \/ KillWake
  \/ KillRest
  \/ KillSpin
  \/ Advance
  \/ KillerSuspend
  \/ KillerSched

\* A step of kernel code by the task on the CPU.
TaskStep ==
  \/ BootStep
  \/ IdleLoop
  \/ \E t \in Forkers : ForkStep(t)
  \/ \E t \in Exiters : ExitStep(t)
  \/ KillerStep

\* A program enters the kernel.
Syscall ==
  \/ \E t \in Forkers, n \in Users : Unused(n) /\ Fork(t, n)
  \/ \E t \in Exiters : ExitRead(t)

KernelNext == TaskStep \/ Syscall \/ Tick

KernelSpec == KernelInit /\ [][KernelNext]_vars

-----------------------------------------------------------------------------
(* Properties *)

\* Every step of the kernel is a step of the scheduler as its clients may use
\* it: set_task_state never acts on a state that changed since the unlocked
\* read, although the exit path reads the killer's state with interrupts on,
\* and no task is stopped, woken or removed out of turn.  With it the theorems
\* about Sched hold of the kernel.
KernelImplementsSched == SchedSpec

\* Between mutex_lock and mutex_unlock of the pid allocator.
HoldsPidMutex(t) ==
  pc[t] \in {"fork_pid", "fork_take", "fork_unlock", "kill_pid", "kill_unlock"}

\* The pid mutex excludes: one task at most is between its lock and its
\* unlock, and count and the owner link say which.  A sleeper that is woken
\* for another reason (an exiting task wakes system_killer wherever it
\* sleeps) must test the mutex again.
MutexExcludes ==
  \A t \in Tasks : HoldsPidMutex(t) <=> (count = 1 /\ owner = t)

\* pid_get_task finds every task that runs or can run: the slot chosen by
\* get_new_pid is still free when it is filled in, a pid is given to one task
\* only, and release_pid clears the slot of the reaped task alone.  The search
\* ends with the map: no slot is given twice, and none is left when the last one
\* has been.
PidFindsTask ==
  /\ \A t \in Tasks \ (reaped \cup {Idle}) :
        state[t] # "UNKNOWN" => pid[t] # -1 /\ pid_map.base[pid[t]] = t
  /\ pid_map.nr_free \in Nat /\ pid_map.current + pid_map.nr_free = PidNr

\* sched() in task_kill_self does not return: at that point system_killer is
\* always ready to take over, whatever it was doing when the task exited, so
\* no program runs on after exit.
ExitNeverReturns == state[current] = "IDLE" => pc[current] # "run"

\* When system_killer is done with a task, nothing in the kernel leads to its
\* released task_struct: no pid, no child list, no list of the scheduler, and
\* not the pointer with which system_killer itself goes on walking the list.
ReleasedIsUnreachable ==
  \A t \in reaped \ {victim} :
     /\ \A i \in 0 .. PidNr - 1 : pid_map.base[i] # t
     /\ \A u \in Tasks : t \notin kids[u]
     /\ succ # t /\ owner # t /\ current # t
     /\ ~On(q.idle, t) /\ ~On(q.system, t)

\* A task that put itself to sleep gets the CPU back without having been woken
\* only when no other task was ready: sched() then returns to it, since
\* find_next_run_task does not look at the priority of the idle task.
UnwokenOnlyWhenIdle ==
  [][\A t \in Tasks :
       /\ pc[t] \in {"rest", "fork_sched", "kill_sched"} /\ pc'[t] # pc[t]
       /\ state[t] = "SLEEP" /\ current' = t
       => \A u \in Tasks \ {Idle} : state[u] # "PREPARE"]_vars

-----------------------------------------------------------------------------
(* Liveness *)

\* The CPU executes kernel code between ticks, however often the tick comes,
\* and a pending tick is taken when interrupts are on again.  Programs need
\* not fork or exit.
Fairness == SF_vars(TaskStep) /\ SF_vars(Tick)

FairKernelSpec == KernelSpec /\ Fairness

\* Round robin: a ready task gets the CPU, however often others are created,
\* exit and are reaped.
ReadyRuns ==
  \A t \in Tasks \ {Idle} : state[t] = "PREPARE" ~> current = t

\* fork of init returns although it may have to wait for the mutex that
\* system_killer holds.  With a second process that forks it need not:
\* see WaitersListed.
ForkReturns == pc[Init] = "fork_lock" ~> pc[Init] = "run"

-----------------------------------------------------------------------------
(* What a comment of the source says and the code does not do *)

\* signal.c, task_kill_self: "when a task try to kill himself, need to wake up
\* system_killer process to help doing this".  A task that has marked itself
\* IDLE is taken off the system in the end.
ExitedIsReaped ==
  \A t \in Users : state[t] = "IDLE" ~> t \in reaped

\* Tasks reachable from the head of the wait list, at most as many links away
\* as there are nodes.
Listed ==
  LET node[k \in 0 .. Cardinality(Tasks)] ==
        heap.next[IF k = 0 THEN M ELSE node[k - 1]]
  IN  {node[k] : k \in 0 .. Cardinality(Tasks)}

\* mutex.c, mutex_unlock: "wake up all the task which wait for this mutex".
\* Whoever sleeps in mutex_lock is on the list that mutex_unlock walks.  An
\* exiting task wakes system_killer out of its sleep in mutex_lock; it links its
\* node, which is still on the list, a second time at the end, and the tasks
\* that came after it are on the list no more.  The same can happen when
\* kill_task deletes the node of a task that once waited: list_del has left its
\* pointers in place, is_list_empty calls it linked, and deleting it again joins
\* its former neighbours.
WaitersListed ==
  \A t \in Tasks :
     state[t] = "SLEEP" /\ pc[t] \in {"fork_wait", "kill_wait"} => t \in Listed

=============================================================================
