------------------------------- MODULE Sched -------------------------------
(***************************************************************************)
(* The scheduler of kernel/sched.c, driven by any clients that use its     *)
(* interface under the discipline of the kernel: every call of             *)
(* set_task_state sees the state the task still has when the lists are     *)
(* changed.  (Kernel.tla splits the unlocked read from the update and      *)
(* checks that the kernel's own call sites keep that discipline.)          *)
(*                                                                         *)
(* There is one CPU.  A step is a section the timer interrupt cannot split *)
(* (enter_critical masks interrupts); the tick handler runs with           *)
(* interrupts masked and is one step per visited node of the sleep list,   *)
(* `tick' being its cursor (0 outside the handler, so in_interrupt is      *)
(* tick # 0).                                                              *)
(*                                                                         *)
(* A list_head chain with its counter (struct sched_list) is a record      *)
(* [list, count].  A sequence stands for the chain as long as only linked  *)
(* nodes are deleted and only unlinked nodes are added, which is what      *)
(* OneListPerState says; KList.tla checks that abstraction.                *)
(***************************************************************************)
EXTENDS Integers, Sequences

CONSTANTS
  Tasks,      \* the task_structs
  Idle,       \* the task built by build_idle_task
  MAX_PRIO,   \* number of priorities, 64 in sched.h
  KERNEL_THREAD_PRIO, \* 5 in sched.h; the idle task boots one level above it
  Timeouts    \* the timeouts suspend_task_timeout is called with

ASSUME SchedAssumption ==
  /\ Idle \in Tasks
  /\ MAX_PRIO \in Nat /\ MAX_PRIO > 1
  /\ KERNEL_THREAD_PRIO \in 1 .. MAX_PRIO - 1
  /\ Timeouts \subseteq Int \ {0}

Prios == 0 .. MAX_PRIO - 1

\* state_t; PROCESS_STATE_STOP is never assigned.
States == {"PREPARE", "RUNNING", "SLEEP", "IDLE", "UNKNOWN"}

VARIABLES
  state,      \* task->state
  prio,       \* task->prio
  wait_time,  \* task->wait_time
  time_out,   \* task->time_out
  run_time,   \* current->run_time; that of any other task is set again
              \* before it runs, so it is not kept
  q,          \* os_sched_table (field prio) and task_sleep, task_idle, task_system
  current,    \* the task on the CPU
  next_run,   \* the task chosen last
  tick,       \* cursor of os_tick_handler in the sleep list, 0 outside it
  reaped      \* tasks that sched_remove_task has taken off the lists

schedVars == <<state, prio, wait_time, time_out, run_time, q, current,
               next_run, tick, reaped>>

-----------------------------------------------------------------------------
(* struct sched_list *)

EmptyList == [list |-> <<>>, count |-> 0]

SchedList == [list : Seq(Tasks), count : Int]

\* t is linked on l.
On(l, t) == \E i \in 1 .. Len(l.list) : l.list[i] = t

list_add(l, t) == [list |-> <<t>> \o l.list, count |-> l.count + 1]

list_add_tail(l, t) == [list |-> Append(l.list, t), count |-> l.count + 1]

\* The chain without the first node for t.
Without(s, t) ==
  LET k == CHOOSE i \in 1 .. Len(s) : s[i] = t
  IN  [i \in 1 .. Len(s) - 1 |-> IF i < k THEN s[i] ELSE s[i + 1]]

\* The counter drops whether or not t was linked.
list_del(l, t) ==
  [list  |-> IF On(l, t) THEN Without(l.list, t) ELSE l.list,
   count |-> l.count - 1]

-----------------------------------------------------------------------------
(* set_task_state *)

\* (old, new) pairs of change_table.  The table is declared with 14 rows and
\* initialised with 12: the zero rows read (PREPARE, PREPARE).
change_table ==
  {<<"UNKNOWN", "PREPARE">>, <<"UNKNOWN", "SLEEP">>,
   <<"PREPARE", "RUNNING">>, <<"PREPARE", "SLEEP">>, <<"PREPARE", "IDLE">>,
   <<"RUNNING", "SLEEP">>, <<"RUNNING", "PREPARE">>, <<"RUNNING", "IDLE">>,
   <<"SLEEP", "PREPARE">>, <<"SLEEP", "IDLE">>, <<"SLEEP", "RUNNING">>,
   <<"PREPARE", "UNKNOWN">>, <<"PREPARE", "PREPARE">>}

\* get_state_change(old, new) # STATE_NONE_TO_NONE
get_state_change(old, new) == <<old, new>> \in change_table

\* Mutant of unlink: a sleeping task is not taken off the sleep list.
unlink_keeps_sleeper(qq, t, p, old) ==
  IF old = "PREPARE" THEN [qq EXCEPT !.prio[p] = list_del(@, t)] ELSE qq

\* The list a task of priority p in state old leaves.
unlink(qq, t, p, old) ==
  CASE old = "PREPARE" -> [qq EXCEPT !.prio[p] = list_del(@, t)]
    [] old = "SLEEP"   -> [qq EXCEPT !.sleep = list_del(@, t)]
    [] OTHER           -> qq

\* The list a task of priority p in state new joins, at the tail.
link(qq, t, p, new) ==
  CASE new = "PREPARE" -> [qq EXCEPT !.prio[p] = list_add_tail(@, t)]
    [] new = "SLEEP"   -> [qq EXCEPT !.sleep = list_add_tail(@, t)]
    [] new = "IDLE"    -> [qq EXCEPT !.idle = list_add_tail(@, t)]
    [] OTHER           -> qq

\* A task seen for the first time joins the system list; STATE_NONE_TO_SLEEP
\* puts it at the front of the sleep list.  The zero rows of the table select
\* STATE_NONE_TO_PREPARE.
enlist(qq, t, p, new) ==
  LET qs == [qq EXCEPT !.system = list_add_tail(@, t)]
  IN  IF new = "SLEEP" THEN [qs EXCEPT !.sleep = list_add(@, t)]
                       ELSE link(qs, t, p, new)

\* The switch of set_task_state.
relink(qq, t, p, old, new) ==
  IF old = "UNKNOWN" \/ (old = "PREPARE" /\ new = "PREPARE")
  THEN enlist(qq, t, p, new)
  ELSE link(unlink(qq, t, p, old), t, p, new)

\* set_task_state(t, new) when `old' was read from task->state: the lists
\* afterwards, and the state afterwards.  A pair the table does not list
\* changes nothing.
set_task_state_q(qq, t, p, old, new) ==
  IF get_state_change(old, new) THEN relink(qq, t, p, old, new) ELSE qq

set_task_state_st(st, t, old, new) ==
  IF get_state_change(old, new) THEN [st EXCEPT ![t] = new] ELSE st

-----------------------------------------------------------------------------
(* find_next_run_task and prepare_to_switch *)

\* Priorities find_next_run_task looks at: the loop ends before MAX_PRIO - 1.
ReadyPrios == {p \in 0 .. MAX_PRIO - 2 : q.prio[p].count # 0}

\* Mutant of find_next_run_task: with nothing ready, the first task of the
\* system list is taken, whatever its state.
find_next_run_task_any ==
  IF ReadyPrios = {}
  THEN IF q.system.list = <<>> THEN current ELSE q.system.list[1]
  ELSE LET i == CHOOSE p \in ReadyPrios : \A r \in ReadyPrios : p <= r
       IN  q.prio[i].list[1]

\* Mutant of find_next_run_task: the task that was filed last is taken.
find_next_run_task_last ==
  IF ReadyPrios = {}
  THEN current
  ELSE LET i == CHOOSE p \in ReadyPrios : \A r \in ReadyPrios : p <= r
       IN  q.prio[i].list[Len(q.prio[i].list)]

\* Mutant of find_next_run_task: the loop ends one priority earlier.
find_next_run_task_less ==
  LET ready == ReadyPrios \ {MAX_PRIO - 2}
  IN  IF ready = {}
      THEN current
      ELSE LET i == CHOOSE p \in ready : \A r \in ready : p <= r
           IN  q.prio[i].list[1]

find_next_run_task ==
  IF ReadyPrios = {}
  THEN current
  ELSE LET i == CHOOSE p \in ReadyPrios : \A r \in ReadyPrios : p <= r
       IN  q.prio[i].list[1]

\* Mutant of prepare_to_switch: the outgoing task is not filed.
prepare_to_switch_unfiled(next) ==
  /\ IF next = current
     THEN UNCHANGED <<state, q, wait_time, time_out>>
     ELSE /\ time_out' = IF wait_time[next] = 0
                         THEN [time_out EXCEPT ![next] = 1]
                         ELSE time_out
          /\ wait_time' = [wait_time EXCEPT ![next] = -1]
          /\ q' = set_task_state_q(q, next, prio[next], state[next], "RUNNING")
          /\ state' = set_task_state_st(state, next, state[next], "RUNNING")
  /\ run_time' = 1
  /\ next_run' = next
  /\ current' = next

\* prepare_to_switch(next) followed by the context switch that makes next
\* current (arch_switch_task_sw, os_exit_irq).
prepare_to_switch(next) ==
  LET cst == state[current]
      q1  == IF cst = "RUNNING"
             THEN set_task_state_q(q, current, prio[current], cst, "PREPARE")
             ELSE q
      st1 == IF cst = "RUNNING"
             THEN set_task_state_st(state, current, cst, "PREPARE")
             ELSE state
  IN  /\ IF next = current
         THEN UNCHANGED <<state, q, wait_time, time_out>>
         ELSE /\ time_out' = IF wait_time[next] = 0
                             THEN [time_out EXCEPT ![next] = 1]
                             ELSE time_out
              /\ wait_time' = [wait_time EXCEPT ![next] = -1]
              /\ q' = set_task_state_q(q1, next, prio[next], st1[next], "RUNNING")
              /\ state' = set_task_state_st(st1, next, st1[next], "RUNNING")
      /\ run_time' = 1
      /\ next_run' = next
      /\ current' = next

-----------------------------------------------------------------------------
(* Operations *)

\* No interrupt handler is running.
InTask == tick = 0

\* The state of an initialised task changes to `new', as set_task_state does
\* when the old state it read, `old', is passed along.
set_task_state(t, old, new) ==
  /\ q' = set_task_state_q(q, t, prio[t], old, new)
  /\ state' = set_task_state_st(state, t, old, new)

\* init_sched_struct, then set_task_state(new, PREPARE) at the end of do_fork
\* or do_exec.  Until then nothing but its pid names the task.
CreateTask(t, p) ==
  /\ InTask
  /\ state[t] = "UNKNOWN"
  /\ prio' = [prio EXCEPT ![t] = p]
  /\ wait_time' = [wait_time EXCEPT ![t] = -1]
  /\ time_out' = [time_out EXCEPT ![t] = 0]
  /\ q' = set_task_state_q(q, t, p, "UNKNOWN", "PREPARE")
  /\ state' = set_task_state_st(state, t, "UNKNOWN", "PREPARE")
  /\ UNCHANGED <<run_time, current, next_run, tick, reaped>>

\* The critical section of suspend_task_timeout; the call of sched() that
\* follows it is Schedule.  An IDLE task is refused.
SuspendTask(t, timeout) ==
  /\ InTask
  /\ state[t] # "IDLE"
  /\ wait_time' = [wait_time EXCEPT ![t] = timeout]
  /\ time_out' = [time_out EXCEPT ![t] = 0]
  /\ set_task_state(t, state[t], "SLEEP")
  /\ UNCHANGED <<prio, run_time, current, next_run, tick, reaped>>

\* wakeup_task
WakeupTask(t) ==
  /\ InTask
  /\ state[t] = "SLEEP"
  /\ run_time' = IF t = current THEN 1 ELSE run_time
  /\ set_task_state(t, state[t], "PREPARE")
  /\ UNCHANGED <<prio, wait_time, time_out, current, next_run, tick, reaped>>

\* set_task_state(t, IDLE), the first step of an exit or a kill.
StopTask(t) ==
  /\ InTask
  /\ set_task_state(t, state[t], "IDLE")
  /\ UNCHANGED <<prio, wait_time, time_out, run_time, current, next_run, tick,
                 reaped>>

\* sched_remove_task up to release_pid.
RemoveTask(t) ==
  /\ InTask
  /\ state[t] = "IDLE"
  /\ q' = [q EXCEPT !.idle = list_del(@, t), !.system = list_del(@, t)]
  /\ reaped' = reaped \cup {t}
  /\ UNCHANGED <<state, prio, wait_time, time_out, run_time, current, next_run,
                 tick>>

\* Mutant of SetTaskPrio: the new priority is one too large.
SetTaskPrio_next(t, p) ==
  /\ InTask
  /\ state[t] \in {"RUNNING", "SLEEP"}
  /\ prio' = [prio EXCEPT ![t] = p + 1]
  /\ UNCHANGED <<state, q, wait_time, time_out, run_time, current, next_run,
                 tick, reaped>>

\* set_task_prio(t, p).  A PREPARE task goes through UNKNOWN; the second
\* set_task_state then takes it for a new task.
SetTaskPrio(t, p) ==
  /\ InTask
  /\ state[t] \in {"RUNNING", "SLEEP", "PREPARE"}
  /\ prio' = [prio EXCEPT ![t] = p]
  /\ q' = IF state[t] = "PREPARE"
          THEN set_task_state_q(
                 set_task_state_q(q, t, prio[t], "PREPARE", "UNKNOWN"),
                 t, p, "UNKNOWN", "PREPARE")
          ELSE q
  /\ UNCHANGED state
  /\ UNCHANGED <<wait_time, time_out, run_time, current, next_run, tick, reaped>>

\* sched()
Schedule ==
  /\ InTask
  /\ prepare_to_switch(find_next_run_task)
  /\ UNCHANGED <<prio, tick, reaped>>

\* The timer interrupt: do_irq_handler calls os_tick_handler.
TickEnter ==
  /\ InTask
  /\ tick' = 1
  /\ UNCHANGED <<state, prio, wait_time, time_out, run_time, q, current,
                 next_run, reaped>>

\* One node of the sleep list.  A node that is woken leaves the list and its
\* successor is visited next.
TickSleeper ==
  /\ tick \in 1 .. Len(q.sleep.list)
  /\ LET t == q.sleep.list[tick]
         w == IF wait_time[t] > 0 THEN wait_time[t] - 1 ELSE wait_time[t]
     IN  /\ wait_time' = [wait_time EXCEPT ![t] = w]
         /\ IF w = 0
            THEN set_task_state(t, state[t], "PREPARE") /\ UNCHANGED tick
            ELSE tick' = tick + 1 /\ UNCHANGED <<q, state>>
  /\ UNCHANGED <<prio, time_out, run_time, current, next_run, reaped>>

\* Mutant of TickSlice: the slice ends one tick late.
TickSlice_late ==
  /\ tick > Len(q.sleep.list)
  /\ tick' = 0
  /\ IF run_time - 1 < 0
     THEN prepare_to_switch(find_next_run_task)
     ELSE /\ run_time' = run_time - 1
          /\ current' = next_run
          /\ UNCHANGED <<state, q, wait_time, time_out, next_run>>
  /\ UNCHANGED <<prio, reaped>>

\* The rest of the handler: the slice of the current task, and the switch of
\* os_exit_irq if another task was chosen.
TickSlice ==
  /\ tick > Len(q.sleep.list)
  /\ tick' = 0
  /\ IF run_time - 1 = 0
     THEN prepare_to_switch(find_next_run_task)
     ELSE /\ run_time' = run_time - 1
          /\ current' = next_run
          /\ UNCHANGED <<state, q, wait_time, time_out, next_run>>
  /\ UNCHANGED <<prio, reaped>>

-----------------------------------------------------------------------------
\* Right after sched_init and build_idle_task: the idle task runs and is on
\* no list.
SchedInit ==
  /\ state = [t \in Tasks |-> IF t = Idle THEN "RUNNING" ELSE "UNKNOWN"]
  /\ prio = [t \in Tasks |-> KERNEL_THREAD_PRIO - 1]
  /\ wait_time = [t \in Tasks |-> -1]
  /\ time_out = [t \in Tasks |-> 0]
  /\ run_time = 1
  /\ q = [prio |-> [p \in Prios |-> EmptyList],
          sleep |-> EmptyList, idle |-> EmptyList, system |-> EmptyList]
  /\ current = Idle
  /\ next_run = Idle
  /\ tick = 0
  /\ reaped = {}

\* The task a client may suspend, stop or change the priority of: it has been
\* created, it is not reaped, and the idle task is never suspended or stopped.
Live(t) == t # Idle /\ state[t] # "UNKNOWN" /\ t \notin reaped

\* The only priority ever changed is that of a task that is not on a
\* priority list (main.c lowers the running idle task).
SchedNext ==
  \/ \E t \in Tasks, p \in Prios : t # Idle /\ CreateTask(t, p)
  \/ \E t \in Tasks, n \in Timeouts : Live(t) /\ SuspendTask(t, n)
  \/ \E t \in Tasks : Live(t) /\ WakeupTask(t)
  \/ \E t \in Tasks : Live(t) /\ StopTask(t)
  \/ \E t \in Tasks : Live(t) /\ t # current /\ RemoveTask(t)
  \/ \E t \in Tasks, p \in Prios :
        t \notin reaped /\ state[t] # "PREPARE" /\ SetTaskPrio(t, p)
  \/ Schedule
  \/ TickEnter
  \/ TickSleeper
  \/ TickSlice

SchedSpec == SchedInit /\ [][SchedNext]_schedVars

-----------------------------------------------------------------------------
(* Properties *)

\* The types of the variables.
TypeOK ==
  /\ state \in [Tasks -> States]
  /\ prio \in [Tasks -> Prios]
  /\ wait_time \in [Tasks -> Int]
  /\ time_out \in [Tasks -> {0, 1}]
  /\ run_time \in Int
  /\ q \in [prio : [Prios -> SchedList], sleep : SchedList, idle : SchedList,
            system : SchedList]
  /\ current \in Tasks
  /\ next_run \in Tasks
  /\ tick \in Nat
  /\ reaped \subseteq Tasks

\* A list without repeated nodes whose counter is its length.
WellFormed(l) ==
  /\ \A i, j \in 1 .. Len(l.list) : l.list[i] = l.list[j] => i = j
  /\ l.count = Len(l.list)

\* Every task is on the list of its state and on no other, and every task but
\* the idle one is on the system list from its creation to its removal.
Filed(qq, st, pr, rp) ==
  /\ \A p \in Prios : WellFormed(qq.prio[p])
  /\ WellFormed(qq.sleep) /\ WellFormed(qq.idle) /\ WellFormed(qq.system)
  /\ \A t \in Tasks :
        /\ \A p \in Prios : On(qq.prio[p], t) <=> st[t] = "PREPARE" /\ pr[t] = p
        /\ On(qq.sleep, t) <=> st[t] = "SLEEP"
        /\ On(qq.idle, t) <=> st[t] = "IDLE" /\ t \notin rp
        /\ On(qq.system, t) <=> /\ t # Idle
                                /\ st[t] # "UNKNOWN"
                                /\ t \notin rp

\* Documents/sched.txt: at any moment a task is linked on the system list and
\* on the list of its current state, and on nothing else; the counters that
\* find_next_run_task trusts agree with the chains.  Every path of
\* set_task_state, sched_remove_task and the tick handler must keep this.
OneListPerState == Filed(q, state, prio, reaped)

\* prepare_to_switch files the outgoing task before the incoming one is marked
\* RUNNING: no two tasks are ever RUNNING, and the one that is owns the CPU.
RunningIsCurrent == \A t \in Tasks : state[t] = "RUNNING" => t = current

\* The current task always has one tick to run and is the task chosen last.
\* The handler tests run_time for equality with 0 after decrementing it, so a
\* task resumed with run_time 0 would never be preempted, and os_exit_irq
\* switches to next_run even on a tick that chose nobody.
SliceArmed == run_time = 1 /\ next_run = current

\* Once a task is IDLE (exiting or killed) it stays IDLE, and once it has lost
\* the CPU no switch gives it back: its stack and memory can be released.
NeverResumed ==
  \A t \in Tasks :
     state[t] = "IDLE" => state'[t] = "IDLE" /\ (current' = t => current = t)

IdleIsFinal == [][NeverResumed]_schedVars

=============================================================================
