---------------------------- MODULE KernelProofs ----------------------------
(***************************************************************************)
(* Proofs about Kernel, for any number of tasks, pids and priorities.      *)
(*                                                                         *)
(* KInv is the inductive invariant.  It says at each place of a task's     *)
(* path which state the task has (WherePart), who owns the mutex           *)
(* (MutexPart), how far the pid, the task_struct and the links of a task   *)
(* have come (ChildPart, PidPart, ReapPart) and that nothing happens       *)
(* before boot has created the tasks it takes (BootOK).  The scheduler     *)
(* enters through IInv, the invariant SchedProofs has proved: every step   *)
(* of the kernel is shown to be a step of SchedNext first (StepOfSched),   *)
(* so NextIInv carries IInv over, and the rest is preserved part by part.  *)
(*                                                                         *)
(* The parts depend on each other.  An exit stops the task it thinks it    *)
(* stops only because the state it read is still there (WherePart); it     *)
(* wakes system_killer only because slot 0 is still system_killer's        *)
(* (PidPart); the slot is found free only because the mutex excludes the   *)
(* others (MutexPart); and release_pid clears the right slot only because  *)
(* nobody else removes a victim (ReapPart).                                *)
(***************************************************************************)
EXTENDS Kernel, SchedProofs

\* The processes, and the nodes of the wait list.
Procs == {Init} \cup Users

Nodes == Tasks \cup {M}

\* Where the idle task, system_killer and a process can be.
IdlePlaces == {"boot_killer", "boot_init", "boot_prio", "idle"}

KillerPlaces ==
  {"none", "scan", "kill", "kill_lock", "kill_sched", "kill_wait", "kill_pid",
   "kill_unlock", "kill_walk", "kill_rest", "kill_spin", "advance", "suspend",
   "rest"}

ProcPlaces ==
  {"none", "run", "fork_lock", "fork_sched", "fork_wait", "fork_pid",
   "fork_take", "fork_unlock", "fork_walk", "fork_rest", "exit_stop",
   "exit_check", "exit_read", "exit_wake", "exit_sched"}

\* Every task is at a place of its own code.
PcOK ==
  /\ pc \in [Tasks -> IdlePlaces \cup KillerPlaces \cup ProcPlaces]
  /\ pc[Idle] \in IdlePlaces /\ pc[Killer] \in KillerPlaces
  /\ \A t \in Procs : pc[t] \in ProcPlaces

\* The type of the list_heads.
Heap == [next : [Nodes -> Nodes], pre : [Nodes -> Nodes]]

\* The types of the variables Kernel adds to those of Sched.
KernelTypeOK ==
  /\ PcOK
  /\ old \in [Tasks -> States]
  /\ child \in [Tasks -> Users \cup {M}]
  /\ count \in {0, 1} /\ owner \in Nodes
  /\ heap \in Heap /\ walk \in Nodes
  /\ pid \in [Tasks -> -1 .. PidNr - 1]
  /\ pid_map \in [base : [0 .. PidNr - 1 -> Nodes], nr_free : Nat, current : Nat]
  /\ kids \in [Tasks -> SUBSET Tasks]
  /\ victim \in Nodes /\ succ \in Nodes

\* What the kernel adds to the invariant of the scheduler.
SchedPart ==
  /\ IInv
  /\ \A t \in Tasks : wait_time[t] = -1
  /\ \A t \in Tasks \ {Idle} : prio[t] <= MAX_PRIO - 2
  /\ current \notin reaped

\* A task that has stopped itself.
Exited == {"exit_check", "exit_read", "exit_wake", "exit_sched"}

\* A process on the CPU is RUNNING, but for two stretches: asleep in mutex_lock
\* until sched has found another task or the mutex is free, and stopped on its
\* way to the last sched.
OnCpu(t) ==
  CASE pc[t] = "fork_sched" -> state[t] = "SLEEP" /\ count = 1
    [] pc[t] = "fork_wait"  -> state[t] = "RUNNING" \/ (state[t] = "SLEEP" /\ count = 1)
    [] pc[t] \in Exited     ->
         /\ pc[t] \in {"exit_read", "exit_wake"} => state[Killer] = "SLEEP"
         /\ pc[t] = "exit_sched" => state[Killer] = "PREPARE"
    [] OTHER -> state[t] = "RUNNING"

\* What is known of a process at each place.
ProcOK(t) ==
  /\ pc[t] = "none" <=> state[t] = "UNKNOWN"
  /\ pc[t] \in Exited => state[t] = "IDLE"
  /\ state[t] = "IDLE" => pc[t] \in Exited \cup {"run"}
  /\ t = current => OnCpu(t)
  /\ pc[t] = "exit_stop" => old[t] = "RUNNING"
  /\ pc[t] = "exit_wake" => old[t] = "SLEEP"
  /\ pc[t] \in {"fork_sched", "fork_walk"} => t = current /\ tick = 0

\* What is known of system_killer; it may run without having been woken.
KillerOK ==
  /\ pc[Killer] = "none" <=> state[Killer] = "UNKNOWN"
  /\ state[Killer] # "IDLE"
  /\ pc[Killer] \in {"kill_sched", "kill_walk", "kill_spin"} =>
       current = Killer /\ tick = 0

\* The idle task is always ready.
IdleOK == state[Idle] = IF current = Idle THEN "RUNNING" ELSE "PREPARE"

\* Nobody is there before it is created.
BootOK ==
  /\ pc[Killer] = "none" <=> pc[Idle] = "boot_killer"
  /\ pc[Idle] \in {"boot_killer", "boot_init"} =>
       /\ \A t \in Procs : pc[t] = "none"
       /\ pid_map.current = IF pc[Idle] = "boot_killer" THEN 0 ELSE 1

\* Where each task is and the state it has.
WherePart == (\A t \in Procs : ProcOK(t)) /\ KillerOK /\ IdleOK

\* The mutex has the owner that its count tells, until the wakeup loop ends.
MutexPart ==
  /\ MutexExcludes
  /\ \A t \in Tasks : pc[t] \in {"fork_walk", "kill_walk"} => owner = t /\ count = 0
  /\ owner # M => HoldsPidMutex(owner) \/ pc[owner] \in {"fork_walk", "kill_walk"}

\* fork before get_new_pid, and as long as it uses its task_struct.
BeforePid == {"fork_lock", "fork_sched", "fork_wait", "fork_pid"}
Forking == BeforePid \cup {"fork_take", "fork_unlock", "fork_walk", "fork_rest"}

\* A task_struct being filled in is used by one fork and is no task yet.
ChildPart ==
  /\ \A t \in Tasks : pc[t] \in Forking <=> child[t] # M
  /\ \A t \in Tasks : child[t] # M => state[child[t]] = "UNKNOWN"
  /\ \A t, u \in Tasks : child[t] = child[u] /\ child[t] # M => t = u
  /\ \A t \in Tasks : pc[t] \in BeforePid => pid[child[t]] = -1

\* The slot that has been chosen for n and is not filled in yet.
Chosen(n) == \E t \in Tasks : pc[t] = "fork_take" /\ child[t] = n

\* The answer of get_new_pid: slots are given in order, none twice.
NextPid == IF pid_map.nr_free = 0 THEN -1 ELSE pid_map.current

\* A slot holds the task that has its number, and a task with a number is in
\* its slot from take_pid to release_pid.
PidPart ==
  /\ pid_map.current + pid_map.nr_free = PidNr
  /\ \A i \in 0 .. PidNr - 1 : i >= pid_map.current => pid_map.base[i] = M
  /\ \A i \in 0 .. PidNr - 1 : pid_map.base[i] # M => pid[pid_map.base[i]] = i
  /\ \A t \in Tasks \ {Idle} : state[t] # "UNKNOWN" => pid[t] # -1
  /\ \A t \in {Killer, Init} : state[t] = "UNKNOWN" => pid[t] = -1
  /\ \A t \in Tasks : pid[t] # -1 /\ t \notin reaped /\ ~Chosen(t)
       => pid_map.base[pid[t]] = t
  /\ \A t \in Tasks : pc[t] = "fork_take" => pid[child[t]] = NextPid
  /\ pc[Killer] # "none" => pid[Killer] = 0

\* kill_task before release_pid, and before its last critical section.
BeforeRelease == {"kill_lock", "kill_sched", "kill_wait", "kill_pid"}
BeforeRest == BeforeRelease \cup {"kill_unlock", "kill_walk", "kill_rest"}

\* How far system_killer has come with its victim, and what still leads to a
\* removed task.
ReapPart ==
  /\ pc[Killer] = "kill" =>
       victim # M /\ state[victim] = "IDLE" /\ victim \notin reaped
  /\ pc[Killer] \in BeforeRest => victim \in reaped
  /\ pc[Killer] = "advance" => victim # M
  /\ pc[Killer] \in BeforeRelease =>
       pid[victim] # -1 /\ pid_map.base[pid[victim]] = victim
  /\ succ # M => state[succ] = "IDLE" /\ succ \notin reaped
  /\ \A t \in reaped : ~(t = victim /\ pc[Killer] \in BeforeRelease) =>
       \A i \in 0 .. PidNr - 1 : pid_map.base[i] # t
  /\ \A t \in reaped : ~(t = victim /\ pc[Killer] \in BeforeRest) =>
       \A u \in Tasks : t \notin kids[u]

\* The inductive invariant.
KInv ==
  /\ KernelTypeOK /\ SchedPart /\ WherePart /\ BootOK /\ MutexPart /\ ChildPart
  /\ PidPart /\ ReapPart

-----------------------------------------------------------------------------
(* Facts about the constants and the operators *)

\* Who is who among the tasks.
LEMMA Members ==
  /\ Idle \in Tasks /\ Killer \in Tasks /\ Init \in Tasks /\ Users \subseteq Tasks
  /\ Tasks = {Idle, Killer} \cup Procs /\ Idle \notin Procs /\ Killer \notin Procs
  /\ Idle # Killer /\ M \notin Tasks /\ Nodes = Tasks \cup {M}
  /\ Users \subseteq Procs /\ Init \in Procs /\ Init \notin Users
  /\ Forkers \subseteq Procs /\ Exiters \subseteq Procs
BY KernelAssumption DEF Procs, Nodes

\* The numbers that the parts compare.
LEMMA Bounds ==
  /\ MAX_PRIO \in Nat /\ PidNr \in Nat /\ 0 \in 0 .. PidNr - 1 /\ 1 \in 0 .. PidNr - 1
  /\ KERNEL_THREAD_PRIO - 1 \in Prios /\ KERNEL_THREAD_PRIO - 1 <= MAX_PRIO - 2
  /\ PROCESS_DEFAULT_PRIO \in Prios /\ PROCESS_DEFAULT_PRIO <= MAX_PRIO - 2
  /\ MAX_PRIO - 1 \in Prios /\ -1 \in Timeouts
BY KernelAssumption, SchedAssumption DEF Prios

\* One assignment to a pointer of the heap.
LEMMA Store ==
  ASSUME NEW h \in Heap, NEW a \in Nodes, NEW b \in Nodes
  PROVE  [h EXCEPT !.next[a] = b] \in Heap /\ [h EXCEPT !.pre[a] = b] \in Heap
BY DEF Heap

\* What a pointer of the heap points at.
LEMMA Load ==
  ASSUME NEW h \in Heap, NEW a \in Nodes
  PROVE  h.next[a] \in Nodes /\ h.pre[a] \in Nodes
BY DEF Heap

\* list_add_tail and list_del keep the type of the heap.
LEMMA ListOps ==
  ASSUME NEW h \in Heap, NEW a \in Nodes, NEW b \in Nodes
  PROVE  L!list_add_tail(h, a, b) \in Heap /\ L!list_del(h, a) \in Heap
<1>1. L!list_add_tail(h, a, b) \in Heap
  <2> DEFINE h1 == [h EXCEPT !.next[h.pre[a]] = b]
             h2 == [h1 EXCEPT !.next[b] = a]
             h3 == [h2 EXCEPT !.pre[b] = h2.pre[a]]
  <2>1. h1 \in Heap  BY Load, Store
  <2> HIDE DEF h1
  <2>2. h2 \in Heap  BY <2>1, Store
  <2> HIDE DEF h2
  <2>3. h3 \in Heap  BY <2>2, Load, Store
  <2> HIDE DEF h3
  <2>4. [h3 EXCEPT !.pre[a] = b] \in Heap  BY <2>3, Store
  <2> QED  BY <2>4 DEF L!list_add_tail, h1, h2, h3
<1>2. L!list_del(h, a) \in Heap
  <2> DEFINE h1 == [h EXCEPT !.pre[h.next[a]] = h.pre[a]]
  <2>1. h1 \in Heap  BY Load, Store
  <2> HIDE DEF h1
  <2>2. [h1 EXCEPT !.next[h1.pre[a]] = h1.next[a]] \in Heap  BY <2>1, Load, Store
  <2> QED  BY <2>2 DEF L!list_del, h1
<1> QED  BY <1>1, <1>2

\* A switch, by sched or on a tick: nothing changes, and then the current task
\* is itself filed as ready or nobody else that find_next_run_task looks at is;
\* or a ready task becomes the RUNNING one and a RUNNING one becomes ready.
LEMMA SwitchEffect ==
  ASSUME IInv, Schedule \/ TickSlice
  PROVE  /\ UNCHANGED <<prio, reaped>> /\ tick' = 0
         /\ \/ /\ UNCHANGED <<state, wait_time, current>>
               /\ \/ state[current] = "PREPARE"
                  \/ \A u \in Tasks : prio[u] <= MAX_PRIO - 2 => state[u] # "PREPARE"
            \/ \E n \in Tasks :
                 /\ n # current /\ state[n] = "PREPARE" /\ current' = n
                 /\ state' = [u \in Tasks |->
                      IF u = n THEN "RUNNING"
                      ELSE IF u = current /\ state[u] = "RUNNING" THEN "PREPARE"
                      ELSE state[u]]
                 /\ wait_time' = [wait_time EXCEPT ![n] = -1]
<1> USE DEF IInv
<1>0. /\ UNCHANGED <<prio, reaped>> /\ tick' = 0
      /\ prepare_to_switch(find_next_run_task)
  BY DEF Schedule, TickSlice, SliceArmed, InTask
<1> DEFINE n == find_next_run_task
<1>1. n \in Tasks /\ (n = current \/ state[n] = "PREPARE")
  BY FindNext
<1>2. state \in [Tasks -> States] /\ current \in Tasks /\ prio \in [Tasks -> Prios]
  BY DEF TypeOK
<1>3. ReadyPrios = {} => \A u \in Tasks : prio[u] <= MAX_PRIO - 2 => state[u] # "PREPARE"
  <2> SUFFICES ASSUME ReadyPrios = {}, NEW u \in Tasks, prio[u] <= MAX_PRIO - 2,
                      state[u] = "PREPARE"
               PROVE  FALSE
    OBVIOUS
  <2>1. prio[u] \in Prios /\ prio[u] \in 0 .. MAX_PRIO - 2
    BY <1>2, SchedAssumption DEF Prios
  <2>2. On(q.prio[prio[u]], u) /\ WellFormed(q.prio[prio[u]])
    BY <2>1 DEF OneListPerState, Filed
  <2>3. q.prio[prio[u]] \in SchedList
    BY <2>1 DEF TypeOK
  <2>4. q.prio[prio[u]].count # 0
    BY <2>2, <2>3 DEF On, WellFormed, SchedList
  <2> QED  BY <2>1, <2>4 DEF ReadyPrios
<1>4. n = current => state[current] = "PREPARE" \/ ReadyPrios = {}
  BY FindNext
<1> HIDE DEF n
<1>5. CASE n = current
  BY <1>0, <1>3, <1>4, <1>5 DEF prepare_to_switch, n
<1>6. CASE n # current
  <2> DEFINE st1 == IF state[current] = "RUNNING"
                    THEN set_task_state_st(state, current, state[current], "PREPARE")
                    ELSE state
  <2>1. /\ st1 \in [Tasks -> States]
        /\ \A u \in Tasks : st1[u] = IF u = current /\ state[u] = "RUNNING"
                                     THEN "PREPARE" ELSE state[u]
    BY <1>2 DEF set_task_state_st, get_state_change, change_table, States
  <2>2. /\ state' = set_task_state_st(st1, n, st1[n], "RUNNING") /\ current' = n
        /\ wait_time' = [wait_time EXCEPT ![n] = -1]
    BY <1>0, <1>6 DEF prepare_to_switch, n
  <2> HIDE DEF st1
  <2>3. st1[n] = "PREPARE"
    BY <1>1, <1>6, <2>1
  <2>4. state' = [st1 EXCEPT ![n] = "RUNNING"]
    BY <2>2, <2>3 DEF set_task_state_st, get_state_change, change_table
  <2>5. state' = [u \in Tasks |->
                      IF u = n THEN "RUNNING"
                      ELSE IF u = current /\ state[u] = "RUNNING" THEN "PREPARE"
                      ELSE state[u]]
    BY <2>1, <2>4
  <2> QED  BY <1>0, <1>1, <1>6, <2>2, <2>5
<1> QED  BY <1>5, <1>6

-----------------------------------------------------------------------------
(* What leaves a part of the invariant alone *)

\* The places between mutex_lock and the end of mutex_unlock.
Inside == {"fork_pid", "fork_take", "fork_unlock", "fork_walk",
           "kill_pid", "kill_unlock", "kill_walk"}

\* A task moves to another place of its own code.
LEMMA PcKeeps ==
  ASSUME PcOK, NEW t \in Tasks, NEW l, pc' = [pc EXCEPT ![t] = l],
         t = Idle => l \in IdlePlaces, t = Killer => l \in KillerPlaces,
         t \in Procs => l \in ProcPlaces
  PROVE  PcOK'
BY Members DEF PcOK

\* Steps outside mutex_lock and mutex_unlock, and between them.
LEMMA MutexKeeps ==
  ASSUME MutexPart, owner \in Nodes, UNCHANGED <<count, owner>>,
         \A u \in Tasks : \/ pc'[u] = pc[u]
                          \/ pc[u] \notin Inside /\ pc'[u] \notin Inside
                          \/ HoldsPidMutex(u) /\ HoldsPidMutex(u)'
  PROVE  MutexPart'
BY Members DEF MutexPart, MutexExcludes, HoldsPidMutex, Inside

\* Steps that create no task and start and end no fork.
LEMMA ChildKeeps ==
  ASSUME ChildPart, KernelTypeOK, UNCHANGED <<child, pid>>,
         \A u \in Tasks : pc'[u] \in Forking <=> pc[u] \in Forking,
         \A u \in Tasks : pc'[u] \in BeforePid => pc[u] \in BeforePid,
         \A u \in Tasks : state[u] = "UNKNOWN" => state'[u] = "UNKNOWN"
  PROVE  ChildPart'
BY Members DEF ChildPart, KernelTypeOK

\* Steps that give no pid, take none back and create no task.
LEMMA PidKeeps ==
  ASSUME PidPart, UNCHANGED <<pid, pid_map, child, reaped>>,
         \A u \in Tasks : pc'[u] = "fork_take" <=> pc[u] = "fork_take",
         pc'[Killer] = "none" <=> pc[Killer] = "none",
         \A u \in Tasks : state'[u] = "UNKNOWN" <=> state[u] = "UNKNOWN"
  PROVE  PidPart'
BY Members DEF PidPart, Chosen, NextPid

\* Steps after boot, and ticks.
LEMMA BootKeeps ==
  ASSUME BootOK, pid_map'.current = pid_map.current, pc'[Idle] = pc[Idle],
         \A u \in Tasks : pc'[u] = "none" <=> pc[u] = "none"
  PROVE  BootOK'
BY Members DEF BootOK

\* Steps that neither reap nor walk.
LEMMA ReapKeeps ==
  ASSUME ReapPart, KernelTypeOK, reaped \subseteq Tasks,
         UNCHANGED <<victim, succ, kids, pid, pid_map, reaped>>,
         pc'[Killer] \in BeforeRelease <=> pc[Killer] \in BeforeRelease,
         pc'[Killer] \in BeforeRest <=> pc[Killer] \in BeforeRest,
         pc'[Killer] \in {"kill", "advance"} => pc'[Killer] = pc[Killer],
         \A u \in Tasks : state[u] = "IDLE" => state'[u] = "IDLE"
  PROVE  ReapPart'
BY Members DEF ReapPart, KernelTypeOK, Nodes

\* The task on the CPU takes a step that may wake others: what is known of them
\* stays.
LEMMA WhereKeeps ==
  ASSUME KernelTypeOK, WherePart, NEW t \in Tasks, current = t, tick = 0,
         NEW l, pc' = [pc EXCEPT ![t] = l], UNCHANGED <<current, tick>>,
         \A u \in Procs : u # t =>
            /\ old'[u] = old[u]
            /\ state'[u] = state[u] \/ (state[u] = "SLEEP" /\ state'[u] = "PREPARE"),
         state'[Idle] = state[Idle],
         t = Killer => l # "none" /\ pc[Killer] # "none",
         state'[Killer] = "UNKNOWN" <=> state[Killer] = "UNKNOWN",
         state'[Killer] # "IDLE",
         t \in Procs => ProcOK(t)'
  PROVE  WherePart'
<1>1. \A u \in Tasks : u # t => pc'[u] = pc[u]
  BY DEF KernelTypeOK, PcOK
<1>2. pc'[t] = l
  BY DEF KernelTypeOK, PcOK
<1>3. ASSUME NEW u \in Procs PROVE ProcOK(u)'
  <2>1. CASE u = t
    BY <2>1
  <2>2. CASE u # t
    BY <1>1, <2>2, Members DEF WherePart, ProcOK, Exited
  <2> QED  BY <2>1, <2>2
<1>4. KillerOK'
  BY <1>1, <1>2, Members DEF WherePart, KillerOK
<1>5. IdleOK'
  BY DEF WherePart, IdleOK
<1> QED  BY <1>3, <1>4, <1>5 DEF WherePart

\* A switch leaves what is known of the tasks other than the one that gave up
\* the CPU.
LEMMA WhereSwitch ==
  ASSUME KernelTypeOK, SchedPart, WherePart, Schedule \/ TickSlice,
         NEW c \in Tasks, c = current, NEW l, pc' = [pc EXCEPT ![c] = l],
         UNCHANGED <<old, count>>,
         c = Killer => /\ l \notin {"kill_sched", "kill_walk", "kill_spin"}
                       /\ l = "none" <=> pc[Killer] = "none",
         c \in Procs => ProcOK(c)'
  PROVE  WherePart'
<1>0. IInv /\ current \in Tasks /\ state \in [Tasks -> States]
  BY DEF SchedPart, IInv, TypeOK
<1>1. /\ \A u \in Tasks : u # current => pc'[u] = pc[u]
      /\ pc'[current] = l
  BY <1>0 DEF KernelTypeOK, PcOK
<1>2. \/ UNCHANGED <<state, current>>
      \/ \E n \in Tasks :
             /\ n # current /\ state[n] = "PREPARE" /\ current' = n
             /\ state' = [u \in Tasks |->
                    IF u = n THEN "RUNNING"
                    ELSE IF u = current /\ state[u] = "RUNNING" THEN "PREPARE"
                    ELSE state[u]]
  BY <1>0, SwitchEffect
<1>3. ASSUME NEW u \in Procs PROVE ProcOK(u)'
  <2>1. CASE u = current
    BY <1>3, <2>1
  <2>2. CASE u # current
    <3>1. ProcOK(u) /\ u \in Tasks
      BY Members DEF WherePart
    <3>2. CASE UNCHANGED <<state, current>>
      BY <1>1, <2>2, <3>1, <3>2 DEF ProcOK, Exited
    <3>3. ASSUME NEW n \in Tasks, n # current, state[n] = "PREPARE", current' = n,
                 state' = [v \in Tasks |->
                    IF v = n THEN "RUNNING"
                    ELSE IF v = current /\ state[v] = "RUNNING" THEN "PREPARE"
                    ELSE state[v]]
          PROVE  ProcOK(u)'
      <4>1. state'[u] = IF u = n THEN "RUNNING" ELSE state[u]
        BY <2>2, <3>1, <3>3
      <4>2. u = n => pc[u] \notin Exited \cup {"none", "fork_sched"}
        BY <2>2, <3>1, <3>3 DEF ProcOK, Exited
      <4> QED  BY <1>1, <2>2, <3>1, <3>3, <4>1, <4>2 DEF ProcOK, Exited, OnCpu
    <3> QED  BY <1>2, <3>2, <3>3
  <2> QED  BY <2>1, <2>2
<1>4. KillerOK' /\ IdleOK'
  <2>1. /\ state'[Killer] = "UNKNOWN" <=> state[Killer] = "UNKNOWN"
        /\ state'[Killer] # "IDLE"
        /\ state'[Idle] = IF current' = Idle THEN "RUNNING" ELSE "PREPARE"
    BY <1>0, <1>2, Members DEF WherePart, KillerOK, IdleOK
  <2>2. SUFFICES KillerOK'  BY <2>1 DEF IdleOK
  <2>3. pc[Killer] \in {"kill_sched", "kill_walk", "kill_spin"} => current = Killer
    BY DEF WherePart, KillerOK
  <2>4. pc'[Killer] \notin {"kill_sched", "kill_walk", "kill_spin"}
    BY <1>1, <2>3, Members
  <2>5. pc'[Killer] = "none" <=> pc[Killer] = "none"
    BY <1>1, Members
  <2> QED  BY <2>1, <2>4, <2>5 DEF WherePart, KillerOK
<1> QED  BY <1>3, <1>4 DEF WherePart

-----------------------------------------------------------------------------
(* The steps that switch *)

\* The scheduler's part of the invariant, after a step of the scheduler.
LEMMA SchedKeeps ==
  ASSUME SchedPart, [SchedNext]_schedVars, \A u \in Tasks : wait_time'[u] = -1,
         \A u \in Tasks \ {Idle} : prio'[u] <= MAX_PRIO - 2, current' \notin reaped'
  PROVE  SchedPart'
BY NextIInv DEF SchedPart

\* What the steps that switch do with the pc of the task that calls sched: the
\* idle loop and the tick leave it alone.
SwitchPlaces(c, l) ==
  \/ l = pc[c] /\ (TickSlice \/ c = Idle)
  \/ c \in Procs /\ pc[c] = "fork_sched" /\ l = "fork_wait"
  \/ c \in Procs /\ pc[c] = "exit_sched" /\ l = "run"
  \/ c = Killer /\ pc[c] = "kill_sched" /\ l = "kill_wait"
  \/ c = Killer /\ pc[c] = "rest" /\ l = "scan"

\* sched() by a task and at the end of a tick.
LEMMA SwitchStep ==
  ASSUME KInv, Schedule \/ TickSlice,
         NEW c \in Tasks, c = current, NEW l, pc' = [pc EXCEPT ![c] = l],
         SwitchPlaces(c, l),
         UNCHANGED <<old, child, count, owner, heap, walk, pid, pid_map, kids,
                     victim, succ>>
  PROVE  KInv' /\ SchedNext
<1> USE DEF KInv
<1>0. /\ IInv /\ state \in [Tasks -> States] /\ prio \in [Tasks -> Prios]
      /\ reaped \subseteq Tasks /\ \A u \in reaped : state[u] = "IDLE"
      /\ wait_time \in [Tasks -> Int] /\ PcOK /\ current \notin reaped
      /\ \A u \in Tasks : wait_time[u] = -1
      /\ \A u \in Tasks \ {Idle} : prio[u] <= MAX_PRIO - 2
  BY DEF SchedPart, IInv, TypeOK, KernelTypeOK
<1>1. SchedNext
  BY DEF SchedNext
<1>2. /\ UNCHANGED <<prio, reaped>> /\ tick' = 0
      /\ \/ /\ UNCHANGED <<state, wait_time, current>>
            /\ \/ state[current] = "PREPARE"
               \/ \A u \in Tasks : prio[u] <= MAX_PRIO - 2 => state[u] # "PREPARE"
         \/ \E n \in Tasks :
              /\ n # current /\ state[n] = "PREPARE" /\ current' = n
              /\ state' = [u \in Tasks |->
                   IF u = n THEN "RUNNING"
                   ELSE IF u = current /\ state[u] = "RUNNING" THEN "PREPARE"
                   ELSE state[u]]
              /\ wait_time' = [wait_time EXCEPT ![n] = -1]
  BY <1>0, SwitchEffect
<1>3. /\ \A u \in Tasks : wait_time'[u] = -1
      /\ current' \notin reaped'
      /\ \A u \in Tasks : state'[u] = "UNKNOWN" <=> state[u] = "UNKNOWN"
      /\ \A u \in Tasks : state[u] = "IDLE" => state'[u] = "IDLE"
      /\ \A u \in Tasks : u # c /\ current' = c => state'[u] = state[u]
      /\ current' = c => state'[c] = state[c]
      /\ state[c] # "RUNNING" => state'[c] = state[c]
      /\ state[c] = "RUNNING" => state'[c] \in {"RUNNING", "PREPARE"}
  BY <1>0, <1>2
<1>4. SchedPart'
  BY <1>0, <1>1, <1>2, <1>3, SchedKeeps
<1>5. /\ \A u \in Tasks : u # c => pc'[u] = pc[u]
      /\ pc'[c] = l
  BY <1>0 DEF PcOK
<1>6. TickSlice => tick # 0
  BY <1>0 DEF TickSlice, IInv, TypeOK, SchedList
<1>7. c \in Procs => ProcOK(c)'
  <2> SUFFICES ASSUME c \in Procs PROVE ProcOK(c)'
    OBVIOUS
  <2>1. ProcOK(c)
    BY DEF WherePart
  <2>2. CASE l = pc[c] /\ (TickSlice \/ c = Idle)
    <3>1. l \notin {"fork_sched", "fork_walk"} /\ c # Idle
      BY <1>6, <2>1, <2>2, Members DEF ProcOK
    <3>2. (c = current => OnCpu(c)) /\ (current' = c => OnCpu(c)')
      BY <1>3, <1>5, <2>1, <2>2, Members DEF ProcOK, OnCpu
    <3> QED  BY <1>3, <1>5, <2>1, <2>2, <3>1, <3>2 DEF ProcOK, Exited
  <2>3. CASE pc[c] = "fork_sched" /\ l = "fork_wait"
    BY <1>3, <1>5, <2>1, <2>3 DEF ProcOK, Exited, OnCpu
  <2>4. CASE pc[c] = "exit_sched" /\ l = "run"
    <3>1. state[c] = "IDLE" /\ state[Killer] = "PREPARE"
      BY <2>1, <2>4 DEF ProcOK, Exited, OnCpu
    <3>2. current' # c
      BY <1>0, <1>2, <3>1, Members
    <3> QED  BY <1>3, <1>5, <2>1, <2>4, <3>1, <3>2 DEF ProcOK, Exited
  <2> QED  BY <2>2, <2>3, <2>4, Members DEF SwitchPlaces
<1>8. WherePart'
  <2>1. c = Killer => /\ l \notin {"kill_sched", "kill_walk", "kill_spin"}
                      /\ l = "none" <=> pc[Killer] = "none"
    BY <1>6, Members DEF SwitchPlaces, WherePart, KillerOK
  <2> QED  BY <1>7, <2>1, WhereSwitch
<1>9. KernelTypeOK'
  <2>1. PcOK'
    BY <1>0, PcKeeps, Members DEF SwitchPlaces, PcOK, ProcPlaces, KillerPlaces
  <2> QED  BY <2>1 DEF KernelTypeOK
<1>10. /\ \A u \in Tasks : pc'[u] = pc[u] \/ (pc[u] \notin Inside /\ pc'[u] \notin Inside)
       /\ \A u \in Tasks : pc'[u] \in Forking <=> pc[u] \in Forking
       /\ \A u \in Tasks : pc'[u] \in BeforePid => pc[u] \in BeforePid
       /\ \A u \in Tasks : pc'[u] = "fork_take" <=> pc[u] = "fork_take"
       /\ \A u \in Tasks : pc'[u] = "none" <=> pc[u] = "none"
       /\ pc'[Idle] = pc[Idle]
  BY <1>5, Members DEF SwitchPlaces, Inside, Forking, BeforePid
<1>11. /\ pc'[Killer] \in BeforeRelease <=> pc[Killer] \in BeforeRelease
       /\ pc'[Killer] \in BeforeRest <=> pc[Killer] \in BeforeRest
       /\ pc'[Killer] \in {"kill", "advance"} => pc'[Killer] = pc[Killer]
  BY <1>5, Members DEF SwitchPlaces, BeforeRelease, BeforeRest
<1>12. MutexPart'
  BY <1>10, MutexKeeps DEF KernelTypeOK
<1>13. ChildPart'
  BY <1>3, <1>10, ChildKeeps
<1>14. PidPart'
  BY <1>2, <1>3, <1>10, PidKeeps, Members
<1>15. BootOK'
  BY <1>10, BootKeeps
<1>16. ReapPart'
  BY <1>0, <1>2, <1>3, <1>11, ReapKeeps
<1> QED  BY <1>1, <1>4, <1>8, <1>9, <1>12, <1>13, <1>14, <1>15, <1>16

-----------------------------------------------------------------------------
(* The steps of mutex_lock and mutex_unlock *)

\* A task that goes from a to b is as far with its fork and with its victim as
\* it was.
SamePhase(a, b) ==
  /\ b \in Forking <=> a \in Forking
  /\ b \in BeforePid => a \in BeforePid
  /\ b = "fork_take" <=> a = "fork_take"
  /\ b = "none" <=> a = "none"
  /\ b \in BeforeRelease <=> a \in BeforeRelease
  /\ b \in BeforeRest <=> a \in BeforeRest
  /\ b \in {"kill", "advance"} => b = a

\* Steps of the task on the CPU that change neither pids nor children nor the
\* walk of system_killer keep everything but the mutex.
LEMMA StepKeeps ==
  ASSUME KInv, NEW t \in Tasks, current = t, tick = 0, t # Idle,
         NEW l, pc' = [pc EXCEPT ![t] = l], SamePhase(pc[t], l),
         [SchedNext]_schedVars, UNCHANGED <<current, tick, prio, reaped>>,
         UNCHANGED <<child, pid, pid_map, kids, victim, succ>>,
         \A u \in Tasks : wait_time'[u] = -1,
         \A u \in Procs : u # t =>
            /\ old'[u] = old[u]
            /\ state'[u] = state[u] \/ (state[u] = "SLEEP" /\ state'[u] = "PREPARE"),
         state'[Idle] = state[Idle],
         \A u \in Tasks : state'[u] = "UNKNOWN" <=> state[u] = "UNKNOWN",
         \A u \in Tasks : state[u] = "IDLE" => state'[u] = "IDLE",
         state'[Killer] # "IDLE",
         t = Killer => l # "none",
         t \in Procs => ProcOK(t)'
  PROVE  SchedPart' /\ WherePart' /\ ChildPart' /\ PidPart' /\ BootOK' /\ ReapPart'
<1> USE DEF KInv
<1>0. /\ current \notin reaped /\ \A u \in Tasks \ {Idle} : prio[u] <= MAX_PRIO - 2
      /\ PcOK /\ reaped \subseteq Tasks
  BY DEF SchedPart, KernelTypeOK, IInv, TypeOK
<1>1. (\A u \in Tasks : u # t => pc'[u] = pc[u]) /\ pc'[t] = l
  BY <1>0 DEF PcOK
<1>2. \A u \in Tasks : SamePhase(pc[u], pc'[u])
  BY <1>1 DEF SamePhase
<1>3. SchedPart'
  BY <1>0, SchedKeeps
<1>4. WherePart'
  BY WhereKeeps, Members, ZenonT(40) DEF SamePhase
<1>5. ChildPart'
  BY <1>2, ChildKeeps DEF SamePhase
<1>6. PidPart'
  BY <1>2, PidKeeps, Members DEF SamePhase
<1>7. BootOK'
  BY <1>1, <1>2, BootKeeps, Members DEF SamePhase
<1>8. ReapPart'
  BY <1>0, <1>2, ReapKeeps, Members DEF SamePhase
<1> QED  BY <1>3, <1>4, <1>5, <1>6, <1>7, <1>8

\* The two callers of mutex_lock.
LockPlaces(t, s, l) ==
  \/ t \in Procs /\ pc[t] \in {"fork_lock", "fork_wait"} /\ s = "fork_sched" /\ l = "fork_pid"
  \/ t = Killer /\ pc[t] \in {"kill_lock", "kill_wait"} /\ s = "kill_sched" /\ l = "kill_pid"

\* A caller of the mutex exists and is not reaped.
LEMMA CallerIsLive ==
  ASSUME KInv, NEW t \in Tasks, t = current, pc[t] # "none", t # Idle
  PROVE  Live(t)
BY Members DEF KInv, WherePart, ProcOK, KillerOK, SchedPart, Live

\* suspend_task(current): it sleeps and that is all.
LEMMA SuspendEffect ==
  ASSUME KInv, NEW t \in Tasks, Live(t), SuspendTask(t, -1)
  PROVE  /\ SchedNext /\ state' = [state EXCEPT ![t] = "SLEEP"]
         /\ \A u \in Tasks : wait_time'[u] = -1
         /\ UNCHANGED <<prio, current, tick, reaped>> /\ state[t] # "IDLE"
<1>1. state \in [Tasks -> States] /\ wait_time \in [Tasks -> Int]
  BY DEF KInv, SchedPart, IInv, TypeOK
<1>2. SchedNext
  BY Bounds DEF SchedNext
<1>3. state' = [state EXCEPT ![t] = "SLEEP"]
  BY <1>1 DEF SuspendTask, set_task_state, set_task_state_st, get_state_change,
              change_table, States
<1>4. \A u \in Tasks : wait_time'[u] = -1
  BY <1>1 DEF SuspendTask, KInv, SchedPart
<1> QED  BY <1>2, <1>3, <1>4 DEF SuspendTask

\* A round of mutex_lock by fork or by system_killer.
LEMMA LockStep ==
  ASSUME KInv, NEW t \in Tasks, current = t, tick = 0, NEW s, NEW l,
         LockPlaces(t, s, l), mutex_lock(t, s, l),
         UNCHANGED <<old, child, walk, pid, pid_map, kids, victim, succ>>
  PROVE  KInv' /\ [SchedNext]_schedVars
<1> USE DEF KInv
<1>0. /\ PcOK /\ state \in [Tasks -> States] /\ count \in {0, 1}
      /\ heap \in Heap /\ M \in Nodes /\ t \in Nodes /\ pc[t] # "none" /\ t # Idle
      /\ \A u \in Tasks : wait_time[u] = -1
      /\ pc \in [Tasks -> IdlePlaces \cup KillerPlaces \cup ProcPlaces]
  BY Members DEF KernelTypeOK, LockPlaces, SchedPart, IInv, TypeOK, PcOK
<1>1. Live(t)
  BY <1>0, CallerIsLive
<1>2. t \in Procs => ProcOK(t)
  BY DEF WherePart
<1>3. SamePhase(pc[t], s) /\ SamePhase(pc[t], l)
  BY DEF LockPlaces, SamePhase, Forking, BeforePid, BeforeRelease, BeforeRest
<1>k. state[Killer] # "IDLE"
  BY DEF WherePart, KillerOK
<1>4. CASE count = 1
  <2>1. /\ heap' = L!list_add_tail(heap, M, t) /\ SuspendTask(t, -1)
        /\ pc' = [pc EXCEPT ![t] = s] /\ UNCHANGED <<count, owner>>
    BY <1>4 DEF mutex_lock, Goto
  <2>2. /\ SchedNext /\ state' = [state EXCEPT ![t] = "SLEEP"]
        /\ \A u \in Tasks : wait_time'[u] = -1
        /\ UNCHANGED <<prio, current, tick, reaped>> /\ state[t] # "IDLE"
    BY <1>1, <2>1, SuspendEffect
  <2>3. t \in Procs => ProcOK(t)'
    BY <1>0, <1>2, <1>4, <2>1, <2>2, Members DEF ProcOK, LockPlaces, Exited, OnCpu
  <2>4. KernelTypeOK'
    <3>1. PcOK'
      BY <1>0, <2>1, PcKeeps, Members DEF LockPlaces, ProcPlaces, KillerPlaces
    <3>2. heap' \in Heap
      BY <1>0, <2>1, ListOps
    <3> QED  BY <2>1, <3>1, <3>2 DEF KernelTypeOK
  <2>5. MutexPart'
    <3>1. \A u \in Tasks : pc'[u] = pc[u] \/ (pc[u] \notin Inside /\ pc'[u] \notin Inside)
      BY <1>0, <2>1 DEF LockPlaces, Inside
    <3> QED  BY <2>1, <3>1, MutexKeeps DEF KernelTypeOK
  <2>6. SchedPart' /\ WherePart' /\ ChildPart' /\ PidPart' /\ BootOK' /\ ReapPart'
    <3>1. /\ \A u \in Procs : u # t => state'[u] = state[u]
          /\ state'[Idle] = state[Idle] /\ state'[Killer] # "IDLE"
          /\ \A u \in Tasks : state'[u] = "UNKNOWN" <=> state[u] = "UNKNOWN"
          /\ \A u \in Tasks : state[u] = "IDLE" => state'[u] = "IDLE"
      BY <1>0, <1>1, <1>k, <2>2, Members DEF Live
    <3>2. t = Killer => s # "none"
      BY Members DEF LockPlaces
    <3> QED  BY <1>0, <1>3, <2>1, <2>2, <2>3, <3>1, <3>2, StepKeeps
  <2> QED  BY <2>2, <2>4, <2>5, <2>6
<1>5. CASE count # 1
  <2>1. /\ count' = 1 /\ owner' = t /\ pc' = [pc EXCEPT ![t] = l]
        /\ UNCHANGED schedVars /\ heap' = heap
    BY <1>5 DEF mutex_lock, Goto
  <2>2. UNCHANGED <<state, prio, wait_time, current, tick, reaped>>
    BY <2>1 DEF schedVars
  <2>3. t \in Procs => ProcOK(t)'
    BY <1>0, <1>2, <1>5, <2>1, <2>2, Members DEF ProcOK, LockPlaces, Exited, OnCpu
  <2>4. KernelTypeOK'
    <3>1. PcOK'
      BY <1>0, <2>1, PcKeeps, Members DEF LockPlaces, ProcPlaces, KillerPlaces
    <3> QED  BY <1>0, <2>1, <3>1 DEF KernelTypeOK
  <2>5. MutexPart'
    <3>1. \A u \in Tasks : pc[u] \notin {"fork_walk", "kill_walk"}
      BY <1>0, Members DEF WherePart, ProcOK, KillerOK, LockPlaces, PcOK, IdlePlaces,
                           KillerPlaces, ProcPlaces
    <3>2. \A u \in Tasks : ~HoldsPidMutex(u)
      BY <1>5 DEF MutexPart, MutexExcludes
    <3>3. /\ pc'[t] = l /\ \A u \in Tasks : u # t => pc'[u] = pc[u]
          /\ l \in {"fork_pid", "kill_pid"}
      BY <1>0, <2>1 DEF LockPlaces
    <3> QED  BY <2>1, <3>1, <3>2, <3>3 DEF MutexPart, MutexExcludes, HoldsPidMutex
  <2>6. SchedPart' /\ WherePart' /\ ChildPart' /\ PidPart' /\ BootOK' /\ ReapPart'
    <3>1. t = Killer => l # "none"
      BY Members DEF LockPlaces
    <3> QED  BY <1>0, <1>3, <1>k, <2>1, <2>2, <2>3, <3>1, StepKeeps
  <2> QED  BY <2>1, <2>4, <2>5, <2>6
<1> QED  BY <1>4, <1>5

\* wakeup_task of a sleeper: it becomes ready and that is all.
LEMMA WakeupEffect ==
  ASSUME KInv, NEW x \in Tasks, state[x] = "SLEEP", WakeupTask(x)
  PROVE  /\ SchedNext /\ state' = [state EXCEPT ![x] = "PREPARE"]
         /\ UNCHANGED <<wait_time, prio, current, tick, reaped>>
<1>1. /\ state \in [Tasks -> States] /\ \A u \in reaped : state[u] = "IDLE"
  BY DEF KInv, SchedPart, IInv, TypeOK
<1>2. Live(x)
  BY <1>1 DEF Live, KInv, WherePart, IdleOK
<1>3. SchedNext
  BY <1>2 DEF SchedNext
<1>4. state' = [state EXCEPT ![x] = "PREPARE"]
  BY <1>1 DEF WakeupTask, set_task_state, set_task_state_st, get_state_change, change_table
<1> QED  BY <1>3, <1>4 DEF WakeupTask

\* The start of mutex_unlock: the owner link stays until the loop ends.
LEMMA UnlockStep ==
  ASSUME KInv, NEW t \in Tasks, current = t, tick = 0, NEW l,
         \/ t \in Procs /\ pc[t] = "fork_unlock" /\ l = "fork_walk"
         \/ t = Killer /\ pc[t] = "kill_unlock" /\ l = "kill_walk",
         mutex_unlock(t, l),
         UNCHANGED <<old, child, pid, pid_map, kids, victim, succ>>
  PROVE  KInv' /\ [SchedNext]_schedVars
<1> USE DEF KInv
<1>0. /\ PcOK /\ heap \in Heap /\ M \in Nodes /\ t # Idle
      /\ \A u \in Tasks : wait_time[u] = -1
      /\ pc \in [Tasks -> IdlePlaces \cup KillerPlaces \cup ProcPlaces]
      /\ state[Killer] # "IDLE"
  BY Members DEF KernelTypeOK, SchedPart, PcOK, WherePart, KillerOK
<1>1. /\ count' = 0 /\ walk' = heap.next[M] /\ pc' = [pc EXCEPT ![t] = l]
      /\ UNCHANGED schedVars /\ UNCHANGED <<owner, heap>>
  BY DEF mutex_unlock, Goto
<1>2. UNCHANGED <<state, prio, wait_time, current, tick, reaped>>
  BY <1>1 DEF schedVars
<1>3. t \in Procs => ProcOK(t)'
  <2>1. t \in Procs => ProcOK(t)
    BY DEF WherePart
  <2> QED  BY <1>0, <1>1, <1>2, <2>1, Members DEF ProcOK, Exited, OnCpu
<1>4. KernelTypeOK'
  <2>1. PcOK'
    BY <1>0, <1>1, PcKeeps, Members DEF ProcPlaces, KillerPlaces
  <2>2. walk' \in Nodes
    BY <1>0, <1>1, Load
  <2> QED  BY <1>1, <2>1, <2>2 DEF KernelTypeOK
<1>5. MutexPart'
  <2>1. owner = t /\ \A u \in Tasks : u # t => ~HoldsPidMutex(u)
    BY DEF MutexPart, MutexExcludes, HoldsPidMutex
  <2>2. pc'[t] = l /\ \A u \in Tasks : u # t => pc'[u] = pc[u]
    BY <1>0, <1>1
  <2>3. \A u \in Tasks : u # t => pc[u] \notin {"fork_walk", "kill_walk"}
    BY <2>1 DEF MutexPart
  <2> QED  BY <1>1, <2>1, <2>2, <2>3 DEF MutexPart, MutexExcludes, HoldsPidMutex
<1>6. SamePhase(pc[t], l) /\ (t = Killer => l # "none")
  BY Members DEF SamePhase, Forking, BeforePid, BeforeRelease, BeforeRest
<1>7. SchedPart' /\ WherePart' /\ ChildPart' /\ PidPart' /\ BootOK' /\ ReapPart'
  BY <1>0, <1>1, <1>2, <1>3, <1>6, StepKeeps
<1> QED  BY <1>1, <1>4, <1>5, <1>7

\* The loop of mutex_unlock: a waiter is woken, or the mutex is let go.
LEMMA WakeStep ==
  ASSUME KInv, NEW t \in Tasks, current = t, tick = 0, NEW l,
         \/ t \in Procs /\ pc[t] = "fork_walk" /\ l = "fork_rest"
         \/ t = Killer /\ pc[t] = "kill_walk" /\ l = "kill_rest",
         mutex_wake(t, l),
         UNCHANGED <<old, child, count, pid, pid_map, kids, victim, succ>>
  PROVE  KInv' /\ [SchedNext]_schedVars
<1> USE DEF KInv
<1>0. /\ PcOK /\ heap \in Heap /\ walk \in Nodes /\ t # Idle
      /\ \A u \in Tasks : wait_time[u] = -1
      /\ state \in [Tasks -> States]
      /\ pc \in [Tasks -> IdlePlaces \cup KillerPlaces \cup ProcPlaces]
      /\ state[Killer] # "IDLE"
  BY Members DEF KernelTypeOK, SchedPart, PcOK, WherePart, KillerOK, IInv, TypeOK
<1>1. /\ t \in Procs => ProcOK(t) /\ state[t] = "RUNNING"
      /\ owner = t /\ count = 0
  BY Members DEF WherePart, ProcOK, OnCpu, Exited, MutexPart
<1>2. CASE walk = M
  <2>1. /\ owner' = M /\ pc' = [pc EXCEPT ![t] = l]
        /\ UNCHANGED schedVars /\ UNCHANGED <<heap, walk>>
    BY <1>2 DEF mutex_wake, Goto
  <2>2. UNCHANGED <<state, prio, wait_time, current, tick, reaped>>
    BY <2>1 DEF schedVars
  <2>3. t \in Procs => ProcOK(t)'
    BY <1>0, <1>1, <2>1, <2>2, Members DEF ProcOK, Exited, OnCpu
  <2>4. KernelTypeOK'
    <3>1. PcOK'
      BY <1>0, <2>1, PcKeeps, Members DEF ProcPlaces, KillerPlaces
    <3> QED  BY <2>1, <3>1, Members DEF KernelTypeOK
  <2>5. MutexPart'
    <3>1. pc'[t] = l /\ \A u \in Tasks : u # t => pc'[u] = pc[u]
      BY <1>0, <2>1
    <3>2. \A u \in Tasks : ~HoldsPidMutex(u)
      BY <1>1 DEF MutexPart, MutexExcludes
    <3>3. \A u \in Tasks : u # t => pc[u] \notin {"fork_walk", "kill_walk"}
      BY <1>1 DEF MutexPart
    <3> QED  BY <1>1, <2>1, <3>1, <3>2, <3>3 DEF MutexPart, MutexExcludes, HoldsPidMutex
  <2>6. SamePhase(pc[t], l) /\ (t = Killer => l # "none")
    BY Members DEF SamePhase, Forking, BeforePid, BeforeRelease, BeforeRest
  <2>7. SchedPart' /\ WherePart' /\ ChildPart' /\ PidPart' /\ BootOK' /\ ReapPart'
    BY <1>0, <2>1, <2>2, <2>3, <2>6, StepKeeps
  <2> QED  BY <2>1, <2>4, <2>5, <2>7
<1>3. CASE walk # M
  <2>1. /\ heap' = L!list_del(heap, walk) /\ walk' = heap'.next[walk]
        /\ IF state[walk] = "SLEEP" THEN WakeupTask(walk) ELSE UNCHANGED schedVars
        /\ UNCHANGED <<owner, pc>> /\ walk \in Tasks
    BY <1>0, <1>3, Members DEF mutex_wake
  <2>2. pc' = [pc EXCEPT ![t] = pc[t]] /\ SamePhase(pc[t], pc[t]) /\ (t = Killer => pc[t] # "none")
    BY <1>0, <2>1, Members DEF SamePhase
  <2>3. /\ [SchedNext]_schedVars /\ UNCHANGED <<wait_time, prio, current, tick, reaped>>
        /\ \A u \in Tasks : state'[u] = state[u] \/ (state[u] = "SLEEP" /\ state'[u] = "PREPARE")
    <3>1. CASE state[walk] = "SLEEP"
      BY <1>0, <2>1, <3>1, WakeupEffect
    <3>2. CASE state[walk] # "SLEEP"
      BY <2>1, <3>2 DEF schedVars
    <3> QED  BY <3>1, <3>2
  <2>4. KernelTypeOK'
    <3>1. heap' \in Heap /\ walk' \in Nodes
      BY <1>0, <2>1, ListOps, Load
    <3>2. PcOK'
      BY <1>0, <2>1 DEF PcOK
    <3> QED  BY <2>1, <3>1, <3>2 DEF KernelTypeOK
  <2>5. MutexPart'
    BY <2>1, MutexKeeps DEF KernelTypeOK
  <2>6. t \in Procs => ProcOK(t)'
    BY <1>1, <2>1, <2>3, Members DEF ProcOK, Exited, OnCpu
  <2>7. state'[Idle] = state[Idle] /\ state'[Killer] # "IDLE"
    BY <1>0, <2>3, Members DEF WherePart, IdleOK
  <2>8. SchedPart' /\ WherePart' /\ ChildPart' /\ PidPart' /\ BootOK' /\ ReapPart'
    <3>1. \A u \in Procs : u # t =>
            /\ old'[u] = old[u]
            /\ state'[u] = state[u] \/ (state[u] = "SLEEP" /\ state'[u] = "PREPARE")
      BY <2>3, Members
    <3>2. /\ \A u \in Tasks : state'[u] = "UNKNOWN" <=> state[u] = "UNKNOWN"
          /\ \A u \in Tasks : state[u] = "IDLE" => state'[u] = "IDLE"
          /\ \A u \in Tasks : wait_time'[u] = -1
      BY <1>0, <2>3
    <3> QED  BY <1>0, <2>1, <2>2, <2>3, <2>6, <2>7, <3>1, <3>2, StepKeeps
  <2> QED  BY <2>3, <2>4, <2>5, <2>8
<1> QED  BY <1>2, <1>3

-----------------------------------------------------------------------------
(* The steps of exit *)

\* Once there is a process, slot 0 of the pid map leads to system_killer, and
\* system_killer is neither new nor gone.
LEMMA SlotZero ==
  ASSUME KInv, NEW t \in Procs, pc[t] # "none"
  PROVE  pid_map.base[0] = Killer /\ state[Killer] \notin {"UNKNOWN", "IDLE"}
<1> USE DEF KInv
<1>1. pc[Killer] # "none"
  BY DEF BootOK
<1>2. state[Killer] \notin {"UNKNOWN", "IDLE"}
  BY <1>1 DEF WherePart, KillerOK
<1>3. Killer \notin reaped
  BY <1>2 DEF SchedPart, IInv
<1>4. ~Chosen(Killer)
  BY Members DEF Chosen, KernelTypeOK, Procs
<1>5. pid[Killer] = 0
  BY <1>1 DEF PidPart
<1> QED  BY <1>2, <1>3, <1>4, <1>5, Members DEF PidPart

\* A step on the exit path: only the task itself and system_killer are touched.
LEMMA ExitKeeps ==
  ASSUME KInv, NEW t \in Procs, current = t, tick = 0,
         NEW l \in {"exit_stop"} \cup Exited, pc[t] \in {"run", "exit_stop"} \cup Exited,
         pc' = [pc EXCEPT ![t] = l], [SchedNext]_schedVars,
         UNCHANGED <<current, tick, prio, wait_time, reaped>>,
         NEW o \in States, old' = [old EXCEPT ![t] = o],
         UNCHANGED <<child, count, owner, heap, walk, pid, pid_map, kids, victim, succ>>,
         \A u \in Tasks \ {Killer} : u # t => state'[u] = state[u],
         state'[Killer] = state[Killer] \/ state'[Killer] = "PREPARE",
         state[t] = "IDLE" => state'[t] = "IDLE", state'[t] # "UNKNOWN",
         ProcOK(t)'
  PROVE  KInv'
<1> USE DEF KInv
<1>0. /\ PcOK /\ old \in [Tasks -> States] /\ t \in Tasks /\ t # Idle /\ t # Killer
      /\ \A u \in Tasks : wait_time[u] = -1
      /\ pc \in [Tasks -> IdlePlaces \cup KillerPlaces \cup ProcPlaces]
      /\ state \in [Tasks -> States]
  BY Members DEF KernelTypeOK, SchedPart, PcOK, IInv, TypeOK
<1>1. pc[t] # "none" /\ state[t] # "UNKNOWN"
  BY DEF Exited, WherePart, ProcOK
<1>2. state[Killer] \notin {"UNKNOWN", "IDLE"}
  BY <1>1, SlotZero
<1>3. SamePhase(pc[t], l)
  BY DEF SamePhase, Exited, Forking, BeforePid, BeforeRelease, BeforeRest
<1>4. SchedPart' /\ WherePart' /\ ChildPart' /\ PidPart' /\ BootOK' /\ ReapPart'
  <2>1. \A u \in Procs : u # t => old'[u] = old[u] /\ state'[u] = state[u]
    BY <1>0, Members
  <2>2. /\ state'[Idle] = state[Idle] /\ state'[Killer] # "IDLE"
        /\ \A u \in Tasks : state'[u] = "UNKNOWN" <=> state[u] = "UNKNOWN"
        /\ \A u \in Tasks : state[u] = "IDLE" => state'[u] = "IDLE"
        /\ \A u \in Tasks : wait_time'[u] = -1
    BY <1>0, <1>1, <1>2, Members
  <2> QED  BY <1>0, <1>3, <2>1, <2>2, StepKeeps
<1>5. MutexPart'
  <2>1. \A u \in Tasks : pc'[u] = pc[u] \/ (pc[u] \notin Inside /\ pc'[u] \notin Inside)
    BY <1>0 DEF Inside, Exited
  <2> QED  BY <2>1, MutexKeeps DEF KernelTypeOK
<1>6. KernelTypeOK'
  <2>1. PcOK'
    BY <1>0, PcKeeps, Members DEF ProcPlaces, Exited
  <2>2. old' \in [Tasks -> States]
    BY <1>0
  <2> QED  BY <2>1, <2>2 DEF KernelTypeOK
<1> QED  BY <1>4, <1>5, <1>6

\* Every step of exit but the last sched.
LEMMA ExitSteps ==
  ASSUME KInv, NEW t \in Exiters,
         ExitRead(t) \/ ExitStop(t) \/ ExitCheck(t) \/ ExitReadKiller(t) \/ ExitWake(t)
  PROVE  KInv' /\ [SchedNext]_schedVars
<1> USE DEF KInv
<1>0. /\ PcOK /\ old \in [Tasks -> States] /\ t \in Procs /\ t \in Tasks /\ t # Killer /\ t # Idle
      /\ state \in [Tasks -> States] /\ Killer \in Tasks
      /\ pc \in [Tasks -> IdlePlaces \cup KillerPlaces \cup ProcPlaces]
      /\ "UNKNOWN" \in States
  BY Members DEF KernelTypeOK, SchedPart, PcOK, IInv, TypeOK, States
<1>1. ProcOK(t)
  BY <1>0 DEF WherePart
<1>2. /\ current = t /\ tick = 0 /\ pc[t] # "none"
      /\ pc[t] \in {"run", "exit_stop"} \cup Exited
  BY DEF ExitRead, ExitStop, ExitCheck, ExitReadKiller, ExitWake, At, Exited
<1>3. pid_map.base[0] = Killer /\ state[Killer] \notin {"UNKNOWN", "IDLE"}
  BY <1>0, <1>2, SlotZero
<1>4. OnCpu(t)
  BY <1>1, <1>2 DEF ProcOK
<1>5. CASE ExitRead(t)
  <2>1. /\ pc[t] = "run" /\ old' = [old EXCEPT ![t] = state[t]]
        /\ pc' = [pc EXCEPT ![t] = "exit_stop"] /\ UNCHANGED schedVars
        /\ UNCHANGED <<child, count, owner, heap, walk, pid, pid_map, kids, victim, succ>>
    BY <1>5 DEF ExitRead, At, Goto
  <2>2. state[t] = "RUNNING"
    BY <1>4, <2>1 DEF OnCpu, Exited
  <2>3. UNCHANGED <<state, prio, wait_time, current, tick, reaped>>
    BY <2>1 DEF schedVars
  <2>4. ProcOK(t)'
    BY <1>0, <1>1, <1>2, <2>1, <2>2, <2>3 DEF ProcOK, OnCpu, Exited
  <2> QED  BY <1>0, <1>2, <2>1, <2>2, <2>3, <2>4, ExitKeeps
<1>6. CASE ExitStop(t)
  <2>1. /\ pc[t] = "exit_stop" /\ old' = [old EXCEPT ![t] = "UNKNOWN"]
        /\ set_task_state(t, old[t], "IDLE")
        /\ pc' = [pc EXCEPT ![t] = "exit_check"]
        /\ UNCHANGED <<prio, wait_time, time_out, run_time, current, next_run, tick, reaped>>
        /\ UNCHANGED <<child, count, owner, heap, walk, pid, pid_map, kids, victim, succ>>
    BY <1>6 DEF ExitStop, At, Goto
  <2>2. state[t] = "RUNNING" /\ old[t] = "RUNNING"
    BY <1>1, <1>4, <2>1 DEF ProcOK, OnCpu, Exited
  <2>3. StopTask(t) /\ state' = [state EXCEPT ![t] = "IDLE"]
    BY <1>2, <2>1, <2>2 DEF StopTask, InTask, set_task_state, set_task_state_st,
                            get_state_change, change_table
  <2>4. Live(t)
    BY <1>0, <1>2, CallerIsLive
  <2>5. SchedNext
    BY <1>0, <2>3, <2>4 DEF SchedNext
  <2>6. ProcOK(t)'
    BY <1>0, <1>2, <2>1, <2>3 DEF ProcOK, OnCpu, Exited
  <2>7. /\ \A u \in Tasks \ {Killer} : u # t => state'[u] = state[u]
        /\ state'[Killer] = state[Killer] /\ state'[t] = "IDLE"
    BY <1>0, <2>3
  <2> QED  BY <1>0, <1>2, <2>1, <2>5, <2>6, <2>7, ExitKeeps DEF Exited
<1>7. CASE ExitCheck(t)
  <2> DEFINE l == IF state[Killer] = "SLEEP" THEN "exit_read" ELSE "exit_sched"
  <2>1. /\ pc[t] = "exit_check" /\ old' = old /\ UNCHANGED schedVars
        /\ pc' = [pc EXCEPT ![t] = l]
        /\ UNCHANGED <<child, count, owner, heap, walk, pid, pid_map, kids, victim, succ>>
    BY <1>3, <1>7 DEF ExitCheck, At, Goto
  <2>2. state[Killer] \in {"SLEEP", "PREPARE"}
    BY <1>0, <1>2, <1>3 DEF SchedPart, IInv, RunningIsCurrent, States
  <2>3. UNCHANGED <<state, prio, wait_time, current, tick, reaped>>
    BY <2>1 DEF schedVars
  <2>4. ProcOK(t)'
    BY <1>0, <1>1, <1>2, <2>1, <2>2, <2>3 DEF ProcOK, OnCpu, Exited
  <2>5. l \in Exited /\ old' = [old EXCEPT ![t] = old[t]] /\ old[t] \in States
    BY <1>0, <2>1 DEF Exited
  <2>6. state'[t] # "UNKNOWN"
    BY <1>1, <1>2, <2>3 DEF ProcOK
  <2> HIDE DEF l
  <2> QED  BY <1>0, <1>2, <2>1, <2>3, <2>4, <2>5, <2>6, ExitKeeps
<1>8. CASE ExitReadKiller(t)
  <2>1. /\ pc[t] = "exit_read" /\ old' = [old EXCEPT ![t] = state[Killer]]
        /\ pc' = [pc EXCEPT ![t] = "exit_wake"] /\ UNCHANGED schedVars
        /\ UNCHANGED <<child, count, owner, heap, walk, pid, pid_map, kids, victim, succ>>
    BY <1>0, <1>3, <1>8 DEF ExitReadKiller, At, Goto, schedVars
  <2>2. state[Killer] = "SLEEP"
    BY <1>4, <2>1 DEF OnCpu, Exited
  <2>3. UNCHANGED <<state, prio, wait_time, current, tick, reaped>>
    BY <2>1 DEF schedVars
  <2>4. ProcOK(t)'
    BY <1>0, <1>1, <1>2, <2>1, <2>2, <2>3 DEF ProcOK, OnCpu, Exited
  <2>5. state'[t] # "UNKNOWN"
    BY <1>1, <1>2, <2>3 DEF ProcOK
  <2>6. "SLEEP" \in States /\ "exit_wake" \in Exited
    BY DEF States, Exited
  <2> QED  BY <1>0, <1>2, <2>1, <2>2, <2>3, <2>4, <2>5, <2>6, ExitKeeps
<1>9. CASE ExitWake(t)
  <2>1. /\ pc[t] = "exit_wake" /\ old' = [old EXCEPT ![t] = "UNKNOWN"]
        /\ set_task_state(Killer, old[t], "PREPARE")
        /\ pc' = [pc EXCEPT ![t] = "exit_sched"]
        /\ UNCHANGED <<prio, wait_time, time_out, run_time, current, next_run, tick, reaped>>
        /\ UNCHANGED <<child, count, owner, heap, walk, pid, pid_map, kids, victim, succ>>
    BY <1>3, <1>9 DEF ExitWake, At, Goto
  <2>2. state[Killer] = "SLEEP" /\ old[t] = "SLEEP"
    BY <1>1, <1>4, <2>1 DEF ProcOK, OnCpu, Exited
  <2>3. WakeupTask(Killer)
    BY <1>0, <1>2, <2>1, <2>2 DEF WakeupTask, InTask
  <2>4. SchedNext /\ state' = [state EXCEPT ![Killer] = "PREPARE"]
    BY <1>0, <2>2, <2>3, WakeupEffect
  <2>5. /\ \A u \in Tasks \ {Killer} : u # t => state'[u] = state[u]
        /\ state'[Killer] = "PREPARE" /\ state'[t] = state[t]
    BY <1>0, <2>4
  <2>6. ProcOK(t)'
    BY <1>0, <1>1, <1>2, <2>1, <2>5 DEF ProcOK, OnCpu, Exited
  <2>7. state'[t] # "UNKNOWN"
    BY <1>1, <1>2, <2>5 DEF ProcOK
  <2>8. "exit_sched" \in Exited
    BY DEF Exited
  <2> QED  BY <1>0, <1>2, <2>1, <2>4, <2>5, <2>6, <2>7, <2>8, ExitKeeps
<1> QED  BY <1>5, <1>6, <1>7, <1>8, <1>9

-----------------------------------------------------------------------------
(* The steps of system_killer *)

\* The nodes of the idle list are exited tasks that are still there.
LEMMA OnIdleList ==
  ASSUME KInv, NEW i \in 1 .. Len(q.idle.list)
  PROVE  /\ q.idle.list[i] \in Tasks /\ state[q.idle.list[i]] = "IDLE"
         /\ q.idle.list[i] \notin reaped
<1>1. q.idle \in SchedList /\ Filed(q, state, prio, reaped)
  BY DEF KInv, SchedPart, IInv, TypeOK, OneListPerState
<1>2. q.idle.list[i] \in Tasks
  BY <1>1 DEF SchedList
<1>3. On(q.idle, q.idle.list[i])
  BY DEF On
<1> QED  BY <1>1, <1>2, <1>3 DEF Filed

\* So is the node after t, and it is not t.
LEMMA NextOnIdleList ==
  ASSUME KInv, NEW t \in Tasks, NextIdle(t) # M
  PROVE  /\ NextIdle(t) \in Tasks /\ state[NextIdle(t)] = "IDLE"
         /\ NextIdle(t) \notin reaped /\ NextIdle(t) # t
<1> DEFINE s == q.idle.list
           k == CHOOSE i \in 1 .. Len(s) - 1 : s[i] = t
<1>1. \E i \in 1 .. Len(s) - 1 : s[i] = t
  BY DEF NextIdle
<1>2. k \in 1 .. Len(s) - 1 /\ s[k] = t
  BY <1>1
<1>3. NextIdle(t) = s[1 + k]
  BY <1>1 DEF NextIdle
<1>4. q.idle \in SchedList /\ WellFormed(q.idle)
  BY DEF KInv, SchedPart, IInv, TypeOK, OneListPerState, Filed
<1>5. Len(s) \in Nat
  BY <1>4 DEF SchedList
<1> HIDE DEF k
<1>6. k \in 1 .. Len(s) /\ 1 + k \in 1 .. Len(s) /\ k # 1 + k
  BY <1>2, <1>5
<1>7. s[1 + k] # t
  BY <1>2, <1>4, <1>6 DEF WellFormed
<1> QED  BY <1>3, <1>6, <1>7, OnIdleList

\* Steps of system_killer that leave the scheduler, the owner of the mutex and
\* the forks alone.
LEMMA KillerKeeps ==
  ASSUME KInv, current = Killer, tick = 0, pc[Killer] # "none",
         NEW l \in KillerPlaces, l # "none", pc' = [pc EXCEPT ![Killer] = l],
         \/ pc[Killer] \notin Inside /\ l \notin Inside
         \/ pc[Killer] = "kill_pid" /\ l = "kill_unlock",
         UNCHANGED schedVars, UNCHANGED <<old, child, count, owner, pid>>,
         pid_map'.current = pid_map.current
  PROVE  PcOK' /\ SchedPart' /\ WherePart' /\ BootOK' /\ MutexPart' /\ ChildPart'
<1> USE DEF KInv
<1>0. /\ PcOK /\ pc[Killer] \in KillerPlaces
      /\ \A u \in Tasks : wait_time[u] = -1
      /\ state[Killer] # "IDLE"
      /\ current \notin reaped /\ \A u \in Tasks \ {Idle} : prio[u] <= MAX_PRIO - 2
      /\ pc \in [Tasks -> IdlePlaces \cup KillerPlaces \cup ProcPlaces]
  BY DEF KernelTypeOK, SchedPart, PcOK, WherePart, KillerOK
<1>1. UNCHANGED <<state, prio, wait_time, current, tick, reaped>>
  BY DEF schedVars
<1>2. (\A u \in Tasks : u # Killer => pc'[u] = pc[u]) /\ pc'[Killer] = l
  BY <1>0, Members
<1>3. PcOK'
  BY <1>0, PcKeeps, Members
<1>4. SchedPart'
  BY <1>0, <1>1, SchedKeeps
<1>5. WherePart'
  BY <1>0, <1>1, WhereKeeps, Members
<1>6. BootOK'
  BY <1>2, BootKeeps, Members
<1>7. MutexPart'
  BY <1>2, MutexKeeps, Members DEF KernelTypeOK, HoldsPidMutex
<1>8. ChildPart'
  <2>1. \A a \in KillerPlaces : a \notin Forking /\ a \notin BeforePid
    BY DEF KillerPlaces, Forking, BeforePid
  <2> QED  BY <1>0, <1>1, <1>2, <2>1, ChildKeeps
<1> QED  BY <1>3, <1>4, <1>5, <1>6, <1>7, <1>8

\* The walk of the idle list goes on to a node or ends.
LEMMA VisitStep ==
  ASSUME KInv, current = Killer, tick = 0, pc[Killer] \in {"scan", "advance"},
         NEW n \in Nodes, n # M => state[n] = "IDLE" /\ n \notin reaped,
         Visit(n),
         UNCHANGED <<schedVars, old, child, count, owner, heap, walk, pid, pid_map, kids>>
  PROVE  KInv'
<1> USE DEF KInv
<1> DEFINE l == IF n = M THEN "suspend" ELSE "kill"
<1>1. victim' = n /\ succ' = M /\ pc' = [pc EXCEPT ![Killer] = l]
  BY DEF Visit, Goto
<1>2. l \in KillerPlaces /\ l # "none" /\ l \notin Inside /\ pc[Killer] \notin Inside
  BY DEF KillerPlaces, Inside
<1>3. l \notin BeforeRelease /\ l \notin BeforeRest /\ pc[Killer] \notin BeforeRest
      /\ pc[Killer] \notin BeforeRelease /\ (l = "kill" => n # M) /\ l # "advance" /\ l # "fork_take"
      /\ pc[Killer] # "fork_take" /\ pc[Killer] # "none"
  BY DEF BeforeRelease, BeforeRest
<1> HIDE DEF l
<1>4. PcOK' /\ SchedPart' /\ WherePart' /\ BootOK' /\ MutexPart' /\ ChildPart'
  BY <1>1, <1>2, <1>3, KillerKeeps
<1>5. UNCHANGED <<state, reaped>>
  BY DEF schedVars
<1>6. (\A u \in Tasks : u # Killer => pc'[u] = pc[u]) /\ pc'[Killer] = l
  BY <1>1, Members DEF KernelTypeOK, PcOK
<1>7. KernelTypeOK'
  BY <1>1, <1>4, Members DEF KernelTypeOK
<1>8. PidPart'
  BY <1>2, <1>3, <1>5, <1>6, PidKeeps, Members
<1>9. ReapPart'
  BY <1>1, <1>3, <1>5, <1>6 DEF ReapPart
<1> QED  BY <1>4, <1>7, <1>8, <1>9

\* The steps of system_killer's walk.
LEMMA WalkSteps ==
  ASSUME KInv, Scan \/ Advance
  PROVE  KInv' /\ UNCHANGED schedVars
<1>1. CASE Scan
  <2> DEFINE n == IF q.idle.list = <<>> THEN M ELSE q.idle.list[1]
  <2>1. /\ current = Killer /\ tick = 0 /\ pc[Killer] = "scan" /\ Visit(n)
        /\ UNCHANGED <<schedVars, old, child, count, owner, heap, walk, pid, pid_map, kids>>
    BY <1>1 DEF Scan, At
  <2>2. n # M => n \in Tasks /\ state[n] = "IDLE" /\ n \notin reaped
    <3>1. q.idle.list \in Seq(Tasks)
      BY DEF KInv, SchedPart, IInv, TypeOK, SchedList
    <3>2. q.idle.list # <<>> => 1 \in 1 .. Len(q.idle.list)
      BY <3>1
    <3> QED  BY <3>2, OnIdleList
  <2> HIDE DEF n
  <2>3. n \in Nodes /\ (n # M => state[n] = "IDLE" /\ n \notin reaped)
    BY <2>2, Members
  <2>4. KInv'
    BY <2>1, <2>3, VisitStep
  <2> QED  BY <2>1, <2>4
<1>2. CASE Advance
  <2> DEFINE n == IF victim \in reaped THEN succ ELSE NextIdle(victim)
  <2>1. /\ current = Killer /\ tick = 0 /\ pc[Killer] = "advance" /\ Visit(n)
        /\ UNCHANGED <<schedVars, old, child, count, owner, heap, walk, pid, pid_map, kids>>
    BY <1>2 DEF Advance, At
  <2>2. victim \in Tasks
    BY <2>1, Members DEF KInv, ReapPart, KernelTypeOK
  <2>3. succ \in Nodes /\ (succ # M => state[succ] = "IDLE" /\ succ \notin reaped)
    BY DEF KInv, ReapPart, KernelTypeOK
  <2>4. n \in Nodes /\ (n # M => state[n] = "IDLE" /\ n \notin reaped)
    BY <2>2, <2>3, NextOnIdleList, Members
  <2> HIDE DEF n
  <2>5. KInv'
    BY <2>1, <2>4, VisitStep
  <2> QED  BY <2>1, <2>5
<1> QED  BY <1>1, <1>2

\* sched_remove_task takes the victim off the lists; from then on system_killer
\* alone leads to it, with its pid and its place among the children.
LEMMA RemoveStep ==
  ASSUME KInv, KillRemove
  PROVE  KInv' /\ [SchedNext]_schedVars
<1> USE DEF KInv
<1>0. /\ current = Killer /\ tick = 0 /\ pc[Killer] = "kill" /\ PcOK
      /\ UNCHANGED <<old, child, count, owner, heap, walk, pid, pid_map, kids, victim>>
      /\ state \in [Tasks -> States] /\ reaped \subseteq Tasks
      /\ pc \in [Tasks -> IdlePlaces \cup KillerPlaces \cup ProcPlaces]
  BY DEF KillRemove, At, KernelTypeOK, PcOK, SchedPart, IInv, TypeOK
<1>1. victim \in Tasks /\ state[victim] = "IDLE" /\ victim \notin reaped
  BY <1>0, Members DEF ReapPart, KernelTypeOK
<1>2. victim # Idle /\ victim # Killer
  BY <1>1 DEF WherePart, KillerOK, IdleOK
<1>3. CASE pid[victim] \in {0, 1}
  <2>1. pc' = [pc EXCEPT ![Killer] = "advance"] /\ UNCHANGED schedVars /\ UNCHANGED succ
    BY <1>3 DEF KillRemove, Goto
  <2>2. PcOK' /\ SchedPart' /\ WherePart' /\ BootOK' /\ MutexPart' /\ ChildPart'
    BY <1>0, <2>1, KillerKeeps DEF KillerPlaces, Inside
  <2>3. UNCHANGED <<state, reaped>>
    BY <2>1 DEF schedVars
  <2>4. (\A u \in Tasks : u # Killer => pc'[u] = pc[u]) /\ pc'[Killer] = "advance"
    BY <1>0, <2>1, Members
  <2>5. KernelTypeOK'
    BY <1>0, <2>1, <2>2 DEF KernelTypeOK
  <2>6. PidPart'
    BY <1>0, <2>3, <2>4, PidKeeps, Members
  <2>7. ReapPart'
    BY <1>0, <1>1, <2>1, <2>3, <2>4, Members DEF ReapPart, BeforeRelease, BeforeRest
  <2> QED  BY <2>1, <2>2, <2>5, <2>6, <2>7
<1>4. CASE pid[victim] \notin {0, 1}
  <2>1. /\ RemoveTask(victim) /\ succ' = NextIdle(victim)
        /\ pc' = [pc EXCEPT ![Killer] = "kill_lock"]
    BY <1>4 DEF KillRemove, Goto
  <2>2. /\ reaped' = reaped \cup {victim}
        /\ UNCHANGED <<state, prio, wait_time, current, tick>>
    BY <2>1 DEF RemoveTask
  <2>3. Live(victim) /\ SchedNext
    BY <1>0, <1>1, <1>2, <2>1 DEF Live, SchedNext
  <2>4. (\A u \in Tasks : u # Killer => pc'[u] = pc[u]) /\ pc'[Killer] = "kill_lock"
    BY <1>0, <2>1, Members
  <2>5. KernelTypeOK'
    <3>1. PcOK'
      BY <1>0, <2>1, PcKeeps, Members DEF KillerPlaces
    <3>2. succ' \in Nodes
      BY <1>1, <2>1, NextOnIdleList, Members
    <3> QED  BY <1>0, <3>1, <3>2 DEF KernelTypeOK
  <2>6. SchedPart'
    BY <1>0, <1>2, <2>2, <2>3, SchedKeeps DEF SchedPart
  <2>7. WherePart'
    BY <1>0, <2>1, <2>2, WhereKeeps, Members DEF WherePart, KillerOK
  <2>8. BootOK'
    BY <1>0, <2>4, BootKeeps, Members
  <2>9. MutexPart'
    BY <1>0, <2>4, MutexKeeps, Members DEF KernelTypeOK, Inside
  <2>10. ChildPart'
    BY <1>0, <2>2, <2>4, ChildKeeps DEF Forking, BeforePid
  <2>11. PidPart'
    BY <1>0, <2>2, <2>4, Members DEF PidPart, Chosen, NextPid
  <2>12. ReapPart'
    <3>1. ~Chosen(victim)
      BY <1>1, Members DEF Chosen, ChildPart
    <3>2. pid[victim] # -1 /\ pid_map.base[pid[victim]] = victim
      BY <1>1, <1>2, <3>1 DEF PidPart
    <3>3. succ' # M => state[succ'] = "IDLE" /\ succ' \notin reaped'
      BY <1>1, <2>1, <2>2, NextOnIdleList
    <3> QED  BY <1>0, <2>2, <2>4, <3>2, <3>3 DEF ReapPart, BeforeRelease, BeforeRest
  <2> QED  BY <2>3, <2>5, <2>6, <2>7, <2>8, <2>9, <2>10, <2>11, <2>12
<1> QED  BY <1>3, <1>4

\* release_pid clears the slot of the victim and no other.
LEMMA ReleasePidStep ==
  ASSUME KInv, KillPid
  PROVE  KInv' /\ UNCHANGED schedVars
<1> USE DEF KInv
<1>0. /\ current = Killer /\ tick = 0 /\ pc[Killer] = "kill_pid" /\ PcOK
      /\ pid_map' = [pid_map EXCEPT !.base[pid[victim]] = M]
      /\ pc' = [pc EXCEPT ![Killer] = "kill_unlock"]
      /\ UNCHANGED schedVars
      /\ UNCHANGED <<old, child, count, owner, heap, walk, pid, kids, victim, succ>>
      /\ pc \in [Tasks -> IdlePlaces \cup KillerPlaces \cup ProcPlaces]
  BY DEF KillPid, At, Goto, release_pid, KernelTypeOK, PcOK
<1>1. UNCHANGED <<state, reaped>>
  BY <1>0 DEF schedVars
<1>2. /\ victim \in Tasks /\ victim \in reaped /\ pid[victim] \in 0 .. PidNr - 1
      /\ pid_map.base[pid[victim]] = victim
  <2>1. victim \in reaped /\ pid[victim] # -1 /\ pid_map.base[pid[victim]] = victim
    BY <1>0 DEF ReapPart, BeforeRelease, BeforeRest
  <2>2. victim \in Tasks
    BY <2>1 DEF SchedPart, IInv, TypeOK
  <2>3. pid[victim] \in -1 .. PidNr - 1
    BY <2>2 DEF KernelTypeOK
  <2> QED  BY <2>1, <2>2, <2>3, Bounds
<1>3. /\ pid_map' \in [base : [0 .. PidNr - 1 -> Nodes], nr_free : Nat, current : Nat]
      /\ pid_map'.current = pid_map.current /\ pid_map'.nr_free = pid_map.nr_free
      /\ \A i \in 0 .. PidNr - 1 :
           pid_map'.base[i] = IF i = pid[victim] THEN M ELSE pid_map.base[i]
  BY <1>0, <1>2 DEF KernelTypeOK, Nodes
<1>4. PcOK' /\ SchedPart' /\ WherePart' /\ BootOK' /\ MutexPart' /\ ChildPart'
  BY <1>0, <1>3, KillerKeeps DEF KillerPlaces
<1>5. KernelTypeOK'
  BY <1>0, <1>3, <1>4 DEF KernelTypeOK
<1>6. (\A u \in Tasks : u # Killer => pc'[u] = pc[u]) /\ pc'[Killer] = "kill_unlock"
  BY <1>0, Members
<1>7. PidPart'
  <2>1. \A u \in Tasks : Chosen(u)' <=> Chosen(u)
    BY <1>0, <1>6 DEF Chosen
  <2>2. NextPid' = NextPid
    BY <1>3 DEF NextPid
  <2>3. ASSUME NEW u \in Tasks, pid[u] # -1, u \notin reaped, ~Chosen(u)
        PROVE  pid_map'.base[pid[u]] = u
    <3>1. pid_map.base[pid[u]] = u /\ pid[u] \in 0 .. PidNr - 1
      BY <2>3, Bounds DEF PidPart, KernelTypeOK
    <3> QED  BY <1>2, <1>3, <2>3, <3>1
  <2>4. \A i \in 0 .. PidNr - 1 : i >= pid_map'.current => pid_map'.base[i] = M
    BY <1>3 DEF PidPart
  <2>5. \A i \in 0 .. PidNr - 1 : pid_map'.base[i] # M => pid[pid_map'.base[i]] = i
    BY <1>3 DEF PidPart
  <2>6. \A u \in Tasks : pc'[u] = "fork_take" => pid[child[u]] = NextPid
    BY <1>6 DEF PidPart
  <2>7. pid[Killer] = 0
    BY <1>0 DEF PidPart
  <2>8. pid_map'.current + pid_map'.nr_free = PidNr
    BY <1>3 DEF PidPart
  <2>9. /\ \A u \in Tasks \ {Idle} : state'[u] # "UNKNOWN" => pid'[u] # -1
        /\ \A u \in {Killer, Init} : state'[u] = "UNKNOWN" => pid'[u] = -1
    BY <1>0, <1>1 DEF PidPart
  <2> QED  BY <1>0, <1>1, <2>1, <2>2, <2>3, <2>4, <2>5, <2>6, <2>7, <2>8, <2>9 DEF PidPart
<1>8. ReapPart'
  <2>1. ASSUME NEW i \in 0 .. PidNr - 1 PROVE pid_map'.base[i] # victim
    <3>1. M # victim
      BY <1>2, Members
    <3>2. pid_map.base[i] = victim => pid[victim] = i
      BY <3>1 DEF PidPart
    <3> QED  BY <1>3, <3>1, <3>2
  <2>2. ASSUME NEW u \in reaped PROVE \A i \in 0 .. PidNr - 1 : pid_map'.base[i] # u
    <3>1. CASE u = victim
      BY <2>1, <3>1
    <3>2. CASE u # victim
      <4>1. u \in Tasks /\ \A i \in 0 .. PidNr - 1 : pid_map.base[i] # u
        BY <3>2, <2>2 DEF ReapPart, SchedPart, IInv, TypeOK
      <4> QED  BY <1>3, <4>1, Members
    <3> QED  BY <3>1, <3>2
  <2>3. \A u \in reaped : u # victim => \A v \in Tasks : u \notin kids[v]
    BY DEF ReapPart
  <2>4. succ # M => state[succ] = "IDLE" /\ succ \notin reaped
    BY DEF ReapPart
  <2> QED  BY <1>0, <1>1, <1>2, <1>6, <2>2, <2>3, <2>4 DEF ReapPart, BeforeRelease, BeforeRest
<1> QED  BY <1>0, <1>4, <1>5, <1>7, <1>8

\* The last critical section of kill_task takes the victim off every child list.
LEMMA KillRestStep ==
  ASSUME KInv, KillRest
  PROVE  KInv' /\ UNCHANGED schedVars
<1> USE DEF KInv
<1> DEFINE l == IF kids[victim] # {} THEN "kill_spin" ELSE "advance"
<1>0. /\ current = Killer /\ tick = 0 /\ pc[Killer] = "kill_rest" /\ PcOK
      /\ kids' = [p \in Tasks |-> kids[p] \ {victim}]
      /\ pc' = [pc EXCEPT ![Killer] = l]
      /\ heap' = heap \/ heap' = L!list_del(heap, victim)
      /\ UNCHANGED schedVars
      /\ UNCHANGED <<old, child, count, owner, walk, pid, pid_map, victim, succ>>
      /\ pc \in [Tasks -> IdlePlaces \cup KillerPlaces \cup ProcPlaces]
  BY DEF KillRest, At, Goto, KernelTypeOK, PcOK
<1>1. /\ l \in {"kill_spin", "advance"}
      /\ l \in KillerPlaces /\ l # "none" /\ l \notin Inside /\ "kill_rest" \notin Inside
  BY DEF KillerPlaces, Inside
<1> HIDE DEF l
<1>2. UNCHANGED <<state, reaped>>
  BY <1>0 DEF schedVars
<1>3. PcOK' /\ SchedPart' /\ WherePart' /\ BootOK' /\ MutexPart' /\ ChildPart'
  BY <1>0, <1>1, KillerKeeps
<1>4. (\A u \in Tasks : u # Killer => pc'[u] = pc[u]) /\ pc'[Killer] = l
  BY <1>0, Members
<1>5. KernelTypeOK'
  <2>1. heap' \in Heap
    BY <1>0, ListOps DEF KernelTypeOK
  <2>2. kids' \in [Tasks -> SUBSET Tasks]
    BY <1>0 DEF KernelTypeOK
  <2> QED  BY <1>0, <1>3, <2>1, <2>2 DEF KernelTypeOK
<1>6. PidPart'
  BY <1>0, <1>1, <1>2, <1>4, PidKeeps, Members
<1>7. ReapPart'
  <2>1. victim \in reaped /\ victim # M
    BY <1>0, Members DEF ReapPart, BeforeRest, SchedPart, IInv, TypeOK
  <2>2. \A u \in reaped : \A v \in Tasks : u \notin kids'[v]
    BY <1>0 DEF ReapPart
  <2>3. \A u \in reaped : \A i \in 0 .. PidNr - 1 : pid_map.base[i] # u
    BY <1>0 DEF ReapPart, BeforeRelease
  <2>4. succ # M => state[succ] = "IDLE" /\ succ \notin reaped
    BY DEF ReapPart
  <2> QED  BY <1>0, <1>1, <1>2, <1>4, <2>1, <2>2, <2>3, <2>4 DEF ReapPart, BeforeRelease, BeforeRest
<1> QED  BY <1>0, <1>3, <1>5, <1>6, <1>7

\* suspend_task(current) of system_killer.
LEMMA SuspendStep ==
  ASSUME KInv, KillerSuspend
  PROVE  KInv' /\ SchedNext
<1> USE DEF KInv
<1>0. /\ current = Killer /\ tick = 0 /\ pc[Killer] = "suspend" /\ PcOK
      /\ SuspendTask(Killer, -1) /\ pc' = [pc EXCEPT ![Killer] = "rest"]
      /\ UNCHANGED <<old, child, count, owner, heap, walk, pid, pid_map, kids, victim, succ>>
      /\ pc \in [Tasks -> IdlePlaces \cup KillerPlaces \cup ProcPlaces]
      /\ state \in [Tasks -> States] /\ Killer \in Tasks /\ Killer # Idle
  BY Members DEF KillerSuspend, At, Goto, KernelTypeOK, PcOK, SchedPart, IInv, TypeOK
<1>1. Live(Killer)
  BY <1>0, CallerIsLive
<1>2. /\ SchedNext /\ state' = [state EXCEPT ![Killer] = "SLEEP"]
      /\ \A u \in Tasks : wait_time'[u] = -1
      /\ UNCHANGED <<prio, current, tick, reaped>>
  BY <1>0, <1>1, SuspendEffect
<1>3. SamePhase("suspend", "rest")
  BY DEF SamePhase, Forking, BeforePid, BeforeRelease, BeforeRest
<1>4. KernelTypeOK'
  <2>1. PcOK'
    BY <1>0, PcKeeps, Members DEF KillerPlaces
  <2> QED  BY <1>0, <2>1 DEF KernelTypeOK
<1>5. MutexPart'
  <2>1. \A u \in Tasks : pc'[u] = pc[u] \/ (pc[u] \notin Inside /\ pc'[u] \notin Inside)
    BY <1>0 DEF Inside
  <2> QED  BY <1>0, <2>1, MutexKeeps DEF KernelTypeOK
<1>6. SchedPart' /\ WherePart' /\ ChildPart' /\ PidPart' /\ BootOK' /\ ReapPart'
  <2>1. /\ \A u \in Procs : u # Killer => old'[u] = old[u] /\ state'[u] = state[u]
        /\ state'[Idle] = state[Idle] /\ state'[Killer] # "IDLE"
        /\ \A u \in Tasks : state'[u] = "UNKNOWN" <=> state[u] = "UNKNOWN"
        /\ \A u \in Tasks : state[u] = "IDLE" => state'[u] = "IDLE"
    BY <1>0, <1>1, <1>2, Members DEF Live, WherePart, KillerOK
  <2>2. SamePhase(pc[Killer], "rest") /\ Killer \notin Procs
    BY <1>0, <1>3, Members
  <2> QED  BY <1>0, <1>2, <2>1, <2>2, StepKeeps
<1> QED  BY <1>2, <1>4, <1>5, <1>6

\* Nothing changes.
LEMMA StutterStep ==
  ASSUME KInv, UNCHANGED vars
  PROVE  KInv'
<1>1. UNCHANGED <<state, prio, wait_time, time_out, run_time, q, current, next_run,
                  tick, reaped>> /\ UNCHANGED kernelVars
  BY DEF vars, schedVars
<1> USE <1>1 DEF kernelVars, KInv
<1>2. KernelTypeOK' /\ BootOK' /\ MutexPart' /\ ChildPart'
  BY DEF KernelTypeOK, PcOK, BootOK, MutexPart, MutexExcludes, HoldsPidMutex, ChildPart
<1>3. SchedPart'
  BY SchedKeeps DEF SchedPart, schedVars
<1>4. WherePart'
  BY DEF WherePart, ProcOK, OnCpu, KillerOK, IdleOK
<1>5. PidPart' /\ ReapPart'
  BY DEF PidPart, ReapPart, Chosen, NextPid
<1> QED  BY <1>2, <1>3, <1>4, <1>5

-----------------------------------------------------------------------------
(* The steps of fork *)

\* get_new_pid finds the slot at map->current, or none when all are used up.
LEMMA NewPid ==
  ASSUME KInv
  PROVE  /\ get_new_pid = NextPid /\ NextPid \in -1 .. PidNr - 1
         /\ NextPid # -1 =>
              /\ NextPid = pid_map.current /\ NextPid \in 0 .. PidNr - 1
              /\ pid_map.nr_free - 1 \in Nat /\ pid_map.base[NextPid] = M
<1> DEFINE free == {i \in pid_map.current .. PidNr - 1 : pid_map.base[i] = M}
           c == pid_map.current
           f == pid_map.nr_free
<1>1. c \in Nat /\ f \in Nat /\ PidNr \in Nat /\ c + f = PidNr
  BY Bounds DEF KInv, KernelTypeOK, PidPart
<1>2. \A i \in c .. PidNr - 1 : pid_map.base[i] = M
  BY <1>1 DEF KInv, PidPart
<1> HIDE DEF c, f
<1>3. get_new_pid = IF f = 0 \/ free = {} THEN -1
                    ELSE CHOOSE i \in free : \A j \in free : i <= j
  BY DEF get_new_pid, f, c
<1>4. NextPid = IF f = 0 THEN -1 ELSE c
  BY DEF NextPid, f, c
<1>5. free = c .. PidNr - 1
  BY <1>2 DEF c
<1>6. CASE f = 0
  BY <1>1, <1>3, <1>4, <1>6
<1>7. CASE f # 0
  <2>1. c \in free /\ free \subseteq Nat /\ \A j \in free : c <= j
    BY <1>1, <1>5, <1>7
  <2> HIDE DEF free
  <2>2. (CHOOSE i \in free : \A j \in free : i <= j) = c
    <3> DEFINE m == CHOOSE i \in free : \A j \in free : i <= j
    <3>1. m \in free /\ \A j \in free : m <= j
      BY <2>1
    <3> HIDE DEF m
    <3>2. m \in Nat /\ m <= c /\ c <= m
      BY <2>1, <3>1
    <3>3. m = c
      BY <1>1, <3>2
    <3> QED  BY <3>3 DEF m
  <2>3. get_new_pid = c
    BY <1>3, <1>7, <2>1, <2>2
  <2>4. c \in 0 .. PidNr - 1 /\ f - 1 \in Nat /\ c # -1 /\ c \in c .. PidNr - 1
    BY <1>1, <1>7
  <2> QED  BY <1>1, <1>2, <1>4, <1>7, <2>3, <2>4 DEF c, f
<1> QED  BY <1>6, <1>7

\* The moves of a fork outside the mutex operations.
ForkPlaces(a, b) ==
  \/ a = "run" /\ b = "fork_lock"
  \/ a = "fork_pid" /\ b = "fork_take"
  \/ a = "fork_take" /\ b = "fork_unlock"
  \/ a = "fork_rest" /\ b = "run"

\* Steps of fork that leave the scheduler and the owner of the mutex alone.
LEMMA ForkKeeps ==
  ASSUME KInv, NEW t \in Procs, current = t, tick = 0,
         NEW l, ForkPlaces(pc[t], l), pc' = [pc EXCEPT ![t] = l],
         UNCHANGED schedVars, UNCHANGED <<old, count, owner>>
  PROVE  /\ PcOK' /\ SchedPart' /\ WherePart' /\ BootOK' /\ MutexPart'
         /\ pc'[Killer] = pc[Killer] /\ state[t] = "RUNNING"
<1> USE DEF KInv
<1>0. /\ PcOK /\ t \in Tasks /\ t # Idle /\ t # Killer
      /\ \A u \in Tasks : wait_time[u] = -1
      /\ state[Killer] # "IDLE"
      /\ current \notin reaped /\ \A u \in Tasks \ {Idle} : prio[u] <= MAX_PRIO - 2
      /\ pc \in [Tasks -> IdlePlaces \cup KillerPlaces \cup ProcPlaces]
  BY Members DEF KernelTypeOK, SchedPart, PcOK, WherePart, KillerOK
<1>1. UNCHANGED <<state, prio, wait_time, current, tick, reaped>>
  BY DEF schedVars
<1>2. (\A u \in Tasks : u # t => pc'[u] = pc[u]) /\ pc'[t] = l
  BY <1>0
<1>3. ProcOK(t) /\ state[t] = "RUNNING"
  BY DEF WherePart, ProcOK, OnCpu, ForkPlaces, Exited
<1>4. PcOK'
  BY <1>0, PcKeeps DEF ForkPlaces, ProcPlaces
<1>5. SchedPart'
  BY <1>0, <1>1, SchedKeeps
<1>6. ProcOK(t)'
  BY <1>1, <1>2, <1>3 DEF ProcOK, OnCpu, ForkPlaces, Exited
<1>7. WherePart'
  BY <1>0, <1>1, <1>6, WhereKeeps
<1>8. BootOK'
  <2>1. pc[t] # "none"
    BY DEF ForkPlaces
  <2>2. pc[Idle] \notin {"boot_killer", "boot_init"}
    BY <2>1 DEF BootOK
  <2> QED  BY <1>0, <1>2, <2>2, Members DEF BootOK
<1>9. MutexPart'
  BY <1>2, MutexKeeps DEF KernelTypeOK, HoldsPidMutex, ForkPlaces, Inside
<1> QED  BY <1>0, <1>2, <1>3, <1>4, <1>5, <1>7, <1>8, <1>9, Members

\* fork starts with a task_struct nobody uses.
LEMMA ForkStart ==
  ASSUME KInv, NEW t \in Forkers, NEW n \in Users, Unused(n), Fork(t, n)
  PROVE  KInv' /\ UNCHANGED schedVars
<1> USE DEF KInv
<1>0. /\ t \in Procs /\ t \in Tasks /\ n \in Tasks /\ n # M /\ n # Idle
      /\ current = t /\ tick = 0 /\ pc[t] = "run"
      /\ child' = [child EXCEPT ![t] = n] /\ pc' = [pc EXCEPT ![t] = "fork_lock"]
      /\ UNCHANGED schedVars
      /\ UNCHANGED <<old, count, owner, heap, walk, pid, pid_map, kids, victim, succ>>
      /\ child \in [Tasks -> Users \cup {M}] /\ reaped \subseteq Tasks
      /\ pc \in [Tasks -> IdlePlaces \cup KillerPlaces \cup ProcPlaces]
  BY Members DEF Fork, At, Goto, KernelTypeOK, PcOK, SchedPart, IInv, TypeOK
<1>1. /\ PcOK' /\ SchedPart' /\ WherePart' /\ BootOK' /\ MutexPart'
      /\ pc'[Killer] = pc[Killer]
  BY <1>0, ForkKeeps DEF ForkPlaces
<1>2. UNCHANGED <<state, reaped>>
  BY <1>0 DEF schedVars
<1>3. /\ \A u \in Tasks : u # t => pc'[u] = pc[u] /\ child'[u] = child[u]
      /\ pc'[t] = "fork_lock" /\ child'[t] = n
  BY <1>0
<1>4. pid[n] = -1 /\ (\A u \in Tasks : child[u] # n) /\ state[n] = "UNKNOWN"
  BY <1>0 DEF Unused, PidPart
<1>5. KernelTypeOK'
  BY <1>0, <1>1 DEF KernelTypeOK
<1>6. ChildPart'
  BY <1>0, <1>2, <1>3, <1>4 DEF ChildPart, Forking, BeforePid
<1>7. PidPart'
  <2>1. \A u \in Tasks : pc'[u] = "fork_take" <=> pc[u] = "fork_take"
    BY <1>0, <1>3
  <2>2. \A u \in Tasks : pc[u] = "fork_take" => child'[u] = child[u]
    BY <1>0, <1>3
  <2>3. \A u \in Tasks : Chosen(u)' <=> Chosen(u)
    BY <2>1, <2>2 DEF Chosen
  <2> QED  BY <1>0, <1>1, <1>2, <2>1, <2>2, <2>3 DEF PidPart, NextPid
<1>8. ReapPart'
  BY <1>0, <1>1, <1>2, ReapKeeps
<1> QED  BY <1>0, <1>1, <1>5, <1>6, <1>7, <1>8

\* get_new_pid writes the pid before the slot: the mutex keeps others from
\* choosing the same one.
LEMMA FindStep ==
  ASSUME KInv, NEW t \in Forkers, ForkFind(t)
  PROVE  KInv' /\ UNCHANGED schedVars
<1> USE DEF KInv
<1> DEFINE n == child[t]
<1>0. /\ t \in Procs /\ t \in Tasks
      /\ current = t /\ tick = 0 /\ pc[t] = "fork_pid"
      /\ pid' = [pid EXCEPT ![n] = get_new_pid] /\ pc' = [pc EXCEPT ![t] = "fork_take"]
      /\ UNCHANGED schedVars
      /\ UNCHANGED <<old, child, count, owner, heap, walk, pid_map, kids, victim, succ>>
      /\ pid \in [Tasks -> -1 .. PidNr - 1] /\ reaped \subseteq Tasks
      /\ pc \in [Tasks -> IdlePlaces \cup KillerPlaces \cup ProcPlaces]
      /\ \A u \in reaped : state[u] = "IDLE"
  BY Members DEF ForkFind, At, Goto, KernelTypeOK, PcOK, SchedPart, IInv, TypeOK
<1>1. n \in Users /\ n \in Tasks /\ n # M /\ pid[n] = -1 /\ state[n] = "UNKNOWN"
  BY <1>0, Members DEF ChildPart, BeforePid, Forking, KernelTypeOK
<1>2. /\ PcOK' /\ SchedPart' /\ WherePart' /\ BootOK' /\ MutexPart'
      /\ pc'[Killer] = pc[Killer]
  BY <1>0, ForkKeeps DEF ForkPlaces
<1>3. UNCHANGED <<state, reaped>>
  BY <1>0 DEF schedVars
<1>4. NextPid \in -1 .. PidNr - 1 /\ pid' = [pid EXCEPT ![n] = NextPid] /\ NextPid' = NextPid
  BY <1>0, NewPid DEF NextPid
<1> HIDE DEF n
<1>5. /\ \A u \in Tasks : u # t => pc'[u] = pc[u]
      /\ pc'[t] = "fork_take" /\ pid'[n] = NextPid
      /\ \A u \in Tasks : u # n => pid'[u] = pid[u]
  BY <1>0, <1>1, <1>4
<1>6. KernelTypeOK'
  <2>1. pid' \in [Tasks -> -1 .. PidNr - 1]
    BY <1>0, <1>4
  <2> QED  BY <1>0, <1>2, <2>1 DEF KernelTypeOK
<1>7. ASSUME NEW u \in Tasks, pc[u] = "fork_take" PROVE FALSE
  BY <1>0, <1>7 DEF MutexPart, MutexExcludes, HoldsPidMutex
<1>8. \A u \in Tasks : u # t /\ child[u] # M => child[u] # n /\ child[u] \in Tasks
  BY <1>0, <1>1, Members DEF ChildPart, KernelTypeOK, n
<1>9. ChildPart'
  <2>1. \A u \in Tasks : pc'[u] \in BeforePid => pid'[child[u]] = -1
    <3> SUFFICES ASSUME NEW u \in Tasks, pc'[u] \in BeforePid PROVE pid'[child[u]] = -1
      OBVIOUS
    <3>1. u # t /\ pc[u] \in BeforePid /\ pc[u] \in Forking
      BY <1>5 DEF BeforePid, Forking
    <3>2. child[u] # M /\ pid[child[u]] = -1
      BY <3>1 DEF ChildPart
    <3> QED  BY <1>5, <1>8, <3>1, <3>2
  <2>2. \A u \in Tasks : pc'[u] \in Forking <=> pc[u] \in Forking
    BY <1>0, <1>5 DEF Forking, BeforePid
  <2> QED  BY <1>0, <1>3, <2>1, <2>2 DEF ChildPart
<1>10. PidPart'
  <2>1. \A i \in 0 .. PidNr - 1 : pid_map.base[i] # n
    BY <1>1, Bounds DEF PidPart
  <2>2. \A i \in 0 .. PidNr - 1 : pid_map.base[i] \in Nodes
    BY DEF KernelTypeOK
  <2>3. \A i \in 0 .. PidNr - 1 : pid_map.base[i] # M => pid'[pid_map.base[i]] = i
    BY <1>5, <2>1, <2>2, Members DEF PidPart
  <2>4. \A u \in Tasks : Chosen(u) => FALSE
    BY <1>7 DEF Chosen
  <2>5. \A u \in Tasks : u = n => Chosen(u)'
    BY <1>0, <1>5 DEF Chosen, n
  <2>6. \A u \in Tasks : pc'[u] = "fork_take" => u = t
    BY <1>5, <1>7
  <2>7. /\ \A u \in Tasks \ {Idle} : state'[u] # "UNKNOWN" => pid'[u] # -1
        /\ \A u \in {Killer, Init} : state'[u] = "UNKNOWN" => pid'[u] = -1
        /\ pc[Killer] # "none" => pid'[Killer] = 0
    BY <1>1, <1>3, <1>5, Members DEF PidPart
  <2>8. \A u \in Tasks : pid'[u] # -1 /\ u \notin reaped' /\ ~Chosen(u)'
          => pid_map.base[pid'[u]] = u
    BY <1>3, <1>5, <2>4, <2>5 DEF PidPart
  <2>9. \A u \in Tasks : pc'[u] = "fork_take" => pid'[child'[u]] = NextPid'
    BY <1>0, <1>4, <1>5, <2>6 DEF n
  <2> QED  BY <1>0, <1>2, <2>3, <2>7, <2>8, <2>9 DEF PidPart
<1>11. ReapPart'
  <2>1. \A u \in reaped : u # n /\ pid'[u] = pid[u]
    BY <1>0, <1>1, <1>5
  <2>2. pc[Killer] \in BeforeRelease => victim \in reaped
    BY DEF ReapPart, BeforeRest
  <2> QED  BY <1>0, <1>2, <1>3, <2>1, <2>2 DEF ReapPart
<1> QED  BY <1>0, <1>2, <1>6, <1>9, <1>10, <1>11

\* What take_pid does with the next slot.
LEMMA TakeEffect ==
  ASSUME KInv, NEW n \in Tasks, NextPid # -1, take_pid(n, NextPid)
  PROVE  /\ pid_map' \in [base : [0 .. PidNr - 1 -> Nodes], nr_free : Nat, current : Nat]
         /\ pid_map'.current = pid_map.current + 1
         /\ pid_map'.current + pid_map'.nr_free = PidNr
         /\ \A i \in 0 .. PidNr - 1 :
              pid_map'.base[i] = IF i = NextPid THEN n ELSE pid_map.base[i]
         /\ \A i \in 0 .. PidNr - 1 : i >= pid_map'.current => pid_map'.base[i] = M
         /\ \A i \in 0 .. PidNr - 1 : i = NextPid => pid_map.base[i] = M
<1> DEFINE c == pid_map.current
           f == pid_map.nr_free
<1>1. /\ c \in Nat /\ f \in Nat /\ PidNr \in Nat /\ c + f = PidNr
      /\ pid_map.base \in [0 .. PidNr - 1 -> Nodes] /\ n \in Nodes
  BY Bounds, Members DEF KInv, KernelTypeOK, PidPart
<1>2. NextPid = c /\ c \in 0 .. PidNr - 1 /\ f - 1 \in Nat /\ pid_map.base[c] = M
  BY NewPid
<1>3. \A i \in 0 .. PidNr - 1 : i >= c => pid_map.base[i] = M
  BY DEF KInv, PidPart
<1>4. pid_map' = [base |-> [pid_map.base EXCEPT ![c] = n], nr_free |-> f - 1, current |-> c + 1]
  BY <1>2 DEF take_pid
<1> HIDE DEF c, f
<1>5. /\ pid_map'.base = [pid_map.base EXCEPT ![c] = n]
      /\ pid_map'.nr_free = f - 1 /\ pid_map'.current = c + 1
  BY <1>4
<1>6. /\ pid_map' \in [base : [0 .. PidNr - 1 -> Nodes], nr_free : Nat, current : Nat]
  BY <1>1, <1>2, <1>4, SMTT(30)
<1>7. \A i \in 0 .. PidNr - 1 : pid_map'.base[i] = IF i = c THEN n ELSE pid_map.base[i]
  BY <1>1, <1>2, <1>5
<1>8. (c + 1) + (f - 1) = PidNr
  BY <1>1
<1>9. \A i \in 0 .. PidNr - 1 : i >= c + 1 => i >= c /\ i # c
  BY <1>1
<1> QED  BY <1>2, <1>3, <1>5, <1>6, <1>7, <1>8, <1>9, ZenonT(40) DEF c

\* The slot is filled in, if there is one.
LEMMA TakeStep ==
  ASSUME KInv, NEW t \in Forkers, ForkTake(t)
  PROVE  KInv' /\ UNCHANGED schedVars
<1> USE DEF KInv
<1> DEFINE n == child[t]
<1>0. /\ t \in Procs /\ t \in Tasks
      /\ current = t /\ tick = 0 /\ pc[t] = "fork_take"
      /\ take_pid(n, pid[n]) /\ pc' = [pc EXCEPT ![t] = "fork_unlock"]
      /\ UNCHANGED schedVars
      /\ UNCHANGED <<old, child, count, owner, heap, walk, pid, kids, victim, succ>>
      /\ reaped \subseteq Tasks /\ \A u \in reaped : state[u] = "IDLE"
      /\ pc \in [Tasks -> IdlePlaces \cup KillerPlaces \cup ProcPlaces]
      /\ pid \in [Tasks -> -1 .. PidNr - 1]
  BY Members DEF ForkTake, At, Goto, KernelTypeOK, PcOK, SchedPart, IInv, TypeOK
<1>1. n \in Users /\ n \in Tasks /\ n # M /\ pid[n] = NextPid /\ state[n] = "UNKNOWN"
  BY <1>0, Members DEF ChildPart, BeforePid, Forking, KernelTypeOK, PidPart
<1>2. /\ PcOK' /\ SchedPart' /\ WherePart' /\ BootOK' /\ MutexPart'
      /\ pc'[Killer] = pc[Killer]
  BY <1>0, ForkKeeps DEF ForkPlaces
<1>3. UNCHANGED <<state, reaped>>
  BY <1>0 DEF schedVars
<1> HIDE DEF n
<1>4. /\ \A u \in Tasks : u # t => pc'[u] = pc[u]
      /\ pc'[t] = "fork_unlock"
  BY <1>0
<1>5. ASSUME NEW u \in Tasks, pc[u] = "fork_take" PROVE u = t
  BY <1>0, <1>5 DEF MutexPart, MutexExcludes, HoldsPidMutex
<1>6. \A u \in Tasks : Chosen(u) <=> u = n
  BY <1>0, <1>5 DEF Chosen, n
<1>7. \A u \in Tasks : pc'[u] # "fork_take" /\ ~Chosen(u)'
  BY <1>4, <1>5 DEF Chosen
<1>8. ChildPart'
  BY <1>0, <1>3, <1>4, ChildKeeps DEF Forking, BeforePid
<1>9. CASE NextPid = -1
  <2>1. pid_map' = pid_map
    BY <1>0, <1>1, <1>9 DEF take_pid
  <2>2. KernelTypeOK'
    BY <1>0, <1>2, <2>1 DEF KernelTypeOK
  <2>3. PidPart'
    BY <1>0, <1>1, <1>2, <1>3, <1>6, <1>7, <1>9, <2>1 DEF PidPart
  <2>4. ReapPart'
    BY <1>0, <1>2, <1>3, <2>1, ReapKeeps
  <2> QED  BY <1>0, <1>2, <1>8, <2>2, <2>3, <2>4
<1>10. CASE NextPid # -1
  <2>1. /\ pid_map' \in [base : [0 .. PidNr - 1 -> Nodes], nr_free : Nat, current : Nat]
        /\ pid_map'.current + pid_map'.nr_free = PidNr
        /\ \A i \in 0 .. PidNr - 1 :
             pid_map'.base[i] = IF i = NextPid THEN n ELSE pid_map.base[i]
        /\ \A i \in 0 .. PidNr - 1 : i >= pid_map'.current => pid_map'.base[i] = M
        /\ \A i \in 0 .. PidNr - 1 : i = NextPid => pid_map.base[i] = M
    BY <1>0, <1>1, <1>10, TakeEffect
  <2>2. \A u \in Tasks : pid[u] # -1 => pid[u] \in 0 .. PidNr - 1
    BY <1>0, Bounds
  <2>3. KernelTypeOK'
    BY <1>0, <1>2, <2>1 DEF KernelTypeOK
  <2>4. PidPart'
    <3>1. \A i \in 0 .. PidNr - 1 : pid_map'.base[i] # M => pid[pid_map'.base[i]] = i
      BY <1>1, <2>1 DEF PidPart
    <3>2. ASSUME NEW u \in Tasks, pid[u] # -1, u \notin reaped
          PROVE  pid_map'.base[pid[u]] = u
      <4>1. CASE u = n
        BY <1>1, <2>1, <2>2, <3>2, <4>1
      <4>2. CASE u # n
        <5>1. pid_map.base[pid[u]] = u /\ u # M
          BY <1>6, <3>2, <4>2, Members DEF PidPart
        <5> QED  BY <2>1, <2>2, <3>2, <5>1
      <4> QED  BY <4>1, <4>2
    <3>3. /\ \A u \in Tasks \ {Idle} : state[u] # "UNKNOWN" => pid[u] # -1
          /\ \A u \in {Killer, Init} : state[u] = "UNKNOWN" => pid[u] = -1
          /\ pc[Killer] # "none" => pid[Killer] = 0
      BY DEF PidPart
    <3> QED  BY <1>0, <1>2, <1>3, <1>7, <2>1, <3>1, <3>2, <3>3 DEF PidPart
  <2>5. ReapPart'
    <3>1. \A u \in reaped : u # n /\ u # M
      BY <1>0, <1>1, Members
    <3>2. \A u \in reaped : \A i \in 0 .. PidNr - 1 :
            pid_map.base[i] # u => pid_map'.base[i] # u
      BY <2>1, <3>1
    <3>3. pc[Killer] \in BeforeRelease =>
            pid[victim] # -1 /\ pid_map'.base[pid[victim]] = victim
      <4> SUFFICES ASSUME pc[Killer] \in BeforeRelease
                   PROVE  pid[victim] # -1 /\ pid_map'.base[pid[victim]] = victim
        OBVIOUS
      <4>1. victim \in reaped /\ pid[victim] # -1 /\ pid_map.base[pid[victim]] = victim
        BY DEF ReapPart, BeforeRest
      <4>2. pid[victim] \in 0 .. PidNr - 1 /\ victim # M
        BY <1>0, <2>2, <3>1, <4>1
      <4> QED  BY <2>1, <4>1, <4>2
    <3> QED  BY <1>0, <1>2, <1>3, <3>2, <3>3 DEF ReapPart
  <2> QED  BY <1>0, <1>2, <1>8, <2>3, <2>4, <2>5
<1> QED  BY <1>9, <1>10

\* CreateTask: the new task is ready and nothing else changes.
LEMMA CreateEffect ==
  ASSUME KInv, NEW n \in Tasks, n # Idle, NEW p \in Prios, p <= MAX_PRIO - 2,
         CreateTask(n, p)
  PROVE  /\ SchedNext /\ state' = [state EXCEPT ![n] = "PREPARE"] /\ state[n] = "UNKNOWN"
         /\ UNCHANGED <<current, tick, reaped>>
         /\ SchedPart'
<1>0. /\ state \in [Tasks -> States] /\ prio \in [Tasks -> Prios]
      /\ wait_time \in [Tasks -> Int] /\ SchedPart /\ current \notin reaped
  BY DEF KInv, SchedPart, IInv, TypeOK
<1>1. SchedNext
  BY DEF SchedNext
<1>2. state' = [state EXCEPT ![n] = "PREPARE"]
  BY DEF CreateTask, set_task_state_st, get_state_change, change_table
<1>3. /\ prio' = [prio EXCEPT ![n] = p] /\ wait_time' = [wait_time EXCEPT ![n] = -1]
      /\ UNCHANGED <<current, tick, reaped>> /\ state[n] = "UNKNOWN"
  BY DEF CreateTask
<1>4. /\ \A u \in Tasks : wait_time'[u] = -1
      /\ \A u \in Tasks \ {Idle} : prio'[u] <= MAX_PRIO - 2
  BY <1>0, <1>3 DEF SchedPart
<1>5. SchedPart'
  BY <1>0, <1>1, <1>3, <1>4, SchedKeeps
<1> QED  BY <1>1, <1>2, <1>3, <1>5

\* The end of fork: the task_struct becomes a task or is given up.
LEMMA RestStep ==
  ASSUME KInv, NEW t \in Forkers, NEW enough \in BOOLEAN, ForkRest(t, enough)
  PROVE  KInv' /\ [SchedNext]_schedVars
<1> USE DEF KInv
<1> DEFINE n == child[t]
<1>0. /\ t \in Procs /\ t \in Tasks /\ t # Idle /\ t # Killer
      /\ current = t /\ tick = 0 /\ pc[t] = "fork_rest"
      /\ child' = [child EXCEPT ![t] = M]
      /\ kids' = IF pid[n] = -1 THEN kids ELSE [kids EXCEPT ![t] = @ \cup {n}]
      /\ UNCHANGED <<old, count, owner, heap, walk, pid, pid_map, victim, succ>>
      /\ reaped \subseteq Tasks /\ \A u \in reaped : state[u] = "IDLE"
      /\ pc \in [Tasks -> IdlePlaces \cup KillerPlaces \cup ProcPlaces]
      /\ child \in [Tasks -> Users \cup {M}] /\ kids \in [Tasks -> SUBSET Tasks]
      /\ state \in [Tasks -> States] /\ prio \in [Tasks -> Prios]
      /\ prio[t] <= MAX_PRIO - 2 /\ current \notin reaped
  BY Members DEF ForkRest, At, KernelTypeOK, PcOK, SchedPart, IInv, TypeOK
<1>1. n \in Users /\ n \in Tasks /\ n \in Procs /\ n # M /\ state[n] = "UNKNOWN"
  BY <1>0, Members DEF ChildPart, BeforePid, Forking, KernelTypeOK
<1>2. IF pid[n] # -1 /\ enough
      THEN CreateTask(n, prio[t]) /\ pc' = [pc EXCEPT ![t] = "run", ![n] = "run"]
      ELSE pc' = [pc EXCEPT ![t] = "run"] /\ UNCHANGED schedVars
  BY DEF ForkRest, Goto
<1> HIDE DEF n
<1>3. ProcOK(t) /\ state[t] = "RUNNING" /\ ProcOK(n) /\ pc[n] = "none" /\ n # t
  BY <1>0, <1>1 DEF WherePart, ProcOK, OnCpu, Exited
<1>4. /\ \A u \in Tasks : u # t => child'[u] = child[u]
      /\ child'[t] = M /\ child[n] = M
      /\ \A u \in Tasks : u # t => child[u] # n
  <2>1. "none" \notin Forking
    BY DEF Forking, BeforePid
  <2> QED  BY <1>0, <1>1, <1>3, <2>1 DEF ChildPart, n
<1>5. child' \in [Tasks -> Users \cup {M}] /\ kids' \in [Tasks -> SUBSET Tasks]
  BY <1>0, <1>1
<1>6. \A u \in Tasks : \A v \in reaped : v \notin kids[u] => v \notin kids'[u]
  BY <1>0, <1>1
<1>7. CASE ~(pid[n] # -1 /\ enough)
  <2>0. pc' = [pc EXCEPT ![t] = "run"] /\ UNCHANGED schedVars
    BY <1>2, <1>7
  <2>1. /\ PcOK' /\ SchedPart' /\ WherePart' /\ BootOK' /\ MutexPart'
        /\ pc'[Killer] = pc[Killer]
    BY <1>0, <2>0, ForkKeeps DEF ForkPlaces
  <2>2. UNCHANGED <<state, reaped>>
    BY <2>0 DEF schedVars
  <2>3. (\A u \in Tasks : u # t => pc'[u] = pc[u]) /\ pc'[t] = "run"
    BY <1>0, <2>0
  <2>4. KernelTypeOK'
    BY <1>0, <1>5, <2>1 DEF KernelTypeOK
  <2>5. ChildPart'
    BY <1>0, <1>4, <2>2, <2>3 DEF ChildPart, Forking, BeforePid
  <2>6. PidPart'
    <3>1. \A u \in Tasks : pc'[u] = "fork_take" <=> pc[u] = "fork_take"
      BY <1>0, <2>3
    <3>2. \A u \in Tasks : pc[u] = "fork_take" => child'[u] = child[u]
      BY <1>0, <1>4
    <3>3. \A u \in Tasks : Chosen(u)' <=> Chosen(u)
      BY <3>1, <3>2 DEF Chosen
    <3> QED  BY <1>0, <2>1, <2>2, <3>1, <3>2, <3>3 DEF PidPart, NextPid
  <2>7. ReapPart'
    BY <1>0, <1>6, <2>1, <2>2 DEF ReapPart
  <2> QED  BY <2>0, <2>1, <2>4, <2>5, <2>6, <2>7
<1>8. CASE pid[n] # -1 /\ enough
  <2>0. CreateTask(n, prio[t]) /\ pc' = [pc EXCEPT ![t] = "run", ![n] = "run"]
    BY <1>2, <1>8
  <2>1. /\ SchedNext /\ state' = [state EXCEPT ![n] = "PREPARE"]
        /\ UNCHANGED <<current, tick, reaped>> /\ SchedPart'
    BY <1>0, <1>1, <2>0, CreateEffect, Members
  <2>2. /\ \A u \in Tasks : u # t /\ u # n => pc'[u] = pc[u]
        /\ pc'[t] = "run" /\ pc'[n] = "run" /\ pc' \in [Tasks -> IdlePlaces \cup KillerPlaces \cup ProcPlaces]
    BY <1>0, <1>1, <2>0 DEF ProcPlaces
  <2>3. (\A u \in Tasks : u # n => state'[u] = state[u]) /\ state'[n] = "PREPARE"
    BY <1>0, <1>1, <2>1
  <2>4. Killer # n /\ Idle # n
    BY <1>1, Members
  <2>5. KernelTypeOK'
    <3>1. PcOK'
      BY <1>0, <2>2, <2>4, Members DEF PcOK, ProcPlaces, KernelTypeOK
    <3> QED  BY <1>0, <1>5, <3>1 DEF KernelTypeOK
  <2>6. WherePart'
    <3>1. ASSUME NEW u \in Procs PROVE ProcOK(u)'
      <4>1. u \in Tasks /\ ProcOK(u)
        BY Members DEF WherePart
      <4>2. CASE u = t
        BY <1>0, <1>3, <2>1, <2>2, <2>3, <4>2 DEF ProcOK, OnCpu, Exited
      <4>3. CASE u = n
        BY <1>0, <1>3, <2>1, <2>2, <2>3, <4>3 DEF ProcOK, OnCpu, Exited
      <4>4. CASE u # t /\ u # n
        BY <1>0, <2>1, <2>2, <2>3, <4>1, <4>4 DEF ProcOK, Exited
      <4> QED  BY <4>2, <4>3, <4>4
    <3>2. KillerOK' /\ IdleOK'
      BY <1>0, <2>1, <2>2, <2>3, <2>4, Members DEF WherePart, KillerOK, IdleOK
    <3> QED  BY <3>1, <3>2 DEF WherePart
  <2>7. BootOK'
    <3>1. pc[Idle] \notin {"boot_killer", "boot_init"}
      BY <1>0 DEF BootOK
    <3> QED  BY <1>0, <2>2, <2>4, <3>1, Members DEF BootOK
  <2>8. MutexPart'
    BY <1>0, <1>3, <2>2, MutexKeeps DEF KernelTypeOK, Inside
  <2>9. ChildPart'
    <3>1. "run" \notin Forking /\ "run" \notin BeforePid
      BY DEF Forking, BeforePid
    <3>2. \A u \in Tasks : pc'[u] \in Forking <=> child'[u] # M
      BY <1>4, <2>2, <3>1 DEF ChildPart
    <3>3. \A u \in Tasks : child'[u] # M => child'[u] = child[u] /\ child[u] \in Tasks /\ child[u] # n
      BY <1>0, <1>4, Members
    <3>4. \A u \in Tasks : child'[u] # M => state'[child'[u]] = "UNKNOWN"
      BY <2>3, <3>3 DEF ChildPart
    <3>5. \A u, v \in Tasks : child'[u] = child'[v] /\ child'[u] # M => u = v
      BY <3>3 DEF ChildPart
    <3>6. \A u \in Tasks : pc'[u] \in BeforePid => pid[child'[u]] = -1
      BY <1>4, <2>2, <3>1 DEF ChildPart
    <3> QED  BY <1>0, <3>2, <3>4, <3>5, <3>6 DEF ChildPart
  <2>10. PidPart'
    <3>1. \A u \in Tasks : pc'[u] = "fork_take" <=> pc[u] = "fork_take"
      BY <1>0, <1>3, <2>2
    <3>2. \A u \in Tasks : pc[u] = "fork_take" => child'[u] = child[u]
      BY <1>0, <1>4
    <3>3. \A u \in Tasks : Chosen(u)' <=> Chosen(u)
      BY <3>1, <3>2 DEF Chosen
    <3>4. /\ \A u \in Tasks \ {Idle} : state'[u] # "UNKNOWN" => pid[u] # -1
          /\ \A u \in {Killer, Init} : state'[u] = "UNKNOWN" => pid[u] = -1
      BY <1>1, <1>8, <2>3, Members DEF PidPart
    <3>5. pc'[Killer] = pc[Killer]
      BY <1>0, <2>2, <2>4, Members
    <3> QED  BY <1>0, <2>1, <3>1, <3>2, <3>3, <3>4, <3>5 DEF PidPart, NextPid
  <2>11. ReapPart'
    <3>1. pc'[Killer] = pc[Killer]
      BY <1>0, <2>2, <2>4, Members
    <3>2. /\ pc[Killer] = "kill" => state'[victim] = "IDLE"
          /\ succ # M => state'[succ] = "IDLE"
      BY <1>0, <1>1, <2>1 DEF ReapPart, KernelTypeOK, Nodes
    <3> QED  BY <1>0, <1>6, <2>1, <3>1, <3>2 DEF ReapPart
  <2> QED  BY <2>1, <2>5, <2>6, <2>7, <2>8, <2>9, <2>10, <2>11
<1> QED  BY <1>7, <1>8

-----------------------------------------------------------------------------
(* The steps of boot and of the tick *)

\* The two tasks that main creates: system_killer, then init.
BootPlaces(t, p, entry, next) ==
  \/ /\ pc[Idle] = "boot_killer" /\ t = Killer /\ entry = "scan" /\ next = "boot_init"
     /\ p = KERNEL_THREAD_PRIO - 1
  \/ /\ pc[Idle] = "boot_init" /\ t = Init /\ entry = "run" /\ next = "boot_prio"
     /\ p = PROCESS_DEFAULT_PRIO

\* kthread_run and init_task, called by main.
LEMMA BootTaskStep ==
  ASSUME KInv, current = Idle, tick = 0, NEW t, NEW p, NEW entry, NEW next,
         BootPlaces(t, p, entry, next), BootTask(t, p, entry, next)
  PROVE  KInv' /\ SchedNext
<1> USE DEF KInv
<1>0. /\ t \in Tasks /\ t # Idle /\ t # M /\ p \in Prios /\ p <= MAX_PRIO - 2
      /\ t \in {Killer, Init} /\ Idle \in Tasks /\ Killer \in Tasks /\ Idle # Killer
      /\ Init # Killer /\ Init # Idle /\ t \notin Users
  BY Members, Bounds DEF BootPlaces, Procs
<1>1. /\ CreateTask(t, p) /\ pid' = [pid EXCEPT ![t] = get_new_pid]
      /\ take_pid(t, get_new_pid) /\ kids' = [kids EXCEPT ![Idle] = @ \cup {t}]
      /\ pc' = [pc EXCEPT ![t] = entry, ![Idle] = next]
      /\ UNCHANGED <<old, child, count, owner, heap, walk, victim, succ>>
  BY DEF BootTask
<1>2. /\ reaped \subseteq Tasks /\ \A u \in reaped : state[u] = "IDLE"
      /\ pc \in [Tasks -> IdlePlaces \cup KillerPlaces \cup ProcPlaces]
      /\ pid \in [Tasks -> -1 .. PidNr - 1] /\ kids \in [Tasks -> SUBSET Tasks]
      /\ state \in [Tasks -> States] /\ PcOK
  BY DEF KernelTypeOK, PcOK, SchedPart, IInv, TypeOK
<1>3. /\ SchedNext /\ state' = [state EXCEPT ![t] = "PREPARE"] /\ state[t] = "UNKNOWN"
      /\ UNCHANGED <<current, tick, reaped>> /\ SchedPart'
  BY <1>0, <1>1, CreateEffect
<1>4. /\ \A u \in Tasks : u # t => state'[u] = state[u]
      /\ state'[t] = "PREPARE"
  BY <1>0, <1>2, <1>3
<1>5. \A u \in Procs : pc[u] = "none"
  BY DEF BootPlaces, BootOK
<1>6. NextPid # -1 /\ NextPid = pid_map.current /\ get_new_pid = NextPid
      /\ NextPid \in 0 .. PidNr - 1
  <2>1. pid_map.current \in {0, 1} /\ pid_map.current + pid_map.nr_free = PidNr
    BY DEF BootPlaces, BootOK, PidPart
  <2>2. pid_map.nr_free # 0
    BY <2>1, KernelAssumption DEF KernelTypeOK
  <2> QED  BY <2>1, <2>2, NewPid DEF NextPid
<1>7. /\ pid_map' \in [base : [0 .. PidNr - 1 -> Nodes], nr_free : Nat, current : Nat]
      /\ pid_map'.current = pid_map.current + 1
      /\ pid_map'.current + pid_map'.nr_free = PidNr
      /\ \A i \in 0 .. PidNr - 1 :
           pid_map'.base[i] = IF i = NextPid THEN t ELSE pid_map.base[i]
      /\ \A i \in 0 .. PidNr - 1 : i >= pid_map'.current => pid_map'.base[i] = M
      /\ \A i \in 0 .. PidNr - 1 : i = NextPid => pid_map.base[i] = M
  BY <1>0, <1>1, <1>6, TakeEffect
<1>8. /\ \A u \in Tasks : u # t => pid'[u] = pid[u]
      /\ pid'[t] = NextPid /\ pid' \in [Tasks -> -1 .. PidNr - 1] /\ pid[t] = -1
  BY <1>0, <1>1, <1>2, <1>3, <1>6, NewPid DEF PidPart
<1>9. /\ \A u \in Tasks : u # t /\ u # Idle => pc'[u] = pc[u]
      /\ pc'[t] = entry /\ pc'[Idle] = next
  BY <1>0, <1>1, <1>2
<1>10. \A u \in Tasks : /\ pc[u] \notin Inside \cap ProcPlaces /\ pc[u] \notin Forking
                        /\ pc[u] # "fork_take" /\ child[u] = M
  <2>1. \A u \in Tasks : pc[u] \notin Forking
    BY <1>2, <1>5, Members DEF PcOK, Forking, BeforePid, IdlePlaces, KillerPlaces
  <2>2. \A u \in Tasks : pc[u] \notin Inside \cap ProcPlaces
    BY <1>2, <1>5, Members DEF PcOK, Inside, IdlePlaces, KillerPlaces, ProcPlaces
  <2>3. \A u \in Tasks : child[u] = M
    BY <2>1, ZenonT(30) DEF ChildPart
  <2>4. "fork_take" \in Forking
    BY DEF Forking
  <2> QED  BY <2>1, <2>2, <2>3, <2>4, ZenonT(30)
<1>11. \A u \in Tasks : pc'[u] \notin Forking /\ pc'[u] \notin BeforePid /\ pc'[u] # "fork_take"
  <2>1. \A a \in {"scan", "run", "boot_init", "boot_prio"} :
          a \notin Forking /\ a \notin BeforePid /\ a # "fork_take"
    BY DEF Forking, BeforePid
  <2>2. entry \in {"scan", "run", "boot_init", "boot_prio"}
        /\ next \in {"scan", "run", "boot_init", "boot_prio"}
    BY DEF BootPlaces
  <2>3. BeforePid \subseteq Forking
    BY DEF Forking
  <2> QED  BY <1>9, <1>10, <2>1, <2>2, <2>3
<1>12. KernelTypeOK'
  <2>1. PcOK'
    BY <1>0, <1>1, <1>2, <1>9, Members DEF PcOK, BootPlaces, IdlePlaces, KillerPlaces, ProcPlaces
  <2>2. kids' \in [Tasks -> SUBSET Tasks]
    BY <1>0, <1>1, <1>2
  <2> QED  BY <1>1, <1>7, <1>8, <2>1, <2>2 DEF KernelTypeOK
<1>13. WherePart'
  <2>1. ASSUME NEW u \in Procs PROVE ProcOK(u)'
    <3>1. u \in Tasks /\ ProcOK(u) /\ pc[u] = "none" /\ u # current' /\ u # Idle
      BY <1>3, <1>5, Members DEF WherePart
    <3>2. CASE u = t
      BY <1>0, <1>3, <1>4, <1>9, <3>1, <3>2, Members DEF ProcOK, Exited, BootPlaces
    <3>3. CASE u # t
      BY <1>3, <1>4, <1>9, <3>1, <3>3 DEF ProcOK, Exited
    <3> QED  BY <3>2, <3>3
  <2>2. IdleOK'
    BY <1>0, <1>3, <1>4 DEF WherePart, IdleOK
  <2>3. KillerOK'
    <3>1. CASE t = Killer
      BY <1>0, <1>4, <1>9, <3>1 DEF KillerOK, BootPlaces
    <3>2. CASE t # Killer
      BY <1>0, <1>3, <1>4, <1>9, <3>2 DEF WherePart, KillerOK
    <3> QED  BY <3>1, <3>2
  <2> QED  BY <2>1, <2>2, <2>3 DEF WherePart
<1>14. BootOK'
  <2>1. CASE t = Killer
    <3>1. pc[Idle] = "boot_killer" /\ next = "boot_init" /\ entry = "scan"
      BY <1>0, <2>1 DEF BootPlaces
    <3>2. \A u \in Procs : pc'[u] = "none"
      BY <1>5, <1>9, <2>1, Members
    <3>3. pid_map.current = 0
      BY <3>1 DEF BootOK
    <3> QED  BY <1>7, <1>9, <2>1, <3>1, <3>2, <3>3 DEF BootOK
  <2>2. CASE t # Killer
    BY <1>0, <1>9, <2>2 DEF BootOK, BootPlaces
  <2> QED  BY <2>1, <2>2
<1>15. MutexPart'
  <2>1. \A u \in Tasks : pc'[u] = pc[u] \/ (pc[u] \notin Inside /\ pc'[u] \notin Inside)
    <3>1. pc[t] = "none"
      BY <1>0, <1>3, Members DEF WherePart, ProcOK, KillerOK
    <3>2. pc[t] \notin Inside /\ pc[Idle] \notin Inside /\ entry \notin Inside /\ next \notin Inside
      BY <3>1 DEF Inside, BootPlaces
    <3> QED  BY <1>9, <3>2
  <2> QED  BY <1>1, <2>1, MutexKeeps DEF KernelTypeOK
<1>16. ChildPart'
  BY <1>1, <1>10, <1>11 DEF ChildPart
<1>17. PidPart'
  <2>1. \A u \in Tasks : ~Chosen(u) /\ ~Chosen(u)'
    BY <1>10, <1>11 DEF Chosen
  <2>2. \A i \in 0 .. PidNr - 1 : pid_map.base[i] # t /\ pid_map.base[i] \in Nodes
    <3> SUFFICES ASSUME NEW i \in 0 .. PidNr - 1
                 PROVE  pid_map.base[i] # t /\ pid_map.base[i] \in Nodes
      OBVIOUS
    <3>1. pid_map.base[i] = t => pid[t] = i
      BY <1>0 DEF PidPart
    <3>2. pid_map.base[i] \in Nodes
      BY DEF KernelTypeOK
    <3>3. i # -1
      BY Bounds
    <3> QED  BY <1>8, <3>1, <3>2, <3>3
  <2>3. ASSUME NEW i \in 0 .. PidNr - 1, pid_map'.base[i] # M
        PROVE  pid'[pid_map'.base[i]] = i
    <3>1. CASE i = NextPid
      BY <1>7, <1>8, <3>1
    <3>2. CASE i # NextPid
      <4>1. pid_map'.base[i] = pid_map.base[i]
        BY <1>7, <3>2
      <4>2. pid_map.base[i] \in Tasks /\ pid_map.base[i] # t
        BY <2>2, <2>3, <4>1 DEF Nodes
      <4>3. pid[pid_map.base[i]] = i
        BY <2>3, <4>1 DEF PidPart
      <4> QED  BY <1>8, <4>1, <4>2, <4>3
    <3> QED  BY <3>1, <3>2
  <2>4. ASSUME NEW u \in Tasks, pid'[u] # -1, u \notin reaped
        PROVE  pid_map'.base[pid'[u]] = u
    <3>1. CASE u = t
      BY <1>6, <1>7, <1>8, <3>1
    <3>2. CASE u # t
      <4>1. pid'[u] = pid[u] /\ pid[u] \in 0 .. PidNr - 1 /\ pid_map.base[pid[u]] = u /\ u # M
        BY <1>2, <1>8, <2>1, <2>4, <3>2, Bounds, Members DEF PidPart
      <4> QED  BY <1>7, <4>1
    <3> QED  BY <3>1, <3>2
  <2>5. /\ \A u \in Tasks \ {Idle} : state'[u] # "UNKNOWN" => pid'[u] # -1
        /\ \A u \in {Killer, Init} : state'[u] = "UNKNOWN" => pid'[u] = -1
    BY <1>0, <1>4, <1>6, <1>8, Members DEF PidPart
  <2>6. pc'[Killer] # "none" => pid'[Killer] = 0
    <3>1. CASE t = Killer
      BY <1>0, <1>6, <1>8, <3>1 DEF BootPlaces, BootOK
    <3>2. CASE t # Killer
      BY <1>0, <1>8, <1>9, <3>2 DEF PidPart
    <3> QED  BY <3>1, <3>2
  <2> QED  BY <1>3, <1>7, <1>11, <2>3, <2>4, <2>5, <2>6 DEF PidPart
<1>18. ReapPart'
  <2>1. \A u \in reaped : u # t /\ u # M
    BY <1>2, <1>3, Members
  <2>2. \A u \in reaped : \A i \in 0 .. PidNr - 1 :
          pid_map.base[i] # u => pid_map'.base[i] # u
    BY <1>7, <2>1
  <2>3. \A u \in reaped : \A v \in Tasks : u \notin kids[v] => u \notin kids'[v]
    BY <1>0, <1>1, <1>2, <2>1
  <2>4. \/ pc'[Killer] = pc[Killer]
        \/ pc[Killer] = "none" /\ pc'[Killer] = "scan"
    <3>1. CASE t = Killer
      BY <1>0, <1>3, <1>9, <3>1 DEF WherePart, KillerOK, BootPlaces
    <3>2. CASE t # Killer
      BY <1>0, <1>9, <3>2
    <3> QED  BY <3>1, <3>2
  <2>5. /\ "none" \notin BeforeRelease \cup BeforeRest \cup {"kill", "advance"}
        /\ "scan" \notin BeforeRelease \cup BeforeRest \cup {"kill", "advance"}
    BY DEF BeforeRelease, BeforeRest
  <2>6. pc'[Killer] \in BeforeRelease =>
          pid'[victim] # -1 /\ pid_map'.base[pid'[victim]] = victim
    <3> SUFFICES ASSUME pc'[Killer] \in BeforeRelease
                 PROVE  pid'[victim] # -1 /\ pid_map'.base[pid'[victim]] = victim
      OBVIOUS
    <3>1. pc[Killer] \in BeforeRelease
      BY <2>4, <2>5
    <3>2. victim \in reaped /\ pid[victim] # -1 /\ pid_map.base[pid[victim]] = victim
      BY <3>1 DEF ReapPart, BeforeRest
    <3>3. victim \in Tasks /\ pid'[victim] = pid[victim] /\ pid[victim] \in 0 .. PidNr - 1
      BY <1>2, <1>8, <2>1, <3>2, Bounds
    <3> QED  BY <1>7, <2>1, <3>2, <3>3
  <2>7. /\ pc[Killer] = "kill" => state'[victim] = "IDLE"
        /\ succ # M => state'[succ] = "IDLE"
    BY <1>2, <1>3, <1>4 DEF ReapPart, KernelTypeOK, Nodes
  <2> QED  BY <1>1, <1>3, <2>2, <2>3, <2>4, <2>5, <2>6, <2>7 DEF ReapPart
<1> QED  BY <1>3, <1>12, <1>13, <1>14, <1>15, <1>16, <1>17, <1>18

\* set_task_prio of the idle task, at the end of main.
LEMMA BootPrioStep ==
  ASSUME KInv, BootPrio
  PROVE  KInv' /\ SchedNext
<1> USE DEF KInv
<1>0. /\ current = Idle /\ tick = 0 /\ pc[Idle] = "boot_prio" /\ PcOK
      /\ SetTaskPrio(Idle, MAX_PRIO - 1) /\ pc' = [pc EXCEPT ![Idle] = "idle"]
      /\ UNCHANGED <<old, child, count, owner, heap, walk, pid, pid_map, kids, victim, succ>>
      /\ pc \in [Tasks -> IdlePlaces \cup KillerPlaces \cup ProcPlaces]
      /\ prio \in [Tasks -> Prios] /\ Idle \in Tasks /\ current \notin reaped
      /\ reaped \subseteq Tasks
  BY Members DEF BootPrio, At, Goto, KernelTypeOK, PcOK, SchedPart, IInv, TypeOK
<1>1. state[Idle] = "RUNNING"
  BY <1>0 DEF WherePart, IdleOK
<1>2. SchedNext
  BY <1>0, <1>1, Bounds DEF SchedNext
<1>3. /\ prio' = [prio EXCEPT ![Idle] = MAX_PRIO - 1]
      /\ UNCHANGED <<state, wait_time, current, tick, reaped>>
  BY <1>0 DEF SetTaskPrio
<1>4. (\A u \in Tasks : u # Idle => pc'[u] = pc[u]) /\ pc'[Idle] = "idle"
  BY <1>0
<1>5. SchedPart'
  <2>1. \A u \in Tasks \ {Idle} : prio'[u] <= MAX_PRIO - 2
    BY <1>0, <1>3 DEF SchedPart
  <2> QED  BY <1>0, <1>2, <1>3, <2>1, SchedKeeps DEF SchedPart
<1>6. KernelTypeOK'
  <2>1. PcOK'
    BY <1>0, PcKeeps, Members DEF IdlePlaces
  <2> QED  BY <1>0, <2>1 DEF KernelTypeOK
<1>7. WherePart'
  BY <1>0, <1>3, WhereKeeps, Members DEF WherePart, KillerOK
<1>8. BootOK'
  BY <1>0, <1>4, Members DEF BootOK
<1>9. MutexPart'
  BY <1>0, <1>4, MutexKeeps DEF KernelTypeOK, Inside
<1>10. ChildPart'
  BY <1>0, <1>3, <1>4, ChildKeeps DEF Forking, BeforePid
<1>11. PidPart'
  BY <1>0, <1>3, <1>4, PidKeeps, Members
<1>12. ReapPart'
  BY <1>0, <1>3, <1>4, ReapKeeps, Members
<1> QED  BY <1>2, <1>5, <1>6, <1>7, <1>8, <1>9, <1>10, <1>11, <1>12

\* The tick up to its last part: no timeout runs, so it wakes nobody.
LEMMA TickStep ==
  ASSUME KInv, (IrqsOn /\ TickEnter) \/ TickSleeper, UNCHANGED kernelVars
  PROVE  KInv' /\ SchedNext
<1> USE DEF KInv
<1>0. /\ UNCHANGED <<pc, old, child, count, owner, heap, walk, pid, pid_map, kids,
                      victim, succ>>
      /\ \A u \in Tasks : wait_time[u] = -1
      /\ wait_time \in [Tasks -> Int] /\ tick \in Nat /\ reaped \subseteq Tasks
      /\ current \in Tasks /\ current \notin reaped
      /\ \A u \in Tasks \ {Idle} : prio[u] <= MAX_PRIO - 2
  BY DEF kernelVars, SchedPart, IInv, TypeOK
<1>1. SchedNext
  BY DEF SchedNext
<1>2. UNCHANGED <<state, prio, wait_time, current, reaped>>
  <2>1. CASE TickEnter
    BY <2>1 DEF TickEnter
  <2>2. CASE TickSleeper
    <3> DEFINE t == q.sleep.list[tick]
    <3>1. t \in Tasks
      <4>1. q.sleep.list \in Seq(Tasks) /\ tick \in 1 .. Len(q.sleep.list)
        BY <2>2 DEF TickSleeper, SchedPart, IInv, TypeOK, SchedList
      <4> QED  BY <4>1
    <3>2. wait_time[t] = -1
      BY <1>0, <3>1
    <3>3. UNCHANGED <<state, prio, current, reaped>> /\ wait_time' = [wait_time EXCEPT ![t] = -1]
      BY <2>2, <3>2 DEF TickSleeper
    <3> HIDE DEF t
    <3>4. wait_time' = wait_time
      BY <1>0, <3>1, <3>2, <3>3
    <3> QED  BY <3>3, <3>4
  <2> QED  BY <2>1, <2>2
<1>3. /\ \A u \in Procs : pc[u] \notin {"fork_sched", "fork_walk"}
      /\ pc[Killer] \notin {"kill_sched", "kill_walk", "kill_spin"}
  <2>1. pc[current] \notin IrqOff \/ tick # 0
    BY <1>0 DEF IrqsOn, TickSleeper
  <2> QED  BY <2>1 DEF IrqOff, WherePart, ProcOK, KillerOK
<1>4. SchedPart'
  BY <1>0, <1>1, <1>2, SchedKeeps
<1>5. WherePart'
  BY <1>0, <1>2, <1>3 DEF WherePart, ProcOK, OnCpu, KillerOK, IdleOK
<1>6. KernelTypeOK' /\ BootOK' /\ MutexPart' /\ ChildPart'
  BY <1>0, <1>2 DEF KernelTypeOK, PcOK, BootOK, MutexPart, MutexExcludes, HoldsPidMutex,
                    ChildPart
<1>7. PidPart' /\ ReapPart'
  BY <1>0, <1>2 DEF PidPart, ReapPart, Chosen, NextPid
<1> QED  BY <1>1, <1>4, <1>5, <1>6, <1>7

-----------------------------------------------------------------------------
(* The theorems *)

\* The invariant holds when main starts.
LEMMA InitKInv == KernelInit => KInv
<1> SUFFICES ASSUME KernelInit PROVE KInv
  OBVIOUS
<1>0. IInv
  BY InitIInv DEF KernelInit
<1> USE Members, Bounds DEF KernelInit
<1>1. heap \in Heap
  BY DEF Heap, L!init_list
<1>2. /\ state = [t \in Tasks |-> IF t = Idle THEN "RUNNING" ELSE "UNKNOWN"]
      /\ prio = [t \in Tasks |-> KERNEL_THREAD_PRIO - 1]
      /\ wait_time = [t \in Tasks |-> -1]
      /\ current = Idle /\ tick = 0 /\ reaped = {}
  BY DEF SchedInit
<1>3. KernelTypeOK
  <2>1. PcOK
    BY DEF PcOK, IdlePlaces, KillerPlaces, ProcPlaces
  <2>2. /\ old \in [Tasks -> States] /\ child \in [Tasks -> Users \cup {M}]
        /\ kids \in [Tasks -> SUBSET Tasks]
    BY DEF States
  <2>3. pid \in [Tasks -> -1 .. PidNr - 1]
    BY KernelAssumption
  <2>4. pid_map \in [base : [0 .. PidNr - 1 -> Nodes], nr_free : Nat, current : Nat]
    OBVIOUS
  <2> QED  BY <1>1, <2>1, <2>2, <2>3, <2>4 DEF KernelTypeOK
<1>4. SchedPart
  BY <1>0, <1>2 DEF SchedPart
<1>5. WherePart
  BY <1>2 DEF WherePart, ProcOK, KillerOK, IdleOK, Exited
<1>6. BootOK
  BY DEF BootOK
<1>7. MutexPart /\ ChildPart
  BY <1>2 DEF MutexPart, MutexExcludes, HoldsPidMutex, ChildPart, Forking, BeforePid
<1>8. PidPart
  BY <1>2 DEF PidPart, Chosen
<1>9. ReapPart
  BY <1>2 DEF ReapPart, BeforeRelease, BeforeRest
<1> QED  BY <1>3, <1>4, <1>5, <1>6, <1>7, <1>8, <1>9 DEF KInv

\* Every step keeps the invariant and is a step of the scheduler.
LEMMA StepOfSched == KInv /\ [KernelNext]_vars => KInv' /\ [SchedNext]_schedVars
<1> SUFFICES ASSUME KInv, [KernelNext]_vars PROVE KInv' /\ [SchedNext]_schedVars
  OBVIOUS
<1>0. /\ current \in Tasks /\ pc \in [Tasks -> IdlePlaces \cup KillerPlaces \cup ProcPlaces]
      /\ Idle \in Tasks /\ Killer \in Tasks /\ Forkers \subseteq Procs /\ Exiters \subseteq Procs
      /\ Procs \subseteq Tasks
  BY Members DEF KInv, SchedPart, IInv, TypeOK, KernelTypeOK, PcOK
<1>1. CASE BootStep
  <2>1. CASE BootKiller
    BY <2>1, BootTaskStep DEF BootKiller, At, BootPlaces
  <2>2. CASE BootInit
    BY <2>2, BootTaskStep DEF BootInit, At, BootPlaces
  <2> QED  BY <1>1, <2>1, <2>2, BootPrioStep DEF BootStep
<1>2. CASE IdleLoop
  <2>1. /\ current = Idle /\ Schedule /\ pc' = [pc EXCEPT ![Idle] = pc[Idle]]
        /\ UNCHANGED <<old, child, count, owner, heap, walk, pid, pid_map, kids, victim, succ>>
    BY <1>0, <1>2 DEF IdleLoop, At, kernelVars
  <2>2. SwitchPlaces(Idle, pc[Idle])
    BY DEF SwitchPlaces
  <2> QED  BY <1>0, <2>1, <2>2, SwitchStep
<1>3. ASSUME NEW t \in Forkers, ForkStep(t) PROVE KInv' /\ [SchedNext]_schedVars
  <2>0. t \in Procs /\ t \in Tasks
    BY <1>0
  <2>1. CASE ForkLock(t)
    BY <2>0, <2>1, LockStep DEF ForkLock, At, LockPlaces
  <2>2. CASE ForkSched(t)
    <3>1. SwitchPlaces(t, "fork_wait")
      BY <2>0, <2>2 DEF ForkSched, At, SwitchPlaces
    <3> QED  BY <2>0, <2>2, <3>1, SwitchStep DEF ForkSched, At, Goto
  <2>3. CASE ForkUnlock(t)
    BY <2>0, <2>3, UnlockStep DEF ForkUnlock, At
  <2>4. CASE ForkWake(t)
    BY <2>0, <2>4, WakeStep DEF ForkWake, At
  <2> QED  BY <1>3, <2>1, <2>2, <2>3, <2>4, FindStep, TakeStep, RestStep DEF ForkStep
<1>4. ASSUME NEW t \in Exiters, ExitStep(t) PROVE KInv' /\ [SchedNext]_schedVars
  <2>1. CASE ExitSched(t)
    <3>0. t \in Procs /\ t \in Tasks
      BY <1>0
    <3>1. SwitchPlaces(t, "run")
      BY <2>1, <3>0 DEF ExitSched, At, SwitchPlaces
    <3> QED  BY <2>1, <3>0, <3>1, SwitchStep DEF ExitSched, At, Goto
  <2> QED  BY <1>4, <2>1, ExitSteps DEF ExitStep
<1>5. CASE KillerStep
  <2>1. CASE KillLock
    BY <1>0, <2>1, LockStep DEF KillLock, At, LockPlaces
  <2>2. CASE KillSched
    <3>1. SwitchPlaces(Killer, "kill_wait")
      BY <2>2 DEF KillSched, At, SwitchPlaces
    <3> QED  BY <1>0, <2>2, <3>1, SwitchStep DEF KillSched, At, Goto
  <2>3. CASE KillUnlock
    BY <1>0, <2>3, UnlockStep DEF KillUnlock, At
  <2>4. CASE KillWake
    BY <1>0, <2>4, WakeStep DEF KillWake, At
  <2>5. CASE KillSpin
    <3>1. UNCHANGED schedVars
      BY <2>5 DEF KillSpin, vars
    <3> QED  BY <2>5, <3>1, StutterStep DEF KillSpin
  <2>6. CASE KillerSched
    <3>1. SwitchPlaces(Killer, "scan")
      BY <2>6 DEF KillerSched, At, SwitchPlaces
    <3> QED  BY <1>0, <2>6, <3>1, SwitchStep DEF KillerSched, At, Goto
  <2> QED  BY <1>5, <2>1, <2>2, <2>3, <2>4, <2>5, <2>6, WalkSteps, RemoveStep,
              ReleasePidStep, KillRestStep, SuspendStep DEF KillerStep
<1>6. CASE Syscall
  BY <1>6, ForkStart, ExitSteps DEF Syscall
<1>7. CASE Tick
  <2>1. CASE TickSlice
    <3>1. /\ pc' = [pc EXCEPT ![current] = pc[current]]
          /\ UNCHANGED <<old, child, count, owner, heap, walk, pid, pid_map, kids, victim, succ>>
      BY <1>0, <1>7 DEF Tick, kernelVars
    <3>2. SwitchPlaces(current, pc[current])
      BY <2>1 DEF SwitchPlaces
    <3> QED  BY <1>0, <2>1, <3>1, <3>2, SwitchStep
  <2>2. CASE (IrqsOn /\ TickEnter) \/ TickSleeper
    BY <1>7, <2>2, TickStep DEF Tick
  <2> QED  BY <1>7, <2>1, <2>2 DEF Tick
<1>8. CASE UNCHANGED vars
  <2>1. UNCHANGED schedVars
    BY <1>8 DEF vars
  <2> QED  BY <1>8, <2>1, StutterStep
<1> QED
  BY <1>1, <1>2, <1>3, <1>4, <1>5, <1>6, <1>7, <1>8 DEF KernelNext, TaskStep

\* The inductive invariant holds in every reachable state.
THEOREM KernelInductive == KernelSpec => []KInv
<1>1. KernelInit => KInv
  BY InitKInv
<1>2. KInv /\ [KernelNext]_vars => KInv'
  BY StepOfSched
<1> QED  BY <1>1, <1>2, PTL DEF KernelSpec

\* Every step of the kernel is a step of the scheduler as its clients may use
\* it: the unlocked reads of set_task_state are never stale, and no task is
\* stopped, woken or removed out of turn.
THEOREM KernelRefinesSched == KernelSpec => KernelImplementsSched
<1>1. KernelInit => SchedInit
  BY DEF KernelInit
<1>2. KInv /\ [KernelNext]_vars => [SchedNext]_schedVars
  BY StepOfSched
<1> QED  BY <1>1, <1>2, KernelInductive, PTL DEF KernelSpec, KernelImplementsSched, SchedSpec

\* The pid mutex excludes, for any number of forks and with system_killer woken
\* out of its sleep by exits.
THEOREM MutexIsExclusive == KernelSpec => []MutexExcludes
<1>1. KInv => MutexExcludes
  BY DEF KInv, MutexPart
<1> QED  BY <1>1, KernelInductive, PTL

\* pid_get_task finds every task that runs or can run, and the map is never
\* given out beyond its end.
THEOREM PidsFindTasks == KernelSpec => []PidFindsTask
<1>1. KInv => PidFindsTask
  <2> SUFFICES ASSUME KInv PROVE PidFindsTask
    OBVIOUS
  <2> USE DEF KInv
  <2>1. ASSUME NEW t \in Tasks \ (reaped \cup {Idle}), state[t] # "UNKNOWN"
        PROVE  pid[t] # -1 /\ pid_map.base[pid[t]] = t
    <3>1. ~Chosen(t)
      BY <2>1, Members DEF Chosen, ChildPart
    <3> QED  BY <2>1, <3>1 DEF PidPart
  <2> QED  BY <2>1 DEF PidFindsTask, PidPart, KernelTypeOK
<1> QED  BY <1>1, KernelInductive, PTL

\* No program runs on after exit: the last sched of task_kill_self finds
\* system_killer ready.
THEOREM ExitIsFinal == KernelSpec => []ExitNeverReturns
<1>1. KInv => ExitNeverReturns
  <2> SUFFICES ASSUME KInv, state[current] = "IDLE", pc[current] = "run" PROVE FALSE
    BY DEF ExitNeverReturns
  <2>1. current \in Tasks /\ current # Idle /\ current # Killer
    BY DEF KInv, SchedPart, IInv, TypeOK, WherePart, KillerOK, IdleOK
  <2>2. current \in Procs
    BY <2>1, Members
  <2> QED  BY <2>2 DEF KInv, WherePart, ProcOK, OnCpu, Exited
<1> QED  BY <1>1, KernelInductive, PTL

\* When system_killer is done with a task, no pid, no child list, no list of
\* the scheduler and no pointer of system_killer leads to its task_struct.
THEOREM ReapedIsGone == KernelSpec => []ReleasedIsUnreachable
<1>1. KInv => ReleasedIsUnreachable
  <2> SUFFICES ASSUME KInv, NEW t \in reaped \ {victim}
               PROVE  /\ \A i \in 0 .. PidNr - 1 : pid_map.base[i] # t
                      /\ \A u \in Tasks : t \notin kids[u]
                      /\ succ # t /\ owner # t /\ current # t
                      /\ ~On(q.idle, t) /\ ~On(q.system, t)
    BY DEF ReleasedIsUnreachable
  <2> USE DEF KInv
  <2>1. t \in Tasks /\ state[t] = "IDLE" /\ t # M
    BY Members DEF SchedPart, IInv, TypeOK
  <2>2. /\ \A i \in 0 .. PidNr - 1 : pid_map.base[i] # t
        /\ \A u \in Tasks : t \notin kids[u]
        /\ succ # t
    BY <2>1 DEF ReapPart
  <2>3. current # t /\ ~On(q.idle, t) /\ ~On(q.system, t)
    BY <2>1 DEF SchedPart, IInv, OneListPerState, Filed
  <2>4. owner # t
    <3> SUFFICES ASSUME owner = t PROVE FALSE
      OBVIOUS
    <3>1. t \in Procs
      BY <2>1, Members DEF WherePart, KillerOK, IdleOK
    <3>2. pc[t] \in Exited \cup {"run"}
      BY <2>1, <3>1 DEF WherePart, ProcOK
    <3> QED  BY <2>1, <3>2 DEF MutexPart, HoldsPidMutex, Exited
  <2> QED  BY <2>2, <2>3, <2>4
<1> QED  BY <1>1, KernelInductive, PTL

\* A task leaves the call of sched with which it went to sleep only by that
\* call: the steps of other tasks do not touch its place.
LEMMA LeavesBySched ==
  ASSUME KInv, KernelNext, NEW t \in Tasks,
         pc[t] \in {"rest", "fork_sched", "kill_sched"}, pc'[t] # pc[t]
  PROVE  current = t /\ Schedule
<1>0. /\ pc \in [Tasks -> IdlePlaces \cup KillerPlaces \cup ProcPlaces]
      /\ pc[Idle] \in IdlePlaces /\ Idle \in Tasks /\ Killer \in Tasks
      /\ Forkers \subseteq Tasks /\ Exiters \subseteq Tasks /\ Init \in Tasks
      /\ Users \subseteq Tasks
  BY Members DEF KInv, KernelTypeOK, PcOK
<1>1. t # Idle
  BY <1>0 DEF IdlePlaces
<1>2. state[t] # "UNKNOWN"
  BY <1>1, Members DEF KInv, WherePart, ProcOK, KillerOK
<1>3. ASSUME NEW c \in Tasks, NEW l, pc' = [pc EXCEPT ![c] = l] PROVE c = t
  BY <1>0, <1>3
<1>4. CASE BootStep
  <2>1. ASSUME NEW x \in Tasks, NEW p, NEW entry, NEW next, BootTask(x, p, entry, next)
        PROVE  FALSE
    <3>1. pc' = [pc EXCEPT ![x] = entry, ![Idle] = next] /\ x # t
      BY <1>2, <2>1 DEF BootTask, CreateTask
    <3> QED  BY <1>0, <1>1, <3>1
  <2> QED  BY <1>0, <1>1, <1>3, <1>4, <2>1 DEF BootStep, BootKiller, BootInit, BootPrio, Goto
<1>5. CASE IdleLoop \/ Tick
  BY <1>5 DEF IdleLoop, Tick, kernelVars
<1>6. ASSUME NEW x \in Forkers, ForkStep(x) PROVE current = t /\ Schedule
  <2>0. x \in Tasks
    BY <1>0
  <2>1. CASE ForkLock(x)
    BY <1>3, <2>0, <2>1 DEF ForkLock, At, mutex_lock, Goto
  <2>2. CASE ForkSched(x)
    BY <1>3, <2>0, <2>2 DEF ForkSched, At, Goto
  <2>3. CASE ForkFind(x) \/ ForkTake(x)
    BY <1>3, <2>0, <2>3 DEF ForkFind, ForkTake, At, Goto
  <2>4. CASE ForkUnlock(x)
    BY <1>3, <2>0, <2>4 DEF ForkUnlock, At, mutex_unlock, Goto
  <2>5. CASE ForkWake(x)
    BY <1>3, <2>0, <2>5 DEF ForkWake, At, mutex_wake, Goto
  <2>6. ASSUME NEW enough \in BOOLEAN, ForkRest(x, enough) PROVE FALSE
    <3> DEFINE n == child[x]
    <3>1. /\ pc[x] = "fork_rest"
          /\ \/ CreateTask(n, prio[x]) /\ pc' = [pc EXCEPT ![x] = "run", ![n] = "run"]
             \/ pc' = [pc EXCEPT ![x] = "run"]
      BY <2>6 DEF ForkRest, At, Goto
    <3>2. n \in Tasks /\ n # t
      <4>1. child[x] # M /\ state[child[x]] = "UNKNOWN"
        BY <2>0, <3>1 DEF KInv, ChildPart, Forking
      <4> QED  BY <1>0, <1>2, <2>0, <4>1 DEF KInv, KernelTypeOK
    <3> HIDE DEF n
    <3>3. x # t
      BY <3>1
    <3> QED  BY <1>0, <2>0, <3>1, <3>2, <3>3
  <2> QED  BY <1>6, <2>1, <2>2, <2>3, <2>4, <2>5, <2>6 DEF ForkStep
<1>7. ASSUME NEW x \in Exiters, ExitStep(x) \/ ExitRead(x) PROVE FALSE
  <2>1. x \in Tasks /\ x # t
    BY <1>0, <1>7 DEF ExitStep, ExitRead, ExitStop, ExitCheck, ExitReadKiller, ExitWake,
                      ExitSched, At
  <2> QED  BY <1>3, <1>7, <2>1 DEF ExitStep, ExitRead, ExitStop, ExitCheck, ExitReadKiller,
                                   ExitWake, ExitSched, Goto
<1>8. CASE KillerStep
  <2>1. CASE Scan \/ Advance
    BY <1>0, <1>3, <2>1 DEF Scan, Advance, At, Visit, Goto
  <2>2. CASE KillRemove
    BY <1>0, <1>3, <2>2 DEF KillRemove, At, Goto
  <2>3. CASE KillLock
    BY <1>0, <1>3, <2>3 DEF KillLock, At, mutex_lock, Goto
  <2>4. CASE KillSched \/ KillerSched
    BY <1>0, <1>3, <2>4 DEF KillSched, KillerSched, At, Goto
  <2>5. CASE KillPid \/ KillerSuspend
    BY <1>0, <1>3, <2>5 DEF KillPid, KillerSuspend, At, Goto
  <2>6. CASE KillUnlock
    BY <1>0, <1>3, <2>6 DEF KillUnlock, At, mutex_unlock, Goto
  <2>7. CASE KillWake
    BY <1>0, <1>3, <2>7 DEF KillWake, At, mutex_wake, Goto
  <2>8. CASE KillRest
    BY <1>0, <1>3, <2>8 DEF KillRest, At, Goto
  <2>9. CASE KillSpin
    BY <2>9 DEF KillSpin, vars, kernelVars
  <2> QED  BY <1>8, <2>1, <2>2, <2>3, <2>4, <2>5, <2>6, <2>7, <2>8, <2>9 DEF KillerStep
<1>9. ASSUME NEW x \in Forkers, NEW n \in Users, Fork(x, n) PROVE FALSE
  BY <1>0, <1>3, <1>9 DEF Fork, At, Goto
<1> QED
  BY <1>4, <1>5, <1>6, <1>7, <1>8, <1>9 DEF KernelNext, TaskStep, Syscall

\* A task that put itself to sleep gets the CPU back unwoken only when nobody
\* else was ready.
THEOREM SleepersWait == KernelSpec => UnwokenOnlyWhenIdle
<1> DEFINE A == \A t \in Tasks :
                  /\ pc[t] \in {"rest", "fork_sched", "kill_sched"} /\ pc'[t] # pc[t]
                  /\ state[t] = "SLEEP" /\ current' = t
                  => \A u \in Tasks \ {Idle} : state[u] # "PREPARE"
<1>1. KInv /\ [KernelNext]_vars => [A]_vars
  <2> SUFFICES ASSUME KInv, KernelNext, NEW t \in Tasks,
                      pc[t] \in {"rest", "fork_sched", "kill_sched"}, pc'[t] # pc[t],
                      state[t] = "SLEEP", current' = t,
                      NEW u \in Tasks \ {Idle}
               PROVE  state[u] # "PREPARE"
    OBVIOUS
  <2>1. current = t /\ Schedule
    BY LeavesBySched
  <2>2. \A v \in Tasks : prio[v] <= MAX_PRIO - 2 => state[v] # "PREPARE"
    BY <2>1, SwitchEffect DEF KInv, SchedPart
  <2> QED  BY <2>2 DEF KInv, SchedPart
<1> QED  BY <1>1, KernelInductive, PTL DEF KernelSpec, UnwokenOnlyWhenIdle

\* So what is proved of the scheduler for any clients holds of the kernel.
THEOREM KernelKeepsLists ==
  KernelSpec => [](OneListPerState /\ RunningIsCurrent /\ SliceArmed) /\ IdleIsFinal
BY KernelRefinesSched, OneList, OneRunning, EveryTickReschedules, IdleFinal, PTL
   DEF KernelImplementsSched

=============================================================================
