\* Two processes that fork, two that exit, and task_structs for two forks under
\* way.  No process that exits has ever waited for the mutex.
SPECIFICATION KernelSpec
CONSTANTS
  Idle = idle
  Killer = killer
  Init = init
  Users = {u1, u2, u3, u4, u5}
  Tasks = {idle, killer, init, u1, u2, u3, u4, u5}
  M = m
  MAX_PRIO = 4
  KERNEL_THREAD_PRIO = 2
  PROCESS_DEFAULT_PRIO = 2
  PidNr = 5
  Forkers = {init, u1}
  Exiters = {u2, u3}
  Timeouts <- MCTimeouts
SYMMETRY Alike
INVARIANT
  WaitersListed
