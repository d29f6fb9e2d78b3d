SPECIFICATION KernelSpec
CONSTANTS
  Idle = idle
  Killer = killer
  Init = init
  Users = {u1, u2, u3}
  Tasks = {idle, killer, init, u1, u2, u3}
  M = m
  MAX_PRIO = 4
  KERNEL_THREAD_PRIO = 2
  PROCESS_DEFAULT_PRIO = 2
  PidNr = 4
  Forkers = {init, u1}
  Exiters = {u1, u2}
  Timeouts <- MCTimeouts
INVARIANTS
  MutexExcludes
  PidFindsTask
  
PROPERTIES
  KernelImplementsSched
  UnwokenOnlyWhenIdle
