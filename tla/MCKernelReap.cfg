SPECIFICATION FairKernelSpec
CONSTANTS
  Idle = idle
  Killer = killer
  Init = init
  Users = {u1, u2}
  Tasks = {idle, killer, init, u1, u2}
  M = m
  MAX_PRIO = 4
  KERNEL_THREAD_PRIO = 2
  PROCESS_DEFAULT_PRIO = 2
  PidNr = 4
  Forkers = {init}
  Exiters = {u1, u2}
  Timeouts <- MCTimeouts
PROPERTY
  ExitedIsReaped
