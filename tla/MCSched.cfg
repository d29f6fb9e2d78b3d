\* Two tasks beside the idle task, three priorities, waits without a limit
\* and of one or two ticks.
SPECIFICATION SchedSpec
CONSTANTS
  Idle = idle
  Tasks = {idle, a, b}
  MAX_PRIO = 3
  KERNEL_THREAD_PRIO = 1
  MaxTick = 2
  Timeouts <- MCTimeouts
INVARIANTS
  TypeOK
  OneListPerState
  RunningIsCurrent
  SliceArmed

  
