\* The idle task and two more, each of them a kernel thread or a process.
SPECIFICATION CtxSpec
CONSTANTS
  Tasks = {idle, a, b}
  idle = idle
INVARIANTS
  FramesResume
  StackBalanced
  RunsInOwnSpace
PROPERTIES
  SyscallComesBack
