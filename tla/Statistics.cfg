SPECIFICATION Spec
CONSTANTS
  idle = idle
  init = init
  p = p
  Tasks = {idle, init, p}
  idle_task = idle
  init_task = init
  Late = {0, 1}
  BootTicks = 1
  MaxTicks = 3
INVARIANTS
  NoTickTwice
  UserTicksExact
CHECK_DEADLOCK FALSE
