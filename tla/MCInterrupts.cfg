SPECIFICATION InterruptsSpec
CONSTANTS
  TimerProc = timer
  LoopProc = loop
  Procs = {timer, loop, user}
  LOOP = main
  Tasks = {task}
  MaxNodes = 3
  MaxAdds = 2
  EarlyTasks = FALSE
  SelfDelete = FALSE
  Pins = {p1, p2}
  NoPin = none
  IntPins = {p1}
  COUNT = 3
  MaxCalls = 4
  MaxIntCalls = 4
INVARIANTS TypesOK ListSound PortInterruptSound EdgesAsAsked
PROPERTIES EveryProcessRuns CalledForAnEdge EdgeServed CallReturns
CHECK_DEADLOCK FALSE
