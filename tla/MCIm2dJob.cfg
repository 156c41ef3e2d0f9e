CONSTANTS
  Threads = {t1, t2, t3}
  Handles = {h1, h2, h3}
  Jobs = {j1, j2, j3}
  RGA_TASK_NUM_MAX = 1
  OwnedHandles = {h1}
  Null = Null
SPECIFICATION ListSpec
SYMMETRY Symmetry
INVARIANTS TypeOK JobsAccounted JobNotFreedWhileRead MapBacked FreshHandle ListIsMap
PROPERTIES TasksFixedWhileRead
