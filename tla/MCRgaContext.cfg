CONSTANTS
  Threads = {t1, t2, t3}
  Ctxs = {c1, c2}
  Fds = {f1}
  Null = Null
SPECIFICATION FairSpec
INVARIANTS TypeOK NoUseAfterFree HolderKeepsContext NoLeak NeverCloseBeforeInit
PROPERTIES ImplementsDevice CloseFinishes OpenIsWoken
