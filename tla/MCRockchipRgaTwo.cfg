CONSTANTS
  t1 = t1  t2 = t2  t3 = t3
  Threads = {t1, t2, t3}
  Objects = {t1, t2}
  Ctxs = {c1, c2}
  Fds = {f1, f2}
  Bos = {b1}
  CardFds = {5}
  Null = Null
SPECIFICATION RkSpec
INVARIANT NeverCloseBeforeInit
