CONSTANTS
  t1 = t1  t2 = t2  t3 = t3
  Threads = {t1, t2, t3}
  Objects = {t1}
  Ctxs = {c1, c2}
  Fds = {f1, f2}
  Bos = {b1, b2}
  CardFds = {5, 6}
  Null = Null
SPECIFICATION RkSpec
SYMMETRY Symmetry
INVARIANTS ReadyHoldsContext NothingLeftBehind BoOwnsItsCard
