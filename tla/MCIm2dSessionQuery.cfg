CONSTANTS
  rga3 = rga3  rga2e = rga2e  rga1 = rga1  odd = odd
  Threads = {t1, t2}
  Importers = {t1}
  Fds = {3, 4}
  MergedCores <- MCMergedCores
  StringCores <- MCStringCores
  UnknownCores <- MCUnknownCores
  CoreLists <- MCCoreLists
  Releases <- MCReleases
  Drivers <- MCDrivers
  Headers <- MCHeaders
  Null = Null
SPECIFICATION BufSpec
CHECK_DEADLOCK FALSE
INVARIANT QuerystringReturns
