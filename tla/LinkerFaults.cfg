CONSTANTS
  NULL = NULL
  BaseEntries <- Base3
  Threads = {t1, t2}
  Views = {v1, v2, v3, v4, v5, v6, v7, v8}
  Libs = {"foo", "bar"}
  SysLibs = {"log"}
  Needed <- NeededFoo
  Faults = {"file", "system", "relocate", "address", "jni"}
  CtorOpens = {}
  DelayedOpen = {FALSE}
  DelayedClose = {FALSE}
  DrainFirst = FALSE
  MaxHandles = 1
  MaxPosted = 0
  MaxLeaked = 1
SPECIFICATION Spec
SYMMETRY Symmetry
INVARIANTS
  HandlesLive
  DependenciesUp
  RefCountExact
  AllUnloaded
