CONSTANTS
  NULL = NULL
  BaseEntries <- Base3
  Threads = {t1}
  Views = {v1, v2, v3, v4, v5, v6, v7, v8}
  Libs = {"foo", "bar"}
  SysLibs = {"log"}
  Needed <- NeededFoo
  Faults = {"file", "system"}
  CtorOpens = {}
  DelayedOpen = {TRUE, FALSE}
  DelayedClose = {FALSE}
  DrainFirst = TRUE
  MaxHandles = 2
  MaxPosted = 2
  MaxLeaked = 1
SPECIFICATION Spec
INVARIANTS
  
  
  SystemOwnsEnds
