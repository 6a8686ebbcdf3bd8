------------------------------ MODULE VfsFiles ------------------------------
(***************************************************************************)
(* The descriptor table of the CrystaX virtual file system (fileio.cpp)    *)
(* and the calls that fill and empty it: open, close, opendir, closedir,   *)
(* pipe, socket, accept, with the drivers they go through (adriver.cpp)    *)
(* and mount, umount and chdir running beside them.                        *)
(*                                                                         *)
(* Each table has its own lock and no call holds two of them, so a call is *)
(* a frame that takes one step per critical section.  The kernel's         *)
(* descriptors and directories are external; whatever depends on which     *)
(* files exist is left open.                                               *)
(*                                                                         *)
(* What the program does and does not do is in the guards named May...     *)
(***************************************************************************)
EXTENDS VfsMount

CONSTANTS
  Threads,
  OpenArgs, ChdirArgs,   \* path arguments: [abs : BOOLEAN, parts : Seq(STRING)]
  Directories,           \* the paths that may be directories
  FdTableSize,           \* FD_TABLE_SIZE of fileio.cpp
  AssetTableSize,        \* FD_TABLE_SIZE of an assets driver
  MaxCalls,              \* calls made by the program (bound)
  SystemFds              \* the descriptors the kernel gives the process (bound)

VARIABLES
  fd_table, fd_table_top,
  assets,      \* fd_table of each assets driver
  sysfd,       \* the kernel's descriptor table (external)
  calls,       \* number of calls made so far
  call,        \* the call each thread is in
  held,        \* the slots the program got from the calls above and has not closed
  lost         \* slots of directory streams closed while they were topmost

fileVars == <<fd_table, fd_table_top, assets, sysfd, calls, call, held, lost>>
vars == <<mountVars, cwdVars, fileVars>>

Slots == 0 .. FdTableSize - 1
Lowest(S) == CHOOSE n \in S : \A m \in S : n <= m
Highest(S) == CHOOSE n \in S : \A m \in S : m <= n

\* A file is known by the driver that opened it and its path; pipes, sockets and
\* the terminal have no path.
NoFile == [driver |-> -1, path |-> NoPath]
Unnamed == [driver |-> System, path |-> NoPath]
FreeRecord == [dirp |-> "NULL", extfd |-> -1, driver |-> System, path |-> NoPath]
FreeEntry == [obj |-> NoFile, extfd |-> -1]
Idle == [pc |-> "idle", arg |-> [abs |-> TRUE, parts |-> <<>>], chain |-> <<>>, exts |-> <<>>,
         slots |-> <<>>, dirp |-> "NULL", file |-> NoFile, named |-> NoPath,
         steady |-> TRUE, todo |-> <<>>]

\* init_fd, with one standard descriptor, which the program keeps.
Init ==
  /\ MountInit
  /\ fd_table = [fd \in Slots |-> IF fd = 0 THEN [FreeRecord EXCEPT !.extfd = 0] ELSE FreeRecord]
  /\ fd_table_top = 0
  /\ assets = [d \in Driver |-> [k \in 0 .. AssetTableSize - 1 |-> FreeEntry]]
  /\ sysfd = [n \in 0 .. SystemFds - 1 |-> IF n = 0 THEN Unnamed ELSE NoFile]
  /\ calls = 0
  /\ call = [t \in Threads |-> Idle]
  /\ held = [fd \in {} |-> NoFile]
  /\ lost = {}

-----------------------------------------------------------------------------
(* The tables *)

FreeSlots == {fd \in Slots : fd_table[fd].extfd < 0}
UsedSlots == Slots \ FreeSlots
FreeSys == {n \in DOMAIN sysfd : sysfd[n] = NoFile}
FreeEntries(d) == {k \in DOMAIN assets[d] : assets[d][k] = FreeEntry}

\* (Mutant) fd_table_top follows files only.
allocTopForFiles(dirp, extfd, driver, path) ==
  LET fd == Lowest(FreeSlots) IN
  /\ fd_table' = [fd_table EXCEPT ![fd] = [dirp |-> dirp, extfd |-> extfd,
                                           driver |-> driver, path |-> path]]
  /\ fd_table_top' = IF fd_table_top < fd /\ dirp = "NULL" THEN fd ELSE fd_table_top

\* alloc_fd and alloc_dirp
alloc(dirp, extfd, driver, path) ==
  LET fd == Lowest(FreeSlots) IN
  /\ fd_table' = [fd_table EXCEPT ![fd] = [dirp |-> dirp, extfd |-> extfd,
                                           driver |-> driver, path |-> path]]
  /\ fd_table_top' = IF fd_table_top < fd THEN fd ELSE fd_table_top

\* The loop that lowers fd_table_top when the topmost slot has been freed.
TopAfter(fd) == IF fd_table_top = fd THEN Highest(UsedSlots \ {fd}) ELSE fd_table_top

free_fd(fd) ==
  /\ fd_table' = [fd_table EXCEPT ![fd] = FreeRecord]
  /\ fd_table_top' = TopAfter(fd)

\* The loop runs over the slots below the topmost one.
free_dirp(fd) ==
  IF fd < fd_table_top /\ fd_table[fd].dirp = "DIR"
    THEN fd_table' = [fd_table EXCEPT ![fd] = FreeRecord]
    ELSE UNCHANGED fd_table

-----------------------------------------------------------------------------
(* What the program keeps to *)

\* A driver is unmounted only when no call or descriptor went to it directly.
MayUnmount(path) ==
  \A i \in DOMAIN mount_table :
    Unmounts(i, path) =>
      /\ \A fd \in UsedSlots : fd_table[fd].driver # mount_table[i]
      /\ \A t \in Threads : call[t].chain # <<>> => call[t].chain[1] # mount_table[i]

\* Directories are opened outside of mounted trees: dirfd of an assets driver
\* is not implemented.
MayOpendir(path) == find_driver(path) = System

\* fchdir is called for files and directories: chdir does not expect NULL.
MayFchdir(fd) == fd_table[fd].path # NoPath

-----------------------------------------------------------------------------
(* Entering the virtual file system *)

Enter(t, frame) ==
  /\ call[t] = Idle
  /\ calls < MaxCalls
  /\ calls' = calls + 1
  /\ call' = [call EXCEPT ![t] = frame]

\* open and opendir: find_driver(path)
Opening(arg, dirp) ==
  [Idle EXCEPT !.pc = "open", !.arg = arg, !.dirp = dirp,
               !.chain = <<find_driver(absolutize(arg))>>,
               !.named = absolutize(arg), !.steady = arg.abs \/ getcwd = syscwd]

open(t, arg) ==
  /\ Enter(t, Opening(arg, "NULL"))
  /\ UNCHANGED <<mountVars, cwdVars, fd_table, fd_table_top, assets, sysfd, held, lost>>

opendir(t, arg) ==
  /\ MayOpendir(absolutize(arg))
  /\ Enter(t, Opening(arg, "DIR"))
  /\ UNCHANGED <<mountVars, cwdVars, fd_table, fd_table_top, assets, sysfd, held, lost>>

\* pipe, socket and accept: the kernel hands out n descriptors; alloc_fd gets
\* no path.
FromKernel(t, n) ==
  /\ Cardinality(FreeSys) >= n
  /\ LET first == Lowest(FreeSys)
         exts == IF n = 1 THEN <<first>> ELSE <<first, Lowest(FreeSys \ {first})>>
     IN  /\ Enter(t, [Idle EXCEPT !.pc = "alloc", !.chain = <<System>>,
                                  !.exts = exts, !.file = Unnamed])
         /\ sysfd' = [k \in DOMAIN sysfd |-> IF k \in Range(exts) THEN Unnamed ELSE sysfd[k]]
  /\ UNCHANGED <<mountVars, cwdVars, fd_table, fd_table_top, assets, held, lost>>

pipe(t) == FromKernel(t, 2)
socket(t) == FromKernel(t, 1)

\* accept resolves the socket it is given first.
accept(t, fd) == fd_table[fd].extfd # -1 /\ FromKernel(t, 1)

\* close and closedir: resolve
Resolved(fd, pc) ==
  [Idle EXCEPT !.pc = pc, !.slots = <<fd>>, !.chain = <<fd_table[fd].driver>>,
               !.todo = <<[driver |-> fd_table[fd].driver, extfd |-> fd_table[fd].extfd]>>]

Closing(t, fd, pc) ==
  /\ Enter(t, Resolved(fd, pc))
  /\ held' = [h \in DOMAIN held \ {fd} |-> held[h]]
  /\ UNCHANGED <<mountVars, cwdVars, fd_table, fd_table_top, assets, sysfd, lost>>

close(t, fd) == fd_table[fd].dirp = "NULL" /\ Closing(t, fd, "free")
closedir(t, fd) == fd_table[fd].dirp = "DIR" /\ Closing(t, fd, "freedir")

\* chdir: find_driver
chdir(t, path) ==
  /\ Enter(t, [Idle EXCEPT !.pc = "chdir", !.chain = <<find_driver(path)>>, !.named = path])
  /\ UNCHANGED <<mountVars, cwdVars, fd_table, fd_table_top, assets, sysfd, held, lost>>

\* fchdir goes to the path recorded for the descriptor.
fchdir(t, fd) == MayFchdir(fd) /\ chdir(t, fd_table[fd].path)

-----------------------------------------------------------------------------
(* The steps of a call *)

In(t, pc) == call[t].pc = pc
Current(t) == Last(call[t].chain)

\* Where a driver's open returns to.
Above(chain) == IF Len(chain) = 1 THEN "alloc" ELSE "up"

\* The kernel opens what the argument names in its own current directory.
SystemOpens(t) ==
  /\ In(t, "open") /\ Current(t) = System /\ FreeSys # {}
  /\ LET file == [driver |-> System, path |-> SystemPath(call[t].arg)] IN
     /\ sysfd' = [sysfd EXCEPT ![Lowest(FreeSys)] = file]
     /\ call' = [call EXCEPT ![t].pc = Above(call[t].chain),
                             ![t].exts = <<Lowest(FreeSys)>>, ![t].file = file]
  /\ UNCHANGED <<mountVars, cwdVars, calls, fd_table, fd_table_top, assets, held, lost>>

\* (Mutant) the assets driver takes every path it is given.
check_subpathNone(d, path) == TRUE

check_subpath(d, path) == is_subpath(root(d), path)

\* driver_t::open of the assets driver, for a file that exists below it or is
\* opened for writing: "pass to underlying driver", with the argument as it is.
PassesDown(t) ==
  /\ In(t, "open") /\ Current(t) # System
  /\ check_subpath(Current(t), absolutize(call[t].arg))
  /\ call' = [call EXCEPT ![t].chain = Append(@, underlying(Current(t)))]
  /\ UNCHANGED <<mountVars, cwdVars, calls, fd_table, fd_table_top, assets, sysfd, held, lost>>

\* The same for a file of the assets: the stream gets an entry.
OpensAsset(t) ==
  LET d == Current(t)
      k == Lowest(FreeEntries(d))
      file == [driver |-> d, path |-> absolutize(call[t].arg)] IN
  /\ In(t, "open") /\ d # System
  /\ check_subpath(d, file.path)
  /\ FreeEntries(d) # {}
  /\ assets' = [assets EXCEPT ![d][k].obj = file]
  /\ call' = [call EXCEPT ![t].pc = Above(call[t].chain),
                          ![t].exts = <<k>>, ![t].file = file]
  /\ UNCHANGED <<mountVars, cwdVars, calls, fd_table, fd_table_top, sysfd, held, lost>>

\* A driver's open returns -1 (no such file, no free entry, not a subpath), and
\* with it every open above; chdir ends when stat fails or finds no directory.
Fails(t) ==
  /\ In(t, "open") \/ In(t, "chdir")
  /\ call' = [call EXCEPT ![t] = Idle]
  /\ UNCHANGED <<mountVars, cwdVars, calls, fd_table, fd_table_top, assets, sysfd, held, lost>>

\* alloc_fd of the assets driver for the descriptor of the driver below it.
GoesUp(t) ==
  LET chain == Front(call[t].chain)
      k == Lowest(FreeEntries(Last(chain))) IN
  /\ In(t, "up")
  /\ FreeEntries(Last(chain)) # {}
  /\ assets' = [assets EXCEPT ![Last(chain)][k].extfd = call[t].exts[1]]
  /\ call' = [call EXCEPT ![t].pc = Above(chain),
                          ![t].chain = chain, ![t].exts = <<k>>]
  /\ UNCHANGED <<mountVars, cwdVars, calls, fd_table, fd_table_top, sysfd, held, lost>>

\* (Mutant) the descriptor of the driver is forgotten.
GiveBackNone(f) == [f EXCEPT !.pc = "close", !.todo = <<[driver |-> System, extfd |-> -1]>>]

\* No entry is free: the descriptors got from the driver below are closed.
GiveBack(f) ==
  [f EXCEPT !.pc = IF f.slots = <<>> THEN "close" ELSE "free",
            !.todo = [i \in DOMAIN f.exts |-> [driver |-> Last(f.chain), extfd |-> f.exts[i]]]]

TableFull(t) ==
  /\ \/ In(t, "up") /\ FreeEntries(Last(Front(call[t].chain))) = {}
     \/ In(t, "alloc") /\ FreeSlots = {}
  /\ call' = [call EXCEPT ![t] = GiveBack(@)]
  /\ UNCHANGED <<mountVars, cwdVars, calls, fd_table, fd_table_top, assets, sysfd, held, lost>>

\* alloc_fd or alloc_dirp for the next descriptor, with the path as it is
\* absolute now; after the last one the call returns its slots.
Allocates(t) ==
  LET f == call[t]
      slots == Append(f.slots, Lowest(FreeSlots)) IN
  /\ In(t, "alloc") /\ FreeSlots # {}
  /\ alloc(f.dirp, f.exts[Len(slots)], f.chain[1],
           IF f.named = NoPath THEN NoPath ELSE absolutize(f.arg))
  /\ IF Len(slots) < Len(f.exts)
       THEN call' = [call EXCEPT ![t].slots = slots] /\ UNCHANGED held
       ELSE /\ call' = [call EXCEPT ![t] = Idle]
            /\ held' = [h \in DOMAIN held \cup Range(slots) |->
                          IF h \in Range(slots)
                            THEN [file |-> f.file, named |-> f.named, steady |-> f.steady]
                            ELSE held[h]]
  /\ UNCHANGED <<mountVars, cwdVars, calls, assets, sysfd, lost>>

\* free_fd or free_dirp
Frees(t) ==
  LET fd == call[t].slots[1] IN
  /\ \/ In(t, "free") /\ free_fd(fd) /\ UNCHANGED lost
     \/ /\ In(t, "freedir") /\ free_dirp(fd) /\ UNCHANGED fd_table_top
        /\ lost' = IF \E s \in UsedSlots : s > fd THEN lost ELSE lost \cup {fd}
  /\ call' = [call EXCEPT ![t].pc = "close"]
  /\ UNCHANGED <<mountVars, cwdVars, calls, assets, sysfd, held>>

\* What close of an assets driver goes on to close in the driver below.
Below(r) ==
  LET extfd == assets[r.driver][r.extfd].extfd IN
  IF extfd = -1 THEN <<>> ELSE <<[driver |-> underlying(r.driver), extfd |-> extfd]>>

\* driver->close of the next descriptor
Closes(t) ==
  LET r == Head(call[t].todo)
      todo == (IF r.driver = System THEN <<>> ELSE Below(r)) \o Tail(call[t].todo) IN
  /\ In(t, "close")
  /\ call' = [call EXCEPT ![t] = IF todo = <<>> THEN Idle ELSE [@ EXCEPT !.todo = todo]]
  /\ IF r.driver = System
       THEN sysfd' = [n \in DOMAIN sysfd |-> IF n = r.extfd THEN NoFile ELSE sysfd[n]] /\ UNCHANGED assets
       ELSE assets' = [assets EXCEPT ![r.driver][r.extfd] = FreeEntry] /\ UNCHANGED sysfd
  /\ UNCHANGED <<mountVars, cwdVars, calls, fd_table, fd_table_top, held, lost>>

\* chdir: stat succeeded; a relative argument of a call in progress now means
\* something else.
ChangesDir(t) ==
  /\ In(t, "chdir")
  /\ Current(t) = System \/ check_subpath(Current(t), call[t].named)
  /\ call[t].named \in Directories
  /\ SetCwd(call[t].named)
  /\ call' = [u \in Threads |-> IF u = t THEN Idle
                                ELSE [call[u] EXCEPT !.steady = @ /\ call[u].arg.abs]]
  /\ UNCHANGED <<mountVars, calls, fd_table, fd_table_top, assets, sysfd, held, lost>>

Mount(t, p) == call[t] = Idle /\ mount(p) /\ UNCHANGED <<cwdVars, fileVars>>

Umount(t, p) ==
  call[t] = Idle /\ MayUnmount(p) /\ umount(p) /\ UNCHANGED <<cwdVars, fileVars>>

Next ==
  \E t \in Threads :
    \/ \E a \in OpenArgs : open(t, a) \/ opendir(t, a)
    \/ \E fd \in DOMAIN held : close(t, fd) \/ closedir(t, fd) \/ accept(t, fd) \/ fchdir(t, fd)
    \/ \E a \in ChdirArgs : chdir(t, absolutize(a))
    \/ \E p \in MountPoints : Mount(t, p) \/ Umount(t, p)
    \/ pipe(t) \/ socket(t)
    \/ SystemOpens(t) \/ PassesDown(t) \/ OpensAsset(t) \/ Fails(t) \/ GoesUp(t)
    \/ TableFull(t) \/ Allocates(t) \/ Frees(t) \/ Closes(t) \/ ChangesDir(t)

Spec == Init /\ [][Next]_vars

-----------------------------------------------------------------------------
(* Ownership of descriptors *)

\* The open descriptors of the kernel and of the mounted assets drivers.
OpenExts ==
  {[driver |-> System, extfd |-> n] : n \in DOMAIN sysfd \ FreeSys} \cup
  UNION {{[driver |-> d, extfd |-> k] : k \in DOMAIN assets[d] \ FreeEntries(d)} : d \in Driver}

SlotExt(fd) == [driver |-> fd_table[fd].driver, extfd |-> fd_table[fd].extfd]

\* The descriptors a call has and no table does.
CallExts(t) ==
  LET f == call[t] IN
  CASE f.pc \in {"up", "alloc"} ->
         {[driver |-> Last(f.chain), extfd |-> f.exts[i]] : i \in Len(f.slots) + 1 .. Len(f.exts)}
    [] f.pc = "free" -> {f.todo[i] : i \in 2 .. Len(f.todo)}
    [] f.pc = "close" -> Range(f.todo)
    [] OTHER -> {}

EntryExt(e) == [driver |-> underlying(e[1]), extfd |-> assets[e[1]][e[2]].extfd]
Passing == {e \in Driver \X (0 .. AssetTableSize - 1) : EntryExt(e).extfd # -1}

Owners(r) ==
  Cardinality({fd \in UsedSlots \ lost : SlotExt(fd) = r}) +
  Cardinality({e \in Passing : EntryExt(e) = r}) +
  Cardinality({t \in Threads : r \in CallExts(t)})

\* A descriptor opened by a driver has exactly one owner (a slot, an entry of
\* the assets driver above, or a call that will store or close it), and owners
\* own open descriptors only: none is leaked or closed twice on the error paths
\* of open, pipe and opendir, whatever table is full and whoever is faster.  A
\* directory stream closed while its slot is topmost keeps the slot (lost).
OwnedOnce ==
  /\ \A r \in OpenExts : Owners(r) = 1
  /\ {SlotExt(fd) : fd \in UsedSlots \ lost} \subseteq OpenExts
  /\ {EntryExt(e) : e \in Passing} \subseteq OpenExts
  /\ \A t \in Threads : CallExts(t) \subseteq OpenExts

\* The file that reads and writes on a descriptor of a driver get to.
FileAt(r) ==
  LET file[d \in {System} \cup Driver] ==
        IF d = System THEN sysfd
        ELSE [k \in DOMAIN assets[d] |->
                LET e == assets[d][k] IN
                IF e.extfd = -1 THEN e.obj ELSE file[underlying(d)][e.extfd]]
  IN  file[r.driver][r.extfd]

\* A slot the program holds leads, through the drivers it was opened with, to
\* the file that was opened for it, however slots, entries and kernel
\* descriptors have been reused since; a slot that is taken, and not the
\* standard one, is held by the program, by one call, or lost.
HeldNamesOwnFile ==
  /\ \A fd \in DOMAIN held :
       fd \in UsedSlots /\ FileAt(SlotExt(fd)) = held[fd].file
  /\ \A fd \in UsedSlots \ (lost \cup {0}) :
       Cardinality({t \in Threads : fd \in Range(call[t].slots) /\ ~In(t, "close")})
         = IF fd \in DOMAIN held THEN 0 ELSE 1

\* The file behind a held slot, and the path recorded for it (fchdir goes
\* there), are what the argument of open named when open was called, if no
\* chdir came in between and the kernel followed the last one; and an assets
\* driver opens nothing outside of its root, although find_driver also gives it
\* the paths that only begin like its root.
OpensWhatIsNamed ==
  \A fd \in DOMAIN held :
    LET h == held[fd] IN
    /\ h.steady => h.file.path = h.named /\ fd_table[fd].path = h.named
    /\ h.file.driver # System => is_subpath(root(h.file.driver), h.file.path)

\* The driver of every slot and call, and all drivers below it, exist.
DriversLive ==
  LET dead[d \in {System} \cup Driver] ==
        d # System /\ (drivers[d].state # "live" \/ dead[underlying(d)])
  IN  /\ \A fd \in UsedSlots : ~dead[fd_table[fd].driver]
      /\ \A t \in Threads : \A d \in Range(call[t].chain) : ~dead[d]
      /\ \A t \in Threads : \A r \in Range(call[t].todo) : ~dead[r.driver]
=============================================================================
