------------------------------ MODULE VfsMount ------------------------------
(***************************************************************************)
(* The mount table of the CrystaX virtual file system (mount.cpp), the     *)
(* current directory (chdir.cpp, getcwd.cpp) and the path functions they   *)
(* use (futils.cpp).                                                       *)
(*                                                                         *)
(* A path is the sequence of its components; an argument is a path as the  *)
(* program writes it, absolute or relative, with "." and ".." in it.       *)
(***************************************************************************)
EXTENDS Integers, Sequences, SequencesExt, FiniteSets

CONSTANTS
  Names,            \* file names
  NamePrefix,       \* <<m, n>> : name m, as a string, is a proper prefix of n
  MaxDrivers,       \* number of asset drivers ever created (bound)
  MountTableSize,   \* MOUNT_TABLE_SIZE
  MountPoints       \* the absolute paths the program mounts at

ASSUME MountAssumption ==
  /\ MountPoints \subseteq Seq(Names)
  /\ NamePrefix \subseteq Names \X Names
  /\ {MaxDrivers, MountTableSize} \subseteq Nat

VARIABLES
  drivers,          \* the driver_t objects created by load_driver
  mount_table,      \* mount_table[0 .. mount_table_pos - 1]
  cpath,            \* the current path, NoPath until the first chdir
  syscwd            \* the kernel's current directory (external)

mountVars == <<drivers, mount_table>>
cwdVars == <<cpath, syscwd>>

-----------------------------------------------------------------------------
(* Paths *)

NoPath == <<"">>    \* NULL

\* The loop of normalize over the components of an absolute path.
normalize(parts) ==
  LET part(path, c) == CASE c = "." -> path
                         [] c = ".." -> IF path = <<>> THEN path ELSE Front(path)
                         [] OTHER -> Append(path, c)
  IN  FoldLeft(part, <<>>, parts)

getcwd == IF cpath = NoPath THEN syscwd ELSE cpath

absolutize(arg) == normalize(IF arg.abs THEN arg.parts ELSE getcwd \o arg.parts)

\* What the kernel makes of an argument it gets unchanged (external).
SystemPath(arg) == normalize(IF arg.abs THEN arg.parts ELSE syscwd \o arg.parts)

is_subpath(root, path) ==
  /\ Len(root) <= Len(path)
  /\ \A i \in 1 .. Len(root) : root[i] = path[i]

\* The strncmp of find_driver: the last component of root may be cut short.
StringPrefix(root, path) ==
  LET n == Len(root) IN
  \/ is_subpath(root, path)
  \/ /\ n \in 1 .. Len(path)
     /\ is_subpath(SubSeq(root, 1, n - 1), path)
     /\ <<root[n], path[n]>> \in NamePrefix

-----------------------------------------------------------------------------
(* The mount table *)

System == 0                       \* system::driver_t::instance()
Driver == 1 .. MaxDrivers         \* assets::driver_t objects
NotCreated == [state |-> "none", root |-> <<>>, under |-> System]

MountInit ==
  /\ drivers = [d \in Driver |-> NotCreated]
  /\ mount_table = <<>>
  /\ cpath = NoPath
  /\ syscwd = <<>>

root(d) == IF d = System THEN <<>> ELSE drivers[d].root
underlying(d) == drivers[d].under

\* d is the driver of the topmost of the entries I of the mount table, or the
\* system driver when there is none: the result of a scan from the top.
Topmost(d, I) ==
  \/ I = {} /\ d = System
  \/ \E i \in I : d = mount_table[i] /\ \A j \in I : j <= i

find_driver(path) ==
  CHOOSE d \in {System} \cup Driver :
    Topmost(d, {i \in DOMAIN mount_table : StringPrefix(root(mount_table[i]), path)})

\* "Found underlying driver"
IsUnderlying(d, path) ==
  Topmost(d, {i \in DOMAIN mount_table : is_subpath(root(mount_table[i]), path)})

\* mount("/dev/assets", path, ...): a driver is created and entered on top.
mount(path) ==
  /\ Len(mount_table) < MountTableSize
  /\ \E d \in Driver, u \in {System} \cup Driver :
       /\ drivers[d].state = "none"
       /\ \A e \in 1 .. d - 1 : drivers[e].state # "none"
       /\ IsUnderlying(u, path)
       /\ drivers' = [drivers EXCEPT ![d] = [state |-> "live", root |-> path, under |-> u]]
       /\ mount_table' = Append(mount_table, d)

\* (Mutant) a mount inside the target does not make it busy.
EndsScanAtTarget(d, path) == root(d) = path

\* Where the scan of umount ends: at a longer root inside the target (EBUSY),
\* or at the target itself.
EndsScan(d, path) ==
  \/ Len(root(d)) > Len(path) /\ is_subpath(path, root(d))
  \/ root(d) = path

\* umount(path) deletes entry i.
Unmounts(i, path) ==
  /\ i \in DOMAIN mount_table
  /\ root(mount_table[i]) = path
  /\ \A j \in i + 1 .. Len(mount_table) : ~EndsScan(mount_table[j], path)

\* unload_driver, and the shift of the records above.
umount(path) ==
  \E i \in DOMAIN mount_table :
    /\ Unmounts(i, path)
    /\ drivers' = [drivers EXCEPT ![mount_table[i]].state = "deleted"]
    /\ mount_table' = [j \in 1 .. Len(mount_table) - 1 |->
                         mount_table[IF j < i THEN j ELSE j + 1]]

\* chdir: the current path changes; the result of system_chdir is ignored.
SetCwd(path) ==
  /\ cpath' = path
  /\ syscwd' \in {path, syscwd}

-----------------------------------------------------------------------------
\* Every mounted driver passes what it does not hold itself to the system
\* driver or to a driver that is mounted below it, which contains its root: the
\* EBUSY test of umount never lets a driver go that another one still uses,
\* although it looks at nothing but the roots of the entries above it.
UnderlyingLive ==
  \A i \in DOMAIN mount_table :
    LET d == mount_table[i] IN
    /\ drivers[d].state = "live"
    /\ \/ underlying(d) = System
       \/ \E j \in 1 .. i - 1 :
            /\ mount_table[j] = underlying(d)
            /\ is_subpath(root(underlying(d)), root(d))
=============================================================================
