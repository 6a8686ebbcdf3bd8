----------------------------- MODULE VfsProofs -----------------------------
(***************************************************************************)
(* For any number of threads, drivers and mount points and any sizes of    *)
(* the tables: umount never deletes a driver another mounted driver uses.  *)
(***************************************************************************)
EXTENDS VfsFiles, SequenceTheorems, TLAPS

DriverRecord ==
  [state : {"none", "live", "deleted"}, root : Seq(Names), under : {System} \cup Driver]

\* The inductive invariant: no driver is entered twice, so that deleting one
\* leaves the others live.
MountInv ==
  /\ drivers \in [Driver -> DriverRecord]
  /\ mount_table \in Seq(Driver)
  /\ \A i, j \in DOMAIN mount_table : mount_table[i] = mount_table[j] => i = j
  /\ UnderlyingLive

\* A root inside a path is the path itself or longer.
LEMMA InsideEndsScan ==
  ASSUME NEW d \in Driver, drivers[d].root \in Seq(Names),
         NEW path \in Seq(Names), is_subpath(path, drivers[d].root)
  PROVE  EndsScan(d, path)
<1>1. root(d) = drivers[d].root
  BY DEF root, Driver, System
<1>2. Len(path) \in Nat /\ Len(root(d)) \in Nat
  BY <1>1
<1>3. CASE Len(root(d)) > Len(path)
  BY <1>1, <1>3 DEF EndsScan
<1>4. CASE Len(root(d)) = Len(path)
  <2>1. \A i \in 1 .. Len(path) : path[i] = root(d)[i]
    BY <1>1 DEF is_subpath
  <2>2. root(d) = path
    BY <1>1, <1>4, <2>1, SeqEqual
  <2> QED BY <2>2 DEF EndsScan
<1> QED BY <1>1, <1>2, <1>3, <1>4 DEF is_subpath

\* Nothing is mounted at first.
LEMMA InitMount == Init => MountInv
<1> SUFFICES ASSUME Init PROVE MountInv
  OBVIOUS
<1>1. drivers = [d \in Driver |-> NotCreated] /\ mount_table = <<>>
  BY DEF Init, MountInit
<1>2. NotCreated \in DriverRecord
  BY DEF NotCreated, DriverRecord
<1> QED BY <1>1, <1>2 DEF MountInv, UnderlyingLive

\* The new driver goes on top of the drivers it may pass calls on to.
LEMMA MountStep ==
  ASSUME MountInv, NEW p \in MountPoints, mount(p)
  PROVE  MountInv'
<1>1. PICK d \in Driver, u \in {System} \cup Driver :
        /\ drivers[d].state = "none"
        /\ IsUnderlying(u, p)
        /\ drivers' = [drivers EXCEPT ![d] = [state |-> "live", root |-> p, under |-> u]]
        /\ mount_table' = Append(mount_table, d)
  BY DEF mount
<1>2. p \in Seq(Names) BY MountAssumption
<1>3. drivers \in [Driver -> DriverRecord] /\ mount_table \in Seq(Driver)
  BY DEF MountInv
<1>4. drivers' \in [Driver -> DriverRecord] /\ mount_table' \in Seq(Driver)
  BY <1>1, <1>2, <1>3 DEF DriverRecord
<1> DEFINE n == Len(mount_table)
<1>5. /\ n \in Nat /\ DOMAIN mount_table = 1 .. n /\ DOMAIN mount_table' = 1 .. n + 1
      /\ \A i \in 1 .. n : mount_table'[i] = mount_table[i]
      /\ mount_table'[n + 1] = d
      /\ \A i \in 1 .. n : mount_table[i] \in Driver
  BY <1>1, <1>3
<1>6. \A i \in 1 .. n : drivers[mount_table[i]].state = "live"
  BY <1>5 DEF MountInv, UnderlyingLive
<1>7. \A i \in 1 .. n : mount_table[i] # d
  BY <1>1, <1>6
<1>8. \A e \in Driver : e # d => drivers'[e] = drivers[e]
  BY <1>1, <1>3
<1>9. drivers'[d] = [state |-> "live", root |-> p, under |-> u]
  BY <1>1, <1>3
<1>10. \A i, j \in DOMAIN mount_table' : mount_table'[i] = mount_table'[j] => i = j
  BY <1>5, <1>7 DEF MountInv
<1>11. ASSUME NEW i \in 1 .. n + 1
       PROVE  /\ drivers'[mount_table'[i]].state = "live"
              /\ \/ drivers'[mount_table'[i]].under = System
                 \/ \E j \in 1 .. i - 1 :
                      /\ mount_table'[j] = drivers'[mount_table'[i]].under
                      /\ is_subpath(drivers'[mount_table'[j]].root, drivers'[mount_table'[i]].root)
  <2>1. CASE i = n + 1
    <3>1. CASE u = System
      BY <2>1, <3>1, <1>5, <1>9
    <3>2. CASE u # System
      <4>1. PICK j \in DOMAIN mount_table :
              u = mount_table[j] /\ is_subpath(root(mount_table[j]), p)
        BY <1>1, <3>2 DEF IsUnderlying, Topmost
      <4>2. root(mount_table[j]) = drivers'[mount_table'[j]].root /\ j \in 1 .. i - 1
        BY <1>5, <1>7, <1>8, <2>1, <4>1 DEF root, Driver, System
      <4> QED BY <1>5, <1>9, <2>1, <4>1, <4>2
    <3> QED BY <3>1, <3>2
  <2>2. CASE i \in 1 .. n
    <3>1. drivers'[mount_table'[i]] = drivers[mount_table[i]]
      BY <1>5, <1>7, <1>8, <2>2
    <3>2. \/ drivers[mount_table[i]].under = System
          \/ \E j \in 1 .. i - 1 :
               /\ mount_table[j] = drivers[mount_table[i]].under
               /\ is_subpath(root(mount_table[j]), root(mount_table[i]))
      BY <1>5, <2>2 DEF MountInv, UnderlyingLive, underlying
    <3>3. \A j \in 1 .. n : root(mount_table[j]) = drivers'[mount_table'[j]].root
      BY <1>5, <1>7, <1>8 DEF root, Driver, System
    <3> QED BY <1>5, <1>6, <2>2, <3>1, <3>2, <3>3
  <2> QED BY <1>5, <2>1, <2>2
<1>12. UnderlyingLive'
  <2>1. \A i \in 1 .. n + 1 : mount_table'[i] \in Driver
    BY <1>5
  <2>2. \A e \in Driver : root(e)' = drivers'[e].root
    BY DEF root, Driver, System
  <2> QED BY <1>5, <1>11, <2>1, <2>2 DEF UnderlyingLive, underlying
<1> QED BY <1>4, <1>10, <1>12 DEF MountInv

\* The scan of umount passes every user of the driver it deletes, and would have
\* ended at it.
LEMMA UmountStep ==
  ASSUME MountInv, NEW p \in MountPoints, umount(p)
  PROVE  MountInv'
<1>1. PICK i \in DOMAIN mount_table :
        /\ Unmounts(i, p)
        /\ drivers' = [drivers EXCEPT ![mount_table[i]].state = "deleted"]
        /\ mount_table' = [j \in 1 .. Len(mount_table) - 1 |->
                             mount_table[IF j < i THEN j ELSE j + 1]]
  BY DEF umount
<1>2. p \in Seq(Names) BY MountAssumption
<1>3. drivers \in [Driver -> DriverRecord] /\ mount_table \in Seq(Driver)
  BY DEF MountInv
<1> DEFINE n == Len(mount_table)
           old(j) == IF j < i THEN j ELSE j + 1
           d == mount_table[i]
<1>4. /\ n \in Nat /\ i \in 1 .. n /\ DOMAIN mount_table = 1 .. n
      /\ \A j \in 1 .. n : mount_table[j] \in Driver
  BY <1>3
<1>5. \A j \in 1 .. n - 1 : old(j) \in 1 .. n /\ old(j) # i
  BY <1>4
<1>6. \A j \in 1 .. n - 1 : mount_table'[j] = mount_table[old(j)]
  BY <1>1
<1>7. DOMAIN mount_table' = 1 .. n - 1 /\ mount_table' \in Seq(Driver)
  <2>1. mount_table' \in [1 .. n - 1 -> Driver]
    BY <1>1, <1>4, <1>5
  <2>2. n - 1 \in Nat BY <1>4
  <2> HIDE DEF n
  <2> QED BY <2>1, <2>2
<1>8. drivers' \in [Driver -> DriverRecord]
  BY <1>1, <1>3, <1>4 DEF DriverRecord
<1>9. \A e \in Driver : /\ e # d => drivers'[e] = drivers[e]
                        /\ drivers'[e].root = drivers[e].root
                        /\ drivers'[e].under = drivers[e].under
  BY <1>1, <1>3, <1>4 DEF DriverRecord
<1>10. \A j \in 1 .. n - 1 : mount_table[old(j)] # d
  BY <1>4, <1>5 DEF MountInv
<1>11. \A j, k \in DOMAIN mount_table' : mount_table'[j] = mount_table'[k] => j = k
  <2>1. \A j, k \in 1 .. n - 1 : old(j) = old(k) => j = k
    BY <1>4
  <2> QED BY <1>4, <1>5, <1>6, <1>7, <2>1 DEF MountInv
<1>12. d \in Driver /\ drivers[d].root = p
  BY <1>1, <1>4 DEF Unmounts, root, Driver, System
<1>13. ASSUME NEW k \in 1 .. n - 1, drivers[mount_table[old(k)]].under # System
       PROVE  \E j \in 1 .. k - 1 :
                /\ mount_table[old(j)] = drivers[mount_table[old(k)]].under
                /\ is_subpath(drivers[mount_table[old(j)]].root, drivers[mount_table[old(k)]].root)
  <2> DEFINE e == mount_table[old(k)]
  <2>1. e \in Driver /\ old(k) \in 1 .. n
    BY <1>4, <1>5
  <2>2. PICK j \in 1 .. old(k) - 1 :
          /\ mount_table[j] = drivers[e].under
          /\ is_subpath(root(drivers[e].under), root(e))
    BY <1>4, <1>13, <2>1 DEF MountInv, UnderlyingLive, underlying
  <2>3. j \in 1 .. n
    BY <1>4, <2>1
  <2>4. is_subpath(drivers[mount_table[j]].root, drivers[e].root)
    BY <1>4, <2>1, <2>2, <2>3 DEF root, Driver, System
  <2>5. j # i
    <3> SUFFICES ASSUME j = i PROVE FALSE
      OBVIOUS
    <3>1. is_subpath(p, drivers[e].root)
      BY <1>12, <2>4
    <3>2. drivers[e].root \in Seq(Names)
      BY <1>3, <2>1 DEF DriverRecord
    <3>3. EndsScan(e, p)
      BY <1>2, <2>1, <3>1, <3>2, InsideEndsScan
    <3>4. old(k) \in i + 1 .. n
      BY <1>4, <2>1, <2>2
    <3> QED BY <1>1, <3>3, <3>4 DEF Unmounts
  <2>6. PICK m \in 1 .. k - 1 : old(m) = j
    <3>1. CASE j < i
      BY <1>4, <1>5, <2>2, <3>1
    <3>2. CASE j > i
      <4>1. j - 1 \in 1 .. k - 1 /\ old(j - 1) = j
        BY <1>4, <1>5, <2>2, <2>3, <3>2
      <4> QED BY <4>1
    <3> QED BY <1>4, <2>3, <2>5, <3>1, <3>2
  <2> QED BY <2>2, <2>4, <2>6
<1>14. \A j \in 1 .. n - 1 : drivers[mount_table[old(j)]].state = "live"
  BY <1>4, <1>5 DEF MountInv, UnderlyingLive
<1>15. UnderlyingLive'
  <2>1. \A j \in 1 .. n - 1 : /\ mount_table[old(j)] \in Driver
                              /\ drivers'[mount_table[old(j)]] = drivers[mount_table[old(j)]]
    BY <1>4, <1>5, <1>9, <1>10
  <2>2. \A e \in Driver : root(e)' = drivers'[e].root
    BY DEF root, Driver, System
  <2>3. ASSUME NEW k \in 1 .. n - 1
        PROVE  /\ drivers'[mount_table'[k]].state = "live"
               /\ \/ drivers'[mount_table'[k]].under = System
                  \/ \E j \in 1 .. k - 1 :
                       /\ mount_table'[j] = drivers'[mount_table'[k]].under
                       /\ is_subpath(drivers'[mount_table'[j]].root, drivers'[mount_table'[k]].root)
    <3>1. CASE drivers[mount_table[old(k)]].under = System
      BY <1>6, <1>14, <2>1, <3>1
    <3>2. CASE drivers[mount_table[old(k)]].under # System
      <4>1. PICK j \in 1 .. k - 1 :
              /\ mount_table[old(j)] = drivers[mount_table[old(k)]].under
              /\ is_subpath(drivers[mount_table[old(j)]].root, drivers[mount_table[old(k)]].root)
        BY <1>13, <3>2
      <4>2. j \in 1 .. n - 1
        BY <1>4
      <4> QED BY <1>6, <1>14, <2>1, <4>1, <4>2
    <3> QED BY <3>1, <3>2
  <2>4. \A j \in 1 .. n - 1 : mount_table'[j] \in Driver
    BY <1>6, <2>1
  <2> QED BY <1>4, <1>7, <2>2, <2>3, <2>4 DEF UnderlyingLive, underlying
<1> QED BY <1>7, <1>8, <1>11, <1>15 DEF MountInv

\* Only Mount touches the mount table and the drivers.
LEMMA OthersKeepMounts ==
  ASSUME [Next]_vars
  PROVE  \/ UNCHANGED mountVars
         \/ \E p \in MountPoints : mount(p) \/ umount(p)
<1>1. CASE UNCHANGED vars
  BY <1>1 DEF vars, mountVars
<1>2. CASE Next
  <2>1. PICK t \in Threads :
    \/ \E a \in OpenArgs : open(t, a) \/ opendir(t, a)
    \/ \E fd \in DOMAIN held : close(t, fd) \/ closedir(t, fd) \/ accept(t, fd) \/ fchdir(t, fd)
    \/ \E a \in ChdirArgs : chdir(t, absolutize(a))
    \/ \E p \in MountPoints : Mount(t, p) \/ Umount(t, p)
    \/ pipe(t) \/ socket(t)
    \/ SystemOpens(t) \/ PassesDown(t) \/ OpensAsset(t) \/ Fails(t) \/ GoesUp(t)
    \/ TableFull(t) \/ Allocates(t) \/ Frees(t) \/ Closes(t) \/ ChangesDir(t)
    BY <1>2 DEF Next
  <2>2. CASE \E p \in MountPoints : Mount(t, p) \/ Umount(t, p)
    BY <2>2 DEF Mount, Umount
  <2>3. CASE ~\E p \in MountPoints : Mount(t, p) \/ Umount(t, p)
    BY <2>1, <2>3 DEF open, opendir, close, closedir, Closing, accept, fchdir, chdir, pipe, socket,
       FromKernel, SystemOpens, PassesDown, OpensAsset, Fails, GoesUp, TableFull,
       Allocates, Frees, Closes, ChangesDir, mountVars
  <2> QED BY <2>2, <2>3
<1> QED BY <1>1, <1>2

\* umount never deletes a driver that a mounted driver passes calls on to, and
\* the drivers below a mounted one are mounted below it, for every sequence of
\* mounts and unmounts beside any other calls.
THEOREM MountsStacked == Spec => []UnderlyingLive
<1>1. Init => MountInv
  BY InitMount
<1>2. MountInv /\ [Next]_vars => MountInv'
  <2> SUFFICES ASSUME MountInv, [Next]_vars PROVE MountInv'
    OBVIOUS
  <2>1. CASE UNCHANGED mountVars
    BY <2>1 DEF MountInv, UnderlyingLive, mountVars, root, underlying
  <2>2. CASE \E p \in MountPoints : mount(p) \/ umount(p)
    BY <2>2, MountStep, UmountStep
  <2> QED BY <2>1, <2>2, OthersKeepMounts
<1>3. MountInv => UnderlyingLive
  BY DEF MountInv
<1> QED BY <1>1, <1>2, <1>3, PTL DEF Spec
=============================================================================
