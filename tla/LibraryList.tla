---------------------------- MODULE LibraryList ----------------------------
(***************************************************************************)
(* Loading and unloading of libraries by the crazy linker                  *)
(* (sources/crystax/crazy_linker/src: crazy_linker_library_list.cpp,       *)
(* crazy_linker_library_view.h, the open / find / close functions of       *)
(* crazy_linker_api.cpp and the dlopen / dlclose wrappers of               *)
(* crazy_linker_wrappers.cpp).                                             *)
(*                                                                         *)
(* LoadLibrary and UnloadLibrary recurse over the DT_NEEDED entries of a   *)
(* library under the global lock.  The recursion of the thread that holds  *)
(* the lock is the explicit stack below, innermost frame first; each call, *)
(* each return and each state change between them is a step.  A LibraryView*)
(* and the SharedLibrary it owns are created and deleted together and are  *)
(* one element of Views.                                                   *)
(***************************************************************************)
EXTENDS RDebug, FiniteSets

CONSTANTS Threads,      \* client threads
          Views,        \* addresses of LibraryView objects
          Libs,         \* base names of the libraries the crazy linker loads
          SysLibs,      \* base names of system libraries
          Needed,       \* the DT_NEEDED names of each of Libs, in file order
          Faults,       \* what may fail: see below
          CtorOpens,    \* the libraries whose constructors call dlopen()
          DelayedOpen,  \* values of "the context has a poster" in open calls
          DelayedClose, \* the same for close calls
          DrainFirst,   \* do clients run all recorded callbacks before they
                        \* close a library?
          MaxHandles,   \* handles a thread may hold
          MaxPosted,    \* recorded callbacks above which no call is made
          MaxLeaked     \* references lost to failed loads, per library, above
                        \* which nothing fails any more

FaultKinds == {"file",      \* no such file, or SharedLibrary::Load fails
               "system",    \* the system dlopen() fails
               "relocate",  \* SharedLibrary::Relocate fails
               "address",   \* already loaded at another address
               "jni"}       \* JNI_OnLoad returns too small a version

ASSUME LinkerAssumption ==
  /\ NULL \notin Threads \cup Views
  /\ Libs \cap SysLibs = {}
  /\ Needed \in [Libs -> Seq(Libs \cup SysLibs)]
  /\ Faults \subseteq FaultKinds
  /\ CtorOpens \subseteq Libs
  /\ DelayedOpen \subseteq BOOLEAN /\ DelayedClose \subseteq BOOLEAN
  /\ DrainFirst \in BOOLEAN
  /\ MaxHandles \in Nat /\ MaxPosted \in Nat /\ MaxLeaked \in Nat

Bases == Libs \cup SysLibs

\* A name is a base name, or a path whose last component is that base name.
Names == [base : Bases, path : BOOLEAN]
Base(b) == [base |-> b, path |-> FALSE]

VARIABLES
  views,    \* the object at each address
  head,     \* the head_ list of crazy libraries
  handles,  \* how many times each thread holds each handle
  pc,       \* where each thread is
  req,      \* the call each thread makes
  lock,     \* the owner of the global lock, or NULL
  stack,    \* the recursion of the lock's owner
  ret,      \* the value returned to stack[1]; "none" before it returns
  leaked    \* references a failed load left behind (history)

listVars == <<views, head>>
callVars == <<pc, req, lock>>
vars == <<listVars, handles, callVars, stack, ret, leaked, rdebugVars>>

Free == [stage |-> "free", kind |-> "none", name |-> NULL, refs |-> 0,
         deps |-> <<>>]

\* known_libraries_: a view joins it on creation and leaves it on deletion.
Known == {v \in Views : views[v].stage # "free"}

NoReq == [op |-> "none", name |-> NULL, view |-> NULL, delayed |-> FALSE]

Init ==
  /\ views = [v \in Views |-> Free]
  /\ head = <<>>
  /\ handles = [t \in Threads |-> [v \in Views |-> 0]]
  /\ pc = [t \in Threads |-> "idle"]
  /\ req = [t \in Threads |-> NoReq]
  /\ lock = NULL /\ stack = <<>> /\ ret = "none"
  /\ leaked = [v \in Views |-> 0]
  /\ RDebugInit

-----------------------------------------------------------------------------
(* Helpers.                                                                *)

\* LibraryList::FindKnownLibrary, FindLibraryByName: the views whose name is
\* the base name b; at most one.
FindKnownLibrary(b) == {v \in Known : views[v].name = Base(b)}

\* Addresses operator new may return: free, and mentioned nowhere.
Fresh == {v \in Views \ Known : /\ ~Contains(r_map, v)
                                /\ \A i \in DOMAIN posted : posted[i].entry # v}

\* The address operator new returns; which one it is does not matter.
NewAddress == CHOOSE v \in Views : v \in Fresh

MayFail(k) == k \in Faults /\ \A v \in Views : leaked[v] < MaxLeaked

\* new LibraryView() followed by SetCrazy or SetSystem.
NewView(k, n, ds, s) ==
  [stage |-> s, kind |-> k, name |-> n, refs |-> 1, deps |-> ds]

\* (Mutant) an already loaded library is returned without a new reference.
AddRefForgotten(v) == UNCHANGED views

AddRef(v) == views' = [views EXCEPT ![v].refs = @ + 1]

LoadFrame(n) == [op |-> "load", name |-> n, view |-> NULL, deps |-> <<>>, pos |-> 0,
                 at |-> "find"]
UnloadFrame(v) == [op |-> "unload", name |-> NULL, view |-> v, deps |-> <<>>, pos |-> 0,
                   at |-> "dec"]

Push(f) == stack' = <<f>> \o stack /\ ret' = "none"
Return(v) == stack' = Tail(stack) /\ ret' = v
Top(op, at) == stack # <<>> /\ Head(stack).op = op /\ Head(stack).at = at
SetTop(f) == stack' = <<f>> \o Tail(stack)

\* A load that gives up returns without releasing the dependencies it loaded.
Abandon(ds) ==
  leaked' = [v \in Views |->
               leaked[v] + Cardinality({i \in DOMAIN ds : ds[i] = v})]

-----------------------------------------------------------------------------
(* Entry points: the call is made, the lock is taken, the lock is released.*)

Held(t) == {v \in Views : handles[t][v] > 0}

\* A thread makes a call.  ScopedDelayedCallbackPoster sets the poster, which
\* is global, before the lock is taken.
Call(t, r) ==
  /\ pc[t] = "idle" /\ Len(posted) <= MaxPosted
  /\ pc' = [pc EXCEPT ![t] = "lock"]
  /\ req' = [req EXCEPT ![t] = r]
  /\ IF r.delayed THEN SetDelayedCallbackPoster(t) ELSE UNCHANGED poster
  /\ UNCHANGED <<listVars, lock, stack, ret, leaked, rdebug, r_state, r_map, posted>>

CanHold(t) == MapThenSumSet(LAMBDA v : handles[t][v], Views) < MaxHandles

\* crazy_library_open.
CrazyLibraryOpen(t) == \E n \in Names, d \in DelayedOpen :
  /\ CanHold(t)
  /\ Call(t, [NoReq EXCEPT !.op = "open", !.name = n, !.delayed = d])
  /\ UNCHANGED handles

\* WrapDlopen.
WrapDlopen(t) == \E n \in Names :
  /\ CanHold(t)
  /\ Call(t, [NoReq EXCEPT !.op = "dlopen", !.name = n])
  /\ UNCHANGED handles

\* crazy_library_close, crazy_library_close_with_context and WrapDlclose.  The
\* thread gives up the handle.
CrazyLibraryClose(t) == \E v \in Held(t), d \in DelayedClose :
  /\ DrainFirst => posted = <<>>
  /\ handles' = [handles EXCEPT ![t][v] = @ - 1]
  /\ Call(t, [NoReq EXCEPT !.op = "close", !.view = v, !.delayed = d])

\* crazy_library_find_by_name and crazy_library_find_from_address, which hold
\* the lock for one search.
CrazyLibraryFind(t) ==
  /\ pc[t] = "idle" /\ lock = NULL
  /\ CanHold(t)
  /\ \E v \in Known :
       /\ ~views[v].name.path \/ views[v].kind = "crazy"
       /\ AddRef(v)
       /\ handles' = [handles EXCEPT ![t][v] = @ + 1]
  /\ UNCHANGED <<head, callVars, stack, ret, leaked, rdebugVars>>

\* ScopedGlobalLock.  The lock is an ordinary, non-recursive mutex.
Acquire(t) ==
  /\ pc[t] = "lock" /\ lock = NULL
  /\ lock' = t
  /\ pc' = [pc EXCEPT ![t] = "run"]
  /\ stack' = IF req[t].op = "close" THEN <<UnloadFrame(req[t].view)>>
              ELSE <<LoadFrame(req[t].name)>>
  /\ ret' = "none"
  /\ UNCHANGED <<listVars, handles, req, leaked, rdebugVars>>

\* The call is over: the lock is released before the poster is reset.
Release ==
  /\ lock' = NULL /\ stack' = <<>> /\ ret' = "none"
  /\ pc' = [pc EXCEPT ![lock] = IF req[lock].delayed THEN "reset" ELSE "idle"]
  /\ req' = [req EXCEPT ![lock] = NoReq]

\* ~ScopedDelayedCallbackPoster.
ResetPoster(t) ==
  /\ pc[t] = "reset"
  /\ pc' = [pc EXCEPT ![t] = "idle"]
  /\ SetDelayedCallbackPoster(NULL)
  /\ UNCHANGED <<listVars, handles, req, lock, stack, ret, leaked, rdebug,
                 r_state, r_map, posted>>

\* The client runs a recorded callback, without the lock.
ClientRunsCallback ==
  /\ RunCallback
  /\ UNCHANGED <<listVars, handles, callVars, stack, ret, leaked>>

-----------------------------------------------------------------------------
(* LoadLibrary.                                                            *)

\* A library with that base name is known.  Only the outermost call asks for
\* a load address.
LoadKnown ==
  /\ Top("load", "find")
  /\ \E v \in FindKnownLibrary(Head(stack).name.base) :
       \/ AddRef(v) /\ Return(v)
       \/ /\ MayFail("address") /\ Len(stack) = 1 /\ req[lock].op = "open"
          /\ Return(NULL) /\ UNCHANGED views
  /\ UNCHANGED <<head, handles, callVars, leaked, rdebugVars>>

\* A system library is opened with the system dlopen().
LoadSystem ==
  /\ Top("load", "find")
  /\ LET n == Head(stack).name
     IN /\ FindKnownLibrary(n.base) = {} /\ n.base \in SysLibs
        /\ \/ LET v == NewAddress IN
                /\ views' = [views EXCEPT ![v] = NewView("system", n, <<>>, "up")]
                /\ SystemAdd(n.base)
                /\ Return(v)
           \/ /\ MayFail("system")
              /\ Return(NULL) /\ UNCHANGED <<views, r_map>>
  /\ UNCHANGED <<head, handles, callVars, leaked, rdebug, r_state, poster, posted>>

\* The file is found and mapped.
LoadCrazy ==
  /\ Top("load", "find")
  /\ LET f == Head(stack)
     IN /\ FindKnownLibrary(f.name.base) = {} /\ f.name.base \in Libs
        /\ \/ SetTop([f EXCEPT !.at = "deps"]) /\ UNCHANGED ret
           \/ MayFail("file") /\ Return(NULL)
  /\ UNCHANGED <<listVars, handles, callVars, leaked, rdebugVars>>

\* The dependencies are loaded in order, each by a recursive call.
LoadDependency ==
  /\ Top("load", "deps") /\ ret = "none"
  /\ LET f == Head(stack)
         ds == Needed[f.name.base]
     IN /\ Len(f.deps) < Len(ds)
        /\ Push(LoadFrame(Base(ds[Len(f.deps) + 1])))
  /\ UNCHANGED <<listVars, handles, callVars, leaked, rdebugVars>>

DependencyLoaded ==
  /\ Top("load", "deps") /\ ret \in Views
  /\ SetTop([Head(stack) EXCEPT !.deps = Append(@, ret)])
  /\ ret' = "none"
  /\ UNCHANGED <<listVars, handles, callVars, leaked, rdebugVars>>

DependencyFailed ==
  /\ Top("load", "deps") /\ ret = NULL
  /\ Abandon(Head(stack).deps)
  /\ Return(NULL)
  /\ UNCHANGED <<listVars, handles, callVars, rdebugVars>>

\* The library is relocated against its dependencies, announced to the
\* debugger, listed and wrapped, in that order.
Link ==
  /\ Top("load", "deps") /\ ret = "none"
  /\ LET f == Head(stack)
     IN /\ Len(f.deps) = Len(Needed[f.name.base])
        /\ \/ LET v == NewAddress IN
                /\ AddEntry(v)
                /\ head' = <<v>> \o head
                /\ views' = [views EXCEPT ![v] = NewView("crazy", f.name, f.deps, "new")]
                /\ SetTop([f EXCEPT !.at = "ctor", !.view = v])
                /\ UNCHANGED <<ret, leaked>>
           \/ /\ MayFail("relocate")
              /\ Abandon(f.deps)
              /\ Return(NULL)
              /\ UNCHANGED <<listVars, rdebugVars>>
  /\ UNCHANGED <<handles, callVars>>

\* CallConstructors, with the lock held.  A constructor that calls dlopen()
\* runs WrapDlopen, which takes the lock.
CallConstructors ==
  /\ Top("load", "ctor") /\ pc[lock] = "run"
  /\ LET v == Head(stack).view
     IN IF views[v].name.base \in CtorOpens
          THEN pc' = [pc EXCEPT ![lock] = "lock"] /\ UNCHANGED <<views, stack, ret>>
          ELSE /\ views' = [views EXCEPT ![v].stage = "up"]
               /\ Return(v)
               /\ UNCHANGED pc
  /\ UNCHANGED <<head, handles, req, lock, leaked, rdebugVars>>

\* The outermost load returned a library.  crazy_library_open runs JNI_OnLoad
\* of a crazy library and unloads the library again when it objects.
OpenSucceeds ==
  /\ stack = <<>> /\ lock # NULL /\ ret \in Views
  /\ \/ /\ handles' = [handles EXCEPT ![lock][ret] = @ + 1]
        /\ Release
     \/ /\ MayFail("jni") /\ req[lock].op = "open" /\ views[ret].kind = "crazy"
        /\ Push(UnloadFrame(ret))
        /\ UNCHANGED <<handles, callVars>>
  /\ UNCHANGED <<listVars, leaked, rdebugVars>>

\* The outermost load failed.  WrapDlopen then tries the system dlopen(), and
\* adds a view under the name it was given.
OpenFails ==
  /\ stack = <<>> /\ lock # NULL /\ ret = NULL
  /\ \/ UNCHANGED <<views, handles, r_map>>
     \/ /\ req[lock].op = "dlopen"
        /\ LET v == NewAddress IN
             /\ views' = [views EXCEPT ![v] = NewView("system", req[lock].name, <<>>, "up")]
             /\ handles' = [handles EXCEPT ![lock][v] = @ + 1]
             /\ SystemAdd(req[lock].name.base)
  /\ Release
  /\ UNCHANGED <<head, leaked, rdebug, r_state, poster, posted>>

-----------------------------------------------------------------------------
(* UnloadLibrary.                                                          *)

\* The library the top frame unloads.
Unloading == Head(stack).view

\* LibraryView::SafeDecrementRef: was this the last reference?
SafeDecrementRef(v) == views[v].refs = 1

UnloadShared ==
  /\ Top("unload", "dec") /\ ~SafeDecrementRef(Unloading)
  /\ views' = [views EXCEPT ![Unloading].refs = @ - 1]
  /\ Return("none")
  /\ UNCHANGED <<head, handles, callVars, leaked, rdebugVars>>

\* The last reference to a system library: it is closed and the view deleted.
UnloadSystem ==
  /\ Top("unload", "dec") /\ SafeDecrementRef(Unloading)
  /\ views[Unloading].kind = "system"
  /\ views' = [views EXCEPT ![Unloading] = Free]
  /\ leaked' = [leaked EXCEPT ![Unloading] = 0]
  /\ LET b == views[Unloading].name.base
     IN IF \E v \in Known \ {Unloading} : views[v].kind = "system" /\ views[v].name.base = b
          THEN UNCHANGED r_map
          ELSE SystemRemove(b)
  /\ Return("none")
  /\ UNCHANGED <<head, handles, callVars, rdebug, r_state, poster, posted>>

\* (Mutant) the neighbours are updated but not head_.
UnlinkNotHead(v) == IF Head(head) = v THEN head ELSE Remove(head, v)

\* The list without v.
Unlink(v) == Remove(head, v)

\* The last reference to a crazy library: it leaves the list, JNI_OnUnload and
\* the destructors run, then its dependencies are unloaded in order.
UnloadCrazy ==
  /\ Top("unload", "dec") /\ SafeDecrementRef(Unloading)
  /\ views[Unloading].kind = "crazy"
  /\ views' = [views EXCEPT ![Unloading].refs = 0, ![Unloading].stage = "down"]
  /\ head' = Unlink(Unloading)
  /\ SetTop([Head(stack) EXCEPT !.at = "deps"])
  /\ UNCHANGED <<handles, callVars, ret, leaked, rdebugVars>>

\* (Mutant) the dependencies are not released.
ToUnloadNone(f) == <<>>

\* The DT_NEEDED names the iterator of an unload has not visited.
ToUnload(f) ==
  LET ds == Needed[views[f.view].name.base]
  IN SubSeq(ds, f.pos + 1, Len(ds))

UnloadDependency ==
  /\ Top("unload", "deps") /\ ToUnload(Head(stack)) # <<>>
  /\ LET f == Head(stack)
         found == FindKnownLibrary(Head(ToUnload(f)))
         calls == IF found = {} THEN {<<>>} ELSE {<<UnloadFrame(v)>> : v \in found}
     IN \E c \in calls : stack' = c \o <<[f EXCEPT !.pos = @ + 1]>> \o Tail(stack)
  /\ UNCHANGED <<listVars, handles, callVars, ret, leaked, rdebugVars>>

\* The debugger is told, and the view and its library are deleted.
DeleteCrazy ==
  /\ Top("unload", "deps") /\ ToUnload(Head(stack)) = <<>>
  /\ DelEntry(Unloading)
  /\ views' = [views EXCEPT ![Unloading] = Free]
  /\ leaked' = [leaked EXCEPT ![Unloading] = 0]
  /\ Return("none")
  /\ UNCHANGED <<head, handles, callVars>>

\* crazy_library_close, or crazy_library_open after JNI_OnLoad objected,
\* returns.
UnloadDone ==
  /\ stack = <<>> /\ lock # NULL /\ ret = "none"
  /\ Release
  /\ UNCHANGED <<listVars, handles, leaked, rdebugVars>>

-----------------------------------------------------------------------------

Client(t) == CrazyLibraryOpen(t) \/ WrapDlopen(t) \/ CrazyLibraryClose(t) \/ CrazyLibraryFind(t)

Load == \/ LoadKnown \/ LoadSystem \/ LoadCrazy \/ LoadDependency
        \/ DependencyLoaded \/ DependencyFailed \/ Link \/ CallConstructors
        \/ OpenSucceeds \/ OpenFails

Unload == \/ UnloadShared \/ UnloadSystem \/ UnloadCrazy \/ UnloadDependency
          \/ DeleteCrazy \/ UnloadDone

Next ==
  \/ \E t \in Threads : Client(t) \/ Acquire(t) \/ ResetPoster(t)
  \/ ClientRunsCallback
  \/ Load
  \/ Unload

Spec == Init /\ [][Next]_vars

-----------------------------------------------------------------------------
(* Correctness.                                                            *)

\* A handle a client holds is a library that is loaded, with its constructors
\* run: no sequence of opens, failed opens and closes by other threads deletes
\* or finalizes it (LoadLibrary, UnloadLibrary).
HandlesLive ==
  \A t \in Threads : \A v \in Held(t) : views[v].stage = "up"

\* Every library a running crazy library was relocated against is loaded and
\* initialized: constructors run after those of the dependencies, destructors
\* before them (LoadLibrary, UnloadLibrary).
DependenciesUp ==
  \A v \in Known : views[v].stage \in {"new", "up"} =>
    \A i \in DOMAIN views[v].deps : views[views[v].deps[i]].stage = "up"

\* Between calls, the reference count of a library is exactly the number of
\* handles on it, of DT_NEEDED entries of loaded libraries bound to it, of
\* closes waiting for the lock and of references lost by failed loads.
RefCountExact ==
  lock = NULL => \A v \in Known :
    views[v].refs =
      MapThenSumSet(LAMBDA t : handles[t][v], Threads)
      + Cardinality({t \in Threads : pc[t] = "lock" /\ req[t].view = v})
      + MapThenSumSet(LAMBDA u : Cardinality({i \in DOMAIN views[u].deps :
                                               views[u].deps[i] = v}), Known)
      + leaked[v]

\* When no load failed half-way, a library is loaded only while somebody needs
\* it: once all handles are closed nothing stays loaded.
AllUnloaded ==
  (/\ \A t \in Threads : pc[t] = "idle" /\ Held(t) = {}
   /\ \A v \in Views : leaked[v] = 0) => Known = {}

\* The list that the unwinder walks (head_) and the debugger's list hold live
\* libraries only, so neither follows a pointer into freed memory.
ListsLive ==
  \A v \in Views : Contains(head, v) \/ Contains(r_map, v) => v \in Known

\* The debugger's list starts with the executable and ends with an entry of
\* the system linker, whose private tail pointer must stay right.
SystemOwnsEnds ==
  Head(r_map) = Head(BaseEntries) /\ Last(r_map) \notin Views

\* What crazy_linker.h says of crazy_library_open: "trying to open the same
\* library twice will return the same library handle".
SameHandle ==
  \A v, w \in Known : views[v].kind = "crazy" /\ views[w].kind = "crazy"
                      /\ views[v].name.base = views[w].name.base => v = w

\* What test_load_library_callbacks.cpp does: a recorded callback can be run
\* after crazy_library_close_with_context, so its entry must still exist.
CallbackEntryLive == \A i \in DOMAIN posted : posted[i].entry \in Known

=============================================================================
