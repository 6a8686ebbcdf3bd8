------------------------------- MODULE RDebug -------------------------------
(***************************************************************************)
(* The crazy linker's view of the debugger's list of libraries             *)
(* (sources/crystax/crazy_linker/src/crazy_linker_rdebug.{h,cpp}).         *)
(*                                                                         *)
(* An entry of r_map is the link_map_ embedded in a SharedLibrary, written *)
(* here as the library that embeds it, or one of the system linker's own   *)
(* entries.  The l_prev / l_next chain is the sequence r_map.  AddEntry    *)
(* and DelEntry either change the list at once or, while a poster is set,  *)
(* hand a callback to the client, who runs it later without any lock.      *)
(***************************************************************************)
EXTENDS Naturals, SequencesExt

CONSTANTS BaseEntries,  \* the list the system linker built at start-up
          NULL

VARIABLES
  rdebug,   \* init_ and r_debug_: "uninit", "found" or "none"
  r_state,  \* r_debug_->r_state outside the functions below
  r_map,    \* r_debug_->r_map
  poster,   \* post_for_later_execution_context_: the thread whose context
            \* is used, or NULL
  posted    \* the callbacks the client recorded and has not run

rdebugVars == <<rdebug, r_state, r_map, poster, posted>>

RDebugInit ==
  /\ rdebug = "uninit"
  /\ r_state = "CONSISTENT"
  /\ r_map = BaseEntries
  /\ poster = NULL
  /\ posted = <<>>

\* (Mutant) the new entry goes to the end of the list.
InsertEntryLast(e) == Append(r_map, e)

\* The list with e behind the first two entries.
InsertEntry(e) == InsertAt(r_map, 3, e)

\* RDebug::AddEntryImpl.  The first call runs Init, which may find no
\* _r_debug.  On a list of fewer than three entries the list is given up
\* for good, with r_state left at RT_ADD.
AddEntryImpl(e) ==
  \E found \in {TRUE, FALSE} :
    LET here == IF rdebug = "uninit"
                  THEN IF found THEN "found" ELSE "none"
                  ELSE rdebug
        short == here = "found" /\ Len(r_map) < 3
    IN /\ found \/ rdebug = "uninit"
       /\ rdebug' = IF short THEN "none" ELSE here
       /\ r_state' = IF short THEN "ADD" ELSE r_state
       /\ r_map' = IF here = "found" /\ ~short THEN InsertEntry(e) ELSE r_map

\* RDebug::DelEntryImpl.  An entry that was never added has null links and
\* is left alone.
DelEntryImpl(e) ==
  /\ r_map' = IF rdebug = "found" THEN Remove(r_map, e) ELSE r_map
  /\ r_state' = IF rdebug = "found" THEN "CONSISTENT" ELSE r_state
  /\ UNCHANGED rdebug

\* RDebug::PostCallback when the client's poster accepts the callback.
PostCallback(handler, e) ==
  /\ poster # NULL
  /\ posted' = Append(posted, [handler |-> handler, entry |-> e])
  /\ UNCHANGED <<rdebug, r_state, r_map, poster>>

\* RDebug::AddEntry, RDebug::DelEntry: RunOrDelay.  The handler runs at once
\* when no poster is set or the poster refuses the callback.
AddEntry(e) ==
  \/ PostCallback("add", e)
  \/ AddEntryImpl(e) /\ UNCHANGED <<poster, posted>>

DelEntry(e) ==
  \/ PostCallback("del", e)
  \/ DelEntryImpl(e) /\ UNCHANGED <<poster, posted>>

\* crazy_callback_run on the oldest recorded callback: RDebugRunnable::Run.
RunCallback ==
  /\ posted # <<>>
  /\ LET c == Head(posted)
     IN IF c.handler = "add" THEN AddEntryImpl(c.entry) ELSE DelEntryImpl(c.entry)
  /\ posted' = Tail(posted)
  /\ UNCHANGED poster

\* (Mutant) a poster, once set, stays.
SetDelayedCallbackPosterSticky(c) == poster' = IF c = NULL THEN poster ELSE c

\* RDebug::SetDelayedCallbackPoster.
SetDelayedCallbackPoster(c) == poster' = c

\* The system linker appends the entry of a library it loads and removes the
\* entry of a library it unloads.
SystemAdd(e) == r_map' = IF Contains(r_map, e) THEN r_map ELSE Append(r_map, e)
SystemRemove(e) == r_map' = Remove(r_map, e)
=============================================================================
