------------------------------ MODULE SessionStore ------------------------------
(***************************************************************************)
(* One session in memory and its rows in the database: saves asked for in a   *)
(* microtask (app/bootstrap/appSetupSupport.ts) or awaited by a handler,      *)
(* writes chained per session (conversation/session/sessionPersistence.ts),   *)
(* deletion and snapshots (internalApi/application/basicAdminService.ts), and *)
(* the restore at boot (app/bootstrap/bootstrapServices.ts).                  *)
(*                                                                           *)
(* A state of the session is a number, 0 no session.                          *)
(***************************************************************************)
EXTENDS Naturals, Sequences

CONSTANT MaxStates   \* bound: states the session ever has

ASSUME MaxStatesAssumption == MaxStates \in Nat

VARIABLES
    memory,     \* sessionStore: the state of the session
    newest,     \* the last number given to a state
    dirty,      \* pendingPersistence: a microtask will save
    writes,     \* the chain of writes, the first under way
    row,        \* the database
    deleting,   \* deleteSession awaits the stores it empties first
    restoring,  \* restoreSessionSnapshot: not at all, its mode state, its save
    previous,   \* previousSession, to fall back on
    up,         \* the process runs
    unsaved     \* observed: a failure, or a deletion, left memory without a save

storeVars == <<memory, newest, dirty, writes, row, deleting, restoring, previous, up,
               unsaved>>

States == 0 .. MaxStates
Write == [kind : {"save", "restore"}, state : States \ {0}]
         \cup [kind : {"remove"}, state : {0}]

StoreTypeOK ==
    /\ memory \in States /\ newest \in States /\ row \in States
    /\ previous \in States
    /\ dirty \in BOOLEAN /\ deleting \in BOOLEAN
    /\ up \in BOOLEAN /\ unsaved \in BOOLEAN
    /\ writes \in Seq(Write)
    /\ restoring \in {"no", "mode", "save"}

StoreInit ==
    /\ memory = 0 /\ newest = 0 /\ row = 0 /\ previous = 0
    /\ dirty = FALSE /\ deleting = FALSE /\ restoring = "no"
    /\ writes = <<>> /\ up = TRUE /\ unsaved = FALSE

NewState == newest < MaxStates /\ newest' = newest + 1 /\ memory' = newest + 1
Chain(kind, state) == writes' = Append(writes, [kind |-> kind, state |-> state])

-----------------------------------------------------------------------------

\* A handler changes the session, or makes it, and asks for a save.
ChangeSession ==
    /\ up /\ NewState
    /\ dirty' = TRUE
    /\ UNCHANGED <<writes, row, deleting, restoring, previous, up, unsaved>>

\* The microtask saves what it finds; a session that is gone is only logged.
PersistSession ==
    /\ up /\ dirty
    /\ dirty' = FALSE
    /\ \/ memory # 0 /\ Chain("save", memory) /\ unsaved' = FALSE
       \/ memory = 0 /\ UNCHANGED <<writes, unsaved>>
    /\ UNCHANGED <<memory, newest, row, deleting, restoring, previous, up>>

\* Mutant: the row is deleted past the chain.
RemoveRowAtOnce ==
    /\ up /\ deleting
    /\ deleting' = FALSE
    /\ row' = 0
    /\ unsaved' = (memory # 0)
    /\ UNCHANGED <<memory, newest, dirty, writes, restoring, previous, up>>

\* sessionPersistence.remove.  It takes along what a session of the same name,
\* made meanwhile, has saved.
RemoveRow ==
    /\ up /\ deleting
    /\ deleting' = FALSE
    /\ Chain("remove", 0)
    /\ unsaved' = (memory # 0)
    /\ UNCHANGED <<memory, newest, dirty, row, restoring, previous, up>>

\* deleteSession: the session leaves the memory, then the awaits begin.  One
\* deletion at a time is a bound.
DeleteSession ==
    /\ up /\ memory # 0 /\ ~deleting
    /\ memory' = 0
    /\ deleting' = TRUE
    /\ UNCHANGED <<newest, dirty, writes, row, restoring, previous, up, unsaved>>

\* restoreSessionSnapshot: what it may have to fall back on, then its awaits.
BeginRestore ==
    /\ up /\ memory # 0 /\ restoring = "no"
    /\ restoring' = "mode"
    /\ previous' = memory
    /\ UNCHANGED <<memory, newest, dirty, writes, row, deleting, up, unsaved>>

\* The mode state is stored: the session is replaced and saved.
ApplyRestore ==
    /\ up /\ restoring = "mode"
    /\ restoring' = "save"
    /\ NewState
    /\ Chain("restore", newest + 1)
    /\ unsaved' = FALSE
    /\ UNCHANGED <<dirty, row, deleting, previous, up>>

\* The mode state could not be stored.
RestoreFails ==
    /\ up /\ restoring = "mode"
    /\ restoring' = "no" /\ previous' = 0
    /\ UNCHANGED <<memory, newest, dirty, writes, row, deleting, up, unsaved>>

Settles(write) ==
    IF write.kind = "restore" THEN restoring' = "no" /\ previous' = 0
                              ELSE UNCHANGED <<restoring, previous>>

WriteCommits ==
    /\ up /\ writes # <<>>
    /\ row' = Head(writes).state
    /\ writes' = Tail(writes)
    /\ Settles(Head(writes))
    /\ UNCHANGED <<memory, newest, dirty, deleting, up, unsaved>>

\* The transaction is rolled back; the chain goes on.  A failed restore puts
\* back the session it found, over whatever came since.
WriteFails ==
    /\ up /\ writes # <<>>
    /\ writes' = Tail(writes)
    /\ Settles(Head(writes))
    /\ memory' = IF Head(writes).kind = "restore" THEN previous ELSE memory
    /\ unsaved' = (unsaved \/ Tail(writes) = <<>> \/ Head(writes).kind = "restore")
    /\ UNCHANGED <<newest, dirty, row, deleting, up>>

\* The process ends in the middle of anything.
Stops ==
    /\ up
    /\ up' = FALSE
    /\ memory' = 0 /\ dirty' = FALSE /\ writes' = <<>> /\ deleting' = FALSE
    /\ restoring' = "no" /\ previous' = 0 /\ unsaved' = FALSE
    /\ UNCHANGED <<newest, row>>

\* Mutant: a restart begins with no session of the database.
StartsEmpty ==
    /\ ~up
    /\ up' = TRUE
    /\ UNCHANGED <<memory, newest, dirty, writes, row, deleting, restoring, previous,
                   unsaved>>

\* restoreSessions(loadAll()).
Starts ==
    /\ ~up
    /\ up' = TRUE
    /\ memory' = row
    /\ UNCHANGED <<newest, dirty, writes, row, deleting, restoring, previous, unsaved>>

StoreNext ==
    \/ ChangeSession \/ PersistSession \/ DeleteSession \/ RemoveRow
    \/ BeginRestore \/ ApplyRestore \/ RestoreFails
    \/ WriteCommits \/ WriteFails \/ Stops \/ Starts

StoreSpec == StoreInit /\ [][StoreNext]_storeVars

-----------------------------------------------------------------------------
(* Properties.                                                               *)

\* Once every save and removal has settled, the database holds what the memory
\* holds: the last state of a session that lives, nothing of one that was
\* deleted, whatever overlapped and wherever the process was stopped.  Left out
\* is what a failed write leaves until the next save, and a session made anew
\* while its deletion was under way.
StoreIsCurrent ==
    up /\ ~dirty /\ writes = <<>> /\ ~deleting /\ ~unsaved => row = memory
=============================================================================
