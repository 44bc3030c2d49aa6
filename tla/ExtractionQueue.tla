----------------------------- MODULE ExtractionQueue -----------------------------
(***************************************************************************)
(* Turns waiting for their facts to be extracted                             *)
(* (context/contextExtractionQueue.ts): per session and user they are        *)
(* collected under a timer, taken in batches by at most so many requests at  *)
(* a time, and dropped when their session is deleted.                        *)
(***************************************************************************)
EXTENDS Naturals, Sequences, SequencesExt, FiniteSets

CONSTANTS
    QueueKeys,          \* pairs <<session, user>>
    MaxTurnsPerBatch,   \* config.context.extraction.maxTurnsPerBatch
    MaxPendingTurns,    \* MAX_PENDING_TURNS_PER_SESSION
    MaxTurns,           \* bound: turns ever offered
    MaxReloads          \* bound: changes of the config

ASSUME ExtractionAssumption ==
    /\ MaxTurnsPerBatch \in Nat \ {0} /\ MaxPendingTurns \in Nat
    /\ MaxTurns \in Nat /\ MaxReloads \in Nat

VARIABLES
    queued,     \* per key: the turns of its pending batch
    timer,      \* the keys whose timer runs
    readyKeys,  \* the keys to be served: for each the ones that are ahead of it
    batch,      \* per key: the turns in runningSessions
    abortedKeys, \* the running keys whose controller is aborted
    limit,      \* config: maxConcurrency, 0 while extraction is disabled
    notified,   \* the queue's subscription saw that config
    off,        \* stopped
    turns,      \* turns offered so far; a turn is its number
    reloads,    \* bound
    stored,     \* observed, per key: the turns whose facts were stored
    dropped     \* observed: the turns accepted before their session was deleted

extractionVars == <<queued, timer, readyKeys, batch, abortedKeys, limit, notified, off,
                    turns, reloads, stored, dropped>>

Turns == 1 .. MaxTurns
Running == {k \in QueueKeys : batch[k] # <<>>}

ExtractionTypeOK ==
    /\ queued \in [QueueKeys -> Seq(Turns)] /\ batch \in [QueueKeys -> Seq(Turns)]
    /\ \A k \in QueueKeys : Len(queued[k]) <= MaxPendingTurns
                         /\ Len(batch[k]) <= MaxTurnsPerBatch
    /\ timer \subseteq QueueKeys /\ abortedKeys \subseteq Running
    /\ readyKeys \in UNION {[keys -> SUBSET keys] : keys \in SUBSET QueueKeys}
    /\ limit \in Nat /\ notified \in BOOLEAN /\ off \in BOOLEAN
    /\ turns \in 0 .. MaxTurns /\ reloads \in 0 .. MaxReloads
    /\ stored \in [QueueKeys -> Seq(Turns)] /\ dropped \subseteq Turns

NoKeys == [k \in {} |-> {}]

ExtractionInit ==
    /\ queued = [k \in QueueKeys |-> <<>>] /\ batch = [k \in QueueKeys |-> <<>>]
    /\ timer = {} /\ readyKeys = NoKeys /\ abortedKeys = {}
    /\ limit = 1 /\ notified = TRUE /\ off = FALSE
    /\ turns = 0 /\ reloads = 0
    /\ stored = [k \in QueueKeys |-> <<>>] /\ dropped = {}

-----------------------------------------------------------------------------

\* `ready` is a set that keeps the order of its insertions.
Joined(keys, k) ==
    [j \in DOMAIN keys \cup {k} |-> IF j \in DOMAIN keys THEN keys[j] ELSE DOMAIN keys]
Without(keys, gone) == [k \in DOMAIN keys \ gone |-> keys[k] \ gone]

\* pump, over the keys in `keys`, with the batches of `waiting` not yet taken
\* and `running` busy: the first ones that fit are flushed, whole or in part.
Pump(keys, waiting, running) ==
    LET busy == {k \in QueueKeys : running[k] # <<>>}
        free == IF off \/ limit <= Cardinality(busy) THEN 0
                ELSE limit - Cardinality(busy)
        taken == {k \in DOMAIN keys : Cardinality(keys[k]) < free}
        size(k) == IF Len(waiting[k]) < MaxTurnsPerBatch
                   THEN Len(waiting[k]) ELSE MaxTurnsPerBatch
    IN  /\ readyKeys' = Without(keys, taken)
        /\ batch' = [k \in QueueKeys |->
                        IF k \in taken THEN SubSeq(waiting[k], 1, size(k)) ELSE running[k]]
        /\ queued' = [k \in QueueKeys |->
                        IF k \in taken
                        THEN SubSeq(waiting[k], size(k) + 1, Len(waiting[k]))
                        ELSE waiting[k]]

\* The executor offers the turn of a response that ended.  A full queue, a
\* stopped one, and one that is switched off do not take it.
EnqueueTurn(k) ==
    /\ turns < MaxTurns
    /\ turns' = turns + 1
    /\ \/ /\ ~off /\ limit > 0 /\ Len(queued[k]) < MaxPendingTurns
          /\ queued' = [queued EXCEPT ![k] = Append(@, turns + 1)]
          /\ timer' = IF k \in Running \cup DOMAIN readyKeys THEN timer ELSE timer \cup {k}
       \/ /\ off \/ limit = 0 \/ Len(queued[k]) >= MaxPendingTurns
          /\ UNCHANGED <<queued, timer>>
    /\ UNCHANGED <<readyKeys, batch, abortedKeys, limit, notified, off, reloads, stored, dropped>>

TimerFires(k) ==
    /\ k \in timer
    /\ timer' = timer \ {k}
    /\ Pump(Joined(readyKeys, k), queued, batch)
    /\ UNCHANGED <<abortedKeys, limit, notified, off, turns, reloads, stored, dropped>>

\* Mutant: what came in while the batch ran waits for the next turn.
BatchEndsForgetful(k) ==
    /\ k \in Running
    /\ abortedKeys' = abortedKeys \ {k}
    /\ \/ k \notin abortedKeys /\ stored' = [stored EXCEPT ![k] = @ \o batch[k]]
       \/ UNCHANGED stored
    /\ Pump(readyKeys, queued, [batch EXCEPT ![k] = <<>>])
    /\ UNCHANGED <<timer, limit, notified, off, turns, reloads, dropped>>

\* processTurns ends: the facts are stored, or the request failed, or there was
\* nothing to store; after an abort nothing is.  Then the finally of flush.
BatchEnds(k) ==
    /\ k \in Running
    /\ abortedKeys' = abortedKeys \ {k}
    /\ \/ k \notin abortedKeys /\ stored' = [stored EXCEPT ![k] = @ \o batch[k]]
       \/ UNCHANGED stored
    /\ Pump(IF queued[k] # <<>> THEN Joined(readyKeys, k) ELSE readyKeys, queued,
            [batch EXCEPT ![k] = <<>>])
    /\ UNCHANGED <<timer, limit, notified, off, turns, reloads, dropped>>

Of(session) == {k \in QueueKeys : k[1] = session}
Sessions == {k[1] : k \in QueueKeys}
AcceptedIn(session) ==
    UNION {ToSet(queued[k]) \cup ToSet(batch[k]) : k \in Of(session)}

\* Mutant: a request that is under way goes on.
CancelSessionPendingOnly(s) ==
    /\ AcceptedIn(s) # {}
    /\ queued' = [k \in QueueKeys |-> IF k \in Of(s) THEN <<>> ELSE queued[k]]
    /\ timer' = timer \ Of(s)
    /\ readyKeys' = Without(readyKeys, Of(s))
    /\ dropped' = dropped \cup AcceptedIn(s)
    /\ UNCHANGED <<batch, abortedKeys, limit, notified, off, turns, reloads, stored>>

\* cancelSession, when the session is deleted.  The running ones keep their slot
\* until they end.
CancelSession(s) ==
    /\ AcceptedIn(s) # {}
    /\ queued' = [k \in QueueKeys |-> IF k \in Of(s) THEN <<>> ELSE queued[k]]
    /\ timer' = timer \ Of(s)
    /\ readyKeys' = Without(readyKeys, Of(s))
    /\ abortedKeys' = abortedKeys \cup (Of(s) \cap Running)
    /\ dropped' = dropped \cup AcceptedIn(s)
    /\ UNCHANGED <<batch, limit, notified, off, turns, reloads, stored>>

\* The config object changes at once, its subscribers learn of it one by one.
ConfigChanges ==
    /\ notified /\ reloads < MaxReloads
    /\ reloads' = reloads + 1
    /\ limit' \in {0, 1, 2} \ {limit}
    /\ notified' = FALSE
    /\ UNCHANGED <<queued, timer, readyKeys, batch, abortedKeys, off, turns, stored, dropped>>

ReloadConfig ==
    /\ ~notified
    /\ notified' = TRUE
    /\ Pump(readyKeys, queued, batch)
    /\ UNCHANGED <<timer, abortedKeys, limit, off, turns, reloads, stored, dropped>>

\* stop, at shutdown.
StopExtraction ==
    /\ ~off /\ turns > 0
    /\ off' = TRUE
    /\ timer' = {} /\ readyKeys' = NoKeys
    /\ queued' = [k \in QueueKeys |-> <<>>]
    /\ abortedKeys' = Running
    /\ dropped' = dropped \cup UNION {AcceptedIn(s) : s \in Sessions}
    /\ UNCHANGED <<batch, limit, notified, turns, reloads, stored>>

ExtractionNext ==
    \/ \E k \in QueueKeys : EnqueueTurn(k) \/ TimerFires(k) \/ BatchEnds(k)
    \/ \E s \in Sessions : CancelSession(s)
    \/ ConfigChanges \/ ReloadConfig \/ StopExtraction

\* Timers fire, requests end (they have a timeout), subscribers are told.
ExtractionFairness ==
    /\ \A k \in QueueKeys : WF_extractionVars(TimerFires(k))
                         /\ WF_extractionVars(BatchEnds(k))
    /\ WF_extractionVars(ReloadConfig)

ExtractionSpec == ExtractionInit /\ [][ExtractionNext]_extractionVars /\ ExtractionFairness

-----------------------------------------------------------------------------
(* Properties.                                                               *)

\* Nothing that waited or was under way when its session was deleted, or the
\* program stopped, is ever stored; the facts of one user in a session are
\* stored in the order of the turns, none twice.
DeletedTurnsAreForgotten ==
    /\ \A k \in QueueKeys : ToSet(stored[k]) \cap dropped = {}
    /\ \A k \in QueueKeys : \A i, j \in DOMAIN stored[k] :
          i < j => stored[k][i] < stored[k][j]

\* Unless extraction is switched off, whatever the config becomes meanwhile,
\* the turns that wait are taken.
WaitingTurnsAreTaken ==
    \A k \in QueueKeys : queued[k] # <<>> ~> (queued[k] = <<>> \/ limit = 0)
=============================================================================
