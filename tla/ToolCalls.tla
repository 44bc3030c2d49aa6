-------------------------------- MODULE ToolCalls --------------------------------
(***************************************************************************)
(* executeToolCallsWithDependencies (llm/toolExecutionScheduler.ts): the     *)
(* tool calls of one model answer run concurrently where their effects do    *)
(* not conflict, in their order where they do.                               *)
(*                                                                           *)
(* A resource key is the set of resources it names: a wildcard names several.*)
(* The counter remainingDependencies is the set of calls it counts.  Calls    *)
(* run one after the other (executeSerial, executeSerialAnalyzed) when        *)
(* nothing may run beside anything else: every earlier call then blocks.      *)
(***************************************************************************)
EXTENDS Integers, FiniteSets

CONSTANTS
    NumCalls,       \* the calls of the answer
    ToolEffects,    \* what analyze may say of a call
    MaxConcurrency

ASSUME ToolCallsAssumption == NumCalls \in Nat /\ MaxConcurrency \in Int

VARIABLES
    effect,     \* the effect of each call
    blockers,   \* the earlier calls a call still waits for
    ready,
    runningCalls,
    results,    \* the calls that have a result
    halted,     \* stopped: a result was terminal
    answer      \* of the promise: "none" before it is made, then "open"

toolVars == <<effect, blockers, ready, runningCalls, results, halted, answer>>

Calls == 1 .. NumCalls

ToolCallsTypeOK ==
    /\ effect \in [Calls -> ToolEffects] \/ (answer = "none" /\ effect = <<>>)
    /\ blockers \in [Calls -> SUBSET Calls]
    /\ ready \subseteq Calls /\ runningCalls \subseteq Calls /\ results \subseteq Calls
    /\ halted \in BOOLEAN
    /\ answer \in {"none", "open", "resolved", "rejected"}

KeysConflict(k, l) == k \subseteq l \/ l \subseteq k
Intersects(ks, ls) == \E k \in ks, l \in ls : KeysConflict(k, l)

EffectsConflict(e, f) ==
    \/ e.kind # "parallel" \/ f.kind # "parallel"
    \/ Intersects(e.writes, f.writes)
    \/ Intersects(e.writes, f.reads)
    \/ Intersects(e.reads, f.writes)

Serial(eff) ==
    \/ NumCalls = 1 \/ MaxConcurrency <= 1
    \/ \A i, j \in Calls : i # j => EffectsConflict(eff[i], eff[j])

(* Mutant: reading and then writing the same resource is no conflict.        *)
BlocksWritersOnly(eff, i, j) ==
    i < j /\ (Serial(eff) \/ Intersects(eff[i].writes, eff[j].writes)
                          \/ Intersects(eff[i].writes, eff[j].reads))

\* buildExecutionGraph.
Blocks(eff, i, j) == i < j /\ (Serial(eff) \/ EffectsConflict(eff[i], eff[j]))

\* How many calls run at once; a serial order never has two that may.
Slots == IF MaxConcurrency > 1 THEN MaxConcurrency ELSE 1

LowestOf(some, all) == \A i \in some, j \in all \ some : i < j

(* Mutant: calls go on being started after a terminal result.                *)
ScheduleUnhalted(rd, rn, rs, halt) ==
    \E started \in SUBSET rd :
       /\ LowestOf(started, rd)
       /\ Cardinality(started) <= Slots - Cardinality(rn)
       /\ started = rd \/ Cardinality(started) = Slots - Cardinality(rn)
       /\ ready' = rd \ started
       /\ runningCalls' = rn \cup started
       /\ answer' = IF (halt \/ rs = Calls) /\ rn = {} THEN "resolved" ELSE "open"

\* schedule(): as many of the lowest ready calls as there is room for.
Schedule(rd, rn, rs, halt) ==
    LET room == IF halt THEN 0 ELSE Slots - Cardinality(rn) IN
    \E started \in SUBSET rd :
       /\ LowestOf(started, rd)
       /\ Cardinality(started) <= room
       /\ started = rd \/ Cardinality(started) = room
       /\ ready' = rd \ started
       /\ runningCalls' = rn \cup started
       /\ answer' = IF (halt \/ rs = Calls) /\ rn = {} THEN "resolved" ELSE "open"

ToolCallsInit ==
    /\ effect = <<>> /\ blockers = [j \in Calls |-> {}]
    /\ ready = {} /\ runningCalls = {} /\ results = {}
    /\ halted = FALSE /\ answer = "none"

BeginCalls ==
    /\ answer = "none"
    /\ effect' \in [Calls -> ToolEffects]
    /\ blockers' = [j \in Calls |-> {i \in Calls : Blocks(effect', i, j)}]
    /\ Schedule({j \in Calls : blockers'[j] = {}}, {}, {}, FALSE)
    /\ UNCHANGED <<results, halted>>

(* Mutant: a result that frees no call is not counted as completed.          *)
CallSucceedsUncounted(i) ==
    /\ i \in runningCalls /\ answer = "open"
    /\ LET freed == [j \in Calls |-> blockers[j] \ {i}]
           now == {j \in Calls : i \in blockers[j] /\ freed[j] = {}}
           rs == IF now = {} THEN results ELSE results \cup {i}
       IN
       /\ results' = rs
       /\ blockers' = freed
       /\ Schedule(ready \cup now, runningCalls \ {i}, rs, halted)
    /\ UNCHANGED <<effect, halted>>

CallSucceeds(i) ==
    /\ i \in runningCalls /\ answer = "open"
    /\ results' = results \cup {i}
    /\ LET freed == [j \in Calls |-> blockers[j] \ {i}]
           now == {j \in Calls : i \in blockers[j] /\ freed[j] = {}}
       IN
       /\ blockers' = freed
       /\ Schedule(ready \cup now, runningCalls \ {i}, results', halted)
    /\ UNCHANGED <<effect, halted>>

\* The result ends the turn: the calls that wait stay waiting.
CallEndsTurn(i) ==
    /\ i \in runningCalls /\ answer = "open"
    /\ results' = results \cup {i}
    /\ halted' = TRUE
    /\ Schedule(ready, runningCalls \ {i}, results', TRUE)
    /\ UNCHANGED <<effect, blockers>>

CallFails(i) ==
    /\ i \in runningCalls /\ answer = "open"
    /\ answer' = "rejected"
    /\ UNCHANGED <<effect, blockers, ready, runningCalls, results, halted>>

\* A rejected answer leaves the other calls running; their ends start nothing.
CallOutlivesAnswer(i) ==
    /\ i \in runningCalls /\ answer = "rejected"
    /\ runningCalls' = runningCalls \ {i}
    /\ UNCHANGED <<effect, blockers, ready, results, halted, answer>>

CallEnds(i) == CallSucceeds(i) \/ CallEndsTurn(i) \/ CallFails(i)

ToolCallsNext ==
    \/ BeginCalls
    \/ \E i \in Calls : CallEnds(i) \/ CallOutlivesAnswer(i)

ToolCallsSpec == ToolCallsInit /\ [][ToolCallsNext]_toolVars

\* Every tool call comes to an end.
ToolCallsFairness == \A i \in Calls : WF_toolVars(CallEnds(i))

-----------------------------------------------------------------------------
(* Properties.                                                               *)

\* However the calls overlap, of two that conflict the later one is started
\* only when the earlier one has its result.
ConflictsKeepOrder ==
    \A i, j \in Calls :
        /\ i < j /\ j \in runningCalls \cup results
        /\ EffectsConflict(effect[i], effect[j])
        => i \in results

\* The answer is complete: when it comes no call is running any more, every
\* call has a result unless one ended the turn, and even then each result
\* comes with those of the calls it depended on.
AnswerIsComplete ==
    answer = "resolved" =>
        /\ runningCalls = {}
        /\ ~halted => results = Calls
        /\ \A j \in results, i \in Calls : Blocks(effect, i, j) => i \in results

\* The graph of conflicts never leaves a call behind: the answer comes.
ToolCallsAreAnswered == (answer = "open") ~> (answer \in {"resolved", "rejected"})
=============================================================================
