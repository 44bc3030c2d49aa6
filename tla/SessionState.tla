---------------------------- MODULE SessionState ----------------------------
(***************************************************************************)
(* The in-memory state of one chat session and the operations of           *)
(* SessionManager on it (src/src/conversation/session).  The program is a  *)
(* single-threaded event loop: an operation is an ordinary function call,  *)
(* so each one is a function from a session record to a session record,    *)
(* and a handler that calls several of them is their composition.          *)
(*                                                                         *)
(* A message is only an identity with a sender.  Histories, transcripts,   *)
(* prompts and wording are left out.  Of the six generating phases of      *)
(* sessionQueries.ts three are kept: "planning" (turn_planner_evaluating), *)
(* "requesting" (requesting_llm) and "generating" (compressing_history,    *)
(* reasoning, generating, tool_calling, which no operation tells apart).   *)
(***************************************************************************)
EXTENDS Naturals, Sequences, FiniteSets, Functions

CONSTANTS
    Msgs,        \* inbound user messages that trigger a response
    Users,       \* their senders
    Sender,      \* Sender[m] is the user who sent m
    Triggers,    \* scheduled instructions (internal triggers)
    Events,      \* background events (inline triggers)
    NoUser,      \* no reply target
    NoTrigger    \* a run that serves no internal trigger

ASSUME SenderAssumption == Sender \in [Msgs -> Users]
ASSUME NoUserAssumption == NoUser \notin Users
ASSUME NoTriggerAssumption == NoTrigger \notin Triggers

GeneratingPhases == {"planning", "requesting", "generating"}
Phases == {"idle", "debouncing", "waiting", "delivering"} \cup GeneratingPhases

(***************************************************************************)
(* An AbortController is known by the run it was created for: genCtl,      *)
(* respCtl are run numbers, 0 is null.  The outbound controller is         *)
(* replaced within a run, so only its own state is kept.                   *)
(***************************************************************************)
Controller == Nat
OutboundStates == {"none", "live", "aborted"}

RunKinds == {"chat", "trigger", "inline"}
RunStages == {"prep", "exec", "setup", "drain", "closing", "done"}

(***************************************************************************)
(* The closure of one asynchronous run: what flushSession,                 *)
(* runInternalTriggerSession or runInlineTriggerBatchSession captured when *)
(* it began, the abort signals it holds, and where it is suspended.        *)
(***************************************************************************)
Run == [kind   : RunKinds,
        stage  : RunStages,
        repoch : Nat,                   \* responseEpoch at its beginning
        mepoch : Nat,                   \* expectedEpoch (mutationEpoch)
        genAb  : BOOLEAN,               \* abortController.signal.aborted
        respAb : BOOLEAN,               \* responseAbortController.signal.aborted
        fin    : BOOLEAN,               \* finishedCurrent of runGeneration
        waits  : Nat,                   \* pendingReplyGateWaitPasses it took
        input  : Seq(Msgs),             \* its batch, then the steers it consumed
        trigger: Triggers \cup {NoTrigger},
        events : Seq(Events)]

Session == [phase         : Phases,
            responseEpoch : Nat,
            mutationEpoch : Nat,
            genCtl        : Controller,
            respCtl       : Controller,
            outCtl        : OutboundStates,
            pending       : Seq(Msgs),
            steer         : Seq(Msgs),
            queued        : Seq(Seq(Msgs)),   \* queuedGroupReplyTargets
            waits         : Nat,              \* pendingReplyGateWaitPasses
            target        : Users \cup {NoUser},
            timer         : BOOLEAN,          \* debounceTimer is set
            triggers      : Seq(Triggers),
            inlines       : Seq(Events),
            run           : Seq(Run)]

(* A session whose controllers belong to runs that were started. *)
TypedSession(s) ==
    /\ s \in Session
    /\ s.genCtl <= Len(s.run) /\ s.respCtl <= Len(s.run)

CreateSessionState ==
    [phase |-> "idle", responseEpoch |-> 0, mutationEpoch |-> 0,
     genCtl |-> 0, respCtl |-> 0, outCtl |-> "none",
     pending |-> <<>>, steer |-> <<>>, queued |-> <<>>, waits |-> 0,
     target |-> NoUser, timer |-> FALSE, triggers |-> <<>>, inlines |-> <<>>,
     run |-> <<>>]

-----------------------------------------------------------------------------
(* sessionQueries.ts *)

IsGenerating(s) == s.phase \in GeneratingPhases
IsResponding(s) == IsGenerating(s) \/ s.phase = "delivering"
HasActiveResponse(s) == IsGenerating(s) \/ IsResponding(s)
IsResponseOpen(s, epoch) == s.responseEpoch = epoch /\ IsResponding(s)

-----------------------------------------------------------------------------
(* sessionLifecycle.ts: beginning, finishing, cancelling and completing.   *)

(* Mutant: the controllers are numbered one run ahead. *)
StartRunMisnumbered(s, kind, input, trigger, events) ==
    [s EXCEPT !.responseEpoch = s.responseEpoch + 1,
              !.genCtl = Len(s.run) + 2, !.respCtl = Len(s.run) + 2, !.outCtl = "live",
              !.run = Append(s.run,
                        [kind |-> kind, stage |-> "prep",
                         repoch |-> s.responseEpoch + 1, mepoch |-> s.mutationEpoch,
                         genAb |-> FALSE, respAb |-> FALSE, fin |-> FALSE,
                         waits |-> s.waits, input |-> input,
                         trigger |-> trigger, events |-> events])]

StartRun(s, kind, input, trigger, events) ==
    [s EXCEPT !.responseEpoch = s.responseEpoch + 1,
              !.genCtl  = Len(s.run) + 1,
              !.respCtl = Len(s.run) + 1,
              !.outCtl  = "live",
              !.run = Append(s.run,
                        [kind |-> kind, stage |-> "prep",
                         repoch |-> s.responseEpoch + 1, mepoch |-> s.mutationEpoch,
                         genAb |-> FALSE, respAb |-> FALSE, fin |-> FALSE,
                         waits |-> s.waits, input |-> input,
                         trigger |-> trigger, events |-> events])]

BeginGeneration(s) ==
    [StartRun(s, "chat", s.pending, NoTrigger, <<>>) EXCEPT
        !.pending = <<>>,
        !.waits   = 0,
        !.target  = IF s.pending = <<>> THEN NoUser ELSE Sender[Head(s.pending)],
        !.phase   = "planning"]

BeginSyntheticGeneration(s, kind, trigger, events) ==
    [StartRun(s, kind, <<>>, trigger, events) EXCEPT
        !.target = NoUser,
        !.phase  = "requesting"]

(* Mutant: the caller's ownership is not checked. *)
FinishGenerationUnowned(s, r) == [s EXCEPT !.phase = "delivering", !.genCtl = 0]

FinishGeneration(s, r) ==
    IF s.genCtl = r THEN [s EXCEPT !.phase = "delivering", !.genCtl = 0] ELSE s

(* Mutant: the cancelled generation is forgotten, not aborted. *)
CancelGenerationUnaborted(s) ==
    IF IsGenerating(s) /\ s.genCtl # 0
    THEN [s EXCEPT !.phase = "delivering", !.genCtl = 0] ELSE s

CancelGeneration(s) ==
    IF IsGenerating(s) /\ s.genCtl # 0
    THEN [s EXCEPT !.run[s.genCtl].genAb = TRUE,
                   !.phase = "delivering", !.genCtl = 0]
    ELSE s

CompleteResponse(s, epoch) ==
    IF s.responseEpoch = epoch
    THEN [s EXCEPT !.phase = "idle", !.respCtl = 0, !.outCtl = "none",
                   !.target = NoUser]
    ELSE s

-----------------------------------------------------------------------------
(* sessionMutations.ts: the queues of one session. *)

AppendPending(s, m) ==
    [s EXCEPT !.pending = Append(s.pending, m), !.waits = 0]

AppendSteer(s, m) == [s EXCEPT !.steer = Append(s.steer, m)]

(* Mutants: steers go behind what is pending, or stay where they are. *)
PromoteSteerToEnd(s) ==
    IF s.steer = <<>> THEN s
    ELSE [s EXCEPT !.pending = s.pending \o s.steer, !.steer = <<>>, !.waits = 0]
PromoteSteerNever(s) == s

PromoteSteer(s) ==
    IF s.steer = <<>> THEN s
    ELSE [s EXCEPT !.pending = s.steer \o s.pending, !.steer = <<>>, !.waits = 0]

(* Mutant: the outbound controller is not renewed. *)
ConsumeSteerMuted(s, r) ==
    [s EXCEPT !.steer = <<>>, !.run[r].input = s.run[r].input \o s.steer]

(* Run r takes every steer message; only then may output be sent again. *)
ConsumeSteer(s, r) ==
    [s EXCEPT !.steer = <<>>,
              !.run[r].input = s.run[r].input \o s.steer,
              !.outCtl = IF s.outCtl = "aborted" THEN "live" ELSE s.outCtl]

DrainInlines(s, r) ==
    [s EXCEPT !.inlines = <<>>, !.run[r].events = s.run[r].events \o s.inlines]

(* Mutant: every message joins the first entry, whoever sent it. *)
EnqueueWithAnyone(s, m) ==
    IF s.queued = <<>> THEN [s EXCEPT !.queued = <<<<m>>>>]
    ELSE [s EXCEPT !.queued[1] = Append(s.queued[1], m)]

(* One queue entry per sender: a second message joins the first one's. *)
EnqueueGroupReplyTarget(s, m) ==
    IF \E i \in DOMAIN s.queued : Sender[Head(s.queued[i])] = Sender[m]
    THEN [s EXCEPT !.queued =
            [i \in DOMAIN s.queued |->
               IF Sender[Head(s.queued[i])] = Sender[m]
               THEN Append(s.queued[i], m) ELSE s.queued[i]]]
    ELSE [s EXCEPT !.queued = Append(s.queued, <<m>>)]

PromoteNextTarget(s) ==
    IF s.queued = <<>> THEN s
    ELSE [s EXCEPT !.pending = Head(s.queued) \o s.pending,
                   !.queued = Tail(s.queued), !.waits = 0]

InterruptOutbound(s) ==
    IF s.outCtl = "live" THEN [s EXCEPT !.outCtl = "aborted"] ELSE s

AbortResponse(s) ==
    IF s.respCtl # 0 THEN [s EXCEPT !.run[s.respCtl].respAb = TRUE] ELSE s

(* SessionManager.interruptResponse: steers first, then abort everything.  *)
InterruptResponse(s) ==
    [AbortResponse(CancelGeneration(PromoteSteer(s))) EXCEPT
        !.mutationEpoch = s.mutationEpoch + 1,
        !.phase  = "idle",
        !.target = NoUser]

(* The debounce timer also moves the phase, in both directions. *)
ClearTimer(s) ==
    IF ~s.timer THEN s
    ELSE [s EXCEPT !.timer = FALSE,
                   !.phase = IF s.phase = "debouncing" THEN "idle" ELSE s.phase]

Schedule(s) ==
    LET c == ClearTimer(s) IN
    [c EXCEPT !.timer = TRUE,
              !.phase = IF c.phase \in {"idle", "waiting"} THEN "debouncing" ELSE c.phase]

(* Mutant: what arrived while the planner ran is overwritten. *)
RequeueOverwriting(s, batch, passes) ==
    [s EXCEPT !.pending = batch,
              !.waits = IF s.waits >= passes THEN s.waits ELSE passes,
              !.phase = IF s.phase \in {"planning", "requesting", "idle"}
                        THEN "waiting" ELSE s.phase]

RequeuePending(s, batch, passes) ==
    [s EXCEPT !.pending = batch \o s.pending,
              !.waits = IF s.waits >= passes THEN s.waits ELSE passes,
              !.phase = IF s.phase \in {"planning", "requesting", "idle"}
                        THEN "waiting" ELSE s.phase]

AbortAllControllers(s) ==
    LET g == IF s.genCtl # 0 THEN [s EXCEPT !.run[s.genCtl].genAb = TRUE] ELSE s
    IN  AbortResponse(g)

(* Mutant: the debounce timer keeps running. *)
ClearSessionKeepingTimer(s) ==
    [AbortAllControllers(s) EXCEPT
        !.mutationEpoch = s.mutationEpoch + 1,
        !.pending = <<>>, !.steer = <<>>, !.queued = <<>>, !.waits = 0,
        !.target = NoUser, !.triggers = <<>>, !.inlines = <<>>,
        !.phase = "idle", !.genCtl = 0, !.respCtl = 0, !.outCtl = "none"]

ClearSession(s) ==
    [AbortAllControllers(ClearTimer(s)) EXCEPT
        !.mutationEpoch = s.mutationEpoch + 1,
        !.pending = <<>>, !.steer = <<>>, !.queued = <<>>, !.waits = 0,
        !.target = NoUser, !.triggers = <<>>, !.inlines = <<>>,
        !.phase = "idle", !.genCtl = 0, !.respCtl = 0, !.outCtl = "none"]

(* resetProfileOperationState: neither the timer nor a controller changes. *)
FinishProfileOperation(s) ==
    [s EXCEPT !.mutationEpoch = s.mutationEpoch + 1,
              !.pending = <<>>, !.steer = <<>>, !.queued = <<>>, !.waits = 0,
              !.target = NoUser, !.triggers = <<>>, !.inlines = <<>>,
              !.phase = "idle"]

-----------------------------------------------------------------------------
(* generationRunner.ts: what is started next when nothing is in progress.  *)

ProcessNextSessionWork(s) ==
    LET a == PromoteSteer(s)
        p == IF a.pending = <<>> THEN PromoteNextTarget(a) ELSE a
    IN  IF HasActiveResponse(s) THEN s
        ELSE IF p.pending # <<>>
             THEN IF p.timer THEN p ELSE BeginGeneration(p)
        ELSE IF p.triggers # <<>>
             THEN BeginSyntheticGeneration([p EXCEPT !.triggers = Tail(p.triggers)],
                                           "trigger", Head(p.triggers), <<>>)
        ELSE IF p.inlines # <<>>
             THEN BeginSyntheticGeneration([p EXCEPT !.inlines = <<>>],
                                           "inline", NoTrigger, p.inlines)
        ELSE p

(* The asynchronous function of run r returns: its closure is released.    *)
Released(run) ==
    [kind |-> run.kind, stage |-> "done", repoch |-> run.repoch, mepoch |-> 0,
     genAb |-> FALSE, respAb |-> FALSE, fin |-> FALSE, waits |-> 0,
     input |-> <<>>, trigger |-> NoTrigger, events |-> <<>>]

EndRun(s, r) == [s EXCEPT !.run[r] = Released(s.run[r])]

(* Mutant: nobody looks for queued work. *)
CompleteAndRest(s, epoch) == CompleteResponse(s, epoch)

(* completeResponse, and the next work only when the epoch still matched.  *)
CompleteAndContinue(s, epoch) ==
    IF s.responseEpoch = epoch
    THEN ProcessNextSessionWork(CompleteResponse(s, epoch))
    ELSE s

(* Mutant: nobody looks for queued work. *)
GiveBackAndRest(s, r) ==
    IF s.genCtl = r
    THEN CompleteResponse(FinishGeneration(s, r), s.run[r].repoch) ELSE s

(* Preparation ended without running the executor: the response is given   *)
(* back only by the run that still owns the generation controller.         *)
GiveBack(s, r) ==
    IF s.genCtl = r
    THEN ProcessNextSessionWork(CompleteResponse(FinishGeneration(s, r), s.run[r].repoch))
    ELSE s

(* flushSession up to its first await.  An empty batch opens a response    *)
(* and gives it back in the same turn.                                     *)
FlushSession(s) ==
    LET b == BeginGeneration(s) IN
    IF s.pending # <<>> THEN b ELSE GiveBack(EndRun(b, Len(b.run)), Len(b.run))
=============================================================================
