--------------------------- MODULE SessionResponse ---------------------------
(***************************************************************************)
(* The life of responses in one chat session: how messages, scheduled      *)
(* instructions, background events and commands open, steer, interrupt and *)
(* close the response of the session while asynchronous runs of the        *)
(* generation pipeline are suspended at their awaits.                      *)
(*                                                                         *)
(* An action is one turn of the event loop: from the point where a handler *)
(* or a run resumes to its next await, with every session operation it     *)
(* calls (module SessionState).  Between two actions of a run anything     *)
(* else may happen.                                                        *)
(***************************************************************************)
EXTENDS SessionState

CONSTANTS
    GroupChat,      \* TRUE: a group, where only mentions trigger; FALSE: private
    Modes,          \* values conversation.interruptionMode takes (hot reloaded)
    MaxWaitPasses,  \* llm.turnPlanner.maxWaitPasses
    Commands,       \* which administrative commands are used
    SetupTurns,     \* TRUE: turns of a setup phase, which end with a check
    MaxAdmitting,   \* bound on the handlers between decision and admission
    MaxRuns,        \* runs of a behaviour that are scheduled fairly
    MaxCommands     \* bound on the commands of a behaviour

CommandNames == {"stop", "skill", "config", "clear", "reset", "confirm", "debug"}

ASSUME ParameterAssumption ==
    /\ GroupChat \in BOOLEAN
    /\ Modes \subseteq {"immediate", "after_tool"}
    /\ MaxWaitPasses \in Nat
    /\ Commands \subseteq CommandNames
    /\ SetupTurns \in BOOLEAN
    /\ MaxAdmitting \in Nat
    /\ MaxRuns \in Nat
    /\ MaxCommands \in Nat

VARIABLES
    session,     \* the SessionState object, with the suspended runs
    admitting,   \* decisions taken, not yet acted upon: one microtask each
    arrived,     \* Seq(Msgs): the messages admitted so far, in order
    handled,     \* the messages whose run has ended (ghost)
    dropped,     \* the messages a command discarded (ghost)
    dispatched,  \* Triggers and Events handed to the dispatcher so far
    settled,     \* Triggers whose completion promise is settled (ghost)
    commands,    \* commands executed so far
    introducing  \* commands answered whose introduction is still to come

vars == <<session, admitting, arrived, handled, dropped, dispatched, settled, commands,
          introducing>>

Waiting(s) == Range(s.pending) \cup Range(s.steer)
                \cup UNION {Range(s.queued[i]) : i \in DOMAIN s.queued}

Suspended(r, stages) == r \in DOMAIN session.run /\ session.run[r].stage \in stages

Init ==
    /\ session = CreateSessionState
    /\ admitting = <<>> /\ arrived = <<>>
    /\ handled = {} /\ dropped = {}
    /\ dispatched = {} /\ settled = {}
    /\ commands = 0 /\ introducing = 0

-----------------------------------------------------------------------------
(* messageEventHandler.ts, messageTriggerFlow.ts: a message arrives.       *)

(* While a response without a reply target is open, its draft may already  *)
(* name somebody else as the one being answered: the run's own addressee,  *)
(* who is no sender of messages here.                                      *)
CurrentTargets ==
    IF session.target # NoUser THEN {session.target}
    ELSE IF session.pending # <<>> THEN {Sender[Head(session.pending)]}
    ELSE IF IsResponding(session) THEN {NoUser, "addressee"}
    ELSE {NoUser}

(* resolveTriggerDecision: what to do with a message that must be answered. *)
GroupDecision(m, current) ==
    IF (current = NoUser /\ session.queued # <<>>) \/ current \notin {NoUser, Sender[m]}
    THEN "queue"
    ELSE IF HasActiveResponse(session) /\ current = Sender[m]
    THEN "soft_interrupt"
    ELSE "reply_now"

DecisionNames == {"queue", "soft_interrupt", "reply_now"}

Decisions(m) ==
    IF GroupChat THEN {GroupDecision(m, current) : current \in CurrentTargets}
    ELSE {IF HasActiveResponse(session) THEN "soft_interrupt" ELSE "reply_now"}

Known(m) == m \in Range(arrived) \/ \E i \in DOMAIN admitting : admitting[i].msg = m

(* resolveTriggerDecision returns: its caller resumes one microtask later. *)
Decide(m) ==
    /\ ~Known(m)
    /\ Len(admitting) < MaxAdmitting
    /\ \E decision \in Decisions(m) :
         admitting' = Append(admitting, [msg |-> m, decision |-> decision])
    /\ UNCHANGED <<session, arrived, handled, dropped, dispatched, settled, commands, introducing>>

QueueForNextThread(m) ==
    LET e == EnqueueGroupReplyTarget(session, m) IN
    IF ~HasActiveResponse(session) /\ session.pending = <<>>
    THEN Schedule(PromoteNextTarget(e)) ELSE e

InterruptWith(m) == Schedule(AppendPending(InterruptResponse(session), m))

SteerWith(m) ==
    LET o == InterruptOutbound(session) IN
    IF o.genCtl # 0 THEN AppendSteer(o, m) ELSE AppendPending(o, m)

ReplyNow(m) ==
    IF HasActiveResponse(session) THEN AppendPending(session, m)
    ELSE Schedule(AppendPending(session, m))

(* The decision is carried out; whether a response is open is asked again. *)
Admit ==
    /\ admitting # <<>>
    /\ admitting' = Tail(admitting)
    /\ LET m        == Head(admitting).msg
           decision == Head(admitting).decision
           soft     == decision = "soft_interrupt" /\ HasActiveResponse(session)
       IN  /\ arrived' = Append(arrived, m)
           /\ \E mode \in Modes :
                session' = CASE decision = "queue"            -> QueueForNextThread(m)
                             [] soft /\ mode = "immediate"    -> InterruptWith(m)
                             [] soft /\ mode = "after_tool"   -> SteerWith(m)
                             [] decision # "queue" /\ ~soft   -> ReplyNow(m)
    /\ UNCHANGED <<handled, dropped, dispatched, settled, commands, introducing>>

(* Timers and the notifications of background tasks are tasks of their own *)
(* in the event loop: none comes between a decision and its admission.     *)
(* Runs and other messages, resumed by the same socket, do.                *)
NextTask == admitting = <<>>

(* debounceManager.ts: the timer fires and flushes, whatever is going on.  *)
DebounceFire ==
    /\ NextTask /\ session.timer
    /\ session' = FlushSession(ClearTimer(session))
    /\ UNCHANGED <<admitting, arrived, handled, dropped, dispatched, settled, commands, introducing>>

-----------------------------------------------------------------------------
(* internalTriggerDispatcher.ts *)

(* Mutant: only an active response delays an instruction. *)
DispatchAhead(t) ==
    /\ NextTask /\ t \notin dispatched
    /\ dispatched' = dispatched \cup {t}
    /\ session' =
         IF HasActiveResponse(session)
         THEN [session EXCEPT !.triggers = Append(session.triggers, t)]
         ELSE BeginSyntheticGeneration(session, "trigger", t, <<>>)
    /\ UNCHANGED <<admitting, arrived, handled, dropped, settled, commands, introducing>>

DispatchScheduled(t) ==
    /\ NextTask /\ t \notin dispatched
    /\ dispatched' = dispatched \cup {t}
    /\ session' =
         IF HasActiveResponse(session) \/ session.pending # <<>>
              \/ session.queued # <<>> \/ session.triggers # <<>>
         THEN [session EXCEPT !.triggers = Append(session.triggers, t)]
         ELSE BeginSyntheticGeneration(session, "trigger", t, <<>>)
    /\ UNCHANGED <<admitting, arrived, handled, dropped, settled, commands, introducing>>

DispatchEvent(e) ==
    /\ NextTask /\ e \notin dispatched
    /\ dispatched' = dispatched \cup {e}
    /\ LET q == [session EXCEPT !.inlines = Append(session.inlines, e)] IN
       session' = IF ~HasActiveResponse(q) /\ q.pending = <<>> /\ q.triggers = <<>>
                  THEN ProcessNextSessionWork(q) ELSE q
    /\ UNCHANGED <<admitting, arrived, handled, dropped, settled, commands, introducing>>

-----------------------------------------------------------------------------
(* Commands (directCommands.ts, character/introduction.ts)                 *)

(* The commands that enter or confirm a stage of the character's           *)
(* configuration, or set it up anew: once their answer is sent, they       *)
(* introduce the stage that comes next.                                    *)
Introductions(name) == IF name \in {"config", "reset"} THEN 1 ELSE 0

Execute(name, s) ==
    /\ name \in Commands
    /\ commands < MaxCommands
    /\ commands' = commands + 1
    /\ session' = s
    /\ introducing' = introducing + Introductions(name)
    /\ UNCHANGED <<admitting, handled, dispatched, settled>>

(* .stop, and .compact before it compacts *)
StopCommand ==
    /\ Execute("stop", CancelGeneration(session))
    /\ UNCHANGED <<admitting, arrived, dropped>>

(* An owner's configuration, in private, interrupts the response.  "skill": *)
(* .config skill, .cancel and the .confirm of a skill, which do no more.    *)
(* "config": .setup and .config of a character stage, and its .confirm.     *)
InterruptCommand(name) ==
    /\ ~GroupChat
    /\ Execute(name, InterruptResponse(session))
    /\ UNCHANGED <<admitting, arrived, dropped>>

(* .clear, and the .reset of a stateful role play *)
ClearCommand(name) ==
    /\ name = "reset" => ~GroupChat
    /\ Execute(name, ClearSession(CancelGeneration(session)))
    /\ dropped' = dropped \cup Waiting(session)
    /\ UNCHANGED arrived

(* .confirm and .cancel of a scenario *)
ConfirmCommand ==
    /\ Execute("confirm", FinishProfileOperation(InterruptResponse(session)))
    /\ dropped' = dropped \cup Waiting(session)
    /\ UNCHANGED arrived

(* An inline .debug: a message that flushes the session by itself. *)
FlushCommand(m) ==
    /\ Execute("debug", FlushSession(AppendPending(session, m)))
    /\ ~Known(m)
    /\ arrived' = Append(arrived, m)
    /\ UNCHANGED dropped

(* enqueueCharacterIntroduction, when the answer of the command is sent: a *)
(* message of its own flushes the session, unless a response is active, or *)
(* the draft is gone, was introduced or is about to be.                    *)
Introduce(m) ==
    /\ introducing > 0
    /\ introducing' = introducing - 1
    /\ \/ UNCHANGED <<session, arrived>>
       \/ /\ ~HasActiveResponse(session)
          /\ ~Known(m)
          /\ session' = FlushSession(AppendPending(session, m))
          /\ arrived' = Append(arrived, m)
    /\ UNCHANGED <<admitting, handled, dropped, dispatched, settled, commands>>

-----------------------------------------------------------------------------
(* The run of a response, suspended at one of its awaits.                  *)

Ended(r, s) ==
    /\ session' = s
    /\ handled' = handled \cup Range(session.run[r].input)
    /\ settled' = settled \cup ({session.run[r].trigger} \ {NoTrigger})
    /\ UNCHANGED <<admitting, arrived, dropped, dispatched, commands, introducing>>

Resumed(s) ==
    /\ session' = s
    /\ UNCHANGED <<admitting, arrived, handled, dropped, dispatched, settled, commands, introducing>>

PrepContinue(r) ==
    /\ Suspended(r, {"prep"})
    /\ Resumed([session EXCEPT !.run[r].stage = "exec"])

(* The planner decides not to reply, or notices that it was aborted.       *)
PrepSkip(r) ==
    /\ Suspended(r, {"prep"})
    /\ session.run[r].kind = "chat"
    /\ Ended(r, GiveBack(EndRun(session, r), r))

(* handlePreparationFailure, after its notification *)
PrepFail(r) ==
    /\ Suspended(r, {"prep"})
    /\ Ended(r, GiveBack(EndRun(session, r), r))

(* The planner waits for more input: batch requeued, longer timer.         *)
PrepWait(r) ==
    /\ Suspended(r, {"prep"})
    /\ session.run[r].kind = "chat"
    /\ ~session.run[r].genAb
    /\ session.run[r].waits + 1 <= MaxWaitPasses
    /\ LET run == session.run[r]
           q   == RequeuePending(session, run.input, run.waits + 1)
       IN  Resumed(GiveBack(EndRun(Schedule(q), r), r))

(* The executor reports a phase of the model request. *)
ExecPhase(r, phase) ==
    /\ Suspended(r, {"exec"})
    /\ session.run[r].mepoch = session.mutationEpoch
    /\ Resumed([session EXCEPT !.phase = phase])

(* A model request boundary of the tool loop. *)
ExecConsumeSteer(r) ==
    /\ Suspended(r, {"exec"})
    /\ ~session.run[r].genAb
    /\ session.steer # <<>>
    /\ Resumed(ConsumeSteer(session, r))

ExecConsumeEvents(r) ==
    /\ Suspended(r, {"exec"})
    /\ ~session.run[r].genAb
    /\ session.inlines # <<>>
    /\ Resumed(DrainInlines(session, r))

(* assertGenerationCurrent finds another mutation epoch. *)
ExecSuperseded(r) ==
    /\ Suspended(r, {"exec"})
    /\ session.run[r].mepoch # session.mutationEpoch
    /\ Resumed([session EXCEPT !.run[r].genAb = TRUE, !.run[r].respAb = TRUE])

AfterFinish(s, r) ==
    [s EXCEPT !.run[r].stage = IF IsResponseOpen(s, s.run[r].repoch)
                               THEN "drain" ELSE "closing"]

(* The try block of runGeneration is left, with a result or an error.      *)
ExecEnd(r) ==
    /\ Suspended(r, {"exec"})
    /\ LET f == [FinishGeneration(session, r) EXCEPT !.run[r].fin = session.genCtl = r]
       IN  \/ Resumed(AfterFinish(f, r))
           \/ /\ SetupTurns /\ f.run[r].fin /\ f.run[r].kind = "chat"
              /\ Resumed([f EXCEPT !.run[r].stage = "setup"])

(* A setup run checked whether its profile is complete, and if so leaves   *)
(* the profile operation; the check may also fail.                         *)
SetupChecked(r) ==
    /\ Suspended(r, {"setup"})
    /\ \/ Resumed(AfterFinish(session, r))
       \/ Resumed([session EXCEPT !.run[r].stage = "closing"])
       \/ /\ session' = AfterFinish(FinishProfileOperation(session), r)
          /\ dropped' = dropped \cup Waiting(session)
          /\ UNCHANGED <<admitting, arrived, handled, dispatched, settled, commands, introducing>>

(* Everything sent, post-turn work done: promote what was not consumed and *)
(* complete the response.                                                  *)
DrainEnd(r) ==
    /\ Suspended(r, {"drain"})
    /\ Ended(r, CompleteAndContinue(PromoteSteer(EndRun(session, r)), session.run[r].repoch))

(* Mutant: the last finally block trusts the work before it. *)
CloseEndTrusting(r) ==
    /\ Suspended(r, {"drain", "closing"})
    /\ Ended(r, EndRun(session, r))

(* The last finally block: the response was already closed by someone      *)
(* else, or the work after it failed.                                      *)
CloseEnd(r) ==
    /\ Suspended(r, {"drain", "closing"})
    /\ LET e == EndRun(session, r) IN
       Ended(r, IF session.run[r].fin
                THEN CompleteAndContinue(e, session.run[r].repoch) ELSE e)

RunStep(r) ==
    \/ PrepContinue(r) \/ PrepSkip(r) \/ PrepFail(r) \/ PrepWait(r)
    \/ \E phase \in {"requesting", "generating"} : ExecPhase(r, phase)
    \/ ExecConsumeSteer(r) \/ ExecConsumeEvents(r) \/ ExecSuperseded(r)
    \/ ExecEnd(r) \/ SetupChecked(r) \/ DrainEnd(r) \/ CloseEnd(r)

CommandStep ==
    \/ StopCommand \/ ConfirmCommand
    \/ \E name \in {"skill", "config"} : InterruptCommand(name)
    \/ \E name \in {"clear", "reset"} : ClearCommand(name)
    \/ \E m \in Msgs : FlushCommand(m) \/ Introduce(m)

Environment ==
    \/ \E m \in Msgs : Decide(m)
    \/ \E t \in Triggers : DispatchScheduled(t)
    \/ \E e \in Events : DispatchEvent(e)
    \/ CommandStep

Next == Environment \/ Admit \/ DebounceFire \/ \E r \in DOMAIN session.run : RunStep(r)

Spec == Init /\ [][Next]_vars

(* Every await of a run settles (requests carry timeouts, the tool loop is *)
(* bounded), and so does the debounce timer.  Nothing is assumed of users, *)
(* of schedules or of commands.                                            *)
RunEnds(r) ==
    \/ PrepContinue(r) \/ PrepSkip(r) \/ PrepFail(r) \/ PrepWait(r)
    \/ ExecEnd(r) \/ SetupChecked(r) \/ DrainEnd(r) \/ CloseEnd(r)

Fairness == WF_vars(Admit) /\ WF_vars(DebounceFire) /\ \A r \in 1 .. MaxRuns : WF_vars(RunEnds(r))

FairSpec == Spec /\ Fairness

-----------------------------------------------------------------------------
(* Properties *)

TypeOK ==
    /\ TypedSession(session)
    /\ admitting \in Seq([msg : Msgs, decision : DecisionNames])
    /\ arrived \in Seq(Msgs)
    /\ handled \subseteq Msgs /\ dropped \subseteq Msgs
    /\ dispatched \subseteq Triggers \cup Events
    /\ settled \subseteq Triggers
    /\ commands \in Nat /\ introducing \in Nat

(***************************************************************************)
(* Nothing is lost and nothing is answered twice: an accepted message is   *)
(* in exactly one place, whichever operation moved it: waiting in one of   *)
(* the three queues, in the input of one live run, in the past of a run    *)
(* that ended, or discarded by a command.                                  *)
(***************************************************************************)
Places(m) ==
    {<<"pending", i>> : i \in {j \in DOMAIN session.pending : session.pending[j] = m}}
    \cup {<<"steer", i>> : i \in {j \in DOMAIN session.steer : session.steer[j] = m}}
    \cup (UNION {{<<"queued", i, k>> : k \in {j \in DOMAIN session.queued[i] :
                                               session.queued[i][j] = m}}
                  : i \in DOMAIN session.queued})
    \cup (UNION {{<<"run", r, k>> : k \in {j \in DOMAIN session.run[r].input :
                                            session.run[r].input[j] = m}}
                  : r \in DOMAIN session.run})
    \cup {<<"handled">> : x \in handled \cap {m}}
    \cup {<<"dropped">> : x \in dropped \cap {m}}

MessageConservation ==
    \A m \in Msgs : Cardinality(Places(m)) = IF m \in Range(arrived) THEN 1 ELSE 0

(***************************************************************************)
(* What holds of the session object at every await, when it is only used   *)
(* by messages, schedules, events and the commands that keep the debounce  *)
(* timer consistent (the flush of an introduction does not clear it).  It  *)
(* is inductive, and the invariants below follow.                          *)
(***************************************************************************)
Orderly == Commands \subseteq {"skill", "clear"} /\ ~SetupTurns

(* The response epoch is the number of the newest run. *)
EpochsNumberRuns(s) ==
    /\ s.responseEpoch = Len(s.run)
    /\ \A r \in DOMAIN s.run : s.run[r].repoch = r /\ s.run[r].mepoch <= s.mutationEpoch

(* The generation controller belongs to the newest run, while it generates. *)
OwnerIsNewest(s) ==
    /\ s.genCtl # 0 <=> IsGenerating(s)
    /\ s.genCtl # 0 =>
         /\ s.genCtl = Len(s.run)
         /\ s.run[s.genCtl].stage \in {"prep", "exec"}
         /\ s.run[s.genCtl].mepoch = s.mutationEpoch
         /\ ~s.run[s.genCtl].genAb

(* Every other run is aborted and superseded, or has finished generating. *)
OthersAreAborted(s) ==
    \A r \in DOMAIN s.run :
        /\ s.run[r].stage # "setup"
        /\ s.run[r].stage \in {"prep", "exec"} /\ r # s.genCtl =>
             s.run[r].genAb /\ s.run[r].mepoch < s.mutationEpoch

DeliveryHasRun(s) ==
    s.phase = "delivering" =>
        /\ s.run # <<>>
        /\ s.run[Len(s.run)].stage \in {"drain", "closing"} /\ s.run[Len(s.run)].fin

TimerMeansPending(s) == s.timer => s.pending # <<>> /\ ~IsResponding(s)

(* A planner that may requeue its batch has one, and a thread to promote   *)
(* has messages: both would otherwise leave a timer with nothing to flush. *)
BatchesHaveMessages(s) ==
    /\ \A r \in DOMAIN s.run :
          s.run[r].kind = "chat" /\ s.run[r].stage = "prep" => s.run[r].input # <<>>
    /\ \A i \in DOMAIN s.queued : s.queued[i] # <<>>

Coherent(s) ==
    /\ EpochsNumberRuns(s) /\ OwnerIsNewest(s) /\ OthersAreAborted(s)
    /\ DeliveryHasRun(s) /\ TimerMeansPending(s) /\ BatchesHaveMessages(s)

CoherentSession == Orderly => Coherent(session)

(***************************************************************************)
(* A response that is open can still be closed: the run that opened it is  *)
(* still going, so one of its finally blocks will complete it              *)
(* (generationExecutor.ts, "must never leave the response open").          *)
(***************************************************************************)
OpenResponseHasRun ==
    IsResponding(session) =>
        \E r \in DOMAIN session.run :
            /\ session.run[r].stage # "done"
            /\ session.run[r].repoch = session.responseEpoch

(***************************************************************************)
(* Waiting work has somebody who will start it: while anything is queued,  *)
(* a timer is set or a response is open, whose end resumes queued work.    *)
(***************************************************************************)
QueuedWorkHasWaker ==
    Waiting(session) # {} \/ session.triggers # <<>> \/ session.inlines # <<>>
        => session.timer \/ IsResponding(session)

(***************************************************************************)
(* At most one run still works for the session: every other run that has   *)
(* not finished its generation holds an aborted signal.                    *)
(***************************************************************************)
SingleLiveGeneration ==
    \A r \in DOMAIN session.run :
        session.run[r].stage \in {"prep", "exec"} /\ ~session.run[r].genAb
            => session.genCtl = r

(***************************************************************************)
(* The output of a generation is muted exactly while a message that was    *)
(* typed during it waits to be taken into it.                              *)
(***************************************************************************)
MutedExactlyForSteer ==
    /\ session.steer # <<>> => session.outCtl # "live"
    /\ session.genCtl # 0 /\ session.outCtl = "aborted" => session.steer # <<>>

(***************************************************************************)
(* In a group one thread is answered at a time, the triggers of the other  *)
(* members queue (docs/architecture/message-interruption.md): the messages *)
(* of a run, and those that will be its next batch, come from one member.  *)
(***************************************************************************)
OneThread(q) == \A i, j \in DOMAIN q : Sender[q[i]] = Sender[q[j]]

OneThreadPerBatch ==
    GroupChat => /\ OneThread(session.steer \o session.pending)
                 /\ \A r \in DOMAIN session.run : OneThread(session.run[r].input)

(***************************************************************************)
(* The queue of group threads holds one entry per member, with that        *)
(* member's messages alone, in the order they arrived.                     *)
(***************************************************************************)
Position(m) == CHOOSE i \in DOMAIN arrived : arrived[i] = m
InOrder(q) == \A i, j \in DOMAIN q : i < j => Position(q[i]) < Position(q[j])

OneEntryPerMember ==
    \A i, k \in DOMAIN session.queued :
        /\ session.queued[i] # <<>>
        /\ OneThread(session.queued[i]) /\ InOrder(session.queued[i])
        /\ Sender[Head(session.queued[i])] = Sender[Head(session.queued[k])] => i = k

(***************************************************************************)
(* Messages are taken in the order they arrived, also when they were       *)
(* requeued, promoted or steered in between: a run's input is in order,    *)
(* and what waits to be taken next is in order.                            *)
(***************************************************************************)
ArrivalOrder ==
    /\ InOrder(session.steer \o session.pending)
    /\ \A r \in DOMAIN session.run : InOrder(session.run[r].input)

(***************************************************************************)
(* A background run starts only when no message waits: it never jumps      *)
(* ahead of a user (generationRunner.ts, "background jobs do not leapfrog  *)
(* fresh user messages").                                                  *)
(***************************************************************************)
BackgroundWaitsForChat ==
    [][\A r \in DOMAIN session'.run \ DOMAIN session.run :
          session'.run[r].kind # "chat" => Waiting(session') = {}]_vars

(***************************************************************************)
(* A run whose response is no longer the current one only winds down: it   *)
(* changes neither phase, controllers, timer nor reply target, opens and   *)
(* closes no response, and takes, adds or drops no waiting work.  (It may  *)
(* move a steer message of its successor to the pending ones: see          *)
(* MutedExactlyForSteer, which that violates.)                             *)
(***************************************************************************)
Stale(r) == session.run[r].repoch # session.responseEpoch

Visible(s) == <<s.phase, s.responseEpoch, s.genCtl, s.respCtl, s.outCtl, s.timer,
                s.queued, s.triggers, s.inlines, s.target, Waiting(s)>>

StaleRunIsInert ==
    [][\A r \in DOMAIN session.run :
          Stale(r) /\ RunStep(r) => Visible(session') = Visible(session)]_vars

(***************************************************************************)
(* Every accepted message is dealt with, and every scheduled instruction's *)
(* caller is answered.                                                     *)
(***************************************************************************)
MessagesAreDealtWith ==
    \A m \in Msgs : m \in Range(arrived) ~> m \in handled \cup dropped

TriggersSettle == \A t \in Triggers : t \in dispatched ~> t \in settled

(***************************************************************************)
(* The session promises what ResponseTurns says: numbered responses, one   *)
(* at a time, each with one live generation, each closed in the end.       *)
(***************************************************************************)
Turns == INSTANCE ResponseTurns WITH
    slot   <- IF IsResponding(session) THEN session.responseEpoch ELSE 0,
    issued <- session.responseEpoch,
    live   <- {r \in DOMAIN session.run :
                 session.run[r].stage \in {"prep", "exec"} /\ ~session.run[r].genAb}

OneTurnAtATime == Turns!Spec
TurnsEnd == Turns!FairSpec
=============================================================================
