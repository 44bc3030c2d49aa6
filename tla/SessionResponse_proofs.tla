----------------------- MODULE SessionResponse_proofs -----------------------
(***************************************************************************)
(* Theorems about SessionResponse, for every set of messages, users,       *)
(* scheduled instructions and events, and for every mode and bound.        *)
(* Before them, type correctness of the operations of SessionState: each   *)
(* maps a well-typed session to a well-typed session.                      *)
(***************************************************************************)
EXTENDS SessionResponse, TLAPS

-----------------------------------------------------------------------------
(* The types of the single fields *)

LEMMA FieldTypes ==
    ASSUME NEW s, TypedSession(s)
    PROVE  /\ s \in Session
           /\ s.phase \in Phases
           /\ s.responseEpoch \in Nat /\ s.mutationEpoch \in Nat /\ s.waits \in Nat
           /\ s.genCtl \in 0 .. Len(s.run) /\ s.respCtl \in 0 .. Len(s.run)
           /\ s.outCtl \in OutboundStates
           /\ s.pending \in Seq(Msgs) /\ s.steer \in Seq(Msgs)
           /\ s.queued \in Seq(Seq(Msgs))
           /\ s.target \in Users \cup {NoUser}
           /\ s.timer \in BOOLEAN
           /\ s.triggers \in Seq(Triggers) /\ s.inlines \in Seq(Events)
           /\ s.run \in Seq(Run)
           /\ Len(s.run) \in Nat
           /\ DOMAIN s.run = 1 .. Len(s.run)
           /\ \A r \in DOMAIN s.run : s.run[r] \in Run
  BY DEF TypedSession, Session, Controller

LEMMA PhaseNames ==
    /\ "idle" \in Phases /\ "debouncing" \in Phases /\ "waiting" \in Phases
    /\ "delivering" \in Phases /\ "planning" \in Phases
    /\ "requesting" \in Phases /\ "generating" \in Phases
    /\ "none" \in OutboundStates /\ "live" \in OutboundStates
    /\ "aborted" \in OutboundStates
  BY DEF Phases, GeneratingPhases, OutboundStates

LEMMA ReplaceRun ==
    ASSUME NEW q \in Seq(Run), NEW i \in DOMAIN q, NEW x \in Run
    PROVE  /\ [q EXCEPT ![i] = x] \in Seq(Run)
           /\ Len([q EXCEPT ![i] = x]) = Len(q)
           /\ DOMAIN [q EXCEPT ![i] = x] = DOMAIN q
  OBVIOUS

-----------------------------------------------------------------------------
(* Beginning, finishing, cancelling and completing *)

LEMMA FunctionIsSeq ==
    ASSUME NEW S, NEW n \in Nat, NEW f \in [1 .. n -> S]
    PROVE  f \in Seq(S)
  OBVIOUS

LEMMA CreateType == TypedSession(CreateSessionState)
  BY PhaseNames DEF TypedSession, Session, CreateSessionState, Controller

LEMMA StartRunType ==
    ASSUME NEW s, TypedSession(s), NEW kind \in RunKinds, NEW input \in Seq(Msgs),
           NEW trigger \in Triggers \cup {NoTrigger}, NEW events \in Seq(Events)
    PROVE  /\ TypedSession(StartRun(s, kind, input, trigger, events))
           /\ Len(StartRun(s, kind, input, trigger, events).run) = Len(s.run) + 1
  <1> DEFINE x == [kind |-> kind, stage |-> "prep",
                   repoch |-> s.responseEpoch + 1, mepoch |-> s.mutationEpoch,
                   genAb |-> FALSE, respAb |-> FALSE, fin |-> FALSE,
                   waits |-> s.waits, input |-> input,
                   trigger |-> trigger, events |-> events]
             n == Len(s.run) + 1
             q == Append(s.run, x)
  <1>1. x \in Run
    BY FieldTypes DEF Run, RunStages
  <1>2. q \in Seq(Run) /\ Len(q) = n /\ n \in Controller /\ s.responseEpoch + 1 \in Nat
    BY <1>1, FieldTypes DEF Controller
  <1>3. StartRun(s, kind, input, trigger, events) =
          [s EXCEPT !.responseEpoch = s.responseEpoch + 1, !.genCtl = n,
                    !.respCtl = n, !.outCtl = "live", !.run = q]
    BY DEF StartRun
  <1>4. s \in Session /\ "live" \in OutboundStates
    BY FieldTypes, PhaseNames
  <1> HIDE DEF n, q
  <1>5. StartRun(s, kind, input, trigger, events) \in Session
    BY <1>2, <1>3, <1>4 DEF Session
  <1>6. /\ StartRun(s, kind, input, trigger, events).run = q
        /\ StartRun(s, kind, input, trigger, events).genCtl = n
        /\ StartRun(s, kind, input, trigger, events).respCtl = n
    BY <1>3, <1>4 DEF Session
  <1>7. n \in Nat /\ n = Len(s.run) + 1
    BY <1>2 DEF Controller, n
  <1> QED
    BY <1>2, <1>5, <1>6, <1>7 DEF TypedSession

LEMMA BeginGenerationType ==
    ASSUME NEW s, TypedSession(s)
    PROVE  /\ TypedSession(BeginGeneration(s))
           /\ Len(BeginGeneration(s).run) = Len(s.run) + 1
  <1> DEFINE t == StartRun(s, "chat", s.pending, NoTrigger, <<>>)
             user == IF s.pending = <<>> THEN NoUser ELSE Sender[Head(s.pending)]
             none == <<>>
  <1>1. s.pending \in Seq(Msgs) /\ "chat" \in RunKinds /\ <<>> \in Seq(Events)
    BY FieldTypes DEF RunKinds
  <1>2. TypedSession(t) /\ Len(t.run) = Len(s.run) + 1
    BY <1>1, StartRunType
  <1>3. user \in Users \cup {NoUser}
    BY <1>1, SenderAssumption
  <1>4. BeginGeneration(s) = [t EXCEPT !.pending = none, !.waits = 0, !.target = user,
                                       !.phase = "planning"]
    BY DEF BeginGeneration
  <1>5. t \in Session /\ none \in Seq(Msgs) /\ "planning" \in Phases
    BY <1>2, FieldTypes, PhaseNames
  <1> HIDE DEF t, user, none
  <1>6. [t EXCEPT !.pending = none, !.waits = 0, !.target = user, !.phase = "planning"]
          \in Session
    BY <1>3, <1>5 DEF Session
  <1>7. /\ BeginGeneration(s).run = t.run
        /\ BeginGeneration(s).genCtl = t.genCtl
        /\ BeginGeneration(s).respCtl = t.respCtl
    BY <1>4, <1>5 DEF Session
  <1> QED
    BY <1>2, <1>4, <1>6, <1>7 DEF TypedSession

LEMMA BeginSyntheticType ==
    ASSUME NEW s, TypedSession(s), NEW kind \in RunKinds,
           NEW trigger \in Triggers \cup {NoTrigger}, NEW events \in Seq(Events)
    PROVE  /\ TypedSession(BeginSyntheticGeneration(s, kind, trigger, events))
           /\ Len(BeginSyntheticGeneration(s, kind, trigger, events).run) = Len(s.run) + 1
  <1> DEFINE t == StartRun(s, kind, <<>>, trigger, events)
             b == BeginSyntheticGeneration(s, kind, trigger, events)
  <1>1. <<>> \in Seq(Msgs)
    OBVIOUS
  <1>2. TypedSession(t) /\ Len(t.run) = Len(s.run) + 1
    BY <1>1, StartRunType
  <1>3. b = [t EXCEPT !.target = NoUser, !.phase = "requesting"]
    BY DEF BeginSyntheticGeneration
  <1>4. t \in Session /\ "requesting" \in Phases
    BY <1>2, FieldTypes, PhaseNames
  <1> HIDE DEF t, b
  <1>5. b \in Session
    BY <1>3, <1>4 DEF Session
  <1>6. b.run = t.run /\ b.genCtl = t.genCtl /\ b.respCtl = t.respCtl
    BY <1>3, <1>4 DEF Session
  <1>7. TypedSession(b) /\ Len(b.run) = Len(s.run) + 1
    BY <1>2, <1>5, <1>6 DEF TypedSession
  <1> QED
    BY <1>7 DEF b

LEMMA FinishGenerationType ==
    ASSUME NEW s, TypedSession(s), NEW r
    PROVE  TypedSession(FinishGeneration(s, r)) /\ FinishGeneration(s, r).run = s.run
  <1>1. s \in Session /\ "delivering" \in Phases /\ 0 \in Controller
    BY FieldTypes, PhaseNames DEF Controller
  <1>2. FinishGeneration(s, r) \in Session
    BY <1>1 DEF Session, FinishGeneration
  <1>3. /\ FinishGeneration(s, r).run = s.run
        /\ FinishGeneration(s, r).genCtl \in {0, s.genCtl}
        /\ FinishGeneration(s, r).respCtl = s.respCtl
    BY <1>1 DEF Session, FinishGeneration
  <1> QED
    BY <1>2, <1>3, FieldTypes DEF TypedSession

LEMMA CompleteResponseType ==
    ASSUME NEW s, TypedSession(s), NEW epoch
    PROVE  TypedSession(CompleteResponse(s, epoch)) /\ CompleteResponse(s, epoch).run = s.run
  <1>1. s \in Session /\ "idle" \in Phases /\ 0 \in Controller /\ "none" \in OutboundStates
    BY FieldTypes, PhaseNames DEF Controller
  <1>2. CompleteResponse(s, epoch) \in Session
    BY <1>1 DEF Session, CompleteResponse
  <1>3. /\ CompleteResponse(s, epoch).run = s.run
        /\ CompleteResponse(s, epoch).genCtl = s.genCtl
        /\ CompleteResponse(s, epoch).respCtl \in {0, s.respCtl}
    BY <1>1 DEF Session, CompleteResponse
  <1> QED
    BY <1>2, <1>3, FieldTypes DEF TypedSession

-----------------------------------------------------------------------------
(* Runs: one of them is replaced *)

WithRun(s, r, x) == [s EXCEPT !.run[r] = x]

LEMMA WithRunType ==
    ASSUME NEW s, TypedSession(s), NEW r \in DOMAIN s.run, NEW x \in Run
    PROVE  /\ TypedSession(WithRun(s, r, x))
           /\ WithRun(s, r, x).run = [s.run EXCEPT ![r] = x]
           /\ Len(WithRun(s, r, x).run) = Len(s.run)
  <1> DEFINE q == [s.run EXCEPT ![r] = x]
  <1>1. s \in Session /\ s.run \in Seq(Run)
    BY FieldTypes
  <1>2. q \in Seq(Run) /\ Len(q) = Len(s.run)
    BY <1>1, ReplaceRun
  <1>3. WithRun(s, r, x) = [s EXCEPT !.run = q]
    BY DEF WithRun
  <1> HIDE DEF q
  <1>4. [s EXCEPT !.run = q] \in Session
    BY <1>1, <1>2 DEF Session
  <1>5. /\ WithRun(s, r, x).run = q
        /\ WithRun(s, r, x).genCtl = s.genCtl
        /\ WithRun(s, r, x).respCtl = s.respCtl
    BY <1>1, <1>3 DEF Session
  <1>6. TypedSession(WithRun(s, r, x))
    BY <1>2, <1>3, <1>4, <1>5 DEF TypedSession
  <1> QED
    BY <1>2, <1>5, <1>6 DEF q

LEMMA CancelGenerationType ==
    ASSUME NEW s, TypedSession(s)
    PROVE  /\ TypedSession(CancelGeneration(s))
           /\ Len(CancelGeneration(s).run) = Len(s.run)
  <1>1. CASE IsGenerating(s) /\ s.genCtl # 0
    <2> DEFINE x == [s.run[s.genCtl] EXCEPT !.genAb = TRUE]
               t == WithRun(s, s.genCtl, x)
    <2>1. s.genCtl \in DOMAIN s.run /\ s.run[s.genCtl] \in Run
      BY <1>1, FieldTypes
    <2>2. x \in Run
      BY <2>1 DEF Run
    <2>3. TypedSession(t) /\ Len(t.run) = Len(s.run)
      BY <2>1, <2>2, WithRunType
    <2>4. t \in Session /\ "delivering" \in Phases /\ 0 \in Controller
      BY <2>3, FieldTypes, PhaseNames DEF Controller
    <2>5. CancelGeneration(s) = [t EXCEPT !.phase = "delivering", !.genCtl = 0]
      BY <1>1, FieldTypes DEF CancelGeneration, WithRun, Session
    <2> HIDE DEF t
    <2>6. [t EXCEPT !.phase = "delivering", !.genCtl = 0] \in Session
      BY <2>4 DEF Session
    <2>7. /\ CancelGeneration(s).run = t.run
          /\ CancelGeneration(s).genCtl = 0
          /\ CancelGeneration(s).respCtl = t.respCtl
      BY <2>4, <2>5 DEF Session
    <2> QED
      BY <2>3, <2>5, <2>6, <2>7, FieldTypes DEF TypedSession
  <1>2. CASE ~(IsGenerating(s) /\ s.genCtl # 0)
    BY <1>2 DEF CancelGeneration
  <1> QED
    BY <1>1, <1>2

LEMMA AbortResponseType ==
    ASSUME NEW s, TypedSession(s)
    PROVE  TypedSession(AbortResponse(s)) /\ Len(AbortResponse(s).run) = Len(s.run)
  <1>1. CASE s.respCtl # 0
    <2> DEFINE x == [s.run[s.respCtl] EXCEPT !.respAb = TRUE]
    <2>1. s.respCtl \in DOMAIN s.run /\ s.run[s.respCtl] \in Run
      BY <1>1, FieldTypes
    <2>2. x \in Run
      BY <2>1 DEF Run
    <2>3. AbortResponse(s) = WithRun(s, s.respCtl, x)
      BY <1>1, FieldTypes DEF AbortResponse, WithRun, Session
    <2> HIDE DEF x
    <2>4. /\ TypedSession(WithRun(s, s.respCtl, x))
          /\ Len(WithRun(s, s.respCtl, x).run) = Len(s.run)
      BY <2>1, <2>2, WithRunType
    <2> QED
      BY <2>3, <2>4
  <1>2. CASE s.respCtl = 0
    BY <1>2 DEF AbortResponse
  <1> QED
    BY <1>1, <1>2

LEMMA EndRunType ==
    ASSUME NEW s, TypedSession(s), NEW r \in DOMAIN s.run
    PROVE  TypedSession(EndRun(s, r)) /\ Len(EndRun(s, r).run) = Len(s.run)
  <1>1. s.run[r] \in Run
    BY FieldTypes
  <1>2. <<>> \in Seq(Msgs) /\ <<>> \in Seq(Events) /\ "done" \in RunStages
    BY DEF RunStages
  <1>3. Released(s.run[r]) \in Run
    BY <1>1, <1>2 DEF Run, Released
  <1> DEFINE x == Released(s.run[r])
  <1>4. EndRun(s, r) = WithRun(s, r, x)
    BY DEF EndRun, WithRun
  <1> HIDE DEF x
  <1>5. TypedSession(WithRun(s, r, x)) /\ Len(WithRun(s, r, x).run) = Len(s.run)
    BY <1>3, WithRunType DEF x
  <1> QED
    BY <1>4, <1>5

-----------------------------------------------------------------------------
(* The queues *)

LEMMA AppendPendingType ==
    ASSUME NEW s, TypedSession(s), NEW m \in Msgs
    PROVE  TypedSession(AppendPending(s, m)) /\ AppendPending(s, m).run = s.run
  <1> DEFINE q == Append(s.pending, m)
  <1>1. s \in Session /\ q \in Seq(Msgs)
    BY FieldTypes
  <1>2. AppendPending(s, m) = [s EXCEPT !.pending = q, !.waits = 0]
    BY DEF AppendPending
  <1> HIDE DEF q
  <1>3. [s EXCEPT !.pending = q, !.waits = 0] \in Session
    BY <1>1 DEF Session
  <1>4. /\ AppendPending(s, m).run = s.run
        /\ AppendPending(s, m).genCtl = s.genCtl
        /\ AppendPending(s, m).respCtl = s.respCtl
    BY <1>1, <1>2 DEF Session
  <1> QED
    BY <1>2, <1>3, <1>4 DEF TypedSession

LEMMA AppendSteerType ==
    ASSUME NEW s, TypedSession(s), NEW m \in Msgs
    PROVE  TypedSession(AppendSteer(s, m)) /\ AppendSteer(s, m).run = s.run
  <1> DEFINE q == Append(s.steer, m)
  <1>1. s \in Session /\ q \in Seq(Msgs)
    BY FieldTypes
  <1>2. AppendSteer(s, m) = [s EXCEPT !.steer = q]
    BY DEF AppendSteer
  <1> HIDE DEF q
  <1>3. AppendSteer(s, m) \in Session
    BY <1>1, <1>2 DEF Session
  <1>4. /\ AppendSteer(s, m).run = s.run
        /\ AppendSteer(s, m).genCtl = s.genCtl
        /\ AppendSteer(s, m).respCtl = s.respCtl
    BY <1>1, <1>2 DEF Session
  <1> QED
    BY <1>3, <1>4 DEF TypedSession

LEMMA PromoteSteerType ==
    ASSUME NEW s, TypedSession(s)
    PROVE  TypedSession(PromoteSteer(s)) /\ PromoteSteer(s).run = s.run
  <1> DEFINE q == s.steer \o s.pending
             none == <<>>
  <1>1. s \in Session /\ q \in Seq(Msgs) /\ none \in Seq(Msgs)
    BY FieldTypes
  <1>2. CASE s.steer # <<>>
    <2>1. PromoteSteer(s) = [s EXCEPT !.pending = q, !.steer = none, !.waits = 0]
      BY <1>2 DEF PromoteSteer
    <2> HIDE DEF q, none
    <2>2. [s EXCEPT !.pending = q, !.steer = none, !.waits = 0] \in Session
      BY <1>1 DEF Session
    <2>3. /\ PromoteSteer(s).run = s.run
          /\ PromoteSteer(s).genCtl = s.genCtl
          /\ PromoteSteer(s).respCtl = s.respCtl
      BY <1>1, <2>1 DEF Session
    <2> QED
      BY <2>1, <2>2, <2>3 DEF TypedSession
  <1>3. CASE s.steer = <<>>
    BY <1>3 DEF PromoteSteer
  <1> QED
    BY <1>2, <1>3

LEMMA ConsumeSteerType ==
    ASSUME NEW s, TypedSession(s), NEW r \in DOMAIN s.run
    PROVE  TypedSession(ConsumeSteer(s, r)) /\ Len(ConsumeSteer(s, r).run) = Len(s.run)
  <1> DEFINE q == s.run[r].input \o s.steer
             x == [s.run[r] EXCEPT !.input = q]
             t == WithRun(s, r, x)
             none == <<>>
             out == IF s.outCtl = "aborted" THEN "live" ELSE s.outCtl
  <1>1. s \in Session /\ s.run[r] \in Run /\ s.steer \in Seq(Msgs)
        /\ none \in Seq(Msgs) /\ out \in OutboundStates
    BY FieldTypes, PhaseNames
  <1>2. q \in Seq(Msgs)
    BY <1>1 DEF Run
  <1>3. x \in Run
    <2> HIDE DEF q
    <2> QED
      BY <1>1, <1>2 DEF Run
  <1>4. TypedSession(t) /\ Len(t.run) = Len(s.run)
    <2> HIDE DEF x
    <2> QED
      BY <1>3, WithRunType
  <1>5. ConsumeSteer(s, r) = [t EXCEPT !.steer = none, !.outCtl = out]
    BY <1>1 DEF ConsumeSteer, WithRun, Session
  <1>6. t \in Session
    BY <1>4, FieldTypes
  <1> HIDE DEF t, none, out
  <1>7. ConsumeSteer(s, r) \in Session
    BY <1>1, <1>5, <1>6 DEF Session
  <1>8. /\ ConsumeSteer(s, r).run = t.run
        /\ ConsumeSteer(s, r).genCtl = t.genCtl
        /\ ConsumeSteer(s, r).respCtl = t.respCtl
    BY <1>5, <1>6 DEF Session
  <1> QED
    BY <1>4, <1>7, <1>8 DEF TypedSession

LEMMA DrainInlinesType ==
    ASSUME NEW s, TypedSession(s), NEW r \in DOMAIN s.run
    PROVE  TypedSession(DrainInlines(s, r)) /\ Len(DrainInlines(s, r).run) = Len(s.run)
  <1> DEFINE q == s.run[r].events \o s.inlines
             x == [s.run[r] EXCEPT !.events = q]
             t == WithRun(s, r, x)
             none == <<>>
  <1>1. s \in Session /\ s.run[r] \in Run /\ s.inlines \in Seq(Events)
        /\ none \in Seq(Events)
    BY FieldTypes
  <1>2. q \in Seq(Events)
    BY <1>1 DEF Run
  <1>3. x \in Run
    <2> HIDE DEF q
    <2> QED
      BY <1>1, <1>2 DEF Run
  <1>4. TypedSession(t) /\ Len(t.run) = Len(s.run)
    <2> HIDE DEF x
    <2> QED
      BY <1>3, WithRunType
  <1>5. DrainInlines(s, r) = [t EXCEPT !.inlines = none]
    BY <1>1 DEF DrainInlines, WithRun, Session
  <1>6. t \in Session
    BY <1>4, FieldTypes
  <1> HIDE DEF t, none
  <1>7. DrainInlines(s, r) \in Session
    BY <1>1, <1>5, <1>6 DEF Session
  <1>8. /\ DrainInlines(s, r).run = t.run
        /\ DrainInlines(s, r).genCtl = t.genCtl
        /\ DrainInlines(s, r).respCtl = t.respCtl
    BY <1>5, <1>6 DEF Session
  <1> QED
    BY <1>4, <1>7, <1>8 DEF TypedSession

LEMMA EnqueueType ==
    ASSUME NEW s, TypedSession(s), NEW m \in Msgs
    PROVE  /\ TypedSession(EnqueueGroupReplyTarget(s, m))
           /\ EnqueueGroupReplyTarget(s, m).run = s.run
  <1> DEFINE joined == [i \in DOMAIN s.queued |->
                           IF Sender[Head(s.queued[i])] = Sender[m]
                           THEN Append(s.queued[i], m) ELSE s.queued[i]]
             longer == Append(s.queued, <<m>>)
  <1>1. s \in Session /\ s.queued \in Seq(Seq(Msgs))
    BY FieldTypes
  <1>2. longer \in Seq(Seq(Msgs))
    <2>1. <<m>> \in Seq(Msgs)
      OBVIOUS
    <2> QED
      BY <1>1, <2>1
  <1>3. joined \in Seq(Seq(Msgs))
    <2>1. \A i \in DOMAIN s.queued : joined[i] \in Seq(Msgs)
      <3> TAKE i \in DOMAIN s.queued
      <3>1. s.queued[i] \in Seq(Msgs)
        BY <1>1
      <3>2. Append(s.queued[i], m) \in Seq(Msgs)
        BY <3>1
      <3> QED
        BY <3>1, <3>2
    <2>2. DOMAIN s.queued = 1 .. Len(s.queued) /\ Len(s.queued) \in Nat
      BY <1>1
    <2>3. joined = [i \in 1 .. Len(s.queued) |-> joined[i]]
      BY <2>2
    <2> HIDE DEF joined
    <2>4. joined \in [1 .. Len(s.queued) -> Seq(Msgs)]
      BY <2>1, <2>2, <2>3
    <2> QED
      BY <2>2, <2>4, FunctionIsSeq
  <1>4. \E q \in Seq(Seq(Msgs)) :
          EnqueueGroupReplyTarget(s, m) = [s EXCEPT !.queued = q]
    <2>1. EnqueueGroupReplyTarget(s, m) \in
            {[s EXCEPT !.queued = joined], [s EXCEPT !.queued = longer]}
      BY DEF EnqueueGroupReplyTarget
    <2> HIDE DEF joined, longer
    <2> QED
      BY <1>2, <1>3, <2>1
  <1> HIDE DEF joined, longer
  <1>5. PICK q \in Seq(Seq(Msgs)) : EnqueueGroupReplyTarget(s, m) = [s EXCEPT !.queued = q]
    BY <1>4
  <1>6. [s EXCEPT !.queued = q] \in Session
    BY <1>1, <1>5 DEF Session
  <1>7. /\ EnqueueGroupReplyTarget(s, m).run = s.run
        /\ EnqueueGroupReplyTarget(s, m).genCtl = s.genCtl
        /\ EnqueueGroupReplyTarget(s, m).respCtl = s.respCtl
    BY <1>1, <1>5 DEF Session
  <1> QED
    BY <1>5, <1>6, <1>7 DEF TypedSession

LEMMA PromoteNextType ==
    ASSUME NEW s, TypedSession(s)
    PROVE  TypedSession(PromoteNextTarget(s)) /\ PromoteNextTarget(s).run = s.run
  <1>1. CASE s.queued # <<>>
    <2> DEFINE q == Head(s.queued) \o s.pending
               rest == Tail(s.queued)
    <2>1. s \in Session /\ s.queued \in Seq(Seq(Msgs)) /\ s.pending \in Seq(Msgs)
      BY FieldTypes
    <2>2. Head(s.queued) \in Seq(Msgs) /\ rest \in Seq(Seq(Msgs))
      BY <1>1, <2>1
    <2>3. q \in Seq(Msgs)
      BY <2>1, <2>2
    <2>4. PromoteNextTarget(s) = [s EXCEPT !.pending = q, !.queued = rest, !.waits = 0]
      BY <1>1 DEF PromoteNextTarget
    <2> HIDE DEF q, rest
    <2>5. [s EXCEPT !.pending = q, !.queued = rest, !.waits = 0] \in Session
      BY <2>1, <2>2, <2>3 DEF Session
    <2>6. /\ PromoteNextTarget(s).run = s.run
          /\ PromoteNextTarget(s).genCtl = s.genCtl
          /\ PromoteNextTarget(s).respCtl = s.respCtl
      BY <2>1, <2>4 DEF Session
    <2> QED
      BY <2>4, <2>5, <2>6 DEF TypedSession
  <1>2. CASE s.queued = <<>>
    BY <1>2 DEF PromoteNextTarget
  <1> QED
    BY <1>1, <1>2

LEMMA RequeueType ==
    ASSUME NEW s, TypedSession(s), NEW batch \in Seq(Msgs), NEW passes \in Nat
    PROVE  /\ TypedSession(RequeuePending(s, batch, passes))
           /\ RequeuePending(s, batch, passes).run = s.run
  <1> DEFINE q == batch \o s.pending
             w == IF s.waits >= passes THEN s.waits ELSE passes
             p == IF s.phase \in {"planning", "requesting", "idle"}
                  THEN "waiting" ELSE s.phase
  <1>1. s \in Session /\ q \in Seq(Msgs) /\ w \in Nat /\ p \in Phases
    BY FieldTypes, PhaseNames
  <1>2. RequeuePending(s, batch, passes) = [s EXCEPT !.pending = q, !.waits = w, !.phase = p]
    BY DEF RequeuePending
  <1> HIDE DEF q, w, p
  <1>3. [s EXCEPT !.pending = q, !.waits = w, !.phase = p] \in Session
    BY <1>1 DEF Session
  <1>4. /\ RequeuePending(s, batch, passes).run = s.run
        /\ RequeuePending(s, batch, passes).genCtl = s.genCtl
        /\ RequeuePending(s, batch, passes).respCtl = s.respCtl
    BY <1>1, <1>2 DEF Session
  <1> QED
    BY <1>2, <1>3, <1>4 DEF TypedSession

-----------------------------------------------------------------------------
(* Interruption, the timer and the commands *)

LEMMA InterruptOutboundType ==
    ASSUME NEW s, TypedSession(s)
    PROVE  TypedSession(InterruptOutbound(s)) /\ InterruptOutbound(s).run = s.run
  <1>1. s \in Session /\ "aborted" \in OutboundStates
    BY FieldTypes, PhaseNames
  <1>2. InterruptOutbound(s) \in Session
    BY <1>1 DEF Session, InterruptOutbound
  <1>3. /\ InterruptOutbound(s).run = s.run
        /\ InterruptOutbound(s).genCtl = s.genCtl
        /\ InterruptOutbound(s).respCtl = s.respCtl
    BY <1>1 DEF Session, InterruptOutbound
  <1> QED
    BY <1>2, <1>3 DEF TypedSession

LEMMA ClearTimerType ==
    ASSUME NEW s, TypedSession(s)
    PROVE  TypedSession(ClearTimer(s)) /\ ClearTimer(s).run = s.run
  <1>1. s \in Session /\ "idle" \in Phases
    BY FieldTypes, PhaseNames
  <1>2. ClearTimer(s) \in Session
    BY <1>1 DEF Session, ClearTimer
  <1>3. /\ ClearTimer(s).run = s.run
        /\ ClearTimer(s).genCtl = s.genCtl
        /\ ClearTimer(s).respCtl = s.respCtl
    BY <1>1 DEF Session, ClearTimer
  <1> QED
    BY <1>2, <1>3 DEF TypedSession

LEMMA ScheduleType ==
    ASSUME NEW s, TypedSession(s)
    PROVE  TypedSession(Schedule(s)) /\ Schedule(s).run = s.run
  <1> DEFINE c == ClearTimer(s)
             p == IF c.phase \in {"idle", "waiting"} THEN "debouncing" ELSE c.phase
  <1>1. TypedSession(c) /\ c.run = s.run
    BY ClearTimerType
  <1>2. Schedule(s) = [c EXCEPT !.timer = TRUE, !.phase = p]
    BY DEF Schedule
  <1> HIDE DEF c
  <1>3. c \in Session /\ p \in Phases
    BY <1>1, FieldTypes, PhaseNames
  <1> HIDE DEF p
  <1>4. [c EXCEPT !.timer = TRUE, !.phase = p] \in Session
    BY <1>3 DEF Session
  <1>5. Schedule(s).run = c.run /\ Schedule(s).genCtl = c.genCtl
        /\ Schedule(s).respCtl = c.respCtl
    BY <1>2, <1>3 DEF Session
  <1> QED
    BY <1>1, <1>2, <1>4, <1>5 DEF TypedSession

LEMMA InterruptResponseType ==
    ASSUME NEW s, TypedSession(s)
    PROVE  /\ TypedSession(InterruptResponse(s))
           /\ Len(InterruptResponse(s).run) = Len(s.run)
  <1> DEFINE p == PromoteSteer(s)
             c == CancelGeneration(p)
             a == AbortResponse(c)
             e == s.mutationEpoch + 1
  <1>1. TypedSession(p) /\ Len(p.run) = Len(s.run)
    BY PromoteSteerType
  <1>2. TypedSession(c) /\ Len(c.run) = Len(s.run)
    <2> HIDE DEF p
    <2> QED
      BY <1>1, CancelGenerationType
  <1>3. TypedSession(a) /\ Len(a.run) = Len(s.run)
    <2> HIDE DEF c
    <2> QED
      BY <1>2, AbortResponseType
  <1>4. InterruptResponse(s) =
          [a EXCEPT !.mutationEpoch = e, !.phase = "idle", !.target = NoUser]
    BY DEF InterruptResponse
  <1> HIDE DEF a
  <1>5. a \in Session /\ "idle" \in Phases /\ e \in Nat
    BY <1>3, FieldTypes, PhaseNames
  <1> HIDE DEF e
  <1>6. [a EXCEPT !.mutationEpoch = e, !.phase = "idle", !.target = NoUser] \in Session
    BY <1>5 DEF Session
  <1>7. /\ InterruptResponse(s).run = a.run
        /\ InterruptResponse(s).genCtl = a.genCtl
        /\ InterruptResponse(s).respCtl = a.respCtl
    BY <1>4, <1>5 DEF Session
  <1> QED
    BY <1>3, <1>4, <1>6, <1>7 DEF TypedSession

LEMMA AbortAllType ==
    ASSUME NEW s, TypedSession(s)
    PROVE  /\ TypedSession(AbortAllControllers(s))
           /\ Len(AbortAllControllers(s).run) = Len(s.run)
  <1> DEFINE g == IF s.genCtl # 0 THEN [s EXCEPT !.run[s.genCtl].genAb = TRUE] ELSE s
  <1>1. TypedSession(g) /\ Len(g.run) = Len(s.run)
    <2>1. CASE s.genCtl # 0
      <3> DEFINE x == [s.run[s.genCtl] EXCEPT !.genAb = TRUE]
      <3>1. s.genCtl \in DOMAIN s.run /\ s.run[s.genCtl] \in Run
        BY <2>1, FieldTypes
      <3>2. x \in Run
        BY <3>1 DEF Run
      <3>3. g = WithRun(s, s.genCtl, x)
        BY <2>1, FieldTypes DEF WithRun, Session
      <3> HIDE DEF x, g
      <3>4. /\ TypedSession(WithRun(s, s.genCtl, x))
            /\ Len(WithRun(s, s.genCtl, x).run) = Len(s.run)
        BY <3>1, <3>2, WithRunType
      <3> QED
        BY <3>3, <3>4
    <2>2. CASE s.genCtl = 0
      BY <2>2
    <2> QED
      BY <2>1, <2>2
  <1>2. AbortAllControllers(s) = AbortResponse(g)
    BY DEF AbortAllControllers
  <1> HIDE DEF g
  <1> QED
    BY <1>1, <1>2, AbortResponseType

LEMMA ClearSessionType ==
    ASSUME NEW s, TypedSession(s)
    PROVE  TypedSession(ClearSession(s)) /\ Len(ClearSession(s).run) = Len(s.run)
  <1> DEFINE c == ClearTimer(s)
             a == AbortAllControllers(c)
             e == s.mutationEpoch + 1
             none == <<>>
  <1>1. TypedSession(c) /\ Len(c.run) = Len(s.run)
    BY ClearTimerType
  <1>2. TypedSession(a) /\ Len(a.run) = Len(s.run)
    <2> HIDE DEF c
    <2> QED
      BY <1>1, AbortAllType
  <1>3. ClearSession(s) =
          [a EXCEPT !.mutationEpoch = e, !.pending = none, !.steer = none,
                    !.queued = none, !.waits = 0, !.target = NoUser,
                    !.triggers = none, !.inlines = none, !.phase = "idle",
                    !.genCtl = 0, !.respCtl = 0, !.outCtl = "none"]
    BY DEF ClearSession
  <1>4. /\ none \in Seq(Msgs) /\ none \in Seq(Seq(Msgs)) /\ none \in Seq(Triggers)
        /\ none \in Seq(Events) /\ e \in Nat
        /\ "idle" \in Phases /\ "none" \in OutboundStates /\ 0 \in Controller
    BY FieldTypes, PhaseNames DEF Controller
  <1> HIDE DEF a, e, none
  <1>5. a \in Session
    BY <1>2, FieldTypes
  <1>6. [a EXCEPT !.mutationEpoch = e, !.pending = none, !.steer = none,
                  !.queued = none, !.waits = 0, !.target = NoUser,
                  !.triggers = none, !.inlines = none, !.phase = "idle",
                  !.genCtl = 0, !.respCtl = 0, !.outCtl = "none"] \in Session
    BY <1>4, <1>5 DEF Session
  <1>7. /\ ClearSession(s).run = a.run
        /\ ClearSession(s).genCtl = 0
        /\ ClearSession(s).respCtl = 0
    BY <1>3, <1>5 DEF Session
  <1> QED
    BY <1>2, <1>3, <1>6, <1>7, FieldTypes DEF TypedSession

LEMMA FinishProfileType ==
    ASSUME NEW s, TypedSession(s)
    PROVE  /\ TypedSession(FinishProfileOperation(s))
           /\ FinishProfileOperation(s).run = s.run
  <1> DEFINE e == s.mutationEpoch + 1
             none == <<>>
  <1>1. FinishProfileOperation(s) =
          [s EXCEPT !.mutationEpoch = e, !.pending = none, !.steer = none,
                    !.queued = none, !.waits = 0, !.target = NoUser,
                    !.triggers = none, !.inlines = none, !.phase = "idle"]
    BY DEF FinishProfileOperation
  <1>2. /\ none \in Seq(Msgs) /\ none \in Seq(Seq(Msgs)) /\ none \in Seq(Triggers)
        /\ none \in Seq(Events) /\ e \in Nat /\ "idle" \in Phases /\ s \in Session
    BY FieldTypes, PhaseNames
  <1> HIDE DEF e, none
  <1>3. [s EXCEPT !.mutationEpoch = e, !.pending = none, !.steer = none,
                  !.queued = none, !.waits = 0, !.target = NoUser,
                  !.triggers = none, !.inlines = none, !.phase = "idle"] \in Session
    BY <1>2 DEF Session
  <1>4. /\ FinishProfileOperation(s).run = s.run
        /\ FinishProfileOperation(s).genCtl = s.genCtl
        /\ FinishProfileOperation(s).respCtl = s.respCtl
    BY <1>1, <1>2 DEF Session
  <1> QED
    BY <1>1, <1>3, <1>4 DEF TypedSession

-----------------------------------------------------------------------------
(* What starts the next work *)

LEMMA ProcessNextType ==
    ASSUME NEW s, TypedSession(s)
    PROVE  TypedSession(ProcessNextSessionWork(s))
  <1> DEFINE a == PromoteSteer(s)
             p == IF a.pending = <<>> THEN PromoteNextTarget(a) ELSE a
             u == [p EXCEPT !.triggers = Tail(p.triggers)]
             v == [p EXCEPT !.inlines = <<>>]
             first == Head(p.triggers)
             trigger == BeginSyntheticGeneration(u, "trigger", first, <<>>)
             inline == BeginSyntheticGeneration(v, "inline", NoTrigger, p.inlines)
  <1>1. TypedSession(a)
    BY PromoteSteerType
  <1>2. TypedSession(p)
    <2> HIDE DEF a
    <2> QED
      BY <1>1, PromoteNextType
  <1>3. ASSUME p.triggers # <<>> PROVE TypedSession(trigger)
    <2> HIDE DEF p
    <2>1. p \in Session /\ p.triggers \in Seq(Triggers)
      BY <1>2, FieldTypes
    <2>2. first \in Triggers /\ Tail(p.triggers) \in Seq(Triggers)
      BY <1>3, <2>1
    <2>3. u \in Session /\ u.run = p.run /\ u.genCtl = p.genCtl /\ u.respCtl = p.respCtl
      BY <2>1, <2>2 DEF Session
    <2>4. TypedSession(u)
      BY <1>2, <2>3 DEF TypedSession
    <2>5. "trigger" \in RunKinds /\ <<>> \in Seq(Events)
      BY DEF RunKinds
    <2> HIDE DEF u, first
    <2> QED
      BY <2>2, <2>4, <2>5, BeginSyntheticType
  <1>4. TypedSession(inline)
    <2> HIDE DEF p
    <2>1. p \in Session /\ p.inlines \in Seq(Events) /\ <<>> \in Seq(Events)
      BY <1>2, FieldTypes
    <2>2. v \in Session /\ v.run = p.run /\ v.genCtl = p.genCtl /\ v.respCtl = p.respCtl
      BY <2>1 DEF Session
    <2>3. TypedSession(v)
      BY <1>2, <2>2 DEF TypedSession
    <2>4. "inline" \in RunKinds
      BY DEF RunKinds
    <2> HIDE DEF v
    <2> QED
      BY <2>1, <2>3, <2>4, BeginSyntheticType
  <1>5. TypedSession(BeginGeneration(p))
    <2> HIDE DEF p
    <2> QED
      BY <1>2, BeginGenerationType
  <1>6. \/ ProcessNextSessionWork(s) = s
        \/ ProcessNextSessionWork(s) = p
        \/ ProcessNextSessionWork(s) = BeginGeneration(p)
        \/ p.triggers # <<>> /\ ProcessNextSessionWork(s) = trigger
        \/ ProcessNextSessionWork(s) = inline
    BY DEF ProcessNextSessionWork
  <1> HIDE DEF p, trigger, inline
  <1> QED
    BY <1>2, <1>3, <1>4, <1>5, <1>6

LEMMA CompleteAndContinueType ==
    ASSUME NEW s, TypedSession(s), NEW epoch
    PROVE  TypedSession(CompleteAndContinue(s, epoch))
  <1> DEFINE c == CompleteResponse(s, epoch)
  <1>1. TypedSession(c)
    BY CompleteResponseType
  <1>2. CompleteAndContinue(s, epoch) \in {s, ProcessNextSessionWork(c)}
    BY DEF CompleteAndContinue
  <1> HIDE DEF c
  <1> QED
    BY <1>1, <1>2, ProcessNextType

LEMMA GiveBackType ==
    ASSUME NEW s, TypedSession(s), NEW r
    PROVE  TypedSession(GiveBack(s, r))
  <1> DEFINE f == FinishGeneration(s, r)
             c == CompleteResponse(f, s.run[r].repoch)
  <1>1. TypedSession(f)
    BY FinishGenerationType
  <1>2. TypedSession(c)
    <2> HIDE DEF f
    <2> QED
      BY <1>1, CompleteResponseType
  <1>3. GiveBack(s, r) \in {s, ProcessNextSessionWork(c)}
    BY DEF GiveBack
  <1> HIDE DEF c
  <1> QED
    BY <1>2, <1>3, ProcessNextType

LEMMA FlushType ==
    ASSUME NEW s, TypedSession(s)
    PROVE  TypedSession(FlushSession(s))
  <1> DEFINE b == BeginGeneration(s)
             r == Len(b.run)
             e == EndRun(b, r)
  <1>1. TypedSession(b) /\ Len(b.run) = Len(s.run) + 1
    BY BeginGenerationType
  <1>2. r \in DOMAIN b.run
    <2> HIDE DEF b
    <2>1. Len(s.run) \in Nat /\ DOMAIN b.run = 1 .. Len(b.run)
      BY <1>1, FieldTypes
    <2> QED
      BY <1>1, <2>1
  <1>3. TypedSession(e)
    <2> HIDE DEF b, r
    <2> QED
      BY <1>1, <1>2, EndRunType
  <1>4. FlushSession(s) \in {b, GiveBack(e, r)}
    BY DEF FlushSession
  <1> HIDE DEF b, e, r
  <1> QED
    BY <1>1, <1>3, <1>4, GiveBackType

-----------------------------------------------------------------------------
(* Type correctness of the steps of a run *)

LEMMA StageType ==
    ASSUME NEW s, TypedSession(s), NEW r \in DOMAIN s.run, NEW stage \in RunStages
    PROVE  /\ TypedSession([s EXCEPT !.run[r].stage = stage])
           /\ DOMAIN ([s EXCEPT !.run[r].stage = stage].run) = DOMAIN s.run
  <1> DEFINE x == [s.run[r] EXCEPT !.stage = stage]
  <1>1. s.run[r] \in Run /\ s \in Session /\ s.run \in Seq(Run)
    BY FieldTypes
  <1>2. x \in Run
    BY <1>1 DEF Run
  <1>3. [s EXCEPT !.run[r].stage = stage] = WithRun(s, r, x)
    BY <1>1 DEF WithRun, Session
  <1> HIDE DEF x
  <1>4. TypedSession(WithRun(s, r, x)) /\ WithRun(s, r, x).run = [s.run EXCEPT ![r] = x]
    BY <1>2, WithRunType
  <1> QED
    BY <1>1, <1>3, <1>4

LEMMA FinishedType ==
    ASSUME NEW s, TypedSession(s), NEW r \in DOMAIN s.run, NEW f \in BOOLEAN
    PROVE  /\ TypedSession([s EXCEPT !.run[r].fin = f])
           /\ DOMAIN ([s EXCEPT !.run[r].fin = f].run) = DOMAIN s.run
  <1> DEFINE x == [s.run[r] EXCEPT !.fin = f]
  <1>1. s.run[r] \in Run /\ s \in Session /\ s.run \in Seq(Run)
    BY FieldTypes
  <1>2. x \in Run
    BY <1>1 DEF Run
  <1>3. [s EXCEPT !.run[r].fin = f] = WithRun(s, r, x)
    BY <1>1 DEF WithRun, Session
  <1> HIDE DEF x
  <1>4. TypedSession(WithRun(s, r, x)) /\ WithRun(s, r, x).run = [s.run EXCEPT ![r] = x]
    BY <1>2, WithRunType
  <1> QED
    BY <1>1, <1>3, <1>4

LEMMA AbortedType ==
    ASSUME NEW s, TypedSession(s), NEW r \in DOMAIN s.run
    PROVE  /\ TypedSession([s EXCEPT !.run[r].genAb = TRUE, !.run[r].respAb = TRUE])
           /\ DOMAIN ([s EXCEPT !.run[r].genAb = TRUE, !.run[r].respAb = TRUE].run) = DOMAIN s.run
  <1> DEFINE x == [s.run[r] EXCEPT !.genAb = TRUE, !.respAb = TRUE]
  <1>1. s.run[r] \in Run /\ s \in Session /\ s.run \in Seq(Run)
    BY FieldTypes
  <1>2. x \in Run
    BY <1>1 DEF Run
  <1>3. [s EXCEPT !.run[r].genAb = TRUE, !.run[r].respAb = TRUE] = WithRun(s, r, x)
    BY <1>1 DEF WithRun, Session
  <1> HIDE DEF x
  <1>4. TypedSession(WithRun(s, r, x)) /\ WithRun(s, r, x).run = [s.run EXCEPT ![r] = x]
    BY <1>2, WithRunType
  <1> QED
    BY <1>1, <1>3, <1>4

LEMMA AfterFinishType ==
    ASSUME NEW s, TypedSession(s), NEW r \in DOMAIN s.run
    PROVE  TypedSession(AfterFinish(s, r))
  <1> DEFINE stage == IF IsResponseOpen(s, s.run[r].repoch) THEN "drain" ELSE "closing"
  <1>1. stage \in RunStages
    BY DEF RunStages
  <1>2. AfterFinish(s, r) = [s EXCEPT !.run[r].stage = stage]
    BY DEF AfterFinish
  <1> HIDE DEF stage
  <1> QED
    BY <1>1, <1>2, StageType

LEMMA WaitingType ==
    ASSUME NEW s, TypedSession(s)
    PROVE  Waiting(s) \subseteq Msgs
  <1>1. s.pending \in Seq(Msgs) /\ s.steer \in Seq(Msgs) /\ s.queued \in Seq(Seq(Msgs))
    BY FieldTypes
  <1>2. Range(s.pending) \subseteq Msgs /\ Range(s.steer) \subseteq Msgs
    BY <1>1 DEF Range
  <1>3. \A i \in DOMAIN s.queued : Range(s.queued[i]) \subseteq Msgs
    <2> TAKE i \in DOMAIN s.queued
    <2>1. s.queued[i] \in Seq(Msgs)
      BY <1>1
    <2> QED
      BY <2>1 DEF Range
  <1> QED
    BY <1>2, <1>3 DEF Waiting

-----------------------------------------------------------------------------
(* Type correctness of the handlers *)

LEMMA DecideType ==
    ASSUME NEW m \in Msgs, TypeOK, Decide(m)
    PROVE  TypeOK'
  <1>1. Decisions(m) \subseteq DecisionNames
    BY DEF Decisions, GroupDecision, DecisionNames
  <1>2. PICK decision \in Decisions(m) :
          admitting' = Append(admitting, [msg |-> m, decision |-> decision])
    BY DEF Decide
  <1>3. admitting' \in Seq([msg : Msgs, decision : DecisionNames])
    BY <1>1, <1>2 DEF TypeOK
  <1> QED
    BY <1>3 DEF Decide, TypeOK

(* What the admitted message is, and what is done with it. *)
LEMMA AdmitCases ==
    ASSUME TypeOK, Admit
    PROVE  LET m == Head(admitting).msg IN
           /\ m \in Msgs
           /\ admitting' \in Seq([msg : Msgs, decision : DecisionNames])
           /\ session' \in {QueueForNextThread(m), ReplyNow(m), InterruptWith(m), SteerWith(m)}
  <1> DEFINE m == Head(admitting).msg
  <1>1. m \in Msgs
        /\ admitting' \in Seq([msg : Msgs, decision : DecisionNames])
    <2> DEFINE D == [msg : Msgs, decision : DecisionNames]
    <2>1. /\ admitting \in Seq(D) /\ admitting # <<>>
          /\ admitting' = Tail(admitting)
      BY DEF TypeOK, Admit
    <2>2. \A d \in D : d.msg \in Msgs
      OBVIOUS
    <2> HIDE DEF D
    <2>3. Head(admitting) \in D /\ admitting' \in Seq(D)
      BY <2>1
    <2> QED
      BY <2>1, <2>2, <2>3 DEF D
  <1>2. session' \in {QueueForNextThread(m), ReplyNow(m), InterruptWith(m), SteerWith(m)}
    <2> DEFINE decision == Head(admitting).decision
               soft == decision = "soft_interrupt" /\ HasActiveResponse(session)
    <2>1. PICK mode \in Modes :
            session' = CASE decision = "queue"          -> QueueForNextThread(m)
                         [] soft /\ mode = "immediate"  -> InterruptWith(m)
                         [] soft /\ mode = "after_tool" -> SteerWith(m)
                         [] decision # "queue" /\ ~soft -> ReplyNow(m)
      BY DEF Admit, m
    <2>2. mode \in {"immediate", "after_tool"}
      BY ParameterAssumption
    <2> HIDE DEF decision, soft
    <2> QED
      BY <2>1, <2>2
  <1> QED
    BY <1>1, <1>2

LEMMA AdmitType ==
    ASSUME TypeOK, Admit
    PROVE  TypeOK'
  <1> DEFINE m == Head(admitting).msg
  <1>0. /\ TypedSession(session) /\ m \in Msgs
        /\ admitting' \in Seq([msg : Msgs, decision : DecisionNames])
    BY AdmitCases DEF TypeOK
  <1>1. session' \in {QueueForNextThread(m), ReplyNow(m), InterruptWith(m), SteerWith(m)}
    BY AdmitCases
  <1> HIDE DEF m
  <1>2. TypedSession(QueueForNextThread(m))
    <2> DEFINE e == EnqueueGroupReplyTarget(session, m)
               p == PromoteNextTarget(e)
    <2>1. TypedSession(e)
      BY <1>0, EnqueueType
    <2>2. TypedSession(p)
      <3> HIDE DEF e
      <3> QED
        BY <2>1, PromoteNextType
    <2>3. QueueForNextThread(m) \in {e, Schedule(p)}
      BY DEF QueueForNextThread
    <2> HIDE DEF e, p
    <2> QED
      BY <2>1, <2>2, <2>3, ScheduleType
  <1>3. TypedSession(InterruptWith(m))
    <2> DEFINE i == InterruptResponse(session)
               p == AppendPending(i, m)
    <2>1. TypedSession(i)
      BY <1>0, InterruptResponseType
    <2>2. TypedSession(p)
      <3> HIDE DEF i
      <3> QED
        BY <1>0, <2>1, AppendPendingType
    <2>3. InterruptWith(m) = Schedule(p)
      BY DEF InterruptWith
    <2> HIDE DEF p
    <2> QED
      BY <2>2, <2>3, ScheduleType
  <1>4. TypedSession(SteerWith(m))
    <2> DEFINE o == InterruptOutbound(session)
    <2>1. TypedSession(o)
      BY <1>0, InterruptOutboundType
    <2>2. SteerWith(m) \in {AppendSteer(o, m), AppendPending(o, m)}
      BY DEF SteerWith
    <2> HIDE DEF o
    <2> QED
      BY <1>0, <2>1, <2>2, AppendSteerType, AppendPendingType
  <1>5. TypedSession(ReplyNow(m))
    <2> DEFINE p == AppendPending(session, m)
    <2>1. TypedSession(p)
      BY <1>0, AppendPendingType
    <2>2. ReplyNow(m) \in {p, Schedule(p)}
      BY DEF ReplyNow
    <2> HIDE DEF p
    <2> QED
      BY <2>1, <2>2, ScheduleType
  <1>6. TypedSession(session')
    BY <1>2, <1>3, <1>4, <1>5, <1>1
  <1>7. arrived' \in Seq(Msgs)
    BY <1>0 DEF Admit, TypeOK, m
  <1> QED
    BY <1>0, <1>6, <1>7 DEF Admit, TypeOK

LEMMA TimerAndDispatchType ==
    ASSUME TypeOK,
           \/ DebounceFire
           \/ \E t \in Triggers : DispatchScheduled(t)
           \/ \E e \in Events : DispatchEvent(e)
    PROVE  TypeOK'
  <1>0. TypedSession(session) /\ session \in Session
    BY FieldTypes DEF TypeOK
  <1>1. CASE DebounceFire
    <2> DEFINE c == ClearTimer(session)
    <2>1. TypedSession(c)
      BY <1>0, ClearTimerType
    <2>2. session' = FlushSession(c)
      BY <1>1 DEF DebounceFire
    <2> HIDE DEF c
    <2>3. TypedSession(session')
      BY <2>1, <2>2, FlushType
    <2> QED
      BY <1>1, <2>3 DEF DebounceFire, TypeOK
  <1>2. ASSUME NEW t \in Triggers, DispatchScheduled(t)
        PROVE  TypeOK'
    <2> DEFINE q == Append(session.triggers, t)
               u == [session EXCEPT !.triggers = q]
               none == <<>>
               b == BeginSyntheticGeneration(session, "trigger", t, none)
    <2>1. q \in Seq(Triggers)
      BY <1>0, FieldTypes
    <2>2. TypedSession(u)
      <3> HIDE DEF q
      <3>1. u \in Session /\ u.run = session.run /\ u.genCtl = session.genCtl
            /\ u.respCtl = session.respCtl
        BY <1>0, <2>1 DEF Session
      <3> QED
        BY <1>0, <3>1 DEF TypedSession
    <2>3. TypedSession(b)
      <3>1. "trigger" \in RunKinds /\ none \in Seq(Events)
        BY DEF RunKinds
      <3> HIDE DEF none
      <3> QED
        BY <1>0, <3>1, BeginSyntheticType
    <2>4. session' \in {u, b}
      BY <1>2 DEF DispatchScheduled
    <2> HIDE DEF u, b
    <2>5. TypedSession(session')
      BY <2>2, <2>3, <2>4
    <2> QED
      BY <1>2, <2>5 DEF DispatchScheduled, TypeOK
  <1>3. ASSUME NEW e \in Events, DispatchEvent(e)
        PROVE  TypeOK'
    <2> DEFINE q == Append(session.inlines, e)
               u == [session EXCEPT !.inlines = q]
    <2>1. q \in Seq(Events)
      BY <1>0, FieldTypes
    <2>2. TypedSession(u)
      <3> HIDE DEF q
      <3>1. u \in Session /\ u.run = session.run /\ u.genCtl = session.genCtl
            /\ u.respCtl = session.respCtl
        BY <1>0, <2>1 DEF Session
      <3> QED
        BY <1>0, <3>1 DEF TypedSession
    <2>3. session' \in {u, ProcessNextSessionWork(u)}
      BY <1>3 DEF DispatchEvent
    <2> HIDE DEF u
    <2>4. TypedSession(session')
      BY <2>2, <2>3, ProcessNextType
    <2> QED
      BY <1>3, <2>4 DEF DispatchEvent, TypeOK
  <1> QED
    BY <1>1, <1>2, <1>3

LEMMA CommandType ==
    ASSUME TypeOK,
           CommandStep
    PROVE  TypeOK'
  <1>0. TypedSession(session)
    BY DEF TypeOK
  <1>1. Waiting(session) \subseteq Msgs
    BY <1>0, WaitingType
  <1>a. ASSUME NEW name, NEW s, Execute(name, s)
        PROVE  commands' \in Nat /\ introducing' \in Nat
    <2>1. Introductions(name) \in Nat
      BY DEF Introductions
    <2> QED
      BY <1>a, <2>1 DEF Execute, TypeOK
  <1>2. CASE StopCommand
    <2>1. TypedSession(session')
      BY <1>0, <1>2, CancelGenerationType DEF StopCommand, Execute
    <2>2. commands' \in Nat /\ introducing' \in Nat
      BY <1>2, <1>a DEF StopCommand
    <2> QED
      BY <1>2, <2>1, <2>2 DEF StopCommand, Execute, TypeOK
  <1>3. ASSUME NEW name \in {"skill", "config"}, InterruptCommand(name)
        PROVE  TypeOK'
    <2>1. TypedSession(session')
      BY <1>0, <1>3, InterruptResponseType DEF InterruptCommand, Execute
    <2>2. commands' \in Nat /\ introducing' \in Nat
      BY <1>3, <1>a DEF InterruptCommand
    <2> QED
      BY <1>3, <2>1, <2>2 DEF InterruptCommand, Execute, TypeOK
  <1>4. ASSUME NEW name \in {"clear", "reset"}, ClearCommand(name)
        PROVE  TypeOK'
    <2> DEFINE c == CancelGeneration(session)
    <2>1. TypedSession(c)
      BY <1>0, CancelGenerationType
    <2>2. session' = ClearSession(c)
      BY <1>4 DEF ClearCommand, Execute
    <2>4. commands' \in Nat /\ introducing' \in Nat
      BY <1>4, <1>a DEF ClearCommand
    <2> HIDE DEF c
    <2>3. TypedSession(session')
      BY <2>1, <2>2, ClearSessionType
    <2> QED
      BY <1>1, <1>4, <2>3, <2>4 DEF ClearCommand, Execute, TypeOK
  <1>5. CASE ConfirmCommand
    <2> DEFINE c == InterruptResponse(session)
    <2>1. TypedSession(c)
      BY <1>0, InterruptResponseType
    <2>2. session' = FinishProfileOperation(c)
      BY <1>5 DEF ConfirmCommand, Execute
    <2>4. commands' \in Nat /\ introducing' \in Nat
      BY <1>5, <1>a DEF ConfirmCommand
    <2> HIDE DEF c
    <2>3. TypedSession(session')
      BY <2>1, <2>2, FinishProfileType
    <2> QED
      BY <1>1, <1>5, <2>3, <2>4 DEF ConfirmCommand, Execute, TypeOK
  <1>b. ASSUME NEW m \in Msgs
        PROVE  TypedSession(FlushSession(AppendPending(session, m)))
    BY <1>0, AppendPendingType, FlushType
  <1>6. ASSUME NEW m \in Msgs, FlushCommand(m)
        PROVE  TypeOK'
    <2>1. TypedSession(session')
      BY <1>6, <1>b DEF FlushCommand, Execute
    <2>2. commands' \in Nat /\ introducing' \in Nat
      BY <1>6, <1>a DEF FlushCommand
    <2>3. arrived' \in Seq(Msgs)
      BY <1>6 DEF FlushCommand, TypeOK
    <2> QED
      BY <1>6, <2>1, <2>2, <2>3 DEF FlushCommand, Execute, TypeOK
  <1>7. ASSUME NEW m \in Msgs, Introduce(m)
        PROVE  TypeOK'
    <2>1. TypedSession(session')
      BY <1>0, <1>7, <1>b DEF Introduce
    <2>2. arrived' \in Seq(Msgs)
      BY <1>7 DEF Introduce, TypeOK
    <2>3. introducing' \in Nat
      BY <1>7 DEF Introduce, TypeOK
    <2> QED
      BY <1>7, <2>1, <2>2, <2>3 DEF Introduce, TypeOK
  <1> QED
    BY <1>2, <1>3, <1>4, <1>5, <1>6, <1>7 DEF CommandStep

-----------------------------------------------------------------------------
(* Type correctness of the resumptions of a run *)

LEMMA ResumedType ==
    ASSUME TypeOK, NEW s, TypedSession(s), Resumed(s)
    PROVE  TypeOK'
  BY DEF Resumed, TypeOK

LEMMA EndedType ==
    ASSUME TypeOK, NEW r \in DOMAIN session.run, NEW s, TypedSession(s), Ended(r, s)
    PROVE  TypeOK'
  <1>1. session.run[r] \in Run
    BY FieldTypes DEF TypeOK
  <1>2. Range(session.run[r].input) \subseteq Msgs
        /\ session.run[r].trigger \in Triggers \cup {NoTrigger}
    BY <1>1 DEF Run, Range
  <1> QED
    BY <1>2 DEF Ended, TypeOK

LEMMA PrepType ==
    ASSUME TypeOK, NEW r \in DOMAIN session.run,
           PrepContinue(r) \/ PrepSkip(r) \/ PrepFail(r) \/ PrepWait(r)
    PROVE  TypeOK'
  <1>0. TypedSession(session) /\ session.run[r] \in Run
    BY FieldTypes DEF TypeOK
  <1>1. CASE PrepContinue(r)
    <2>1. "exec" \in RunStages
      BY DEF RunStages
    <2>2. TypedSession([session EXCEPT !.run[r].stage = "exec"])
      BY <1>0, <2>1, StageType
    <2> QED
      BY <1>1, <2>2, ResumedType DEF PrepContinue
  <1>2. CASE PrepSkip(r) \/ PrepFail(r)
    <2>1. TypedSession(EndRun(session, r))
      BY <1>0, EndRunType
    <2>2. TypedSession(GiveBack(EndRun(session, r), r))
      BY <2>1, GiveBackType
    <2> QED
      BY <1>2, <2>2, EndedType DEF PrepSkip, PrepFail
  <1>3. CASE PrepWait(r)
    <2> DEFINE q == RequeuePending(session, session.run[r].input, session.run[r].waits + 1)
               t == Schedule(q)
               e == EndRun(t, r)
    <2>1. TypedSession(q) /\ q.run = session.run
      <3>1. session.run[r].input \in Seq(Msgs) /\ session.run[r].waits + 1 \in Nat
        BY <1>0 DEF Run
      <3> QED
        BY <1>0, <3>1, RequeueType
    <2>2. TypedSession(t) /\ t.run = session.run
      <3> HIDE DEF q
      <3> QED
        BY <2>1, ScheduleType
    <2>3. TypedSession(e)
      <3> HIDE DEF t
      <3> QED
        BY <2>2, EndRunType
    <2>4. Resumed(GiveBack(e, r))
      BY <1>3 DEF PrepWait
    <2> HIDE DEF e
    <2> QED
      BY <2>3, <2>4, GiveBackType, ResumedType
  <1> QED
    BY <1>1, <1>2, <1>3

LEMMA ExecType ==
    ASSUME TypeOK, NEW r \in DOMAIN session.run,
           \/ \E phase \in {"requesting", "generating"} : ExecPhase(r, phase)
           \/ ExecConsumeSteer(r) \/ ExecConsumeEvents(r) \/ ExecSuperseded(r)
    PROVE  TypeOK'
  <1>0. TypedSession(session) /\ session \in Session
    BY FieldTypes DEF TypeOK
  <1>1. ASSUME NEW phase \in {"requesting", "generating"}, ExecPhase(r, phase)
        PROVE  TypeOK'
    <2> DEFINE t == [session EXCEPT !.phase = phase]
    <2>1. phase \in Phases
      BY PhaseNames
    <2>2. t \in Session /\ t.run = session.run /\ t.genCtl = session.genCtl
          /\ t.respCtl = session.respCtl
      BY <1>0, <2>1 DEF Session
    <2>3. TypedSession(t)
      BY <1>0, <2>2 DEF TypedSession
    <2>4. Resumed(t)
      BY <1>1 DEF ExecPhase
    <2> HIDE DEF t
    <2> QED
      BY <2>3, <2>4, ResumedType
  <1>2. CASE ExecConsumeSteer(r)
    BY <1>0, <1>2, ConsumeSteerType, ResumedType DEF ExecConsumeSteer
  <1>3. CASE ExecConsumeEvents(r)
    BY <1>0, <1>3, DrainInlinesType, ResumedType DEF ExecConsumeEvents
  <1>4. CASE ExecSuperseded(r)
    BY <1>0, <1>4, AbortedType, ResumedType DEF ExecSuperseded
  <1> QED
    BY <1>1, <1>2, <1>3, <1>4

LEMMA FinishType ==
    ASSUME TypeOK, NEW r \in DOMAIN session.run,
           ExecEnd(r) \/ SetupChecked(r) \/ DrainEnd(r) \/ CloseEnd(r)
    PROVE  TypeOK'
  <1>0. TypedSession(session) /\ "setup" \in RunStages /\ "closing" \in RunStages
    BY DEF TypeOK, RunStages
  <1>1. CASE ExecEnd(r)
    <2> DEFINE g == FinishGeneration(session, r)
               b == session.genCtl = r
               f == [g EXCEPT !.run[r].fin = b]
    <2>1. TypedSession(g) /\ g.run = session.run
      BY <1>0, FinishGenerationType
    <2>2. TypedSession(f) /\ r \in DOMAIN f.run
      <3>1. b \in BOOLEAN
        OBVIOUS
      <3> HIDE DEF g, b
      <3> QED
        BY <2>1, <3>1, FinishedType
    <2>3. Resumed(AfterFinish(f, r)) \/ Resumed([f EXCEPT !.run[r].stage = "setup"])
      BY <1>1 DEF ExecEnd
    <2> HIDE DEF f
    <2> QED
      BY <1>0, <2>2, <2>3, AfterFinishType, StageType, ResumedType
  <1>2. CASE SetupChecked(r)
    <2> DEFINE p == FinishProfileOperation(session)
    <2>1. CASE Resumed(AfterFinish(session, r))
      BY <1>0, <2>1, AfterFinishType, ResumedType
    <2>2. CASE Resumed([session EXCEPT !.run[r].stage = "closing"])
      BY <1>0, <2>2, StageType, ResumedType
    <2>3. CASE /\ session' = AfterFinish(p, r)
               /\ dropped' = dropped \cup Waiting(session)
               /\ UNCHANGED <<admitting, arrived, handled, dispatched, settled, commands, introducing>>
      <3>1. TypedSession(p) /\ r \in DOMAIN p.run
        BY <1>0, FinishProfileType
      <3> HIDE DEF p
      <3>2. TypedSession(session')
        BY <2>3, <3>1, AfterFinishType
      <3>3. Waiting(session) \subseteq Msgs
        BY <1>0, WaitingType
      <3> QED
        BY <2>3, <3>2, <3>3 DEF TypeOK
    <2> QED
      BY <1>2, <2>1, <2>2, <2>3 DEF SetupChecked
  <1>3. TypedSession(EndRun(session, r))
    BY <1>0, EndRunType
  <1>4. CASE DrainEnd(r)
    <2> DEFINE p == PromoteSteer(EndRun(session, r))
    <2>1. TypedSession(p)
      BY <1>3, PromoteSteerType
    <2>2. Ended(r, CompleteAndContinue(p, session.run[r].repoch))
      BY <1>4 DEF DrainEnd
    <2> HIDE DEF p
    <2> QED
      BY <2>1, <2>2, CompleteAndContinueType, EndedType
  <1>5. CASE CloseEnd(r)
    <2> DEFINE e == EndRun(session, r)
    <2>1. Ended(r, e) \/ Ended(r, CompleteAndContinue(e, session.run[r].repoch))
      BY <1>5 DEF CloseEnd
    <2> HIDE DEF e
    <2> QED
      BY <1>3, <2>1, CompleteAndContinueType, EndedType DEF e
  <1> QED
    BY <1>1, <1>2, <1>4, <1>5

(***************************************************************************)
(* The session object, its queues and the closures of its runs keep their  *)
(* types under every handler and every resumption of a run.                *)
(***************************************************************************)
THEOREM TypeCorrect == Spec => []TypeOK
  <1>1. Init => TypeOK
    BY CreateType DEF Init, TypeOK
  <1>2. TypeOK /\ [Next]_vars => TypeOK'
    <2> SUFFICES ASSUME TypeOK, [Next]_vars PROVE TypeOK'
      OBVIOUS
    <2>1. CASE Environment
      BY <2>1, DecideType, TimerAndDispatchType, CommandType DEF Environment
    <2>2. CASE Admit \/ DebounceFire
      BY <2>2, AdmitType, TimerAndDispatchType
    <2>3. ASSUME NEW r \in DOMAIN session.run, RunStep(r) PROVE TypeOK'
      BY <2>3, PrepType, ExecType, FinishType DEF RunStep
    <2>4. CASE UNCHANGED vars
      BY <2>4 DEF vars, TypeOK
    <2> QED
      BY <2>1, <2>2, <2>3, <2>4 DEF Next
  <1> QED
    BY <1>1, <1>2, PTL DEF Spec

-----------------------------------------------------------------------------
(* Introductions: only the commands that configure a character owe one.    *)

NothingOwed == "config" \notin Commands /\ "reset" \notin Commands => introducing = 0

LEMMA NothingOwedHolds == Spec => []NothingOwed
  <1>1. Init => NothingOwed
    BY DEF Init, NothingOwed
  <1>2. NothingOwed /\ [Next]_vars => NothingOwed'
    <2> SUFFICES ASSUME introducing = 0, "config" \notin Commands, "reset" \notin Commands,
                        [Next]_vars
                 PROVE  introducing' = 0
      BY DEF NothingOwed
    <2>1. CASE CommandStep
      <3>1. ASSUME NEW name, NEW t, Execute(name, t) PROVE introducing' = 0
        <4>1. Introductions(name) = 0
          BY <3>1 DEF Execute, Introductions
        <4> QED
          BY <3>1, <4>1 DEF Execute
      <3>2. ASSUME NEW m \in Msgs PROVE ~Introduce(m)
        BY DEF Introduce
      <3> QED
        BY <2>1, <3>1, <3>2 DEF CommandStep, StopCommand, InterruptCommand, ClearCommand,
           ConfirmCommand, FlushCommand
    <2>2. ASSUME NEW m \in Msgs, Decide(m) PROVE introducing' = 0
      BY <2>2 DEF Decide
    <2>3. ASSUME NEW t \in Triggers, DispatchScheduled(t) PROVE introducing' = 0
      BY <2>3 DEF DispatchScheduled
    <2>4. ASSUME NEW e \in Events, DispatchEvent(e) PROVE introducing' = 0
      BY <2>4 DEF DispatchEvent
    <2>5. CASE Admit \/ DebounceFire
      BY <2>5 DEF Admit, DebounceFire
    <2>6. ASSUME NEW r \in DOMAIN session.run, RunStep(r) PROVE introducing' = 0
      <3>1. ASSUME NEW t, Resumed(t) PROVE introducing' = 0
        BY <3>1 DEF Resumed
      <3>2. ASSUME NEW t, Ended(r, t) PROVE introducing' = 0
        BY <3>2 DEF Ended
      <3>3. CASE PrepContinue(r) \/ PrepSkip(r) \/ PrepFail(r) \/ PrepWait(r)
        BY <3>1, <3>2, <3>3 DEF PrepContinue, PrepSkip, PrepFail, PrepWait
      <3>4. CASE \/ \E phase \in {"requesting", "generating"} : ExecPhase(r, phase)
                 \/ ExecConsumeSteer(r) \/ ExecConsumeEvents(r) \/ ExecSuperseded(r)
        BY <3>1, <3>4 DEF ExecPhase, ExecConsumeSteer, ExecConsumeEvents, ExecSuperseded
      <3>5. CASE ExecEnd(r) \/ SetupChecked(r)
        BY <3>1, <3>5 DEF ExecEnd, SetupChecked
      <3>6. CASE DrainEnd(r) \/ CloseEnd(r)
        BY <3>2, <3>6 DEF DrainEnd, CloseEnd
      <3> QED
        BY <2>6, <3>3, <3>4, <3>5, <3>6 DEF RunStep
    <2>7. CASE UNCHANGED vars
      BY <2>7 DEF vars
    <2> QED
      BY <2>1, <2>2, <2>3, <2>4, <2>5, <2>6, <2>7 DEF Next, Environment
  <1> QED
    BY <1>1, <1>2, PTL DEF Spec
=============================================================================
