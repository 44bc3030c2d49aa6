----------------------- MODULE SessionCoherence_proofs -----------------------
(***************************************************************************)
(* In orderly use (module SessionResponse) the session is coherent at      *)
(* every await: Coherent is preserved by each operation of SessionState    *)
(* under the conditions its callers establish, and so by every action.     *)
(* The safety properties that rest on it follow.                           *)
(***************************************************************************)
EXTENDS SessionResponse_proofs

(* What an operation does to the responses, as ResponseTurns sees it: it   *)
(* opens none, or it opens the next one and starts its generation.         *)
Keeps(s, t) ==
    /\ t.responseEpoch = s.responseEpoch
    /\ IsResponding(t) => IsResponding(s)
    /\ t.genCtl \in {0, s.genCtl}

Moves(s, t) ==
    \/ Keeps(s, t)
    \/ t.responseEpoch = s.responseEpoch + 1 /\ t.genCtl # 0

(* The fields Coherent speaks of, but for the pending messages. *)
SameView(s, t) ==
    /\ t.phase = s.phase
    /\ t.responseEpoch = s.responseEpoch /\ t.mutationEpoch = s.mutationEpoch
    /\ t.genCtl = s.genCtl
    /\ t.queued = s.queued
    /\ t.timer = s.timer
    /\ t.run = s.run

LEMMA ViewCoherent ==
    ASSUME NEW s, NEW t, Coherent(s), SameView(s, t), t.timer => t.pending # <<>>
    PROVE  Coherent(t) /\ Keeps(s, t)
  BY DEF Coherent, SameView, Keeps, EpochsNumberRuns, OwnerIsNewest, OthersAreAborted,
         DeliveryHasRun, TimerMeansPending, BatchesHaveMessages, IsResponding, IsGenerating

(* Only the owner of the generation controller may be replaced by a run    *)
(* that still generates unaborted.                                         *)
LEMMA WithRunCoherent ==
    ASSUME NEW s, TypedSession(s), Coherent(s), NEW r \in DOMAIN s.run, NEW x \in Run,
           x.repoch = r, x.mepoch <= s.mutationEpoch, x.stage # "setup",
           r = s.genCtl => /\ x.stage \in {"prep", "exec"} /\ ~x.genAb
                           /\ x.mepoch = s.mutationEpoch,
           r # s.genCtl /\ x.stage \in {"prep", "exec"} =>
               x.genAb /\ x.mepoch < s.mutationEpoch,
           s.phase = "delivering" /\ r = Len(s.run) =>
               x.stage \in {"drain", "closing"} /\ x.fin,
           x.kind = "chat" /\ x.stage = "prep" => x.input # <<>>
    PROVE  Coherent(WithRun(s, r, x)) /\ Keeps(s, WithRun(s, r, x))
  <1> DEFINE t == WithRun(s, r, x)
  <1>1. /\ t.phase = s.phase
        /\ t.responseEpoch = s.responseEpoch /\ t.mutationEpoch = s.mutationEpoch
        /\ t.genCtl = s.genCtl
        /\ t.queued = s.queued /\ t.pending = s.pending
        /\ t.timer = s.timer
        /\ t.run = [s.run EXCEPT ![r] = x]
    BY FieldTypes DEF WithRun, Session
  <1>2. /\ DOMAIN t.run = DOMAIN s.run /\ Len(t.run) = Len(s.run)
        /\ DOMAIN s.run = 1 .. Len(s.run) /\ Len(s.run) \in Nat
        /\ t.run[r] = x
        /\ \A i \in DOMAIN s.run : i # r => t.run[i] = s.run[i]
        /\ s.run # <<>> => t.run # <<>>
    BY <1>1, FieldTypes
  <1> HIDE DEF t
  <1>3. EpochsNumberRuns(t)
    BY <1>1, <1>2 DEF Coherent, EpochsNumberRuns
  <1>4. OwnerIsNewest(t)
    BY <1>1, <1>2, FieldTypes DEF Coherent, OwnerIsNewest, IsGenerating
  <1>5. OthersAreAborted(t)
    BY <1>1, <1>2 DEF Coherent, OthersAreAborted
  <1>6. DeliveryHasRun(t) /\ TimerMeansPending(t)
    BY <1>1, <1>2 DEF Coherent, DeliveryHasRun, TimerMeansPending, IsResponding, IsGenerating
  <1>7. BatchesHaveMessages(t)
    BY <1>1, <1>2 DEF Coherent, BatchesHaveMessages
  <1>8. Keeps(s, t)
    BY <1>1 DEF Keeps, IsResponding, IsGenerating
  <1> QED
    BY <1>3, <1>4, <1>5, <1>6, <1>7, <1>8 DEF Coherent, t

-----------------------------------------------------------------------------
(* Beginning a response: only while none is open and no timer is set.      *)

LEMMA InactiveSession ==
    ASSUME NEW s, Coherent(s), ~HasActiveResponse(s)
    PROVE  s.genCtl = 0
  BY DEF Coherent, OwnerIsNewest, HasActiveResponse

(* A run was added to s, and t differs from s otherwise as StartRun says.  *)
Started(s, kind, input, t) ==
    LET n == Len(s.run) + 1 IN
    /\ t.responseEpoch = s.responseEpoch + 1
    /\ t.mutationEpoch = s.mutationEpoch
    /\ t.genCtl = n
    /\ t.queued = s.queued
    /\ t.timer = s.timer
    /\ DOMAIN t.run = 1 .. n /\ Len(t.run) = n
    /\ \A i \in DOMAIN s.run : t.run[i] = s.run[i]
    /\ t.run[n].kind = kind /\ t.run[n].stage = "prep"
    /\ t.run[n].repoch = s.responseEpoch + 1
    /\ t.run[n].mepoch = s.mutationEpoch
    /\ t.run[n].genAb = FALSE
    /\ t.run[n].input = input

LEMMA StartRunStarts ==
    ASSUME NEW s, TypedSession(s), NEW kind, NEW input, NEW trigger, NEW events
    PROVE  Started(s, kind, input, StartRun(s, kind, input, trigger, events))
  <1> DEFINE t == StartRun(s, kind, input, trigger, events)
             n == Len(s.run) + 1
             x == [kind |-> kind, stage |-> "prep",
                   repoch |-> s.responseEpoch + 1, mepoch |-> s.mutationEpoch,
                   genAb |-> FALSE, respAb |-> FALSE, fin |-> FALSE,
                   waits |-> s.waits, input |-> input,
                   trigger |-> trigger, events |-> events]
             q == Append(s.run, x)
  <1>1. /\ t.responseEpoch = s.responseEpoch + 1
        /\ t.mutationEpoch = s.mutationEpoch
        /\ t.genCtl = n
        /\ t.queued = s.queued
        /\ t.timer = s.timer
        /\ t.run = q
    BY FieldTypes DEF StartRun, Session
  <1>2. /\ DOMAIN q = 1 .. n /\ Len(q) = n
        /\ \A i \in DOMAIN s.run : q[i] = s.run[i]
        /\ q[n] = x
    <2> HIDE DEF x
    <2>1. s.run \in Seq(Run) /\ Len(s.run) \in Nat /\ DOMAIN s.run = 1 .. Len(s.run)
      BY FieldTypes
    <2> QED
      BY <2>1
  <1> HIDE DEF t, q, n
  <1>3. /\ t.run[n].kind = kind /\ t.run[n].stage = "prep"
        /\ t.run[n].repoch = s.responseEpoch + 1
        /\ t.run[n].mepoch = s.mutationEpoch
        /\ t.run[n].genAb = FALSE
        /\ t.run[n].input = input
    BY <1>1, <1>2
  <1> QED
    BY <1>1, <1>2, <1>3 DEF t, n, Started

LEMMA StartedCoherent ==
    ASSUME NEW s, TypedSession(s), Coherent(s), ~HasActiveResponse(s), ~s.timer,
           NEW kind, NEW input, kind = "chat" => input # <<>>,
           NEW t, t.phase \in GeneratingPhases, Started(s, kind, input, t)
    PROVE  Coherent(t) /\ Moves(s, t)
  <1> DEFINE n == Len(s.run) + 1
  <1>1. /\ t.responseEpoch = s.responseEpoch + 1 /\ t.mutationEpoch = s.mutationEpoch
        /\ t.genCtl = n /\ t.queued = s.queued /\ ~t.timer
        /\ DOMAIN t.run = 1 .. n /\ Len(t.run) = n
        /\ \A i \in DOMAIN s.run : t.run[i] = s.run[i]
        /\ t.run[n].kind = kind /\ t.run[n].stage = "prep"
        /\ t.run[n].repoch = s.responseEpoch + 1 /\ t.run[n].mepoch = s.mutationEpoch
        /\ t.run[n].genAb = FALSE
        /\ t.run[n].input = input
    BY DEF Started
  <1>2. /\ Len(s.run) \in Nat /\ DOMAIN s.run = 1 .. Len(s.run)
        /\ s.mutationEpoch \in Nat /\ s.responseEpoch = Len(s.run)
        /\ s.genCtl = 0
    BY FieldTypes, InactiveSession DEF Coherent, EpochsNumberRuns
  <1> HIDE DEF n
  <1>3. n = Len(s.run) + 1 /\ n \in Nat /\ n # 0 /\ n \in DOMAIN t.run
        /\ \A i \in DOMAIN t.run : i = n \/ i \in DOMAIN s.run
    BY <1>1, <1>2 DEF n
  <1>4. EpochsNumberRuns(t)
    BY <1>1, <1>2, <1>3 DEF Coherent, EpochsNumberRuns
  <1>5. OwnerIsNewest(t)
    BY <1>1, <1>3 DEF OwnerIsNewest, IsGenerating
  <1>6. OthersAreAborted(t)
    <2> SUFFICES ASSUME NEW i \in DOMAIN t.run
                 PROVE  /\ t.run[i].stage # "setup"
                        /\ t.run[i].stage \in {"prep", "exec"} /\ i # t.genCtl =>
                             t.run[i].genAb /\ t.run[i].mepoch < t.mutationEpoch
      BY DEF OthersAreAborted
    <2>1. CASE i = n
      BY <1>1, <2>1
    <2>2. CASE i \in DOMAIN s.run
      BY <1>1, <1>2, <2>2 DEF Coherent, OthersAreAborted
    <2> QED
      BY <1>3, <2>1, <2>2
  <1>7. DeliveryHasRun(t) /\ TimerMeansPending(t)
    BY <1>1 DEF DeliveryHasRun, TimerMeansPending, GeneratingPhases
  <1>8. BatchesHaveMessages(t)
    BY <1>1, <1>3 DEF Coherent, BatchesHaveMessages
  <1>9. Moves(s, t)
    BY <1>1, <1>3 DEF Moves
  <1> QED
    BY <1>4, <1>5, <1>6, <1>7, <1>8, <1>9 DEF Coherent

LEMMA BeginCoherent ==
    ASSUME NEW s, TypedSession(s), Coherent(s), ~HasActiveResponse(s), ~s.timer,
           s.pending # <<>>
    PROVE  Coherent(BeginGeneration(s)) /\ Moves(s, BeginGeneration(s))
  <1> DEFINE u == StartRun(s, "chat", s.pending, NoTrigger, <<>>)
             t == BeginGeneration(s)
             user == IF s.pending = <<>> THEN NoUser ELSE Sender[Head(s.pending)]
  <1>1. t = [u EXCEPT !.pending = <<>>, !.waits = 0, !.target = user, !.phase = "planning"]
    BY DEF BeginGeneration
  <1>2. u \in Session
    <2>1. s.pending \in Seq(Msgs) /\ "chat" \in RunKinds /\ <<>> \in Seq(Events)
      BY FieldTypes DEF RunKinds
    <2> QED
      BY <2>1, StartRunType DEF TypedSession
  <1>0. Started(s, "chat", s.pending, u)
    BY StartRunStarts
  <1> HIDE DEF u, t, user
  <1>3. /\ t.responseEpoch = u.responseEpoch /\ t.mutationEpoch = u.mutationEpoch
        /\ t.genCtl = u.genCtl /\ t.queued = u.queued /\ t.timer = u.timer
        /\ t.run = u.run /\ t.phase = "planning"
    BY <1>1, <1>2 DEF Session
  <1>4. t.phase \in GeneratingPhases
    BY <1>3 DEF GeneratingPhases
  <1>5. Started(s, "chat", s.pending, t)
    BY <1>0, <1>3 DEF Started
  <1> QED
    BY <1>4, <1>5, StartedCoherent DEF t

LEMMA BeginSyntheticCoherent ==
    ASSUME NEW s, TypedSession(s), Coherent(s), ~HasActiveResponse(s), ~s.timer,
           NEW kind \in RunKinds \ {"chat"}, NEW trigger \in Triggers \cup {NoTrigger},
           NEW events \in Seq(Events)
    PROVE  /\ Coherent(BeginSyntheticGeneration(s, kind, trigger, events))
           /\ Moves(s, BeginSyntheticGeneration(s, kind, trigger, events))
  <1> DEFINE u == StartRun(s, kind, <<>>, trigger, events)
             t == BeginSyntheticGeneration(s, kind, trigger, events)
  <1>1. t = [u EXCEPT !.target = NoUser, !.phase = "requesting"]
    BY DEF BeginSyntheticGeneration
  <1>2. u \in Session
    <2>1. <<>> \in Seq(Msgs)
      OBVIOUS
    <2> QED
      BY <2>1, StartRunType DEF TypedSession
  <1>0. Started(s, kind, <<>>, u)
    BY StartRunStarts
  <1> HIDE DEF u, t
  <1>3. /\ t.responseEpoch = u.responseEpoch /\ t.mutationEpoch = u.mutationEpoch
        /\ t.genCtl = u.genCtl /\ t.queued = u.queued /\ t.timer = u.timer
        /\ t.run = u.run /\ t.phase = "requesting"
    BY <1>1, <1>2 DEF Session
  <1>4. t.phase \in GeneratingPhases
    BY <1>3 DEF GeneratingPhases
  <1>5. Started(s, kind, <<>>, t)
    BY <1>0, <1>3 DEF Started
  <1> QED
    BY <1>4, <1>5, StartedCoherent DEF t

-----------------------------------------------------------------------------
(* The queues *)

LEMMA PromoteSteerCoherent ==
    ASSUME NEW s, TypedSession(s), Coherent(s)
    PROVE  /\ Coherent(PromoteSteer(s)) /\ Keeps(s, PromoteSteer(s))
           /\ PromoteSteer(s).phase = s.phase /\ PromoteSteer(s).timer = s.timer
  <1> DEFINE t == PromoteSteer(s)
  <1>1. SameView(s, t)
    BY FieldTypes DEF PromoteSteer, SameView, Session
  <1>2. t.pending = IF s.steer = <<>> THEN s.pending ELSE s.steer \o s.pending
    BY FieldTypes DEF PromoteSteer, Session
  <1> HIDE DEF t
  <1>3. s.pending # <<>> => t.pending # <<>>
    <2>1. s.pending \in Seq(Msgs) /\ s.steer \in Seq(Msgs)
      BY FieldTypes
    <2> QED
      BY <1>2, <2>1
  <1>4. t.timer => t.pending # <<>>
    BY <1>1, <1>3 DEF Coherent, TimerMeansPending, SameView
  <1>5. Coherent(t) /\ Keeps(s, t)
    BY <1>1, <1>4, ViewCoherent
  <1> QED
    BY <1>1, <1>5 DEF t, SameView

LEMMA PromoteNextCoherent ==
    ASSUME NEW s, TypedSession(s), Coherent(s)
    PROVE  /\ Coherent(PromoteNextTarget(s)) /\ Keeps(s, PromoteNextTarget(s))
           /\ PromoteNextTarget(s).phase = s.phase /\ PromoteNextTarget(s).timer = s.timer
           /\ s.queued # <<>> => PromoteNextTarget(s).pending # <<>>
  <1> DEFINE t == PromoteNextTarget(s)
  <1>1. CASE s.queued = <<>>
    BY <1>1 DEF PromoteNextTarget, Keeps
  <1>2. CASE s.queued # <<>>
    <2>1. /\ t.phase = s.phase
          /\ t.responseEpoch = s.responseEpoch /\ t.mutationEpoch = s.mutationEpoch
          /\ t.genCtl = s.genCtl /\ t.timer = s.timer /\ t.run = s.run
          /\ t.queued = Tail(s.queued) /\ t.pending = Head(s.queued) \o s.pending
      <3> DEFINE q == Head(s.queued) \o s.pending
                 rest == Tail(s.queued)
      <3>1. t = [s EXCEPT !.pending = q, !.queued = rest, !.waits = 0] /\ s \in Session
        BY <1>2, FieldTypes DEF PromoteNextTarget
      <3> HIDE DEF q, rest, t
      <3> QED
        BY <3>1 DEF Session, q, rest
    <2> HIDE DEF t
    <2>2. s.pending \in Seq(Msgs) /\ s.queued \in Seq(Seq(Msgs))
      BY FieldTypes
    <2>3. /\ Head(s.queued) \in Seq(Msgs) /\ Head(s.queued) # <<>>
          /\ \A i \in DOMAIN Tail(s.queued) : Tail(s.queued)[i] # <<>>
      BY <1>2, <2>2 DEF Coherent, BatchesHaveMessages
    <2>4. t.pending # <<>>
      BY <2>1, <2>2, <2>3
    <2>5. Coherent(t) /\ Keeps(s, t)
      BY <2>1, <2>3, <2>4 DEF Coherent, Keeps, EpochsNumberRuns, OwnerIsNewest,
         OthersAreAborted, DeliveryHasRun, TimerMeansPending, BatchesHaveMessages,
         IsResponding, IsGenerating
    <2> QED
      BY <2>1, <2>4, <2>5 DEF t
  <1> QED
    BY <1>1, <1>2

LEMMA AppendPendingCoherent ==
    ASSUME NEW s, TypedSession(s), Coherent(s), NEW m \in Msgs
    PROVE  /\ Coherent(AppendPending(s, m)) /\ Keeps(s, AppendPending(s, m))
           /\ AppendPending(s, m).phase = s.phase
           /\ AppendPending(s, m).pending # <<>>
  <1> DEFINE t == AppendPending(s, m)
  <1>1. SameView(s, t) /\ t.pending = Append(s.pending, m)
    BY FieldTypes DEF AppendPending, SameView, Session
  <1> HIDE DEF t
  <1>2. t.pending # <<>>
    BY <1>1, FieldTypes
  <1> QED
    BY <1>1, <1>2, ViewCoherent DEF t, SameView

LEMMA AppendSteerCoherent ==
    ASSUME NEW s, TypedSession(s), Coherent(s), NEW m \in Msgs
    PROVE  Coherent(AppendSteer(s, m)) /\ Keeps(s, AppendSteer(s, m))
  <1> DEFINE t == AppendSteer(s, m)
  <1>1. SameView(s, t) /\ t.pending = s.pending
    BY FieldTypes DEF AppendSteer, SameView, Session
  <1> HIDE DEF t
  <1>2. t.timer => t.pending # <<>>
    BY <1>1 DEF Coherent, TimerMeansPending, SameView
  <1> QED
    BY <1>1, <1>2, ViewCoherent DEF t

LEMMA InterruptOutboundCoherent ==
    ASSUME NEW s, TypedSession(s), Coherent(s)
    PROVE  Coherent(InterruptOutbound(s)) /\ Keeps(s, InterruptOutbound(s))
  <1> DEFINE t == InterruptOutbound(s)
  <1>1. SameView(s, t) /\ t.pending = s.pending
    BY FieldTypes DEF InterruptOutbound, SameView, Session
  <1> HIDE DEF t
  <1>2. t.timer => t.pending # <<>>
    BY <1>1 DEF Coherent, TimerMeansPending, SameView
  <1> QED
    BY <1>1, <1>2, ViewCoherent DEF t

LEMMA EnqueueCoherent ==
    ASSUME NEW s, TypedSession(s), Coherent(s), NEW m \in Msgs
    PROVE  LET t == EnqueueGroupReplyTarget(s, m) IN
           /\ Coherent(t) /\ Keeps(s, t)
           /\ t.phase = s.phase /\ t.pending = s.pending /\ t.queued # <<>>
  <1> DEFINE t == EnqueueGroupReplyTarget(s, m)
             joined == [i \in DOMAIN s.queued |->
                          IF Sender[Head(s.queued[i])] = Sender[m]
                          THEN Append(s.queued[i], m) ELSE s.queued[i]]
             longer == Append(s.queued, <<m>>)
             match == \E i \in DOMAIN s.queued : Sender[Head(s.queued[i])] = Sender[m]
  <1>1. t = IF match THEN [s EXCEPT !.queued = joined] ELSE [s EXCEPT !.queued = longer]
    BY DEF EnqueueGroupReplyTarget
  <1>2. s.queued \in Seq(Seq(Msgs)) /\ s \in Session
        /\ \A i \in DOMAIN s.queued : s.queued[i] # <<>>
    BY FieldTypes DEF Coherent, BatchesHaveMessages
  <1>3. longer # <<>> /\ \A i \in DOMAIN longer : longer[i] # <<>>
    <2> DEFINE one == <<m>>
    <2>1. one \in Seq(Msgs) /\ one # <<>> /\ longer = Append(s.queued, one)
      OBVIOUS
    <2> HIDE DEF one, longer
    <2>2. /\ longer # <<>>
          /\ \A i \in DOMAIN longer : longer[i] = one \/ i \in DOMAIN s.queued
          /\ \A i \in DOMAIN s.queued : longer[i] = s.queued[i]
      BY <1>2, <2>1
    <2> QED
      BY <1>2, <2>1, <2>2
  <1>4. /\ match => joined # <<>>
        /\ \A i \in DOMAIN joined : joined[i] # <<>>
    <2>1. \A i \in DOMAIN s.queued : s.queued[i] \in Seq(Msgs)
      BY <1>2
    <2>2. \A i \in DOMAIN s.queued : Append(s.queued[i], m) # <<>>
      BY <2>1
    <2>3. ASSUME match PROVE joined # <<>>
      <3>1. PICK i \in DOMAIN s.queued : TRUE
        BY <2>3
      <3>2. i \in DOMAIN joined
        OBVIOUS
      <3> QED
        BY <3>2
    <2> QED
      BY <1>2, <2>2, <2>3
  <1> HIDE DEF joined, longer, match
  <1>5. /\ t.phase = s.phase
        /\ t.responseEpoch = s.responseEpoch /\ t.mutationEpoch = s.mutationEpoch
        /\ t.genCtl = s.genCtl /\ t.timer = s.timer /\ t.run = s.run
        /\ t.pending = s.pending
        /\ t.queued = IF match THEN joined ELSE longer
    BY <1>1, <1>2 DEF Session
  <1> HIDE DEF t
  <1>6. t.queued # <<>> /\ \A i \in DOMAIN t.queued : t.queued[i] # <<>>
    BY <1>3, <1>4, <1>5
  <1>7. Coherent(t) /\ Keeps(s, t)
    BY <1>5, <1>6 DEF Coherent, Keeps, EpochsNumberRuns, OwnerIsNewest,
       OthersAreAborted, DeliveryHasRun, TimerMeansPending, BatchesHaveMessages,
       IsResponding, IsGenerating
  <1> QED
    BY <1>5, <1>6, <1>7 DEF t

-----------------------------------------------------------------------------
(* The debounce timer *)

LEMMA ClearTimerCoherent ==
    ASSUME NEW s, TypedSession(s), Coherent(s)
    PROVE  /\ Coherent(ClearTimer(s)) /\ Keeps(s, ClearTimer(s))
           /\ ~ClearTimer(s).timer
           /\ ClearTimer(s).pending = s.pending
           /\ IsResponding(ClearTimer(s)) <=> IsResponding(s)
  <1> DEFINE t == ClearTimer(s)
  <1>1. /\ t.responseEpoch = s.responseEpoch /\ t.mutationEpoch = s.mutationEpoch
        /\ t.genCtl = s.genCtl /\ t.run = s.run /\ t.queued = s.queued
        /\ t.pending = s.pending
        /\ ~t.timer
        /\ t.phase = s.phase \/ (s.phase = "debouncing" /\ t.phase = "idle")
    BY FieldTypes DEF ClearTimer, Session
  <1> HIDE DEF t
  <1>2. (IsResponding(t) <=> IsResponding(s)) /\ (IsGenerating(t) <=> IsGenerating(s))
        /\ (t.phase = "delivering" <=> s.phase = "delivering")
    BY <1>1 DEF IsResponding, IsGenerating, GeneratingPhases
  <1>3. Coherent(t) /\ Keeps(s, t)
    BY <1>1, <1>2 DEF Coherent, Keeps, EpochsNumberRuns, OwnerIsNewest,
       OthersAreAborted, DeliveryHasRun, TimerMeansPending, BatchesHaveMessages
  <1> QED
    BY <1>1, <1>2, <1>3 DEF t

LEMMA ScheduleFields ==
    ASSUME NEW s, TypedSession(s)
    PROVE  LET t == Schedule(s) IN
           /\ t.responseEpoch = s.responseEpoch /\ t.mutationEpoch = s.mutationEpoch
           /\ t.genCtl = s.genCtl /\ t.run = s.run /\ t.queued = s.queued
           /\ t.pending = s.pending
           /\ t.phase \in {s.phase, "idle", "debouncing"}
           /\ s.phase \in GeneratingPhases \cup {"delivering"} => t.phase = s.phase
  <1> DEFINE c == ClearTimer(s)
             t == Schedule(s)
  <1>1. /\ c.responseEpoch = s.responseEpoch /\ c.mutationEpoch = s.mutationEpoch
        /\ c.genCtl = s.genCtl /\ c.run = s.run /\ c.queued = s.queued
        /\ c.pending = s.pending
        /\ c.phase = s.phase \/ (s.phase = "debouncing" /\ c.phase = "idle")
    BY FieldTypes DEF ClearTimer, Session
  <1>2. t = [c EXCEPT !.timer = TRUE,
                      !.phase = IF c.phase \in {"idle", "waiting"} THEN "debouncing"
                                ELSE c.phase]
    BY DEF Schedule
  <1>3. c \in Session
    BY ClearTimerType DEF TypedSession
  <1> HIDE DEF c, t
  <1>4. /\ t.responseEpoch = c.responseEpoch /\ t.mutationEpoch = c.mutationEpoch
        /\ t.genCtl = c.genCtl /\ t.run = c.run /\ t.queued = c.queued
        /\ t.pending = c.pending
        /\ t.phase = IF c.phase \in {"idle", "waiting"} THEN "debouncing" ELSE c.phase
    BY <1>2, <1>3 DEF Session
  <1> QED
    BY <1>1, <1>4 DEF t, GeneratingPhases

(* Its callers have made sure that a message is pending. *)
LEMMA ScheduleCoherent ==
    ASSUME NEW s, TypedSession(s), Coherent(s), s.pending # <<>>, ~IsResponding(s)
    PROVE  Coherent(Schedule(s)) /\ Keeps(s, Schedule(s))
  <1> DEFINE t == Schedule(s)
  <1>1. /\ t.responseEpoch = s.responseEpoch /\ t.mutationEpoch = s.mutationEpoch
        /\ t.genCtl = s.genCtl /\ t.run = s.run /\ t.queued = s.queued
        /\ t.pending = s.pending
        /\ t.phase \in {s.phase, "idle", "debouncing"}
    BY ScheduleFields
  <1> HIDE DEF t
  <1>2. ~IsResponding(t) /\ ~IsGenerating(t) /\ ~IsGenerating(s) /\ t.phase # "delivering"
    BY <1>1 DEF IsResponding, IsGenerating, GeneratingPhases
  <1>3. Coherent(t) /\ Keeps(s, t)
    BY <1>1, <1>2 DEF Coherent, Keeps, EpochsNumberRuns, OwnerIsNewest,
       OthersAreAborted, DeliveryHasRun, TimerMeansPending, BatchesHaveMessages
  <1> QED
    BY <1>3 DEF t

-----------------------------------------------------------------------------
(* What starts the next work *)

LEMMA KeepsThenMoves ==
    ASSUME NEW s, NEW a, NEW t, Keeps(s, a)
    PROVE  (Keeps(a, t) => Keeps(s, t)) /\ (Moves(a, t) => Moves(s, t))
  BY DEF Keeps, Moves

LEMMA ProcessNextCoherent ==
    ASSUME NEW s, TypedSession(s), Coherent(s)
    PROVE  Coherent(ProcessNextSessionWork(s)) /\ Moves(s, ProcessNextSessionWork(s))
  <1> DEFINE a == PromoteSteer(s)
             p == IF a.pending = <<>> THEN PromoteNextTarget(a) ELSE a
             u == [p EXCEPT !.triggers = Tail(p.triggers)]
             v == [p EXCEPT !.inlines = <<>>]
             trigger == BeginSyntheticGeneration(u, "trigger", Head(p.triggers), <<>>)
             inline == BeginSyntheticGeneration(v, "inline", NoTrigger, p.inlines)
             next == ProcessNextSessionWork(s)
  <1>1. /\ TypedSession(a) /\ Coherent(a) /\ Keeps(s, a) /\ a.phase = s.phase
    BY PromoteSteerType, PromoteSteerCoherent
  <1>2. /\ TypedSession(p) /\ Coherent(p) /\ Keeps(s, p) /\ p.phase = s.phase
    <2> HIDE DEF a
    <2>1. CASE a.pending = <<>>
      BY <1>1, <2>1, PromoteNextType, PromoteNextCoherent, KeepsThenMoves
    <2>2. CASE a.pending # <<>>
      BY <1>1, <2>2
    <2> QED
      BY <2>1, <2>2
  <1>3. CASE HasActiveResponse(s)
    BY <1>3 DEF ProcessNextSessionWork, Moves, Keeps
  <1>4. CASE ~HasActiveResponse(s)
    <2> SUFFICES Coherent(next) /\ Moves(s, next)
      OBVIOUS
    <2>1. \/ p.pending # <<>> /\ p.timer /\ next = p
          \/ p.pending # <<>> /\ ~p.timer /\ next = BeginGeneration(p)
          \/ p.pending = <<>> /\ p.triggers # <<>> /\ next = trigger
          \/ p.pending = <<>> /\ next = inline
          \/ next = p
      BY <1>4 DEF ProcessNextSessionWork
    <2>2. ~HasActiveResponse(p)
      BY <1>2, <1>4 DEF HasActiveResponse, IsResponding, IsGenerating
    <2>3. p.pending = <<>> => ~p.timer
      BY <1>2 DEF Coherent, TimerMeansPending
    <2> HIDE DEF p, next
    <2>4. p \in Session /\ p.pending \in Seq(Msgs) /\ p.triggers \in Seq(Triggers)
          /\ p.inlines \in Seq(Events)
      BY <1>2, FieldTypes
    <2>5. CASE next = p
      BY <1>2, <2>5 DEF Moves
    <2>6. CASE p.pending # <<>> /\ ~p.timer /\ next = BeginGeneration(p)
      BY <1>2, <2>2, <2>6, BeginCoherent, KeepsThenMoves
    <2>7. CASE p.pending = <<>> /\ p.triggers # <<>> /\ next = trigger
      <3>1. Tail(p.triggers) \in Seq(Triggers) /\ Head(p.triggers) \in Triggers
        BY <2>4, <2>7
      <3>2. u \in Session /\ SameView(p, u) /\ u.pending = p.pending
            /\ u.respCtl = p.respCtl
        BY <2>4, <3>1 DEF Session, SameView
      <3>3. TypedSession(u)
        BY <1>2, <3>2 DEF TypedSession, SameView
      <3> HIDE DEF u
      <3>4. Coherent(u) /\ Keeps(p, u)
        BY <1>2, <2>3, <2>7, <3>2, ViewCoherent DEF SameView
      <3>5. ~HasActiveResponse(u) /\ ~u.timer
        BY <2>2, <2>3, <2>7, <3>2 DEF SameView, HasActiveResponse, IsResponding, IsGenerating
      <3>6. "trigger" \in RunKinds \ {"chat"} /\ <<>> \in Seq(Events)
        BY DEF RunKinds
      <3>7. Coherent(trigger) /\ Moves(u, trigger)
        BY <3>1, <3>3, <3>4, <3>5, <3>6, BeginSyntheticCoherent
      <3> HIDE DEF trigger
      <3>8. Moves(s, trigger)
        BY <1>2, <3>4, <3>7, KeepsThenMoves
      <3> QED
        BY <2>7, <3>7, <3>8
    <2>8. CASE p.pending = <<>> /\ next = inline
      <3>1. <<>> \in Seq(Events)
        OBVIOUS
      <3>2. v \in Session /\ SameView(p, v) /\ v.pending = p.pending
            /\ v.respCtl = p.respCtl
        BY <2>4, <3>1 DEF Session, SameView
      <3>3. TypedSession(v)
        BY <1>2, <3>2 DEF TypedSession, SameView
      <3> HIDE DEF v
      <3>4. Coherent(v) /\ Keeps(p, v)
        BY <1>2, <2>3, <2>8, <3>2, ViewCoherent DEF SameView
      <3>5. ~HasActiveResponse(v) /\ ~v.timer
        BY <2>2, <2>3, <2>8, <3>2 DEF SameView, HasActiveResponse, IsResponding, IsGenerating
      <3>6. "inline" \in RunKinds \ {"chat"}
        BY DEF RunKinds
      <3>7. Coherent(inline) /\ Moves(v, inline)
        BY <2>4, <3>3, <3>4, <3>5, <3>6, BeginSyntheticCoherent
      <3> HIDE DEF inline
      <3>8. Moves(s, inline)
        BY <1>2, <3>4, <3>7, KeepsThenMoves
      <3> QED
        BY <2>8, <3>7, <3>8
    <2> QED
      BY <2>1, <2>5, <2>6, <2>7, <2>8
  <1> QED
    BY <1>3, <1>4

-----------------------------------------------------------------------------
(* Closing a response: coherent but for the phase and the controller, the  *)
(* session is at rest once its response is completed.                      *)

Closable(s) ==
    /\ EpochsNumberRuns(s) /\ BatchesHaveMessages(s)
    /\ s.timer => s.pending # <<>>
    /\ \A r \in DOMAIN s.run :
          /\ s.run[r].stage # "setup"
          /\ s.run[r].stage \in {"prep", "exec"} =>
               s.run[r].genAb /\ s.run[r].mepoch < s.mutationEpoch

(* The response is closed, or the next one is already open. *)
Closes(s, t) ==
    \/ t.responseEpoch = s.responseEpoch /\ ~IsResponding(t) /\ t.genCtl = 0
    \/ t.responseEpoch = s.responseEpoch + 1 /\ t.genCtl # 0

LEMMA ClosesMoves ==
    ASSUME NEW s, NEW a, NEW t, a.responseEpoch = s.responseEpoch, Closes(a, t)
    PROVE  Moves(s, t)
  BY DEF Closes, Moves, Keeps

LEMMA CompleteCoherent ==
    ASSUME NEW s, TypedSession(s), Closable(s), s.genCtl = 0
    PROVE  LET c == CompleteResponse(s, s.responseEpoch) IN
           /\ Coherent(c) /\ ~IsResponding(c)
           /\ c.responseEpoch = s.responseEpoch /\ c.genCtl = 0
  <1> DEFINE c == CompleteResponse(s, s.responseEpoch)
  <1>1. /\ c.phase = "idle" /\ c.genCtl = 0
        /\ c.responseEpoch = s.responseEpoch /\ c.mutationEpoch = s.mutationEpoch
        /\ c.queued = s.queued /\ c.pending = s.pending
        /\ c.timer = s.timer /\ c.run = s.run
    BY FieldTypes DEF CompleteResponse, Session
  <1> HIDE DEF c
  <1>2. ~IsResponding(c) /\ ~IsGenerating(c) /\ c.phase # "delivering"
    BY <1>1 DEF IsResponding, IsGenerating, GeneratingPhases
  <1>3. Coherent(c)
    BY <1>1, <1>2 DEF Closable, Coherent, EpochsNumberRuns, OwnerIsNewest,
       OthersAreAborted, DeliveryHasRun, TimerMeansPending, BatchesHaveMessages
  <1> QED
    BY <1>1, <1>2, <1>3 DEF c

LEMMA CompleteAndContinueCoherent ==
    ASSUME NEW s, TypedSession(s), Closable(s), s.genCtl = 0
    PROVE  /\ Coherent(CompleteAndContinue(s, s.responseEpoch))
           /\ Closes(s, CompleteAndContinue(s, s.responseEpoch))
  <1> DEFINE c == CompleteResponse(s, s.responseEpoch)
             t == ProcessNextSessionWork(c)
  <1>1. /\ Coherent(c) /\ ~IsResponding(c)
        /\ c.responseEpoch = s.responseEpoch /\ c.genCtl = 0
    BY CompleteCoherent
  <1>2. TypedSession(c)
    BY CompleteResponseType
  <1>3. CompleteAndContinue(s, s.responseEpoch) = t
    BY DEF CompleteAndContinue
  <1>4. Coherent(t) /\ Moves(c, t)
    <2> HIDE DEF c
    <2> QED
      BY <1>1, <1>2, ProcessNextCoherent
  <1> HIDE DEF c, t
  <1>5. Closes(s, t)
    BY <1>1, <1>4 DEF Moves, Keeps, Closes
  <1> QED
    BY <1>3, <1>4, <1>5

LEMMA GiveBackCoherent ==
    ASSUME NEW s, TypedSession(s), Closable(s), s.genCtl # 0, s.genCtl = s.responseEpoch
    PROVE  Coherent(GiveBack(s, s.genCtl)) /\ Closes(s, GiveBack(s, s.genCtl))
  <1> DEFINE f == FinishGeneration(s, s.genCtl)
             t == CompleteAndContinue(f, f.responseEpoch)
  <1>1. TypedSession(f)
    BY FinishGenerationType
  <1>2. /\ f.genCtl = 0
        /\ f.responseEpoch = s.responseEpoch /\ f.mutationEpoch = s.mutationEpoch
        /\ f.queued = s.queued /\ f.pending = s.pending
        /\ f.timer = s.timer /\ f.run = s.run
    BY FieldTypes DEF FinishGeneration, Session
  <1>3. s.run[s.genCtl].repoch = f.responseEpoch
    <2>1. s.genCtl \in DOMAIN s.run
      BY FieldTypes
    <2> QED
      BY <1>2, <2>1 DEF Closable, EpochsNumberRuns
  <1>4. GiveBack(s, s.genCtl) = t
    BY <1>3 DEF GiveBack, CompleteAndContinue
  <1> HIDE DEF f
  <1>5. Closable(f)
    BY <1>2 DEF Closable, EpochsNumberRuns, BatchesHaveMessages
  <1>6. Coherent(t) /\ Closes(f, t)
    BY <1>1, <1>2, <1>5, CompleteAndContinueCoherent
  <1> HIDE DEF t
  <1> QED
    BY <1>2, <1>4, <1>6 DEF Closes

(* A run ends: its closure no longer counts. *)
LEMMA EndRunFields ==
    ASSUME NEW s, TypedSession(s), NEW r \in DOMAIN s.run
    PROVE  LET e == EndRun(s, r) IN
           /\ e.phase = s.phase
           /\ e.responseEpoch = s.responseEpoch /\ e.mutationEpoch = s.mutationEpoch
           /\ e.genCtl = s.genCtl
           /\ e.queued = s.queued /\ e.pending = s.pending /\ e.steer = s.steer
           /\ e.timer = s.timer
           /\ e.run = [s.run EXCEPT ![r] = Released(s.run[r])]
  <1> DEFINE q == [s.run EXCEPT ![r] = Released(s.run[r])]
  <1>1. EndRun(s, r) = [s EXCEPT !.run = q] /\ s \in Session
    BY FieldTypes DEF EndRun
  <1> HIDE DEF q
  <1>2. LET e == EndRun(s, r) IN
           /\ e.phase = s.phase
           /\ e.responseEpoch = s.responseEpoch /\ e.mutationEpoch = s.mutationEpoch
           /\ e.genCtl = s.genCtl
           /\ e.queued = s.queued /\ e.pending = s.pending /\ e.steer = s.steer
           /\ e.timer = s.timer
           /\ e.run = q
    BY <1>1 DEF Session
  <1> QED
    BY <1>2 DEF q

(* The end of the run that owned the controller, or of any run when nobody *)
(* does, leaves a response that can be closed.                             *)
LEMMA EndRunClosable ==
    ASSUME NEW s, TypedSession(s), Coherent(s), NEW r \in DOMAIN s.run,
           s.genCtl \in {0, r},
           NEW t, TypedSession(t), t.run = s.run,
           t.responseEpoch = s.responseEpoch, t.mutationEpoch = s.mutationEpoch,
           t.queued = s.queued, t.timer => t.pending # <<>>
    PROVE  Closable(EndRun(t, r))
  <1> DEFINE e == EndRun(t, r)
             x == Released(t.run[r])
  <1>1. /\ e.responseEpoch = s.responseEpoch /\ e.mutationEpoch = s.mutationEpoch
        /\ e.queued = s.queued
        /\ e.timer => e.pending # <<>>
        /\ e.run = [s.run EXCEPT ![r] = x]
    BY EndRunFields
  <1>2. x.stage = "done" /\ x.repoch = s.run[r].repoch /\ x.mepoch = 0
    BY DEF Released
  <1> HIDE DEF e, x
  <1>3. /\ DOMAIN e.run = DOMAIN s.run /\ Len(e.run) = Len(s.run)
        /\ e.run[r] = x
        /\ \A i \in DOMAIN s.run : i # r => e.run[i] = s.run[i]
        /\ s.mutationEpoch \in Nat
    BY <1>1, FieldTypes
  <1>4. EpochsNumberRuns(e)
    BY <1>1, <1>2, <1>3 DEF Coherent, EpochsNumberRuns
  <1>5. BatchesHaveMessages(e)
    BY <1>1, <1>2, <1>3 DEF Coherent, BatchesHaveMessages
  <1>6. \A i \in DOMAIN e.run :
          /\ e.run[i].stage # "setup"
          /\ e.run[i].stage \in {"prep", "exec"} =>
               e.run[i].genAb /\ e.run[i].mepoch < e.mutationEpoch
    <2> SUFFICES ASSUME NEW i \in DOMAIN s.run
                 PROVE  /\ e.run[i].stage # "setup"
                        /\ e.run[i].stage \in {"prep", "exec"} =>
                             e.run[i].genAb /\ e.run[i].mepoch < e.mutationEpoch
      BY <1>3
    <2>1. CASE i = r
      BY <1>2, <1>3, <2>1
    <2>2. CASE i # r
      <3>1. i # s.genCtl
        BY <2>2, FieldTypes
      <3> QED
        BY <1>1, <1>3, <2>2, <3>1 DEF Coherent, OthersAreAborted
    <2> QED
      BY <2>1, <2>2
  <1> QED
    BY <1>1, <1>4, <1>5, <1>6 DEF Closable, e

(* The end of any other run changes nothing. *)
LEMMA EndRunCoherent ==
    ASSUME NEW s, TypedSession(s), Coherent(s), NEW r \in DOMAIN s.run, r # s.genCtl,
           ~(s.phase = "delivering" /\ r = Len(s.run))
    PROVE  Coherent(EndRun(s, r)) /\ Keeps(s, EndRun(s, r))
  <1> DEFINE x == Released(s.run[r])
  <1>1. x \in Run
    <2>1. s.run[r] \in Run /\ <<>> \in Seq(Msgs) /\ <<>> \in Seq(Events)
          /\ "done" \in RunStages
      BY FieldTypes DEF RunStages
    <2> QED
      BY <2>1 DEF Run, Released
  <1>2. x.stage = "done" /\ x.repoch = r /\ x.mepoch = 0 /\ x.mepoch <= s.mutationEpoch
    BY FieldTypes DEF Released, Coherent, EpochsNumberRuns
  <1>3. EndRun(s, r) = WithRun(s, r, x)
    BY DEF EndRun, WithRun
  <1> HIDE DEF x
  <1>4. Coherent(WithRun(s, r, x)) /\ Keeps(s, WithRun(s, r, x))
    BY <1>1, <1>2, WithRunCoherent
  <1> QED
    BY <1>3, <1>4

-----------------------------------------------------------------------------
(* Interrupting and clearing: nobody generates unaborted any more, and the *)
(* next mutation epoch supersedes every run.                               *)

Cancelled(s) ==
    /\ EpochsNumberRuns(s) /\ BatchesHaveMessages(s)
    /\ s.timer => s.pending # <<>>
    /\ s.genCtl = 0
    /\ \A r \in DOMAIN s.run :
          /\ s.run[r].stage # "setup"
          /\ s.run[r].stage \in {"prep", "exec"} => s.run[r].genAb

LEMMA CancelCancels ==
    ASSUME NEW s, TypedSession(s), Coherent(s)
    PROVE  LET t == CancelGeneration(s) IN
           /\ Cancelled(t)
           /\ t.responseEpoch = s.responseEpoch /\ t.mutationEpoch = s.mutationEpoch
  <1> DEFINE t == CancelGeneration(s)
  <1>1. CASE s.genCtl = 0
    <2>1. t = s
      BY <1>1 DEF CancelGeneration
    <2>2. s.timer => s.pending # <<>>
      BY DEF Coherent, TimerMeansPending
    <2>3. \A r \in DOMAIN s.run :
            /\ s.run[r].stage # "setup"
            /\ s.run[r].stage \in {"prep", "exec"} => s.run[r].genAb
      BY <1>1, FieldTypes DEF Coherent, OthersAreAborted
    <2> HIDE DEF t
    <2> QED
      BY <1>1, <2>1, <2>2, <2>3 DEF Cancelled, Coherent, t
  <1>2. CASE s.genCtl # 0
    <2> DEFINE g == s.genCtl
               x == [s.run[g] EXCEPT !.genAb = TRUE]
    <2>1. IsGenerating(s) /\ g \in DOMAIN s.run /\ s.run[g] \in Run
      BY <1>2, FieldTypes DEF Coherent, OwnerIsNewest
    <2>2. /\ t.responseEpoch = s.responseEpoch /\ t.mutationEpoch = s.mutationEpoch
          /\ t.genCtl = 0
          /\ t.queued = s.queued /\ t.pending = s.pending
          /\ t.timer = s.timer
          /\ t.run = [s.run EXCEPT ![g] = x]
      BY <1>2, <2>1, FieldTypes DEF CancelGeneration, Session
    <2>3. /\ x.genAb = TRUE /\ x.stage = s.run[g].stage /\ x.kind = s.run[g].kind
          /\ x.repoch = s.run[g].repoch /\ x.mepoch = s.run[g].mepoch
          /\ x.input = s.run[g].input
      BY <2>1 DEF Run
    <2> HIDE DEF t, x
    <2>4. /\ DOMAIN t.run = DOMAIN s.run /\ Len(t.run) = Len(s.run)
          /\ t.run[g] = x
          /\ \A i \in DOMAIN s.run : i # g => t.run[i] = s.run[i]
      BY <2>1, <2>2, FieldTypes
    <2> HIDE DEF g
    <2>5. EpochsNumberRuns(t)
      BY <2>1, <2>2, <2>3, <2>4 DEF Coherent, EpochsNumberRuns
    <2>6. BatchesHaveMessages(t)
      BY <2>1, <2>2, <2>3, <2>4 DEF Coherent, BatchesHaveMessages
    <2>7. \A i \in DOMAIN t.run :
            /\ t.run[i].stage # "setup"
            /\ t.run[i].stage \in {"prep", "exec"} => t.run[i].genAb
      BY <2>1, <2>3, <2>4 DEF Coherent, OthersAreAborted, g
    <2>8. t.timer => t.pending # <<>>
      BY <2>2 DEF Coherent, TimerMeansPending
    <2> QED
      BY <2>2, <2>5, <2>6, <2>7, <2>8 DEF Cancelled, t
  <1> QED
    BY <1>1, <1>2, FieldTypes

LEMMA AbortResponseCancelled ==
    ASSUME NEW s, TypedSession(s), Cancelled(s)
    PROVE  LET t == AbortResponse(s) IN
           /\ Cancelled(t)
           /\ t.responseEpoch = s.responseEpoch /\ t.mutationEpoch = s.mutationEpoch
  <1> DEFINE t == AbortResponse(s)
  <1>1. CASE s.respCtl = 0
    BY <1>1 DEF AbortResponse
  <1>2. CASE s.respCtl # 0
    <2> DEFINE g == s.respCtl
               x == [s.run[g] EXCEPT !.respAb = TRUE]
    <2>1. g \in DOMAIN s.run /\ s.run[g] \in Run
      BY <1>2, FieldTypes
    <2>2. /\ t.responseEpoch = s.responseEpoch /\ t.mutationEpoch = s.mutationEpoch
          /\ t.genCtl = s.genCtl
          /\ t.queued = s.queued /\ t.pending = s.pending
          /\ t.timer = s.timer
          /\ t.run = [s.run EXCEPT ![g] = x]
      BY <1>2, <2>1, FieldTypes DEF AbortResponse, Session
    <2>3. /\ x.genAb = s.run[g].genAb /\ x.stage = s.run[g].stage /\ x.kind = s.run[g].kind
          /\ x.repoch = s.run[g].repoch /\ x.mepoch = s.run[g].mepoch
          /\ x.input = s.run[g].input
      BY <2>1 DEF Run
    <2> HIDE DEF t, x
    <2>4. /\ DOMAIN t.run = DOMAIN s.run /\ Len(t.run) = Len(s.run)
          /\ t.run[g] = x
          /\ \A i \in DOMAIN s.run : i # g => t.run[i] = s.run[i]
      BY <2>1, <2>2, FieldTypes
    <2> HIDE DEF g
    <2>5. EpochsNumberRuns(t)
      BY <2>1, <2>2, <2>3, <2>4 DEF Cancelled, EpochsNumberRuns
    <2>6. BatchesHaveMessages(t)
      BY <2>1, <2>2, <2>3, <2>4 DEF Cancelled, BatchesHaveMessages
    <2>7. \A i \in DOMAIN t.run :
            /\ t.run[i].stage # "setup"
            /\ t.run[i].stage \in {"prep", "exec"} => t.run[i].genAb
      BY <2>1, <2>3, <2>4 DEF Cancelled
    <2> QED
      BY <2>2, <2>5, <2>6, <2>7 DEF Cancelled, t
  <1> QED
    BY <1>1, <1>2

(* A cancelled session in the next mutation epoch is coherent when idle. *)
LEMMA SupersededCoherent ==
    ASSUME NEW s, TypedSession(s), Cancelled(s),
           NEW t, t.phase = "idle", t.genCtl = 0, t.run = s.run,
           t.responseEpoch = s.responseEpoch, t.mutationEpoch = s.mutationEpoch + 1,
           t.timer => t.pending # <<>>,
           \A i \in DOMAIN t.queued : t.queued[i] # <<>>
    PROVE  Coherent(t) /\ ~IsResponding(t)
  <1>1. ~IsResponding(t) /\ ~IsGenerating(t) /\ t.phase # "delivering"
    BY DEF IsResponding, IsGenerating, GeneratingPhases
  <1>2. s.mutationEpoch \in Nat
        /\ \A r \in DOMAIN s.run : s.run[r].mepoch \in Nat /\ s.run[r].mepoch <= s.mutationEpoch
    BY FieldTypes DEF Cancelled, EpochsNumberRuns, Run
  <1>3. EpochsNumberRuns(t)
    BY <1>2 DEF Cancelled, EpochsNumberRuns
  <1>4. OthersAreAborted(t)
    BY <1>2 DEF Cancelled, OthersAreAborted
  <1>5. BatchesHaveMessages(t)
    BY DEF Cancelled, BatchesHaveMessages
  <1> QED
    BY <1>1, <1>3, <1>4, <1>5 DEF Coherent, OwnerIsNewest, DeliveryHasRun, TimerMeansPending

LEMMA InterruptCoherent ==
    ASSUME NEW s, TypedSession(s), Coherent(s)
    PROVE  LET t == InterruptResponse(s) IN
           Coherent(t) /\ Closes(s, t) /\ ~IsResponding(t)
  <1> DEFINE p == PromoteSteer(s)
             c == CancelGeneration(p)
             a == AbortResponse(c)
             t == InterruptResponse(s)
  <1>1. TypedSession(p) /\ Coherent(p)
    BY PromoteSteerType, PromoteSteerCoherent
  <1>2. p.responseEpoch = s.responseEpoch /\ p.mutationEpoch = s.mutationEpoch
    BY FieldTypes DEF PromoteSteer, Session
  <1>3. /\ TypedSession(c) /\ Cancelled(c)
        /\ c.responseEpoch = s.responseEpoch /\ c.mutationEpoch = s.mutationEpoch
    <2> HIDE DEF p
    <2> QED
      BY <1>1, <1>2, CancelGenerationType, CancelCancels
  <1>4. /\ TypedSession(a) /\ Cancelled(a)
        /\ a.responseEpoch = s.responseEpoch /\ a.mutationEpoch = s.mutationEpoch
    <2> HIDE DEF c
    <2> QED
      BY <1>3, AbortResponseType, AbortResponseCancelled
  <1>5. t = [a EXCEPT !.mutationEpoch = s.mutationEpoch + 1, !.phase = "idle",
                      !.target = NoUser]
    BY DEF InterruptResponse
  <1> HIDE DEF a, t
  <1>6. /\ t.phase = "idle" /\ t.genCtl = a.genCtl /\ t.run = a.run
        /\ t.responseEpoch = a.responseEpoch /\ t.mutationEpoch = a.mutationEpoch + 1
        /\ t.timer = a.timer /\ t.pending = a.pending /\ t.queued = a.queued
    BY <1>4, <1>5, FieldTypes DEF Session
  <1>7. /\ t.genCtl = 0 /\ t.timer => t.pending # <<>>
        /\ \A i \in DOMAIN t.queued : t.queued[i] # <<>>
    BY <1>4, <1>6 DEF Cancelled, BatchesHaveMessages
  <1>8. Coherent(t) /\ ~IsResponding(t)
    BY <1>4, <1>6, <1>7, SupersededCoherent DEF Cancelled
  <1>9. Closes(s, t)
    BY <1>4, <1>6, <1>8 DEF Closes, Cancelled
  <1> QED
    BY <1>8, <1>9 DEF t

(* .clear cancels the generation first. *)
LEMMA ClearCoherent ==
    ASSUME NEW s, TypedSession(s), Coherent(s)
    PROVE  LET t == ClearSession(CancelGeneration(s)) IN Coherent(t) /\ Closes(s, t)
  <1> DEFINE g == CancelGeneration(s)
             c == ClearTimer(g)
             a == AbortResponse(c)
             t == ClearSession(g)
             none == <<>>
  <1>1. /\ TypedSession(g) /\ Cancelled(g)
        /\ g.responseEpoch = s.responseEpoch /\ g.mutationEpoch = s.mutationEpoch
    BY CancelGenerationType, CancelCancels
  <1>2. /\ TypedSession(c) /\ Cancelled(c)
        /\ c.responseEpoch = s.responseEpoch /\ c.mutationEpoch = s.mutationEpoch
    <2> HIDE DEF g
    <2>1. /\ c.responseEpoch = g.responseEpoch /\ c.mutationEpoch = g.mutationEpoch
          /\ c.genCtl = g.genCtl /\ c.run = g.run /\ c.queued = g.queued
          /\ ~c.timer
      BY <1>1, FieldTypes DEF ClearTimer, Session
    <2> HIDE DEF c
    <2>2. Cancelled(c)
      BY <1>1, <2>1 DEF Cancelled, EpochsNumberRuns, BatchesHaveMessages
    <2> QED
      BY <1>1, <2>1, <2>2, ClearTimerType DEF c
  <1>3. /\ TypedSession(a) /\ Cancelled(a)
        /\ a.responseEpoch = s.responseEpoch /\ a.mutationEpoch = s.mutationEpoch
    <2> HIDE DEF c
    <2> QED
      BY <1>2, AbortResponseType, AbortResponseCancelled
  <1>4. AbortAllControllers(c) = a
    BY <1>2 DEF AbortAllControllers, Cancelled
  <1>5. t = [a EXCEPT !.mutationEpoch = g.mutationEpoch + 1, !.pending = none,
                      !.steer = none, !.queued = none, !.waits = 0, !.target = NoUser,
                      !.triggers = none, !.inlines = none, !.phase = "idle",
                      !.genCtl = 0, !.respCtl = 0, !.outCtl = "none"]
    BY <1>4 DEF ClearSession
  <1> HIDE DEF a, c, g, t, none
  <1>6. /\ t.phase = "idle" /\ t.genCtl = 0 /\ t.run = a.run
        /\ t.responseEpoch = a.responseEpoch /\ t.mutationEpoch = a.mutationEpoch + 1
        /\ t.timer = a.timer /\ t.queued = none
    BY <1>1, <1>3, <1>5, FieldTypes DEF Session
  <1>7. ~t.timer
    <2>1. ~c.timer
      BY <1>1, FieldTypes DEF ClearTimer, Session, c
    <2>2. a.timer = c.timer
      BY <1>2, FieldTypes DEF AbortResponse, Session, a
    <2> QED
      BY <1>6, <2>1, <2>2
  <1>8. \A i \in DOMAIN t.queued : t.queued[i] # <<>>
    BY <1>6 DEF none
  <1>9. Coherent(t) /\ ~IsResponding(t)
    BY <1>3, <1>6, <1>7, <1>8, SupersededCoherent
  <1>10. Closes(s, t)
    BY <1>3, <1>6, <1>9 DEF Closes
  <1> QED
    BY <1>9, <1>10 DEF t, g

-----------------------------------------------------------------------------
(* The handlers *)

LEMMA AdmitCoherent ==
    ASSUME TypeOK, Coherent(session), Admit
    PROVE  Coherent(session') /\ Moves(session, session')
  <1> DEFINE m == Head(admitting).msg
  <1>1. TypedSession(session) /\ m \in Msgs
        /\ session' \in {QueueForNextThread(m), ReplyNow(m), InterruptWith(m), SteerWith(m)}
    BY AdmitCases DEF TypeOK
  <1> HIDE DEF m
  <1>2. CASE session' = QueueForNextThread(m)
    <2> DEFINE e == EnqueueGroupReplyTarget(session, m)
               p == PromoteNextTarget(e)
    <2>1. /\ TypedSession(e) /\ Coherent(e) /\ Keeps(session, e)
          /\ e.phase = session.phase /\ e.queued # <<>>
      BY <1>1, EnqueueType, EnqueueCoherent
    <2>2. \/ session' = e
          \/ ~HasActiveResponse(session) /\ session' = Schedule(p)
      BY <1>2 DEF QueueForNextThread
    <2>3. CASE session' = e
      BY <2>1, <2>3 DEF Moves
    <2>4. CASE ~HasActiveResponse(session) /\ session' = Schedule(p)
      <3>1. /\ TypedSession(p) /\ Coherent(p) /\ Keeps(session, p)
            /\ p.phase = session.phase /\ p.pending # <<>>
        <4> HIDE DEF e
        <4> QED
          BY <2>1, PromoteNextType, PromoteNextCoherent, KeepsThenMoves
      <3> HIDE DEF p
      <3>2. ~IsResponding(p)
        BY <2>4, <3>1 DEF HasActiveResponse, IsResponding, IsGenerating
      <3> QED
        BY <2>4, <3>1, <3>2, ScheduleCoherent, KeepsThenMoves DEF Moves
    <2> QED
      BY <2>2, <2>3, <2>4
  <1>3. CASE session' = ReplyNow(m)
    <2> DEFINE p == AppendPending(session, m)
    <2>1. /\ TypedSession(p) /\ Coherent(p) /\ Keeps(session, p)
          /\ p.phase = session.phase /\ p.pending # <<>>
      BY <1>1, AppendPendingType, AppendPendingCoherent
    <2>2. \/ session' = p
          \/ ~HasActiveResponse(session) /\ session' = Schedule(p)
      BY <1>3 DEF ReplyNow
    <2> HIDE DEF p
    <2>3. CASE session' = p
      BY <2>1, <2>3 DEF Moves
    <2>4. CASE ~HasActiveResponse(session) /\ session' = Schedule(p)
      <3>1. ~IsResponding(p)
        BY <2>1, <2>4 DEF HasActiveResponse, IsResponding, IsGenerating
      <3> QED
        BY <2>1, <2>4, <3>1, ScheduleCoherent, KeepsThenMoves DEF Moves
    <2> QED
      BY <2>2, <2>3, <2>4
  <1>4. CASE session' = InterruptWith(m)
    <2> DEFINE i == InterruptResponse(session)
               p == AppendPending(i, m)
    <2>1. /\ TypedSession(i) /\ Coherent(i) /\ Closes(session, i) /\ ~IsResponding(i)
      BY <1>1, InterruptResponseType, InterruptCoherent
    <2>2. i.responseEpoch = session.responseEpoch /\ i.genCtl = 0
      <3>1. ~IsGenerating(i)
        BY <2>1 DEF IsResponding
      <3>2. i.genCtl = 0
        BY <2>1, <3>1 DEF Coherent, OwnerIsNewest
      <3> QED
        BY <2>1, <3>2 DEF Closes
    <2>3. session' = Schedule(p)
      BY <1>4 DEF InterruptWith
    <2>4. /\ TypedSession(p) /\ Coherent(p) /\ Keeps(i, p)
          /\ p.phase = i.phase /\ p.pending # <<>>
      <3> HIDE DEF i
      <3> QED
        BY <1>1, <2>1, AppendPendingType, AppendPendingCoherent
    <2> HIDE DEF i, p
    <2>5. ~IsResponding(p)
      BY <2>1, <2>4 DEF IsResponding, IsGenerating
    <2>6. Coherent(Schedule(p)) /\ Keeps(i, Schedule(p))
      BY <2>4, <2>5, ScheduleCoherent, KeepsThenMoves
    <2>7. Moves(session, session')
      BY <2>1, <2>2, <2>3, <2>6 DEF Keeps, Moves
    <2> QED
      BY <2>3, <2>6, <2>7
  <1>5. CASE session' = SteerWith(m)
    <2> DEFINE o == InterruptOutbound(session)
    <2>1. TypedSession(o) /\ Coherent(o) /\ Keeps(session, o)
      BY <1>1, InterruptOutboundType, InterruptOutboundCoherent
    <2>2. session' \in {AppendSteer(o, m), AppendPending(o, m)}
      BY <1>5 DEF SteerWith
    <2> HIDE DEF o
    <2>3. Coherent(session') /\ Keeps(o, session')
      BY <1>1, <2>1, <2>2, AppendSteerCoherent, AppendPendingCoherent
    <2> QED
      BY <2>1, <2>3, KeepsThenMoves DEF Moves
  <1> QED
    BY <1>1, <1>2, <1>3, <1>4, <1>5

LEMMA TimerAndDispatchCoherent ==
    ASSUME TypeOK, Coherent(session),
           \/ DebounceFire
           \/ \E t \in Triggers : DispatchScheduled(t)
           \/ \E e \in Events : DispatchEvent(e)
    PROVE  Coherent(session') /\ Moves(session, session')
  <1>0. TypedSession(session) /\ session \in Session
    BY FieldTypes DEF TypeOK
  <1>1. CASE DebounceFire
    <2> DEFINE c == ClearTimer(session)
    <2>1. session.timer /\ session' = FlushSession(c)
      BY <1>1 DEF DebounceFire
    <2>2. session.pending # <<>> /\ ~IsResponding(session)
      BY <2>1 DEF Coherent, TimerMeansPending
    <2>3. /\ TypedSession(c) /\ Coherent(c) /\ Keeps(session, c)
          /\ ~c.timer /\ c.pending # <<>> /\ ~IsResponding(c)
      BY <1>0, <2>2, ClearTimerType, ClearTimerCoherent
    <2> HIDE DEF c
    <2>4. ~HasActiveResponse(c)
      BY <2>3 DEF HasActiveResponse, IsResponding
    <2>5. session' = BeginGeneration(c)
      BY <2>1, <2>3 DEF FlushSession
    <2>6. Coherent(session') /\ Moves(c, session')
      BY <2>3, <2>4, <2>5, BeginCoherent
    <2> QED
      BY <2>3, <2>6, KeepsThenMoves
  <1>2. ASSUME NEW t \in Triggers, DispatchScheduled(t)
        PROVE  Coherent(session') /\ Moves(session, session')
    <2> DEFINE q == Append(session.triggers, t)
               u == [session EXCEPT !.triggers = q]
               b == BeginSyntheticGeneration(session, "trigger", t, <<>>)
    <2>1. \/ session' = u
          \/ ~HasActiveResponse(session) /\ session.pending = <<>> /\ session' = b
      BY <1>2 DEF DispatchScheduled
    <2>2. CASE session' = u
      <3> HIDE DEF q
      <3>1. SameView(session, u) /\ u.pending = session.pending
        BY <1>0 DEF Session, SameView
      <3> HIDE DEF u
      <3>2. u.timer => u.pending # <<>>
        BY <3>1 DEF Coherent, TimerMeansPending, SameView
      <3> QED
        BY <2>2, <3>1, <3>2, ViewCoherent DEF Moves
    <2>3. CASE ~HasActiveResponse(session) /\ session.pending = <<>> /\ session' = b
      <3>1. ~session.timer
        BY <2>3 DEF Coherent, TimerMeansPending
      <3>2. "trigger" \in RunKinds \ {"chat"} /\ <<>> \in Seq(Events)
            /\ t \in Triggers \cup {NoTrigger}
        BY DEF RunKinds
      <3> QED
        BY <1>0, <2>3, <3>1, <3>2, BeginSyntheticCoherent
    <2> QED
      BY <2>1, <2>2, <2>3
  <1>3. ASSUME NEW e \in Events, DispatchEvent(e)
        PROVE  Coherent(session') /\ Moves(session, session')
    <2> DEFINE q == Append(session.inlines, e)
               u == [session EXCEPT !.inlines = q]
    <2>1. session' \in {u, ProcessNextSessionWork(u)}
      BY <1>3 DEF DispatchEvent
    <2>2. q \in Seq(Events)
      BY <1>0, FieldTypes
    <2> HIDE DEF q
    <2>3. /\ SameView(session, u) /\ u.pending = session.pending
          /\ u.respCtl = session.respCtl /\ u \in Session
      BY <1>0, <2>2 DEF Session, SameView
    <2> HIDE DEF u
    <2>4. TypedSession(u)
      BY <1>0, <2>3 DEF TypedSession, SameView
    <2>5. u.timer => u.pending # <<>>
      BY <2>3 DEF Coherent, TimerMeansPending, SameView
    <2>6. Coherent(u) /\ Keeps(session, u)
      BY <2>3, <2>5, ViewCoherent
    <2>7. Coherent(session') /\ Moves(u, session')
      BY <2>1, <2>4, <2>6, ProcessNextCoherent DEF Moves, Keeps
    <2> QED
      BY <2>6, <2>7, KeepsThenMoves
  <1> QED
    BY <1>1, <1>2, <1>3

LEMMA CommandCoherent ==
    ASSUME TypeOK, Orderly, NothingOwed, Coherent(session), CommandStep
    PROVE  Coherent(session') /\ Moves(session, session')
  <1>0. TypedSession(session)
    BY DEF TypeOK
  <1>1. "stop" \notin Commands /\ "confirm" \notin Commands /\ "debug" \notin Commands
        /\ "config" \notin Commands /\ "reset" \notin Commands /\ introducing = 0
    BY DEF Orderly, NothingOwed
  <1>2. InterruptCommand("skill") \/ ClearCommand("clear")
    BY <1>1 DEF CommandStep, StopCommand, ConfirmCommand, FlushCommand, InterruptCommand,
       ClearCommand, Introduce, Execute
  <1>3. CASE InterruptCommand("skill")
    <2>1. session' = InterruptResponse(session)
      BY <1>3 DEF InterruptCommand, Execute
    <2> QED
      BY <1>0, <2>1, InterruptCoherent, ClosesMoves
  <1>4. CASE ClearCommand("clear")
    <2>1. session' = ClearSession(CancelGeneration(session))
      BY <1>4 DEF ClearCommand, Execute
    <2> QED
      BY <1>0, <2>1, ClearCoherent, ClosesMoves
  <1> QED
    BY <1>2, <1>3, <1>4

-----------------------------------------------------------------------------
(* The resumptions of a run *)

(* A run that neither generates nor delivers for the open response. *)
LEMMA NotDelivering ==
    ASSUME NEW s, Coherent(s), NEW r \in DOMAIN s.run, s.run[r].stage \in {"prep", "exec"}
    PROVE  ~(s.phase = "delivering" /\ r = Len(s.run))
  BY DEF Coherent, DeliveryHasRun

LEMMA OwnerFacts ==
    ASSUME NEW s, TypedSession(s), Coherent(s), NEW r \in DOMAIN s.run, r = s.genCtl
    PROVE  /\ r # 0 /\ r = Len(s.run) /\ r = s.responseEpoch
           /\ IsGenerating(s) /\ IsResponding(s) /\ ~s.timer
           /\ s.run[r].repoch = r /\ s.run[r].mepoch = s.mutationEpoch
  <1>1. r # 0
    BY FieldTypes
  <1> QED
    BY <1>1 DEF Coherent, EpochsNumberRuns, OwnerIsNewest, TimerMeansPending, IsResponding

LEMMA PrepCoherent ==
    ASSUME TypeOK, Coherent(session), NEW r \in DOMAIN session.run,
           PrepContinue(r) \/ PrepSkip(r) \/ PrepFail(r) \/ PrepWait(r)
    PROVE  Coherent(session') /\ Moves(session, session')
  <1>0. TypedSession(session) /\ session \in Session /\ session.run[r] \in Run
        /\ session.run[r].stage = "prep"
        /\ session.run[r].repoch = r /\ session.run[r].mepoch <= session.mutationEpoch
    BY FieldTypes DEF TypeOK, PrepContinue, PrepSkip, PrepFail, PrepWait, Suspended,
       Coherent, EpochsNumberRuns
  <1>1. CASE PrepContinue(r)
    <2> DEFINE x == [session.run[r] EXCEPT !.stage = "exec"]
    <2>1. /\ x \in Run /\ x.stage = "exec" /\ x.repoch = r
          /\ x.mepoch = session.run[r].mepoch /\ x.genAb = session.run[r].genAb
      <3>1. "exec" \in RunStages
        BY DEF RunStages
      <3> QED
        BY <1>0, <3>1 DEF Run
    <2>2. session' = WithRun(session, r, x)
      BY <1>0, <1>1 DEF PrepContinue, Resumed, WithRun, Session
    <2> HIDE DEF x
    <2>3. r = session.genCtl => ~x.genAb /\ x.mepoch = session.mutationEpoch
      BY <1>0, <2>1, FieldTypes DEF Coherent, OwnerIsNewest
    <2>4. r # session.genCtl => x.genAb /\ x.mepoch < session.mutationEpoch
      BY <1>0, <2>1 DEF Coherent, OthersAreAborted
    <2>5. ~(session.phase = "delivering" /\ r = Len(session.run))
      BY <1>0, NotDelivering
    <2>6. Coherent(WithRun(session, r, x)) /\ Keeps(session, WithRun(session, r, x))
      BY <1>0, <2>1, <2>3, <2>4, <2>5, WithRunCoherent
    <2> QED
      BY <2>2, <2>6 DEF Moves
  <1>2. CASE PrepSkip(r) \/ PrepFail(r)
    <2> DEFINE e == EndRun(session, r)
    <2>1. session' = GiveBack(e, r)
      BY <1>2 DEF PrepSkip, PrepFail, Ended
    <2>2. e.genCtl = session.genCtl /\ e.responseEpoch = session.responseEpoch
      BY <1>0, EndRunFields
    <2>3. TypedSession(e)
      BY <1>0, EndRunType
    <2>4. CASE r = session.genCtl
      <3>1. session.timer => session.pending # <<>>
        BY DEF Coherent, TimerMeansPending
      <3>2. Closable(e)
        BY <1>0, <2>4, <3>1, EndRunClosable
      <3>3. e.genCtl = r /\ r # 0 /\ r = e.responseEpoch
        BY <1>0, <2>2, <2>4, OwnerFacts
      <3> HIDE DEF e
      <3>4. Coherent(session') /\ Closes(e, session')
        BY <2>1, <2>3, <3>2, <3>3, GiveBackCoherent
      <3> QED
        BY <2>2, <3>4 DEF Closes, Moves, Keeps
    <2>5. CASE r # session.genCtl
      <3>1. session' = e
        BY <2>1, <2>2, <2>5 DEF GiveBack
      <3>2. ~(session.phase = "delivering" /\ r = Len(session.run))
        BY <1>0, NotDelivering
      <3> QED
        BY <1>0, <2>5, <3>1, <3>2, EndRunCoherent DEF Moves
    <2> QED
      BY <2>4, <2>5
  <1>3. CASE PrepWait(r)
    <2> DEFINE batch == session.run[r].input
               passes == session.run[r].waits + 1
               q == RequeuePending(session, batch, passes)
               t == Schedule(q)
               e == EndRun(t, r)
    <2>1. r = session.genCtl
      BY <1>0, <1>3 DEF PrepWait, Coherent, OthersAreAborted
    <2>2. batch \in Seq(Msgs) /\ batch # <<>> /\ passes \in Nat
      BY <1>0, <1>3 DEF PrepWait, Coherent, BatchesHaveMessages, Run
    <2> HIDE DEF batch, passes
    <2>3. /\ TypedSession(q) /\ q.run = session.run
          /\ q.responseEpoch = session.responseEpoch
          /\ q.mutationEpoch = session.mutationEpoch
          /\ q.genCtl = session.genCtl
          /\ q.queued = session.queued
          /\ q.pending = batch \o session.pending
      <3>1. TypedSession(q) /\ q.run = session.run
        BY <1>0, <2>2, RequeueType
      <3>2. /\ q.responseEpoch = session.responseEpoch
            /\ q.mutationEpoch = session.mutationEpoch
            /\ q.genCtl = session.genCtl
            /\ q.queued = session.queued
            /\ q.pending = batch \o session.pending
        BY <1>0 DEF RequeuePending, Session
      <3> QED
        BY <3>1, <3>2
    <2> HIDE DEF q
    <2>4. q.pending # <<>>
      BY <1>0, <2>2, <2>3, FieldTypes
    <2>5. /\ TypedSession(t) /\ t.run = session.run
          /\ t.responseEpoch = session.responseEpoch
          /\ t.mutationEpoch = session.mutationEpoch
          /\ t.genCtl = session.genCtl
          /\ t.queued = session.queued
          /\ t.pending # <<>>
      BY <2>3, <2>4, ScheduleType, ScheduleFields
    <2> HIDE DEF t
    <2>6. TypedSession(e) /\ e.genCtl = r /\ e.responseEpoch = session.responseEpoch
      <3>1. r \in DOMAIN t.run
        BY <2>5
      <3>2. e.genCtl = t.genCtl /\ e.responseEpoch = t.responseEpoch
        BY <2>5, <3>1, EndRunFields
      <3> QED
        BY <2>1, <2>5, <3>1, <3>2, EndRunType
    <2>7. Closable(e)
      BY <1>0, <2>1, <2>5, EndRunClosable
    <2>8. session' = GiveBack(e, r)
      BY <1>3 DEF PrepWait, Resumed, e, t, q, batch, passes
    <2> HIDE DEF e
    <2>9. r # 0 /\ r = e.responseEpoch
      BY <1>0, <2>1, <2>6, OwnerFacts
    <2>10. Coherent(session') /\ Closes(e, session')
      BY <2>6, <2>7, <2>8, <2>9, GiveBackCoherent
    <2> QED
      BY <2>6, <2>10 DEF Closes, Moves, Keeps
  <1> QED
    BY <1>1, <1>2, <1>3

LEMMA ExecCoherent ==
    ASSUME TypeOK, Coherent(session), NEW r \in DOMAIN session.run,
           \/ \E phase \in {"requesting", "generating"} : ExecPhase(r, phase)
           \/ ExecConsumeSteer(r) \/ ExecConsumeEvents(r) \/ ExecSuperseded(r)
    PROVE  Coherent(session') /\ Keeps(session, session')
  <1>0. TypedSession(session) /\ session \in Session /\ session.run[r] \in Run
        /\ session.run[r].stage = "exec"
        /\ session.run[r].repoch = r /\ session.run[r].mepoch <= session.mutationEpoch
    BY FieldTypes DEF TypeOK, ExecPhase, ExecConsumeSteer, ExecConsumeEvents, ExecSuperseded,
       Suspended, Coherent, EpochsNumberRuns
  <1>1. ~(session.phase = "delivering" /\ r = Len(session.run))
    BY <1>0, NotDelivering
  <1>2. r = session.genCtl => ~session.run[r].genAb
                              /\ session.run[r].mepoch = session.mutationEpoch
    BY <1>0, FieldTypes DEF Coherent, OwnerIsNewest
  <1>3. r # session.genCtl => session.run[r].genAb
                              /\ session.run[r].mepoch < session.mutationEpoch
    BY <1>0 DEF Coherent, OthersAreAborted
  <1>4. ASSUME NEW phase \in {"requesting", "generating"}, ExecPhase(r, phase)
        PROVE  Coherent(session') /\ Keeps(session, session')
    <2>1. r = session.genCtl
      BY <1>0, <1>3, <1>4, FieldTypes DEF ExecPhase
    <2>2. IsGenerating(session) /\ IsResponding(session) /\ ~session.timer
      BY <1>0, <2>1, OwnerFacts
    <2> DEFINE t == [session EXCEPT !.phase = phase]
    <2>3. /\ t.phase = phase
          /\ t.responseEpoch = session.responseEpoch
          /\ t.mutationEpoch = session.mutationEpoch
          /\ t.genCtl = session.genCtl /\ t.queued = session.queued
          /\ t.pending = session.pending
          /\ t.timer = session.timer /\ t.run = session.run
      BY <1>0 DEF Session
    <2>4. session' = t
      BY <1>4 DEF ExecPhase, Resumed
    <2> HIDE DEF t
    <2>5. IsGenerating(t) /\ t.phase # "delivering"
      BY <2>3 DEF IsGenerating, GeneratingPhases
    <2>6. Coherent(t) /\ Keeps(session, t)
      BY <2>2, <2>3, <2>5 DEF Coherent, Keeps, EpochsNumberRuns, OwnerIsNewest,
         OthersAreAborted, DeliveryHasRun, TimerMeansPending, BatchesHaveMessages
    <2> QED
      BY <2>4, <2>6
  <1>5. CASE ExecSuperseded(r)
    <2> DEFINE x == [session.run[r] EXCEPT !.genAb = TRUE, !.respAb = TRUE]
    <2>1. /\ x \in Run /\ x.stage = "exec" /\ x.repoch = r /\ x.genAb
          /\ x.mepoch = session.run[r].mepoch
      BY <1>0 DEF Run
    <2>2. session' = WithRun(session, r, x)
      BY <1>0, <1>5 DEF ExecSuperseded, Resumed, WithRun, Session
    <2>3. r # session.genCtl
      BY <1>2, <1>5 DEF ExecSuperseded
    <2> HIDE DEF x
    <2>4. Coherent(WithRun(session, r, x)) /\ Keeps(session, WithRun(session, r, x))
      BY <1>0, <1>1, <1>3, <2>1, <2>3, WithRunCoherent
    <2> QED
      BY <2>2, <2>4
  <1>6. CASE ExecConsumeSteer(r)
    <2> DEFINE input == session.run[r].input \o session.steer
               x == [session.run[r] EXCEPT !.input = input]
               t == WithRun(session, r, x)
               out == IF session.outCtl = "aborted" THEN "live" ELSE session.outCtl
    <2>1. input \in Seq(Msgs)
      BY <1>0, FieldTypes DEF Run
    <2>2. session' = [t EXCEPT !.steer = <<>>, !.outCtl = out]
      BY <1>0, <1>6 DEF ExecConsumeSteer, Resumed, ConsumeSteer, WithRun, Session
    <2> HIDE DEF input, out
    <2>3. /\ x \in Run /\ x.stage = "exec" /\ x.repoch = r
          /\ x.genAb = session.run[r].genAb /\ x.mepoch = session.run[r].mepoch
      BY <1>0, <2>1 DEF Run
    <2> HIDE DEF x
    <2>4. /\ TypedSession(t) /\ Coherent(t) /\ Keeps(session, t)
      BY <1>0, <1>1, <1>2, <1>3, <2>3, WithRunCoherent, WithRunType
    <2> HIDE DEF t
    <2>5. SameView(t, session') /\ session'.pending = t.pending
      BY <2>2, <2>4, FieldTypes DEF SameView, Session
    <2>6. session'.timer => session'.pending # <<>>
      BY <2>4, <2>5 DEF SameView, Coherent, TimerMeansPending
    <2> QED
      BY <2>4, <2>5, <2>6, ViewCoherent, KeepsThenMoves
  <1>7. CASE ExecConsumeEvents(r)
    <2> DEFINE events == session.run[r].events \o session.inlines
               x == [session.run[r] EXCEPT !.events = events]
               t == WithRun(session, r, x)
    <2>1. events \in Seq(Events)
      BY <1>0, FieldTypes DEF Run
    <2>2. session' = [t EXCEPT !.inlines = <<>>]
      BY <1>0, <1>7 DEF ExecConsumeEvents, Resumed, DrainInlines, WithRun, Session
    <2> HIDE DEF events
    <2>3. /\ x \in Run /\ x.stage = "exec" /\ x.repoch = r
          /\ x.genAb = session.run[r].genAb /\ x.mepoch = session.run[r].mepoch
      BY <1>0, <2>1 DEF Run
    <2> HIDE DEF x
    <2>4. /\ TypedSession(t) /\ Coherent(t) /\ Keeps(session, t)
      BY <1>0, <1>1, <1>2, <1>3, <2>3, WithRunCoherent, WithRunType
    <2> HIDE DEF t
    <2>5. SameView(t, session') /\ session'.pending = t.pending
      BY <2>2, <2>4, FieldTypes DEF SameView, Session
    <2>6. session'.timer => session'.pending # <<>>
      BY <2>4, <2>5 DEF SameView, Coherent, TimerMeansPending
    <2> QED
      BY <2>4, <2>5, <2>6, ViewCoherent, KeepsThenMoves
  <1> QED
    BY <1>4, <1>5, <1>6, <1>7

LEMMA ExecEndCoherent ==
    ASSUME TypeOK, Orderly, Coherent(session), NEW r \in DOMAIN session.run, ExecEnd(r)
    PROVE  Coherent(session') /\ Keeps(session, session')
  <1> DEFINE owner == session.genCtl = r
             g == FinishGeneration(session, r)
             f == [g EXCEPT !.run[r].fin = owner]
             stage == IF IsResponseOpen(f, f.run[r].repoch) THEN "drain" ELSE "closing"
             x == [session.run[r] EXCEPT !.fin = owner, !.stage = stage]
  <1>0. TypedSession(session) /\ session \in Session /\ session.run[r] \in Run
        /\ session.run[r].stage = "exec"
        /\ session.run[r].repoch = r /\ session.run[r].mepoch <= session.mutationEpoch
    BY FieldTypes DEF TypeOK, ExecEnd, Suspended, Coherent, EpochsNumberRuns
  <1>1. session' = [f EXCEPT !.run[r].stage = stage]
    BY DEF ExecEnd, Orderly, Resumed, AfterFinish
  <1>2. /\ g.run = session.run /\ g \in Session
        /\ g.responseEpoch = session.responseEpoch
        /\ g.mutationEpoch = session.mutationEpoch
        /\ g.queued = session.queued /\ g.pending = session.pending
        /\ g.timer = session.timer
        /\ owner => g.phase = "delivering" /\ g.genCtl = 0
        /\ ~owner => g = session
    <2>1. TypedSession(g) /\ g.run = session.run
      BY <1>0, FinishGenerationType
    <2>2. g \in Session
      BY <2>1 DEF TypedSession
    <2> QED
      BY <1>0, <2>1, <2>2 DEF FinishGeneration, Session
  <1>3. stage \in {"drain", "closing"}
    OBVIOUS
  <1>4. owner => stage = "drain"
    <2> SUFFICES ASSUME owner PROVE stage = "drain"
      OBVIOUS
    <2>1. f.phase = "delivering" /\ f.responseEpoch = session.responseEpoch
          /\ f.run[r].repoch = session.run[r].repoch
      <3> HIDE DEF g
      <3>1. /\ f.phase = g.phase /\ f.responseEpoch = g.responseEpoch
            /\ f.run = [session.run EXCEPT ![r] = [session.run[r] EXCEPT !.fin = owner]]
        BY <1>2 DEF Session
      <3>2. f.run[r] = [session.run[r] EXCEPT !.fin = owner]
        BY <1>0, <3>1, FieldTypes
      <3>3. [session.run[r] EXCEPT !.fin = owner].repoch = session.run[r].repoch
        BY <1>0 DEF Run
      <3> QED
        BY <1>2, <3>1, <3>2, <3>3
    <2>2. session.run[r].repoch = session.responseEpoch
      BY <1>0, OwnerFacts
    <2>3. IsResponseOpen(f, f.run[r].repoch)
      BY <2>1, <2>2 DEF IsResponseOpen, IsResponding
    <2> QED
      BY <2>3
  <1>5. session' = WithRun(g, r, x)
    <2> HIDE DEF g, stage
    <2>1. r \in DOMAIN g.run /\ g.run[r] \in Run /\ g.run \in Seq(Run)
      BY <1>0, <1>2, FieldTypes
    <2>2. f = WithRun(g, r, [g.run[r] EXCEPT !.fin = owner])
      BY <1>2, <2>1 DEF WithRun, Session
    <2>3. f \in Session /\ f.run = [g.run EXCEPT ![r] = [g.run[r] EXCEPT !.fin = owner]]
      <3>1. [g.run[r] EXCEPT !.fin = owner] \in Run
        BY <2>1 DEF Run
      <3>2. [g.run EXCEPT ![r] = [g.run[r] EXCEPT !.fin = owner]] \in Seq(Run)
        BY <2>1, <3>1, ReplaceRun
      <3> HIDE DEF owner
      <3> QED
        BY <1>2, <2>2, <3>2 DEF WithRun, Session
    <2> QED
      BY <1>1, <1>2, <2>1, <2>3 DEF WithRun, Session
  <1> HIDE DEF g, f, stage
  <1>6. /\ x \in Run /\ x.stage = stage /\ x.fin = owner
        /\ x.repoch = r /\ x.mepoch = session.run[r].mepoch
    <2>1. stage \in RunStages
      BY <1>3 DEF RunStages
    <2> QED
      BY <1>0, <2>1 DEF Run
  <1> HIDE DEF x
  <1>7. CASE ~owner
    <2>1. ~(session.phase = "delivering" /\ r = Len(session.run))
      BY <1>0, NotDelivering
    <2>2. /\ Coherent(WithRun(session, r, x)) /\ Keeps(session, WithRun(session, r, x))
      BY <1>0, <1>3, <1>6, <1>7, <2>1, WithRunCoherent DEF owner
    <2> QED
      BY <1>2, <1>5, <1>7, <2>2
  <1>8. CASE owner
    <2>1. /\ r = Len(session.run) /\ r # 0 /\ IsResponding(session) /\ ~session.timer
          /\ r = session.genCtl
      BY <1>0, <1>8, OwnerFacts DEF owner
    <2> DEFINE t == session'
    <2>2. /\ t.phase = "delivering" /\ t.genCtl = 0
          /\ t.responseEpoch = session.responseEpoch
          /\ t.mutationEpoch = session.mutationEpoch
          /\ t.queued = session.queued /\ ~t.timer
          /\ t.run = [session.run EXCEPT ![r] = x]
      BY <1>2, <1>5, <1>8, <2>1 DEF WithRun, Session
    <2> HIDE DEF t
    <2>3. /\ DOMAIN t.run = DOMAIN session.run /\ Len(t.run) = Len(session.run)
          /\ t.run[r] = x
          /\ \A i \in DOMAIN session.run : i # r => t.run[i] = session.run[i]
          /\ t.run # <<>>
      BY <1>0, <2>2, FieldTypes
    <2>4. EpochsNumberRuns(t)
      BY <1>0, <1>6, <2>2, <2>3 DEF Coherent, EpochsNumberRuns
    <2>5. OwnerIsNewest(t) /\ TimerMeansPending(t)
      BY <2>2 DEF OwnerIsNewest, TimerMeansPending, IsGenerating, GeneratingPhases
    <2>6. OthersAreAborted(t)
      BY <1>3, <1>6, <2>1, <2>2, <2>3 DEF Coherent, OthersAreAborted
    <2>7. DeliveryHasRun(t)
      BY <1>4, <1>6, <1>8, <2>1, <2>3 DEF DeliveryHasRun
    <2>8. BatchesHaveMessages(t)
      BY <1>3, <1>6, <2>2, <2>3 DEF Coherent, BatchesHaveMessages
    <2>9. Keeps(session, t)
      BY <2>1, <2>2 DEF Keeps
    <2> QED
      BY <2>4, <2>5, <2>6, <2>7, <2>8, <2>9 DEF Coherent, t
  <1> QED
    BY <1>7, <1>8

LEMMA CloseCoherent ==
    ASSUME TypeOK, Coherent(session), NEW r \in DOMAIN session.run, DrainEnd(r) \/ CloseEnd(r)
    PROVE  Coherent(session') /\ Moves(session, session')
  <1> DEFINE e == EndRun(session, r)
             p == PromoteSteer(e)
  <1>0. TypedSession(session) /\ session.run[r].stage \in {"drain", "closing"}
        /\ session.run[r].repoch = r /\ session.responseEpoch = Len(session.run)
    BY DEF TypeOK, DrainEnd, CloseEnd, Suspended, Coherent, EpochsNumberRuns
  <1>1. r # session.genCtl
    BY <1>0, FieldTypes DEF Coherent, OwnerIsNewest
  <1>2. TypedSession(e) /\ e.responseEpoch = session.responseEpoch
        /\ e.genCtl = session.genCtl
    BY <1>0, EndRunType, EndRunFields
  <1>3. /\ TypedSession(p) /\ p.responseEpoch = e.responseEpoch
        /\ p.genCtl = e.genCtl /\ p.run = e.run /\ p.mutationEpoch = e.mutationEpoch
        /\ p.queued = e.queued /\ p.timer = e.timer
        /\ e.pending # <<>> => p.pending # <<>>
    <2> HIDE DEF e
    <2>1. e.steer \in Seq(Msgs) /\ e.pending \in Seq(Msgs)
      BY <1>2, FieldTypes
    <2>2. e.pending # <<>> => e.steer \o e.pending # <<>>
      BY <2>1
    <2>3. /\ p.responseEpoch = e.responseEpoch /\ p.mutationEpoch = e.mutationEpoch
          /\ p.genCtl = e.genCtl /\ p.queued = e.queued /\ p.timer = e.timer
          /\ p.pending = IF e.steer = <<>> THEN e.pending ELSE e.steer \o e.pending
      BY <1>2, FieldTypes DEF PromoteSteer, Session
    <2>4. TypedSession(p) /\ p.run = e.run
      BY <1>2, PromoteSteerType
    <2> HIDE DEF p
    <2> QED
      BY <2>2, <2>3, <2>4
  <1>4. \/ session' = CompleteAndContinue(p, r)
        \/ session' = CompleteAndContinue(e, r)
        \/ ~session.run[r].fin /\ session' = e
    BY <1>0 DEF DrainEnd, CloseEnd, Ended
  <1>5. CASE r = session.responseEpoch
    <2>1. session.genCtl = 0
      BY <1>0, <1>1, <1>5 DEF Coherent, OwnerIsNewest
    <2>2. Closable(e)
      BY <1>0, <2>1, EndRunClosable DEF Coherent, TimerMeansPending
    <2>3. Closable(p)
      BY <1>3, <2>2 DEF Closable, EpochsNumberRuns, BatchesHaveMessages
    <2>4. session' = CompleteAndContinue(p, r) =>
            Coherent(session') /\ Moves(session, session')
      <3> HIDE DEF p, e
      <3> QED
        BY <1>2, <1>3, <1>5, <2>1, <2>3, CompleteAndContinueCoherent, ClosesMoves
    <2>5. session' = CompleteAndContinue(e, r) =>
            Coherent(session') /\ Moves(session, session')
      <3> HIDE DEF p, e
      <3> QED
        BY <1>2, <1>5, <2>1, <2>2, CompleteAndContinueCoherent, ClosesMoves
    <2>6. ~session.run[r].fin /\ session' = e => Coherent(session') /\ Moves(session, session')
      <3> SUFFICES ASSUME ~session.run[r].fin, session' = e
                   PROVE  Coherent(session') /\ Moves(session, session')
        OBVIOUS
      <3>1. session.phase # "delivering"
        BY <1>0, <1>5 DEF Coherent, DeliveryHasRun
      <3> QED
        BY <1>0, <1>1, <3>1, EndRunCoherent DEF Moves
    <2> QED
      BY <1>4, <2>4, <2>5, <2>6
  <1>6. CASE r # session.responseEpoch
    <2>1. Coherent(e) /\ Keeps(session, e)
      BY <1>0, <1>1, <1>6, EndRunCoherent
    <2>2. session' \in {p, e}
      BY <1>2, <1>3, <1>4, <1>6 DEF CompleteAndContinue
    <2> HIDE DEF e
    <2>3. Coherent(p) /\ Keeps(session, p)
      BY <1>2, <2>1, PromoteSteerCoherent, KeepsThenMoves
    <2> QED
      BY <2>1, <2>2, <2>3 DEF Moves
  <1> QED
    BY <1>5, <1>6

-----------------------------------------------------------------------------
(* Coherence of the whole *)

LEMMA NextCoherent ==
    ASSUME TypeOK, Orderly, NothingOwed, Coherent(session), [Next]_vars
    PROVE  Coherent(session') /\ Moves(session, session')
  <1>1. CASE UNCHANGED session
    BY <1>1 DEF Moves, Keeps
  <1>2. CASE Environment
    <2>1. ASSUME NEW m \in Msgs, Decide(m) PROVE UNCHANGED session
      BY <2>1 DEF Decide
    <2> QED
      BY <1>1, <1>2, <2>1, TimerAndDispatchCoherent, CommandCoherent DEF Environment
  <1>3. CASE Admit \/ DebounceFire
    BY <1>3, AdmitCoherent, TimerAndDispatchCoherent
  <1>4. ASSUME NEW r \in DOMAIN session.run, RunStep(r)
        PROVE  Coherent(session') /\ Moves(session, session')
    <2>1. ~SetupChecked(r)
      BY DEF SetupChecked, Suspended, Coherent, OthersAreAborted
    <2> QED
      BY <1>4, <2>1, PrepCoherent, ExecCoherent, ExecEndCoherent, CloseCoherent
      DEF RunStep, Moves
  <1> QED
    BY <1>1, <1>2, <1>3, <1>4 DEF Next, vars

(***************************************************************************)
(* In orderly use the session is coherent at every await: the controllers, *)
(* the timer, the phase and the epochs agree with each other and with the  *)
(* suspended runs, whatever is interrupted, steered, cleared or late.      *)
(***************************************************************************)
THEOREM CoherenceHolds == Spec => []CoherentSession
  <1>1. Init => CoherentSession
    BY DEF Init, CreateSessionState, CoherentSession, Coherent, EpochsNumberRuns,
       OwnerIsNewest, OthersAreAborted, DeliveryHasRun, TimerMeansPending,
       BatchesHaveMessages, IsGenerating, GeneratingPhases
  <1>2. TypeOK /\ NothingOwed /\ CoherentSession /\ [Next]_vars => CoherentSession'
    BY NextCoherent DEF CoherentSession, Orderly
  <1> QED
    BY <1>1, <1>2, TypeCorrect, NothingOwedHolds, PTL DEF Spec

(***************************************************************************)
(* At most one run works for the session: no second generation survives an *)
(* interruption, a supersession or a new response.                         *)
(***************************************************************************)
THEOREM OneLiveGeneration == Spec => [](Orderly => SingleLiveGeneration)
  <1>1. TypeOK /\ CoherentSession => (Orderly => SingleLiveGeneration)
    BY DEF CoherentSession, Coherent, OthersAreAborted, SingleLiveGeneration
  <1> QED
    BY <1>1, TypeCorrect, CoherenceHolds, PTL

(***************************************************************************)
(* An open response has the run that opened it, which has not returned: it *)
(* can always be closed (generationExecutor.ts, last finally block).       *)
(***************************************************************************)
THEOREM OpenResponseIsServed == Spec => [](Orderly => OpenResponseHasRun)
  <1>1. TypeOK /\ CoherentSession => (Orderly => OpenResponseHasRun)
    <2> SUFFICES ASSUME TypeOK, CoherentSession, Orderly, IsResponding(session)
                 PROVE  \E r \in DOMAIN session.run :
                          /\ session.run[r].stage # "done"
                          /\ session.run[r].repoch = session.responseEpoch
      BY DEF OpenResponseHasRun
    <2> DEFINE n == Len(session.run)
    <2>1. Coherent(session) /\ TypedSession(session)
      BY DEF CoherentSession, TypeOK
    <2>2. n \in Nat /\ DOMAIN session.run = 1 .. n /\ session.responseEpoch = n
          /\ session.run \in Seq(Run)
      BY <2>1, FieldTypes DEF Coherent, EpochsNumberRuns
    <2>3. n # 0 /\ session.run[n].stage # "done"
      <3>1. CASE IsGenerating(session)
        BY <2>1, <2>2, <3>1 DEF Coherent, OwnerIsNewest
      <3>2. CASE session.phase = "delivering"
        BY <2>1, <2>2, <3>2 DEF Coherent, DeliveryHasRun
      <3> QED
        BY <3>1, <3>2 DEF IsResponding
    <2> HIDE DEF n
    <2>4. n \in DOMAIN session.run
      BY <2>2, <2>3
    <2>5. session.run[n].repoch = session.responseEpoch
      BY <2>1, <2>2, <2>4 DEF Coherent, EpochsNumberRuns
    <2> QED
      BY <2>3, <2>4, <2>5
  <1> QED
    BY <1>1, TypeCorrect, CoherenceHolds, PTL

-----------------------------------------------------------------------------
(* A run whose response is no longer the current one *)

LEMMA RangeConcat ==
    ASSUME NEW S, NEW p \in Seq(S), NEW q \in Seq(S)
    PROVE  Range(p \o q) = Range(p) \cup Range(q)
  <1> DEFINE m == Len(p)
             n == Len(q)
  <1>1. /\ m \in Nat /\ n \in Nat /\ DOMAIN p = 1 .. m /\ DOMAIN q = 1 .. n
        /\ DOMAIN (p \o q) = 1 .. (m + n)
        /\ \A i \in 1 .. m : (p \o q)[i] = p[i]
        /\ \A i \in 1 .. n : (p \o q)[m + i] = q[i]
    OBVIOUS
  <1> DEFINE c == p \o q
  <1> HIDE DEF m, n, c
  <1>2. \A i \in 1 .. (m + n) : i \in 1 .. m \/ \E k \in 1 .. n : i = m + k
    <2> TAKE i \in 1 .. (m + n)
    <2>1. i \in 1 .. m \/ (i - m \in 1 .. n /\ i = m + (i - m))
      BY <1>1
    <2> QED
      BY <2>1
  <1>3. \A i \in 1 .. m : i \in 1 .. (m + n)
    BY <1>1
  <1>4. \A i \in 1 .. n : m + i \in 1 .. (m + n)
    BY <1>1
  <1>5. Range(c) \subseteq Range(p) \cup Range(q)
    BY <1>1, <1>2 DEF Range, c
  <1>6. Range(p) \subseteq Range(c) /\ Range(q) \subseteq Range(c)
    BY <1>1, <1>3, <1>4 DEF Range, c
  <1> QED
    BY <1>5, <1>6 DEF c

LEMMA PromoteSteerVisible ==
    ASSUME NEW s, TypedSession(s)
    PROVE  Visible(PromoteSteer(s)) = Visible(s)
  <1> DEFINE t == PromoteSteer(s)
  <1>1. CASE s.steer = <<>>
    BY <1>1 DEF PromoteSteer
  <1>2. CASE s.steer # <<>>
    <2>1. /\ t.phase = s.phase /\ t.responseEpoch = s.responseEpoch
          /\ t.genCtl = s.genCtl /\ t.respCtl = s.respCtl /\ t.outCtl = s.outCtl
          /\ t.timer = s.timer /\ t.queued = s.queued /\ t.triggers = s.triggers
          /\ t.inlines = s.inlines /\ t.target = s.target
          /\ t.pending = s.steer \o s.pending /\ t.steer = <<>>
      <3> DEFINE q == s.steer \o s.pending
                 none == <<>>
      <3>1. t = [s EXCEPT !.pending = q, !.steer = none, !.waits = 0] /\ s \in Session
        BY <1>2, FieldTypes DEF PromoteSteer
      <3> HIDE DEF q, none, t
      <3> QED
        BY <3>1 DEF Session, q, none
    <2> HIDE DEF t
    <2>2. Range(t.pending) = Range(s.steer) \cup Range(s.pending)
      BY <2>1, FieldTypes, RangeConcat
    <2>3. Range(t.steer) = {}
      BY <2>1 DEF Range
    <2>4. Waiting(t) = Waiting(s)
      BY <2>1, <2>2, <2>3 DEF Waiting
    <2>5. Visible(t) = Visible(s)
      BY <2>1, <2>4 DEF Visible
    <2> QED
      BY <2>5 DEF t
  <1> QED
    BY <1>1, <1>2

(* Replacing the closure of a run shows nothing. *)
LEMMA WithRunVisible ==
    ASSUME NEW s, TypedSession(s), NEW r \in DOMAIN s.run, NEW x
    PROVE  Visible(WithRun(s, r, x)) = Visible(s)
  <1> DEFINE t == WithRun(s, r, x)
  <1>1. /\ t.phase = s.phase /\ t.responseEpoch = s.responseEpoch
        /\ t.genCtl = s.genCtl /\ t.respCtl = s.respCtl /\ t.outCtl = s.outCtl
        /\ t.timer = s.timer /\ t.queued = s.queued /\ t.triggers = s.triggers
        /\ t.inlines = s.inlines /\ t.target = s.target
        /\ t.pending = s.pending /\ t.steer = s.steer
    BY FieldTypes DEF WithRun, Session
  <1> HIDE DEF t
  <1>2. Waiting(t) = Waiting(s)
    BY <1>1 DEF Waiting
  <1>3. Visible(t) = Visible(s)
    BY <1>1, <1>2 DEF Visible
  <1> QED
    BY <1>3 DEF t

LEMMA StaleStepIsInert ==
    ASSUME TypeOK, Orderly, Coherent(session), NEW r \in DOMAIN session.run,
           Stale(r), RunStep(r)
    PROVE  Visible(session') = Visible(session)
  <1>0. TypedSession(session) /\ session.run[r].repoch # session.responseEpoch
    BY DEF TypeOK, Stale
  <1>1. r # session.genCtl
    BY <1>0, OwnerFacts
  <1>2. session.run[r].stage \in {"prep", "exec"} =>
          session.run[r].genAb /\ session.run[r].mepoch < session.mutationEpoch
    BY <1>1 DEF Coherent, OthersAreAborted
  <1>3. session.run[r].mepoch < session.mutationEpoch =>
          session.run[r].mepoch # session.mutationEpoch
    BY <1>0, FieldTypes DEF Run
  <1> DEFINE e == EndRun(session, r)
  <1>4. /\ TypedSession(e) /\ e.genCtl = session.genCtl
        /\ e.responseEpoch = session.responseEpoch
    BY <1>0, EndRunType, EndRunFields
  <1>5. Visible(e) = Visible(session)
    BY <1>0, WithRunVisible DEF EndRun, WithRun
  <1>6. CASE PrepContinue(r)
    <2>1. session' = WithRun(session, r, [session.run[r] EXCEPT !.stage = "exec"])
      BY <1>0, <1>6, FieldTypes DEF PrepContinue, Resumed, WithRun, Session
    <2> QED
      BY <1>0, <2>1, WithRunVisible
  <1>7. CASE PrepSkip(r) \/ PrepFail(r)
    <2>1. session' = GiveBack(e, r)
      BY <1>7 DEF PrepSkip, PrepFail, Ended
    <2>2. session' = e
      BY <1>1, <1>4, <2>1 DEF GiveBack
    <2> QED
      BY <1>5, <2>2
  <1>8. ~PrepWait(r) /\ ~ExecConsumeSteer(r) /\ ~ExecConsumeEvents(r)
        /\ (\A phase \in {"requesting", "generating"} : ~ExecPhase(r, phase))
    BY <1>2, <1>3 DEF PrepWait, ExecConsumeSteer, ExecConsumeEvents, ExecPhase, Suspended
  <1>9. CASE ExecSuperseded(r)
    <2>1. session' = WithRun(session, r,
                       [session.run[r] EXCEPT !.genAb = TRUE, !.respAb = TRUE])
      BY <1>0, <1>9, FieldTypes DEF ExecSuperseded, Resumed, WithRun, Session
    <2> QED
      BY <1>0, <2>1, WithRunVisible
  <1>10. CASE ExecEnd(r)
    <2> DEFINE f == [session EXCEPT !.run[r].fin = FALSE]
    <2>1. session' = AfterFinish(f, r)
      BY <1>1, <1>10 DEF ExecEnd, Orderly, Resumed, FinishGeneration
    <2>2. TypedSession(f) /\ DOMAIN f.run = DOMAIN session.run
      BY <1>0, FinishedType
    <2>3. Visible(f) = Visible(session)
      <3>1. f = WithRun(session, r, [session.run[r] EXCEPT !.fin = FALSE])
        BY <1>0, FieldTypes DEF WithRun, Session
      <3> QED
        BY <1>0, <3>1, WithRunVisible
    <2> HIDE DEF f
    <2>4. Visible(session') = Visible(f)
      <3> DEFINE stage == IF IsResponseOpen(f, f.run[r].repoch) THEN "drain" ELSE "closing"
      <3>1. session' = [f EXCEPT !.run[r].stage = stage]
        BY <2>1 DEF AfterFinish
      <3> HIDE DEF stage
      <3>2. session' = WithRun(f, r, [f.run[r] EXCEPT !.stage = stage])
        BY <2>2, <3>1, FieldTypes DEF WithRun, Session
      <3> QED
        BY <2>2, <3>2, WithRunVisible
    <2> QED
      BY <2>3, <2>4
  <1>11. ~SetupChecked(r)
    BY DEF SetupChecked, Suspended, Coherent, OthersAreAborted
  <1>12. CASE DrainEnd(r)
    <2>1. session' = CompleteAndContinue(PromoteSteer(e), session.run[r].repoch)
      BY <1>12 DEF DrainEnd, Ended
    <2> DEFINE p == PromoteSteer(e)
    <2> HIDE DEF e
    <2>2. p.responseEpoch = e.responseEpoch
      BY <1>4, FieldTypes DEF PromoteSteer, Session
    <2>3. session' = p
      BY <1>0, <1>4, <2>1, <2>2 DEF CompleteAndContinue
    <2> QED
      BY <1>4, <1>5, <2>3, PromoteSteerVisible
  <1>13. CASE CloseEnd(r)
    <2>1. session' \in {e, CompleteAndContinue(e, session.run[r].repoch)}
      BY <1>13 DEF CloseEnd, Ended
    <2>2. session' = e
      BY <1>0, <1>4, <2>1 DEF CompleteAndContinue
    <2> QED
      BY <1>5, <2>2
  <1> QED
    BY <1>6, <1>7, <1>8, <1>9, <1>10, <1>11, <1>12, <1>13 DEF RunStep

(***************************************************************************)
(* A run whose response was superseded only winds down: late planners,     *)
(* failures and finally blocks leave phase, controllers, timer, reply      *)
(* target and the work that waits to the current response.                 *)
(***************************************************************************)
THEOREM LateRunsAreInert == ASSUME Orderly PROVE Spec => StaleRunIsInert
  <1>1. TypeOK /\ CoherentSession /\ [Next]_vars =>
          [\A r \in DOMAIN session.run :
             Stale(r) /\ RunStep(r) => Visible(session') = Visible(session)]_vars
    BY StaleStepIsInert DEF CoherentSession
  <1> QED
    BY <1>1, TypeCorrect, CoherenceHolds, PTL DEF Spec, StaleRunIsInert

-----------------------------------------------------------------------------
(* The promise of ResponseTurns *)

Slot(s) == IF IsResponding(s) THEN s.responseEpoch ELSE 0
Live(s) == {r \in DOMAIN s.run : s.run[r].stage \in {"prep", "exec"} /\ ~s.run[r].genAb}

LEMMA CoherentTurn ==
    ASSUME NEW s, TypedSession(s), Coherent(s)
    PROVE  /\ Live(s) = IF s.genCtl = 0 THEN {} ELSE {s.genCtl}
           /\ s.genCtl # 0 => s.genCtl = s.responseEpoch /\ IsResponding(s)
           /\ IsResponding(s) => Slot(s) # 0 /\ Slot(s) = s.responseEpoch
           /\ ~IsResponding(s) => Slot(s) = 0 /\ s.genCtl = 0
  <1>1. s.genCtl # 0 => s.genCtl \in DOMAIN s.run
    BY FieldTypes
  <1>2. Live(s) = IF s.genCtl = 0 THEN {} ELSE {s.genCtl}
    BY <1>1, FieldTypes DEF Live, Coherent, OwnerIsNewest, OthersAreAborted
  <1>3. IsResponding(s) => Len(s.run) # 0
    <2>1. IsGenerating(s) => Len(s.run) # 0
      BY FieldTypes DEF Coherent, OwnerIsNewest
    <2>2. s.phase = "delivering" => Len(s.run) # 0
      BY FieldTypes DEF Coherent, DeliveryHasRun
    <2> QED
      BY <2>1, <2>2 DEF IsResponding
  <1> QED
    BY <1>2, <1>3 DEF Slot, Coherent, EpochsNumberRuns, OwnerIsNewest, IsResponding

LEMMA MovesAreTurns ==
    ASSUME NEW s, TypedSession(s), Coherent(s), NEW t, TypedSession(t), Coherent(t),
           Moves(s, t)
    PROVE  \/ Slot(t) = Slot(s) /\ t.responseEpoch = s.responseEpoch /\ Live(t) = Live(s)
           \/ /\ Slot(s) # 0 /\ Live(s) # {} /\ Live(t) = {}
              /\ Slot(t) = Slot(s) /\ t.responseEpoch = s.responseEpoch
           \/ /\ Slot(s) # 0 /\ Slot(t) = 0 /\ Live(t) = {}
              /\ t.responseEpoch = s.responseEpoch
           \/ /\ t.responseEpoch = s.responseEpoch + 1
              /\ Slot(t) = s.responseEpoch + 1
              /\ Live(t) = {s.responseEpoch + 1}
  <1>1. CASE Keeps(s, t) /\ IsResponding(t)
    BY <1>1, CoherentTurn DEF Keeps
  <1>2. CASE Keeps(s, t) /\ ~IsResponding(t)
    BY <1>2, CoherentTurn DEF Keeps
  <1>3. CASE t.responseEpoch = s.responseEpoch + 1 /\ t.genCtl # 0
    BY <1>3, CoherentTurn
  <1> QED
    BY <1>1, <1>2, <1>3 DEF Moves

(***************************************************************************)
(* The session keeps the safety part of what ResponseTurns promises:       *)
(* responses are numbered, one is open at a time, a closed one never opens *)
(* again, and only the open one has a live generation.                     *)
(***************************************************************************)
THEOREM SessionTakesTurns == ASSUME Orderly PROVE Spec => OneTurnAtATime
  <1>1. Init => Turns!Init
    BY DEF Init, CreateSessionState, Turns!Init, IsResponding, IsGenerating, GeneratingPhases
  <1>2. TypeOK /\ NothingOwed /\ CoherentSession /\ TypeOK' /\ CoherentSession' /\ [Next]_vars =>
          [Turns!Next]_(Turns!vars)
    <2> SUFFICES ASSUME TypeOK, NothingOwed, CoherentSession, TypeOK', CoherentSession', [Next]_vars
                 PROVE  Turns!Next \/ UNCHANGED Turns!vars
      OBVIOUS
    <2>1. /\ TypedSession(session) /\ Coherent(session)
          /\ TypedSession(session') /\ Coherent(session')
          /\ Moves(session, session')
      BY NextCoherent DEF TypeOK, CoherentSession, Orderly
    <2>2. \/ /\ Slot(session') = Slot(session) /\ Live(session') = Live(session)
             /\ session'.responseEpoch = session.responseEpoch
          \/ /\ Slot(session) # 0 /\ Live(session) # {} /\ Live(session') = {}
             /\ Slot(session') = Slot(session)
             /\ session'.responseEpoch = session.responseEpoch
          \/ /\ Slot(session) # 0 /\ Slot(session') = 0 /\ Live(session') = {}
             /\ session'.responseEpoch = session.responseEpoch
          \/ /\ session'.responseEpoch = session.responseEpoch + 1
             /\ Slot(session') = session.responseEpoch + 1
             /\ Live(session') = {session.responseEpoch + 1}
      BY <2>1, MovesAreTurns
    <2> QED
      BY <2>2 DEF Slot, Live, Turns!Next, Turns!Open, Turns!OpenNext, Turns!Settle,
         Turns!Close, Turns!Handover, Turns!vars
  <1> QED
    BY <1>1, <1>2, TypeCorrect, NothingOwedHolds, CoherenceHolds, PTL DEF Spec, OneTurnAtATime, Turns!Spec
-----------------------------------------------------------------------------
(* Waiting work: who starts it, and in which order.                        *)

HasWork(s) ==
    \/ s.pending # <<>> \/ s.steer # <<>> \/ s.queued # <<>>
    \/ s.triggers # <<>> \/ s.inlines # <<>>

Awake(s) == s.timer \/ IsResponding(s)

(* A steer message waits for the open response that will take or promote   *)
(* it; without commands that only interrupt, all waiting work has a waker. *)
Alert(s) ==
    /\ s.steer # <<>> => IsResponding(s)
    /\ "skill" \notin Commands /\ HasWork(s) => Awake(s)

NoMessages(s) == s.pending = <<>> /\ s.steer = <<>> /\ s.queued = <<>>

(* From s to t, a run was started in the background only with no messages. *)
ChatFirst(s, t) ==
    \A r \in DOMAIN t.run \ DOMAIN s.run : t.run[r].kind # "chat" => NoMessages(t)

(* The fields these speak of, but for the steers. *)
SameWork(s, t) ==
    /\ t.pending = s.pending /\ t.queued = s.queued
    /\ t.triggers = s.triggers /\ t.inlines = s.inlines
    /\ t.timer = s.timer
    /\ IsResponding(t) <=> IsResponding(s)
    /\ DOMAIN t.run = DOMAIN s.run

LEMMA SameWorkAlert ==
    ASSUME NEW s, NEW t, Alert(s), SameWork(s, t), t.steer \in {s.steer, <<>>}
    PROVE  Alert(t) /\ ChatFirst(s, t)
  BY DEF SameWork, Alert, HasWork, Awake, ChatFirst

LEMMA BeginChat ==
    ASSUME NEW s, TypedSession(s)
    PROVE  LET t == BeginGeneration(s) IN
           /\ IsResponding(t) /\ t.steer = s.steer
           /\ \A r \in DOMAIN t.run \ DOMAIN s.run : t.run[r].kind = "chat"
  <1> DEFINE u == StartRun(s, "chat", s.pending, NoTrigger, <<>>)
             t == BeginGeneration(s)
             user == IF s.pending = <<>> THEN NoUser ELSE Sender[Head(s.pending)]
  <1>1. t = [u EXCEPT !.pending = <<>>, !.waits = 0, !.target = user, !.phase = "planning"]
    BY DEF BeginGeneration
  <1>2. u \in Session
    <2>1. s.pending \in Seq(Msgs) /\ "chat" \in RunKinds /\ <<>> \in Seq(Events)
      BY FieldTypes DEF RunKinds
    <2> QED
      BY <2>1, StartRunType DEF TypedSession
  <1>3. Started(s, "chat", s.pending, u)
    BY StartRunStarts
  <1>4. u.steer = s.steer
    BY FieldTypes DEF StartRun, Session
  <1> HIDE DEF u, t, user
  <1>5. t.run = u.run /\ t.phase = "planning" /\ t.steer = u.steer
    BY <1>1, <1>2 DEF Session
  <1>6. IsResponding(t)
    BY <1>5 DEF IsResponding, IsGenerating, GeneratingPhases
  <1>7. \A r \in DOMAIN t.run \ DOMAIN s.run : t.run[r].kind = "chat"
    <2>1. DOMAIN s.run = 1 .. Len(s.run) /\ Len(s.run) \in Nat
      BY FieldTypes
    <2> QED
      BY <1>3, <1>5, <2>1 DEF Started
  <1> QED
    BY <1>4, <1>5, <1>6, <1>7 DEF t

LEMMA BeginBackground ==
    ASSUME NEW s, TypedSession(s), NoMessages(s), NEW kind \in RunKinds,
           NEW trigger \in Triggers \cup {NoTrigger}, NEW events \in Seq(Events)
    PROVE  LET t == BeginSyntheticGeneration(s, kind, trigger, events) IN
           IsResponding(t) /\ NoMessages(t)
  <1> DEFINE u == StartRun(s, kind, <<>>, trigger, events)
             t == BeginSyntheticGeneration(s, kind, trigger, events)
  <1>1. t = [u EXCEPT !.target = NoUser, !.phase = "requesting"]
    BY DEF BeginSyntheticGeneration
  <1>2. u \in Session
    <2>1. <<>> \in Seq(Msgs)
      OBVIOUS
    <2> QED
      BY <2>1, StartRunType DEF TypedSession
  <1>3. NoMessages(u)
    BY FieldTypes DEF StartRun, Session, NoMessages
  <1> HIDE DEF u, t
  <1>4. t.phase = "requesting" /\ NoMessages(t)
    BY <1>1, <1>2, <1>3 DEF Session, NoMessages
  <1> QED
    BY <1>4 DEF t, IsResponding, IsGenerating, GeneratingPhases

(* Nothing in progress: what waits is started, or has a timer. *)
LEMMA ProcessNextAlert ==
    ASSUME NEW s, TypedSession(s), ~IsResponding(s), BatchesHaveMessages(s)
    PROVE  Alert(ProcessNextSessionWork(s)) /\ ChatFirst(s, ProcessNextSessionWork(s))
  <1> DEFINE a == PromoteSteer(s)
             p == IF a.pending = <<>> THEN PromoteNextTarget(a) ELSE a
             u == [p EXCEPT !.triggers = Tail(p.triggers)]
             v == [p EXCEPT !.inlines = <<>>]
             trigger == BeginSyntheticGeneration(u, "trigger", Head(p.triggers), <<>>)
             inline == BeginSyntheticGeneration(v, "inline", NoTrigger, p.inlines)
             next == ProcessNextSessionWork(s)
  <1>1. /\ TypedSession(a) /\ a.run = s.run /\ a.queued = s.queued
        /\ a.steer = <<>>
    <2>1. a.queued = s.queued /\ a.steer = <<>>
      BY FieldTypes DEF PromoteSteer, Session
    <2> QED
      BY <2>1, PromoteSteerType
  <1> HIDE DEF a
  <1>2. /\ TypedSession(p) /\ p.run = s.run
        /\ p.steer = <<>>
        /\ p.pending = <<>> => p.queued = <<>>
    <2>1. CASE a.pending # <<>>
      BY <1>1, <2>1
    <2>2. CASE a.pending = <<>> /\ a.queued = <<>>
      BY <1>1, <2>2 DEF PromoteNextTarget
    <2>3. CASE a.pending = <<>> /\ a.queued # <<>>
      <3> DEFINE t == PromoteNextTarget(a)
      <3>1. TypedSession(t) /\ t.run = a.run
        BY <1>1, PromoteNextType
      <3>2. t.pending = Head(a.queued) \o a.pending /\ t.steer = a.steer
        <4> DEFINE q == Head(a.queued) \o a.pending
                   rest == Tail(a.queued)
        <4>1. t = [a EXCEPT !.pending = q, !.queued = rest, !.waits = 0] /\ a \in Session
          BY <1>1, <2>3, FieldTypes DEF PromoteNextTarget
        <4> HIDE DEF q, rest, t
        <4> QED
          BY <4>1 DEF Session, q, rest
      <3> HIDE DEF t
      <3>3. a.pending \in Seq(Msgs) /\ a.queued \in Seq(Seq(Msgs))
        BY <1>1, FieldTypes
      <3>4. Head(a.queued) \in Seq(Msgs) /\ Head(a.queued) # <<>>
        BY <1>1, <2>3, <3>3 DEF BatchesHaveMessages
      <3>5. t.pending # <<>>
        BY <3>2, <3>3, <3>4
      <3> QED
        BY <1>1, <2>3, <3>1, <3>2, <3>5 DEF t
    <2> QED
      BY <2>1, <2>2, <2>3
  <1>3. \/ p.pending # <<>> /\ p.timer /\ next = p
        \/ p.pending # <<>> /\ next = BeginGeneration(p)
        \/ p.pending = <<>> /\ p.triggers # <<>> /\ next = trigger
        \/ p.pending = <<>> /\ next = inline
        \/ p.pending = <<>> /\ p.triggers = <<>> /\ p.inlines = <<>> /\ next = p
    <2>1. ~HasActiveResponse(s)
      BY DEF HasActiveResponse, IsResponding
    <2> QED
      BY <2>1 DEF ProcessNextSessionWork, a
  <1> SUFFICES Alert(next) /\ ChatFirst(s, next)
    OBVIOUS
  <1> HIDE DEF p, next
  <1>4. p \in Session /\ p.triggers \in Seq(Triggers) /\ p.inlines \in Seq(Events)
    BY <1>2, FieldTypes
  <1>5. CASE next = p /\ (p.timer \/ (p.pending = <<>> /\ p.triggers = <<>> /\ p.inlines = <<>>))
    BY <1>2, <1>5 DEF Alert, ChatFirst, HasWork, Awake
  <1>6. CASE next = BeginGeneration(p)
    BY <1>2, <1>6, BeginChat DEF Alert, ChatFirst, Awake
  <1>7. CASE p.pending = <<>> /\ p.triggers # <<>> /\ next = trigger
    <2>1. Tail(p.triggers) \in Seq(Triggers) /\ Head(p.triggers) \in Triggers
      BY <1>4, <1>7
    <2>2. u \in Session /\ NoMessages(u) /\ u.run = p.run
          /\ u.genCtl = p.genCtl /\ u.respCtl = p.respCtl
      BY <1>2, <1>4, <1>7, <2>1 DEF Session, NoMessages
    <2>3. TypedSession(u)
      BY <1>2, <2>2 DEF TypedSession
    <2> HIDE DEF u
    <2>4. "trigger" \in RunKinds /\ <<>> \in Seq(Events)
      BY DEF RunKinds
    <2>5. IsResponding(trigger) /\ NoMessages(trigger)
      BY <2>1, <2>2, <2>3, <2>4, BeginBackground
    <2> QED
      BY <1>7, <2>5 DEF Alert, ChatFirst, Awake
  <1>8. CASE p.pending = <<>> /\ next = inline
    <2>1. <<>> \in Seq(Events)
      OBVIOUS
    <2>2. v \in Session /\ NoMessages(v) /\ v.run = p.run
          /\ v.genCtl = p.genCtl /\ v.respCtl = p.respCtl
      BY <1>2, <1>4, <1>8, <2>1 DEF Session, NoMessages
    <2>3. TypedSession(v)
      BY <1>2, <2>2 DEF TypedSession
    <2> HIDE DEF v
    <2>4. "inline" \in RunKinds
      BY DEF RunKinds
    <2>5. IsResponding(inline) /\ NoMessages(inline)
      BY <1>4, <2>2, <2>3, <2>4, BeginBackground
    <2> QED
      BY <1>8, <2>5 DEF Alert, ChatFirst, Awake
  <1> QED
    BY <1>3, <1>5, <1>6, <1>7, <1>8

LEMMA CompleteAlert ==
    ASSUME NEW s, TypedSession(s), BatchesHaveMessages(s)
    PROVE  LET t == ProcessNextSessionWork(CompleteResponse(s, s.responseEpoch)) IN
           Alert(t) /\ ChatFirst(s, t)
  <1> DEFINE c == CompleteResponse(s, s.responseEpoch)
             t == ProcessNextSessionWork(c)
  <1>1. /\ TypedSession(c) /\ c.run = s.run
    BY CompleteResponseType
  <1>2. c.phase = "idle" /\ c.queued = s.queued
    BY FieldTypes DEF CompleteResponse, Session
  <1> HIDE DEF c
  <1>3. ~IsResponding(c) /\ BatchesHaveMessages(c)
    BY <1>1, <1>2 DEF IsResponding, IsGenerating, GeneratingPhases, BatchesHaveMessages
  <1>4. Alert(t) /\ ChatFirst(c, t)
    BY <1>1, <1>3, ProcessNextAlert
  <1> HIDE DEF t
  <1>5. Alert(t) /\ ChatFirst(s, t)
    BY <1>1, <1>4 DEF ChatFirst
  <1> QED
    BY <1>5 DEF t, c

LEMMA CompleteAndContinueAlert ==
    ASSUME NEW s, TypedSession(s), BatchesHaveMessages(s), Alert(s), NEW epoch
    PROVE  Alert(CompleteAndContinue(s, epoch)) /\ ChatFirst(s, CompleteAndContinue(s, epoch))
  <1>1. CASE s.responseEpoch = epoch
    BY <1>1, CompleteAlert DEF CompleteAndContinue
  <1>2. CASE s.responseEpoch # epoch
    BY <1>2 DEF CompleteAndContinue, ChatFirst
  <1> QED
    BY <1>1, <1>2

LEMMA GiveBackAlert ==
    ASSUME NEW s, TypedSession(s), BatchesHaveMessages(s), NEW r,
           s.genCtl = r, s.run[r].repoch = s.responseEpoch
    PROVE  Alert(GiveBack(s, r)) /\ ChatFirst(s, GiveBack(s, r))
  <1> DEFINE f == FinishGeneration(s, r)
             t == ProcessNextSessionWork(CompleteResponse(f, f.responseEpoch))
  <1>1. TypedSession(f) /\ f.run = s.run
    BY FinishGenerationType
  <1>2. f.responseEpoch = s.responseEpoch /\ f.queued = s.queued
    BY FieldTypes DEF FinishGeneration, Session
  <1>3. GiveBack(s, r) = t
    BY <1>2 DEF GiveBack
  <1> HIDE DEF f
  <1>4. BatchesHaveMessages(f)
    BY <1>1, <1>2 DEF BatchesHaveMessages
  <1>5. Alert(t) /\ ChatFirst(f, t)
    BY <1>1, <1>4, CompleteAlert
  <1> HIDE DEF t
  <1> QED
    BY <1>1, <1>3, <1>5 DEF ChatFirst

(* The end of a run by itself. *)
LEMMA EndRunAlert ==
    ASSUME NEW s, TypedSession(s), BatchesHaveMessages(s), NEW r \in DOMAIN s.run
    PROVE  LET e == EndRun(s, r) IN
           /\ TypedSession(e) /\ BatchesHaveMessages(e)
           /\ SameWork(s, e) /\ e.steer = s.steer
           /\ e.run[r].repoch = s.run[r].repoch
  <1> DEFINE e == EndRun(s, r)
             x == Released(s.run[r])
             q == [s.run EXCEPT ![r] = x]
  <1>1. TypedSession(e)
    BY EndRunType
  <1>2. e = [s EXCEPT !.run = q] /\ s \in Session
    BY FieldTypes DEF EndRun
  <1>3. /\ DOMAIN q = DOMAIN s.run /\ q[r] = x
        /\ \A i \in DOMAIN s.run : i # r => q[i] = s.run[i]
    BY FieldTypes
  <1>4. x.stage = "done" /\ x.repoch = s.run[r].repoch
    BY DEF Released
  <1> HIDE DEF e, q, x
  <1>5. /\ e.phase = s.phase /\ e.pending = s.pending /\ e.steer = s.steer
        /\ e.queued = s.queued /\ e.triggers = s.triggers /\ e.inlines = s.inlines
        /\ e.timer = s.timer /\ e.run = q
    BY <1>2 DEF Session
  <1>6. SameWork(s, e)
    BY <1>3, <1>5 DEF SameWork, IsResponding, IsGenerating
  <1>7. BatchesHaveMessages(e)
    BY <1>3, <1>4, <1>5 DEF BatchesHaveMessages
  <1> QED
    BY <1>1, <1>3, <1>4, <1>5, <1>6, <1>7 DEF e

LEMMA PromoteSteerAlert ==
    ASSUME NEW s, TypedSession(s), Alert(s)
    PROVE  /\ Alert(PromoteSteer(s)) /\ PromoteSteer(s).run = s.run
           /\ PromoteSteer(s).queued = s.queued
  <1> DEFINE t == PromoteSteer(s)
  <1>1. /\ t.run = s.run /\ t.phase = s.phase /\ t.queued = s.queued
        /\ t.triggers = s.triggers /\ t.inlines = s.inlines /\ t.timer = s.timer
        /\ t.steer = <<>>
        /\ s.steer = <<>> => t.pending = s.pending
    BY FieldTypes DEF PromoteSteer, Session
  <1> HIDE DEF t
  <1>2. Alert(t)
    BY <1>1 DEF Alert, HasWork, Awake, IsResponding, IsGenerating
  <1> QED
    BY <1>1, <1>2 DEF t

(* Whoever sets the timer wakes all there is. *)
LEMMA ScheduleAlert ==
    ASSUME NEW s, TypedSession(s), s.steer = <<>> \/ IsResponding(s)
    PROVE  LET t == Schedule(s) IN Alert(t) /\ t.timer /\ t.run = s.run /\ t.steer = s.steer
  <1> DEFINE c == ClearTimer(s)
             t == Schedule(s)
             p == IF c.phase \in {"idle", "waiting"} THEN "debouncing" ELSE c.phase
  <1>1. c \in Session /\ c.run = s.run /\ c.steer = s.steer
    BY ClearTimerType, FieldTypes DEF ClearTimer, Session, TypedSession
  <1>2. t = [c EXCEPT !.timer = TRUE, !.phase = p]
    BY DEF Schedule
  <1> HIDE DEF c, p, t
  <1>3. t.timer /\ t.run = s.run /\ t.steer = s.steer
    BY <1>1, <1>2 DEF Session
  <1>4. IsResponding(s) => IsResponding(t)
    <2>1. s.phase \in GeneratingPhases \cup {"delivering"} => t.phase = s.phase
      BY ScheduleFields DEF t
    <2> QED
      BY <2>1 DEF IsResponding, IsGenerating
  <1>5. Alert(t)
    BY <1>3, <1>4 DEF Alert, Awake
  <1> QED
    BY <1>3, <1>5 DEF t

(* An interruption leaves no steer behind and starts nothing. *)
LEMMA InterruptKeeps ==
    ASSUME NEW s, TypedSession(s)
    PROVE  LET t == InterruptResponse(s) IN t.steer = <<>> /\ DOMAIN t.run = DOMAIN s.run
  <1> DEFINE p == PromoteSteer(s)
             c == CancelGeneration(p)
             a == AbortResponse(c)
             t == InterruptResponse(s)
  <1>1. TypedSession(p) /\ p.steer = <<>>
    <2>1. p.steer = <<>>
      BY FieldTypes DEF PromoteSteer, Session
    <2> QED
      BY <2>1, PromoteSteerType
  <1>2. TypedSession(c) /\ c.steer = <<>>
    <2> HIDE DEF p
    <2>1. TypedSession(c)
      BY <1>1, CancelGenerationType
    <2>2. c.steer = p.steer
      BY <1>1, FieldTypes DEF CancelGeneration, Session
    <2> QED
      BY <1>1, <2>1, <2>2
  <1>3. TypedSession(a) /\ a.steer = <<>>
    <2> HIDE DEF c
    <2>1. TypedSession(a)
      BY <1>2, AbortResponseType
    <2>2. a.steer = c.steer
      BY <1>2, FieldTypes DEF AbortResponse, Session
    <2> QED
      BY <1>2, <2>1, <2>2
  <1>4. t = [a EXCEPT !.mutationEpoch = s.mutationEpoch + 1, !.phase = "idle",
                      !.target = NoUser]
    BY DEF InterruptResponse
  <1>5. TypedSession(t) /\ Len(t.run) = Len(s.run)
    BY InterruptResponseType
  <1> HIDE DEF a, t
  <1>6. t.steer = <<>>
    BY <1>3, <1>4, FieldTypes DEF Session
  <1>7. DOMAIN t.run = DOMAIN s.run
    BY <1>5, FieldTypes
  <1> QED
    BY <1>6, <1>7 DEF t

LEMMA AdmitAlert ==
    ASSUME TypeOK, Alert(session), Admit
    PROVE  Alert(session') /\ ChatFirst(session, session')
  <1> DEFINE m == Head(admitting).msg
             s == session
  <1>1. /\ TypedSession(s) /\ m \in Msgs
        /\ \/ session' = QueueForNextThread(m)
           \/ session' = ReplyNow(m)
           \/ session' = InterruptWith(m)
           \/ HasActiveResponse(s) /\ session' = SteerWith(m)
    <2> DEFINE decision == Head(admitting).decision
               soft == decision = "soft_interrupt" /\ HasActiveResponse(session)
    <2>1. PICK mode \in Modes :
            session' = CASE decision = "queue"          -> QueueForNextThread(m)
                         [] soft /\ mode = "immediate"  -> InterruptWith(m)
                         [] soft /\ mode = "after_tool" -> SteerWith(m)
                         [] decision # "queue" /\ ~soft -> ReplyNow(m)
      BY DEF Admit, m
    <2>2. mode \in {"immediate", "after_tool"}
      BY ParameterAssumption
    <2>3. soft => decision # "queue" /\ HasActiveResponse(s)
      OBVIOUS
    <2>4. TypedSession(s) /\ m \in Msgs
      BY AdmitCases DEF TypeOK
    <2> HIDE DEF soft, decision, m
    <2>5. CASE decision = "queue"
      BY <2>1, <2>3, <2>4, <2>5
    <2>6. CASE soft /\ mode = "immediate"
      BY <2>1, <2>3, <2>4, <2>6
    <2>7. CASE soft /\ mode = "after_tool"
      BY <2>1, <2>3, <2>4, <2>7
    <2>8. CASE decision # "queue" /\ ~soft
      BY <2>1, <2>4, <2>8
    <2> QED
      BY <2>2, <2>5, <2>6, <2>7, <2>8
  <1> HIDE DEF m
  <1>2. CASE session' = QueueForNextThread(m)
    <2> DEFINE e == EnqueueGroupReplyTarget(s, m)
               p == PromoteNextTarget(e)
    <2>1. TypedSession(e) /\ e.run = s.run
      BY <1>1, EnqueueType
    <2>2. /\ e.steer = s.steer /\ e.timer = s.timer /\ e.phase = s.phase
          /\ e.pending = s.pending
      BY <1>1, FieldTypes DEF EnqueueGroupReplyTarget, Session
    <2>3. \/ session' = e /\ (HasActiveResponse(s) \/ s.pending # <<>>)
          \/ ~HasActiveResponse(s) /\ session' = Schedule(p)
      BY <1>2 DEF QueueForNextThread
    <2> HIDE DEF e
    <2>4. CASE session' = e /\ (HasActiveResponse(s) \/ s.pending # <<>>)
      BY <2>1, <2>2, <2>4 DEF Alert, HasWork, Awake, ChatFirst, HasActiveResponse,
         IsResponding, IsGenerating
    <2>5. CASE ~HasActiveResponse(s) /\ session' = Schedule(p)
      <3>1. s.steer = <<>>
        BY <2>5 DEF Alert, HasActiveResponse
      <3>2. TypedSession(p) /\ p.run = e.run
        BY <2>1, PromoteNextType
      <3>3. p.steer = e.steer
        <4> DEFINE q == Head(e.queued) \o e.pending
                   rest == Tail(e.queued)
        <4>1. /\ p \in {e, [e EXCEPT !.pending = q, !.queued = rest, !.waits = 0]}
              /\ e \in Session
          BY <2>1, FieldTypes DEF PromoteNextTarget
        <4> HIDE DEF q, rest, p
        <4> QED
          BY <4>1 DEF Session
      <3> HIDE DEF p
      <3>4. Alert(session') /\ session'.run = s.run
        BY <2>1, <2>2, <2>5, <3>1, <3>2, <3>3, ScheduleAlert
      <3> QED
        BY <3>4 DEF ChatFirst
    <2> QED
      BY <2>3, <2>4, <2>5
  <1>3. CASE session' = ReplyNow(m)
    <2> DEFINE p == AppendPending(s, m)
    <2>1. /\ TypedSession(p) /\ p.run = s.run
          /\ p.steer = s.steer /\ p.phase = s.phase
      <3>1. p.steer = s.steer /\ p.phase = s.phase
        BY <1>1, FieldTypes DEF AppendPending, Session
      <3> QED
        BY <1>1, <3>1, AppendPendingType
    <2>2. \/ session' = p /\ HasActiveResponse(s)
          \/ ~HasActiveResponse(s) /\ session' = Schedule(p)
      BY <1>3 DEF ReplyNow
    <2> HIDE DEF p
    <2>3. CASE session' = p /\ HasActiveResponse(s)
      BY <2>1, <2>3 DEF Alert, HasWork, Awake, ChatFirst, HasActiveResponse,
         IsResponding, IsGenerating
    <2>4. CASE ~HasActiveResponse(s) /\ session' = Schedule(p)
      <3>1. p.steer = <<>>
        BY <2>1, <2>4 DEF Alert, HasActiveResponse
      <3>2. Alert(session') /\ session'.run = s.run
        BY <2>1, <2>4, <3>1, ScheduleAlert
      <3> QED
        BY <3>2 DEF ChatFirst
    <2> QED
      BY <2>2, <2>3, <2>4
  <1>4. CASE session' = InterruptWith(m)
    <2> DEFINE i == InterruptResponse(s)
               p == AppendPending(i, m)
    <2>1. TypedSession(i) /\ Len(i.run) = Len(s.run) /\ i.steer = <<>>
      BY <1>1, InterruptResponseType, InterruptKeeps
    <2> HIDE DEF i
    <2>2. TypedSession(p) /\ p.run = i.run /\ p.steer = <<>>
      <3>1. p.steer = i.steer
        BY <2>1, FieldTypes DEF AppendPending, Session
      <3> QED
        BY <1>1, <2>1, <3>1, AppendPendingType
    <2>3. session' = Schedule(p)
      BY <1>4 DEF InterruptWith, i
    <2> HIDE DEF p
    <2>4. Alert(session') /\ session'.run = i.run
      BY <2>2, <2>3, ScheduleAlert
    <2>5. DOMAIN session'.run = DOMAIN s.run
      BY <1>1, <2>1, <2>4, FieldTypes
    <2> QED
      BY <2>4, <2>5 DEF ChatFirst
  <1>5. CASE HasActiveResponse(s) /\ session' = SteerWith(m)
    <2> DEFINE o == InterruptOutbound(s)
    <2>1. TypedSession(o) /\ o.run = s.run /\ o.phase = s.phase
      BY <1>1, InterruptOutboundType, FieldTypes DEF InterruptOutbound, Session
    <2>2. session' \in {AppendSteer(o, m), AppendPending(o, m)}
      BY <1>5 DEF SteerWith
    <2> HIDE DEF o
    <2> DEFINE more == Append(o.pending, m)
               steers == Append(o.steer, m)
    <2>3. \/ session' = [o EXCEPT !.steer = steers]
          \/ session' = [o EXCEPT !.pending = more, !.waits = 0]
      BY <2>2 DEF AppendSteer, AppendPending
    <2> HIDE DEF more, steers
    <2>4. session'.run = s.run /\ session'.phase = s.phase
      <3>1. o \in Session
        BY <2>1, FieldTypes
      <3>2. session'.run = o.run /\ session'.phase = o.phase
        BY <2>3, <3>1 DEF Session
      <3> QED
        BY <2>1, <3>2
    <2> QED
      BY <1>5, <2>4 DEF Alert, HasWork, Awake, ChatFirst, HasActiveResponse,
         IsResponding, IsGenerating
  <1> QED
    BY <1>1, <1>2, <1>3, <1>4, <1>5

LEMMA TimerAndDispatchAlert ==
    ASSUME TypeOK, Coherent(session), Alert(session),
           \/ DebounceFire
           \/ \E t \in Triggers : DispatchScheduled(t)
           \/ \E e \in Events : DispatchEvent(e)
    PROVE  Alert(session') /\ ChatFirst(session, session')
  <1>0. TypedSession(session) /\ session \in Session
    BY FieldTypes DEF TypeOK
  <1>1. CASE DebounceFire
    <2> DEFINE c == ClearTimer(session)
    <2>1. session.timer /\ session' = FlushSession(c)
      BY <1>1 DEF DebounceFire
    <2>2. session.pending # <<>>
      BY <2>1 DEF Coherent, TimerMeansPending
    <2>3. TypedSession(c) /\ c.run = session.run /\ c.pending # <<>>
      BY <1>0, <2>2, ClearTimerType, ClearTimerCoherent
    <2> HIDE DEF c
    <2>4. session' = BeginGeneration(c)
      BY <2>1, <2>3 DEF FlushSession
    <2> QED
      BY <2>3, <2>4, BeginChat DEF Alert, Awake, ChatFirst
  <1>2. ASSUME NEW t \in Triggers, DispatchScheduled(t)
        PROVE  Alert(session') /\ ChatFirst(session, session')
    <2> DEFINE q == Append(session.triggers, t)
               u == [session EXCEPT !.triggers = q]
               b == BeginSyntheticGeneration(session, "trigger", t, <<>>)
    <2>1. \/ /\ session' = u
             /\ HasActiveResponse(session) \/ HasWork(session)
          \/ /\ ~HasActiveResponse(session) /\ session.pending = <<>>
             /\ session.queued = <<>> /\ session' = b
      BY <1>2 DEF DispatchScheduled, HasWork
    <2>2. CASE session' = u /\ (HasActiveResponse(session) \/ HasWork(session))
      <3> HIDE DEF q
      <3>1. /\ u.steer = session.steer /\ u.timer = session.timer
            /\ u.phase = session.phase /\ u.run = session.run
        BY <1>0 DEF Session
      <3> HIDE DEF u
      <3> QED
        BY <2>2, <3>1 DEF Alert, Awake, ChatFirst, HasActiveResponse, IsResponding, IsGenerating
    <2>3. CASE /\ ~HasActiveResponse(session) /\ session.pending = <<>>
               /\ session.queued = <<>> /\ session' = b
      <3>1. NoMessages(session)
        BY <2>3 DEF Alert, NoMessages, HasActiveResponse
      <3>2. "trigger" \in RunKinds /\ <<>> \in Seq(Events)
            /\ t \in Triggers \cup {NoTrigger}
        BY DEF RunKinds
      <3>3. IsResponding(session') /\ NoMessages(session')
        BY <1>0, <2>3, <3>1, <3>2, BeginBackground
      <3> QED
        BY <3>3 DEF Alert, Awake, ChatFirst
    <2> QED
      BY <2>1, <2>2, <2>3
  <1>3. ASSUME NEW e \in Events, DispatchEvent(e)
        PROVE  Alert(session') /\ ChatFirst(session, session')
    <2> DEFINE q == Append(session.inlines, e)
               u == [session EXCEPT !.inlines = q]
    <2>1. q \in Seq(Events)
      BY <1>0, FieldTypes
    <2>2. /\ u.steer = session.steer /\ u.timer = session.timer
          /\ u.phase = session.phase /\ u.run = session.run
          /\ u.pending = session.pending /\ u.triggers = session.triggers
          /\ u.queued = session.queued
          /\ u.genCtl = session.genCtl /\ u.respCtl = session.respCtl /\ u \in Session
      <3> HIDE DEF q
      <3> QED
        BY <1>0, <2>1 DEF Session
    <2>3. \/ session' = u /\ (HasActiveResponse(session) \/ HasWork(session))
          \/ ~IsResponding(u) /\ session' = ProcessNextSessionWork(u)
      <3>1. session' = IF ~HasActiveResponse(u) /\ u.pending = <<>> /\ u.triggers = <<>>
                       THEN ProcessNextSessionWork(u) ELSE u
        BY <1>3 DEF DispatchEvent
      <3> HIDE DEF u
      <3> QED
        BY <2>2, <3>1 DEF HasWork, HasActiveResponse, IsResponding, IsGenerating
    <2> HIDE DEF u
    <2>4. CASE session' = u /\ (HasActiveResponse(session) \/ HasWork(session))
      BY <2>2, <2>4 DEF Alert, Awake, ChatFirst, HasActiveResponse, IsResponding, IsGenerating
    <2>5. CASE ~IsResponding(u) /\ session' = ProcessNextSessionWork(u)
      <3>1. TypedSession(u) /\ BatchesHaveMessages(u)
        BY <1>0, <2>2 DEF TypedSession, Coherent, BatchesHaveMessages
      <3>2. Alert(session') /\ ChatFirst(u, session')
        BY <2>5, <3>1, ProcessNextAlert
      <3> QED
        BY <2>2, <3>2 DEF ChatFirst
    <2> QED
      BY <2>3, <2>4, <2>5
  <1> QED
    BY <1>1, <1>2, <1>3

LEMMA CommandAlert ==
    ASSUME TypeOK, Orderly, NothingOwed, Alert(session), CommandStep
    PROVE  Alert(session') /\ ChatFirst(session, session')
  <1>0. TypedSession(session)
    BY DEF TypeOK
  <1>1. "stop" \notin Commands /\ "confirm" \notin Commands /\ "debug" \notin Commands
        /\ "config" \notin Commands /\ "reset" \notin Commands /\ introducing = 0
    BY DEF Orderly, NothingOwed
  <1>2. InterruptCommand("skill") \/ ClearCommand("clear")
    BY <1>1 DEF CommandStep, StopCommand, ConfirmCommand, FlushCommand, InterruptCommand,
       ClearCommand, Introduce, Execute
  <1>3. CASE InterruptCommand("skill")
    <2>1. "skill" \in Commands /\ session' = InterruptResponse(session)
      BY <1>3 DEF InterruptCommand, Execute
    <2> QED
      BY <1>0, <2>1, InterruptKeeps DEF Alert, ChatFirst
  <1>4. CASE ClearCommand("clear")
    <2> DEFINE g == CancelGeneration(session)
               a == AbortAllControllers(ClearTimer(g))
               none == <<>>
               t == ClearSession(g)
    <2>1. session' = t
      BY <1>4 DEF ClearCommand, Execute
    <2>2. TypedSession(a)
      <3>1. TypedSession(g)
        BY <1>0, CancelGenerationType
      <3> HIDE DEF g
      <3>2. TypedSession(ClearTimer(g))
        BY <3>1, ClearTimerType
      <3> QED
        BY <3>2, AbortAllType
    <2>3. TypedSession(t) /\ Len(t.run) = Len(session.run)
      <3>1. TypedSession(g) /\ Len(g.run) = Len(session.run)
        BY <1>0, CancelGenerationType
      <3> HIDE DEF g
      <3> QED
        BY <3>1, ClearSessionType
    <2>4. t = [a EXCEPT !.mutationEpoch = g.mutationEpoch + 1, !.pending = none,
                        !.steer = none, !.queued = none, !.waits = 0, !.target = NoUser,
                        !.triggers = none, !.inlines = none, !.phase = "idle",
                        !.genCtl = 0, !.respCtl = 0, !.outCtl = "none"]
      BY DEF ClearSession
    <2> HIDE DEF a, t, g, none
    <2>5. /\ t.pending = none /\ t.steer = none /\ t.queued = none
          /\ t.triggers = none /\ t.inlines = none
      BY <2>2, <2>4, FieldTypes DEF Session
    <2>6. DOMAIN t.run = DOMAIN session.run
      BY <1>0, <2>3, FieldTypes
    <2> QED
      BY <2>1, <2>5, <2>6 DEF none, Alert, HasWork, ChatFirst
  <1> QED
    BY <1>2, <1>3, <1>4

-----------------------------------------------------------------------------
(* The resumptions of a run *)

LEMMA PrepAlert ==
    ASSUME TypeOK, Coherent(session), Alert(session), NEW r \in DOMAIN session.run,
           PrepContinue(r) \/ PrepSkip(r) \/ PrepFail(r) \/ PrepWait(r)
    PROVE  Alert(session') /\ ChatFirst(session, session')
  <1>0. TypedSession(session) /\ session \in Session /\ session.run[r] \in Run
        /\ session.run[r].stage = "prep"
        /\ session.run[r].repoch = r /\ BatchesHaveMessages(session)
    BY FieldTypes DEF TypeOK, PrepContinue, PrepSkip, PrepFail, PrepWait, Suspended,
       Coherent, EpochsNumberRuns
  <1>1. CASE PrepContinue(r)
    <2> DEFINE q == [session.run EXCEPT ![r].stage = "exec"]
    <2>1. session' = [session EXCEPT !.run = q]
      BY <1>0, <1>1 DEF PrepContinue, Resumed, Session
    <2>2. DOMAIN q = DOMAIN session.run
      OBVIOUS
    <2> HIDE DEF q
    <2>3. SameWork(session, session') /\ session'.steer = session.steer
      BY <1>0, <2>1, <2>2 DEF Session, SameWork, IsResponding, IsGenerating
    <2> QED
      BY <2>3, SameWorkAlert
  <1>2. CASE PrepSkip(r) \/ PrepFail(r)
    <2> DEFINE e == EndRun(session, r)
    <2>1. session' = GiveBack(e, r)
      BY <1>2 DEF PrepSkip, PrepFail, Ended
    <2>2. /\ TypedSession(e) /\ BatchesHaveMessages(e)
          /\ SameWork(session, e) /\ e.steer = session.steer
          /\ e.run[r].repoch = session.run[r].repoch
      BY <1>0, EndRunAlert
    <2>3. e.genCtl = session.genCtl /\ e.responseEpoch = session.responseEpoch
      BY <1>0, EndRunFields
    <2>4. CASE r = session.genCtl
      <3>1. e.genCtl = r /\ e.run[r].repoch = e.responseEpoch
        BY <1>0, <2>2, <2>3, <2>4, OwnerFacts
      <3> HIDE DEF e
      <3>2. Alert(session') /\ ChatFirst(e, session')
        BY <2>1, <2>2, <3>1, GiveBackAlert
      <3> QED
        BY <2>2, <3>2 DEF SameWork, ChatFirst
    <2>5. CASE r # session.genCtl
      BY <2>1, <2>2, <2>3, <2>5, SameWorkAlert DEF GiveBack
    <2> QED
      BY <2>4, <2>5
  <1>3. CASE PrepWait(r)
    <2> DEFINE batch == session.run[r].input
               passes == session.run[r].waits + 1
               q == RequeuePending(session, batch, passes)
               t == Schedule(q)
               e == EndRun(t, r)
    <2>1. r = session.genCtl
      BY <1>0, <1>3 DEF PrepWait, Coherent, OthersAreAborted
    <2>2. batch \in Seq(Msgs) /\ passes \in Nat
      BY <1>0 DEF Run
    <2> HIDE DEF batch, passes
    <2>3. /\ TypedSession(q) /\ q.run = session.run
          /\ q.responseEpoch = session.responseEpoch
          /\ q.genCtl = session.genCtl
          /\ q.queued = session.queued
      <3>1. TypedSession(q) /\ q.run = session.run
        BY <1>0, <2>2, RequeueType
      <3>2. /\ q.responseEpoch = session.responseEpoch
            /\ q.genCtl = session.genCtl /\ q.queued = session.queued
        BY <1>0 DEF RequeuePending, Session
      <3> QED
        BY <3>1, <3>2
    <2> HIDE DEF q
    <2>4. /\ TypedSession(t) /\ t.run = session.run
          /\ t.responseEpoch = session.responseEpoch
          /\ t.genCtl = session.genCtl
          /\ t.queued = session.queued
      BY <2>3, ScheduleType, ScheduleFields
    <2> HIDE DEF t
    <2>5. r \in DOMAIN t.run /\ BatchesHaveMessages(t)
      BY <1>0, <2>4 DEF BatchesHaveMessages
    <2>6. /\ TypedSession(e) /\ BatchesHaveMessages(e)
          /\ SameWork(t, e) /\ e.run[r].repoch = t.run[r].repoch
          /\ e.genCtl = t.genCtl /\ e.responseEpoch = t.responseEpoch
      <3>1. e.genCtl = t.genCtl /\ e.responseEpoch = t.responseEpoch
        BY <2>4, <2>5, EndRunFields
      <3> QED
        BY <2>4, <2>5, <3>1, EndRunAlert
    <2>7. session' = GiveBack(e, r)
      BY <1>3 DEF PrepWait, Resumed, e, t, q, batch, passes
    <2> HIDE DEF e
    <2>8. e.genCtl = r /\ e.run[r].repoch = e.responseEpoch
      BY <1>0, <2>1, <2>4, <2>6, OwnerFacts
    <2>9. Alert(session') /\ ChatFirst(e, session')
      BY <2>6, <2>7, <2>8, GiveBackAlert
    <2> QED
      BY <2>4, <2>6, <2>9 DEF SameWork, ChatFirst
  <1> QED
    BY <1>1, <1>2, <1>3

LEMMA ExecAlert ==
    ASSUME TypeOK, Orderly, Coherent(session), Alert(session), NEW r \in DOMAIN session.run,
           \/ \E phase \in {"requesting", "generating"} : ExecPhase(r, phase)
           \/ ExecConsumeSteer(r) \/ ExecConsumeEvents(r) \/ ExecSuperseded(r)
    PROVE  Alert(session') /\ ChatFirst(session, session')
  <1>0. TypedSession(session) /\ session \in Session /\ session.run[r] \in Run
        /\ session.run[r].stage = "exec"
    BY FieldTypes DEF TypeOK, ExecPhase, ExecConsumeSteer, ExecConsumeEvents, ExecSuperseded,
       Suspended
  <1>1. ASSUME NEW phase \in {"requesting", "generating"}, ExecPhase(r, phase)
        PROVE  Alert(session') /\ ChatFirst(session, session')
    <2>1. r = session.genCtl
      BY <1>0, <1>1, FieldTypes DEF ExecPhase, Coherent, OthersAreAborted
    <2>2. IsResponding(session)
      BY <1>0, <2>1, OwnerFacts
    <2>3. session' = [session EXCEPT !.phase = phase]
      BY <1>1 DEF ExecPhase, Resumed
    <2>4. SameWork(session, session') /\ session'.steer = session.steer
      BY <1>0, <2>2, <2>3 DEF Session, SameWork, IsResponding, IsGenerating, GeneratingPhases
    <2> QED
      BY <2>4, SameWorkAlert
  <1>2. CASE ExecSuperseded(r)
    <2> DEFINE q == [session.run EXCEPT ![r].genAb = TRUE, ![r].respAb = TRUE]
    <2>1. session' = [session EXCEPT !.run = q]
      BY <1>0, <1>2 DEF ExecSuperseded, Resumed, Session
    <2>2. DOMAIN q = DOMAIN session.run
      OBVIOUS
    <2> HIDE DEF q
    <2>3. SameWork(session, session') /\ session'.steer = session.steer
      BY <1>0, <2>1, <2>2 DEF Session, SameWork, IsResponding, IsGenerating
    <2> QED
      BY <2>3, SameWorkAlert
  <1>3. CASE ExecConsumeSteer(r)
    <2> DEFINE q == [session.run EXCEPT ![r].input = session.run[r].input \o session.steer]
               out == IF session.outCtl = "aborted" THEN "live" ELSE session.outCtl
               none == <<>>
    <2>1. session' = [session EXCEPT !.run = q, !.steer = none, !.outCtl = out]
      BY <1>0, <1>3 DEF ExecConsumeSteer, Resumed, ConsumeSteer, Session
    <2>2. DOMAIN q = DOMAIN session.run
      OBVIOUS
    <2> HIDE DEF q, out, none
    <2>3. SameWork(session, session') /\ session'.steer = none
      BY <1>0, <2>1, <2>2 DEF Session, SameWork, IsResponding, IsGenerating
    <2> QED
      BY <2>3, SameWorkAlert DEF none
  <1>4. CASE ExecConsumeEvents(r)
    <2> DEFINE q == [session.run EXCEPT ![r].events = session.run[r].events \o session.inlines]
               none == <<>>
    <2>1. session' = [session EXCEPT !.run = q, !.inlines = none]
      BY <1>0, <1>4 DEF ExecConsumeEvents, Resumed, DrainInlines, Session
    <2>2. DOMAIN q = DOMAIN session.run
      OBVIOUS
    <2> HIDE DEF q, none
    <2>3. /\ session'.steer = session.steer /\ session'.pending = session.pending
          /\ session'.queued = session.queued /\ session'.triggers = session.triggers
          /\ session'.inlines = none
          /\ session'.timer = session.timer /\ session'.phase = session.phase
          /\ session'.run = q
      BY <1>0, <2>1 DEF Session
    <2> QED
      BY <2>2, <2>3 DEF none, Alert, HasWork, Awake, ChatFirst, IsResponding, IsGenerating
  <1> QED
    BY <1>1, <1>2, <1>3, <1>4

LEMMA ExecEndAlert ==
    ASSUME TypeOK, Orderly, Coherent(session), Alert(session),
           NEW r \in DOMAIN session.run, ExecEnd(r)
    PROVE  Alert(session') /\ ChatFirst(session, session')
  <1> DEFINE owner == session.genCtl = r
             g == FinishGeneration(session, r)
             f == [g EXCEPT !.run[r].fin = owner]
             stage == IF IsResponseOpen(f, f.run[r].repoch) THEN "drain" ELSE "closing"
  <1>0. TypedSession(session) /\ session \in Session
    BY FieldTypes DEF TypeOK
  <1>1. session' = [f EXCEPT !.run[r].stage = stage]
    BY DEF ExecEnd, Orderly, Resumed, AfterFinish
  <1>2. /\ TypedSession(g) /\ g.run = session.run
        /\ g.steer = session.steer
        /\ SameWork(session, g)
    <2>1. TypedSession(g) /\ g.run = session.run
      BY <1>0, FinishGenerationType
    <2>2. CASE owner
      <3>1. IsResponding(session)
        BY <1>0, <2>2, OwnerFacts
      <3>2. g = [session EXCEPT !.phase = "delivering", !.genCtl = 0]
        BY <2>2 DEF FinishGeneration
      <3> HIDE DEF g
      <3>3. SameWork(session, g) /\ g.steer = session.steer
        BY <1>0, <3>1, <3>2 DEF Session, SameWork, IsResponding
      <3> QED
        BY <2>1, <3>3
    <2>3. CASE ~owner
      BY <2>1, <2>3 DEF FinishGeneration, SameWork
    <2> QED
      BY <2>2, <2>3
  <1> HIDE DEF stage
  <1>3. /\ SameWork(g, session') /\ session'.steer = g.steer
    <2> HIDE DEF g
    <2> DEFINE q == [g.run EXCEPT ![r].fin = owner]
               z == [q EXCEPT ![r].stage = stage]
    <2>1. g \in Session
      BY <1>2, FieldTypes
    <2>2. f = [g EXCEPT !.run = q]
      BY <2>1 DEF Session
    <2>3. DOMAIN z = DOMAIN g.run
      OBVIOUS
    <2>4. session' = [f EXCEPT !.run = [f.run EXCEPT ![r].stage = stage]]
      BY <1>1, <2>1, <2>2 DEF Session
    <2> HIDE DEF q, f
    <2>5. f.run = q
      BY <2>1, <2>2 DEF Session
    <2>6. session' = [g EXCEPT !.run = z]
      BY <2>1, <2>2, <2>4, <2>5 DEF Session
    <2> HIDE DEF z
    <2> QED
      BY <2>1, <2>3, <2>6 DEF Session, SameWork, IsResponding, IsGenerating
  <1> HIDE DEF g
  <1>4. SameWork(session, session') /\ session'.steer = session.steer
    BY <1>2, <1>3 DEF SameWork
  <1> QED
    BY <1>4, SameWorkAlert

LEMMA CloseAlert ==
    ASSUME TypeOK, Coherent(session), Alert(session), NEW r \in DOMAIN session.run,
           DrainEnd(r) \/ CloseEnd(r)
    PROVE  Alert(session') /\ ChatFirst(session, session')
  <1> DEFINE e == EndRun(session, r)
             p == PromoteSteer(e)
             epoch == session.run[r].repoch
  <1>0. TypedSession(session) /\ BatchesHaveMessages(session)
    BY DEF TypeOK, Coherent
  <1>1. /\ TypedSession(e) /\ BatchesHaveMessages(e)
        /\ SameWork(session, e) /\ e.steer = session.steer
    BY <1>0, EndRunAlert
  <1>2. Alert(e) /\ ChatFirst(session, e)
    BY <1>1, SameWorkAlert
  <1>3. \/ session' = CompleteAndContinue(p, epoch)
        \/ session' = CompleteAndContinue(e, epoch)
        \/ session' = e
    BY DEF DrainEnd, CloseEnd, Ended
  <1> HIDE DEF e, epoch
  <1>4. TypedSession(p) /\ BatchesHaveMessages(p) /\ Alert(p) /\ p.run = e.run
    BY <1>1, <1>2, PromoteSteerAlert, PromoteSteerType DEF BatchesHaveMessages
  <1> HIDE DEF p
  <1>5. CASE session' = CompleteAndContinue(p, epoch)
    BY <1>1, <1>4, <1>5, CompleteAndContinueAlert DEF ChatFirst, SameWork
  <1>6. CASE session' = CompleteAndContinue(e, epoch)
    BY <1>1, <1>2, <1>6, CompleteAndContinueAlert DEF ChatFirst, SameWork
  <1>7. CASE session' = e
    BY <1>2, <1>7
  <1> QED
    BY <1>3, <1>5, <1>6, <1>7

LEMMA NextAlert ==
    ASSUME TypeOK, Orderly, NothingOwed, Coherent(session), Alert(session), [Next]_vars
    PROVE  Alert(session') /\ ChatFirst(session, session')
  <1>1. CASE UNCHANGED session
    BY <1>1 DEF ChatFirst
  <1>2. CASE Environment
    <2>1. ASSUME NEW m \in Msgs, Decide(m) PROVE UNCHANGED session
      BY <2>1 DEF Decide
    <2> QED
      BY <1>1, <1>2, <2>1, TimerAndDispatchAlert, CommandAlert DEF Environment
  <1>3. CASE Admit \/ DebounceFire
    BY <1>3, AdmitAlert, TimerAndDispatchAlert
  <1>4. ASSUME NEW r \in DOMAIN session.run, RunStep(r)
        PROVE  Alert(session') /\ ChatFirst(session, session')
    <2>1. ~SetupChecked(r)
      BY DEF SetupChecked, Suspended, Coherent, OthersAreAborted
    <2> QED
      BY <1>4, <2>1, PrepAlert, ExecAlert, ExecEndAlert, CloseAlert DEF RunStep
  <1> QED
    BY <1>1, <1>2, <1>3, <1>4 DEF Next, vars

LEMMA AlertHolds == Spec => [](Orderly => Alert(session))
  <1>1. Init => (Orderly => Alert(session))
    BY DEF Init, CreateSessionState, Alert, HasWork
  <1>2. TypeOK /\ NothingOwed /\ CoherentSession /\ (Orderly => Alert(session)) /\ [Next]_vars
          => (Orderly => Alert(session))'
    BY NextAlert DEF CoherentSession, Orderly
  <1> QED
    BY <1>1, <1>2, TypeCorrect, NothingOwedHolds, CoherenceHolds, PTL DEF Spec

(***************************************************************************)
(* In orderly use without commands that only interrupt, waiting work       *)
(* always has a timer or an open response that will start it: no session   *)
(* is left with messages, instructions or events nobody looks for.         *)
(***************************************************************************)
THEOREM WaitingWorkIsServed ==
    ASSUME Orderly, "skill" \notin Commands
    PROVE  Spec => []QueuedWorkHasWaker
  <1>1. Orderly
    OBVIOUS
  <1>2. TypeOK /\ (Orderly => Alert(session)) => QueuedWorkHasWaker
    <2> SUFFICES ASSUME TypeOK, Alert(session),
                        Waiting(session) # {} \/ session.triggers # <<>>
                          \/ session.inlines # <<>>
                 PROVE  Awake(session)
      BY <1>1 DEF QueuedWorkHasWaker, Awake
    <2>1. HasWork(session)
      <3>1. CASE Waiting(session) # {}
        <4>1. ~(session.pending = <<>> /\ session.steer = <<>> /\ session.queued = <<>>)
          BY <3>1 DEF Waiting, Range
        <4> QED
          BY <4>1 DEF HasWork
      <3> QED
        BY <3>1 DEF HasWork
    <2> QED
      BY <2>1 DEF Alert
  <1> QED
    BY <1>2, TypeCorrect, AlertHolds, PTL

(***************************************************************************)
(* In orderly use no scheduled instruction and no event is started while a *)
(* message waits (generationRunner.ts, "background jobs do not leapfrog    *)
(* fresh user messages").                                                  *)
(***************************************************************************)
THEOREM UsersComeFirst == ASSUME Orderly PROVE Spec => BackgroundWaitsForChat
  <1>1. Orderly
    OBVIOUS
  <1>2. TypeOK /\ NothingOwed /\ CoherentSession /\ (Orderly => Alert(session)) /\ [Next]_vars
          => [\A r \in DOMAIN session'.run \ DOMAIN session.run :
                 session'.run[r].kind # "chat" => Waiting(session') = {}]_vars
    <2> SUFFICES ASSUME TypeOK, NothingOwed, CoherentSession,
                        Orderly => Alert(session), [Next]_vars,
                        NEW r \in DOMAIN session'.run \ DOMAIN session.run,
                        session'.run[r].kind # "chat"
                 PROVE  Waiting(session') = {}
      OBVIOUS
    <2>1. ChatFirst(session, session')
      BY <1>1, NextAlert DEF CoherentSession
    <2>2. NoMessages(session')
      BY <2>1 DEF ChatFirst
    <2> QED
      BY <2>2 DEF NoMessages, Waiting, Range
  <1> QED
    BY <1>2, TypeCorrect, NothingOwedHolds, CoherenceHolds, AlertHolds, PTL DEF Spec, BackgroundWaitsForChat
=============================================================================
