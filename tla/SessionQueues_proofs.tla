------------------------ MODULE SessionQueues_proofs ------------------------
(***************************************************************************)
(* Where the messages of a session are, in any use of it (also with        *)
(* .stop, .confirm, setup turns and flushing commands, for which the       *)
(* session is not coherent): the queue of group threads keeps one sorted   *)
(* entry per member, and every accepted message is in exactly one place.   *)
(* The second is an invariant because of the first: a message joins one    *)
(* queue entry, not two, only while no two entries have the same sender.   *)
(* Then, while messages only steer the generation: its output is muted     *)
(* exactly for a waiting steer, and messages keep the order of arrival.    *)
(***************************************************************************)
EXTENDS SessionCoherence_proofs, FiniteSetTheorems

-----------------------------------------------------------------------------
(* The queue of group threads, in any use of the session.                  *)

At(arr, x) == CHOOSE i \in DOMAIN arr : arr[i] = x
Sorted(arr, q) == \A i, j \in DOMAIN q : i < j => At(arr, q[i]) < At(arr, q[j])
Injective(q) == \A i, j \in DOMAIN q : q[i] = q[j] => i = j

(* One entry: messages that arrived, of one member, in order. *)
GoodEntry(arr, q) ==
    /\ q \in Seq(Msgs) /\ q # <<>>
    /\ OneThread(q) /\ Sorted(arr, q)
    /\ \A k \in DOMAIN q : q[k] \in Range(arr)

GoodQueue(arr, Q) ==
    /\ \A i \in DOMAIN Q : GoodEntry(arr, Q[i])
    /\ \A i, k \in DOMAIN Q : Sender[Head(Q[i])] = Sender[Head(Q[k])] => i = k

LEMMA AtIndex ==
    ASSUME NEW arr, Injective(arr), NEW i \in DOMAIN arr
    PROVE  At(arr, arr[i]) = i
  BY DEF At, Injective

(* A message that arrives is the last, and moves no other. *)
LEMMA ArrivalKeepsPlaces ==
    ASSUME NEW arr \in Seq(Msgs), Injective(arr), NEW m \in Msgs, m \notin Range(arr)
    PROVE  LET new == Append(arr, m) IN
           /\ Injective(new) /\ m \in Range(new)
           /\ \A x \in Range(arr) : /\ x \in Range(new)
                                    /\ At(new, x) = At(arr, x)
                                    /\ At(new, x) < At(new, m)
  <1> DEFINE new == Append(arr, m)
             n == Len(arr)
  <1>1. /\ n \in Nat /\ DOMAIN arr = 1 .. n /\ DOMAIN new = 1 .. (n + 1)
        /\ new[n + 1] = m /\ \A i \in 1 .. n : new[i] = arr[i]
    OBVIOUS
  <1>2. \A i \in 1 .. n : arr[i] # m
    BY <1>1 DEF Range
  <1> HIDE DEF new, n
  <1>3. Injective(new)
    BY <1>1, <1>2 DEF Injective
  <1>4. m \in Range(new) /\ At(new, m) = n + 1
    <2>1. n + 1 \in DOMAIN new
      BY <1>1
    <2> QED
      BY <1>1, <1>3, <2>1, AtIndex DEF Range
  <1>5. ASSUME NEW x \in Range(arr)
        PROVE  x \in Range(new) /\ At(new, x) = At(arr, x) /\ At(new, x) < At(new, m)
    <2>1. PICK i \in DOMAIN arr : arr[i] = x
      BY DEF Range
    <2>2. i \in DOMAIN new /\ new[i] = x /\ i < n + 1
      BY <1>1, <2>1
    <2>3. At(arr, x) = i /\ At(new, x) = i
      BY <1>3, <2>1, <2>2, AtIndex
    <2> QED
      BY <1>4, <2>2, <2>3 DEF Range
  <1> QED
    BY <1>3, <1>4, <1>5 DEF new

LEMMA ArrivalKeepsQueue ==
    ASSUME NEW arr \in Seq(Msgs), Injective(arr), NEW m \in Msgs, m \notin Range(arr),
           NEW Q, GoodQueue(arr, Q)
    PROVE  /\ GoodQueue(Append(arr, m), Q)
           /\ \A i \in DOMAIN Q : \A k \in DOMAIN Q[i] :
                 At(Append(arr, m), Q[i][k]) < At(Append(arr, m), m)
  <1> DEFINE new == Append(arr, m)
  <1>1. \A x \in Range(arr) : /\ x \in Range(new)
                              /\ At(new, x) = At(arr, x)
                              /\ At(new, x) < At(new, m)
    BY ArrivalKeepsPlaces
  <1> HIDE DEF new
  <1>2. \A i \in DOMAIN Q : \A k \in DOMAIN Q[i] : Q[i][k] \in Range(arr)
    BY DEF GoodQueue, GoodEntry
  <1>3. ASSUME NEW i \in DOMAIN Q PROVE GoodEntry(new, Q[i])
    <2>1. Sorted(new, Q[i])
      BY <1>1, <1>2 DEF GoodQueue, GoodEntry, Sorted
    <2> QED
      BY <1>1, <1>2, <2>1 DEF GoodQueue, GoodEntry
  <1> QED
    BY <1>1, <1>2, <1>3 DEF GoodQueue, new

LEMMA TailIsGood ==
    ASSUME NEW arr, NEW Q \in Seq(Seq(Msgs)), Q # <<>>, GoodQueue(arr, Q)
    PROVE  GoodQueue(arr, Tail(Q))
  <1> DEFINE T == Tail(Q)
  <1>1. /\ \A i \in DOMAIN T : i + 1 \in DOMAIN Q /\ T[i] = Q[i + 1]
        /\ \A i \in DOMAIN T : i \in Nat
    OBVIOUS
  <1> HIDE DEF T
  <1>2. \A i \in DOMAIN T : GoodEntry(arr, T[i])
    BY <1>1 DEF GoodQueue
  <1>3. ASSUME NEW i \in DOMAIN T, NEW k \in DOMAIN T, Sender[Head(T[i])] = Sender[Head(T[k])]
        PROVE  i = k
    <2>1. /\ i + 1 \in DOMAIN Q /\ T[i] = Q[i + 1]
          /\ k + 1 \in DOMAIN Q /\ T[k] = Q[k + 1]
      BY <1>1
    <2>2. Sender[Head(Q[i + 1])] = Sender[Head(Q[k + 1])]
      BY <1>3, <2>1
    <2>3. i + 1 = k + 1
      BY <2>1, <2>2 DEF GoodQueue
    <2> QED
      BY <1>1, <2>3
  <1> QED
    BY <1>2, <1>3 DEF GoodQueue, T

(* The newest arrival of a member joins that member's entry. *)
LEMMA JoinIsGood ==
    ASSUME NEW arr, NEW q, GoodEntry(arr, q), NEW m \in Msgs, m \in Range(arr),
           Sender[Head(q)] = Sender[m],
           \A k \in DOMAIN q : At(arr, q[k]) < At(arr, m)
    PROVE  GoodEntry(arr, Append(q, m)) /\ Head(Append(q, m)) = Head(q)
  <1> DEFINE a == Append(q, m)
             n == Len(q)
  <1>1. q \in Seq(Msgs) /\ q # <<>>
    BY DEF GoodEntry
  <1>2. /\ a \in Seq(Msgs) /\ a # <<>> /\ n \in Nat /\ n >= 1 /\ DOMAIN q = 1 .. n
        /\ DOMAIN a = 1 .. (n + 1) /\ a[n + 1] = m /\ \A i \in 1 .. n : a[i] = q[i]
        /\ Head(q) = q[1] /\ Head(a) = a[1]
    BY <1>1
  <1> HIDE DEF a, n
  <1>3. \A i \in DOMAIN a : i = n + 1 \/ i \in DOMAIN q
    BY <1>2
  <1>4. \A i \in DOMAIN a : Sender[a[i]] = Sender[m]
    BY <1>2, <1>3 DEF GoodEntry, OneThread
  <1>5. Sorted(arr, a)
    <2> SUFFICES ASSUME NEW i \in DOMAIN a, NEW j \in DOMAIN a, i < j
                 PROVE  At(arr, a[i]) < At(arr, a[j])
      BY DEF Sorted
    <2>1. i \in DOMAIN q /\ a[i] = q[i]
      BY <1>2
    <2>2. CASE j = n + 1
      BY <1>2, <2>1, <2>2
    <2>3. CASE j \in DOMAIN q
      BY <1>2, <2>1, <2>3 DEF GoodEntry, Sorted
    <2> QED
      BY <1>3, <2>2, <2>3
  <1>6. \A k \in DOMAIN a : a[k] \in Range(arr)
    BY <1>2, <1>3 DEF GoodEntry
  <1>7. Head(a) = Head(q)
    BY <1>2
  <1> QED
    BY <1>2, <1>4, <1>5, <1>6, <1>7 DEF GoodEntry, OneThread, a

LEMMA EnqueueIsGood ==
    ASSUME NEW s, TypedSession(s), NEW arr, GoodQueue(arr, s.queued),
           NEW m \in Msgs, m \in Range(arr),
           \A i \in DOMAIN s.queued : \A k \in DOMAIN s.queued[i] :
              At(arr, s.queued[i][k]) < At(arr, m)
    PROVE  GoodQueue(arr, EnqueueGroupReplyTarget(s, m).queued)
  <1> DEFINE Q == s.queued
             match == \E i \in DOMAIN Q : Sender[Head(Q[i])] = Sender[m]
             joined == [i \in DOMAIN s.queued |->
                          IF Sender[Head(s.queued[i])] = Sender[m]
                          THEN Append(s.queued[i], m) ELSE s.queued[i]]
             one == <<m>>
             longer == Append(Q, one)
             t == EnqueueGroupReplyTarget(s, m)
  <1>1. s \in Session /\ Q \in Seq(Seq(Msgs))
    BY FieldTypes
  <1>2. t = IF match THEN [s EXCEPT !.queued = joined] ELSE [s EXCEPT !.queued = longer]
    BY DEF EnqueueGroupReplyTarget
  <1>3. ASSUME match PROVE GoodQueue(arr, joined)
    <2>1. \A i \in DOMAIN Q : GoodEntry(arr, joined[i]) /\ Head(joined[i]) = Head(Q[i])
      <3> SUFFICES ASSUME NEW i \in DOMAIN Q
                   PROVE  GoodEntry(arr, joined[i]) /\ Head(joined[i]) = Head(Q[i])
        OBVIOUS
      <3>1. CASE Sender[Head(Q[i])] = Sender[m]
        <4>1. joined[i] = Append(Q[i], m)
          BY <3>1
        <4>2. GoodEntry(arr, Q[i])
          BY DEF GoodQueue
        <4> QED
          BY <3>1, <4>1, <4>2, JoinIsGood
      <3>2. CASE Sender[Head(Q[i])] # Sender[m]
        BY <3>2 DEF GoodQueue
      <3> QED
        BY <3>1, <3>2
    <2>2. DOMAIN joined = DOMAIN Q
      OBVIOUS
    <2> HIDE DEF joined
    <2> QED
      BY <2>1, <2>2 DEF GoodQueue
  <1>4. ASSUME ~match PROVE GoodQueue(arr, longer)
    <2> DEFINE n == Len(Q)
    <2>1. one \in Seq(Msgs) /\ one # <<>> /\ DOMAIN one = {1} /\ one[1] = m /\ Head(one) = m
      OBVIOUS
    <2>2. GoodEntry(arr, one)
      BY <2>1 DEF GoodEntry, OneThread, Sorted
    <2> HIDE DEF one
    <2>3. /\ n \in Nat /\ DOMAIN Q = 1 .. n /\ DOMAIN longer = 1 .. (n + 1)
          /\ longer[n + 1] = one /\ \A i \in 1 .. n : longer[i] = Q[i]
      BY <1>1, <2>1
    <2> HIDE DEF longer, n
    <2>4. \A i \in DOMAIN longer : i = n + 1 \/ i \in DOMAIN Q
      BY <2>3
    <2>5. \A i \in DOMAIN longer : GoodEntry(arr, longer[i])
      BY <2>2, <2>3, <2>4 DEF GoodQueue
    <2>6. \A i, k \in DOMAIN longer :
            Sender[Head(longer[i])] = Sender[Head(longer[k])] => i = k
      BY <1>4, <2>1, <2>3, <2>4 DEF GoodQueue
    <2> QED
      BY <2>5, <2>6 DEF GoodQueue
  <1> HIDE DEF joined, longer, match, t
  <1>5. t.queued = IF match THEN joined ELSE longer
    BY <1>1, <1>2 DEF Session
  <1> QED
    BY <1>3, <1>4, <1>5 DEF t

-----------------------------------------------------------------------------
(* Every operation but an enqueuing leaves the queue, takes its first      *)
(* entry, or empties it.                                                   *)

Shrinks(Q, R) == R \in {Q, <<>>} \/ (Q # <<>> /\ R = Tail(Q))

LEMMA ShrunkIsGood ==
    ASSUME NEW arr, NEW Q \in Seq(Seq(Msgs)), GoodQueue(arr, Q), NEW R, Shrinks(Q, R)
    PROVE  GoodQueue(arr, R)
  <1>1. GoodQueue(arr, <<>>)
    BY DEF GoodQueue
  <1> QED
    BY <1>1, TailIsGood DEF Shrinks

LEMMA BeginKeepsQueue ==
    ASSUME NEW s, TypedSession(s)
    PROVE  /\ BeginGeneration(s).queued = s.queued
           /\ \A kind \in RunKinds, trigger \in Triggers \cup {NoTrigger}, events \in Seq(Events) :
                 BeginSyntheticGeneration(s, kind, trigger, events).queued = s.queued
  <1>1. BeginGeneration(s).queued = s.queued
    <2> DEFINE u == StartRun(s, "chat", s.pending, NoTrigger, <<>>)
               user == IF s.pending = <<>> THEN NoUser ELSE Sender[Head(s.pending)]
               t == BeginGeneration(s)
    <2>1. t = [u EXCEPT !.pending = <<>>, !.waits = 0, !.target = user, !.phase = "planning"]
      BY DEF BeginGeneration
    <2>2. u \in Session
      <3>1. s.pending \in Seq(Msgs) /\ "chat" \in RunKinds /\ <<>> \in Seq(Events)
        BY FieldTypes DEF RunKinds
      <3> QED
        BY <3>1, StartRunType DEF TypedSession
    <2>3. u.queued = s.queued
      <3>1. Started(s, "chat", s.pending, u)
        BY StartRunStarts
      <3> HIDE DEF u
      <3> QED
        BY <3>1 DEF Started
    <2> HIDE DEF u, user, t
    <2>4. t.queued = u.queued
      BY <2>1, <2>2 DEF Session
    <2> QED
      BY <2>3, <2>4 DEF t
  <1>2. ASSUME NEW kind \in RunKinds, NEW trigger \in Triggers \cup {NoTrigger},
               NEW events \in Seq(Events)
        PROVE  BeginSyntheticGeneration(s, kind, trigger, events).queued = s.queued
    <2> DEFINE u == StartRun(s, kind, <<>>, trigger, events)
               t == BeginSyntheticGeneration(s, kind, trigger, events)
    <2>1. t = [u EXCEPT !.target = NoUser, !.phase = "requesting"]
      BY DEF BeginSyntheticGeneration
    <2>2. u \in Session
      <3>1. <<>> \in Seq(Msgs)
        OBVIOUS
      <3> QED
        BY <3>1, StartRunType DEF TypedSession
    <2>3. u.queued = s.queued
      <3>1. Started(s, kind, <<>>, u)
        BY StartRunStarts
      <3> HIDE DEF u
      <3> QED
        BY <3>1 DEF Started
    <2> HIDE DEF u, t
    <2>4. t.queued = u.queued
      BY <2>1, <2>2 DEF Session
    <2> QED
      BY <2>3, <2>4 DEF t
  <1> QED
    BY <1>1, <1>2

LEMMA PromoteNextShrinks ==
    ASSUME NEW s, TypedSession(s)
    PROVE  /\ s.queued # <<>> => PromoteNextTarget(s).queued = Tail(s.queued)
           /\ Shrinks(s.queued, PromoteNextTarget(s).queued)
  <1> DEFINE t == PromoteNextTarget(s)
             q == Head(s.queued) \o s.pending
             rest == Tail(s.queued)
  <1>1. CASE s.queued = <<>>
    BY <1>1 DEF PromoteNextTarget, Shrinks
  <1>2. CASE s.queued # <<>>
    <2>1. t = [s EXCEPT !.pending = q, !.queued = rest, !.waits = 0] /\ s \in Session
      BY <1>2, FieldTypes DEF PromoteNextTarget
    <2> HIDE DEF q, rest, t
    <2>2. t.queued = rest
      BY <2>1 DEF Session
    <2> QED
      BY <1>2, <2>2 DEF rest, t, Shrinks
  <1> QED
    BY <1>1, <1>2

LEMMA ProcessNextShrinks ==
    ASSUME NEW s, TypedSession(s)
    PROVE  Shrinks(s.queued, ProcessNextSessionWork(s).queued)
  <1> DEFINE a == PromoteSteer(s)
             p == IF a.pending = <<>> THEN PromoteNextTarget(a) ELSE a
             u == [p EXCEPT !.triggers = Tail(p.triggers)]
             v == [p EXCEPT !.inlines = <<>>]
             trigger == BeginSyntheticGeneration(u, "trigger", Head(p.triggers), <<>>)
             inline == BeginSyntheticGeneration(v, "inline", NoTrigger, p.inlines)
             next == ProcessNextSessionWork(s)
  <1>1. TypedSession(a) /\ a.queued = s.queued
    <2>1. a.queued = s.queued
      BY FieldTypes DEF PromoteSteer, Session
    <2> QED
      BY <2>1, PromoteSteerType
  <1>2. next \in {s, p, BeginGeneration(p), inline} \/ (p.triggers # <<>> /\ next = trigger)
    BY DEF ProcessNextSessionWork
  <1> HIDE DEF a
  <1>3. TypedSession(p) /\ Shrinks(s.queued, p.queued)
    BY <1>1, PromoteNextType, PromoteNextShrinks DEF Shrinks
  <1> SUFFICES next.queued \in {s.queued, p.queued}
    BY <1>3 DEF Shrinks
  <1> HIDE DEF p, next
  <1>4. p \in Session /\ p.triggers \in Seq(Triggers) /\ p.inlines \in Seq(Events)
    BY <1>3, FieldTypes
  <1>5. CASE next \in {s, p, BeginGeneration(p)}
    BY <1>3, <1>5, BeginKeepsQueue
  <1>6. CASE p.triggers # <<>> /\ next = trigger
    <2>1. Tail(p.triggers) \in Seq(Triggers) /\ Head(p.triggers) \in Triggers
          /\ "trigger" \in RunKinds /\ <<>> \in Seq(Events)
      BY <1>4, <1>6 DEF RunKinds
    <2>2. /\ u \in Session /\ u.queued = p.queued /\ u.run = p.run
          /\ u.genCtl = p.genCtl /\ u.respCtl = p.respCtl
      BY <1>4, <2>1 DEF Session
    <2>3. TypedSession(u)
      BY <1>3, <2>2 DEF TypedSession
    <2> HIDE DEF u
    <2> QED
      BY <1>6, <2>1, <2>2, <2>3, BeginKeepsQueue
  <1>7. CASE next = inline
    <2>1. <<>> \in Seq(Events) /\ "inline" \in RunKinds
      BY DEF RunKinds
    <2>2. /\ v \in Session /\ v.queued = p.queued /\ v.run = p.run
          /\ v.genCtl = p.genCtl /\ v.respCtl = p.respCtl
      BY <1>4, <2>1 DEF Session
    <2>3. TypedSession(v)
      BY <1>3, <2>2 DEF TypedSession
    <2> HIDE DEF v
    <2> QED
      BY <1>4, <1>7, <2>1, <2>2, <2>3, BeginKeepsQueue
  <1> QED
    BY <1>2, <1>5, <1>6, <1>7

LEMMA ContinueShrinks ==
    ASSUME NEW s, TypedSession(s), NEW epoch
    PROVE  Shrinks(s.queued, CompleteAndContinue(s, epoch).queued)
  <1> DEFINE c == CompleteResponse(s, epoch)
  <1>1. TypedSession(c)
    BY CompleteResponseType
  <1>2. c.queued = s.queued
    BY FieldTypes DEF CompleteResponse, Session
  <1>3. CompleteAndContinue(s, epoch) \in {s, ProcessNextSessionWork(c)}
    BY DEF CompleteAndContinue
  <1> HIDE DEF c
  <1> QED
    BY <1>1, <1>2, <1>3, ProcessNextShrinks DEF Shrinks

LEMMA GiveBackShrinks ==
    ASSUME NEW s, TypedSession(s), NEW r
    PROVE  Shrinks(s.queued, GiveBack(s, r).queued)
  <1> DEFINE f == FinishGeneration(s, r)
             c == CompleteResponse(f, s.run[r].repoch)
  <1>1. TypedSession(f)
    BY FinishGenerationType
  <1>2. f.queued = s.queued
    BY FieldTypes DEF FinishGeneration, Session
  <1>3. GiveBack(s, r) \in {s, ProcessNextSessionWork(c)}
    BY DEF GiveBack
  <1> HIDE DEF f
  <1>4. TypedSession(c)
    BY <1>1, CompleteResponseType
  <1>5. c.queued = f.queued
    BY <1>1, FieldTypes DEF CompleteResponse, Session
  <1> HIDE DEF c
  <1> QED
    BY <1>2, <1>3, <1>4, <1>5, ProcessNextShrinks DEF Shrinks

LEMMA FlushShrinks ==
    ASSUME NEW s, TypedSession(s)
    PROVE  Shrinks(s.queued, FlushSession(s).queued)
  <1> DEFINE b == BeginGeneration(s)
             n == Len(b.run)
             e == EndRun(b, n)
  <1>1. TypedSession(b) /\ b.queued = s.queued /\ Len(b.run) = Len(s.run) + 1
    BY BeginGenerationType, BeginKeepsQueue
  <1>2. FlushSession(s) \in {b, GiveBack(e, n)}
    BY DEF FlushSession
  <1> HIDE DEF b
  <1>3. n \in DOMAIN b.run
    BY <1>1, FieldTypes
  <1>4. TypedSession(e) /\ e.queued = b.queued
    BY <1>1, <1>3, EndRunType, EndRunFields
  <1> HIDE DEF e, n
  <1>5. Shrinks(e.queued, GiveBack(e, n).queued)
    BY <1>4, GiveBackShrinks
  <1> QED
    BY <1>1, <1>2, <1>4, <1>5 DEF Shrinks

LEMMA InterruptKeepsQueue ==
    ASSUME NEW s, TypedSession(s)
    PROVE  InterruptResponse(s).queued = s.queued
  <1> DEFINE p == PromoteSteer(s)
             c == CancelGeneration(p)
             a == AbortResponse(c)
             t == InterruptResponse(s)
  <1>1. TypedSession(p) /\ p.queued = s.queued
    <2>1. p.queued = s.queued
      BY FieldTypes DEF PromoteSteer, Session
    <2> QED
      BY <2>1, PromoteSteerType
  <1>2. TypedSession(c) /\ c.queued = s.queued
    <2> HIDE DEF p
    <2>1. TypedSession(c)
      BY <1>1, CancelGenerationType
    <2>2. c.queued = p.queued
      BY <1>1, FieldTypes DEF CancelGeneration, Session
    <2> QED
      BY <1>1, <2>1, <2>2
  <1>3. TypedSession(a) /\ a.queued = s.queued
    <2> HIDE DEF c
    <2>1. TypedSession(a)
      BY <1>2, AbortResponseType
    <2>2. a.queued = c.queued
      BY <1>2, FieldTypes DEF AbortResponse, Session
    <2> QED
      BY <1>2, <2>1, <2>2
  <1>4. t = [a EXCEPT !.mutationEpoch = s.mutationEpoch + 1, !.phase = "idle",
                      !.target = NoUser]
    BY DEF InterruptResponse
  <1> HIDE DEF a, t
  <1>5. t.queued = a.queued
    BY <1>3, <1>4, FieldTypes DEF Session
  <1> QED
    BY <1>3, <1>5 DEF t

LEMMA ScheduleKeepsQueue ==
    ASSUME NEW s, TypedSession(s)
    PROVE  Schedule(s).queued = s.queued
  BY ScheduleFields

LEMMA ClearEmptiesQueue ==
    ASSUME NEW s, TypedSession(s)
    PROVE  /\ ClearSession(CancelGeneration(s)).queued = <<>>
           /\ FinishProfileOperation(s).queued = <<>>
  <1> DEFINE g == CancelGeneration(s)
             a == AbortAllControllers(ClearTimer(g))
             none == <<>>
             t == ClearSession(g)
             f == FinishProfileOperation(s)
             e == s.mutationEpoch + 1
  <1>1. TypedSession(a)
    <2>1. TypedSession(g)
      BY CancelGenerationType
    <2> HIDE DEF g
    <2>2. TypedSession(ClearTimer(g))
      BY <2>1, ClearTimerType
    <2> QED
      BY <2>2, AbortAllType
  <1>2. t = [a EXCEPT !.mutationEpoch = g.mutationEpoch + 1, !.pending = none,
                      !.steer = none, !.queued = none, !.waits = 0, !.target = NoUser,
                      !.triggers = none, !.inlines = none, !.phase = "idle",
                      !.genCtl = 0, !.respCtl = 0, !.outCtl = "none"]
    BY DEF ClearSession
  <1>3. f = [s EXCEPT !.mutationEpoch = e, !.pending = none, !.steer = none,
                      !.queued = none, !.waits = 0, !.target = NoUser,
                      !.triggers = none, !.inlines = none, !.phase = "idle"]
    BY DEF FinishProfileOperation
  <1> HIDE DEF a, t, g, none, f, e
  <1>4. t.queued = none
    BY <1>1, <1>2, FieldTypes DEF Session
  <1>5. f.queued = none
    BY <1>3, FieldTypes DEF Session
  <1> QED
    BY <1>4, <1>5 DEF t, g, f, none

-----------------------------------------------------------------------------
(* The queue with what is about to join it: messages on their way are      *)
(* distinct and new.                                                       *)

QueueInv ==
    /\ Injective(arrived)
    /\ GoodQueue(arrived, session.queued)
    /\ \A i \in DOMAIN admitting : admitting[i].msg \notin Range(arrived)
    /\ \A i, j \in DOMAIN admitting : admitting[i].msg = admitting[j].msg => i = j

LEMMA DecideKeepsQueue ==
    ASSUME TypeOK, QueueInv, NEW m \in Msgs, Decide(m)
    PROVE  QueueInv'
  <1>1. PICK decision \in Decisions(m) :
          admitting' = Append(admitting, [msg |-> m, decision |-> decision])
    BY DEF Decide
  <1>2. /\ session' = session /\ arrived' = arrived
        /\ m \notin Range(arrived)
        /\ \A i \in DOMAIN admitting : admitting[i].msg # m
    BY DEF Decide, Known
  <1> DEFINE n == Len(admitting)
             d == [msg |-> m, decision |-> decision]
  <1>3. d.msg = m
    OBVIOUS
  <1> HIDE DEF d
  <1>4. admitting \in Seq([msg : Msgs, decision : DecisionNames])
    BY DEF TypeOK
  <1>5. /\ n \in Nat /\ DOMAIN admitting = 1 .. n /\ DOMAIN admitting' = 1 .. (n + 1)
        /\ admitting'[n + 1] = d /\ \A i \in 1 .. n : admitting'[i] = admitting[i]
    BY <1>1, <1>4 DEF d
  <1> HIDE DEF n
  <1>6. \A i \in DOMAIN admitting' : i = n + 1 \/ i \in DOMAIN admitting
    BY <1>5
  <1>7. \A i \in DOMAIN admitting' : admitting'[i].msg \notin Range(arrived)
    BY <1>2, <1>3, <1>5, <1>6 DEF QueueInv
  <1>8. \A i, j \in DOMAIN admitting' : admitting'[i].msg = admitting'[j].msg => i = j
    BY <1>2, <1>3, <1>5, <1>6 DEF QueueInv
  <1> QED
    BY <1>2, <1>7, <1>8 DEF QueueInv

LEMMA AdmitKeepsQueue ==
    ASSUME TypeOK, QueueInv, Admit
    PROVE  QueueInv'
  <1> DEFINE m == Head(admitting).msg
             s == session
             new == Append(arrived, m)
             D == [msg : Msgs, decision : DecisionNames]
  <1>1. /\ TypedSession(s) /\ m \in Msgs /\ arrived \in Seq(Msgs)
        /\ session' \in {QueueForNextThread(m), ReplyNow(m), InterruptWith(m), SteerWith(m)}
    BY AdmitCases DEF TypeOK
  <1>2. /\ admitting \in Seq(D) /\ admitting # <<>> /\ admitting' = Tail(admitting)
        /\ arrived' = new
    BY DEF TypeOK, Admit
  <1> HIDE DEF D
  <1>3. /\ 1 \in DOMAIN admitting /\ m = admitting[1].msg
        /\ \A i \in DOMAIN admitting' : /\ i \in Nat /\ i + 1 \in DOMAIN admitting
                                        /\ i + 1 # 1
                                        /\ admitting'[i] = admitting[i + 1]
    BY <1>2
  <1> HIDE DEF m
  <1>4. m \notin Range(arrived) /\ Injective(arrived) /\ GoodQueue(arrived, s.queued)
    BY <1>3 DEF QueueInv
  <1>5. Injective(new) /\ m \in Range(new) /\ GoodQueue(new, s.queued)
        /\ \A i \in DOMAIN s.queued : \A k \in DOMAIN s.queued[i] :
              At(new, s.queued[i][k]) < At(new, m)
    BY <1>1, <1>4, ArrivalKeepsPlaces, ArrivalKeepsQueue
  <1>6. \A x : x \in Range(new) => x \in Range(arrived) \/ x = m
    BY <1>1 DEF Range
  <1> HIDE DEF new
  <1>7. \A i \in DOMAIN admitting' : admitting'[i].msg \notin Range(new)
    BY <1>3, <1>6 DEF QueueInv
  <1>8. \A i, j \in DOMAIN admitting' : admitting'[i].msg = admitting'[j].msg => i = j
    <2> SUFFICES ASSUME NEW i \in DOMAIN admitting', NEW j \in DOMAIN admitting',
                        admitting'[i].msg = admitting'[j].msg
                 PROVE  i = j
      OBVIOUS
    <2>1. i + 1 = j + 1
      BY <1>3 DEF QueueInv
    <2> QED
      BY <1>3, <2>1
  <1>9. GoodQueue(new, session'.queued)
    <2>1. CASE session' = QueueForNextThread(m)
      <3> DEFINE e == EnqueueGroupReplyTarget(s, m)
                 p == PromoteNextTarget(e)
      <3>1. TypedSession(e) /\ GoodQueue(new, e.queued)
        BY <1>1, <1>5, EnqueueType, EnqueueIsGood
      <3>2. session' \in {e, Schedule(p)}
        BY <2>1 DEF QueueForNextThread
      <3> HIDE DEF e
      <3>3. TypedSession(p) /\ Shrinks(e.queued, p.queued)
        BY <3>1, PromoteNextType, PromoteNextShrinks
      <3> HIDE DEF p
      <3>4. e.queued \in Seq(Seq(Msgs)) /\ Schedule(p).queued = p.queued
        BY <3>1, <3>3, FieldTypes, ScheduleKeepsQueue
      <3>5. GoodQueue(new, p.queued)
        BY <3>1, <3>3, <3>4, ShrunkIsGood
      <3> QED
        BY <3>1, <3>2, <3>4, <3>5
    <2>2. CASE session' = ReplyNow(m)
      <3> DEFINE p == AppendPending(s, m)
      <3>1. TypedSession(p)
        BY <1>1, AppendPendingType
      <3>2. p.queued = s.queued
        BY <1>1, FieldTypes DEF AppendPending, Session
      <3>3. session' \in {p, Schedule(p)}
        BY <2>2 DEF ReplyNow
      <3> HIDE DEF p
      <3> QED
        BY <1>5, <3>1, <3>2, <3>3, ScheduleKeepsQueue
    <2>3. CASE session' = InterruptWith(m)
      <3> DEFINE i == InterruptResponse(s)
                 p == AppendPending(i, m)
      <3>1. TypedSession(i) /\ i.queued = s.queued
        BY <1>1, InterruptResponseType, InterruptKeepsQueue
      <3>2. session' = Schedule(p)
        BY <2>3 DEF InterruptWith
      <3> HIDE DEF i
      <3>3. TypedSession(p)
        BY <1>1, <3>1, AppendPendingType
      <3>4. p.queued = i.queued
        BY <3>1, FieldTypes DEF AppendPending, Session
      <3> HIDE DEF p
      <3> QED
        BY <1>5, <3>1, <3>2, <3>3, <3>4, ScheduleKeepsQueue
    <2>4. CASE session' = SteerWith(m)
      <3> DEFINE o == InterruptOutbound(s)
      <3>1. TypedSession(o)
        BY <1>1, InterruptOutboundType
      <3>2. o.queued = s.queued
        BY <1>1, FieldTypes DEF InterruptOutbound, Session
      <3>3. session' \in {AppendSteer(o, m), AppendPending(o, m)}
        BY <2>4 DEF SteerWith
      <3> HIDE DEF o
      <3>4. AppendSteer(o, m).queued = o.queued
        BY <3>1, FieldTypes DEF AppendSteer, Session
      <3>5. AppendPending(o, m).queued = o.queued
        BY <3>1, FieldTypes DEF AppendPending, Session
      <3> QED
        BY <1>5, <3>2, <3>3, <3>4, <3>5
    <2> QED
      BY <1>1, <2>1, <2>2, <2>3, <2>4
  <1> QED
    BY <1>2, <1>5, <1>7, <1>8, <1>9 DEF QueueInv

(* A handler that admits nothing. *)
LEMMA ShrinkingStep ==
    ASSUME TypeOK, QueueInv, admitting' = admitting, arrived' = arrived,
           Shrinks(session.queued, session'.queued)
    PROVE  QueueInv'
  <1>1. session.queued \in Seq(Seq(Msgs)) /\ GoodQueue(arrived, session.queued)
    BY FieldTypes DEF TypeOK, QueueInv
  <1>2. GoodQueue(arrived, session'.queued)
    BY <1>1, ShrunkIsGood
  <1> QED
    BY <1>2 DEF QueueInv

LEMMA TimerAndDispatchKeepQueue ==
    ASSUME TypeOK, QueueInv,
           \/ DebounceFire
           \/ \E t \in Triggers : DispatchScheduled(t)
           \/ \E e \in Events : DispatchEvent(e)
    PROVE  QueueInv'
  <1>0. TypedSession(session) /\ session \in Session
    BY FieldTypes DEF TypeOK
  <1>1. admitting' = admitting /\ arrived' = arrived
    BY DEF DebounceFire, DispatchScheduled, DispatchEvent
  <1>2. CASE DebounceFire
    <2> DEFINE c == ClearTimer(session)
    <2>1. TypedSession(c) /\ session' = FlushSession(c)
      BY <1>0, <1>2, ClearTimerType DEF DebounceFire
    <2>2. c.queued = session.queued
      BY <1>0, FieldTypes DEF ClearTimer, Session
    <2> HIDE DEF c
    <2>3. Shrinks(session.queued, session'.queued)
      BY <2>1, <2>2, FlushShrinks
    <2> QED
      BY <1>1, <2>3, ShrinkingStep
  <1>3. ASSUME NEW t \in Triggers, DispatchScheduled(t)
        PROVE  QueueInv'
    <2> DEFINE q == Append(session.triggers, t)
               u == [session EXCEPT !.triggers = q]
               b == BeginSyntheticGeneration(session, "trigger", t, <<>>)
    <2>1. session' \in {u, b}
      BY <1>3 DEF DispatchScheduled
    <2>2. u.queued = session.queued
      <3> HIDE DEF q
      <3> QED
        BY <1>0 DEF Session
    <2>3. b.queued = session.queued
      <3>1. "trigger" \in RunKinds /\ t \in Triggers \cup {NoTrigger} /\ <<>> \in Seq(Events)
        BY DEF RunKinds
      <3> QED
        BY <1>0, <3>1, BeginKeepsQueue
    <2> QED
      BY <1>1, <2>1, <2>2, <2>3, ShrinkingStep DEF Shrinks
  <1>4. ASSUME NEW e \in Events, DispatchEvent(e)
        PROVE  QueueInv'
    <2> DEFINE q == Append(session.inlines, e)
               u == [session EXCEPT !.inlines = q]
    <2>1. session' \in {u, ProcessNextSessionWork(u)}
      BY <1>4 DEF DispatchEvent
    <2>2. q \in Seq(Events)
      BY <1>0, FieldTypes
    <2>3. /\ u \in Session /\ u.queued = session.queued /\ u.run = session.run
          /\ u.genCtl = session.genCtl /\ u.respCtl = session.respCtl
      <3> HIDE DEF q
      <3> QED
        BY <1>0, <2>2 DEF Session
    <2> HIDE DEF u
    <2>4. Shrinks(session.queued, session'.queued)
      BY <1>0, <2>1, <2>3, ProcessNextShrinks DEF Shrinks, TypedSession
    <2> QED
      BY <1>1, <2>4, ShrinkingStep
  <1> QED
    BY <1>2, <1>3, <1>4

LEMMA CommandKeepsQueue ==
    ASSUME TypeOK, QueueInv, CommandStep
    PROVE  QueueInv'
  <1>0. TypedSession(session) /\ session \in Session /\ arrived \in Seq(Msgs)
    BY FieldTypes DEF TypeOK
  <1>1. CASE StopCommand
    <2>1. session' = CancelGeneration(session)
      BY <1>1 DEF StopCommand, Execute
    <2>2. session'.queued = session.queued
      BY <1>0, <2>1 DEF CancelGeneration, Session
    <2> QED
      BY <1>1, <2>2, ShrinkingStep DEF Shrinks, StopCommand, Execute
  <1>2. ASSUME NEW name \in {"skill", "config"}, InterruptCommand(name)
        PROVE  QueueInv'
    <2>1. session'.queued = session.queued
      BY <1>0, <1>2, InterruptKeepsQueue DEF InterruptCommand, Execute
    <2> QED
      BY <1>2, <2>1, ShrinkingStep DEF Shrinks, InterruptCommand, Execute
  <1>3. ASSUME NEW name \in {"clear", "reset"}, ClearCommand(name)
        PROVE  QueueInv'
    <2>1. session'.queued = <<>>
      BY <1>0, <1>3, ClearEmptiesQueue DEF ClearCommand, Execute
    <2> QED
      BY <1>3, <2>1, ShrinkingStep DEF Shrinks, ClearCommand, Execute
  <1>4. CASE ConfirmCommand
    <2> DEFINE i == InterruptResponse(session)
    <2>1. TypedSession(i)
      BY <1>0, InterruptResponseType
    <2>2. session' = FinishProfileOperation(i)
      BY <1>4 DEF ConfirmCommand, Execute
    <2> HIDE DEF i
    <2>3. session'.queued = <<>>
      BY <2>1, <2>2, ClearEmptiesQueue
    <2> QED
      BY <1>4, <2>3, ShrinkingStep DEF Shrinks, ConfirmCommand, Execute
  <1>5. ASSUME NEW m \in Msgs, FlushCommand(m) \/ Introduce(m), arrived' # arrived
        PROVE  QueueInv'
    <2> DEFINE p == AppendPending(session, m)
               new == Append(arrived, m)
    <2>1. /\ session' = FlushSession(p) /\ arrived' = new /\ admitting' = admitting
          /\ m \notin Range(arrived)
          /\ \A i \in DOMAIN admitting : admitting[i].msg # m
      BY <1>5 DEF FlushCommand, Introduce, Execute, Known
    <2>2. TypedSession(p)
      BY <1>0, AppendPendingType
    <2>3. p.queued = session.queued
      BY <1>0 DEF AppendPending, Session
    <2> HIDE DEF p
    <2>4. Shrinks(session.queued, session'.queued)
      BY <2>1, <2>2, <2>3, FlushShrinks
    <2>5. Injective(new) /\ GoodQueue(new, session.queued)
      BY <1>0, <2>1, ArrivalKeepsPlaces, ArrivalKeepsQueue DEF QueueInv
    <2>6. \A x : x \in Range(new) => x \in Range(arrived) \/ x = m
      BY <1>0 DEF Range
    <2> HIDE DEF new
    <2>7. session.queued \in Seq(Seq(Msgs))
      BY <1>0, FieldTypes
    <2>8. GoodQueue(new, session'.queued)
      BY <2>4, <2>5, <2>7, ShrunkIsGood
    <2> QED
      BY <2>1, <2>5, <2>6, <2>8 DEF QueueInv
  <1>6. ASSUME NEW m \in Msgs, FlushCommand(m) \/ Introduce(m), arrived' = arrived
        PROVE  QueueInv'
    <2>1. Append(arrived, m) # arrived
      <3>1. Len(Append(arrived, m)) # Len(arrived)
        BY <1>0
      <3> QED
        BY <3>1
    <2>2. /\ session' = session /\ admitting' = admitting
          /\ handled' = handled /\ dropped' = dropped
      BY <1>6, <2>1 DEF FlushCommand, Introduce, Execute
    <2> QED
      BY <1>6, <2>2 DEF QueueInv
  <1> QED
    BY <1>1, <1>2, <1>3, <1>4, <1>5, <1>6 DEF CommandStep

LEMMA RunStepKeepsQueue ==
    ASSUME TypeOK, QueueInv, NEW r \in DOMAIN session.run, RunStep(r)
    PROVE  QueueInv'
  <1> DEFINE s == session
             e == EndRun(s, r)
  <1>0. TypedSession(s) /\ s \in Session /\ s.run[r] \in Run
    BY FieldTypes DEF TypeOK
  <1>1. admitting' = admitting /\ arrived' = arrived
    BY DEF RunStep, PrepContinue, PrepSkip, PrepFail, PrepWait, ExecPhase, ExecConsumeSteer,
       ExecConsumeEvents, ExecSuperseded, ExecEnd, SetupChecked, DrainEnd, CloseEnd, Ended,
       Resumed
  <1>2. TypedSession(e) /\ e.queued = s.queued
    BY <1>0, EndRunType, EndRunFields
  <1> SUFFICES Shrinks(s.queued, session'.queued)
    BY <1>1, ShrinkingStep
  <1> HIDE DEF e
  <1>3. CASE PrepContinue(r) \/ ExecSuperseded(r)
    <2>1. session'.queued = s.queued
      BY <1>0, <1>3 DEF PrepContinue, ExecSuperseded, Resumed, Session
    <2> QED
      BY <2>1 DEF Shrinks
  <1>4. CASE PrepSkip(r) \/ PrepFail(r)
    BY <1>2, <1>4, GiveBackShrinks DEF PrepSkip, PrepFail, Ended, e
  <1>5. CASE PrepWait(r)
    <2> DEFINE batch == s.run[r].input
               passes == s.run[r].waits + 1
               q == RequeuePending(s, batch, passes)
               t == Schedule(q)
               x == EndRun(t, r)
    <2>1. batch \in Seq(Msgs) /\ passes \in Nat
      BY <1>0 DEF Run
    <2> HIDE DEF batch, passes
    <2>2. TypedSession(q) /\ q.run = s.run
      BY <1>0, <2>1, RequeueType
    <2>3. q.queued = s.queued
      BY <1>0 DEF RequeuePending, Session
    <2> HIDE DEF q
    <2>4. TypedSession(t) /\ t.run = s.run /\ t.queued = s.queued
      BY <2>2, <2>3, ScheduleType, ScheduleKeepsQueue
    <2> HIDE DEF t
    <2>5. TypedSession(x) /\ x.queued = s.queued
      BY <2>4, EndRunType, EndRunFields
    <2>6. session' = GiveBack(x, r)
      BY <1>5 DEF PrepWait, Resumed, x, t, q, batch, passes
    <2> HIDE DEF x
    <2> QED
      BY <2>5, <2>6, GiveBackShrinks
  <1>6. ASSUME NEW phase \in {"requesting", "generating"}, ExecPhase(r, phase)
        PROVE  Shrinks(s.queued, session'.queued)
    <2>1. session'.queued = s.queued
      BY <1>0, <1>6 DEF ExecPhase, Resumed, Session
    <2> QED
      BY <2>1 DEF Shrinks
  <1>7. CASE ExecConsumeSteer(r) \/ ExecConsumeEvents(r)
    <2>1. session'.queued = s.queued
      BY <1>0, <1>7 DEF ExecConsumeSteer, ExecConsumeEvents, ConsumeSteer, DrainInlines,
         Resumed, Session
    <2> QED
      BY <2>1 DEF Shrinks
  <1>8. CASE ExecEnd(r)
    <2> DEFINE g == FinishGeneration(s, r)
               f == [g EXCEPT !.run[r].fin = s.genCtl = r]
    <2>1. g \in Session
      BY <1>0, FinishGenerationType DEF TypedSession
    <2>2. g.queued = s.queued
      BY <1>0 DEF FinishGeneration, Session
    <2>3. session' = AfterFinish(f, r) \/ session' = [f EXCEPT !.run[r].stage = "setup"]
      BY <1>8 DEF ExecEnd, Resumed
    <2> HIDE DEF g
    <2>4. session'.queued = g.queued
      BY <2>1, <2>3 DEF AfterFinish, Session
    <2> QED
      BY <2>2, <2>4 DEF Shrinks
  <1>9. CASE SetupChecked(r)
    <2> DEFINE f == FinishProfileOperation(s)
    <2>1. f \in Session /\ f.queued = <<>>
      BY <1>0, FinishProfileType, ClearEmptiesQueue DEF TypedSession
    <2>2. session' \in {AfterFinish(s, r), [s EXCEPT !.run[r].stage = "closing"],
                        AfterFinish(f, r)}
      BY <1>9 DEF SetupChecked, Resumed
    <2> HIDE DEF f
    <2>3. session'.queued \in {s.queued, f.queued}
      BY <1>0, <2>1, <2>2 DEF AfterFinish, Session
    <2> QED
      BY <2>1, <2>3 DEF Shrinks
  <1>10. CASE DrainEnd(r)
    <2> DEFINE p == PromoteSteer(e)
    <2>1. TypedSession(p)
      BY <1>2, PromoteSteerType
    <2>2. p.queued = e.queued
      BY <1>2, FieldTypes DEF PromoteSteer, Session
    <2>3. session' = CompleteAndContinue(p, s.run[r].repoch)
      BY <1>10 DEF DrainEnd, Ended, e
    <2> HIDE DEF p
    <2> QED
      BY <1>2, <2>1, <2>2, <2>3, ContinueShrinks
  <1>11. CASE CloseEnd(r)
    <2>1. session' \in {e, CompleteAndContinue(e, s.run[r].repoch)}
      BY <1>11 DEF CloseEnd, Ended, e
    <2> QED
      BY <1>2, <2>1, ContinueShrinks DEF Shrinks
  <1> QED
    BY <1>3, <1>4, <1>5, <1>6, <1>7, <1>8, <1>9, <1>10, <1>11 DEF RunStep

LEMMA QueueHolds == Spec => []QueueInv
  <1>1. Init => QueueInv
    BY DEF Init, CreateSessionState, QueueInv, Injective, GoodQueue, Range
  <1>2. TypeOK /\ QueueInv /\ [Next]_vars => QueueInv'
    <2> SUFFICES ASSUME TypeOK, QueueInv, [Next]_vars
                 PROVE  QueueInv'
      OBVIOUS
    <2>1. CASE UNCHANGED vars
      BY <2>1 DEF vars, QueueInv
    <2>2. CASE Environment
      BY <2>2, DecideKeepsQueue, TimerAndDispatchKeepQueue, CommandKeepsQueue DEF Environment
    <2>3. CASE Admit
      BY <2>3, AdmitKeepsQueue
    <2>4. CASE DebounceFire
      BY <2>4, TimerAndDispatchKeepQueue
    <2>5. ASSUME NEW r \in DOMAIN session.run, RunStep(r) PROVE QueueInv'
      BY <2>5, RunStepKeepsQueue
    <2> QED
      BY <2>1, <2>2, <2>3, <2>4, <2>5 DEF Next
  <1> QED
    BY <1>1, <1>2, TypeCorrect, PTL DEF Spec

(***************************************************************************)
(* However the session is used, the queue of group threads holds one entry *)
(* per member, with that member's messages alone, in the order they came   *)
(* (sessionMutations.ts, enqueueGroupReplyTarget).                         *)
(***************************************************************************)
THEOREM OneThreadPerMember == Spec => []OneEntryPerMember
  <1>1. QueueInv => OneEntryPerMember
    <2> SUFFICES ASSUME QueueInv PROVE OneEntryPerMember
      OBVIOUS
    <2>1. \A i \in DOMAIN session.queued : GoodEntry(arrived, session.queued[i])
      BY DEF QueueInv, GoodQueue
    <2>2. \A i \in DOMAIN session.queued :
            /\ session.queued[i] # <<>> /\ OneThread(session.queued[i])
            /\ InOrder(session.queued[i])
      BY <2>1 DEF GoodEntry, Sorted, InOrder, At, Position
    <2> QED
      BY <2>2 DEF QueueInv, GoodQueue, OneEntryPerMember
  <1> QED
    BY <1>1, QueueHolds, PTL

-----------------------------------------------------------------------------
(* Where a message is, in any use of the session.                          *)

InPending(s, x) == x \in Range(s.pending)
InSteer(s, x) == x \in Range(s.steer)
InEntry(s, i, x) == x \in Range(s.queued[i])
InRun(s, r, x) == x \in Range(s.run[r].input)
InQueue(s, x) == \E i \in DOMAIN s.queued : InEntry(s, i, x)
InSomeRun(s, x) == \E r \in DOMAIN s.run : InRun(s, r, x)

(* H: handled, D: dropped, A: arrived. *)
OnePlace(s, H, D, A, x) ==
    /\ x \in A <=> \/ InPending(s, x) \/ InSteer(s, x) \/ InQueue(s, x)
                   \/ InSomeRun(s, x) \/ x \in H \/ x \in D
    /\ InPending(s, x) =>
         ~InSteer(s, x) /\ ~InQueue(s, x) /\ ~InSomeRun(s, x) /\ x \notin H /\ x \notin D
    /\ InSteer(s, x) => ~InQueue(s, x) /\ ~InSomeRun(s, x) /\ x \notin H /\ x \notin D
    /\ InQueue(s, x) => ~InSomeRun(s, x) /\ x \notin H /\ x \notin D
    /\ InSomeRun(s, x) => x \notin H /\ x \notin D
    /\ x \in H => x \notin D
    /\ \A i, k \in DOMAIN s.queued : InEntry(s, i, x) /\ InEntry(s, k, x) => i = k
    /\ \A r, q \in DOMAIN s.run : InRun(s, r, x) /\ InRun(s, q, x) => r = q

NoRepeats(s) ==
    /\ Injective(s.pending) /\ Injective(s.steer)
    /\ \A i \in DOMAIN s.queued : Injective(s.queued[i])
    /\ \A r \in DOMAIN s.run : Injective(s.run[r].input)

Ledger(s, H, D, A) == NoRepeats(s) /\ \A x \in Msgs : OnePlace(s, H, D, A, x)

SameMessages(s, t) ==
    /\ t.pending = s.pending /\ t.steer = s.steer /\ t.queued = s.queued
    /\ DOMAIN t.run = DOMAIN s.run
    /\ \A r \in DOMAIN s.run : t.run[r].input = s.run[r].input

LEMMA SameLedger ==
    ASSUME NEW s, NEW t, SameMessages(s, t), NEW H, NEW D, NEW A, Ledger(s, H, D, A)
    PROVE  Ledger(t, H, D, A)
  <1>1. NoRepeats(t)
    BY DEF SameMessages, Ledger, NoRepeats
  <1>2. ASSUME NEW x \in Msgs PROVE OnePlace(t, H, D, A, x)
    <2>1. /\ InPending(t, x) <=> InPending(s, x)
          /\ InSteer(t, x) <=> InSteer(s, x)
          /\ DOMAIN t.queued = DOMAIN s.queued /\ DOMAIN t.run = DOMAIN s.run
          /\ \A i \in DOMAIN s.queued : InEntry(t, i, x) <=> InEntry(s, i, x)
          /\ \A r \in DOMAIN s.run : InRun(t, r, x) <=> InRun(s, r, x)
      BY DEF SameMessages, InPending, InSteer, InEntry, InRun
    <2>2. (InQueue(t, x) <=> InQueue(s, x)) /\ (InSomeRun(t, x) <=> InSomeRun(s, x))
      BY <2>1 DEF InQueue, InSomeRun
    <2>3. OnePlace(s, H, D, A, x)
      BY DEF Ledger
    <2> QED
      BY <2>1, <2>2, <2>3 DEF OnePlace
  <1> QED
    BY <1>1, <1>2 DEF Ledger

(* Two batches that share no message, one behind the other. *)
LEMMA JoinedBatches ==
    ASSUME NEW p \in Seq(Msgs), NEW q \in Seq(Msgs), Injective(p), Injective(q),
           \A x \in Msgs : ~(x \in Range(p) /\ x \in Range(q))
    PROVE  /\ Injective(p \o q) /\ p \o q \in Seq(Msgs)
           /\ \A x : x \in Range(p \o q) <=> x \in Range(p) \/ x \in Range(q)
  <1> DEFINE m == Len(p)
             n == Len(q)
             c == p \o q
  <1>1. /\ m \in Nat /\ n \in Nat /\ DOMAIN p = 1 .. m /\ DOMAIN q = 1 .. n
        /\ DOMAIN c = 1 .. (m + n) /\ c \in Seq(Msgs)
        /\ \A i \in 1 .. m : c[i] = p[i] /\ p[i] \in Msgs
        /\ \A i \in 1 .. n : c[m + i] = q[i] /\ q[i] \in Msgs
    OBVIOUS
  <1>2. Range(c) = Range(p) \cup Range(q)
    BY RangeConcat
  <1> HIDE DEF m, n, c
  <1>3. \A i \in DOMAIN p, k \in DOMAIN q : p[i] # q[k]
    BY <1>1 DEF Range
  <1>4. \A i \in DOMAIN c : i \in DOMAIN p \/ (i - m \in DOMAIN q /\ i = m + (i - m))
    BY <1>1
  <1>5. ASSUME NEW i \in DOMAIN c, NEW k \in DOMAIN c, c[i] = c[k] PROVE i = k
    <2>1. CASE i \in DOMAIN p /\ k \in DOMAIN p
      BY <1>1, <1>5, <2>1 DEF Injective
    <2>2. CASE i \in DOMAIN p /\ k \notin DOMAIN p
      BY <1>1, <1>3, <1>4, <1>5, <2>2
    <2>3. CASE i \notin DOMAIN p /\ k \in DOMAIN p
      BY <1>1, <1>3, <1>4, <1>5, <2>3
    <2>4. CASE i \notin DOMAIN p /\ k \notin DOMAIN p
      <3>1. q[i - m] = q[k - m] /\ i - m \in DOMAIN q /\ k - m \in DOMAIN q
        BY <1>1, <1>4, <1>5, <2>4
      <3>2. i - m = k - m
        BY <3>1 DEF Injective
      <3> QED
        BY <1>1, <3>2
    <2> QED
      BY <2>1, <2>2, <2>3, <2>4
  <1> QED
    BY <1>1, <1>2, <1>5 DEF Injective, c

LEMMA JoinedMessage ==
    ASSUME NEW q \in Seq(Msgs), Injective(q), NEW m \in Msgs, m \notin Range(q)
    PROVE  /\ Injective(Append(q, m))
           /\ \A x : x \in Range(Append(q, m)) <=> x \in Range(q) \/ x = m
  <1>1. Injective(Append(q, m))
    BY ArrivalKeepsPlaces
  <1>2. \A x : x \in Range(Append(q, m)) <=> x \in Range(q) \/ x = m
    <2> DEFINE a == Append(q, m)
               n == Len(q)
    <2>1. /\ n \in Nat /\ DOMAIN q = 1 .. n /\ DOMAIN a = 1 .. (n + 1)
          /\ a[n + 1] = m /\ \A i \in 1 .. n : a[i] = q[i]
      OBVIOUS
    <2> HIDE DEF a, n
    <2>2. \A i \in DOMAIN a : i = n + 1 \/ i \in DOMAIN q
      BY <2>1
    <2>3. n + 1 \in DOMAIN a /\ DOMAIN q \subseteq DOMAIN a
      BY <2>1
    <2> QED
      BY <2>1, <2>2, <2>3 DEF Range, a
  <1> QED
    BY <1>1, <1>2

LEMMA EmptyBatch == Injective(<<>>) /\ \A x : x \notin Range(<<>>)
  BY DEF Injective, Range

-----------------------------------------------------------------------------
(* The operations that move messages.                                      *)

LEMMA PromoteSteerLedger ==
    ASSUME NEW s, TypedSession(s), NEW H, NEW D, NEW A, Ledger(s, H, D, A)
    PROVE  Ledger(PromoteSteer(s), H, D, A)
  <1> DEFINE t == PromoteSteer(s)
             q == s.steer \o s.pending
             none == <<>>
  <1>1. CASE s.steer = <<>>
    BY <1>1 DEF PromoteSteer
  <1>2. CASE s.steer # <<>>
    <2>1. t = [s EXCEPT !.pending = q, !.steer = none, !.waits = 0] /\ s \in Session
          /\ s.steer \in Seq(Msgs) /\ s.pending \in Seq(Msgs)
      BY <1>2, FieldTypes DEF PromoteSteer
    <2>2. /\ Injective(q)
          /\ \A x : x \in Range(q) <=> InSteer(s, x) \/ InPending(s, x)
      <3>1. \A x \in Msgs : ~(x \in Range(s.steer) /\ x \in Range(s.pending))
        BY DEF Ledger, OnePlace, InSteer, InPending
      <3> QED
        BY <2>1, <3>1, JoinedBatches DEF Ledger, NoRepeats, InSteer, InPending
    <2> HIDE DEF q, none, t
    <2>3. /\ t.pending = q /\ t.steer = none /\ t.queued = s.queued /\ t.run = s.run
      BY <2>1 DEF Session
    <2>4. NoRepeats(t)
      BY <2>2, <2>3, EmptyBatch DEF none, Ledger, NoRepeats
    <2>5. ASSUME NEW x \in Msgs PROVE OnePlace(t, H, D, A, x)
      <3>1. /\ InPending(t, x) <=> InSteer(s, x) \/ InPending(s, x)
            /\ ~InSteer(t, x)
        BY <2>2, <2>3, EmptyBatch DEF InPending, InSteer, none
      <3>2. /\ \A i : InEntry(t, i, x) <=> InEntry(s, i, x)
            /\ \A r : InRun(t, r, x) <=> InRun(s, r, x)
            /\ InQueue(t, x) <=> InQueue(s, x)
            /\ InSomeRun(t, x) <=> InSomeRun(s, x)
        BY <2>3 DEF InEntry, InRun, InQueue, InSomeRun
      <3>3. OnePlace(s, H, D, A, x)
        BY DEF Ledger
      <3> QED
        BY <2>3, <3>1, <3>2, <3>3 DEF OnePlace
    <2> QED
      BY <2>4, <2>5 DEF Ledger, t
  <1> QED
    BY <1>1, <1>2

LEMMA PromoteNextLedger ==
    ASSUME NEW s, TypedSession(s), NEW H, NEW D, NEW A, Ledger(s, H, D, A)
    PROVE  Ledger(PromoteNextTarget(s), H, D, A)
  <1> DEFINE t == PromoteNextTarget(s)
             q == Head(s.queued) \o s.pending
             rest == Tail(s.queued)
  <1>1. CASE s.queued = <<>>
    BY <1>1 DEF PromoteNextTarget
  <1>2. CASE s.queued # <<>>
    <2>1. t = [s EXCEPT !.pending = q, !.queued = rest, !.waits = 0] /\ s \in Session
          /\ s.queued \in Seq(Seq(Msgs)) /\ s.pending \in Seq(Msgs)
      BY <1>2, FieldTypes DEF PromoteNextTarget
    <2>2. /\ Head(s.queued) = s.queued[1] /\ 1 \in DOMAIN s.queued
          /\ s.queued[1] \in Seq(Msgs)
          /\ \A i \in DOMAIN rest : /\ i \in Nat /\ i + 1 \in DOMAIN s.queued
                                    /\ i + 1 # 1 /\ rest[i] = s.queued[i + 1]
          /\ \A k \in DOMAIN s.queued : k = 1 \/ (k - 1 \in DOMAIN rest /\ (k - 1) + 1 = k)
      BY <1>2, <2>1
    <2>3. /\ Injective(q)
          /\ \A x : x \in Range(q) <=> InEntry(s, 1, x) \/ InPending(s, x)
      <3>1. \A x \in Msgs : ~(x \in Range(s.queued[1]) /\ x \in Range(s.pending))
        BY <2>2 DEF Ledger, OnePlace, InQueue, InEntry, InPending
      <3> QED
        BY <2>1, <2>2, <3>1, JoinedBatches DEF Ledger, NoRepeats, InEntry, InPending
    <2> HIDE DEF q, rest, t
    <2>4. /\ t.pending = q /\ t.steer = s.steer /\ t.queued = rest /\ t.run = s.run
      BY <2>1 DEF Session
    <2>5. NoRepeats(t)
      BY <2>2, <2>3, <2>4 DEF Ledger, NoRepeats
    <2>6. ASSUME NEW x \in Msgs PROVE OnePlace(t, H, D, A, x)
      <3>1. /\ InPending(t, x) <=> InEntry(s, 1, x) \/ InPending(s, x)
            /\ InSteer(t, x) <=> InSteer(s, x)
            /\ \A i \in DOMAIN rest : InEntry(t, i, x) <=> InEntry(s, i + 1, x)
            /\ \A r : InRun(t, r, x) <=> InRun(s, r, x)
            /\ InSomeRun(t, x) <=> InSomeRun(s, x)
        BY <2>2, <2>3, <2>4 DEF InPending, InSteer, InEntry, InRun, InSomeRun
      <3>2. InQueue(s, x) <=> InEntry(s, 1, x) \/ InQueue(t, x)
        BY <2>2, <2>4, <3>1 DEF InQueue
      <3>3. OnePlace(s, H, D, A, x)
        BY DEF Ledger
      <3>4. InEntry(s, 1, x) => ~InQueue(t, x)
        <4> SUFFICES ASSUME InEntry(s, 1, x), NEW i \in DOMAIN rest, InEntry(t, i, x)
                     PROVE  FALSE
          BY <2>4 DEF InQueue
        <4>1. InEntry(s, i + 1, x) /\ i + 1 \in DOMAIN s.queued /\ i + 1 # 1
          BY <2>2, <3>1
        <4> QED
          BY <2>2, <3>3, <4>1 DEF OnePlace
      <3>5. ASSUME NEW i \in DOMAIN rest, NEW k \in DOMAIN rest,
                   InEntry(t, i, x), InEntry(t, k, x)
            PROVE  i = k
        <4>1. i + 1 = k + 1
          BY <2>2, <3>1, <3>3, <3>5 DEF OnePlace
        <4> QED
          BY <2>2, <4>1
      <3> QED
        BY <2>4, <3>1, <3>2, <3>3, <3>4, <3>5 DEF OnePlace
    <2> QED
      BY <2>5, <2>6 DEF Ledger, t
  <1> QED
    BY <1>1, <1>2

(* A run was added: it takes what is pending, or nothing. *)
LEMMA StartedLedger ==
    ASSUME NEW s, TypedSession(s), NEW H, NEW D, NEW A, Ledger(s, H, D, A),
           NEW t, NEW kind, NEW input, Started(s, kind, input, t), t.steer = s.steer,
           \/ input = s.pending /\ t.pending = <<>>
           \/ input = <<>> /\ t.pending = s.pending
    PROVE  Ledger(t, H, D, A)
  <1> DEFINE n == Len(s.run) + 1
  <1>1. /\ t.queued = s.queued /\ t.steer = s.steer
        /\ DOMAIN t.run = 1 .. n
        /\ \A i \in DOMAIN s.run : t.run[i] = s.run[i]
        /\ t.run[n].input = input
    BY DEF Started
  <1>2. /\ n \in DOMAIN t.run /\ n \notin DOMAIN s.run
        /\ \A i \in DOMAIN t.run : i = n \/ i \in DOMAIN s.run
        /\ \A i \in DOMAIN s.run : i \in DOMAIN t.run
    BY <1>1, FieldTypes
  <1> HIDE DEF n
  <1>3. NoRepeats(t)
    <2>1. Injective(input) /\ Injective(t.pending)
      BY EmptyBatch DEF Ledger, NoRepeats
    <2> QED
      BY <1>1, <1>2, <2>1 DEF Ledger, NoRepeats
  <1>4. ASSUME NEW x \in Msgs PROVE OnePlace(t, H, D, A, x)
    <2>1. /\ InSteer(t, x) <=> InSteer(s, x)
          /\ \A i : InEntry(t, i, x) <=> InEntry(s, i, x)
          /\ InQueue(t, x) <=> InQueue(s, x)
          /\ \A r \in DOMAIN s.run : InRun(t, r, x) <=> InRun(s, r, x)
      BY <1>1 DEF InSteer, InEntry, InQueue, InRun
    <2>2. InRun(t, n, x) \/ InPending(t, x) <=> InPending(s, x)
      BY <1>1, EmptyBatch DEF InRun, InPending
    <2>3. ~(InRun(t, n, x) /\ InPending(t, x))
      BY <1>1, EmptyBatch DEF InRun, InPending
    <2>4. InSomeRun(t, x) <=> InRun(t, n, x) \/ InSomeRun(s, x)
      BY <1>2, <2>1 DEF InSomeRun
    <2>5. OnePlace(s, H, D, A, x)
      BY DEF Ledger
    <2>6. ASSUME NEW r \in DOMAIN t.run, NEW q \in DOMAIN t.run, InRun(t, r, x), InRun(t, q, x)
          PROVE  r = q
      <3>1. CASE r = n /\ q # n
        BY <1>2, <2>1, <2>2, <2>5, <2>6, <3>1 DEF OnePlace, InSomeRun
      <3>2. CASE r # n /\ q = n
        BY <1>2, <2>1, <2>2, <2>5, <2>6, <3>2 DEF OnePlace, InSomeRun
      <3>3. CASE r # n /\ q # n
        BY <1>2, <2>1, <2>5, <2>6, <3>3 DEF OnePlace
      <3> QED
        BY <3>1, <3>2, <3>3
    <2> QED
      BY <1>1, <2>1, <2>2, <2>3, <2>4, <2>5, <2>6 DEF OnePlace
  <1> QED
    BY <1>3, <1>4 DEF Ledger

LEMMA BeginLedger ==
    ASSUME NEW s, TypedSession(s), NEW H, NEW D, NEW A, Ledger(s, H, D, A)
    PROVE  /\ Ledger(BeginGeneration(s), H, D, A)
           /\ \A kind \in RunKinds, trigger \in Triggers \cup {NoTrigger}, events \in Seq(Events) :
                 Ledger(BeginSyntheticGeneration(s, kind, trigger, events), H, D, A)
  <1>1. Ledger(BeginGeneration(s), H, D, A)
    <2> DEFINE u == StartRun(s, "chat", s.pending, NoTrigger, <<>>)
               user == IF s.pending = <<>> THEN NoUser ELSE Sender[Head(s.pending)]
               none == <<>>
               t == BeginGeneration(s)
    <2>1. t = [u EXCEPT !.pending = none, !.waits = 0, !.target = user, !.phase = "planning"]
      BY DEF BeginGeneration
    <2>2. u \in Session
      <3>1. s.pending \in Seq(Msgs) /\ "chat" \in RunKinds /\ <<>> \in Seq(Events)
        BY FieldTypes DEF RunKinds
      <3> QED
        BY <3>1, StartRunType DEF TypedSession
    <2>3. Started(s, "chat", s.pending, u)
      BY StartRunStarts
    <2>4. u.steer = s.steer
      BY FieldTypes DEF StartRun, Session
    <2> HIDE DEF u, user, none, t
    <2>5. /\ t.responseEpoch = u.responseEpoch /\ t.mutationEpoch = u.mutationEpoch
          /\ t.genCtl = u.genCtl /\ t.queued = u.queued /\ t.timer = u.timer
          /\ t.run = u.run /\ t.steer = u.steer /\ t.pending = none
      BY <2>1, <2>2 DEF Session
    <2>6. Started(s, "chat", s.pending, t)
      BY <2>3, <2>5 DEF Started
    <2>7. Ledger(t, H, D, A)
      BY <2>4, <2>5, <2>6, StartedLedger DEF none
    <2> QED
      BY <2>7 DEF t
  <1>2. ASSUME NEW kind \in RunKinds, NEW trigger \in Triggers \cup {NoTrigger},
               NEW events \in Seq(Events)
        PROVE  Ledger(BeginSyntheticGeneration(s, kind, trigger, events), H, D, A)
    <2> DEFINE u == StartRun(s, kind, <<>>, trigger, events)
               t == BeginSyntheticGeneration(s, kind, trigger, events)
    <2>1. t = [u EXCEPT !.target = NoUser, !.phase = "requesting"]
      BY DEF BeginSyntheticGeneration
    <2>2. u \in Session
      <3>1. <<>> \in Seq(Msgs)
        OBVIOUS
      <3> QED
        BY <3>1, StartRunType DEF TypedSession
    <2>3. Started(s, kind, <<>>, u)
      BY StartRunStarts
    <2>4. u.steer = s.steer /\ u.pending = s.pending
      BY FieldTypes DEF StartRun, Session
    <2> HIDE DEF u, t
    <2>5. /\ t.responseEpoch = u.responseEpoch /\ t.mutationEpoch = u.mutationEpoch
          /\ t.genCtl = u.genCtl /\ t.queued = u.queued /\ t.timer = u.timer
          /\ t.run = u.run /\ t.steer = u.steer /\ t.pending = u.pending
      BY <2>1, <2>2 DEF Session
    <2>6. Started(s, kind, <<>>, t)
      BY <2>3, <2>5 DEF Started
    <2>7. Ledger(t, H, D, A)
      BY <2>4, <2>5, <2>6, StartedLedger
    <2> QED
      BY <2>7 DEF t
  <1> QED
    BY <1>1, <1>2

(* A message arrives: it is in the one place it is put into. *)
LEMMA AppendedLedger ==
    ASSUME NEW s, TypedSession(s), NEW H, NEW D, NEW A, Ledger(s, H, D, A),
           NEW m \in Msgs, m \notin A
    PROVE  /\ Ledger(AppendPending(s, m), H, D, A \cup {m})
           /\ Ledger(AppendSteer(s, m), H, D, A \cup {m})
  <1>0. OnePlace(s, H, D, A, m) /\ \A x \in Msgs : OnePlace(s, H, D, A, x)
    BY DEF Ledger
  <1>1. Ledger(AppendPending(s, m), H, D, A \cup {m})
    <2> DEFINE q == Append(s.pending, m)
               t == AppendPending(s, m)
    <2>1. t = [s EXCEPT !.pending = q, !.waits = 0] /\ s \in Session
          /\ s.pending \in Seq(Msgs)
      BY FieldTypes DEF AppendPending
    <2>2. m \notin Range(s.pending)
      BY <1>0 DEF OnePlace, InPending
    <2>3. Injective(q) /\ \A x : x \in Range(q) <=> InPending(s, x) \/ x = m
      BY <2>1, <2>2, JoinedMessage DEF Ledger, NoRepeats, InPending
    <2> HIDE DEF q, t
    <2>4. t.pending = q /\ t.steer = s.steer /\ t.queued = s.queued /\ t.run = s.run
      BY <2>1 DEF Session
    <2>5. NoRepeats(t)
      BY <2>3, <2>4 DEF Ledger, NoRepeats
    <2>6. ASSUME NEW x \in Msgs PROVE OnePlace(t, H, D, A \cup {m}, x)
      <3>1. /\ InPending(t, x) <=> InPending(s, x) \/ x = m
            /\ InSteer(t, x) <=> InSteer(s, x)
            /\ \A i : InEntry(t, i, x) <=> InEntry(s, i, x)
            /\ \A r : InRun(t, r, x) <=> InRun(s, r, x)
            /\ InQueue(t, x) <=> InQueue(s, x)
            /\ InSomeRun(t, x) <=> InSomeRun(s, x)
        BY <2>3, <2>4 DEF InPending, InSteer, InEntry, InRun, InQueue, InSomeRun
      <3> QED
        BY <1>0, <2>4, <3>1 DEF OnePlace
    <2>7. Ledger(t, H, D, A \cup {m})
      BY <2>5, <2>6 DEF Ledger
    <2> QED
      BY <2>7 DEF t
  <1>2. Ledger(AppendSteer(s, m), H, D, A \cup {m})
    <2> DEFINE q == Append(s.steer, m)
               t == AppendSteer(s, m)
    <2>1. t = [s EXCEPT !.steer = q] /\ s \in Session
          /\ s.steer \in Seq(Msgs)
      BY FieldTypes DEF AppendSteer
    <2>2. m \notin Range(s.steer)
      BY <1>0 DEF OnePlace, InSteer
    <2>3. Injective(q) /\ \A x : x \in Range(q) <=> InSteer(s, x) \/ x = m
      BY <2>1, <2>2, JoinedMessage DEF Ledger, NoRepeats, InSteer
    <2> HIDE DEF q, t
    <2>4. t.steer = q /\ t.pending = s.pending /\ t.queued = s.queued /\ t.run = s.run
      BY <2>1 DEF Session
    <2>5. NoRepeats(t)
      BY <2>3, <2>4 DEF Ledger, NoRepeats
    <2>6. ASSUME NEW x \in Msgs PROVE OnePlace(t, H, D, A \cup {m}, x)
      <3>1. /\ InSteer(t, x) <=> InSteer(s, x) \/ x = m
            /\ InPending(t, x) <=> InPending(s, x)
            /\ \A i : InEntry(t, i, x) <=> InEntry(s, i, x)
            /\ \A r : InRun(t, r, x) <=> InRun(s, r, x)
            /\ InQueue(t, x) <=> InQueue(s, x)
            /\ InSomeRun(t, x) <=> InSomeRun(s, x)
        BY <2>3, <2>4 DEF InPending, InSteer, InEntry, InRun, InQueue, InSomeRun
      <3> QED
        BY <1>0, <2>4, <3>1 DEF OnePlace
    <2>7. Ledger(t, H, D, A \cup {m})
      BY <2>5, <2>6 DEF Ledger
    <2> QED
      BY <2>7 DEF t
  <1> QED
    BY <1>1, <1>2

LEMMA EnqueueLedger ==
    ASSUME NEW s, TypedSession(s), NEW H, NEW D, NEW A, Ledger(s, H, D, A),
           NEW m \in Msgs, m \notin A,
           \A i, k \in DOMAIN s.queued :
              Sender[Head(s.queued[i])] = Sender[Head(s.queued[k])] => i = k
    PROVE  Ledger(EnqueueGroupReplyTarget(s, m), H, D, A \cup {m})
  <1> DEFINE Q == s.queued
             match == \E i \in DOMAIN Q : Sender[Head(Q[i])] = Sender[m]
             joined == [i \in DOMAIN s.queued |->
                          IF Sender[Head(s.queued[i])] = Sender[m]
                          THEN Append(s.queued[i], m) ELSE s.queued[i]]
             one == <<m>>
             longer == Append(Q, one)
             t == EnqueueGroupReplyTarget(s, m)
             N == IF match THEN joined ELSE longer
  <1>0. OnePlace(s, H, D, A, m) /\ \A x \in Msgs : OnePlace(s, H, D, A, x)
    BY DEF Ledger
  <1>1. s \in Session /\ Q \in Seq(Seq(Msgs)) /\ \A i \in DOMAIN Q : Q[i] \in Seq(Msgs)
    BY FieldTypes
  <1>2. t = [s EXCEPT !.queued = N]
    BY DEF EnqueueGroupReplyTarget
  (* Entry c of the new queue is the one that takes the message. *)
  <1>3. \E c \in DOMAIN N :
          /\ \A i \in DOMAIN N : i # c => i \in DOMAIN Q /\ N[i] = Q[i]
          /\ \A i \in DOMAIN Q : i \in DOMAIN N
          /\ Injective(N[c])
          /\ \A x : x \in Range(N[c]) <=> (c \in DOMAIN Q /\ x \in Range(Q[c])) \/ x = m
    <2>1. CASE match
      <3>1. PICK c \in DOMAIN Q : Sender[Head(Q[c])] = Sender[m]
        BY <2>1
      <3>2. /\ N = joined /\ DOMAIN joined = DOMAIN Q
            /\ joined[c] = Append(Q[c], m)
            /\ \A i \in DOMAIN Q : i # c => joined[i] = Q[i]
        BY <2>1, <3>1
      <3>3. m \notin Range(Q[c])
        BY <1>0 DEF OnePlace, InQueue, InEntry
      <3>4. Injective(Q[c])
        BY DEF Ledger, NoRepeats
      <3>5. Injective(Append(Q[c], m))
            /\ \A x : x \in Range(Append(Q[c], m)) <=> x \in Range(Q[c]) \/ x = m
        BY <1>1, <3>3, <3>4, JoinedMessage
      <3> HIDE DEF joined, N
      <3> QED
        BY <3>2, <3>5
    <2>2. CASE ~match
      <3> DEFINE c == Len(Q) + 1
      <3>1. one \in Seq(Msgs) /\ DOMAIN one = {1} /\ one[1] = m
        OBVIOUS
      <3> HIDE DEF one
      <3>2. /\ N = longer /\ DOMAIN longer = 1 .. c /\ c \in DOMAIN longer
            /\ longer[c] = one /\ c \notin DOMAIN Q
            /\ \A i \in DOMAIN longer : i # c => i \in DOMAIN Q /\ longer[i] = Q[i]
            /\ \A i \in DOMAIN Q : i \in DOMAIN longer
        BY <1>1, <2>2, <3>1
      <3>3. Injective(one) /\ \A x : x \in Range(one) <=> x = m
        BY <3>1 DEF Injective, Range
      <3> HIDE DEF longer, N, c
      <3> QED
        BY <3>2, <3>3
    <2> QED
      BY <2>1, <2>2
  <1>4. PICK c \in DOMAIN N :
          /\ \A i \in DOMAIN N : i # c => i \in DOMAIN Q /\ N[i] = Q[i]
          /\ \A i \in DOMAIN Q : i \in DOMAIN N
          /\ Injective(N[c])
          /\ \A x : x \in Range(N[c]) <=> (c \in DOMAIN Q /\ x \in Range(Q[c])) \/ x = m
    BY <1>3
  <1> HIDE DEF N, t
  <1>5. t.queued = N /\ t.pending = s.pending /\ t.steer = s.steer /\ t.run = s.run
    BY <1>1, <1>2 DEF Session
  <1>6. NoRepeats(t)
    BY <1>4, <1>5 DEF Ledger, NoRepeats
  <1>7. ASSUME NEW x \in Msgs PROVE OnePlace(t, H, D, A \cup {m}, x)
    <2>1. /\ InPending(t, x) <=> InPending(s, x)
          /\ InSteer(t, x) <=> InSteer(s, x)
          /\ \A r : InRun(t, r, x) <=> InRun(s, r, x)
          /\ InSomeRun(t, x) <=> InSomeRun(s, x)
          /\ InEntry(t, c, x) <=> (c \in DOMAIN Q /\ InEntry(s, c, x)) \/ x = m
          /\ \A i \in DOMAIN N : i # c => i \in DOMAIN Q /\ (InEntry(t, i, x) <=> InEntry(s, i, x))
      BY <1>4, <1>5 DEF InPending, InSteer, InEntry, InRun, InSomeRun
    <2>2. InQueue(t, x) <=> InQueue(s, x) \/ x = m
      BY <1>4, <1>5, <2>1 DEF InQueue
    <2>3. ~InQueue(s, m)
      BY <1>0 DEF OnePlace
    <2>4. ASSUME NEW i \in DOMAIN N, NEW k \in DOMAIN N, InEntry(t, i, x), InEntry(t, k, x)
          PROVE  i = k
      <3>1. CASE x = m
        <4>1. \A j \in DOMAIN Q : ~InEntry(s, j, x)
          BY <2>3, <3>1 DEF InQueue
        <4> QED
          BY <2>1, <2>4, <4>1
      <3>2. CASE x # m
        <4>1. InEntry(s, i, x) /\ i \in DOMAIN Q /\ InEntry(s, k, x) /\ k \in DOMAIN Q
          BY <2>1, <2>4, <3>2
        <4> QED
          BY <1>0, <4>1 DEF OnePlace
      <3> QED
        BY <3>1, <3>2
    <2> QED
      BY <1>0, <1>5, <2>1, <2>2, <2>4 DEF OnePlace
  <1>8. Ledger(t, H, D, A \cup {m})
    BY <1>6, <1>7 DEF Ledger
  <1> QED
    BY <1>8 DEF t

-----------------------------------------------------------------------------
(* The operations that move none.                                          *)

LEMMA SameMessagesCompose ==
    ASSUME NEW s, NEW t, NEW u, SameMessages(s, t), SameMessages(t, u)
    PROVE  SameMessages(s, u)
  BY DEF SameMessages

LEMMA WithRunSame ==
    ASSUME NEW s, TypedSession(s), NEW r \in DOMAIN s.run, NEW x, x.input = s.run[r].input
    PROVE  SameMessages(s, WithRun(s, r, x))
  <1> DEFINE t == WithRun(s, r, x)
             q == [s.run EXCEPT ![r] = x]
  <1>1. t = [s EXCEPT !.run = q] /\ s \in Session
    BY FieldTypes DEF WithRun
  <1>2. DOMAIN q = DOMAIN s.run /\ \A i \in DOMAIN s.run : q[i].input = s.run[i].input
    OBVIOUS
  <1> HIDE DEF q, t
  <1>3. t.run = q /\ t.pending = s.pending /\ t.steer = s.steer /\ t.queued = s.queued
    BY <1>1 DEF Session
  <1> QED
    BY <1>2, <1>3 DEF SameMessages, t

LEMMA StageSame ==
    ASSUME NEW s, TypedSession(s), NEW r \in DOMAIN s.run, NEW stage
    PROVE  SameMessages(s, [s EXCEPT !.run[r].stage = stage])
  <1> DEFINE x == [s.run[r] EXCEPT !.stage = stage]
  <1>1. s.run[r] \in Run /\ s \in Session
    BY FieldTypes
  <1>2. [s EXCEPT !.run[r].stage = stage] = WithRun(s, r, x)
    BY <1>1 DEF WithRun, Session
  <1>3. x.input = s.run[r].input
    BY <1>1 DEF Run
  <1> HIDE DEF x
  <1> QED
    BY <1>2, <1>3, WithRunSame

LEMMA FinishedSame ==
    ASSUME NEW s, TypedSession(s), NEW r \in DOMAIN s.run, NEW f
    PROVE  SameMessages(s, [s EXCEPT !.run[r].fin = f])
  <1> DEFINE x == [s.run[r] EXCEPT !.fin = f]
  <1>1. s.run[r] \in Run /\ s \in Session
    BY FieldTypes
  <1>2. [s EXCEPT !.run[r].fin = f] = WithRun(s, r, x)
    BY <1>1 DEF WithRun, Session
  <1>3. x.input = s.run[r].input
    BY <1>1 DEF Run
  <1> HIDE DEF x
  <1> QED
    BY <1>2, <1>3, WithRunSame

LEMMA AbortedSame ==
    ASSUME NEW s, TypedSession(s), NEW r \in DOMAIN s.run
    PROVE  SameMessages(s, [s EXCEPT !.run[r].genAb = TRUE, !.run[r].respAb = TRUE])
  <1> DEFINE x == [s.run[r] EXCEPT !.genAb = TRUE, !.respAb = TRUE]
  <1>1. s.run[r] \in Run /\ s \in Session /\ s.run \in Seq(Run)
    BY FieldTypes
  <1>2. [s EXCEPT !.run[r].genAb = TRUE, !.run[r].respAb = TRUE] = WithRun(s, r, x)
    BY <1>1 DEF WithRun, Session
  <1>3. x.input = s.run[r].input
    BY <1>1 DEF Run
  <1> HIDE DEF x
  <1> QED
    BY <1>2, <1>3, WithRunSame

LEMMA CancelSame ==
    ASSUME NEW s, TypedSession(s)
    PROVE  SameMessages(s, CancelGeneration(s))
  <1>1. CASE IsGenerating(s) /\ s.genCtl # 0
    <2> DEFINE x == [s.run[s.genCtl] EXCEPT !.genAb = TRUE]
               t == WithRun(s, s.genCtl, x)
               c == CancelGeneration(s)
    <2>1. s.genCtl \in DOMAIN s.run /\ s.run[s.genCtl] \in Run
      BY <1>1, FieldTypes
    <2>2. x \in Run /\ x.input = s.run[s.genCtl].input
      BY <2>1 DEF Run
    <2>3. c = [t EXCEPT !.phase = "delivering", !.genCtl = 0]
      BY <1>1, FieldTypes DEF CancelGeneration, WithRun, Session
    <2> HIDE DEF x
    <2>4. TypedSession(t) /\ SameMessages(s, t)
      BY <2>1, <2>2, WithRunType, WithRunSame
    <2> HIDE DEF t, c
    <2>5. c.pending = t.pending /\ c.steer = t.steer /\ c.queued = t.queued /\ c.run = t.run
      BY <2>3, <2>4, FieldTypes DEF Session
    <2>6. SameMessages(s, c)
      BY <2>4, <2>5 DEF SameMessages
    <2> QED
      BY <2>6 DEF c
  <1>2. CASE ~(IsGenerating(s) /\ s.genCtl # 0)
    BY <1>2 DEF CancelGeneration, SameMessages
  <1> QED
    BY <1>1, <1>2

LEMMA AbortResponseSame ==
    ASSUME NEW s, TypedSession(s)
    PROVE  SameMessages(s, AbortResponse(s))
  <1>1. CASE s.respCtl # 0
    <2> DEFINE x == [s.run[s.respCtl] EXCEPT !.respAb = TRUE]
    <2>1. s.respCtl \in DOMAIN s.run /\ s.run[s.respCtl] \in Run
      BY <1>1, FieldTypes
    <2>2. x.input = s.run[s.respCtl].input
      BY <2>1 DEF Run
    <2>3. AbortResponse(s) = WithRun(s, s.respCtl, x)
      BY <1>1, <2>1, FieldTypes DEF AbortResponse, WithRun, Session
    <2> HIDE DEF x
    <2> QED
      BY <2>1, <2>2, <2>3, WithRunSame
  <1>2. CASE s.respCtl = 0
    BY <1>2 DEF AbortResponse, SameMessages
  <1> QED
    BY <1>1, <1>2

LEMMA QuietOperations ==
    ASSUME NEW s, TypedSession(s)
    PROVE  /\ \A r : SameMessages(s, FinishGeneration(s, r))
           /\ \A epoch : SameMessages(s, CompleteResponse(s, epoch))
           /\ SameMessages(s, InterruptOutbound(s))
           /\ SameMessages(s, ClearTimer(s))
           /\ SameMessages(s, Schedule(s))
           /\ \A phase : SameMessages(s, [s EXCEPT !.phase = phase])
  <1>0. s \in Session
    BY FieldTypes
  <1>1. ASSUME NEW r PROVE SameMessages(s, FinishGeneration(s, r))
    BY <1>0 DEF FinishGeneration, Session, SameMessages
  <1>2. ASSUME NEW epoch PROVE SameMessages(s, CompleteResponse(s, epoch))
    BY <1>0 DEF CompleteResponse, Session, SameMessages
  <1>3. SameMessages(s, InterruptOutbound(s))
    BY <1>0 DEF InterruptOutbound, Session, SameMessages
  <1>4. SameMessages(s, ClearTimer(s))
    BY <1>0 DEF ClearTimer, Session, SameMessages
  <1>5. SameMessages(s, Schedule(s))
    <2> DEFINE c == ClearTimer(s)
               t == Schedule(s)
               phase == IF c.phase \in {"idle", "waiting"} THEN "debouncing" ELSE c.phase
    <2>1. t = [c EXCEPT !.timer = TRUE, !.phase = phase] /\ c \in Session
      BY ClearTimerType DEF Schedule, TypedSession
    <2> HIDE DEF c, t, phase
    <2>2. SameMessages(c, t)
      BY <2>1 DEF Session, SameMessages
    <2> QED
      BY <1>4, <2>2, SameMessagesCompose DEF c, t
  <1>6. ASSUME NEW phase PROVE SameMessages(s, [s EXCEPT !.phase = phase])
    BY <1>0 DEF Session, SameMessages
  <1> QED
    BY <1>1, <1>2, <1>3, <1>4, <1>5, <1>6

-----------------------------------------------------------------------------
(* A run takes the steers, ends, or gives its batch back; a command drops  *)
(* what waits.                                                             *)

(* Only run r's input changes: it grows by messages of no run, or it is    *)
(* emptied.                                                                *)
LEMMA GrownRun ==
    ASSUME NEW s, NEW t, NEW r \in DOMAIN s.run, DOMAIN t.run = DOMAIN s.run,
           \A i \in DOMAIN s.run : i # r => t.run[i].input = s.run[i].input,
           NEW x, InRun(s, r, x) => InRun(t, r, x),
           InRun(t, r, x) => InRun(s, r, x) \/ ~InSomeRun(s, x),
           \A i, k \in DOMAIN s.run : InRun(s, i, x) /\ InRun(s, k, x) => i = k
    PROVE  /\ \A i, k \in DOMAIN t.run : InRun(t, i, x) /\ InRun(t, k, x) => i = k
           /\ InSomeRun(t, x) <=> InSomeRun(s, x) \/ InRun(t, r, x)
  <1>1. \A i \in DOMAIN s.run : i # r => (InRun(t, i, x) <=> InRun(s, i, x))
    BY DEF InRun
  <1>2. InSomeRun(t, x) <=> InSomeRun(s, x) \/ InRun(t, r, x)
    BY <1>1 DEF InSomeRun
  <1>3. \A i \in DOMAIN s.run : ~InSomeRun(s, x) => ~InRun(s, i, x)
    BY DEF InSomeRun
  <1> QED
    BY <1>1, <1>2, <1>3

LEMMA EmptiedRun ==
    ASSUME NEW s, NEW t, NEW r \in DOMAIN s.run, DOMAIN t.run = DOMAIN s.run,
           \A i \in DOMAIN s.run : i # r => t.run[i].input = s.run[i].input,
           NEW x, ~InRun(t, r, x),
           \A i, k \in DOMAIN s.run : InRun(s, i, x) /\ InRun(s, k, x) => i = k
    PROVE  /\ \A i, k \in DOMAIN t.run : InRun(t, i, x) /\ InRun(t, k, x) => i = k
           /\ InSomeRun(t, x) => InSomeRun(s, x)
           /\ InRun(s, r, x) => InSomeRun(s, x) /\ ~InSomeRun(t, x)
           /\ InSomeRun(s, x) /\ ~InRun(s, r, x) => InSomeRun(t, x)
  <1>1. \A i \in DOMAIN s.run : i # r => (InRun(t, i, x) <=> InRun(s, i, x))
    BY DEF InRun
  <1>2. InSomeRun(t, x) => InSomeRun(s, x)
    BY <1>1 DEF InSomeRun
  <1>3. ASSUME InRun(s, r, x), NEW i \in DOMAIN t.run, InRun(t, i, x) PROVE FALSE
    BY <1>1, <1>3
  <1>4. InRun(s, r, x) => InSomeRun(s, x) /\ ~InSomeRun(t, x)
    BY <1>3 DEF InSomeRun
  <1>5. InSomeRun(s, x) /\ ~InRun(s, r, x) => InSomeRun(t, x)
    BY <1>1 DEF InSomeRun
  <1> QED
    BY <1>1, <1>2, <1>4, <1>5

LEMMA ConsumeLedger ==
    ASSUME NEW s, TypedSession(s), NEW H, NEW D, NEW A, Ledger(s, H, D, A),
           NEW r \in DOMAIN s.run
    PROVE  Ledger(ConsumeSteer(s, r), H, D, A)
  <1> DEFINE t == ConsumeSteer(s, r)
             none == <<>>
             in == s.run[r].input \o s.steer
             x == [s.run[r] EXCEPT !.input = in]
             q == [s.run EXCEPT ![r] = x]
             o == IF s.outCtl = "aborted" THEN "live" ELSE s.outCtl
  <1>1. s \in Session /\ s.run \in Seq(Run) /\ s.run[r] \in Run /\ s.steer \in Seq(Msgs)
        /\ s.run[r].input \in Seq(Msgs)
    BY FieldTypes DEF Run
  <1>2. t = [s EXCEPT !.steer = none, !.run = q, !.outCtl = o]
    BY <1>1 DEF ConsumeSteer, Session
  <1>3. q[r] = x /\ DOMAIN q = DOMAIN s.run /\ \A i \in DOMAIN s.run : i # r => q[i] = s.run[i]
    BY <1>1
  <1>4. x.input = in
    BY <1>1 DEF Run
  <1>5. Injective(in) /\ \A y : y \in Range(in) <=> InRun(s, r, y) \/ InSteer(s, y)
    <2>1. \A y \in Msgs : ~(y \in Range(s.run[r].input) /\ y \in Range(s.steer))
      BY DEF Ledger, OnePlace, InSomeRun, InRun, InSteer
    <2> QED
      BY <1>1, <2>1, JoinedBatches DEF Ledger, NoRepeats, InRun, InSteer
  <1> HIDE DEF t, none, in, x, q, o
  <1>6. t.pending = s.pending /\ t.steer = none /\ t.queued = s.queued /\ t.run = q
    BY <1>1, <1>2 DEF Session
  <1>7. NoRepeats(t)
    <2>1. \A i \in DOMAIN t.run : Injective(t.run[i].input)
      BY <1>3, <1>4, <1>5, <1>6 DEF Ledger, NoRepeats
    <2> QED
      BY <1>6, <2>1, EmptyBatch DEF Ledger, NoRepeats, none
  <1>8. ASSUME NEW y \in Msgs PROVE OnePlace(t, H, D, A, y)
    <2>1. OnePlace(s, H, D, A, y)
      BY DEF Ledger
    <2>2. /\ InPending(t, y) <=> InPending(s, y)
          /\ ~InSteer(t, y)
          /\ \A i : InEntry(t, i, y) <=> InEntry(s, i, y)
          /\ InQueue(t, y) <=> InQueue(s, y)
          /\ InRun(t, r, y) <=> InRun(s, r, y) \/ InSteer(s, y)
      BY <1>3, <1>4, <1>5, <1>6, EmptyBatch DEF InPending, InSteer, InEntry, InQueue, InRun, none
    <2>3. DOMAIN t.run = DOMAIN s.run
          /\ \A i \in DOMAIN s.run : i # r => t.run[i].input = s.run[i].input
      BY <1>3, <1>6
    <2>4. \A i, k \in DOMAIN s.run : InRun(s, i, y) /\ InRun(s, k, y) => i = k
      BY <2>1 DEF OnePlace
    <2>5. /\ InRun(s, r, y) => InRun(t, r, y)
          /\ InRun(t, r, y) => InRun(s, r, y) \/ ~InSomeRun(s, y)
      BY <2>1, <2>2 DEF OnePlace
    <2>6. /\ \A i, k \in DOMAIN t.run : InRun(t, i, y) /\ InRun(t, k, y) => i = k
          /\ InSomeRun(t, y) <=> InSomeRun(s, y) \/ InRun(t, r, y)
      BY <2>3, <2>4, <2>5, GrownRun
    <2>7. InSomeRun(t, y) <=> InSomeRun(s, y) \/ InSteer(s, y)
      <3>1. InRun(s, r, y) => InSomeRun(s, y)
        BY DEF InSomeRun
      <3> QED
        BY <2>2, <2>6, <3>1
    <2> QED
      BY <1>6, <2>1, <2>2, <2>6, <2>7 DEF OnePlace
  <1>9. Ledger(t, H, D, A)
    BY <1>7, <1>8 DEF Ledger
  <1> QED
    BY <1>9 DEF t

(* Run r ends: its input becomes part of what was handled. *)
LEMMA EndRunLedger ==
    ASSUME NEW s, TypedSession(s), NEW H, NEW D, NEW A, Ledger(s, H, D, A),
           NEW r \in DOMAIN s.run
    PROVE  Ledger(EndRun(s, r), H \cup Range(s.run[r].input), D, A)
  <1> DEFINE t == EndRun(s, r)
             K == H \cup Range(s.run[r].input)
  <1>1. s.run \in Seq(Run)
    BY FieldTypes
  <1>2. /\ t.pending = s.pending /\ t.steer = s.steer /\ t.queued = s.queued
        /\ DOMAIN t.run = DOMAIN s.run /\ t.run[r].input = <<>>
        /\ \A i \in DOMAIN s.run : i # r => t.run[i].input = s.run[i].input
    <2> DEFINE x == Released(s.run[r])
    <2>1. x.input = <<>>
      BY DEF Released
    <2> HIDE DEF x
    <2>2. /\ t.pending = s.pending /\ t.steer = s.steer /\ t.queued = s.queued
          /\ t.run = [s.run EXCEPT ![r] = x]
      BY EndRunFields DEF x
    <2> HIDE DEF t
    <2> QED
      BY <1>1, <2>1, <2>2
  <1>3. \A y : y \in K <=> y \in H \/ InRun(s, r, y)
    BY DEF InRun
  <1> HIDE DEF t, K
  <1>4. NoRepeats(t)
    BY <1>2, EmptyBatch DEF Ledger, NoRepeats
  <1>5. ASSUME NEW y \in Msgs PROVE OnePlace(t, K, D, A, y)
    <2>1. OnePlace(s, H, D, A, y)
      BY DEF Ledger
    <2>2. /\ InPending(t, y) <=> InPending(s, y)
          /\ InSteer(t, y) <=> InSteer(s, y)
          /\ \A i : InEntry(t, i, y) <=> InEntry(s, i, y)
          /\ InQueue(t, y) <=> InQueue(s, y)
          /\ ~InRun(t, r, y)
      BY <1>2, EmptyBatch DEF InPending, InSteer, InEntry, InQueue, InRun
    <2>3. \A i, k \in DOMAIN s.run : InRun(s, i, y) /\ InRun(s, k, y) => i = k
      BY <2>1 DEF OnePlace
    <2>4. /\ \A i, k \in DOMAIN t.run : InRun(t, i, y) /\ InRun(t, k, y) => i = k
          /\ InSomeRun(t, y) => InSomeRun(s, y)
          /\ InRun(s, r, y) => InSomeRun(s, y) /\ ~InSomeRun(t, y)
          /\ InSomeRun(s, y) /\ ~InRun(s, r, y) => InSomeRun(t, y)
      BY <1>2, <2>2, <2>3, EmptiedRun
    <2> QED
      BY <1>2, <1>3, <2>1, <2>2, <2>4 DEF OnePlace
  <1>6. Ledger(t, K, D, A)
    BY <1>4, <1>5 DEF Ledger
  <1> QED
    BY <1>6 DEF t, K

(* Run r ends with its batch put back in front of what is pending. *)
LEMMA RequeuedLedger ==
    ASSUME NEW s, TypedSession(s), NEW H, NEW D, NEW A, Ledger(s, H, D, A),
           NEW r \in DOMAIN s.run, NEW t,
           t.pending = s.run[r].input \o s.pending, t.steer = s.steer, t.queued = s.queued,
           DOMAIN t.run = DOMAIN s.run, t.run[r].input = <<>>,
           \A i \in DOMAIN s.run : i # r => t.run[i].input = s.run[i].input
    PROVE  Ledger(t, H, D, A)
  <1> DEFINE p == s.run[r].input \o s.pending
  <1>1. s.run[r].input \in Seq(Msgs) /\ s.pending \in Seq(Msgs)
    <2>1. s.run[r] \in Run
      BY FieldTypes
    <2> QED
      BY <2>1, FieldTypes DEF Run
  <1>2. Injective(p) /\ \A y : y \in Range(p) <=> InRun(s, r, y) \/ InPending(s, y)
    <2>1. \A y \in Msgs : ~(y \in Range(s.run[r].input) /\ y \in Range(s.pending))
      BY DEF Ledger, OnePlace, InSomeRun, InRun, InPending
    <2> QED
      BY <1>1, <2>1, JoinedBatches DEF Ledger, NoRepeats, InRun, InPending
  <1>3. t.pending = p
    OBVIOUS
  <1> HIDE DEF p
  <1>4. NoRepeats(t)
    BY <1>2, <1>3, EmptyBatch DEF Ledger, NoRepeats
  <1>5. ASSUME NEW y \in Msgs PROVE OnePlace(t, H, D, A, y)
    <2>1. OnePlace(s, H, D, A, y)
      BY DEF Ledger
    <2>2. /\ InPending(t, y) <=> InRun(s, r, y) \/ InPending(s, y)
          /\ InSteer(t, y) <=> InSteer(s, y)
          /\ \A i : InEntry(t, i, y) <=> InEntry(s, i, y)
          /\ InQueue(t, y) <=> InQueue(s, y)
          /\ ~InRun(t, r, y)
      BY <1>2, <1>3, EmptyBatch DEF InPending, InSteer, InEntry, InQueue, InRun
    <2>3. \A i, k \in DOMAIN s.run : InRun(s, i, y) /\ InRun(s, k, y) => i = k
      BY <2>1 DEF OnePlace
    <2>4. /\ \A i, k \in DOMAIN t.run : InRun(t, i, y) /\ InRun(t, k, y) => i = k
          /\ InSomeRun(t, y) => InSomeRun(s, y)
          /\ InRun(s, r, y) => InSomeRun(s, y) /\ ~InSomeRun(t, y)
          /\ InSomeRun(s, y) /\ ~InRun(s, r, y) => InSomeRun(t, y)
      BY <2>2, <2>3, EmptiedRun
    <2> QED
      BY <2>1, <2>2, <2>4 DEF OnePlace
  <1> QED
    BY <1>4, <1>5 DEF Ledger

(* What waited is discarded. *)
LEMMA EmptiedLedger ==
    ASSUME NEW s, NEW H, NEW D, NEW A, Ledger(s, H, D, A),
           NEW t, t.pending = <<>>, t.steer = <<>>, t.queued = <<>>,
           DOMAIN t.run = DOMAIN s.run,
           \A r \in DOMAIN s.run : t.run[r].input = s.run[r].input
    PROVE  Ledger(t, H, D \cup Waiting(s), A)
  <1> DEFINE W == Waiting(s)
             E == D \cup W
  <1>1. \A y : y \in W <=> InPending(s, y) \/ InSteer(s, y) \/ InQueue(s, y)
    BY DEF Waiting, InPending, InSteer, InQueue, InEntry
  <1>2. \A y : y \in E <=> y \in D \/ y \in W
    OBVIOUS
  <1> HIDE DEF W, E
  <1>3. NoRepeats(t)
    BY EmptyBatch DEF Ledger, NoRepeats
  <1>4. ASSUME NEW y \in Msgs PROVE OnePlace(t, H, E, A, y)
    <2>1. OnePlace(s, H, D, A, y)
      BY DEF Ledger
    <2>2. /\ ~InPending(t, y) /\ ~InSteer(t, y) /\ ~InQueue(t, y) /\ DOMAIN t.queued = {}
          /\ \A r \in DOMAIN s.run : InRun(t, r, y) <=> InRun(s, r, y)
      BY EmptyBatch DEF InPending, InSteer, InEntry, InQueue, InRun
    <2>3. InSomeRun(t, y) <=> InSomeRun(s, y)
      BY <2>2 DEF InSomeRun
    <2> QED
      BY <1>1, <1>2, <2>1, <2>2, <2>3 DEF OnePlace
  <1> QED
    BY <1>3, <1>4 DEF Ledger, E, W

-----------------------------------------------------------------------------
(* The compositions.                                                       *)

LEMMA ProcessNextLedger ==
    ASSUME NEW s, TypedSession(s), NEW H, NEW D, NEW A, Ledger(s, H, D, A)
    PROVE  Ledger(ProcessNextSessionWork(s), H, D, A)
  <1> DEFINE a == PromoteSteer(s)
             p == IF a.pending = <<>> THEN PromoteNextTarget(a) ELSE a
             u == [p EXCEPT !.triggers = Tail(p.triggers)]
             v == [p EXCEPT !.inlines = <<>>]
             trigger == BeginSyntheticGeneration(u, "trigger", Head(p.triggers), <<>>)
             inline == BeginSyntheticGeneration(v, "inline", NoTrigger, p.inlines)
             next == ProcessNextSessionWork(s)
  <1>1. TypedSession(a) /\ Ledger(a, H, D, A)
    BY PromoteSteerType, PromoteSteerLedger
  <1>2. next \in {s, p, BeginGeneration(p), inline} \/ (p.triggers # <<>> /\ next = trigger)
    BY DEF ProcessNextSessionWork
  <1> HIDE DEF a
  <1>3. TypedSession(p) /\ Ledger(p, H, D, A)
    BY <1>1, PromoteNextType, PromoteNextLedger
  <1> HIDE DEF p
  <1> SUFFICES Ledger(next, H, D, A)
    OBVIOUS
  <1> HIDE DEF next
  <1>4. p \in Session /\ p.triggers \in Seq(Triggers) /\ p.inlines \in Seq(Events)
    BY <1>3, FieldTypes
  <1>5. CASE next \in {s, p, BeginGeneration(p)}
    BY <1>3, <1>5, BeginLedger
  <1>6. CASE p.triggers # <<>> /\ next = trigger
    <2>1. Tail(p.triggers) \in Seq(Triggers) /\ Head(p.triggers) \in Triggers
          /\ "trigger" \in RunKinds /\ <<>> \in Seq(Events)
      BY <1>4, <1>6 DEF RunKinds
    <2>2. /\ u \in Session /\ u.queued = p.queued /\ u.run = p.run
          /\ u.genCtl = p.genCtl /\ u.respCtl = p.respCtl
          /\ u.pending = p.pending /\ u.steer = p.steer
      BY <1>4, <2>1 DEF Session
    <2>3. TypedSession(u)
      BY <1>3, <2>2 DEF TypedSession
    <2> HIDE DEF u
    <2>4. Ledger(u, H, D, A)
      BY <1>3, <2>2, SameLedger DEF SameMessages
    <2> QED
      BY <1>6, <2>1, <2>3, <2>4, BeginLedger
  <1>7. CASE next = inline
    <2>1. <<>> \in Seq(Events) /\ "inline" \in RunKinds
      BY DEF RunKinds
    <2>2. /\ v \in Session /\ v.queued = p.queued /\ v.run = p.run
          /\ v.genCtl = p.genCtl /\ v.respCtl = p.respCtl
          /\ v.pending = p.pending /\ v.steer = p.steer
      BY <1>4, <2>1 DEF Session
    <2>3. TypedSession(v)
      BY <1>3, <2>2 DEF TypedSession
    <2> HIDE DEF v
    <2>4. Ledger(v, H, D, A)
      BY <1>3, <2>2, SameLedger DEF SameMessages
    <2> QED
      BY <1>4, <1>7, <2>1, <2>3, <2>4, BeginLedger
  <1> QED
    BY <1>2, <1>5, <1>6, <1>7

LEMMA ContinueLedger ==
    ASSUME NEW s, TypedSession(s), NEW H, NEW D, NEW A, Ledger(s, H, D, A), NEW epoch
    PROVE  Ledger(CompleteAndContinue(s, epoch), H, D, A)
  <1> DEFINE c == CompleteResponse(s, epoch)
  <1>1. TypedSession(c) /\ SameMessages(s, c)
    BY CompleteResponseType, QuietOperations
  <1>2. CompleteAndContinue(s, epoch) \in {s, ProcessNextSessionWork(c)}
    BY DEF CompleteAndContinue
  <1> HIDE DEF c
  <1> QED
    BY <1>1, <1>2, SameLedger, ProcessNextLedger

LEMMA GiveBackLedger ==
    ASSUME NEW s, TypedSession(s), NEW H, NEW D, NEW A, Ledger(s, H, D, A), NEW r
    PROVE  Ledger(GiveBack(s, r), H, D, A)
  <1> DEFINE f == FinishGeneration(s, r)
             c == CompleteResponse(f, s.run[r].repoch)
  <1>1. TypedSession(f) /\ SameMessages(s, f)
    BY FinishGenerationType, QuietOperations
  <1>2. GiveBack(s, r) \in {s, ProcessNextSessionWork(c)}
    BY DEF GiveBack
  <1> HIDE DEF f
  <1>3. TypedSession(c) /\ SameMessages(f, c)
    BY <1>1, CompleteResponseType, QuietOperations
  <1> HIDE DEF c
  <1>4. Ledger(c, H, D, A)
    BY <1>1, <1>3, SameLedger
  <1> QED
    BY <1>2, <1>3, <1>4, ProcessNextLedger

LEMMA FlushLedger ==
    ASSUME NEW s, TypedSession(s), NEW H, NEW D, NEW A, Ledger(s, H, D, A)
    PROVE  Ledger(FlushSession(s), H, D, A)
  <1> DEFINE b == BeginGeneration(s)
             n == Len(b.run)
             e == EndRun(b, n)
  <1>1. TypedSession(b) /\ Ledger(b, H, D, A) /\ Len(b.run) = Len(s.run) + 1
    BY BeginGenerationType, BeginLedger
  <1>2. \/ FlushSession(s) = b
        \/ s.pending = <<>> /\ FlushSession(s) = GiveBack(e, n)
    BY DEF FlushSession
  <1>3. s.pending = <<>> => b.run[n].input = <<>>
    <2> DEFINE u == StartRun(s, "chat", s.pending, NoTrigger, <<>>)
               user == IF s.pending = <<>> THEN NoUser ELSE Sender[Head(s.pending)]
               none == <<>>
    <2>1. b = [u EXCEPT !.pending = none, !.waits = 0, !.target = user, !.phase = "planning"]
      BY DEF BeginGeneration
    <2>2. u \in Session
      <3>1. s.pending \in Seq(Msgs) /\ "chat" \in RunKinds /\ <<>> \in Seq(Events)
        BY FieldTypes DEF RunKinds
      <3> QED
        BY <3>1, StartRunType DEF TypedSession
    <2>3. Started(s, "chat", s.pending, u)
      BY StartRunStarts
    <2> HIDE DEF u, user, none, b
    <2>4. b.run = u.run
      BY <2>1, <2>2 DEF Session
    <2>5. n = Len(s.run) + 1
      BY <1>1
    <2> HIDE DEF n
    <2> QED
      BY <2>3, <2>4, <2>5 DEF Started
  <1> HIDE DEF b
  <1>4. n \in DOMAIN b.run
    BY <1>1, FieldTypes
  <1>5. TypedSession(e) /\ Ledger(e, H \cup Range(b.run[n].input), D, A)
    BY <1>1, <1>4, EndRunType, EndRunLedger
  <1>6. CASE s.pending = <<>> /\ FlushSession(s) = GiveBack(e, n)
    <2> HIDE DEF e, n
    <2>1. H \cup Range(b.run[n].input) = H
      BY <1>3, <1>6, EmptyBatch
    <2>2. Ledger(e, H, D, A)
      BY <1>5, <2>1
    <2> QED
      BY <1>5, <1>6, <2>2, GiveBackLedger
  <1> QED
    BY <1>1, <1>2, <1>6

LEMMA InterruptLedger ==
    ASSUME NEW s, TypedSession(s), NEW H, NEW D, NEW A, Ledger(s, H, D, A)
    PROVE  /\ Ledger(InterruptResponse(s), H, D, A)
           /\ Waiting(InterruptResponse(s)) = Waiting(s)
  <1> DEFINE p == PromoteSteer(s)
             c == CancelGeneration(p)
             a == AbortResponse(c)
             t == InterruptResponse(s)
             epoch == s.mutationEpoch + 1
  <1>1. TypedSession(p) /\ Ledger(p, H, D, A) /\ Waiting(p) = Waiting(s)
    <2>1. Visible(p) = Visible(s)
      BY PromoteSteerVisible
    <2> HIDE DEF p
    <2>2. Waiting(p) = Waiting(s)
      BY <2>1 DEF Visible
    <2> QED
      BY <2>2, PromoteSteerType, PromoteSteerLedger DEF p
  <1>2. t = [a EXCEPT !.mutationEpoch = epoch, !.phase = "idle", !.target = NoUser]
    BY DEF InterruptResponse
  <1> HIDE DEF p
  <1>3. TypedSession(c) /\ SameMessages(p, c)
    BY <1>1, CancelGenerationType, CancelSame
  <1> HIDE DEF c
  <1>4. TypedSession(a) /\ SameMessages(c, a)
    BY <1>3, AbortResponseType, AbortResponseSame
  <1> HIDE DEF a, t, epoch
  <1>5. SameMessages(a, t)
    BY <1>2, <1>4, FieldTypes DEF Session, SameMessages
  <1>6. SameMessages(p, t)
    BY <1>3, <1>4, <1>5, SameMessagesCompose
  <1>7. Ledger(t, H, D, A)
    BY <1>1, <1>6, SameLedger
  <1>8. Waiting(t) = Waiting(p)
    BY <1>6 DEF Waiting, SameMessages
  <1> QED
    BY <1>1, <1>7, <1>8 DEF t

LEMMA AbortAllSame ==
    ASSUME NEW s, TypedSession(s)
    PROVE  SameMessages(s, AbortAllControllers(s))
  <1> DEFINE g == IF s.genCtl # 0 THEN [s EXCEPT !.run[s.genCtl].genAb = TRUE] ELSE s
             x == [s.run[s.genCtl] EXCEPT !.genAb = TRUE]
  <1>1. CASE s.genCtl # 0
    <2>1. s.genCtl \in DOMAIN s.run /\ s.run[s.genCtl] \in Run
      BY <1>1, FieldTypes
    <2>2. x \in Run /\ x.input = s.run[s.genCtl].input
      BY <2>1 DEF Run
    <2>3. g = WithRun(s, s.genCtl, x)
      BY <1>1, <2>1, FieldTypes DEF WithRun, Session
    <2> HIDE DEF x, g
    <2>4. TypedSession(g) /\ SameMessages(s, g)
      BY <2>1, <2>2, <2>3, WithRunType, WithRunSame
    <2>5. SameMessages(g, AbortResponse(g))
      BY <2>4, AbortResponseSame
    <2> QED
      BY <2>4, <2>5, SameMessagesCompose DEF AbortAllControllers, g
  <1>2. CASE s.genCtl = 0
    BY <1>2, AbortResponseSame DEF AbortAllControllers
  <1> QED
    BY <1>1, <1>2, FieldTypes

LEMMA ClearLedger ==
    ASSUME NEW s, TypedSession(s), NEW H, NEW D, NEW A, Ledger(s, H, D, A)
    PROVE  /\ Ledger(ClearSession(CancelGeneration(s)), H, D \cup Waiting(s), A)
           /\ Ledger(FinishProfileOperation(s), H, D \cup Waiting(s), A)
  <1> DEFINE g == CancelGeneration(s)
             c == ClearTimer(g)
             a == AbortAllControllers(c)
             none == <<>>
             t == ClearSession(g)
             f == FinishProfileOperation(s)
             e == s.mutationEpoch + 1
  <1>1. TypedSession(g) /\ SameMessages(s, g)
    BY CancelGenerationType, CancelSame
  <1>2. t = [a EXCEPT !.mutationEpoch = g.mutationEpoch + 1, !.pending = none,
                      !.steer = none, !.queued = none, !.waits = 0, !.target = NoUser,
                      !.triggers = none, !.inlines = none, !.phase = "idle",
                      !.genCtl = 0, !.respCtl = 0, !.outCtl = "none"]
    BY DEF ClearSession
  <1> HIDE DEF g
  <1>3. TypedSession(c) /\ SameMessages(g, c)
    BY <1>1, ClearTimerType, QuietOperations
  <1> HIDE DEF c
  <1>4. TypedSession(a) /\ SameMessages(c, a)
    BY <1>3, AbortAllType, AbortAllSame
  <1> HIDE DEF a
  <1>5. SameMessages(s, a)
    BY <1>1, <1>3, <1>4, SameMessagesCompose
  <1>6. f = [s EXCEPT !.mutationEpoch = e, !.pending = none, !.steer = none,
                      !.queued = none, !.waits = 0, !.target = NoUser,
                      !.triggers = none, !.inlines = none, !.phase = "idle"]
    BY DEF FinishProfileOperation
  <1> HIDE DEF t, none, f, e
  <1>7. t.pending = none /\ t.steer = none /\ t.queued = none /\ t.run = a.run
    BY <1>2, <1>4, FieldTypes DEF Session
  <1>8. f.pending = none /\ f.steer = none /\ f.queued = none /\ f.run = s.run
    BY <1>6, FieldTypes DEF Session
  <1>9. Ledger(t, H, D \cup Waiting(s), A)
    BY <1>5, <1>7, EmptiedLedger DEF SameMessages, none
  <1>10. Ledger(f, H, D \cup Waiting(s), A)
    BY <1>8, EmptiedLedger DEF none
  <1> QED
    BY <1>9, <1>10 DEF t, f, g

-----------------------------------------------------------------------------
(* The ledger of the session, step by step.                                *)

LedgerInv == Ledger(session, handled, dropped, Range(arrived))

LEMMA RangeAppend ==
    ASSUME NEW arr \in Seq(Msgs), NEW m \in Msgs
    PROVE  Range(Append(arr, m)) = Range(arr) \cup {m}
  <1> DEFINE a == Append(arr, m)
             n == Len(arr)
  <1>1. /\ n \in Nat /\ DOMAIN arr = 1 .. n /\ DOMAIN a = 1 .. (n + 1)
        /\ a[n + 1] = m /\ \A i \in 1 .. n : a[i] = arr[i]
    OBVIOUS
  <1> HIDE DEF a, n
  <1>2. \A i \in DOMAIN a : i = n + 1 \/ i \in DOMAIN arr
    BY <1>1
  <1>3. n + 1 \in DOMAIN a /\ DOMAIN arr \subseteq DOMAIN a
    BY <1>1
  <1> QED
    BY <1>1, <1>2, <1>3 DEF Range, a

LEMMA AdmitLedger ==
    ASSUME TypeOK, QueueInv, LedgerInv, Admit
    PROVE  LedgerInv'
  <1> DEFINE m == Head(admitting).msg
             s == session
             H == handled
             D == dropped
             A == Range(arrived)
             B == A \cup {m}
  <1>1. /\ TypedSession(s) /\ m \in Msgs /\ arrived \in Seq(Msgs)
        /\ session' \in {QueueForNextThread(m), ReplyNow(m), InterruptWith(m), SteerWith(m)}
    BY AdmitCases DEF TypeOK
  <1>2. m \notin A /\ Ledger(s, H, D, A)
    <2>1. admitting # <<>> /\ admitting \in Seq([msg : Msgs, decision : DecisionNames])
      BY DEF TypeOK, Admit
    <2>2. 1 \in DOMAIN admitting /\ Head(admitting) = admitting[1]
      BY <2>1
    <2> QED
      BY <2>2 DEF QueueInv, LedgerInv
  <1>3. handled' = H /\ dropped' = D /\ Range(arrived') = B
    <2>1. handled' = H /\ dropped' = D /\ arrived' = Append(arrived, m)
      BY DEF Admit
    <2> QED
      BY <1>1, <2>1, RangeAppend
  <1>4. \A i, k \in DOMAIN s.queued :
           Sender[Head(s.queued[i])] = Sender[Head(s.queued[k])] => i = k
    BY DEF QueueInv, GoodQueue
  <1> HIDE DEF m, A
  <1> SUFFICES Ledger(session', H, D, B)
    BY <1>3 DEF LedgerInv
  <1>5. CASE session' = QueueForNextThread(m)
    <2> DEFINE e == EnqueueGroupReplyTarget(s, m)
               p == PromoteNextTarget(e)
    <2>1. TypedSession(e) /\ Ledger(e, H, D, B)
      BY <1>1, <1>2, <1>4, EnqueueType, EnqueueLedger
    <2>2. session' \in {e, Schedule(p)}
      BY <1>5 DEF QueueForNextThread
    <2> HIDE DEF e
    <2>3. TypedSession(p) /\ Ledger(p, H, D, B)
      BY <2>1, PromoteNextType, PromoteNextLedger
    <2> HIDE DEF p
    <2>4. SameMessages(p, Schedule(p))
      BY <2>3, QuietOperations
    <2> QED
      BY <2>1, <2>2, <2>3, <2>4, SameLedger
  <1>6. CASE session' = ReplyNow(m)
    <2> DEFINE p == AppendPending(s, m)
    <2>1. TypedSession(p) /\ Ledger(p, H, D, B)
      BY <1>1, <1>2, AppendPendingType, AppendedLedger
    <2>2. session' \in {p, Schedule(p)}
      BY <1>6 DEF ReplyNow
    <2> HIDE DEF p
    <2>3. SameMessages(p, Schedule(p))
      BY <2>1, QuietOperations
    <2> QED
      BY <2>1, <2>2, <2>3, SameLedger
  <1>7. CASE session' = InterruptWith(m)
    <2> DEFINE i == InterruptResponse(s)
               p == AppendPending(i, m)
    <2>1. TypedSession(i) /\ Ledger(i, H, D, A)
      BY <1>1, <1>2, InterruptResponseType, InterruptLedger
    <2>2. session' = Schedule(p)
      BY <1>7 DEF InterruptWith
    <2> HIDE DEF i
    <2>3. TypedSession(p) /\ Ledger(p, H, D, B)
      BY <1>1, <1>2, <2>1, AppendPendingType, AppendedLedger
    <2> HIDE DEF p
    <2>4. SameMessages(p, Schedule(p))
      BY <2>3, QuietOperations
    <2> QED
      BY <2>2, <2>3, <2>4, SameLedger
  <1>8. CASE session' = SteerWith(m)
    <2> DEFINE o == InterruptOutbound(s)
    <2>1. TypedSession(o) /\ SameMessages(s, o)
      BY <1>1, InterruptOutboundType, QuietOperations
    <2>2. session' \in {AppendSteer(o, m), AppendPending(o, m)}
      BY <1>8 DEF SteerWith
    <2> HIDE DEF o
    <2>3. Ledger(o, H, D, A)
      BY <1>2, <2>1, SameLedger
    <2> QED
      BY <1>1, <1>2, <2>1, <2>2, <2>3, AppendedLedger
  <1> QED
    BY <1>1, <1>5, <1>6, <1>7, <1>8

LEMMA TimerAndDispatchLedger ==
    ASSUME TypeOK, LedgerInv,
           \/ DebounceFire
           \/ \E t \in Triggers : DispatchScheduled(t)
           \/ \E e \in Events : DispatchEvent(e)
    PROVE  LedgerInv'
  <1> DEFINE H == handled
             D == dropped
             A == Range(arrived)
  <1>0. TypedSession(session) /\ session \in Session /\ Ledger(session, H, D, A)
    BY FieldTypes DEF TypeOK, LedgerInv
  <1>1. handled' = handled /\ dropped' = dropped /\ arrived' = arrived
    BY DEF DebounceFire, DispatchScheduled, DispatchEvent
  <1> SUFFICES Ledger(session', H, D, A)
    BY <1>1 DEF LedgerInv
  <1> HIDE DEF A
  <1>2. CASE DebounceFire
    <2> DEFINE c == ClearTimer(session)
    <2>1. TypedSession(c) /\ session' = FlushSession(c) /\ SameMessages(session, c)
      BY <1>0, <1>2, ClearTimerType, QuietOperations DEF DebounceFire
    <2> HIDE DEF c
    <2> QED
      BY <1>0, <2>1, SameLedger, FlushLedger
  <1>3. ASSUME NEW t \in Triggers, DispatchScheduled(t)
        PROVE  Ledger(session', H, D, A)
    <2> DEFINE q == Append(session.triggers, t)
               u == [session EXCEPT !.triggers = q]
               b == BeginSyntheticGeneration(session, "trigger", t, <<>>)
    <2>1. session' \in {u, b}
      BY <1>3 DEF DispatchScheduled
    <2>2. SameMessages(session, u)
      <3> HIDE DEF q
      <3> QED
        BY <1>0 DEF Session, SameMessages
    <2>3. Ledger(b, H, D, A)
      <3>1. "trigger" \in RunKinds /\ t \in Triggers \cup {NoTrigger} /\ <<>> \in Seq(Events)
        BY DEF RunKinds
      <3> QED
        BY <1>0, <3>1, BeginLedger
    <2> HIDE DEF u, b
    <2> QED
      BY <1>0, <2>1, <2>2, <2>3, SameLedger
  <1>4. ASSUME NEW e \in Events, DispatchEvent(e)
        PROVE  Ledger(session', H, D, A)
    <2> DEFINE q == Append(session.inlines, e)
               u == [session EXCEPT !.inlines = q]
    <2>1. session' \in {u, ProcessNextSessionWork(u)}
      BY <1>4 DEF DispatchEvent
    <2>2. q \in Seq(Events)
      BY <1>0, FieldTypes
    <2>3. /\ u \in Session /\ SameMessages(session, u) /\ u.run = session.run
          /\ u.genCtl = session.genCtl /\ u.respCtl = session.respCtl
      <3> HIDE DEF q
      <3> QED
        BY <1>0, <2>2 DEF Session, SameMessages
    <2> HIDE DEF u
    <2>4. TypedSession(u) /\ Ledger(u, H, D, A)
      BY <1>0, <2>3, SameLedger DEF TypedSession
    <2> QED
      BY <2>1, <2>4, ProcessNextLedger
  <1> QED
    BY <1>2, <1>3, <1>4

LEMMA CommandLedger ==
    ASSUME TypeOK, LedgerInv, CommandStep
    PROVE  LedgerInv'
  <1> DEFINE s == session
             H == handled
             D == dropped
             A == Range(arrived)
             W == Waiting(session)
  <1>0. TypedSession(s) /\ arrived \in Seq(Msgs) /\ Ledger(s, H, D, A)
    BY DEF TypeOK, LedgerInv
  <1>1. CASE StopCommand
    <2>1. /\ session' = CancelGeneration(s)
          /\ handled' = H /\ dropped' = D /\ arrived' = arrived
      BY <1>1 DEF StopCommand, Execute
    <2>2. Ledger(session', H, D, A)
      BY <1>0, <2>1, CancelSame, SameLedger
    <2> QED
      BY <2>1, <2>2 DEF LedgerInv
  <1>2. ASSUME NEW name \in {"skill", "config"}, InterruptCommand(name)
        PROVE  LedgerInv'
    <2>1. /\ session' = InterruptResponse(s)
          /\ handled' = H /\ dropped' = D /\ arrived' = arrived
      BY <1>2 DEF InterruptCommand, Execute
    <2>2. Ledger(session', H, D, A)
      BY <1>0, <2>1, InterruptLedger
    <2> QED
      BY <2>1, <2>2 DEF LedgerInv
  <1>3. ASSUME NEW name \in {"clear", "reset"}, ClearCommand(name)
        PROVE  LedgerInv'
    <2>1. /\ session' = ClearSession(CancelGeneration(s))
          /\ handled' = H /\ dropped' = D \cup W /\ arrived' = arrived
      BY <1>3 DEF ClearCommand, Execute
    <2>2. Ledger(session', H, D \cup W, A)
      BY <1>0, <2>1, ClearLedger
    <2> QED
      BY <2>1, <2>2 DEF LedgerInv
  <1>4. CASE ConfirmCommand
    <2> DEFINE i == InterruptResponse(s)
    <2>1. /\ session' = FinishProfileOperation(i)
          /\ handled' = H /\ dropped' = D \cup W /\ arrived' = arrived
      BY <1>4 DEF ConfirmCommand, Execute
    <2>2. TypedSession(i) /\ Ledger(i, H, D, A) /\ Waiting(i) = W
      BY <1>0, InterruptResponseType, InterruptLedger
    <2> HIDE DEF i, W
    <2>3. Ledger(session', H, D \cup W, A)
      BY <2>1, <2>2, ClearLedger
    <2> QED
      BY <2>1, <2>3 DEF LedgerInv
  <1>5. ASSUME NEW m \in Msgs, FlushCommand(m) \/ Introduce(m), arrived' # arrived
        PROVE  LedgerInv'
    <2> DEFINE p == AppendPending(s, m)
               B == A \cup {m}
    <2>1. /\ session' = FlushSession(p) /\ arrived' = Append(arrived, m)
          /\ handled' = H /\ dropped' = D /\ m \notin A
      BY <1>5 DEF FlushCommand, Introduce, Execute, Known
    <2>2. Range(arrived') = B
      BY <1>0, <2>1, RangeAppend
    <2>3. TypedSession(p) /\ Ledger(p, H, D, B)
      BY <1>0, <2>1, AppendPendingType, AppendedLedger
    <2> HIDE DEF p, B
    <2>4. Ledger(session', H, D, B)
      BY <2>1, <2>3, FlushLedger
    <2> QED
      BY <2>1, <2>2, <2>4 DEF LedgerInv
  <1>6. ASSUME NEW m \in Msgs, FlushCommand(m) \/ Introduce(m), arrived' = arrived
        PROVE  LedgerInv'
    <2>1. Append(arrived, m) # arrived
      <3>1. Len(Append(arrived, m)) # Len(arrived)
        BY <1>0
      <3> QED
        BY <3>1
    <2>2. /\ session' = session /\ admitting' = admitting
          /\ handled' = handled /\ dropped' = dropped
      BY <1>6, <2>1 DEF FlushCommand, Introduce, Execute
    <2> QED
      BY <1>6, <2>2 DEF LedgerInv
  <1> QED
    BY <1>1, <1>2, <1>3, <1>4, <1>5, <1>6 DEF CommandStep

LEMMA RunStepLedger ==
    ASSUME TypeOK, LedgerInv, NEW r \in DOMAIN session.run, RunStep(r)
    PROVE  LedgerInv'
  <1> DEFINE s == session
             e == EndRun(s, r)
             H == handled
             D == dropped
             A == Range(arrived)
             K == H \cup Range(s.run[r].input)
             W == Waiting(session)
  <1>0. TypedSession(s) /\ s \in Session /\ s.run[r] \in Run /\ s.run \in Seq(Run)
        /\ Ledger(s, H, D, A)
    BY FieldTypes DEF TypeOK, LedgerInv
  <1>1. arrived' = arrived
    BY DEF RunStep, PrepContinue, PrepSkip, PrepFail, PrepWait, ExecPhase, ExecConsumeSteer,
       ExecConsumeEvents, ExecSuperseded, ExecEnd, SetupChecked, DrainEnd, CloseEnd, Ended,
       Resumed
  <1>2. TypedSession(e) /\ Ledger(e, K, D, A)
    BY <1>0, EndRunType, EndRunLedger
  <1>3. ASSUME handled' = H, dropped' = D, Ledger(session', H, D, A) PROVE LedgerInv'
    BY <1>1, <1>3 DEF LedgerInv
  <1>4. ASSUME handled' = K, dropped' = D, Ledger(session', K, D, A) PROVE LedgerInv'
    BY <1>1, <1>4 DEF LedgerInv
  <1>5. ASSUME handled' = H, dropped' = D \cup W, Ledger(session', H, D \cup W, A)
        PROVE  LedgerInv'
    BY <1>1, <1>5 DEF LedgerInv
  <1> HIDE DEF e, K, A, W
  <1>6. CASE PrepContinue(r) \/ ExecSuperseded(r)
    <2>1. /\ session' \in {[s EXCEPT !.run[r].stage = "exec"],
                           [s EXCEPT !.run[r].genAb = TRUE, !.run[r].respAb = TRUE]}
          /\ handled' = H /\ dropped' = D
      BY <1>6 DEF PrepContinue, ExecSuperseded, Resumed
    <2>2. SameMessages(s, [s EXCEPT !.run[r].stage = "exec"])
          /\ SameMessages(s, [s EXCEPT !.run[r].genAb = TRUE, !.run[r].respAb = TRUE])
      BY <1>0, StageSame, AbortedSame
    <2>3. SameMessages(s, session')
      BY <2>1, <2>2
    <2>4. Ledger(session', H, D, A)
      BY <1>0, <2>3, SameLedger
    <2> QED
      BY <1>3, <2>1, <2>4
  <1>7. CASE PrepSkip(r) \/ PrepFail(r)
    <2>1. session' = GiveBack(e, r) /\ handled' = K /\ dropped' = D
      BY <1>7 DEF PrepSkip, PrepFail, Ended, e, K
    <2>2. Ledger(session', K, D, A)
      BY <1>2, <2>1, GiveBackLedger
    <2> QED
      BY <1>4, <2>1, <2>2
  <1>8. CASE PrepWait(r)
    <2> DEFINE batch == s.run[r].input
               passes == s.run[r].waits + 1
               q == RequeuePending(s, batch, passes)
               t == Schedule(q)
               x == EndRun(t, r)
               done == Released(t.run[r])
    <2>1. batch \in Seq(Msgs) /\ passes \in Nat
      <3>1. s.run[r].input \in Seq(Msgs) /\ s.run[r].waits \in Nat
        BY <1>0 DEF Run
      <3> QED
        BY <3>1
    <2>2. q.pending = batch \o s.pending /\ q.steer = s.steer /\ q.queued = s.queued
      <3> HIDE DEF passes
      <3> QED
        BY <1>0 DEF RequeuePending, Session
    <2>3. TypedSession(q) /\ q.run = s.run
      BY <1>0, <2>1, RequeueType
    <2>4. session' = GiveBack(x, r) /\ handled' = H /\ dropped' = D
      BY <1>8 DEF PrepWait, Resumed
    <2> HIDE DEF q
    <2>5. TypedSession(t) /\ t.run = s.run /\ SameMessages(q, t)
      BY <2>3, ScheduleType, QuietOperations
    <2> HIDE DEF t
    <2>6. TypedSession(x) /\ x.pending = t.pending /\ x.steer = t.steer
          /\ x.queued = t.queued /\ x.run = [t.run EXCEPT ![r] = done]
      BY <2>5, EndRunType, EndRunFields
    <2>7. done.input = <<>>
      BY DEF Released
    <2> HIDE DEF x, done
    <2>8. /\ x.pending = batch \o s.pending /\ x.steer = s.steer /\ x.queued = s.queued
      BY <2>2, <2>5, <2>6 DEF SameMessages
    <2>9. /\ DOMAIN x.run = DOMAIN s.run /\ x.run[r].input = <<>>
          /\ \A i \in DOMAIN s.run : i # r => x.run[i].input = s.run[i].input
      BY <1>0, <2>5, <2>6, <2>7
    <2>10. Ledger(x, H, D, A)
      BY <1>0, <2>8, <2>9, RequeuedLedger
    <2>11. Ledger(session', H, D, A)
      BY <2>4, <2>6, <2>10, GiveBackLedger
    <2> QED
      BY <1>3, <2>4, <2>11
  <1>9. ASSUME NEW phase \in {"requesting", "generating"}, ExecPhase(r, phase)
        PROVE  LedgerInv'
    <2>1. session' = [s EXCEPT !.phase = phase] /\ handled' = H /\ dropped' = D
      BY <1>9 DEF ExecPhase, Resumed
    <2>2. Ledger(session', H, D, A)
      BY <1>0, <2>1, QuietOperations, SameLedger
    <2> QED
      BY <1>3, <2>1, <2>2
  <1>10. CASE ExecConsumeSteer(r)
    <2>1. session' = ConsumeSteer(s, r) /\ handled' = H /\ dropped' = D
      BY <1>10 DEF ExecConsumeSteer, Resumed
    <2>2. Ledger(session', H, D, A)
      BY <1>0, <2>1, ConsumeLedger
    <2> QED
      BY <1>3, <2>1, <2>2
  <1>11. CASE ExecConsumeEvents(r)
    <2> DEFINE d == DrainInlines(s, r)
               in == s.run[r].events \o s.inlines
               none == <<>>
               x == [s.run[r] EXCEPT !.events = in]
               u == [s EXCEPT !.inlines = none]
    <2>1. session' = d /\ handled' = H /\ dropped' = D
      BY <1>11 DEF ExecConsumeEvents, Resumed
    <2>2. d = [s EXCEPT !.inlines = none, !.run = [s.run EXCEPT ![r] = x]]
      BY <1>0 DEF DrainInlines, Session
    <2>3. x.input = s.run[r].input
      BY <1>0 DEF Run
    <2> HIDE DEF d, in, none, x
    <2>4. /\ d.pending = s.pending /\ d.steer = s.steer /\ d.queued = s.queued
          /\ d.run = [s.run EXCEPT ![r] = x]
      BY <1>0, <2>2 DEF Session
    <2>5. SameMessages(s, d)
      BY <1>0, <2>3, <2>4 DEF SameMessages
    <2> QED
      BY <1>0, <1>3, <2>1, <2>5, SameLedger
  <1>12. CASE ExecEnd(r)
    <2> DEFINE g == FinishGeneration(s, r)
               f == [g EXCEPT !.run[r].fin = s.genCtl = r]
               own == s.genCtl = r
    <2>1. TypedSession(g) /\ g.run = s.run /\ SameMessages(s, g)
      BY <1>0, FinishGenerationType, QuietOperations
    <2>2. /\ session' = AfterFinish(f, r) \/ session' = [f EXCEPT !.run[r].stage = "setup"]
          /\ handled' = H /\ dropped' = D
      BY <1>12 DEF ExecEnd, Resumed
    <2>3. own \in BOOLEAN
      OBVIOUS
    <2>4. f = [g EXCEPT !.run[r].fin = own]
      OBVIOUS
    <2> HIDE DEF g, own
    <2>5. r \in DOMAIN g.run
      BY <2>1
    <2>6. TypedSession(f) /\ DOMAIN f.run = DOMAIN g.run /\ SameMessages(g, f)
      BY <2>1, <2>3, <2>4, <2>5, FinishedType, FinishedSame
    <2> HIDE DEF f
    <2>7. \E stage : session' = [f EXCEPT !.run[r].stage = stage]
      BY <2>2 DEF AfterFinish
    <2>8. SameMessages(f, session')
      BY <2>5, <2>6, <2>7, StageSame
    <2>9. SameMessages(s, session')
      BY <2>1, <2>6, <2>8, SameMessagesCompose
    <2>10. Ledger(session', H, D, A)
      BY <1>0, <2>9, SameLedger
    <2> QED
      BY <1>3, <2>2, <2>10
  <1>13. CASE SetupChecked(r)
    <2> DEFINE f == FinishProfileOperation(s)
    <2>1. \/ /\ \E stage : session' = [s EXCEPT !.run[r].stage = stage]
             /\ handled' = H /\ dropped' = D
          \/ /\ \E stage : session' = [f EXCEPT !.run[r].stage = stage]
             /\ handled' = H /\ dropped' = D \cup W
      BY <1>13 DEF SetupChecked, Resumed, AfterFinish, W
    <2>2. TypedSession(f) /\ f.run = s.run /\ Ledger(f, H, D \cup W, A)
      BY <1>0, FinishProfileType, ClearLedger DEF W
    <2> HIDE DEF f
    <2>3. CASE /\ \E stage : session' = [s EXCEPT !.run[r].stage = stage]
               /\ handled' = H /\ dropped' = D
      <3>1. PICK stage : session' = [s EXCEPT !.run[r].stage = stage]
        BY <2>3
      <3>2. SameMessages(s, session')
        BY <1>0, <3>1, StageSame
      <3>3. Ledger(session', H, D, A)
        BY <1>0, <3>2, SameLedger
      <3> QED
        BY <1>3, <2>3, <3>3
    <2>4. CASE /\ \E stage : session' = [f EXCEPT !.run[r].stage = stage]
               /\ handled' = H /\ dropped' = D \cup W
      <3>1. PICK stage : session' = [f EXCEPT !.run[r].stage = stage]
        BY <2>4
      <3>2. SameMessages(f, session')
        BY <1>0, <2>2, <3>1, StageSame
      <3>3. Ledger(session', H, D \cup W, A)
        BY <2>2, <3>2, SameLedger
      <3> QED
        BY <1>5, <2>4, <3>3
    <2> QED
      BY <2>1, <2>3, <2>4
  <1>14. CASE DrainEnd(r)
    <2> DEFINE p == PromoteSteer(e)
    <2>1. TypedSession(p) /\ Ledger(p, K, D, A)
      BY <1>2, PromoteSteerType, PromoteSteerLedger
    <2>2. /\ session' = CompleteAndContinue(p, s.run[r].repoch)
          /\ handled' = K /\ dropped' = D
      BY <1>14 DEF DrainEnd, Ended, e, K
    <2> HIDE DEF p
    <2>3. Ledger(session', K, D, A)
      BY <2>1, <2>2, ContinueLedger
    <2> QED
      BY <1>4, <2>2, <2>3
  <1>15. CASE CloseEnd(r)
    <2>1. /\ session' \in {e, CompleteAndContinue(e, s.run[r].repoch)}
          /\ handled' = K /\ dropped' = D
      BY <1>15 DEF CloseEnd, Ended, e, K
    <2>2. Ledger(session', K, D, A)
      BY <1>2, <2>1, ContinueLedger
    <2> QED
      BY <1>4, <2>1, <2>2
  <1> QED
    BY <1>6, <1>7, <1>8, <1>9, <1>10, <1>11, <1>12, <1>13, <1>14, <1>15 DEF RunStep

-----------------------------------------------------------------------------
(* The ledger, counted.                                                    *)

LEMMA OneIndex ==
    ASSUME NEW q, NEW x
    PROVE  /\ x \notin Range(q) => {j \in DOMAIN q : q[j] = x} = {}
           /\ Injective(q) /\ x \in Range(q) =>
                \E k : {j \in DOMAIN q : q[j] = x} = {k}
  <1>1. ASSUME x \notin Range(q) PROVE {j \in DOMAIN q : q[j] = x} = {}
    BY <1>1 DEF Range
  <1>2. ASSUME Injective(q), x \in Range(q)
        PROVE  \E k : {j \in DOMAIN q : q[j] = x} = {k}
    <2>1. PICK k \in DOMAIN q : q[k] = x
      BY <1>2 DEF Range
    <2>2. {j \in DOMAIN q : q[j] = x} = {k}
      BY <1>2, <2>1 DEF Injective
    <2> QED
      BY <2>2
  <1> QED
    BY <1>1, <1>2

(* The places of one batch of a family of batches f. *)
Spots(tag, f, x) == UNION {{<<tag, i, k>> : k \in {j \in DOMAIN f[i] : f[i][j] = x}}
                           : i \in DOMAIN f}

LEMMA SpotsOfFamily ==
    ASSUME NEW tag, NEW f, NEW x, \A i \in DOMAIN f : Injective(f[i]),
           \A i, k \in DOMAIN f : x \in Range(f[i]) /\ x \in Range(f[k]) => i = k
    PROVE  /\ (\A i \in DOMAIN f : x \notin Range(f[i])) => Spots(tag, f, x) = {}
           /\ (\E i \in DOMAIN f : x \in Range(f[i])) => \E e : Spots(tag, f, x) = {e}
  <1> DEFINE At1(i) == {j \in DOMAIN f[i] : f[i][j] = x}
             Set(i) == {<<tag, i, k>> : k \in At1(i)}
  <1>1. Spots(tag, f, x) = UNION {Set(i) : i \in DOMAIN f}
    BY DEF Spots
  <1>2. \A i \in DOMAIN f : x \notin Range(f[i]) => At1(i) = {}
    BY OneIndex
  <1>3. \A i \in DOMAIN f : x \in Range(f[i]) => \E k : At1(i) = {k}
    BY OneIndex
  <1> HIDE DEF At1
  <1>4. \A i \in DOMAIN f : x \notin Range(f[i]) => Set(i) = {}
    BY <1>2
  <1>5. ASSUME NEW i \in DOMAIN f, x \in Range(f[i]) PROVE \E e : Set(i) = {e}
    <2>1. PICK k : At1(i) = {k}
      BY <1>3, <1>5
    <2>2. Set(i) = {<<tag, i, k>>}
      BY <2>1
    <2> QED
      BY <2>2
  <1> HIDE DEF Set
  <1>6. ASSUME \A i \in DOMAIN f : x \notin Range(f[i]) PROVE Spots(tag, f, x) = {}
    BY <1>1, <1>4, <1>6
  <1>7. ASSUME NEW i \in DOMAIN f, x \in Range(f[i]) PROVE \E e : Spots(tag, f, x) = {e}
    <2>1. \A k \in DOMAIN f : k # i => Set(k) = {}
      BY <1>4, <1>7
    <2>2. \A e : e \in UNION {Set(k) : k \in DOMAIN f} <=> \E k \in DOMAIN f : e \in Set(k)
      OBVIOUS
    <2>3. UNION {Set(k) : k \in DOMAIN f} = Set(i)
      BY <2>1, <2>2
    <2> QED
      BY <1>1, <1>5, <1>7, <2>3
  <1> QED
    BY <1>6, <1>7

LEMMA LedgerCounts ==
    ASSUME LedgerInv, NEW m \in Msgs
    PROVE  Cardinality(Places(m)) = IF m \in Range(arrived) THEN 1 ELSE 0
  <1> DEFINE s == session
             A == Range(arrived)
             inputs == [r \in DOMAIN session.run |-> session.run[r].input]
             p1 == {j \in DOMAIN session.pending : session.pending[j] = m}
             p2 == {j \in DOMAIN session.steer : session.steer[j] = m}
             P1 == {<<"pending", i>> : i \in p1}
             P2 == {<<"steer", i>> : i \in p2}
             P3 == UNION {{<<"queued", i, k>> : k \in {j \in DOMAIN session.queued[i] :
                                              session.queued[i][j] = m}}
                          : i \in DOMAIN session.queued}
             T(r) == {<<"run", r, k>> : k \in {j \in DOMAIN session.run[r].input :
                                           session.run[r].input[j] = m}}
             P4 == UNION {T(r) : r \in DOMAIN session.run}
             P5 == {<<"handled">> : x \in handled \cap {m}}
             P6 == {<<"dropped">> : x \in dropped \cap {m}}
             P == Places(m)
  <1>1. OnePlace(s, handled, dropped, A, m) /\ NoRepeats(s)
    BY DEF LedgerInv, Ledger
  <1>2. P = P1 \cup P2 \cup P3 \cup P4 \cup P5 \cup P6
    BY DEF Places
  <1>3. /\ ~InPending(s, m) => P1 = {}
        /\ InPending(s, m) => \E e : P1 = {e}
    <2>1. /\ ~InPending(s, m) => p1 = {}
          /\ InPending(s, m) => \E k : p1 = {k}
      BY <1>1, OneIndex DEF InPending, NoRepeats
    <2> HIDE DEF p1
    <2>2. ASSUME NEW k, p1 = {k} PROVE P1 = {<<"pending", k>>}
      BY <2>2
    <2>3. p1 = {} => P1 = {}
      OBVIOUS
    <2> QED
      BY <2>1, <2>2, <2>3
  <1>4. /\ ~InSteer(s, m) => P2 = {}
        /\ InSteer(s, m) => \E e : P2 = {e}
    <2>1. /\ ~InSteer(s, m) => p2 = {}
          /\ InSteer(s, m) => \E k : p2 = {k}
      BY <1>1, OneIndex DEF InSteer, NoRepeats
    <2> HIDE DEF p2
    <2>2. ASSUME NEW k, p2 = {k} PROVE P2 = {<<"steer", k>>}
      BY <2>2
    <2>3. p2 = {} => P2 = {}
      OBVIOUS
    <2> QED
      BY <2>1, <2>2, <2>3
  <1>5. /\ ~InQueue(s, m) => P3 = {}
        /\ InQueue(s, m) => \E e : P3 = {e}
    <2>1. P3 = Spots("queued", session.queued, m)
      BY DEF Spots
    <2> HIDE DEF P3
    <2> QED
      BY <1>1, <2>1, SpotsOfFamily DEF OnePlace, NoRepeats, InQueue, InEntry
  <1>6. /\ ~InSomeRun(s, m) => P4 = {}
        /\ InSomeRun(s, m) => \E e : P4 = {e}
    <2>1. DOMAIN inputs = DOMAIN s.run /\ \A r \in DOMAIN s.run : inputs[r] = s.run[r].input
      OBVIOUS
    <2> DEFINE S(r) == {<<"run", r, k>> : k \in {j \in DOMAIN inputs[r] : inputs[r][j] = m}}
    <2>4. Spots("run", inputs, m) = UNION {S(r) : r \in DOMAIN inputs}
      BY DEF Spots
    <2> HIDE DEF inputs
    <2>5. \A r \in DOMAIN s.run : S(r) = T(r)
      BY <2>1
    <2> HIDE DEF S, T
    <2>6. P4 = Spots("run", inputs, m)
      BY <2>1, <2>4, <2>5
    <2> HIDE DEF P4
    <2>2. /\ \A i \in DOMAIN inputs : Injective(inputs[i])
          /\ \A i, k \in DOMAIN inputs : m \in Range(inputs[i]) /\ m \in Range(inputs[k]) => i = k
      BY <1>1, <2>1 DEF OnePlace, NoRepeats, InRun
    <2>3. InSomeRun(s, m) <=> \E i \in DOMAIN inputs : m \in Range(inputs[i])
      BY <2>1 DEF InSomeRun, InRun
    <2> QED
      BY <2>2, <2>3, <2>6, SpotsOfFamily
  <1>7. P5 = (IF m \in handled THEN {<<"handled">>} ELSE {})
    OBVIOUS
  <1>8. P6 = (IF m \in dropped THEN {<<"dropped">>} ELSE {})
    OBVIOUS
  <1> HIDE DEF p1, p2, T, P1, P2, P3, P4, P5, P6, P, A
  <1>9. ASSUME m \in A PROVE \E e : P = {e}
    <2>1. CASE InPending(s, m)
      BY <1>1, <1>2, <1>3, <1>4, <1>5, <1>6, <1>7, <1>8, <2>1 DEF OnePlace
    <2>2. CASE InSteer(s, m)
      BY <1>1, <1>2, <1>3, <1>4, <1>5, <1>6, <1>7, <1>8, <2>2 DEF OnePlace
    <2>3. CASE InQueue(s, m)
      BY <1>1, <1>2, <1>3, <1>4, <1>5, <1>6, <1>7, <1>8, <2>3 DEF OnePlace
    <2>4. CASE InSomeRun(s, m)
      BY <1>1, <1>2, <1>3, <1>4, <1>5, <1>6, <1>7, <1>8, <2>4 DEF OnePlace
    <2>5. CASE m \in handled
      BY <1>1, <1>2, <1>3, <1>4, <1>5, <1>6, <1>7, <1>8, <2>5 DEF OnePlace
    <2>6. CASE m \in dropped
      BY <1>1, <1>2, <1>3, <1>4, <1>5, <1>6, <1>7, <1>8, <2>6 DEF OnePlace
    <2> QED
      BY <1>1, <1>9, <2>1, <2>2, <2>3, <2>4, <2>5, <2>6 DEF OnePlace
  <1>10. ASSUME m \notin A PROVE P = {}
    BY <1>1, <1>2, <1>3, <1>4, <1>5, <1>6, <1>7, <1>8, <1>10 DEF OnePlace
  <1>11. Cardinality(P) = IF m \in A THEN 1 ELSE 0
    <2>1. CASE m \in A
      <3>1. PICK e : P = {e}
        BY <1>9, <2>1
      <3> QED
        BY <2>1, <3>1, FS_Singleton
    <2>2. CASE m \notin A
      BY <1>10, <2>2, FS_EmptySet
    <2> QED
      BY <2>1, <2>2
  <1> QED
    BY <1>11 DEF P, A

(***************************************************************************)
(* However the session is used, no operation loses a message or puts it    *)
(* into two places: an accepted message waits in one queue, or is in the   *)
(* input of one live run, or was handled, or was dropped by a command      *)
(* (sessionMutations.ts, sessionLifecycle.ts, generationRunner.ts).        *)
(***************************************************************************)
THEOREM NothingLostOrDoubled == Spec => []MessageConservation
  <1>1. Init => LedgerInv
    <2> SUFFICES ASSUME Init PROVE LedgerInv
      OBVIOUS
    <2>1. /\ session.pending = <<>> /\ session.steer = <<>> /\ session.queued = <<>>
          /\ session.run = <<>> /\ handled = {} /\ dropped = {} /\ Range(arrived) = {}
      BY DEF Init, CreateSessionState, Range
    <2>2. NoRepeats(session)
      BY <2>1, EmptyBatch DEF NoRepeats
    <2>3. ASSUME NEW x \in Msgs PROVE OnePlace(session, handled, dropped, Range(arrived), x)
      BY <2>1, EmptyBatch DEF OnePlace, InPending, InSteer, InQueue, InSomeRun
    <2> QED
      BY <2>2, <2>3 DEF LedgerInv, Ledger
  <1>2. TypeOK /\ QueueInv /\ LedgerInv /\ [Next]_vars => LedgerInv'
    <2> SUFFICES ASSUME TypeOK, QueueInv, LedgerInv, [Next]_vars
                 PROVE  LedgerInv'
      OBVIOUS
    <2>1. CASE UNCHANGED vars
      BY <2>1 DEF vars, LedgerInv
    <2>2. ASSUME NEW m \in Msgs, Decide(m) PROVE LedgerInv'
      BY <2>2 DEF Decide, LedgerInv
    <2>3. CASE Environment
      BY <2>2, <2>3, TimerAndDispatchLedger, CommandLedger DEF Environment
    <2>4. CASE Admit
      BY <2>4, AdmitLedger
    <2>5. CASE DebounceFire
      BY <2>5, TimerAndDispatchLedger
    <2>6. ASSUME NEW r \in DOMAIN session.run, RunStep(r) PROVE LedgerInv'
      BY <2>6, RunStepLedger
    <2> QED
      BY <2>1, <2>3, <2>4, <2>5, <2>6 DEF Next
  <1>3. LedgerInv => MessageConservation
    BY LedgerCounts DEF MessageConservation
  <1> QED
    BY <1>1, <1>2, <1>3, TypeCorrect, QueueHolds, PTL DEF Spec

-----------------------------------------------------------------------------
(* When messages only steer a generation, and nothing interrupts one.      *)

SteersOnly == Commands = {} /\ Modes \subseteq {"after_tool"} /\ ~SetupTurns

AllDone(s) == \A r \in DOMAIN s.run : s.run[r].stage = "done"

(* A run that has not returned is the newest one and serves the response   *)
(* that is open; it generates only as the owner of the controller.         *)
Solo(s) ==
    \A r \in DOMAIN s.run : s.run[r].stage # "done" =>
        /\ r = Len(s.run) /\ IsResponding(s)
        /\ s.run[r].stage \in {"prep", "exec"} => s.genCtl = r

Muting(s) ==
    /\ s.steer # <<>> => IsResponding(s) /\ s.outCtl # "live"
    /\ s.genCtl # 0 /\ s.outCtl = "aborted" => s.steer # <<>>

Steered(s) == Solo(s) /\ Muting(s)

LEMMA RestSteers ==
    ASSUME NEW s, AllDone(s), s.steer = <<>>, s.genCtl = 0
    PROVE  Steered(s)
  BY DEF AllDone, Steered, Solo, Muting

LEMMA StillSteers ==
    ASSUME NEW s, NEW t, Steered(s), t.run = s.run, t.steer = s.steer, t.genCtl = s.genCtl,
           t.outCtl = s.outCtl, IsResponding(t) <=> IsResponding(s)
    PROVE  Steered(t)
  BY DEF Steered, Solo, Muting

(* A response that is not open has no run any more. *)
LEMMA ClosedMeansDone ==
    ASSUME NEW s, Coherent(s), Steered(s), ~HasActiveResponse(s)
    PROVE  AllDone(s) /\ s.steer = <<>> /\ s.genCtl = 0
  BY InactiveSession DEF Steered, Solo, Muting, AllDone, HasActiveResponse

LEMMA StartedSteers ==
    ASSUME NEW s, TypedSession(s), AllDone(s), NEW kind, NEW input, NEW t,
           Started(s, kind, input, t), t.phase \in GeneratingPhases,
           t.outCtl = "live", t.steer = <<>>
    PROVE  Steered(t)
  <1>1. Len(s.run) \in Nat /\ DOMAIN s.run = 1 .. Len(s.run)
    BY FieldTypes
  <1>2. \A r \in DOMAIN t.run : t.run[r].stage # "done" => r = Len(t.run) /\ t.genCtl = r
    BY <1>1 DEF Started, AllDone
  <1> QED
    BY <1>2 DEF Steered, Solo, Muting, IsResponding, IsGenerating

LEMMA BeginSteers ==
    ASSUME NEW s, TypedSession(s), AllDone(s), s.steer = <<>>
    PROVE  Steered(BeginGeneration(s))
  <1> DEFINE u == StartRun(s, "chat", s.pending, NoTrigger, <<>>)
             t == BeginGeneration(s)
             user == IF s.pending = <<>> THEN NoUser ELSE Sender[Head(s.pending)]
  <1>1. t = [u EXCEPT !.pending = <<>>, !.waits = 0, !.target = user, !.phase = "planning"]
    BY DEF BeginGeneration
  <1>2. u \in Session
    <2>1. s.pending \in Seq(Msgs) /\ "chat" \in RunKinds /\ <<>> \in Seq(Events)
      BY FieldTypes DEF RunKinds
    <2> QED
      BY <2>1, StartRunType DEF TypedSession
  <1>3. Started(s, "chat", s.pending, u)
    BY StartRunStarts
  <1>4. u.steer = s.steer /\ u.outCtl = "live"
    BY FieldTypes DEF StartRun, Session
  <1> HIDE DEF u, t, user
  <1>5. /\ t.responseEpoch = u.responseEpoch /\ t.mutationEpoch = u.mutationEpoch
        /\ t.genCtl = u.genCtl /\ t.queued = u.queued /\ t.timer = u.timer
        /\ t.run = u.run /\ t.phase = "planning"
        /\ t.steer = u.steer /\ t.outCtl = u.outCtl
    BY <1>1, <1>2 DEF Session
  <1>6. Started(s, "chat", s.pending, t)
    BY <1>3, <1>5 DEF Started
  <1>7. t.phase \in GeneratingPhases
    BY <1>5 DEF GeneratingPhases
  <1> QED
    BY <1>4, <1>5, <1>6, <1>7, StartedSteers DEF t

LEMMA BeginBackgroundSteers ==
    ASSUME NEW s, TypedSession(s), AllDone(s), s.steer = <<>>, NEW kind \in RunKinds,
           NEW trigger \in Triggers \cup {NoTrigger}, NEW events \in Seq(Events)
    PROVE  Steered(BeginSyntheticGeneration(s, kind, trigger, events))
  <1> DEFINE u == StartRun(s, kind, <<>>, trigger, events)
             t == BeginSyntheticGeneration(s, kind, trigger, events)
  <1>1. t = [u EXCEPT !.target = NoUser, !.phase = "requesting"]
    BY DEF BeginSyntheticGeneration
  <1>2. u \in Session
    <2>1. <<>> \in Seq(Msgs)
      OBVIOUS
    <2> QED
      BY <2>1, StartRunType DEF TypedSession
  <1>3. Started(s, kind, <<>>, u)
    BY StartRunStarts
  <1>4. u.steer = s.steer /\ u.outCtl = "live"
    BY FieldTypes DEF StartRun, Session
  <1> HIDE DEF u, t
  <1>5. /\ t.responseEpoch = u.responseEpoch /\ t.mutationEpoch = u.mutationEpoch
        /\ t.genCtl = u.genCtl /\ t.queued = u.queued /\ t.timer = u.timer
        /\ t.run = u.run /\ t.phase = "requesting"
        /\ t.steer = u.steer /\ t.outCtl = u.outCtl
    BY <1>1, <1>2 DEF Session
  <1>6. Started(s, kind, <<>>, t)
    BY <1>3, <1>5 DEF Started
  <1>7. t.phase \in GeneratingPhases
    BY <1>5 DEF GeneratingPhases
  <1> QED
    BY <1>4, <1>5, <1>6, <1>7, StartedSteers DEF t

LEMMA ProcessNextSteers ==
    ASSUME NEW s, TypedSession(s), ~IsResponding(s), AllDone(s), s.genCtl = 0
    PROVE  Steered(ProcessNextSessionWork(s))
  <1> DEFINE a == PromoteSteer(s)
             n == PromoteNextTarget(a)
             p == IF a.pending = <<>> THEN n ELSE a
             u == [p EXCEPT !.triggers = Tail(p.triggers)]
             v == [p EXCEPT !.inlines = <<>>]
             trigger == BeginSyntheticGeneration(u, "trigger", Head(p.triggers), <<>>)
             inline == BeginSyntheticGeneration(v, "inline", NoTrigger, p.inlines)
             next == ProcessNextSessionWork(s)
  <1>1. /\ TypedSession(a) /\ a.run = s.run /\ a.steer = <<>> /\ a.genCtl = 0
    <2>1. a.steer = <<>> /\ a.genCtl = 0
      BY FieldTypes DEF PromoteSteer, Session
    <2> QED
      BY <2>1, PromoteSteerType
  <1> HIDE DEF a
  <1>2. /\ TypedSession(n) /\ n.run = s.run /\ n.steer = <<>> /\ n.genCtl = 0
    <2>1. n.steer = a.steer /\ n.genCtl = a.genCtl
      <3> DEFINE q == Head(a.queued) \o a.pending
                 rest == Tail(a.queued)
      <3>1. n \in {a, [a EXCEPT !.pending = q, !.queued = rest, !.waits = 0]} /\ a \in Session
        BY <1>1, FieldTypes DEF PromoteNextTarget
      <3> HIDE DEF q, rest, n
      <3> QED
        BY <3>1 DEF Session
    <2> QED
      BY <1>1, <2>1, PromoteNextType
  <1> HIDE DEF n
  <1>3. /\ TypedSession(p) /\ p.steer = <<>> /\ p.genCtl = 0 /\ AllDone(p)
        /\ p.triggers \in Seq(Triggers) /\ p.inlines \in Seq(Events) /\ p \in Session
    <2>1. TypedSession(p) /\ p.run = s.run /\ p.steer = <<>> /\ p.genCtl = 0
      BY <1>1, <1>2
    <2> HIDE DEF p
    <2> QED
      BY <2>1, FieldTypes DEF AllDone
  <1>4. \/ next = p
        \/ next = BeginGeneration(p)
        \/ p.triggers # <<>> /\ next = trigger
        \/ next = inline
    <2>1. ~HasActiveResponse(s)
      BY DEF HasActiveResponse, IsResponding
    <2> QED
      BY <2>1 DEF ProcessNextSessionWork, a, n
  <1> SUFFICES Steered(next)
    OBVIOUS
  <1> HIDE DEF p, next
  <1>5. CASE next = p
    BY <1>3, <1>5, RestSteers
  <1>6. CASE next = BeginGeneration(p)
    BY <1>3, <1>6, BeginSteers
  <1>7. CASE p.triggers # <<>> /\ next = trigger
    <2>1. Tail(p.triggers) \in Seq(Triggers) /\ Head(p.triggers) \in Triggers
      BY <1>3, <1>7
    <2>2. u \in Session /\ u.run = p.run /\ u.steer = p.steer
          /\ u.genCtl = p.genCtl /\ u.respCtl = p.respCtl
      BY <1>3, <2>1 DEF Session
    <2> HIDE DEF u
    <2>3. TypedSession(u) /\ AllDone(u)
      BY <1>3, <2>2 DEF TypedSession, AllDone
    <2>4. "trigger" \in RunKinds /\ <<>> \in Seq(Events)
      BY DEF RunKinds
    <2> QED
      BY <1>3, <1>7, <2>1, <2>2, <2>3, <2>4, BeginBackgroundSteers
  <1>8. CASE next = inline
    <2>1. <<>> \in Seq(Events)
      OBVIOUS
    <2>2. v \in Session /\ v.run = p.run /\ v.steer = p.steer
          /\ v.genCtl = p.genCtl /\ v.respCtl = p.respCtl
      BY <1>3, <2>1 DEF Session
    <2> HIDE DEF v
    <2>3. TypedSession(v) /\ AllDone(v)
      BY <1>3, <2>2 DEF TypedSession, AllDone
    <2>4. "inline" \in RunKinds
      BY DEF RunKinds
    <2> QED
      BY <1>3, <1>8, <2>2, <2>3, <2>4, BeginBackgroundSteers
  <1> QED
    BY <1>4, <1>5, <1>6, <1>7, <1>8

LEMMA CompleteSteers ==
    ASSUME NEW s, TypedSession(s), AllDone(s), s.genCtl = 0
    PROVE  Steered(ProcessNextSessionWork(CompleteResponse(s, s.responseEpoch)))
  <1> DEFINE c == CompleteResponse(s, s.responseEpoch)
  <1>1. TypedSession(c) /\ c.run = s.run
    BY CompleteResponseType
  <1>2. c.phase = "idle" /\ c.genCtl = s.genCtl
    BY FieldTypes DEF CompleteResponse, Session
  <1> HIDE DEF c
  <1>3. ~IsResponding(c) /\ AllDone(c)
    BY <1>1, <1>2 DEF IsResponding, IsGenerating, GeneratingPhases, AllDone
  <1> QED
    BY <1>1, <1>2, <1>3, ProcessNextSteers DEF c

LEMMA GiveBackSteers ==
    ASSUME NEW s, TypedSession(s), AllDone(s), NEW r, s.genCtl = r,
           s.run[r].repoch = s.responseEpoch
    PROVE  Steered(GiveBack(s, r))
  <1> DEFINE f == FinishGeneration(s, r)
  <1>1. TypedSession(f) /\ f.run = s.run
    BY FinishGenerationType
  <1>2. f.responseEpoch = s.responseEpoch /\ f.genCtl = 0
    BY FieldTypes DEF FinishGeneration, Session
  <1>3. GiveBack(s, r) = ProcessNextSessionWork(CompleteResponse(f, f.responseEpoch))
    BY <1>2 DEF GiveBack
  <1> HIDE DEF f
  <1>4. AllDone(f)
    BY <1>1 DEF AllDone
  <1> QED
    BY <1>1, <1>2, <1>3, <1>4, CompleteSteers

(* The only run ends. *)
LEMMA EndSteers ==
    ASSUME NEW s, TypedSession(s), NEW r \in DOMAIN s.run,
           \A i \in DOMAIN s.run : i # r => s.run[i].stage = "done"
    PROVE  AllDone(EndRun(s, r))
  <1> DEFINE x == Released(s.run[r])
             e == EndRun(s, r)
  <1>1. e.run = [s.run EXCEPT ![r] = x] /\ x.stage = "done"
    BY EndRunFields DEF Released
  <1> HIDE DEF x, e
  <1>2. AllDone(e)
    BY <1>1 DEF AllDone
  <1> QED
    BY <1>2 DEF e

LEMMA OthersAreDone ==
    ASSUME NEW s, Steered(s), NEW r \in DOMAIN s.run, s.run[r].stage # "done"
    PROVE  /\ r = Len(s.run) /\ IsResponding(s)
           /\ s.run[r].stage \in {"prep", "exec"} => s.genCtl = r
           /\ \A i \in DOMAIN s.run : i # r => s.run[i].stage = "done"
  BY DEF Steered, Solo

(* A run changes, but does not come back to an earlier stage. *)
LEMMA RunSteers ==
    ASSUME NEW s, TypedSession(s), Steered(s), NEW r \in DOMAIN s.run, s.run[r].stage # "done",
           NEW q, q \in Seq(Run), DOMAIN q = DOMAIN s.run,
           \A i \in DOMAIN s.run : i # r => q[i] = s.run[i],
           q[r].stage \in {"prep", "exec"} => s.run[r].stage \in {"prep", "exec"},
           NEW t, t.run = q, t.genCtl = s.genCtl, IsResponding(t), Muting(t)
    PROVE  Steered(t)
  <1>1. Len(q) = Len(s.run)
    BY FieldTypes
  <1>2. \A i \in DOMAIN q : q[i].stage # "done" =>
           i = r /\ (q[i].stage \in {"prep", "exec"} => s.genCtl = i)
    BY OthersAreDone
  <1>3. r = Len(s.run)
    BY OthersAreDone
  <1> QED
    BY <1>1, <1>2, <1>3 DEF Steered, Solo

LEMMA AdmitSteers ==
    ASSUME TypeOK, SteersOnly, Coherent(session), Steered(session), Admit
    PROVE  Steered(session')
  <1> DEFINE m == Head(admitting).msg
             s == session
  <1>1. /\ TypedSession(s) /\ m \in Msgs
        /\ \/ session' = QueueForNextThread(m)
           \/ session' = ReplyNow(m)
           \/ HasActiveResponse(s) /\ session' = SteerWith(m)
    <2> DEFINE decision == Head(admitting).decision
               soft == decision = "soft_interrupt" /\ HasActiveResponse(session)
    <2>1. PICK mode \in Modes :
            session' = CASE decision = "queue"          -> QueueForNextThread(m)
                         [] soft /\ mode = "immediate"  -> InterruptWith(m)
                         [] soft /\ mode = "after_tool" -> SteerWith(m)
                         [] decision # "queue" /\ ~soft -> ReplyNow(m)
      BY DEF Admit, m
    <2>2. mode = "after_tool"
      BY DEF SteersOnly
    <2>3. soft => decision # "queue" /\ HasActiveResponse(s)
      OBVIOUS
    <2>4. TypedSession(s) /\ m \in Msgs
      BY AdmitCases DEF TypeOK
    <2> HIDE DEF soft, decision, m
    <2>5. CASE decision = "queue"
      BY <2>1, <2>2, <2>3, <2>4, <2>5
    <2>6. CASE soft
      BY <2>1, <2>2, <2>3, <2>4, <2>6
    <2>7. CASE decision # "queue" /\ ~soft
      BY <2>1, <2>2, <2>4, <2>7
    <2> QED
      BY <2>5, <2>6, <2>7
  <1> HIDE DEF m
  <1>2. CASE session' = QueueForNextThread(m)
    <2> DEFINE e == EnqueueGroupReplyTarget(s, m)
               p == PromoteNextTarget(e)
    <2>1. TypedSession(e) /\ e.run = s.run
      BY <1>1, EnqueueType
    <2>2. /\ e.steer = s.steer /\ e.phase = s.phase /\ e.genCtl = s.genCtl
          /\ e.outCtl = s.outCtl
      BY <1>1, FieldTypes DEF EnqueueGroupReplyTarget, Session
    <2>3. session' = e \/ (~HasActiveResponse(s) /\ session' = Schedule(p))
      BY <1>2 DEF QueueForNextThread
    <2> HIDE DEF e
    <2>4. CASE session' = e
      BY <2>1, <2>2, <2>4, StillSteers DEF IsResponding, IsGenerating
    <2>5. CASE ~HasActiveResponse(s) /\ session' = Schedule(p)
      <3>1. AllDone(s) /\ s.steer = <<>> /\ s.genCtl = 0
        BY <2>5, ClosedMeansDone
      <3>2. TypedSession(p) /\ p.run = e.run
        BY <2>1, PromoteNextType
      <3>3. p.steer = e.steer /\ p.genCtl = e.genCtl
        <4> DEFINE q == Head(e.queued) \o e.pending
                   rest == Tail(e.queued)
        <4>1. /\ p \in {e, [e EXCEPT !.pending = q, !.queued = rest, !.waits = 0]}
              /\ e \in Session
          BY <2>1, FieldTypes DEF PromoteNextTarget
        <4> HIDE DEF q, rest, p
        <4> QED
          BY <4>1 DEF Session
      <3> HIDE DEF p
      <3>4. session'.run = s.run /\ session'.steer = <<>> /\ session'.genCtl = 0
        BY <2>1, <2>2, <2>5, <3>1, <3>2, <3>3, ScheduleAlert, ScheduleFields
      <3> QED
        BY <3>1, <3>4, RestSteers DEF AllDone
    <2> QED
      BY <2>3, <2>4, <2>5
  <1>3. CASE session' = ReplyNow(m)
    <2> DEFINE p == AppendPending(s, m)
    <2>1. /\ TypedSession(p) /\ p.run = s.run
          /\ p.steer = s.steer /\ p.phase = s.phase /\ p.genCtl = s.genCtl
          /\ p.outCtl = s.outCtl
      <3>1. /\ p.steer = s.steer /\ p.phase = s.phase /\ p.genCtl = s.genCtl
            /\ p.outCtl = s.outCtl
        BY <1>1, FieldTypes DEF AppendPending, Session
      <3> QED
        BY <1>1, <3>1, AppendPendingType
    <2>2. session' = p \/ (~HasActiveResponse(s) /\ session' = Schedule(p))
      BY <1>3 DEF ReplyNow
    <2> HIDE DEF p
    <2>3. CASE session' = p
      BY <2>1, <2>3, StillSteers DEF IsResponding, IsGenerating
    <2>4. CASE ~HasActiveResponse(s) /\ session' = Schedule(p)
      <3>1. AllDone(s) /\ s.steer = <<>> /\ s.genCtl = 0
        BY <2>4, ClosedMeansDone
      <3>2. session'.run = s.run /\ session'.steer = <<>> /\ session'.genCtl = 0
        BY <2>1, <2>4, <3>1, ScheduleAlert, ScheduleFields
      <3> QED
        BY <3>1, <3>2, RestSteers DEF AllDone
    <2> QED
      BY <2>2, <2>3, <2>4
  <1>4. CASE HasActiveResponse(s) /\ session' = SteerWith(m)
    <2> DEFINE o == InterruptOutbound(s)
               more == Append(o.pending, m)
               steers == Append(o.steer, m)
    <2>1. /\ TypedSession(o) /\ o.run = s.run /\ o.phase = s.phase
          /\ o.genCtl = s.genCtl /\ o.outCtl # "live"
      BY <1>1, InterruptOutboundType, FieldTypes DEF InterruptOutbound, Session
    <2>2. \/ o.genCtl # 0 /\ session' = [o EXCEPT !.steer = steers]
          \/ o.genCtl = 0 /\ session' = [o EXCEPT !.pending = more, !.waits = 0]
      BY <1>4 DEF SteerWith, AppendSteer, AppendPending
    <2> HIDE DEF o
    <2>3. o \in Session /\ steers # <<>>
      <3>1. o \in Session /\ o.steer \in Seq(Msgs)
        BY <2>1, FieldTypes
      <3> QED
        BY <1>1, <3>1
    <2> HIDE DEF steers, more
    <2>4. /\ session'.run = s.run /\ session'.phase = s.phase
          /\ session'.genCtl = s.genCtl /\ session'.outCtl # "live"
          /\ s.genCtl # 0 => session'.steer # <<>>
      BY <2>1, <2>2, <2>3 DEF Session
    <2>5. IsResponding(session') /\ (IsResponding(session') <=> IsResponding(s))
      BY <1>4, <2>4 DEF HasActiveResponse, IsResponding, IsGenerating
    <2> QED
      BY <2>4, <2>5 DEF Steered, Solo, Muting
  <1> QED
    BY <1>1, <1>2, <1>3, <1>4

LEMMA TimerAndDispatchSteer ==
    ASSUME TypeOK, Coherent(session), Steered(session),
           \/ DebounceFire
           \/ \E t \in Triggers : DispatchScheduled(t)
           \/ \E e \in Events : DispatchEvent(e)
    PROVE  Steered(session')
  <1>0. TypedSession(session) /\ session \in Session
    BY FieldTypes DEF TypeOK
  <1>1. CASE DebounceFire
    <2> DEFINE c == ClearTimer(session)
    <2>1. session.timer /\ session' = FlushSession(c)
      BY <1>1 DEF DebounceFire
    <2>2. session.pending # <<>> /\ ~IsResponding(session)
      BY <2>1 DEF Coherent, TimerMeansPending
    <2>3. TypedSession(c) /\ c.run = session.run /\ c.pending # <<>>
      BY <1>0, <2>2, ClearTimerType, ClearTimerCoherent
    <2>4. c.steer = session.steer
      BY <1>0, FieldTypes DEF ClearTimer, Session
    <2>5. AllDone(session) /\ session.steer = <<>>
      BY <2>2, ClosedMeansDone DEF HasActiveResponse, IsResponding
    <2> HIDE DEF c
    <2>6. session' = BeginGeneration(c)
      BY <2>1, <2>3 DEF FlushSession
    <2> QED
      BY <2>3, <2>4, <2>5, <2>6, BeginSteers DEF AllDone
  <1>2. ASSUME NEW t \in Triggers, DispatchScheduled(t)
        PROVE  Steered(session')
    <2> DEFINE q == Append(session.triggers, t)
               u == [session EXCEPT !.triggers = q]
               b == BeginSyntheticGeneration(session, "trigger", t, <<>>)
    <2>1. \/ session' = u
          \/ ~HasActiveResponse(session) /\ session' = b
      BY <1>2 DEF DispatchScheduled
    <2>2. CASE session' = u
      <3> HIDE DEF q
      <3>1. /\ u.steer = session.steer /\ u.genCtl = session.genCtl
            /\ u.phase = session.phase /\ u.run = session.run /\ u.outCtl = session.outCtl
        BY <1>0 DEF Session
      <3> HIDE DEF u
      <3> QED
        BY <2>2, <3>1, StillSteers DEF IsResponding, IsGenerating
    <2>3. CASE ~HasActiveResponse(session) /\ session' = b
      <3>1. "trigger" \in RunKinds /\ <<>> \in Seq(Events)
            /\ t \in Triggers \cup {NoTrigger}
        BY DEF RunKinds
      <3> QED
        BY <1>0, <2>3, <3>1, ClosedMeansDone, BeginBackgroundSteers
    <2> QED
      BY <2>1, <2>2, <2>3
  <1>3. ASSUME NEW e \in Events, DispatchEvent(e)
        PROVE  Steered(session')
    <2> DEFINE q == Append(session.inlines, e)
               u == [session EXCEPT !.inlines = q]
    <2>1. q \in Seq(Events)
      BY <1>0, FieldTypes
    <2>2. /\ u.steer = session.steer /\ u.outCtl = session.outCtl
          /\ u.phase = session.phase /\ u.run = session.run
          /\ u.genCtl = session.genCtl /\ u.respCtl = session.respCtl /\ u \in Session
      <3> HIDE DEF q
      <3> QED
        BY <1>0, <2>1 DEF Session
    <2>3. \/ session' = u
          \/ ~HasActiveResponse(u) /\ session' = ProcessNextSessionWork(u)
      BY <1>3 DEF DispatchEvent
    <2> HIDE DEF u
    <2>4. CASE session' = u
      BY <2>2, <2>4, StillSteers DEF IsResponding, IsGenerating
    <2>5. CASE ~HasActiveResponse(u) /\ session' = ProcessNextSessionWork(u)
      <3>1. ~HasActiveResponse(session) /\ ~IsResponding(u)
        BY <2>2, <2>5 DEF HasActiveResponse, IsResponding, IsGenerating
      <3>2. TypedSession(u) /\ AllDone(u) /\ u.genCtl = 0
        BY <1>0, <2>2, <3>1, ClosedMeansDone DEF TypedSession, AllDone
      <3> QED
        BY <2>5, <3>1, <3>2, ProcessNextSteers
    <2> QED
      BY <2>3, <2>4, <2>5
  <1> QED
    BY <1>1, <1>2, <1>3

LEMMA PrepSteers ==
    ASSUME TypeOK, Coherent(session), Steered(session), NEW r \in DOMAIN session.run,
           PrepContinue(r) \/ PrepSkip(r) \/ PrepFail(r) \/ PrepWait(r)
    PROVE  Steered(session')
  <1>0. TypedSession(session) /\ session \in Session /\ session.run[r] \in Run
        /\ session.run[r].stage = "prep" /\ session.run \in Seq(Run)
    BY FieldTypes DEF TypeOK, PrepContinue, PrepSkip, PrepFail, PrepWait, Suspended
  <1>1. /\ r = session.genCtl /\ IsResponding(session)
        /\ \A i \in DOMAIN session.run : i # r => session.run[i].stage = "done"
    BY <1>0, OthersAreDone
  <1>2. session.run[r].repoch = session.responseEpoch
    BY <1>0, <1>1, OwnerFacts
  <1>3. CASE PrepContinue(r)
    <2> DEFINE x == [session.run[r] EXCEPT !.stage = "exec"]
               q == [session.run EXCEPT ![r] = x]
    <2>1. session' = [session EXCEPT !.run = q]
      BY <1>0, <1>3 DEF PrepContinue, Resumed, Session
    <2>2. x \in Run
      BY <1>0 DEF Run, RunStages
    <2> HIDE DEF x
    <2>3. q \in Seq(Run) /\ DOMAIN q = DOMAIN session.run
          /\ \A i \in DOMAIN session.run : i # r => q[i] = session.run[i]
      BY <1>0, <2>2
    <2> HIDE DEF q
    <2>4. /\ session'.run = q /\ session'.genCtl = session.genCtl
          /\ session'.phase = session.phase /\ session'.steer = session.steer
          /\ session'.outCtl = session.outCtl
      BY <1>0, <2>1 DEF Session
    <2>5. IsResponding(session') /\ Muting(session')
      BY <1>1, <2>4 DEF Steered, Muting, IsResponding, IsGenerating
    <2> QED
      BY <1>0, <2>3, <2>4, <2>5, RunSteers
  <1>4. CASE PrepSkip(r) \/ PrepFail(r)
    <2> DEFINE e == EndRun(session, r)
    <2>1. session' = GiveBack(e, r)
      BY <1>4 DEF PrepSkip, PrepFail, Ended
    <2>2. TypedSession(e) /\ AllDone(e)
      BY <1>0, <1>1, EndRunType, EndSteers
    <2>3. /\ e.genCtl = r /\ e.responseEpoch = session.responseEpoch
          /\ e.run = [session.run EXCEPT ![r] = Released(session.run[r])]
      BY <1>0, <1>1, EndRunFields
    <2> HIDE DEF e
    <2>4. e.run[r].repoch = e.responseEpoch
      BY <1>2, <2>3 DEF Released
    <2> QED
      BY <2>1, <2>2, <2>3, <2>4, GiveBackSteers
  <1>5. CASE PrepWait(r)
    <2> DEFINE batch == session.run[r].input
               passes == session.run[r].waits + 1
               q == RequeuePending(session, batch, passes)
               t == Schedule(q)
               e == EndRun(t, r)
    <2>1. batch \in Seq(Msgs) /\ passes \in Nat
      <3>1. session.run[r].input \in Seq(Msgs) /\ session.run[r].waits \in Nat
        BY <1>0 DEF Run
      <3> QED
        BY <3>1
    <2> HIDE DEF batch, passes
    <2>2. /\ TypedSession(q) /\ q.run = session.run
          /\ q.responseEpoch = session.responseEpoch
          /\ q.genCtl = session.genCtl
      <3>1. TypedSession(q) /\ q.run = session.run
        BY <1>0, <2>1, RequeueType
      <3>2. q.responseEpoch = session.responseEpoch /\ q.genCtl = session.genCtl
        BY <1>0 DEF RequeuePending, Session
      <3> QED
        BY <3>1, <3>2
    <2> HIDE DEF q
    <2>3. /\ TypedSession(t) /\ t.run = session.run
          /\ t.responseEpoch = session.responseEpoch
          /\ t.genCtl = session.genCtl
      BY <2>2, ScheduleType, ScheduleFields
    <2> HIDE DEF t
    <2>4. /\ TypedSession(e) /\ AllDone(e)
          /\ e.genCtl = r /\ e.responseEpoch = session.responseEpoch
          /\ e.run = [session.run EXCEPT ![r] = Released(session.run[r])]
      BY <1>1, <2>3, EndRunType, EndSteers, EndRunFields
    <2>5. session' = GiveBack(e, r)
      BY <1>5 DEF PrepWait, Resumed, e, t, q, batch, passes
    <2> HIDE DEF e
    <2>6. e.run[r].repoch = e.responseEpoch
      BY <1>2, <2>4 DEF Released
    <2> QED
      BY <2>4, <2>5, <2>6, GiveBackSteers
  <1> QED
    BY <1>3, <1>4, <1>5

LEMMA ExecSteers ==
    ASSUME TypeOK, Coherent(session), Steered(session), NEW r \in DOMAIN session.run,
           \/ \E phase \in {"requesting", "generating"} : ExecPhase(r, phase)
           \/ ExecConsumeSteer(r) \/ ExecConsumeEvents(r) \/ ExecSuperseded(r)
    PROVE  Steered(session')
  <1>0. TypedSession(session) /\ session \in Session /\ session.run[r] \in Run
        /\ session.run[r].stage = "exec" /\ session.run \in Seq(Run)
    BY FieldTypes DEF TypeOK, ExecPhase, ExecConsumeSteer, ExecConsumeEvents, ExecSuperseded,
       Suspended
  <1>1. r = session.genCtl /\ IsResponding(session)
        /\ session.run[r].mepoch = session.mutationEpoch
    BY <1>0, OthersAreDone, OwnerFacts
  <1>2. ASSUME NEW phase \in {"requesting", "generating"}, ExecPhase(r, phase)
        PROVE  Steered(session')
    <2>1. session' = [session EXCEPT !.phase = phase]
      BY <1>2 DEF ExecPhase, Resumed
    <2>2. /\ session'.run = session.run /\ session'.steer = session.steer
          /\ session'.genCtl = session.genCtl /\ session'.outCtl = session.outCtl
          /\ session'.phase = phase
      BY <1>0, <2>1 DEF Session
    <2>3. IsResponding(session')
      BY <2>2 DEF IsResponding, IsGenerating, GeneratingPhases
    <2> QED
      BY <1>1, <2>2, <2>3, StillSteers
  <1>3. ~ExecSuperseded(r)
    BY <1>1 DEF ExecSuperseded
  <1>4. CASE ExecConsumeSteer(r)
    <2> DEFINE input == session.run[r].input \o session.steer
               x == [session.run[r] EXCEPT !.input = input]
               q == [session.run EXCEPT ![r] = x]
               out == IF session.outCtl = "aborted" THEN "live" ELSE session.outCtl
               none == <<>>
    <2>1. session' = [session EXCEPT !.run = q, !.steer = none, !.outCtl = out]
      BY <1>0, <1>4 DEF ExecConsumeSteer, Resumed, ConsumeSteer, Session
    <2>2. input \in Seq(Msgs)
      <3>1. session.run[r].input \in Seq(Msgs) /\ session.steer \in Seq(Msgs)
        BY <1>0, FieldTypes DEF Run
      <3> QED
        BY <3>1
    <2> HIDE DEF input
    <2>3. x \in Run /\ x.stage = "exec"
      BY <1>0, <2>2 DEF Run
    <2> HIDE DEF x
    <2>4. q \in Seq(Run) /\ DOMAIN q = DOMAIN session.run /\ q[r] = x
          /\ \A i \in DOMAIN session.run : i # r => q[i] = session.run[i]
      BY <1>0, <2>3
    <2>5. out # "aborted"
      OBVIOUS
    <2> HIDE DEF q, out, none
    <2>6. /\ session'.run = q /\ session'.genCtl = session.genCtl
          /\ session'.phase = session.phase /\ session'.steer = none
          /\ session'.outCtl = out
      BY <1>0, <2>1 DEF Session
    <2>7. IsResponding(session') /\ Muting(session')
      BY <1>1, <2>5, <2>6 DEF Muting, IsResponding, IsGenerating, none
    <2> QED
      BY <1>0, <2>3, <2>4, <2>6, <2>7, RunSteers
  <1>5. CASE ExecConsumeEvents(r)
    <2> DEFINE events == session.run[r].events \o session.inlines
               x == [session.run[r] EXCEPT !.events = events]
               q == [session.run EXCEPT ![r] = x]
               none == <<>>
    <2>1. session' = [session EXCEPT !.run = q, !.inlines = none]
      BY <1>0, <1>5 DEF ExecConsumeEvents, Resumed, DrainInlines, Session
    <2>2. events \in Seq(Events)
      <3>1. session.run[r].events \in Seq(Events) /\ session.inlines \in Seq(Events)
        BY <1>0, FieldTypes DEF Run
      <3> QED
        BY <3>1
    <2> HIDE DEF events
    <2>3. x \in Run /\ x.stage = "exec"
      BY <1>0, <2>2 DEF Run
    <2> HIDE DEF x
    <2>4. q \in Seq(Run) /\ DOMAIN q = DOMAIN session.run /\ q[r] = x
          /\ \A i \in DOMAIN session.run : i # r => q[i] = session.run[i]
      BY <1>0, <2>3
    <2> HIDE DEF q, none
    <2>5. /\ session'.run = q /\ session'.genCtl = session.genCtl
          /\ session'.phase = session.phase /\ session'.steer = session.steer
          /\ session'.outCtl = session.outCtl
      BY <1>0, <2>1 DEF Session
    <2>6. IsResponding(session') /\ Muting(session')
      BY <1>1, <2>5 DEF Steered, Muting, IsResponding, IsGenerating
    <2> QED
      BY <1>0, <2>3, <2>4, <2>5, <2>6, RunSteers
  <1> QED
    BY <1>2, <1>3, <1>4, <1>5

LEMMA ExecEndSteers ==
    ASSUME TypeOK, SteersOnly, Coherent(session), Steered(session),
           NEW r \in DOMAIN session.run, ExecEnd(r)
    PROVE  Steered(session')
  <1> DEFINE g == FinishGeneration(session, r)
             f == [g EXCEPT !.run[r].fin = session.genCtl = r]
             stage == IF IsResponseOpen(f, f.run[r].repoch) THEN "drain" ELSE "closing"
             x == [session.run[r] EXCEPT !.fin = session.genCtl = r, !.stage = stage]
             q == [session.run EXCEPT ![r] = x]
  <1>0. TypedSession(session) /\ session \in Session /\ session.run[r] \in Run
        /\ session.run[r].stage = "exec" /\ session.run \in Seq(Run)
    BY FieldTypes DEF TypeOK, ExecEnd, Suspended
  <1>1. /\ session.genCtl = r /\ r = Len(session.run)
        /\ \A i \in DOMAIN session.run : i # r => session.run[i].stage = "done"
    BY <1>0, OthersAreDone
  <1>2. g = [session EXCEPT !.phase = "delivering", !.genCtl = 0]
    BY <1>1 DEF FinishGeneration
  <1>3. session' = [f EXCEPT !.run[r].stage = stage]
    BY DEF ExecEnd, SteersOnly, Resumed, AfterFinish
  <1>4. stage \in {"drain", "closing"}
    OBVIOUS
  <1> HIDE DEF stage
  <1>5. session' = [session EXCEPT !.phase = "delivering", !.genCtl = 0, !.run = q]
    BY <1>0, <1>2, <1>3 DEF Session
  <1>6. x.stage = stage
    BY <1>0 DEF Run
  <1> HIDE DEF x
  <1>7. /\ DOMAIN q = DOMAIN session.run /\ Len(q) = Len(session.run) /\ q[r] = x
        /\ \A i \in DOMAIN session.run : i # r => q[i] = session.run[i]
    BY <1>0
  <1> HIDE DEF q
  <1>8. /\ session'.run = q /\ session'.genCtl = 0 /\ session'.phase = "delivering"
        /\ session'.steer = session.steer /\ session'.outCtl = session.outCtl
    BY <1>0, <1>5 DEF Session
  <1>9. IsResponding(session')
    BY <1>8 DEF IsResponding
  <1>10. \A i \in DOMAIN q : q[i].stage # "done" =>
           i = Len(q) /\ q[i].stage \notin {"prep", "exec"}
    BY <1>1, <1>4, <1>6, <1>7
  <1> QED
    BY <1>8, <1>9, <1>10 DEF Steered, Solo, Muting

LEMMA CloseSteers ==
    ASSUME TypeOK, Coherent(session), Steered(session), NEW r \in DOMAIN session.run,
           DrainEnd(r) \/ CloseEnd(r)
    PROVE  Steered(session')
  <1> DEFINE e == EndRun(session, r)
             p == PromoteSteer(e)
             epoch == session.run[r].repoch
  <1>0. TypedSession(session) /\ session.run[r].stage \in {"drain", "closing"}
    BY DEF TypeOK, DrainEnd, CloseEnd, Suspended
  <1>1. /\ r = Len(session.run) /\ IsResponding(session)
        /\ \A i \in DOMAIN session.run : i # r => session.run[i].stage = "done"
    BY <1>0, OthersAreDone
  <1>2. session.genCtl = 0 /\ session.run[r].fin /\ epoch = session.responseEpoch
    <2>1. session.genCtl = 0
      BY <1>0, <1>1 DEF Coherent, OwnerIsNewest
    <2>2. session.phase = "delivering"
      BY <1>1, <2>1 DEF Coherent, OwnerIsNewest, IsResponding
    <2> QED
      BY <1>1, <2>1, <2>2 DEF Coherent, DeliveryHasRun, EpochsNumberRuns
  <1>3. /\ TypedSession(e) /\ AllDone(e) /\ e.genCtl = 0
        /\ e.responseEpoch = session.responseEpoch
    BY <1>0, <1>1, <1>2, EndRunType, EndSteers, EndRunFields
  <1>4. session' \in {CompleteAndContinue(p, epoch), CompleteAndContinue(e, epoch)}
    BY <1>2 DEF DrainEnd, CloseEnd, Ended
  <1> HIDE DEF e, epoch
  <1>5. /\ TypedSession(p) /\ p.run = e.run /\ p.genCtl = 0
        /\ p.responseEpoch = e.responseEpoch
    <2>1. p.genCtl = e.genCtl /\ p.responseEpoch = e.responseEpoch
      BY <1>3, FieldTypes DEF PromoteSteer, Session
    <2> QED
      BY <1>3, <2>1, PromoteSteerType
  <1> HIDE DEF p
  <1>6. AllDone(p)
    BY <1>3, <1>5 DEF AllDone
  <1> QED
    BY <1>2, <1>3, <1>4, <1>5, <1>6, CompleteSteers DEF CompleteAndContinue

LEMMA NoCommands == ASSUME SteersOnly, NothingOwed PROVE ~CommandStep
  <1>1. introducing = 0
    BY DEF SteersOnly, NothingOwed
  <1> QED
    BY <1>1 DEF SteersOnly, CommandStep, StopCommand, InterruptCommand, ClearCommand,
       ConfirmCommand, FlushCommand, Introduce, Execute

LEMMA NextSteers ==
    ASSUME TypeOK, SteersOnly, NothingOwed, Coherent(session), Steered(session), [Next]_vars
    PROVE  Steered(session')
  <1>1. CASE UNCHANGED session
    BY <1>1
  <1>2. CASE Environment
    <2>1. ASSUME NEW m \in Msgs, Decide(m) PROVE UNCHANGED session
      BY <2>1 DEF Decide
    <2>2. ~CommandStep
      BY NoCommands
    <2> QED
      BY <1>1, <1>2, <2>1, <2>2, TimerAndDispatchSteer DEF Environment
  <1>3. CASE Admit \/ DebounceFire
    BY <1>3, AdmitSteers, TimerAndDispatchSteer
  <1>4. ASSUME NEW r \in DOMAIN session.run, RunStep(r)
        PROVE  Steered(session')
    <2>1. ~SetupChecked(r)
      BY DEF SetupChecked, Suspended, Coherent, OthersAreAborted
    <2> QED
      BY <1>4, <2>1, PrepSteers, ExecSteers, ExecEndSteers, CloseSteers DEF RunStep
  <1> QED
    BY <1>1, <1>2, <1>3, <1>4 DEF Next, vars

LEMMA SteeringHolds == Spec => [](SteersOnly => Steered(session))
  <1>1. Init => (SteersOnly => Steered(session))
    BY DEF Init, CreateSessionState, Steered, Solo, Muting
  <1>2. TypeOK /\ NothingOwed /\ CoherentSession /\ (SteersOnly => Steered(session)) /\ [Next]_vars
          => (SteersOnly => Steered(session))'
    BY NextSteers DEF CoherentSession, Orderly, SteersOnly
  <1> QED
    BY <1>1, <1>2, TypeCorrect, NothingOwedHolds, CoherenceHolds, PTL DEF Spec

(***************************************************************************)
(* While messages only steer the generation (interruption mode after_tool, *)
(* no commands), its output is muted exactly while one of them waits to be *)
(* taken into it: nothing is sent that ignores a message already read, and *)
(* no response falls silent for good (generationOutbound.ts,               *)
(* sessionMutations.ts, consumeSteerMessages).                             *)
(***************************************************************************)
THEOREM SteersMuteTheirResponse ==
    ASSUME SteersOnly
    PROVE  Spec => []MutedExactlyForSteer
  <1>1. (SteersOnly => Steered(session)) => MutedExactlyForSteer
    BY DEF Steered, Muting, MutedExactlyForSteer
  <1> QED
    BY <1>1, SteeringHolds, PTL

-----------------------------------------------------------------------------
(* In a private chat whose planner never waits, all this is in order.      *)

PrivateSteers == SteersOnly /\ ~GroupChat /\ MaxWaitPasses = 0

(* Messages that arrived, in order. *)
Row(arr, q) ==
    /\ q \in Seq(Msgs) /\ Sorted(arr, q)
    /\ \A k \in DOMAIN q : q[k] \in Range(arr)

(* The run that may take the steers has only older messages, and nothing   *)
(* is pending meanwhile.                                                   *)
InRows(arr, s) ==
    /\ s.queued = <<>>
    /\ Row(arr, s.steer \o s.pending)
    /\ \A r \in DOMAIN s.run : Row(arr, s.run[r].input)
    /\ s.genCtl # 0 => s.pending = <<>> /\ Row(arr, s.run[s.genCtl].input \o s.steer)

(* Nobody was told to reply at once while a response is open. *)
Asked ==
    \A i \in DOMAIN admitting :
        /\ admitting[i].decision # "queue"
        /\ admitting[i].decision = "reply_now" => ~IsResponding(session)

LEMMA EmptyRow == \A arr : Row(arr, <<>>)
  BY DEF Row, Sorted

LEMMA ArrivalKeepsRow ==
    ASSUME NEW arr \in Seq(Msgs), Injective(arr), NEW m \in Msgs, m \notin Range(arr),
           NEW q, Row(arr, q)
    PROVE  Row(Append(arr, m), q) /\ Row(Append(arr, m), Append(q, m))
  <1> DEFINE new == Append(arr, m)
             p == Append(q, m)
             n == Len(q)
  <1>1. /\ m \in Range(new)
        /\ \A x \in Range(arr) : /\ x \in Range(new)
                                 /\ At(new, x) = At(arr, x)
                                 /\ At(new, x) < At(new, m)
    BY ArrivalKeepsPlaces
  <1>2. q \in Seq(Msgs)
    BY DEF Row
  <1>3. /\ p \in Seq(Msgs) /\ n \in Nat /\ DOMAIN q = 1 .. n /\ DOMAIN p = 1 .. (n + 1)
        /\ p[n + 1] = m /\ \A i \in 1 .. n : p[i] = q[i]
    BY <1>2
  <1> HIDE DEF new, p, n
  <1>4. Row(new, q)
    BY <1>1 DEF Row, Sorted
  <1>5. \A i \in DOMAIN p : i = n + 1 \/ i \in DOMAIN q
    BY <1>3
  <1>6. Sorted(new, p)
    <2> SUFFICES ASSUME NEW i \in DOMAIN p, NEW j \in DOMAIN p, i < j
                 PROVE  At(new, p[i]) < At(new, p[j])
      BY DEF Sorted
    <2>1. i \in DOMAIN q /\ p[i] = q[i]
      BY <1>3
    <2>2. CASE j = n + 1
      BY <1>1, <1>3, <2>1, <2>2 DEF Row
    <2>3. CASE j \in DOMAIN q
      BY <1>3, <1>4, <2>1, <2>3 DEF Row, Sorted
    <2> QED
      BY <1>5, <2>2, <2>3
  <1>7. \A k \in DOMAIN p : p[k] \in Range(new)
    BY <1>1, <1>3, <1>5 DEF Row
  <1> QED
    BY <1>3, <1>4, <1>6, <1>7 DEF Row, new, p

LEMMA ArrivalKeepsRows ==
    ASSUME NEW arr \in Seq(Msgs), Injective(arr), NEW m \in Msgs, m \notin Range(arr),
           NEW s, InRows(arr, s)
    PROVE  InRows(Append(arr, m), s)
  BY ArrivalKeepsRow DEF InRows

LEMMA SameRows ==
    ASSUME NEW arr, NEW s, TypedSession(s), InRows(arr, s), NEW t, SameMessages(s, t),
           t.genCtl \in {0, s.genCtl}
    PROVE  InRows(arr, t)
  <1>1. s.genCtl # 0 => s.genCtl \in DOMAIN s.run
    BY FieldTypes
  <1>2. t.genCtl # 0 => t.run[t.genCtl].input = s.run[s.genCtl].input
    BY <1>1 DEF SameMessages
  <1> QED
    BY <1>2 DEF InRows, SameMessages

LEMMA StartedRows ==
    ASSUME NEW arr, NEW s, TypedSession(s), InRows(arr, s), NEW kind,
           NEW input, input \in Seq(Msgs), Row(arr, input),
           NEW t, Started(s, kind, input, t), t.steer = <<>>, t.pending = <<>>
    PROVE  InRows(arr, t)
  <1> DEFINE n == Len(s.run) + 1
  <1>1. /\ Len(s.run) \in Nat /\ DOMAIN s.run = 1 .. Len(s.run)
    BY FieldTypes
  <1>2. /\ t.genCtl = n /\ t.queued = s.queued /\ DOMAIN t.run = 1 .. n
        /\ \A i \in DOMAIN s.run : t.run[i] = s.run[i]
        /\ t.run[n].input = input
    BY DEF Started
  <1>3. \A r \in DOMAIN t.run : r = n \/ r \in DOMAIN s.run
    BY <1>1, <1>2
  <1>4. input \o t.steer = input /\ t.steer \o t.pending = <<>>
    OBVIOUS
  <1> HIDE DEF n
  <1>5. \A r \in DOMAIN t.run : Row(arr, t.run[r].input)
    BY <1>2, <1>3 DEF InRows
  <1> QED
    BY <1>2, <1>4, <1>5, EmptyRow DEF InRows

LEMMA PendingRow ==
    ASSUME NEW arr, NEW s, TypedSession(s), InRows(arr, s), s.steer = <<>>
    PROVE  Row(arr, s.pending)
  <1>1. s.steer \o s.pending = s.pending
    BY FieldTypes
  <1> QED
    BY <1>1 DEF InRows

LEMMA SteerRow ==
    ASSUME NEW arr, NEW s, TypedSession(s), InRows(arr, s), s.pending = <<>>
    PROVE  Row(arr, s.steer)
  <1>1. s.steer \o s.pending = s.steer
    BY FieldTypes
  <1> QED
    BY <1>1 DEF InRows

LEMMA BeginRows ==
    ASSUME NEW arr, NEW s, TypedSession(s), InRows(arr, s), s.steer = <<>>
    PROVE  InRows(arr, BeginGeneration(s))
  <1> DEFINE u == StartRun(s, "chat", s.pending, NoTrigger, <<>>)
             t == BeginGeneration(s)
             user == IF s.pending = <<>> THEN NoUser ELSE Sender[Head(s.pending)]
             none == <<>>
  <1>1. t = [u EXCEPT !.pending = none, !.waits = 0, !.target = user, !.phase = "planning"]
    BY DEF BeginGeneration
  <1>2. s.pending \in Seq(Msgs)
    BY FieldTypes
  <1>3. u \in Session
    <2>1. "chat" \in RunKinds /\ <<>> \in Seq(Events)
      BY DEF RunKinds
    <2> QED
      BY <1>2, <2>1, StartRunType DEF TypedSession
  <1>4. Started(s, "chat", s.pending, u)
    BY StartRunStarts
  <1>5. u.steer = s.steer
    BY FieldTypes DEF StartRun, Session
  <1> HIDE DEF u, t, user, none
  <1>6. /\ t.responseEpoch = u.responseEpoch /\ t.mutationEpoch = u.mutationEpoch
        /\ t.genCtl = u.genCtl /\ t.queued = u.queued /\ t.timer = u.timer
        /\ t.run = u.run /\ t.steer = u.steer /\ t.pending = none
    BY <1>1, <1>3 DEF Session
  <1>7. Started(s, "chat", s.pending, t)
    BY <1>4, <1>6 DEF Started
  <1>8. Row(arr, s.pending)
    BY PendingRow
  <1> QED
    BY <1>2, <1>5, <1>6, <1>7, <1>8, StartedRows DEF t, none

LEMMA BeginBackgroundRows ==
    ASSUME NEW arr, NEW s, TypedSession(s), InRows(arr, s), s.steer = <<>>, s.pending = <<>>,
           NEW kind \in RunKinds,
           NEW trigger \in Triggers \cup {NoTrigger}, NEW events \in Seq(Events)
    PROVE  InRows(arr, BeginSyntheticGeneration(s, kind, trigger, events))
  <1> DEFINE u == StartRun(s, kind, <<>>, trigger, events)
             t == BeginSyntheticGeneration(s, kind, trigger, events)
  <1>1. t = [u EXCEPT !.target = NoUser, !.phase = "requesting"]
    BY DEF BeginSyntheticGeneration
  <1>2. <<>> \in Seq(Msgs)
    OBVIOUS
  <1>3. u \in Session
    BY <1>2, StartRunType DEF TypedSession
  <1>4. Started(s, kind, <<>>, u)
    BY StartRunStarts
  <1>5. u.steer = s.steer /\ u.pending = s.pending
    BY FieldTypes DEF StartRun, Session
  <1> HIDE DEF u, t
  <1>6. /\ t.responseEpoch = u.responseEpoch /\ t.mutationEpoch = u.mutationEpoch
        /\ t.genCtl = u.genCtl /\ t.queued = u.queued /\ t.timer = u.timer
        /\ t.run = u.run /\ t.steer = u.steer /\ t.pending = u.pending
    BY <1>1, <1>3 DEF Session
  <1>7. Started(s, kind, <<>>, t)
    BY <1>4, <1>6 DEF Started
  <1> QED
    BY <1>2, <1>5, <1>6, <1>7, EmptyRow, StartedRows DEF t

(* The steers go in front of what is pending. *)
LEMMA PromoteRows ==
    ASSUME NEW arr, NEW s, TypedSession(s), InRows(arr, s), s.genCtl = 0
    PROVE  LET a == PromoteSteer(s) IN
           /\ TypedSession(a) /\ InRows(arr, a) /\ a.steer = <<>> /\ a.genCtl = 0
           /\ a.run = s.run /\ a.responseEpoch = s.responseEpoch
  <1> DEFINE a == PromoteSteer(s)
             line == s.steer \o s.pending
             none == <<>>
  <1>1. TypedSession(a) /\ a.run = s.run
    BY PromoteSteerType
  <1>2. s.steer \in Seq(Msgs) /\ s.pending \in Seq(Msgs) /\ s \in Session
    BY FieldTypes
  <1>3. s.steer = <<>> => line = s.pending
    BY <1>2
  <1>4. line \in Seq(Msgs) /\ none \o line = line
    BY <1>2
  <1>5. a = IF s.steer = none THEN s
            ELSE [s EXCEPT !.pending = line, !.steer = none, !.waits = 0]
    BY DEF PromoteSteer
  <1> HIDE DEF a, line, none
  <1>6. /\ a.steer = none /\ a.pending = line /\ a.queued = s.queued
        /\ a.genCtl = 0 /\ a.responseEpoch = s.responseEpoch
    BY <1>2, <1>3, <1>5 DEF Session, none
  <1>7. InRows(arr, a)
    BY <1>1, <1>4, <1>6 DEF InRows, line
  <1> QED
    BY <1>1, <1>6, <1>7 DEF a, none

LEMMA ProcessNextRows ==
    ASSUME NEW arr, NEW s, TypedSession(s), InRows(arr, s), ~IsResponding(s), s.genCtl = 0
    PROVE  InRows(arr, ProcessNextSessionWork(s))
  <1> DEFINE a == PromoteSteer(s)
             p == IF a.pending = <<>> THEN PromoteNextTarget(a) ELSE a
             u == [a EXCEPT !.triggers = Tail(a.triggers)]
             v == [a EXCEPT !.inlines = <<>>]
             trigger == BeginSyntheticGeneration(u, "trigger", Head(a.triggers), <<>>)
             inline == BeginSyntheticGeneration(v, "inline", NoTrigger, a.inlines)
             next == ProcessNextSessionWork(s)
  <1>1. TypedSession(a) /\ InRows(arr, a) /\ a.steer = <<>> /\ a.genCtl = 0
    BY PromoteRows
  <1>2. p = a
    BY <1>1 DEF PromoteNextTarget, InRows
  <1>3. \/ next = a
        \/ next = BeginGeneration(a)
        \/ a.pending = <<>> /\ a.triggers # <<>> /\ next = trigger
        \/ a.pending = <<>> /\ next = inline
    <2>1. ~HasActiveResponse(s)
      BY DEF HasActiveResponse, IsResponding
    <2>2. next = IF p.pending # <<>> THEN IF p.timer THEN p ELSE BeginGeneration(p)
                 ELSE IF p.triggers # <<>>
                 THEN BeginSyntheticGeneration([p EXCEPT !.triggers = Tail(p.triggers)],
                                               "trigger", Head(p.triggers), <<>>)
                 ELSE IF p.inlines # <<>>
                 THEN BeginSyntheticGeneration([p EXCEPT !.inlines = <<>>],
                                               "inline", NoTrigger, p.inlines)
                 ELSE p
      BY <2>1 DEF ProcessNextSessionWork
    <2> HIDE DEF a, p, next
    <2> QED
      BY <1>2, <2>2
  <1> SUFFICES InRows(arr, next)
    OBVIOUS
  <1> HIDE DEF a, next
  <1>4. a \in Session /\ a.triggers \in Seq(Triggers) /\ a.inlines \in Seq(Events)
    BY <1>1, FieldTypes
  <1>5. CASE next = a
    BY <1>1, <1>5
  <1>6. CASE next = BeginGeneration(a)
    BY <1>1, <1>6, BeginRows
  <1>7. CASE a.pending = <<>> /\ a.triggers # <<>> /\ next = trigger
    <2>1. Tail(a.triggers) \in Seq(Triggers) /\ Head(a.triggers) \in Triggers
          /\ "trigger" \in RunKinds /\ <<>> \in Seq(Events)
      BY <1>4, <1>7 DEF RunKinds
    <2>2. /\ u \in Session /\ u.queued = a.queued /\ u.run = a.run
          /\ u.genCtl = a.genCtl /\ u.respCtl = a.respCtl
          /\ u.pending = a.pending /\ u.steer = a.steer
      BY <1>4, <2>1 DEF Session
    <2> HIDE DEF u
    <2>3. TypedSession(u)
      BY <1>1, <2>2 DEF TypedSession
    <2>4. InRows(arr, u)
      BY <1>1, <2>2, SameRows DEF SameMessages
    <2> QED
      BY <1>1, <1>7, <2>1, <2>2, <2>3, <2>4, BeginBackgroundRows
  <1>8. CASE a.pending = <<>> /\ next = inline
    <2>1. <<>> \in Seq(Events) /\ "inline" \in RunKinds
      BY DEF RunKinds
    <2>2. /\ v \in Session /\ v.queued = a.queued /\ v.run = a.run
          /\ v.genCtl = a.genCtl /\ v.respCtl = a.respCtl
          /\ v.pending = a.pending /\ v.steer = a.steer
      BY <1>4, <2>1 DEF Session
    <2> HIDE DEF v
    <2>3. TypedSession(v)
      BY <1>1, <2>2 DEF TypedSession
    <2>4. InRows(arr, v)
      BY <1>1, <2>2, SameRows DEF SameMessages
    <2> QED
      BY <1>1, <1>4, <1>8, <2>1, <2>2, <2>3, <2>4, BeginBackgroundRows
  <1> QED
    BY <1>3, <1>5, <1>6, <1>7, <1>8

LEMMA CompleteRows ==
    ASSUME NEW arr, NEW s, TypedSession(s), InRows(arr, s), s.genCtl = 0
    PROVE  InRows(arr, ProcessNextSessionWork(CompleteResponse(s, s.responseEpoch)))
  <1> DEFINE c == CompleteResponse(s, s.responseEpoch)
  <1>1. TypedSession(c) /\ SameMessages(s, c)
    BY CompleteResponseType, QuietOperations
  <1>2. c.phase = "idle" /\ c.genCtl = s.genCtl
    BY FieldTypes DEF CompleteResponse, Session
  <1> HIDE DEF c
  <1>3. ~IsResponding(c) /\ InRows(arr, c)
    BY <1>1, <1>2, SameRows DEF IsResponding, IsGenerating, GeneratingPhases
  <1> QED
    BY <1>1, <1>2, <1>3, ProcessNextRows DEF c

LEMMA GiveBackRows ==
    ASSUME NEW arr, NEW s, TypedSession(s), InRows(arr, s), NEW r, s.genCtl = r,
           s.run[r].repoch = s.responseEpoch
    PROVE  InRows(arr, GiveBack(s, r))
  <1> DEFINE f == FinishGeneration(s, r)
  <1>1. TypedSession(f) /\ SameMessages(s, f)
    BY FinishGenerationType, QuietOperations
  <1>2. f.responseEpoch = s.responseEpoch /\ f.genCtl = 0
    BY FieldTypes DEF FinishGeneration, Session
  <1>3. GiveBack(s, r) = ProcessNextSessionWork(CompleteResponse(f, f.responseEpoch))
    BY <1>2 DEF GiveBack
  <1> HIDE DEF f
  <1>4. InRows(arr, f)
    BY <1>1, <1>2, SameRows
  <1> QED
    BY <1>1, <1>2, <1>3, <1>4, CompleteRows

LEMMA EndRows ==
    ASSUME NEW arr, NEW s, TypedSession(s), InRows(arr, s), NEW r \in DOMAIN s.run
    PROVE  InRows(arr, EndRun(s, r))
  <1> DEFINE e == EndRun(s, r)
             x == Released(s.run[r])
             none == <<>>
  <1>1. /\ e.pending = s.pending /\ e.steer = s.steer /\ e.queued = s.queued
        /\ e.genCtl = s.genCtl /\ e.run = [s.run EXCEPT ![r] = x]
    BY EndRunFields
  <1>2. x.input = none
    BY DEF Released
  <1>3. s.genCtl # 0 => s.genCtl \in DOMAIN s.run
    BY FieldTypes
  <1>4. none \o s.steer = s.steer
    BY FieldTypes
  <1>5. s.genCtl # 0 => Row(arr, s.steer)
    BY SteerRow DEF InRows
  <1>6. Row(arr, none)
    BY EmptyRow
  <1> HIDE DEF e, x, none
  <1>7. \A i \in DOMAIN e.run :
          e.run[i].input = IF i = r THEN none ELSE s.run[i].input
    BY <1>1, <1>2
  <1>8. DOMAIN e.run = DOMAIN s.run
    BY <1>1
  <1>9. InRows(arr, e)
    BY <1>1, <1>3, <1>4, <1>5, <1>6, <1>7, <1>8 DEF InRows
  <1> QED
    BY <1>9 DEF e

LEMMA AppendedBehind ==
    ASSUME NEW p \in Seq(Msgs), NEW q \in Seq(Msgs), NEW m \in Msgs
    PROVE  p \o Append(q, m) = Append(p \o q, m)
  OBVIOUS

(* A message that arrives joins the steers or what is pending. *)
LEMMA SteerArrivalRows ==
    ASSUME NEW arr \in Seq(Msgs), Injective(arr), NEW m \in Msgs, m \notin Range(arr),
           NEW s, TypedSession(s), InRows(arr, s), s.genCtl # 0,
           NEW t, t.steer = Append(s.steer, m), t.pending = s.pending, t.queued = s.queued,
           t.run = s.run, t.genCtl = s.genCtl
    PROVE  InRows(Append(arr, m), t)
  <1> DEFINE new == Append(arr, m)
             input == s.run[s.genCtl].input
  <1>1. InRows(new, s)
    BY ArrivalKeepsRows
  <1>2. s.steer \in Seq(Msgs) /\ s.pending = <<>> /\ input \in Seq(Msgs)
    <2>1. s.genCtl \in DOMAIN s.run /\ s.steer \in Seq(Msgs)
      BY FieldTypes
    <2>2. s.run[s.genCtl] \in Run
      BY <2>1, FieldTypes
    <2> QED
      BY <2>1, <2>2 DEF InRows, Run
  <1>3. t.steer \o t.pending = t.steer
    BY <1>2
  <1>4. Row(arr, s.steer) /\ Row(arr, input \o s.steer)
    BY <1>2, SteerRow DEF InRows
  <1>5. input \o t.steer = Append(input \o s.steer, m)
    BY <1>2, AppendedBehind
  <1>6. Row(new, t.steer) /\ Row(new, input \o t.steer)
    BY <1>4, <1>5, ArrivalKeepsRow
  <1> HIDE DEF new
  <1> QED
    BY <1>1, <1>2, <1>3, <1>6 DEF InRows, new

LEMMA PendingArrivalRows ==
    ASSUME NEW arr \in Seq(Msgs), Injective(arr), NEW m \in Msgs, m \notin Range(arr),
           NEW s, TypedSession(s), InRows(arr, s), s.genCtl = 0
    PROVE  /\ InRows(Append(arr, m), AppendPending(s, m))
           /\ AppendPending(s, m).genCtl = 0 /\ AppendPending(s, m).phase = s.phase
  <1> DEFINE new == Append(arr, m)
             more == Append(s.pending, m)
             t == AppendPending(s, m)
  <1>1. InRows(new, s)
    BY ArrivalKeepsRows
  <1>2. s.steer \in Seq(Msgs) /\ s.pending \in Seq(Msgs) /\ s \in Session
    BY FieldTypes
  <1>3. s.steer \o more = Append(s.steer \o s.pending, m)
    BY <1>2, AppendedBehind
  <1>4. Row(new, s.steer \o more)
    BY <1>3, ArrivalKeepsRow DEF InRows
  <1>5. t = [s EXCEPT !.pending = more, !.waits = 0]
    BY DEF AppendPending
  <1> HIDE DEF new, more, t
  <1>6. /\ t.pending = more /\ t.steer = s.steer /\ t.queued = s.queued
        /\ t.run = s.run /\ t.genCtl = s.genCtl /\ t.phase = s.phase
    BY <1>2, <1>5 DEF Session
  <1>7. InRows(new, t)
    BY <1>1, <1>4, <1>6 DEF InRows
  <1> QED
    BY <1>6, <1>7 DEF new, t

OrderInv == InRows(arrived, session) /\ Asked

LEMMA AdmitRows ==
    ASSUME TypeOK, PrivateSteers, QueueInv, Coherent(session), Steered(session), OrderInv, Admit
    PROVE  OrderInv'
  <1> DEFINE m == Head(admitting).msg
             decision == Head(admitting).decision
             s == session
             soft == decision = "soft_interrupt" /\ HasActiveResponse(s)
  <1>1. /\ TypedSession(s) /\ m \in Msgs /\ arrived \in Seq(Msgs) /\ Injective(arrived)
        /\ arrived' = Append(arrived, m)
    BY AdmitCases DEF TypeOK, QueueInv, Admit
  <1>2. /\ m \notin Range(arrived) /\ decision # "queue" /\ decision \in DecisionNames
        /\ decision = "reply_now" => ~IsResponding(s)
        /\ \A i \in DOMAIN admitting' :
              i + 1 \in DOMAIN admitting /\ admitting'[i] = admitting[i + 1]
    <2> DEFINE D == [msg : Msgs, decision : DecisionNames]
    <2>1. admitting # <<>> /\ admitting \in Seq(D) /\ admitting' = Tail(admitting)
      BY DEF TypeOK, Admit
    <2>5. \A x \in D : x.decision \in DecisionNames
      OBVIOUS
    <2> HIDE DEF D
    <2>2. 1 \in DOMAIN admitting /\ Head(admitting) = admitting[1]
      BY <2>1
    <2>3. admitting[1] \in D
      BY <2>1, <2>2
    <2>4. \A i \in DOMAIN admitting' :
              i + 1 \in DOMAIN admitting /\ admitting'[i] = admitting[i + 1]
      BY <2>1
    <2> QED
      BY <2>2, <2>3, <2>4, <2>5 DEF QueueInv, OrderInv, Asked
  <1>3. /\ HasActiveResponse(s) <=> IsResponding(s)
        /\ InRows(arrived, s)
    BY DEF HasActiveResponse, IsResponding, OrderInv
  <1>4. \/ IsResponding(s) /\ session' = SteerWith(m)
        \/ ~IsResponding(s) /\ session' = ReplyNow(m)
    <2>1. PICK mode \in Modes :
            session' = CASE decision = "queue"          -> QueueForNextThread(m)
                         [] soft /\ mode = "immediate"  -> InterruptWith(m)
                         [] soft /\ mode = "after_tool" -> SteerWith(m)
                         [] decision # "queue" /\ ~soft -> ReplyNow(m)
      BY DEF Admit
    <2>2. mode = "after_tool"
      BY DEF PrivateSteers, SteersOnly
    <2>3. soft <=> IsResponding(s)
      BY <1>2, <1>3 DEF DecisionNames
    <2> HIDE DEF soft, decision, m
    <2> QED
      BY <1>2, <2>1, <2>2, <2>3
  <1> HIDE DEF m, decision
  <1>5. CASE IsResponding(s) /\ session' = SteerWith(m)
    <2> DEFINE o == InterruptOutbound(s)
               steers == Append(o.steer, m)
    <2>1. /\ TypedSession(o) /\ SameMessages(s, o) /\ o.genCtl = s.genCtl
          /\ o.run = s.run
      BY <1>1, InterruptOutboundType, QuietOperations, FieldTypes DEF InterruptOutbound, Session
    <2>2. session' = IF o.genCtl # 0 THEN AppendSteer(o, m) ELSE AppendPending(o, m)
      BY <1>5 DEF SteerWith
    <2> HIDE DEF o
    <2>3. InRows(arrived, o)
      BY <1>1, <1>3, <2>1, SameRows
    <2>4. ASSUME o.genCtl # 0 PROVE InRows(Append(arrived, m), session')
      <3>1. session' = [o EXCEPT !.steer = steers] /\ o \in Session
        BY <2>1, <2>2, <2>4, FieldTypes DEF AppendSteer
      <3> HIDE DEF steers
      <3>2. /\ session'.steer = steers /\ session'.pending = o.pending
            /\ session'.queued = o.queued /\ session'.run = o.run
            /\ session'.genCtl = o.genCtl
        BY <3>1 DEF Session
      <3>3. session'.steer = Append(o.steer, m)
        BY <3>2 DEF steers
      <3> QED
        BY <1>1, <1>2, <2>1, <2>3, <2>4, <3>2, <3>3, SteerArrivalRows
    <2>5. ASSUME o.genCtl = 0 PROVE InRows(Append(arrived, m), session')
      <3>1. session' = AppendPending(o, m)
        BY <2>2, <2>5
      <3> QED
        BY <1>1, <1>2, <2>1, <2>3, <2>5, <3>1, PendingArrivalRows
    <2>6. InRows(arrived', session')
      <3>1. InRows(Append(arrived, m), session')
        BY <2>4, <2>5
      <3> QED
        BY <1>1, <3>1
    <2>7. Asked'
      BY <1>2, <1>5 DEF OrderInv, Asked
    <2> QED
      BY <2>6, <2>7 DEF OrderInv
  <1>6. CASE ~IsResponding(s) /\ session' = ReplyNow(m)
    <2> DEFINE p == AppendPending(s, m)
               t == Schedule(p)
    <2>1. s.genCtl = 0
      BY <1>3, <1>6, ClosedMeansDone
    <2>2. InRows(Append(arrived, m), p) /\ p.genCtl = 0 /\ p.phase = s.phase /\ TypedSession(p)
      BY <1>1, <1>2, <1>3, <2>1, PendingArrivalRows, AppendPendingType
    <2>3. session' = t
      BY <1>3, <1>6 DEF ReplyNow
    <2> HIDE DEF p
    <2>4. SameMessages(p, t) /\ t.genCtl = 0 /\ t.phase \in {s.phase, "idle", "debouncing"}
      BY <2>2, QuietOperations, ScheduleFields
    <2> HIDE DEF t
    <2>5. InRows(arrived', session')
      BY <1>1, <2>2, <2>3, <2>4, SameRows
    <2>6. ~IsResponding(session')
      BY <1>6, <2>3, <2>4 DEF IsResponding, IsGenerating, GeneratingPhases
    <2>7. Asked'
      BY <1>2, <2>6 DEF OrderInv, Asked
    <2> QED
      BY <2>5, <2>7 DEF OrderInv
  <1> QED
    BY <1>4, <1>5, <1>6

LEMMA DecideRows ==
    ASSUME TypeOK, PrivateSteers, OrderInv, NEW m \in Msgs, Decide(m)
    PROVE  OrderInv'
  <1>1. PICK decision \in Decisions(m) :
          admitting' = Append(admitting, [msg |-> m, decision |-> decision])
    BY DEF Decide
  <1>2. session' = session /\ arrived' = arrived
    BY DEF Decide
  <1>3. decision # "queue" /\ (decision = "reply_now" => ~IsResponding(session))
    BY <1>1 DEF PrivateSteers, Decisions, HasActiveResponse, IsResponding
  <1> DEFINE x == [msg |-> m, decision |-> decision]
             n == Len(admitting)
  <1>4. x.decision = decision
    OBVIOUS
  <1> HIDE DEF x
  <1>5. /\ n \in Nat /\ DOMAIN admitting = 1 .. n /\ DOMAIN admitting' = 1 .. (n + 1)
        /\ admitting'[n + 1] = x /\ \A i \in 1 .. n : admitting'[i] = admitting[i]
    <2>1. admitting \in Seq([msg : Msgs, decision : DecisionNames])
      BY DEF TypeOK
    <2>2. admitting' = Append(admitting, x)
      BY <1>1 DEF x
    <2> QED
      BY <2>1, <2>2
  <1> HIDE DEF n
  <1>6. \A i \in DOMAIN admitting' : i = n + 1 \/ i \in DOMAIN admitting
    BY <1>5
  <1> QED
    BY <1>2, <1>3, <1>4, <1>5, <1>6 DEF OrderInv, Asked

LEMMA TimerAndDispatchRows ==
    ASSUME TypeOK, Coherent(session), Steered(session), OrderInv,
           \/ DebounceFire
           \/ \E t \in Triggers : DispatchScheduled(t)
           \/ \E e \in Events : DispatchEvent(e)
    PROVE  OrderInv'
  <1>0. TypedSession(session) /\ session \in Session /\ InRows(arrived, session)
    BY FieldTypes DEF TypeOK, OrderInv
  <1>1. admitting' = <<>> /\ arrived' = arrived
    BY DEF DebounceFire, DispatchScheduled, DispatchEvent, NextTask
  <1>2. Asked'
    BY <1>1 DEF Asked
  <1> SUFFICES InRows(arrived, session')
    BY <1>1, <1>2 DEF OrderInv
  <1>3. CASE DebounceFire
    <2> DEFINE c == ClearTimer(session)
    <2>1. session.timer /\ session' = FlushSession(c)
      BY <1>3 DEF DebounceFire
    <2>2. session.pending # <<>> /\ ~HasActiveResponse(session)
      BY <2>1 DEF Coherent, TimerMeansPending, HasActiveResponse, IsResponding
    <2>3. TypedSession(c) /\ c.pending # <<>> /\ SameMessages(session, c)
      BY <1>0, <2>2, ClearTimerType, ClearTimerCoherent, QuietOperations
    <2>4. c.steer = session.steer /\ c.genCtl = session.genCtl
      BY <1>0, FieldTypes DEF ClearTimer, Session
    <2>5. session.steer = <<>>
      BY <2>2, ClosedMeansDone
    <2> HIDE DEF c
    <2>6. session' = BeginGeneration(c)
      BY <2>1, <2>3 DEF FlushSession
    <2>7. InRows(arrived, c)
      BY <1>0, <2>3, <2>4, SameRows
    <2> QED
      BY <2>3, <2>4, <2>5, <2>6, <2>7, BeginRows
  <1>4. ASSUME NEW t \in Triggers, DispatchScheduled(t)
        PROVE  InRows(arrived, session')
    <2> DEFINE q == Append(session.triggers, t)
               u == [session EXCEPT !.triggers = q]
               b == BeginSyntheticGeneration(session, "trigger", t, <<>>)
    <2>1. \/ session' = u
          \/ /\ ~HasActiveResponse(session) /\ session.pending = <<>>
             /\ session' = b
      BY <1>4 DEF DispatchScheduled
    <2>2. CASE session' = u
      <3> HIDE DEF q
      <3>1. SameMessages(session, u) /\ u.genCtl = session.genCtl
        BY <1>0 DEF Session, SameMessages
      <3> HIDE DEF u
      <3> QED
        BY <1>0, <2>2, <3>1, SameRows
    <2>3. CASE /\ ~HasActiveResponse(session) /\ session.pending = <<>>
               /\ session' = b
      <3>1. "trigger" \in RunKinds /\ <<>> \in Seq(Events)
            /\ t \in Triggers \cup {NoTrigger}
        BY DEF RunKinds
      <3> QED
        BY <1>0, <2>3, <3>1, ClosedMeansDone, BeginBackgroundRows
    <2> QED
      BY <2>1, <2>2, <2>3
  <1>5. ASSUME NEW e \in Events, DispatchEvent(e)
        PROVE  InRows(arrived, session')
    <2> DEFINE q == Append(session.inlines, e)
               u == [session EXCEPT !.inlines = q]
    <2>1. q \in Seq(Events)
      BY <1>0, FieldTypes
    <2>2. /\ SameMessages(session, u) /\ u.run = session.run /\ u.phase = session.phase
          /\ u.genCtl = session.genCtl /\ u.respCtl = session.respCtl /\ u \in Session
      <3> HIDE DEF q
      <3> QED
        BY <1>0, <2>1 DEF Session, SameMessages
    <2>3. \/ session' = u
          \/ ~HasActiveResponse(u) /\ session' = ProcessNextSessionWork(u)
      BY <1>5 DEF DispatchEvent
    <2> HIDE DEF u
    <2>4. InRows(arrived, u) /\ TypedSession(u)
      BY <1>0, <2>2, SameRows DEF TypedSession
    <2>5. CASE ~HasActiveResponse(u) /\ session' = ProcessNextSessionWork(u)
      <3>1. ~HasActiveResponse(session) /\ ~IsResponding(u)
        BY <2>2, <2>5 DEF HasActiveResponse, IsResponding, IsGenerating
      <3>2. u.genCtl = 0
        BY <2>2, <3>1, ClosedMeansDone
      <3> QED
        BY <2>4, <2>5, <3>1, <3>2, ProcessNextRows
    <2> QED
      BY <2>3, <2>4, <2>5
  <1> QED
    BY <1>3, <1>4, <1>5

(* The owner of the controller takes the steers behind its own input. *)
LEMMA ConsumeRows ==
    ASSUME NEW arr, NEW s, TypedSession(s), InRows(arr, s), NEW r \in DOMAIN s.run,
           s.genCtl = r, r # 0
    PROVE  InRows(arr, ConsumeSteer(s, r))
  <1> DEFINE t == ConsumeSteer(s, r)
             none == <<>>
             input == s.run[r].input \o s.steer
             x == [s.run[r] EXCEPT !.input = input]
             q == [s.run EXCEPT ![r] = x]
             o == IF s.outCtl = "aborted" THEN "live" ELSE s.outCtl
  <1>1. s \in Session /\ s.run \in Seq(Run) /\ s.run[r] \in Run /\ s.steer \in Seq(Msgs)
        /\ s.run[r].input \in Seq(Msgs)
    BY FieldTypes DEF Run
  <1>2. t = [s EXCEPT !.steer = none, !.run = q, !.outCtl = o]
    BY <1>1 DEF ConsumeSteer, Session
  <1>3. q[r] = x /\ DOMAIN q = DOMAIN s.run /\ \A i \in DOMAIN s.run : i # r => q[i] = s.run[i]
    BY <1>1
  <1>4. x.input = input
    BY <1>1 DEF Run
  <1>5. input \o none = input /\ none \o none = none
    BY <1>1
  <1>6. Row(arr, input) /\ Row(arr, none) /\ s.pending = none
    BY EmptyRow DEF InRows
  <1> HIDE DEF t, none, input, x, q, o
  <1>7. /\ t.pending = s.pending /\ t.steer = none /\ t.queued = s.queued /\ t.run = q
        /\ t.genCtl = s.genCtl
    BY <1>1, <1>2 DEF Session
  <1>8. \A i \in DOMAIN t.run : Row(arr, t.run[i].input)
    BY <1>3, <1>4, <1>6, <1>7 DEF InRows
  <1>9. InRows(arr, t)
    BY <1>3, <1>4, <1>5, <1>6, <1>7, <1>8 DEF InRows, none
  <1> QED
    BY <1>9 DEF t

LEMMA RunStepRows ==
    ASSUME TypeOK, PrivateSteers, Coherent(session), Steered(session), OrderInv,
           NEW r \in DOMAIN session.run, RunStep(r)
    PROVE  OrderInv'
  <1> DEFINE s == session
             e == EndRun(s, r)
             epoch == s.run[r].repoch
  <1>0. TypedSession(s) /\ s \in Session /\ s.run[r] \in Run /\ s.run \in Seq(Run)
        /\ InRows(arrived, s)
    BY FieldTypes DEF TypeOK, OrderInv
  <1>1. arrived' = arrived /\ admitting' = admitting
    BY DEF RunStep, PrepContinue, PrepSkip, PrepFail, PrepWait, ExecPhase, ExecConsumeSteer,
       ExecConsumeEvents, ExecSuperseded, ExecEnd, SetupChecked, DrainEnd, CloseEnd, Ended,
       Resumed
  <1>2. s.run[r].stage \in {"prep", "exec", "drain", "closing"}
    <2>1. ~SetupChecked(r)
      BY DEF SetupChecked, Suspended, Coherent, OthersAreAborted
    <2> QED
      BY <2>1 DEF RunStep, PrepContinue, PrepSkip, PrepFail, PrepWait, ExecPhase,
         ExecConsumeSteer, ExecConsumeEvents, ExecSuperseded, ExecEnd, DrainEnd, CloseEnd,
         Suspended
  <1>3. /\ IsResponding(s) /\ r = Len(s.run) /\ epoch = s.responseEpoch
        /\ s.run[r].stage \in {"prep", "exec"} => s.genCtl = r
    <2>1. s.run[r].stage # "done"
      BY <1>2
    <2> QED
      BY <2>1, OthersAreDone DEF Coherent, EpochsNumberRuns
  <1>4. Asked'
    BY <1>1, <1>3 DEF OrderInv, Asked
  <1>5. TypedSession(e) /\ InRows(arrived, e) /\ e.genCtl = s.genCtl
        /\ e.responseEpoch = s.responseEpoch /\ e.run = [s.run EXCEPT ![r] = Released(s.run[r])]
    BY <1>0, EndRunType, EndRows, EndRunFields
  <1> SUFFICES InRows(arrived, session')
    BY <1>1, <1>4 DEF OrderInv
  <1> HIDE DEF e, epoch
  <1>6. CASE PrepContinue(r)
    <2>1. session' = [s EXCEPT !.run[r].stage = "exec"]
      BY <1>6 DEF PrepContinue, Resumed
    <2>2. SameMessages(s, session') /\ session'.genCtl = s.genCtl
      BY <1>0, <2>1, StageSame DEF Session
    <2> QED
      BY <1>0, <2>2, SameRows
  <1>7. CASE PrepSkip(r) \/ PrepFail(r)
    <2>1. session' = GiveBack(e, r) /\ s.run[r].stage = "prep"
      BY <1>7 DEF PrepSkip, PrepFail, Ended, Suspended, e
    <2>2. e.run[r].repoch = epoch
      BY <1>5 DEF Released, epoch
    <2> QED
      BY <1>3, <1>5, <2>1, <2>2, GiveBackRows
  <1>8. ~PrepWait(r)
    <2>1. s.run[r].waits \in Nat
      BY <1>0 DEF Run
    <2> QED
      BY <2>1 DEF PrepWait, PrivateSteers
  <1>9. ASSUME NEW phase \in {"requesting", "generating"}, ExecPhase(r, phase)
        PROVE  InRows(arrived, session')
    <2>1. session' = [s EXCEPT !.phase = phase]
      BY <1>9 DEF ExecPhase, Resumed
    <2>2. SameMessages(s, session') /\ session'.genCtl = s.genCtl
      BY <1>0, <2>1, QuietOperations DEF Session
    <2> QED
      BY <1>0, <2>2, SameRows
  <1>10. CASE ExecConsumeSteer(r)
    <2>1. session' = ConsumeSteer(s, r) /\ s.run[r].stage = "exec" /\ r # 0
      BY <1>0, <1>10 DEF ExecConsumeSteer, Resumed, Suspended
    <2> QED
      BY <1>0, <1>3, <2>1, ConsumeRows
  <1>11. CASE ExecConsumeEvents(r)
    <2> DEFINE d == DrainInlines(s, r)
               in == s.run[r].events \o s.inlines
               none == <<>>
               x == [s.run[r] EXCEPT !.events = in]
    <2>1. session' = d
      BY <1>11 DEF ExecConsumeEvents, Resumed
    <2>2. d = [s EXCEPT !.inlines = none, !.run = [s.run EXCEPT ![r] = x]]
      BY <1>0 DEF DrainInlines, Session
    <2>3. x.input = s.run[r].input
      BY <1>0 DEF Run
    <2> HIDE DEF d, in, none, x
    <2>4. /\ d.pending = s.pending /\ d.steer = s.steer /\ d.queued = s.queued
          /\ d.run = [s.run EXCEPT ![r] = x] /\ d.genCtl = s.genCtl
      BY <1>0, <2>2 DEF Session
    <2>5. SameMessages(s, d)
      BY <1>0, <2>3, <2>4 DEF SameMessages
    <2> QED
      BY <1>0, <2>1, <2>4, <2>5, SameRows
  <1>12. ~ExecSuperseded(r)
    <2>1. s.run[r].stage = "exec" => s.run[r].mepoch = s.mutationEpoch
      BY <1>0, <1>3, OwnerFacts
    <2> QED
      BY <2>1 DEF ExecSuperseded, Suspended
  <1>13. CASE ExecEnd(r)
    <2> DEFINE g == FinishGeneration(s, r)
               f == [g EXCEPT !.run[r].fin = s.genCtl = r]
               own == s.genCtl = r
    <2>1. TypedSession(g) /\ g.run = s.run /\ SameMessages(s, g) /\ g.genCtl \in {0, s.genCtl}
      BY <1>0, FinishGenerationType, QuietOperations DEF FinishGeneration, Session
    <2>2. session' = AfterFinish(f, r)
      BY <1>13 DEF ExecEnd, Resumed, PrivateSteers, SteersOnly
    <2>3. own \in BOOLEAN
      OBVIOUS
    <2>4. f = [g EXCEPT !.run[r].fin = own]
      OBVIOUS
    <2> HIDE DEF g, own
    <2>5. r \in DOMAIN g.run
      BY <2>1
    <2>6. /\ TypedSession(f) /\ DOMAIN f.run = DOMAIN g.run /\ SameMessages(g, f)
          /\ f.genCtl = g.genCtl
      <3>1. f.genCtl = g.genCtl
        BY <2>1, <2>4, FieldTypes DEF Session
      <3> QED
        BY <2>1, <2>3, <2>4, <2>5, <3>1, FinishedType, FinishedSame
    <2> HIDE DEF f
    <2>7. \E stage : session' = [f EXCEPT !.run[r].stage = stage]
      BY <2>2 DEF AfterFinish
    <2>8. SameMessages(f, session') /\ session'.genCtl = f.genCtl
      <3>1. f \in Session /\ r \in DOMAIN f.run
        BY <2>5, <2>6, FieldTypes
      <3>2. PICK stage : session' = [f EXCEPT !.run[r].stage = stage]
        BY <2>7
      <3>3. session'.genCtl = f.genCtl
        BY <3>1, <3>2 DEF Session
      <3>4. SameMessages(f, session')
        BY <2>6, <3>1, <3>2, StageSame
      <3> QED
        BY <3>3, <3>4
    <2>9. SameMessages(s, session') /\ session'.genCtl \in {0, s.genCtl}
      BY <2>1, <2>6, <2>8, SameMessagesCompose
    <2> QED
      BY <1>0, <2>9, SameRows
  <1>14. CASE DrainEnd(r) \/ CloseEnd(r)
    <2>1. s.run[r].stage \in {"drain", "closing"}
      BY <1>14 DEF DrainEnd, CloseEnd, Suspended
    <2>2. s.genCtl = 0
      BY <1>3, <2>1 DEF Coherent, OwnerIsNewest
    <2> DEFINE p == PromoteSteer(e)
    <2>3. /\ TypedSession(p) /\ InRows(arrived, p) /\ p.genCtl = 0
          /\ p.responseEpoch = e.responseEpoch
      BY <1>5, <2>2, PromoteRows
    <2>4. session' \in {e, CompleteAndContinue(p, epoch), CompleteAndContinue(e, epoch)}
      BY <1>14 DEF DrainEnd, CloseEnd, Ended, e, epoch
    <2> HIDE DEF p
    <2>5. InRows(arrived, CompleteAndContinue(p, epoch))
      BY <1>3, <1>5, <2>3, CompleteRows DEF CompleteAndContinue
    <2>6. InRows(arrived, CompleteAndContinue(e, epoch))
      BY <1>3, <1>5, <2>2, CompleteRows DEF CompleteAndContinue
    <2> QED
      BY <1>5, <2>4, <2>5, <2>6
  <1>15. ~SetupChecked(r)
    BY <1>2 DEF SetupChecked, Suspended
  <1> QED
    BY <1>6, <1>7, <1>8, <1>9, <1>10, <1>11, <1>12, <1>13, <1>14, <1>15 DEF RunStep

LEMMA OrderHolds == Spec => [](PrivateSteers => OrderInv)
  <1>1. Init => OrderInv
    <2> SUFFICES ASSUME Init PROVE OrderInv
      OBVIOUS
    <2>1. /\ session = CreateSessionState /\ admitting = <<>> /\ arrived = <<>>
      BY DEF Init
    <2>2. /\ session.queued = <<>> /\ session.steer = <<>> /\ session.pending = <<>>
          /\ session.run = <<>> /\ session.genCtl = 0
      BY <2>1 DEF CreateSessionState
    <2>3. session.steer \o session.pending = <<>>
      BY <2>2
    <2> QED
      BY <2>1, <2>2, <2>3, EmptyRow DEF OrderInv, Asked, InRows
  <1>2. ASSUME TypeOK, NothingOwed, QueueInv, CoherentSession,
               SteersOnly => Steered(session),
               PrivateSteers => OrderInv, [Next]_vars, PrivateSteers
        PROVE  OrderInv'
    <2>1. Coherent(session) /\ Steered(session) /\ OrderInv
      BY <1>2 DEF CoherentSession, Orderly, SteersOnly, PrivateSteers
    <2>2. CASE UNCHANGED vars
      BY <2>1, <2>2 DEF vars, OrderInv, Asked
    <2>3. CASE Environment
      <3>1. ~CommandStep
        BY <1>2, NoCommands DEF PrivateSteers
      <3> QED
        BY <1>2, <2>1, <2>3, <3>1, DecideRows, TimerAndDispatchRows DEF Environment
    <2>4. CASE Admit \/ DebounceFire
      BY <1>2, <2>1, <2>4, AdmitRows, TimerAndDispatchRows
    <2>5. ASSUME NEW r \in DOMAIN session.run, RunStep(r)
          PROVE  OrderInv'
      BY <1>2, <2>1, <2>5, RunStepRows
    <2> QED
      BY <1>2, <2>2, <2>3, <2>4, <2>5 DEF Next
  <1>3. /\ TypeOK /\ NothingOwed /\ QueueInv /\ CoherentSession /\ (SteersOnly => Steered(session))
        /\ (PrivateSteers => OrderInv) /\ [Next]_vars
        => (PrivateSteers => OrderInv)'
    BY <1>2 DEF PrivateSteers, SteersOnly
  <1> QED
    BY <1>1, <1>3, TypeCorrect, NothingOwedHolds, QueueHolds, CoherenceHolds, SteeringHolds,
       PTL DEF Spec

(***************************************************************************)
(* In a private chat whose messages only steer the generation, messages    *)
(* are taken in the order they arrived: into a run, behind what it was     *)
(* given (generationExecutor.ts, consumeSteerMessages), and in front of    *)
(* what is pending when the run ends (sessionMutations.ts,                 *)
(* promoteSteerMessages).                                                  *)
(***************************************************************************)
THEOREM MessagesKeepTheirOrder ==
    ASSUME PrivateSteers
    PROVE  Spec => []ArrivalOrder
  <1>1. (PrivateSteers => OrderInv) => ArrivalOrder
    <2> SUFFICES ASSUME OrderInv PROVE ArrivalOrder
      OBVIOUS
    <2>1. Sorted(arrived, session.steer \o session.pending)
          /\ \A r \in DOMAIN session.run : Sorted(arrived, session.run[r].input)
      BY DEF OrderInv, InRows, Row
    <2> QED
      BY <2>1 DEF ArrivalOrder, Sorted, InOrder, At, Position
  <1> QED
    BY <1>1, OrderHolds, PTL
=============================================================================
