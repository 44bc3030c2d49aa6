----------------------------- MODULE Services_proofs -----------------------------
(***************************************************************************)
(* Services a run meets: the gateway of the QQ official channel and the       *)
(* receipts of its messages, the concurrent tool calls of a model answer, and *)
(* a download.                                                               *)
(***************************************************************************)
EXTENDS QqGateway, OfficialIngress, ToolCalls, DownloadRuntime, FiniteSetTheorems,
        SequenceTheorems, TLAPS

(***************************************************************************)
(* The gateway.  While it is stopped nothing is left that could bring a       *)
(* connection back.                                                          *)
(***************************************************************************)

GatewayInv ==
    /\ GatewayTypeOK
    /\ gwStopped => socket = "none" /\ "current" \notin attempts /\ ~reconnect
    /\ socket = "none" => ~watchdog /\ heartbeat = "off"
    /\ NeverStranded

LEMMA GatewayInitInv == GatewayInit => GatewayInv
  BY DEF GatewayInit, GatewayInv, GatewayTypeOK, NeverStranded

LEMMA GatewayNextInv == GatewayInv /\ [GatewayNext]_gatewayVars => GatewayInv'
  <1> SUFFICES ASSUME GatewayInv, [GatewayNext]_gatewayVars
               PROVE  GatewayInv'
    OBVIOUS
  <1> USE DEF GatewayInv, GatewayTypeOK, NeverStranded
  <1>1. CASE StartGateway
    BY <1>1 DEF StartGateway, Outdated
  <1>2. CASE StopGateway
    BY <1>2 DEF StopGateway, Outdated, Teardown
  <1>3. ASSUME NEW a \in attempts, AttemptSucceeds(a)
        PROVE  GatewayInv'
    BY <1>3 DEF AttemptSucceeds, Current
  <1>4. ASSUME NEW a \in attempts, AttemptFails(a)
        PROVE  GatewayInv'
    BY <1>4 DEF AttemptFails, Current
  <1>5. CASE ReconnectFires
    BY <1>5 DEF ReconnectFires, Outdated
  <1>6. CASE Hello
    BY <1>6 DEF Hello
  <1>7. CASE Ready
    BY <1>7 DEF Ready
  <1>8. CASE Acknowledged
    BY <1>8 DEF Acknowledged
  <1>9. CASE PeerCloses
    BY <1>9 DEF PeerCloses, CloseSocket, Teardown
  <1>10. CASE PeerFallsSilent
    BY <1>10 DEF PeerFallsSilent
  <1>11. CASE WatchdogFires
    BY <1>11 DEF WatchdogFires, CloseSocket, Teardown
  <1>12. CASE HeartbeatFires
    <2>1. CASE heartbeat = "sent" /\ CloseSocket /\ resumable' = resumable
      BY <2>1 DEF CloseSocket, Teardown
    <2>2. CASE /\ heartbeat = "acknowledged" /\ heartbeat' = "sent"
               /\ UNCHANGED <<gwStopped, attempts, socket, peerAnswers, watchdog, reconnect, resumable>>
      BY <2>2
    <2> QED
      BY <1>12, <2>1, <2>2 DEF HeartbeatFires
  <1>13. CASE UNCHANGED gatewayVars
    BY <1>13 DEF gatewayVars
  <1> QED
    BY <1>1, <1>2, <1>3, <1>4, <1>5, <1>6, <1>7, <1>8, <1>9, <1>10, <1>11, <1>12, <1>13
       DEF GatewayNext

\* A gateway that was not stopped always has exactly one of a socket, a
\* current attempt and a reconnect timer (gateway.ts).
THEOREM GatewayNeverStranded == GatewaySpec => []NeverStranded
  <1>1. GatewayInv => NeverStranded
    BY DEF GatewayInv
  <1> QED
    BY <1>1, GatewayInitInv, GatewayNextInv, PTL DEF GatewaySpec

(***************************************************************************)
(* Receipts.  A message that was answered has a receipt that says so or is    *)
(* too old to be answered again.                                             *)
(***************************************************************************)

Consistent(m) ==
    /\ receipts[m] = "none" => heard[m] = <<>>
    /\ receipts[m] = "context" => heard[m] = <<"context">>
    /\ receipts[m] = "activated" =>
          heard[m] \in {<<"activated">>, <<"context", "activated">>}
    /\ activations[m] \in {0, 1}
    /\ activations[m] = 1 => receipts[m] = "activated" \/ m \in old

IngressInv == IngressTypeOK /\ \A m \in Messages : Consistent(m)

LEMMA AppendToNone == \A e : Append(<<>>, e) = <<e>>
  OBVIOUS

LEMMA PairOf ==
  ASSUME NEW S, NEW x \in S, NEW y \in S, NEW s \in Seq(S),
         Len(s) = 2, s[1] = x, s[2] = y
  PROVE  s = <<x, y>>
  OBVIOUS

LEMMA AppendToOne ==
  ASSUME NEW S, NEW s \in Seq(S), NEW x, NEW y \in S, Len(s) = 1, s[1] = x
  PROVE  Append(s, y) = <<x, y>>
  <1>1. /\ Append(s, y) \in Seq(S) /\ Len(Append(s, y)) = 2
        /\ Append(s, y)[1] = x /\ Append(s, y)[2] = y
    <2>1. Append(s, y) \in Seq(S) /\ Len(Append(s, y)) = Len(s) + 1
      BY AppendProperties
    <2>2. Append(s, y)[Len(s) + 1] = y
      BY AppendProperties
    <2>3. 1 \in 1 .. Len(s)
      OBVIOUS
    <2>4. Append(s, y)[1] = s[1]
      BY <2>3, AppendProperties
    <2> QED
      BY <2>1, <2>2, <2>4
  <1>2. x \in S
    OBVIOUS
  <1> DEFINE two == Append(s, y)
  <1>3. two \in Seq(S) /\ Len(two) = 2 /\ two[1] = x /\ two[2] = y
    BY <1>1
  <1> HIDE DEF two
  <1>4. two = <<x, y>>
    BY <1>2, <1>3, PairOf
  <1> QED
    BY <1>4 DEF two

LEMMA AppendToContext == Append(<<"context">>, "activated") = <<"context", "activated">>
  <1> DEFINE one == <<"context">>
  <1>1. one \in Seq({"context", "activated"}) /\ Len(one) = 1 /\ one[1] = "context"
    OBVIOUS
  <1> HIDE DEF one
  <1>2. Append(one, "activated") = <<"context", "activated">>
    BY <1>1, AppendToOne
  <1> QED
    BY <1>2 DEF one

LEMMA IngressInitInv == IngressInit => IngressInv
  <1> SUFFICES ASSUME IngressInit PROVE IngressInv
    OBVIOUS
  <1>1. IngressTypeOK
    BY DEF IngressInit, IngressTypeOK
  <1>2. \A m \in Messages : Consistent(m)
    BY DEF IngressInit, Consistent
  <1> QED
    BY <1>1, <1>2 DEF IngressInv

LEMMA IngressNextInv == IngressInv /\ [IngressNext]_ingressVars => IngressInv'
  <1> SUFFICES ASSUME IngressInv, [IngressNext]_ingressVars
               PROVE  IngressInv'
    OBVIOUS
  <1>1. ASSUME NEW m \in Messages, MessageAges(m)
        PROVE  IngressInv'
    BY <1>1 DEF MessageAges, IngressInv, IngressTypeOK, Consistent
  <1>2. ASSUME NEW m \in Messages, ReceiptExpires(m)
        PROVE  IngressInv'
    BY <1>2 DEF ReceiptExpires, IngressInv, IngressTypeOK, Consistent
  <1>3. ASSUME NEW m \in Messages, EventArrives(m)
        PROVE  IngressInv'
    <2>1. PICK addressed, wholeGroup \in BOOLEAN :
             /\ Decoded(m, addressed, wholeGroup) # "dropped"
             /\ Claimed(m, Decoded(m, addressed, wholeGroup))
             /\ receipts' = [receipts EXCEPT ![m] = Decoded(m, addressed, wholeGroup)]
             /\ heard' = [heard EXCEPT ![m] =
                             Append(heard[m], Decoded(m, addressed, wholeGroup))]
             /\ activations' = [activations EXCEPT ![m] =
                                   IF Decoded(m, addressed, wholeGroup) = "activated"
                                   THEN activations[m] + 1 ELSE activations[m]]
      BY <1>3 DEF EventArrives
    <2> DEFINE as == Decoded(m, addressed, wholeGroup)
    <2>2. as \in {"context", "activated"} /\ (as = "activated" => m \notin old)
      BY <2>1 DEF Decoded
    <2>3. Claimed(m, as)
      BY <2>1
    <2>4. /\ receipts' = [receipts EXCEPT ![m] = as]
          /\ heard' = [heard EXCEPT ![m] = Append(heard[m], as)]
          /\ activations' = [activations EXCEPT ![m] =
                                IF as = "activated" THEN activations[m] + 1
                                ELSE activations[m]]
      BY <2>1
    <2>5. old' = old
      BY <1>3 DEF EventArrives
    <2> HIDE DEF as
    <2>6. IngressTypeOK'
      <3>1. heard[m] \in Seq({"context", "activated"}) /\ activations[m] \in Nat
        BY DEF IngressInv, IngressTypeOK
      <3>2. Append(heard[m], as) \in Seq({"context", "activated"})
        BY <2>2, <3>1, AppendProperties
      <3>3. heard' \in [Messages -> Seq({"context", "activated"})]
        BY <2>4, <3>2 DEF IngressInv, IngressTypeOK
      <3>4. receipts' \in [Messages -> {"none", "context", "activated"}]
        BY <2>2, <2>4 DEF IngressInv, IngressTypeOK
      <3>5. (IF as = "activated" THEN activations[m] + 1 ELSE activations[m]) \in Nat
        <4>1. activations[m] + 1 \in Nat
          BY <3>1
        <4> QED
          BY <3>1, <4>1
      <3>6. activations' \in [Messages -> Nat]
        BY <2>4, <3>5 DEF IngressInv, IngressTypeOK
      <3> QED
        BY <2>5, <3>3, <3>4, <3>6 DEF IngressInv, IngressTypeOK
    <2>7. /\ receipts'[m] = as /\ heard'[m] = Append(heard[m], as)
          /\ activations'[m] = IF as = "activated" THEN activations[m] + 1
                               ELSE activations[m]
      BY <2>4 DEF IngressInv, IngressTypeOK
    <2>8. ASSUME NEW n \in Messages
          PROVE  Consistent(n)'
      <3>1. CASE n # m
        <4>1. Consistent(n) /\ receipts'[n] = receipts[n] /\ heard'[n] = heard[n]
              /\ activations'[n] = activations[n]
          BY <2>4, <3>1 DEF IngressInv, IngressTypeOK
        <4> QED
          BY <2>5, <4>1 DEF Consistent
      <3>2. CASE n = m
        <4> Consistent(m)
          BY DEF IngressInv
        <4>1. CASE receipts[m] = "none"
          <5>1. heard'[m] = <<as>>
            BY <2>7, <4>1, AppendToNone DEF Consistent
          <5>2. as = "activated" => activations[m] = 0
            BY <2>2, <4>1 DEF Consistent
          <5>3. activations'[m] = (IF as = "activated" THEN 1 ELSE activations[m])
            <6>1. CASE as = "activated"
              BY <2>7, <5>2, <6>1
            <6>2. CASE as # "activated"
              BY <2>7, <6>2
            <6> QED
              BY <6>1, <6>2
          <5>4. CASE as = "activated"
            BY <2>7, <3>2, <5>1, <5>3, <5>4 DEF Consistent
          <5>5. CASE as = "context"
            BY <2>5, <2>7, <3>2, <4>1, <5>1, <5>3, <5>5 DEF Consistent
          <5> QED
            BY <2>2, <5>4, <5>5
        <4>2. CASE receipts[m] = "context" /\ as = "activated"
          <5>1. heard'[m] = <<"context", "activated">>
            BY <2>7, <4>2, AppendToContext DEF Consistent
          <5>2. activations[m] = 0
            BY <2>2, <4>2 DEF Consistent
          <5>3. activations'[m] = 1
            BY <2>7, <4>2, <5>2
          <5> QED
            BY <2>7, <3>2, <4>2, <5>1, <5>3 DEF Consistent
        <4> QED
          BY <2>3, <4>1, <4>2 DEF Claimed
      <3> QED
        BY <3>1, <3>2
    <2> QED
      BY <2>6, <2>8 DEF IngressInv
  <1>4. CASE UNCHANGED ingressVars
    BY <1>4 DEF ingressVars, IngressInv, IngressTypeOK, Consistent
  <1> QED
    BY <1>1, <1>2, <1>3, <1>4 DEF IngressNext

\* However often and in whatever order the platform tells a message, also after
\* its receipt has expired, it is answered at most once, and under one receipt
\* it enters the conversation once.
THEOREM MessagesAreCountedOnce == IngressSpec => []MessagesCountOnce
  <1>1. IngressInv => MessagesCountOnce
    <2> SUFFICES ASSUME IngressInv, NEW m \in Messages
                 PROVE  /\ activations[m] <= 1
                        /\ heard[m] \in {<<>>, <<"context">>, <<"activated">>,
                                         <<"context", "activated">>}
      BY DEF MessagesCountOnce
    <2>1. Consistent(m) /\ receipts[m] \in {"none", "context", "activated"}
      BY DEF IngressInv, IngressTypeOK
    <2>2. activations[m] <= 1
      BY <2>1 DEF Consistent
    <2>3. heard[m] \in {<<>>, <<"context">>, <<"activated">>, <<"context", "activated">>}
      BY <2>1 DEF Consistent
    <2> QED
      BY <2>2, <2>3
  <1> QED
    BY <1>1, IngressInitInv, IngressNextInv, PTL DEF IngressSpec
-----------------------------------------------------------------------------
(* The order of conflicting tool calls and the completeness of the answer,    *)
(* for any number of calls, any effects and any concurrency.                 *)
(*                                                                           *)
(* Neither is inductive: what a call still waits for is kept in its blockers, *)
(* so the invariant ties blockers, ready calls and results together.         *)

Taken == ready \cup runningCalls \cup results

\* Once the graph is made: what blocks a call is waited for or has its result;
\* nothing waited for where a call is ready, runs or ended, and it is one of these.
Tracked ==
    /\ \A i, j \in Calls : Blocks(effect, i, j) => i \in blockers[j] \cup results
    /\ \A j \in Taken : blockers[j] = {}
    /\ ready \cap runningCalls = {} /\ ready \cap results = {}
    /\ runningCalls \cap results = {}
    /\ answer = "resolved" => runningCalls = {} /\ (~halted => results = Calls)

CallsInv ==
    /\ ToolCallsTypeOK
    /\ answer = "none" => Taken = {} /\ ~halted
    /\ answer # "none" => Tracked

LEMMA NothingToStart ==
    ASSUME NEW some \in SUBSET Calls, Cardinality(some) <= 0
    PROVE  some = {}
  <1>1. IsFiniteSet(Calls)
    BY FS_Interval, ToolCallsAssumption DEF Calls
  <1>2. IsFiniteSet(some)
    BY <1>1, FS_Subset
  <1>3. Cardinality(some) \in Nat
    BY <1>2, FS_CardinalityType
  <1>4. Cardinality(some) = 0
    BY <1>3
  <1> QED
    BY <1>2, <1>4, FS_EmptySet

LEMMA CallsInitInv == ToolCallsInit => CallsInv
  BY DEF ToolCallsInit, CallsInv, ToolCallsTypeOK, Taken

LEMMA CallsNextInv == CallsInv /\ [ToolCallsNext]_toolVars => CallsInv'
  <1> SUFFICES ASSUME CallsInv, [ToolCallsNext]_toolVars
               PROVE  CallsInv'
    OBVIOUS
  <1> USE DEF CallsInv, ToolCallsTypeOK, Tracked, Taken
  <1>1. CASE BeginCalls
    <2> DEFINE rd == {j \in Calls : blockers'[j] = {}}
    <2>1. /\ answer = "none" /\ Taken = {} /\ results = {} /\ halted = FALSE
          /\ results' = {} /\ halted' = FALSE
          /\ effect' \in [Calls -> ToolEffects]
          /\ blockers' = [j \in Calls |-> {i \in Calls : Blocks(effect', i, j)}]
      BY <1>1 DEF BeginCalls
    <2>0. PICK started \in SUBSET rd :
             /\ Cardinality(started) <= Slots - Cardinality({})
             /\ ready' = rd \ started
             /\ runningCalls' = started
             /\ answer' = IF {} = Calls THEN "resolved" ELSE "open"
      BY <1>1 DEF BeginCalls, Schedule
    <2>2. \A i, j \in Calls : Blocks(effect, i, j)' => i \in blockers'[j]
      <3>1. \A i, j \in Calls : Blocks(effect, i, j)' = Blocks(effect', i, j)
        BY DEF Blocks, Serial
      <3> QED
        BY <2>1, <3>1
    <2>3. \A j \in rd : blockers'[j] = {}
      OBVIOUS
    <2>4. rd \in SUBSET Calls /\ {} \in SUBSET Calls /\ FALSE \in BOOLEAN
      OBVIOUS
    <2> HIDE DEF rd
    <2>5. /\ ready' \cup runningCalls' = rd
          /\ ready' \cap runningCalls' = {}
          /\ answer' \in {"open", "resolved"}
          /\ answer' = "resolved" => runningCalls' = {} /\ {} = Calls
      BY <2>0, <2>4
    <2> QED
      BY <2>1, <2>2, <2>3, <2>4, <2>5
  <1>2. ASSUME NEW i \in Calls, CallSucceeds(i)
        PROVE  CallsInv'
    <2> DEFINE freed == [j \in Calls |-> blockers[j] \ {i}]
               now == {j \in Calls : i \in blockers[j] /\ freed[j] = {}}
               rd == ready \cup now
               rn == runningCalls \ {i}
               rs == results \cup {i}
    <2>1. /\ i \in runningCalls /\ answer = "open"
          /\ results' = rs /\ blockers' = freed
          /\ effect' = effect /\ halted' = halted
      BY <1>2 DEF CallSucceeds
    <2>0. PICK started \in SUBSET rd :
             /\ Cardinality(started) <= IF halted THEN 0 ELSE Slots - Cardinality(rn)
             /\ ready' = rd \ started
             /\ runningCalls' = rn \cup started
             /\ answer' = IF (halted \/ rs = Calls) /\ rn = {} THEN "resolved" ELSE "open"
      BY <1>2 DEF CallSucceeds, Schedule
    <2>2. now \cap Taken = {}
      BY <2>1
    <2>3. /\ rd \in SUBSET Calls /\ rn \in SUBSET Calls /\ rs \in SUBSET Calls
          /\ rd \cap rs = {} /\ rd \cap rn = {} /\ rn \cap rs = {}
      BY <2>1, <2>2
    <2>4. freed \in [Calls -> SUBSET Calls] /\ (\A j \in rd \cup rn \cup rs : freed[j] = {})
      <3>1. \A j \in Calls : blockers[j] \in SUBSET Calls /\ freed[j] = blockers[j] \ {i}
        OBVIOUS
      <3>2. \A j \in Taken : blockers[j] = {} /\ j \in Calls
        BY <2>1
      <3>3. \A j \in Taken : freed[j] = {}
        BY <3>1, <3>2
      <3>4. rd \cup rn \cup rs \subseteq Taken \cup now
        BY <2>1
      <3> HIDE DEF Taken, rd, rn, rs
      <3> QED
        BY <3>1, <3>3, <3>4
    <2>5. \A k, j \in Calls : Blocks(effect', k, j) => k \in freed[j] \cup rs
      BY <2>1
    <2>6. \A k, j \in Calls : Blocks(effect, k, j)' = Blocks(effect', k, j)
      BY DEF Blocks, Serial
    <2> HIDE DEF freed, now, rd, rn, rs
    <2>7. /\ ready' \cup runningCalls' = rd \cup rn
          /\ ready' \subseteq rd
          /\ ready' \cap runningCalls' = {}
          /\ answer' \in {"open", "resolved"}
          /\ answer' = "resolved" => runningCalls' = {} /\ (~halted => rs = Calls)
      <3>1. halted => started = {}
        BY <2>0, <2>3, NothingToStart
      <3>2. rs = Calls => started = {}
        BY <2>3
      <3> QED
        BY <2>0, <2>3, <3>1, <3>2
    <2> QED
      BY <2>1, <2>3, <2>4, <2>5, <2>6, <2>7
  <1>3. ASSUME NEW i \in Calls, CallEndsTurn(i)
        PROVE  CallsInv'
    <2> DEFINE rn == runningCalls \ {i}
               rs == results \cup {i}
    <2>1. /\ i \in runningCalls /\ answer = "open"
          /\ results' = rs /\ halted' = TRUE
          /\ effect' = effect /\ blockers' = blockers
      BY <1>3 DEF CallEndsTurn
    <2>0. PICK started \in SUBSET ready :
             /\ Cardinality(started) <= 0
             /\ ready' = ready \ started
             /\ runningCalls' = rn \cup started
             /\ answer' = IF (TRUE \/ rs = Calls) /\ rn = {} THEN "resolved" ELSE "open"
      BY <1>3 DEF CallEndsTurn, Schedule
    <2>2. /\ ready \in SUBSET Calls /\ rn \in SUBSET Calls /\ rs \in SUBSET Calls
          /\ ready \cap rs = {} /\ ready \cap rn = {} /\ rn \cap rs = {}
          /\ TRUE \in BOOLEAN
      BY <2>1
    <2>3. ready \cup rn \cup rs \subseteq Taken
      BY <2>1
    <2>4. \A k, j \in Calls : Blocks(effect, k, j)' => k \in blockers'[j] \cup rs
      BY <2>1 DEF Blocks, Serial
    <2> HIDE DEF rn, rs
    <2>5. /\ ready' \cup runningCalls' = ready \cup rn
          /\ ready' \subseteq ready
          /\ ready' \cap runningCalls' = {}
          /\ answer' \in {"open", "resolved"}
          /\ answer' = "resolved" => runningCalls' = {}
      <3>1. started = {}
        BY <2>0, <2>2, NothingToStart
      <3> QED
        BY <2>0, <2>2, <3>1
    <2> QED
      BY <2>1, <2>2, <2>3, <2>4, <2>5
  <1>4. ASSUME NEW i \in Calls, CallFails(i)
        PROVE  CallsInv'
    BY <1>4 DEF CallFails, Blocks, Serial
  <1>5. ASSUME NEW i \in Calls, CallOutlivesAnswer(i)
        PROVE  CallsInv'
    BY <1>5 DEF CallOutlivesAnswer, Blocks, Serial
  <1>6. CASE UNCHANGED toolVars
    BY <1>6 DEF toolVars, Blocks, Serial
  <1> QED
    BY <1>1, <1>2, <1>3, <1>4, <1>5, <1>6 DEF ToolCallsNext, CallEnds

LEMMA CallsAreTracked == ToolCallsSpec => []CallsInv
  BY CallsInitInv, CallsNextInv, PTL DEF ToolCallsSpec

\* Of two calls that conflict the later one starts only with the result of the
\* earlier one (executeGraph, executeSerial).
THEOREM ConflictingCallsKeepOrder == ToolCallsSpec => []ConflictsKeepOrder
  <1>1. CallsInv => ConflictsKeepOrder
    BY DEF CallsInv, Tracked, Taken, ConflictsKeepOrder, Blocks
  <1> QED
    BY <1>1, CallsAreTracked, PTL

\* The answer comes with every result it should have (executeGraph).
THEOREM AnswersAreComplete == ToolCallsSpec => []AnswerIsComplete
  <1>1. CallsInv => AnswerIsComplete
    <2> SUFFICES ASSUME CallsInv, answer = "resolved" PROVE AnswerIsComplete
      BY DEF AnswerIsComplete
    <2>1. Tracked /\ ToolCallsTypeOK
      BY DEF CallsInv
    <2>2. runningCalls = {} /\ (~halted => results = Calls)
      BY <2>1 DEF Tracked
    <2>3. \A j \in results, i \in Calls : Blocks(effect, i, j) => i \in results
      BY <2>1 DEF Tracked, Taken, ToolCallsTypeOK
    <2> QED
      BY <2>2, <2>3 DEF AnswerIsComplete
  <1> QED
    BY <1>1, CallsAreTracked, PTL

-----------------------------------------------------------------------------
(* Downloads, for any number of callers and runs.  A fresh decision starts a  *)
(* run only when every other one has ended, so at most one run can import,    *)
(* and none once the download is completed.                                   *)

OneAtATime ==
    /\ \A k \in Transfers : k # Len(transfer) => TransferEnded(k)
    /\ task.status = "completed" =>
          \A k \in Transfers : transfer[k] \in {"cleaning", "done", "orphaned"}

\* The run that named the file will not delete it, whatever the callers do.
NamedFileStays ==
    /\ task.file # 0 => task.file \in storedFiles /\ transfer[task.file] \in {"cleaning", "done"}
    /\ task.status = "completed" => task.file # 0

Left(k) == transfer[k] \in {"undoing", "orphaned"}

FreshFiles ==
    ~staleUse =>
        /\ storedFiles = {k \in Transfers : k = task.file \/ Left(k)}
        /\ task.file # 0 <=> task.status = "completed"
        /\ task.status \in {"running", "completed"} => ~task.aborted

DownloadInv ==
    /\ DownloadTypeOK
    /\ foreground \in {"idle", "starting"} =>
          transfer = <<>> /\ ~task.listed /\ task.status = "none"
    /\ \A c \in Resumers : resuming[c] <= Len(transfer)
    /\ ~staleUse => OneAtATime
    /\ NamedFileStays
    /\ FreshFiles

LEMMA DownloadInitInv == DownloadInit => DownloadInv
  <1> SUFFICES ASSUME DownloadInit
               PROVE  DownloadInv
    OBVIOUS
  <1>1. Transfers = {} /\ Len(transfer) = 0 /\ transfer \in Seq(Stages)
    BY DEF DownloadInit, Transfers
  <1>2. DownloadTypeOK
    <2>1. 0 \in 0 .. MaxTransfers /\ 0 <= MaxTransfers
      BY DownloadAssumption
    <2>2. /\ resuming \in [Resumers -> 0 .. MaxTransfers]
          /\ task \in [status : {"none", "running", "paused", "completed", "failed", "cancelled"},
                      listed : BOOLEAN, retryable : BOOLEAN, notify : BOOLEAN,
                      aborted : BOOLEAN, file : 0 .. MaxTransfers]
      BY <2>1 DEF DownloadInit
    <2> QED
      BY <1>1, <2>1, <2>2 DEF DownloadInit, DownloadTypeOK
  <1> QED
    BY <1>1, <1>2 DEF DownloadInit, DownloadInv, OneAtATime, NamedFileStays, FreshFiles

\* A new run, once every earlier one has ended.
LEMMA FreshTransfer ==
    ASSUME DownloadInv, DownloadTypeOK', NEW t, BeginTransfer(t),
           t = task \/ t = [task EXCEPT !.listed = TRUE],
           UNCHANGED storedFiles, \A c \in Resumers : resuming'[c] <= resuming[c],
           foreground' \notin {"idle", "starting"},
           ~staleUse' => /\ ~staleUse /\ task.status # "completed"
                         /\ \A k \in Transfers : TransferEnded(k)
    PROVE  DownloadInv'
  <1>1. /\ Len(transfer') = Len(transfer) + 1 /\ Len(transfer) \in Nat
        /\ Transfers' = Transfers \cup {Len(transfer')}
        /\ transfer'[Len(transfer')] = "opening"
        /\ \A k \in Transfers : transfer'[k] = transfer[k] /\ k # Len(transfer')
    BY DEF DownloadInv, DownloadTypeOK, BeginTransfer, Transfers
  <1>2. \A c \in Resumers : resuming'[c] <= Len(transfer')
    BY <1>1 DEF DownloadInv, DownloadTypeOK
  <1>3. task'.status = "running" /\ task'.file = task.file /\ ~task'.aborted
    BY DEF DownloadInv, DownloadTypeOK, BeginTransfer
  <1>4. ~staleUse' => OneAtATime'
    BY <1>1, <1>3 DEF OneAtATime, TransferEnded
  <1>5. FreshFiles'
    <2> SUFFICES ASSUME ~staleUse'
                 PROVE  /\ storedFiles = {k \in Transfers' : k = task'.file \/ Left(k)'}
                        /\ task'.file # 0 <=> task'.status = "completed"
                        /\ ~task'.aborted
      BY DEF FreshFiles
    <2>1. task.file = 0 /\ storedFiles = {k \in Transfers : Left(k)}
      BY <1>1 DEF DownloadInv, FreshFiles, Transfers, DownloadTypeOK
    <2>2. \A k \in Transfers' : k # 0 /\ (Left(k)' <=> k \in Transfers /\ Left(k))
      BY <1>1 DEF Transfers, DownloadInv, DownloadTypeOK, Left
    <2> QED BY <1>1, <2>1, <2>2, <1>3
  <1>6. NamedFileStays'
    BY <1>1, <1>3 DEF NamedFileStays, DownloadInv, DownloadTypeOK
  <1> QED
    BY <1>2, <1>4, <1>5, <1>6 DEF DownloadInv

\* A step of a run that stays where nothing is stored.
LEMMA TransferMoves ==
    ASSUME DownloadInv, DownloadTypeOK', NEW k \in Transfers, NEW stage \in Stages \ {"undoing", "orphaned"},
           ~Left(k), transfer[k] # "done", Reaches(k, stage),
           UNCHANGED <<storedFiles, resuming, foreground, staleUse>>,
           task'.listed = task.listed, task'.file = task.file, task'.aborted = task.aborted,
           task'.status = task.status \/ (task'.status = "failed" /\ transfer[k] # "cleaning"),
           transfer[k] = "cleaning" => stage = "done"
    PROVE  DownloadInv'
  <1>1. /\ Len(transfer') = Len(transfer) /\ Transfers' = Transfers
        /\ transfer'[k] = stage
        /\ \A i \in Transfers \ {k} : transfer'[i] = transfer[i]
    BY DEF DownloadInv, DownloadTypeOK, Reaches, Transfers
  <1>2. foreground \notin {"idle", "starting"}
    BY DEF DownloadInv, Transfers
  <1>3. ~staleUse' => OneAtATime'
    BY <1>1 DEF DownloadInv, OneAtATime, TransferEnded, Left
  <1>4. FreshFiles'
    <2>1. \A i \in Transfers : Left(i)' <=> Left(i)
      BY <1>1 DEF Left
    <2> QED
      BY <1>1, <2>1 DEF DownloadInv, OneAtATime, FreshFiles, Left
  <1>5. NamedFileStays'
    BY <1>1 DEF DownloadInv, DownloadTypeOK, NamedFileStays
  <1> QED
    BY <1>1, <1>2, <1>3, <1>4, <1>5 DEF DownloadInv

LEMMA DownloadTypes == DownloadInv /\ [DownloadNext]_downloadVars => DownloadTypeOK'
  <1> SUFFICES ASSUME DownloadInv, [DownloadNext]_downloadVars
               PROVE  DownloadTypeOK'
    OBVIOUS
  <1> USE DEF DownloadInv, DownloadTypeOK
  <1>1. CASE UNCHANGED downloadVars
    BY <1>1 DEF downloadVars, Transfers
  <1>2. CASE CallStart \/ StartReturns \/ PauseDownload \/ CancelDownload \/ CloseDownloads
             \/ CallRemove \/ RemoveDownload \/ CleanupSettled
    BY <1>2 DEF CallStart, StartReturns, PauseDownload, CancelDownload, CloseDownloads,
       CallRemove, RemoveDownload, CleanupSettled, InterruptTask, Transfers
  <1>3. ASSUME NEW t, t = task \/ t = [task EXCEPT !.listed = TRUE], BeginTransfer(t)
        PROVE  /\ task' \in [status : {"none", "running", "paused", "completed", "failed", "cancelled"},
                             listed : BOOLEAN, retryable : BOOLEAN, notify : BOOLEAN,
                             aborted : BOOLEAN, file : 0 .. MaxTransfers]
               /\ transfer' \in Seq(Stages) /\ Len(transfer') <= MaxTransfers
               /\ Transfers \subseteq Transfers'
    <2>1. t \in [status : {"none", "running", "paused", "completed", "failed", "cancelled"},
                 listed : BOOLEAN, retryable : BOOLEAN, notify : BOOLEAN,
                 aborted : BOOLEAN, file : 0 .. MaxTransfers]
      BY <1>3
    <2>2. "opening" \in Stages
      BY DEF Stages
    <2>3. /\ transfer' \in Seq(Stages) /\ Len(transfer') = Len(transfer) + 1
          /\ Transfers \subseteq Transfers'
      BY <1>3, <2>2 DEF BeginTransfer, Transfers
    <2>4. Len(transfer') <= MaxTransfers
      BY <1>3, <2>3, DownloadAssumption DEF BeginTransfer
    <2>5. task' \in [status : {"none", "running", "paused", "completed", "failed", "cancelled"},
                     listed : BOOLEAN, retryable : BOOLEAN, notify : BOOLEAN,
                     aborted : BOOLEAN, file : 0 .. MaxTransfers]
      BY <1>3, <2>1 DEF BeginTransfer
    <2> QED
      BY <2>3, <2>4, <2>5
  <1>4. CASE StartDownload
    BY <1>4, <1>3 DEF StartDownload
  <1>5. ASSUME NEW c \in Resumers, CallResume(c) \/ ResumeDownload(c)
        PROVE  DownloadTypeOK'
    <2>1. CASE CallResume(c)
      BY <2>1, DownloadAssumption DEF CallResume, Transfers
    <2>2. CASE ResumeDownload(c)
      BY <2>2, <1>3, DownloadAssumption DEF ResumeDownload
    <2> QED BY <1>5, <2>1, <2>2
  <1>6. ASSUME NEW k \in Transfers, TransferStep(k)
        PROVE  DownloadTypeOK'
    <2>1. ASSUME NEW stage \in Stages, Reaches(k, stage)
          PROVE  transfer' \in Seq(Stages) /\ Len(transfer') <= MaxTransfers /\ Transfers' = Transfers
      BY <2>1 DEF Reaches, Transfers
    <2>2. k \in 0 .. MaxTransfers
      BY DownloadAssumption DEF Transfers
    <2>3. CASE OpenTransfer(k) \/ Probed(k) \/ Downloaded(k)
      BY <1>6, <2>1, <2>3 DEF OpenTransfer, Probed, Downloaded, TurnsToImport, Stages
    <2>4. CASE Imported(k) \/ ImportUndone(k)
      <3>1. transfer' \in Seq(Stages) /\ Len(transfer') <= MaxTransfers /\ Transfers' = Transfers
        BY <2>1, <2>4 DEF Imported, ImportUndone, Stages
      <3>2. storedFiles' \subseteq Transfers
        BY <1>6, <2>4 DEF Imported, ImportUndone
      <3>3. task' \in [status : {"none", "running", "paused", "completed", "failed", "cancelled"},
                       listed : BOOLEAN, retryable : BOOLEAN, notify : BOOLEAN,
                       aborted : BOOLEAN, file : 0 .. MaxTransfers]
        BY <2>2, <2>4 DEF Imported, ImportUndone
      <3> QED
        BY <2>4, <3>1, <3>2, <3>3 DEF Imported, ImportUndone
    <2>5. CASE CompletionCleaned(k) \/ TransferFails(k)
      <3>1. transfer' \in Seq(Stages) /\ Len(transfer') <= MaxTransfers /\ Transfers' = Transfers
        BY <2>1, <2>5 DEF CompletionCleaned, TransferFails, Stages
      <3>2. reports' \subseteq Transfers
        BY <1>6, <2>5 DEF CompletionCleaned, TransferFails, Report
      <3>3. task' \in [status : {"none", "running", "paused", "completed", "failed", "cancelled"},
                       listed : BOOLEAN, retryable : BOOLEAN, notify : BOOLEAN,
                       aborted : BOOLEAN, file : 0 .. MaxTransfers]
        BY <2>5 DEF CompletionCleaned, TransferFails
      <3> QED
        BY <2>5, <3>1, <3>2, <3>3 DEF CompletionCleaned, TransferFails
    <2> QED BY <1>6, <2>3, <2>4, <2>5 DEF TransferStep
  <1> QED
    BY <1>1, <1>2, <1>4, <1>5, <1>6 DEF DownloadNext

LEMMA DownloadNextInv == DownloadInv /\ [DownloadNext]_downloadVars => DownloadInv'
  <1> SUFFICES ASSUME DownloadInv, [DownloadNext]_downloadVars
               PROVE  DownloadInv'
    OBVIOUS
  <1>0. DownloadTypeOK /\ DownloadTypeOK'
    BY DownloadTypes DEF DownloadInv
  <1>1. CASE UNCHANGED downloadVars
    BY <1>0, <1>1 DEF downloadVars, DownloadInv, OneAtATime, TransferEnded, NamedFileStays, Left,
                      FreshFiles, Transfers
  <1>2. CASE CallStart \/ StartReturns \/ PauseDownload \/ CancelDownload \/ CloseDownloads
             \/ CallRemove \/ RemoveDownload \/ CleanupSettled
    <2>1. /\ Transfers' = Transfers /\ transfer' = transfer
          /\ UNCHANGED <<resuming, storedFiles>> /\ task'.file = task.file
      BY <1>0, <1>2 DEF CallStart, StartReturns, PauseDownload, CancelDownload, CloseDownloads,
         CallRemove, RemoveDownload, CleanupSettled, InterruptTask, Transfers, DownloadTypeOK
    <2>2. ~staleUse' => ~staleUse /\ (task'.status = "completed" <=> task.status = "completed")
      BY <1>0, <1>2 DEF CallStart, StartReturns, PauseDownload, CancelDownload, CloseDownloads,
         CallRemove, RemoveDownload, CleanupSettled, InterruptTask, DownloadTypeOK
    <2>4. \/ task'.status = task.status /\ task'.aborted = task.aborted
          \/ task'.status \in {"paused", "cancelled"}
      BY <1>0, <1>2 DEF CallStart, StartReturns, PauseDownload, CancelDownload, CloseDownloads,
         CallRemove, RemoveDownload, CleanupSettled, InterruptTask, DownloadTypeOK
    <2>5. task'.status = "completed" => task.status = "completed"
      BY <1>0, <1>2 DEF CallStart, StartReturns, PauseDownload, CancelDownload, CloseDownloads,
         CallRemove, RemoveDownload, CleanupSettled, InterruptTask, DownloadTypeOK
    <2>3. foreground' \in {"idle", "starting"} =>
             transfer' = <<>> /\ ~task'.listed /\ task'.status = "none"
      BY <1>0, <1>2, <2>1 DEF CallStart, StartReturns, PauseDownload, CancelDownload,
         CloseDownloads, CallRemove, RemoveDownload, CleanupSettled, InterruptTask,
         DownloadTypeOK, DownloadInv
    <2> QED
      <3>1. ~staleUse' => OneAtATime'
        BY <2>1, <2>2 DEF DownloadInv, OneAtATime, TransferEnded
      <3>2. FreshFiles'
        BY <2>1, <2>2, <2>4 DEF DownloadInv, FreshFiles, Left
      <3>3. NamedFileStays'
        BY <2>1, <2>5 DEF DownloadInv, NamedFileStays
      <3> QED
        BY <1>0, <2>1, <2>3, <3>1, <3>2, <3>3 DEF DownloadInv
  <1>3. CASE StartDownload
    <2>1. Transfers = {} /\ task.status = "none"
      BY <1>3 DEF StartDownload, DownloadInv, Transfers
    <2>2. \A c \in Resumers : resuming'[c] <= resuming[c]
      BY <1>0, <1>3 DEF StartDownload, DownloadTypeOK
    <2> QED
      BY <1>0, <1>3, <2>1, <2>2, FreshTransfer DEF StartDownload
  <1>4. ASSUME NEW c \in Resumers, CallResume(c) \/ ResumeDownload(c)
        PROVE  DownloadInv'
    <2>1. CASE CallResume(c)
      <3>1. \A d \in Resumers : resuming'[d] <= Len(transfer)
        BY <1>0, <2>1 DEF CallResume, DownloadInv, DownloadTypeOK
      <3> QED
        BY <1>0, <2>1, <3>1 DEF CallResume, DownloadInv, OneAtATime, TransferEnded, NamedFileStays,
                                FreshFiles, Left, Transfers
    <2>2. CASE ResumeDownload(c)
      <3>1. resuming[c] \in Transfers /\ foreground \notin {"idle", "starting"}
        BY <1>0, <2>2 DEF ResumeDownload, DownloadInv, DownloadTypeOK, Transfers
      <3>2. ~staleUse' => /\ ~staleUse /\ task.status # "completed"
                          /\ \A k \in Transfers : TransferEnded(k)
        BY <1>0, <2>2, <3>1 DEF ResumeDownload, Resumable, DownloadInv, OneAtATime
      <3>3. \A d \in Resumers : resuming'[d] <= resuming[d]
        BY <1>0, <2>2 DEF ResumeDownload, DownloadTypeOK
      <3> QED
        BY <1>0, <2>2, <3>1, <3>2, <3>3, FreshTransfer DEF ResumeDownload
    <2> QED BY <1>4, <2>1, <2>2
  <1>5. ASSUME NEW k \in Transfers, TransferStep(k)
        PROVE  DownloadInv'
    <2>1. CASE OpenTransfer(k) \/ Probed(k) \/ Downloaded(k)
      BY <1>0, <2>1, TransferMoves
      DEF OpenTransfer, Probed, Downloaded, TurnsToImport, Stages, Left
    <2>2. CASE CompletionCleaned(k) \/ TransferFails(k)
      BY <1>0, <2>2, TransferMoves
      DEF CompletionCleaned, TransferFails, Stages, Left, DownloadTypeOK
    <2>3. CASE Imported(k) \/ ImportUndone(k)
      <3>1. /\ Transfers' = Transfers /\ Len(transfer') = Len(transfer)
            /\ \A i \in Transfers \ {k} : transfer'[i] = transfer[i]
            /\ foreground \notin {"idle", "starting"} /\ k # 0
            /\ UNCHANGED <<foreground, resuming, staleUse>>
        BY <1>0, <2>3 DEF Imported, ImportUndone, Reaches, DownloadTypeOK, DownloadInv, Transfers
      <3>2. CASE Imported(k) /\ task.status = "running"
        <4>1. /\ task'.status = "completed" /\ task'.file = k /\ task'.aborted = task.aborted /\ transfer'[k] = "cleaning"
              /\ storedFiles' = storedFiles \cup {k} /\ transfer[k] = "importing"
          BY <1>0, <3>2 DEF Imported, Reaches, DownloadTypeOK, Transfers
        <4>2. ~staleUse => \A i \in Transfers \ {k} : TransferEnded(i) /\ transfer'[i] = transfer[i]
          BY <3>1, <4>1 DEF DownloadInv, OneAtATime, TransferEnded
        <4>3. ~staleUse => task.file = 0
          BY <3>2, <4>1 DEF DownloadInv, FreshFiles
        <4>4. FreshFiles'
          <5>1. \A i \in Transfers : Left(i)' <=> Left(i)
            BY <3>1, <4>1 DEF Left
          <5>2. 0 \notin Transfers
            BY <1>0 DEF DownloadTypeOK, Transfers
          <5> QED
            BY <3>1, <3>2, <4>1, <4>3, <5>1, <5>2 DEF DownloadInv, FreshFiles
        <4>5. ~staleUse' => OneAtATime'
          BY <3>1, <4>1, <4>2 DEF OneAtATime, DownloadInv, TransferEnded
        <4>6. NamedFileStays'
          BY <3>1, <4>1 DEF NamedFileStays
        <4> QED
          BY <1>0, <3>1, <4>4, <4>5, <4>6 DEF DownloadInv
      <3>3. CASE Imported(k) /\ task.status # "running"
        <4>1. /\ task' = task /\ transfer'[k] = "undoing" /\ transfer[k] = "importing"
              /\ storedFiles' = storedFiles \cup {k}
          BY <1>0, <3>3 DEF Imported, Reaches, DownloadTypeOK, Transfers
        <4>2. ~staleUse' => OneAtATime'
          BY <3>1, <3>3, <4>1 DEF DownloadInv, OneAtATime, TransferEnded
        <4>3. FreshFiles'
          BY <3>1, <4>1 DEF DownloadInv, FreshFiles, Left
        <4>4. NamedFileStays'
          BY <3>1, <4>1 DEF DownloadInv, DownloadTypeOK, NamedFileStays
        <4> QED
          BY <1>0, <3>1, <4>1, <4>2, <4>3, <4>4 DEF DownloadInv
      <3>4. CASE ImportUndone(k)
        <4>1. /\ task' = task /\ transfer[k] = "undoing"
              /\ \/ storedFiles' = storedFiles \ {k} /\ transfer'[k] = "done"
                 \/ storedFiles' = storedFiles /\ transfer'[k] = "orphaned"
          BY <1>0, <3>4 DEF ImportUndone, Reaches, DownloadTypeOK, Transfers
        <4>2. ~staleUse' => OneAtATime'
          BY <3>1, <4>1 DEF DownloadInv, OneAtATime, TransferEnded
        <4>3. task.file # k
          BY <3>1, <4>1 DEF DownloadInv, NamedFileStays
        <4>4. FreshFiles'
          BY <3>1, <4>1, <4>3 DEF DownloadInv, FreshFiles, Left
        <4>5. NamedFileStays'
          BY <3>1, <4>1, <4>3 DEF DownloadInv, DownloadTypeOK, NamedFileStays
        <4> QED
          BY <1>0, <3>1, <4>1, <4>2, <4>4, <4>5 DEF DownloadInv
      <3> QED BY <2>3, <3>2, <3>3, <3>4
    <2> QED BY <1>5, <2>1, <2>2, <2>3 DEF TransferStep
  <1> QED
    BY <1>1, <1>2, <1>3, <1>4, <1>5 DEF DownloadNext

\* The file a download names is kept, however its calls and runs interleave.
\* Cancelling and pausing win over a concurrent import, and what was imported is
\* deleted again or its deletion failed, as long as nobody acts on a status that
\* changed during its await (downloadRuntime.ts).
THEOREM DownloadsKeepTheirFiles == DownloadSpec => []FilesAreAccounted
  <1>1. DownloadSpec => []DownloadInv
    BY DownloadInitInv, DownloadNextInv, PTL DEF DownloadSpec
  <1>2. DownloadInv => FilesAreAccounted
    BY DEF DownloadInv, NamedFileStays, FreshFiles, Left, FilesAreAccounted
  <1> QED
    BY <1>1, <1>2, PTL
=============================================================================
