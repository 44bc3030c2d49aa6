---------------------------- MODULE SessionData_proofs ----------------------------
(***************************************************************************)
(* What is kept of a session: its row, its history, and the turns that wait   *)
(* for their facts.                                                          *)
(***************************************************************************)
EXTENDS SessionStore, HistoryCompaction, ExtractionQueue, SequenceTheorems, TLAPS

-----------------------------------------------------------------------------
(* StoreIsCurrent, for any number of states of the session.                  *)
(*                                                                           *)
(* It is not inductive: that the row will be right follows from what the      *)
(* chain of writes ends with.  Goal is the state the database is heading for. *)

Goal == IF writes = <<>> THEN row ELSE writes[Len(writes)].state

\* What the database is heading for is what the memory holds, unless a save or
\* a removal is still to be asked for; also when the pending one will find no
\* session any more.
HeadsForMemory ==
    ~deleting /\ ~unsaved /\ (dirty => memory = 0) => Goal = memory

StoreInv ==
    /\ StoreTypeOK
    /\ up => HeadsForMemory
    /\ ~up => memory = 0 /\ ~dirty /\ ~deleting /\ ~unsaved /\ writes = <<>>

\* A chained write becomes the last one.
LEMMA ChainEnds ==
    ASSUME StoreTypeOK, NEW w \in Write, writes' = Append(writes, w)
    PROVE  /\ writes' \in Seq(Write) /\ writes' # <<>>
           /\ writes'[Len(writes')] = w
  BY DEF StoreTypeOK

\* A write that settles leaves the last one of a longer chain where it is.
LEMMA TailEnds ==
    ASSUME StoreTypeOK, writes # <<>>, writes' = Tail(writes)
    PROVE  /\ writes' \in Seq(Write)
           /\ Head(writes) \in Write
           /\ writes' # <<>> => writes'[Len(writes')] = writes[Len(writes)]
           /\ writes' = <<>> => Head(writes) = writes[Len(writes)]
  <1>1. writes \in Seq(Write) /\ writes # <<>>
    BY DEF StoreTypeOK
  <1>2. Tail(writes) \in Seq(Write) /\ Head(writes) \in Write
    BY <1>1
  <1>3. Len(Tail(writes)) = Len(writes) - 1 /\ Len(writes) \in Nat /\ Len(writes) > 0
    BY <1>1
  <1>4. CASE Tail(writes) = <<>>
    <2>1. Len(Tail(writes)) = 0
      <3>1. \A s : s = <<>> => Len(s) = 0
        OBVIOUS
      <3> QED
        BY <3>1, <1>4
    <2>2. Len(writes) = 1
      BY <2>1, <1>3
    <2> QED
      BY <2>2, <1>1, <1>2, <1>4
  <1>5. CASE Tail(writes) # <<>>
    <2>1. Len(Tail(writes)) > 0
      BY <1>2, <1>5
    <2>2. Tail(writes)[Len(writes) - 1] = writes[Len(writes)]
      BY <2>1, <1>1, <1>3
    <2> QED
      BY <2>2, <1>2, <1>3, <1>5
  <1> QED
    BY <1>4, <1>5

LEMMA StoreInitInv == StoreInit => StoreInv
  <1> SUFFICES ASSUME StoreInit PROVE StoreInv
    OBVIOUS
  <1>1. <<>> \in Seq(Write)
    OBVIOUS
  <1>2. 0 \in States
    BY MaxStatesAssumption DEF States
  <1>3. StoreTypeOK
    BY <1>1, <1>2 DEF StoreInit, StoreTypeOK
  <1>4. Goal = memory
    BY DEF StoreInit, Goal
  <1> QED
    BY <1>3, <1>4 DEF StoreInit, StoreInv, HeadsForMemory

LEMMA StoreNextInv == StoreInv /\ [StoreNext]_storeVars => StoreInv'
  <1> SUFFICES ASSUME StoreInv, [StoreNext]_storeVars
               PROVE  StoreInv'
    OBVIOUS
  <1> USE MaxStatesAssumption DEF StoreInv, StoreTypeOK, HeadsForMemory, Goal, States
  <1>0. newest < MaxStates => newest + 1 \in 1 .. MaxStates /\ newest + 1 \in States \ {0}
    OBVIOUS
  <1>1. CASE ChangeSession
    BY <1>1, <1>0 DEF ChangeSession, NewState
  <1>2. CASE PersistSession
    <2>1. CASE memory = 0
      <3>1. /\ ~dirty' /\ writes' = writes /\ unsaved' = unsaved
            /\ UNCHANGED <<memory, newest, row, deleting, restoring, previous, up>>
        BY <1>2, <2>1 DEF PersistSession
      <3>2. Goal' = Goal
        BY <3>1
      <3>3. dirty' \in BOOLEAN
        BY <1>2 DEF PersistSession
      <3> QED
        BY <2>1, <3>1, <3>2, <3>3
    <2>2. CASE memory # 0
      <3> DEFINE w == [kind |-> "save", state |-> memory]
      <3>1. w \in Write
        BY <2>2 DEF Write
      <3>2. writes' = Append(writes, w)
        BY <1>2, <2>2 DEF PersistSession, Chain
      <3>3. writes' \in Seq(Write) /\ writes' # <<>> /\ writes'[Len(writes')] = w
        BY <3>1, <3>2, ChainEnds
      <3>4. w.state = memory
        OBVIOUS
      <3> HIDE DEF w
      <3> QED
        BY <1>2, <2>2, <3>3, <3>4 DEF PersistSession
    <2> QED
      BY <2>1, <2>2
  <1>3. CASE DeleteSession
    BY <1>3 DEF DeleteSession
  <1>4. CASE RemoveRow
    <2> DEFINE w == [kind |-> "remove", state |-> 0]
    <2>1. w \in Write
      BY DEF Write
    <2>2. writes' = Append(writes, w)
      BY <1>4 DEF RemoveRow, Chain
    <2>3. writes' \in Seq(Write) /\ writes' # <<>> /\ writes'[Len(writes')] = w
      BY <2>1, <2>2, ChainEnds
    <2>4. w.state = 0
      OBVIOUS
    <2> HIDE DEF w
    <2> QED
      BY <1>4, <2>3, <2>4 DEF RemoveRow
  <1>5. CASE BeginRestore
    BY <1>5 DEF BeginRestore
  <1>6. CASE ApplyRestore
    <2> DEFINE w == [kind |-> "restore", state |-> newest + 1]
    <2>1. w \in Write
      BY <1>6, <1>0 DEF Write, ApplyRestore, NewState
    <2>2. writes' = Append(writes, w)
      BY <1>6 DEF ApplyRestore, Chain
    <2>3. writes' \in Seq(Write) /\ writes' # <<>> /\ writes'[Len(writes')] = w
      BY <2>1, <2>2, ChainEnds
    <2>4. w.state = newest + 1
      OBVIOUS
    <2> HIDE DEF w
    <2> QED
      BY <1>6, <2>3, <2>4, <1>0 DEF ApplyRestore, NewState
  <1>7. CASE RestoreFails
    BY <1>7 DEF RestoreFails
  <1>8. CASE WriteCommits
    <2>1. writes # <<>> /\ writes' = Tail(writes)
      BY <1>8 DEF WriteCommits
    <2>2. /\ writes' \in Seq(Write)
          /\ Head(writes) \in Write
          /\ writes' # <<>> => writes'[Len(writes')] = writes[Len(writes)]
          /\ writes' = <<>> => Head(writes) = writes[Len(writes)]
      BY <2>1, TailEnds
    <2>3. Head(writes).state \in States
      BY <2>2 DEF Write
    <2>4. restoring' \in {"no", "mode", "save"} /\ previous' \in States
      BY <1>8 DEF WriteCommits, Settles
    <2>5. row' = Head(writes).state
      BY <1>8 DEF WriteCommits
    <2>6. Goal' = Goal
      BY <2>1, <2>2, <2>5
    <2> QED
      BY <1>8, <2>2, <2>3, <2>4, <2>6 DEF WriteCommits
  <1>9. CASE WriteFails
    <2>1. writes # <<>> /\ writes' = Tail(writes)
      BY <1>9 DEF WriteFails
    <2>2. /\ writes' \in Seq(Write)
          /\ writes' # <<>> => writes'[Len(writes')] = writes[Len(writes)]
      BY <2>1, TailEnds
    <2>3. restoring' \in {"no", "mode", "save"} /\ previous' \in States
      BY <1>9 DEF WriteFails, Settles
    <2>4. memory' \in States
      BY <1>9 DEF WriteFails
    <2>5. unsaved' \in BOOLEAN /\ (~unsaved' => ~unsaved /\ writes' # <<>> /\ memory' = memory)
      BY <1>9 DEF WriteFails
    <2>6. ~unsaved' => Goal' = Goal
      BY <2>1, <2>2, <2>5
    <2>7. UNCHANGED <<newest, dirty, row, deleting, up>> /\ up
      BY <1>9 DEF WriteFails
    <2>8. StoreTypeOK'
      BY <2>2, <2>3, <2>4, <2>5, <2>7
    <2>9. HeadsForMemory'
      BY <2>5, <2>6, <2>7
    <2>10. up' /\ (up' => HeadsForMemory')
      BY <2>7, <2>9
    <2> HIDE DEF StoreTypeOK, HeadsForMemory
    <2> QED
      BY <2>8, <2>10
  <1>10. CASE Stops
    <2>1. <<>> \in Seq(Write) /\ 0 \in States
      OBVIOUS
    <2>2. StoreTypeOK'
      BY <1>10, <2>1 DEF Stops
    <2> HIDE DEF StoreTypeOK
    <2> QED
      BY <1>10, <2>2 DEF Stops
  <1>11. CASE Starts
    BY <1>11 DEF Starts
  <1>12. CASE UNCHANGED storeVars
    BY <1>12 DEF storeVars
  <1> QED
    BY <1>1, <1>2, <1>3, <1>4, <1>5, <1>6, <1>7, <1>8, <1>9, <1>10, <1>11, <1>12 DEF StoreNext

\* Whatever overlaps, fails or is stopped, and however often: once every write
\* has settled the database holds what the memory holds, a deleted session not
\* at all (sessionPersistence.ts, enqueueWrite).
THEOREM SettledRowsAreCurrent == StoreSpec => []StoreIsCurrent
  <1>1. StoreInv => StoreIsCurrent
    BY DEF StoreInv, HeadsForMemory, Goal, StoreIsCurrent
  <1> QED
    BY <1>1, StoreInitInv, StoreNextInv, PTL DEF StoreSpec

-----------------------------------------------------------------------------
(* The transcript and its summary, for any number of items and edits.        *)
(*                                                                           *)
(* HistoryIsWhole is not inductive: a snapshot of the session has to be as    *)
(* whole as the session, what is hidden, missed or summarised has to be told  *)
(* apart, and a summary under way has to fit the transcript as long as it has *)
(* the revision of its snapshot.                                              *)

Told(h) == {h.transcript[i].time : i \in DOMAIN h.transcript}

\* A history at the time n, with the messages `away` missed.
Sound(h, n, away) ==
    /\ \A i, j \in DOMAIN h.transcript :
          i < j => h.transcript[i].time < h.transcript[j].time
    /\ \A i \in DOMAIN h.transcript :
          LET it == h.transcript[i] IN
          /\ it.time <= n /\ it.time \notin away
          /\ it.excluded = "no" => it.time \notin h.summary \cup h.hidden
          /\ it.message /\ it.excluded = "no" => \A t \in h.summary : t < it.time
          /\ it.message /\ it.excluded = "history_compressed" => it.time \in h.summary
    /\ h.summary \subseteq Told(h) /\ h.hidden \subseteq Told(h)
    /\ h.summary \cap h.hidden = {}
    /\ \A t \in h.summary : t < h.boundary

\* What a compaction will put into the summary, and up to which item.
Fits ==
    Compacting =>
        /\ compaction.revision <= revision
        /\ compaction.revision = revision =>
              /\ compaction.keepFrom - 1 \in Positions
              /\ LlmVisible(compaction.keepFrom - 1)
              /\ compaction.summary = chat.summary \cup
                    {chat.transcript[i].time : i \in
                        {j \in 1 .. compaction.keepFrom - 1 : LlmVisible(j)}}

HistoryInv ==
    /\ HistoryTypeOK
    /\ ~replaced => /\ Sound(chat, now, missed) /\ Sound(snapshot, now, missed)
                    /\ missed \subseteq 1 .. now
                    /\ Fits

LEMMA EntryFacts ==
    ASSUME NEW h \in History
    PROVE  /\ h.transcript \in Seq(Entry) /\ DOMAIN h.transcript = 1 .. Len(h.transcript)
           /\ Len(h.transcript) \in Nat
           /\ h.summary \subseteq Times /\ h.hidden \subseteq Times /\ h.boundary \in Nat
           /\ \A i \in DOMAIN h.transcript :
                 /\ h.transcript[i] \in Entry /\ h.transcript[i].time \in Times
                 /\ h.transcript[i].message \in BOOLEAN
                 /\ h.transcript[i].excluded \in {"no", "history_compressed", "manual"}
  <1>1. h.transcript \in Seq(Entry)
    BY DEF History
  <1>2. \A i \in DOMAIN h.transcript : h.transcript[i] \in Entry
    BY <1>1
  <1>3. QED
    BY <1>1, <1>2 DEF History, Entry

\* A history that does not change stays sound: what comes later is not in it.
LEMMA SoundLater ==
    ASSUME NEW h \in History, NEW n \in Nat, NEW away, Sound(h, n, away),
           NEW k \in Nat, n <= k, NEW later, \A t \in later : t \in away \/ t > n
    PROVE  Sound(h, k, later)
  <1>1. \A i \in DOMAIN h.transcript : h.transcript[i].time \in Nat
    BY EntryFacts, HistoryAssumption DEF Times
  <1>2. QED
    BY <1>1 DEF Sound, Told

LEMMA SoundEmpty ==
    ASSUME NEW n \in Nat, NEW k \in Nat, NEW away
    PROVE  Sound(Empty(k), n, away) /\ Empty(k) \in History
  BY DEF Empty, Sound, Told, History

\* The three fields of a history apart, when only the transcript changes.
LEMMA OnlyTranscript ==
    ASSUME NEW h \in History, NEW s \in Seq(Entry)
    PROVE  LET g == [h EXCEPT !.transcript = s] IN
           /\ g \in History /\ g.transcript = s /\ g.summary = h.summary
           /\ g.hidden = h.hidden /\ g.boundary = h.boundary
  BY DEF History

LEMMA SoundAppend ==
    ASSUME NEW h \in History, NEW n \in Nat, n + 1 \in Times, NEW away,
           away \subseteq 1 .. n, Sound(h, n, away), NEW message \in BOOLEAN
    PROVE  LET g == [h EXCEPT !.transcript = Append(@, NewEntry(n + 1, message))] IN
           g \in History /\ Sound(g, n + 1, away)
  <1> DEFINE e == NewEntry(n + 1, message)
             s == Append(h.transcript, e)
             g == [h EXCEPT !.transcript = s]
             last == Len(h.transcript) + 1
  <1>1. /\ e \in Entry /\ e.time = n + 1 /\ e.message = message /\ e.excluded = "no"
    BY DEF NewEntry, Entry
  <1> HIDE DEF e
  <1>2. /\ s \in Seq(Entry) /\ DOMAIN s = DOMAIN h.transcript \cup {last}
        /\ last \notin DOMAIN h.transcript
        /\ \A i \in DOMAIN h.transcript : s[i] = h.transcript[i] /\ i \in Nat /\ i < last
        /\ s[last] = e
    BY <1>1, EntryFacts
  <1>3. /\ g \in History /\ g.transcript = s /\ g.summary = h.summary
        /\ g.hidden = h.hidden /\ g.boundary = h.boundary
    BY <1>2, OnlyTranscript
  <1> HIDE DEF s, g
  <1>4. \A i \in DOMAIN h.transcript : h.transcript[i].time \in Nat /\ h.transcript[i].time <= n
    BY EntryFacts, HistoryAssumption DEF Times, Sound
  <1>5. \A t \in h.summary \cup h.hidden : t \in Nat /\ t <= n
    BY <1>4 DEF Sound, Told
  <1>6. \A i, j \in DOMAIN s : i < j => s[i].time < s[j].time
    <2> SUFFICES ASSUME NEW i \in DOMAIN s, NEW j \in DOMAIN s, i < j
                 PROVE  s[i].time < s[j].time
      OBVIOUS
    <2>1. i \in DOMAIN h.transcript
      BY <1>2, EntryFacts
    <2>2. CASE j \in DOMAIN h.transcript
      BY <1>2, <2>1, <2>2 DEF Sound
    <2>3. CASE j = last
      BY <1>1, <1>2, <1>4, <2>1, <2>3
    <2>4. QED BY <1>2, <2>2, <2>3
  <1>7. \A i \in DOMAIN s :
           /\ s[i].time <= n + 1 /\ s[i].time \notin away
           /\ s[i].excluded = "no" => s[i].time \notin h.summary \cup h.hidden
           /\ s[i].message /\ s[i].excluded = "no" => \A t \in h.summary : t < s[i].time
           /\ s[i].message /\ s[i].excluded = "history_compressed" => s[i].time \in h.summary
    <2> SUFFICES ASSUME NEW i \in DOMAIN s
                 PROVE
           /\ s[i].time <= n + 1 /\ s[i].time \notin away
           /\ s[i].excluded = "no" => s[i].time \notin h.summary \cup h.hidden
           /\ s[i].message /\ s[i].excluded = "no" => \A t \in h.summary : t < s[i].time
           /\ s[i].message /\ s[i].excluded = "history_compressed" => s[i].time \in h.summary
      OBVIOUS
    <2>1. CASE i \in DOMAIN h.transcript
      BY <1>2, <1>4, <2>1 DEF Sound
    <2>2. CASE i = last
      BY <1>1, <1>2, <1>5, <2>2
    <2>3. QED BY <1>2, <2>1, <2>2
  <1>8. Told(h) \subseteq Told(g)
    BY <1>2, <1>3 DEF Told
  <1>9. Sound(g, n + 1, away)
    BY <1>3, <1>6, <1>7, <1>8 DEF Sound
  <1>10. QED
    BY <1>3, <1>9 DEF g, s, e

\* The item e is inserted into q at k.
Inserted(s, q, k, e) ==
    /\ s \in Seq(Entry) /\ Len(s) = Len(q) + 1
    /\ \A i \in 1 .. (Len(q) + 1) : s[i] =
          IF i < k THEN q[i] ELSE IF i = k THEN e ELSE q[i - 1]

LEMMA InsertAtFacts ==
    ASSUME NEW q \in Seq(Entry), NEW k \in 1 .. (Len(q) + 1), NEW e \in Entry
    PROVE  Inserted(InsertAt(q, k, e), q, k, e)
  <1> DEFINE a == SubSeq(q, 1, k - 1)
             b == SubSeq(q, k, Len(q))
             c == <<e>>
             ac == a \o c
             acb == ac \o b
  <1>1. /\ Len(q) \in Nat /\ k \in Nat /\ 1 <= k /\ k <= Len(q) + 1
        /\ \A i \in 1 .. Len(q) : q[i] \in Entry
    OBVIOUS
  <1>2. /\ a \in Seq(Entry) /\ Len(a) = k - 1 /\ \A i \in 1 .. (k - 1) : a[i] = q[i]
    <2>1. \A i \in 1 .. (k - 1) : q[i] \in Entry
      BY <1>1
    <2>2. /\ a \in Seq(Entry) /\ Len(a) = IF 1 <= k - 1 THEN (k - 1) - 1 + 1 ELSE 0
          /\ \A i \in 1 .. ((k - 1) - 1 + 1) : a[i] = q[1 + i - 1]
      BY <1>1, <2>1, SubSeqProperties
    <2> HIDE DEF a
    <2>3. (k - 1) - 1 + 1 = k - 1 /\ \A i \in Int : 1 + i - 1 = i
      BY <1>1
    <2>4. QED BY <1>1, <2>2, <2>3
  <1>3. /\ b \in Seq(Entry) /\ Len(b) = Len(q) - k + 1
        /\ \A i \in 1 .. (Len(q) - k + 1) : b[i] = q[k + i - 1]
    <2>1. \A i \in k .. Len(q) : q[i] \in Entry
      BY <1>1
    <2>2. /\ b \in Seq(Entry) /\ Len(b) = IF k <= Len(q) THEN Len(q) - k + 1 ELSE 0
          /\ \A i \in 1 .. (Len(q) - k + 1) : b[i] = q[k + i - 1]
      BY <1>1, <2>1, SubSeqProperties
    <2> HIDE DEF b
    <2>3. QED BY <1>1, <2>2
  <1>4. InsertAt(q, k, e) = acb
    BY DEF InsertAt
  <1>5. c \in Seq(Entry) /\ Len(c) = 1 /\ c[1] = e
    OBVIOUS
  <1> HIDE DEF a, b, c
  <1>6. /\ ac \in Seq(Entry) /\ Len(ac) = k
        /\ \A i \in 1 .. k : ac[i] = IF i < k THEN q[i] ELSE e
    <2>1. /\ ac \in Seq(Entry) /\ Len(ac) = Len(a) + Len(c)
          /\ \A i \in 1 .. (Len(a) + Len(c)) : ac[i] =
                 IF i <= Len(a) THEN a[i] ELSE c[i - Len(a)]
      BY <1>2, <1>5, ConcatProperties
    <2> HIDE DEF ac
    <2>2. QED
      BY <1>1, <1>2, <1>5, <2>1
  <1> HIDE DEF ac
  <1>7. /\ acb \in Seq(Entry) /\ Len(acb) = Len(ac) + Len(b)
        /\ \A i \in 1 .. (Len(ac) + Len(b)) : acb[i] =
               IF i <= Len(ac) THEN ac[i] ELSE b[i - Len(ac)]
    BY <1>3, <1>6, ConcatProperties
  <1> HIDE DEF acb
  <1>8. Len(acb) = Len(q) + 1
    BY <1>1, <1>3, <1>6, <1>7
  <1>9. ASSUME NEW i \in 1 .. (Len(q) + 1)
        PROVE  acb[i] = IF i < k THEN q[i] ELSE IF i = k THEN e ELSE q[i - 1]
    <2>1. CASE i <= k
      BY <1>1, <1>3, <1>6, <1>7, <2>1
    <2>2. CASE ~(i <= k)
      <3>1. i - k \in 1 .. (Len(q) - k + 1) /\ k + (i - k) - 1 = i - 1
        BY <1>1, <2>2
      <3>2. acb[i] = b[i - k]
        BY <1>1, <1>3, <1>6, <1>7, <2>2
      <3>3. b[i - k] = q[i - 1]
        BY <1>3, <3>1
      <3>4. QED BY <1>1, <2>2, <3>2, <3>3
    <2>3. QED BY <1>1, <2>1, <2>2
  <1>10. QED
    BY <1>4, <1>7, <1>8, <1>9 DEF Inserted

\* What was missed is inserted where it belongs, and not before the boundary.
LEMMA SoundInsert ==
    ASSUME NEW h \in History, NEW n \in Nat, NEW away, Sound(h, n, away),
           NEW t \in Times, t <= n, t \in away, t >= h.boundary,
           NEW p \in {0} \cup DOMAIN h.transcript,
           p # 0 => h.transcript[p].time <= t,
           \A i \in DOMAIN h.transcript : i > p => h.transcript[i].time > t
    PROVE  LET g == [h EXCEPT !.transcript = InsertAt(@, p + 1, NewEntry(t, TRUE))] IN
           g \in History /\ Sound(g, n, away \ {t})
  <1> DEFINE e == NewEntry(t, TRUE)
             s == InsertAt(h.transcript, p + 1, e)
             g == [h EXCEPT !.transcript = s]
             len == Len(h.transcript)
  <1>1. /\ e \in Entry /\ e.time = t /\ e.message = TRUE /\ e.excluded = "no"
    BY DEF NewEntry, Entry
  <1> HIDE DEF e
  <1>t. /\ h.transcript \in Seq(Entry) /\ DOMAIN h.transcript = 1 .. len /\ len \in Nat
        /\ p \in 0 .. len /\ t \in Nat
        /\ \A i \in DOMAIN h.transcript : h.transcript[i].time \in Nat
        /\ \A u \in h.summary \cup h.hidden : u \in Nat
    BY EntryFacts, HistoryAssumption DEF Times
  <1>2. /\ s \in Seq(Entry) /\ Len(s) = len + 1 /\ DOMAIN s = 1 .. (len + 1)
        /\ \A i \in 1 .. p : s[i] = h.transcript[i]
        /\ s[p + 1] = e
        /\ \A i \in (p + 2) .. (len + 1) : s[i] = h.transcript[i - 1]
    <2>1. /\ s \in Seq(Entry) /\ Len(s) = len + 1
          /\ \A i \in 1 .. (len + 1) : s[i] =
                IF i <= p THEN h.transcript[i] ELSE IF i = p + 1 THEN e ELSE h.transcript[i - 1]
      <3> DEFINE k == p + 1
                 q == h.transcript
      <3>1. k \in 1 .. (Len(q) + 1) /\ q \in Seq(Entry) /\ e \in Entry
        BY <1>1, <1>t
      <3>2. s = InsertAt(q, k, e)
        OBVIOUS
      <3> HIDE DEF s, k, q
      <3>3. /\ s \in Seq(Entry) /\ Len(s) = Len(q) + 1
            /\ \A i \in 1 .. (Len(q) + 1) : s[i] =
                  IF i < k THEN q[i] ELSE IF i = k THEN e ELSE q[i - 1]
        <4>1. Inserted(s, q, k, e)
          BY <3>1, <3>2, InsertAtFacts
        <4>2. QED BY <4>1 DEF Inserted
      <3>4. QED BY <1>t, <3>3 DEF k, q
    <2> HIDE DEF s
    <2>2. DOMAIN s = 1 .. (len + 1)
      BY <2>1
    <2>3. QED
      BY <1>t, <2>1, <2>2
  <1>3. /\ g \in History /\ g.transcript = s /\ g.summary = h.summary
        /\ g.hidden = h.hidden /\ g.boundary = h.boundary
    BY <1>2, OnlyTranscript
  <1> HIDE DEF s, g
  <1>4. \A i \in 1 .. p : h.transcript[i].time < t
    <2>1. ASSUME NEW i \in 1 .. p PROVE h.transcript[i].time < t
      <3>1. p \in DOMAIN h.transcript /\ i \in DOMAIN h.transcript /\ p # 0
        BY <1>t
      <3>2. h.transcript[p].time < t
        BY <3>1, <1>t DEF Sound
      <3>3. i = p \/ h.transcript[i].time < h.transcript[p].time
        BY <3>1, <1>t DEF Sound
      <3>4. QED BY <3>1, <3>2, <3>3, <1>t
    <2>2. QED BY <2>1
  <1>5. \A i \in DOMAIN s :
           \/ i \in 1 .. p /\ i \in DOMAIN h.transcript /\ s[i] = h.transcript[i]
           \/ i = p + 1 /\ s[i] = e
           \/ i - 1 > p /\ i - 1 \in DOMAIN h.transcript /\ s[i] = h.transcript[i - 1]
    <2> SUFFICES ASSUME NEW i \in 1 .. (len + 1)
                 PROVE  \/ i \in 1 .. p /\ i \in DOMAIN h.transcript /\ s[i] = h.transcript[i]
                        \/ i = p + 1 /\ s[i] = e
                        \/ i - 1 > p /\ i - 1 \in DOMAIN h.transcript /\ s[i] = h.transcript[i - 1]
      BY <1>2
    <2> HIDE DEF len
    <2>1. i \in 1 .. p \/ i = p + 1 \/ i \in (p + 2) .. (len + 1)
      BY <1>t
    <2>2. CASE i \in 1 .. p
      BY <1>t, <1>2, <2>2
    <2>3. CASE i = p + 1
      BY <1>2, <2>3
    <2>4. CASE i \in (p + 2) .. (len + 1)
      <3>1. i - 1 > p /\ i - 1 \in 1 .. len
        BY <1>t, <2>4
      <3>2. QED BY <3>1, <1>t, <1>2, <2>4
    <2>5. QED BY <2>1, <2>2, <2>3, <2>4
  <1>6. \A i, j \in DOMAIN s : i < j => s[i].time < s[j].time
    <2> SUFFICES ASSUME NEW i \in DOMAIN s, NEW j \in DOMAIN s, i < j
                 PROVE  s[i].time < s[j].time
      OBVIOUS
    <2>0. i \in Nat /\ j \in Nat /\ p \in Nat
      BY <1>t, <1>2
    <2>1. CASE i \in 1 .. p /\ i \in DOMAIN h.transcript /\ s[i] = h.transcript[i]
      <3>1. CASE j = p + 1 /\ s[j] = e
        BY <1>1, <1>4, <2>1, <3>1
      <3>2. CASE j \in 1 .. p /\ j \in DOMAIN h.transcript /\ s[j] = h.transcript[j]
        BY <2>1, <3>2 DEF Sound
      <3>3. CASE j - 1 > p /\ j - 1 \in DOMAIN h.transcript /\ s[j] = h.transcript[j - 1]
        BY <2>0, <2>1, <3>3 DEF Sound
      <3>4. QED BY <1>5, <3>1, <3>2, <3>3
    <2>2. CASE i = p + 1 /\ s[i] = e
      <3>1. j - 1 > p /\ j - 1 \in DOMAIN h.transcript /\ s[j] = h.transcript[j - 1]
        BY <1>5, <2>0, <2>2
      <3>2. QED BY <1>1, <1>t, <2>2, <3>1
    <2>3. CASE i - 1 > p /\ i - 1 \in DOMAIN h.transcript /\ s[i] = h.transcript[i - 1]
      <3>1. j - 1 > p /\ j - 1 \in DOMAIN h.transcript /\ s[j] = h.transcript[j - 1]
        BY <1>5, <2>0, <2>3
      <3>2. i - 1 < j - 1
        BY <2>0
      <3>3. QED BY <2>3, <3>1, <3>2 DEF Sound
    <2>4. QED BY <1>5, <2>1, <2>2, <2>3
  <1>7. /\ t \notin h.summary /\ t \notin h.hidden
        /\ \A u \in h.summary : u < t
    <2>1. \A i \in DOMAIN h.transcript : h.transcript[i].time # t
      BY DEF Sound
    <2>2. t \notin Told(h)
      BY <2>1 DEF Told
    <2>3. \A u \in h.summary : u < t
      BY <1>t, EntryFacts DEF Sound
    <2>4. QED BY <2>2, <2>3 DEF Sound
  <1>8. \A i \in DOMAIN s :
           /\ s[i].time <= n /\ s[i].time \notin away \ {t}
           /\ s[i].excluded = "no" => s[i].time \notin h.summary \cup h.hidden
           /\ s[i].message /\ s[i].excluded = "no" => \A u \in h.summary : u < s[i].time
           /\ s[i].message /\ s[i].excluded = "history_compressed" => s[i].time \in h.summary
    <2> SUFFICES ASSUME NEW i \in DOMAIN s
                 PROVE
           /\ s[i].time <= n /\ s[i].time \notin away \ {t}
           /\ s[i].excluded = "no" => s[i].time \notin h.summary \cup h.hidden
           /\ s[i].message /\ s[i].excluded = "no" => \A u \in h.summary : u < s[i].time
           /\ s[i].message /\ s[i].excluded = "history_compressed" => s[i].time \in h.summary
      OBVIOUS
    <2>1. CASE s[i] = e
      BY <1>1, <1>7, <2>1
    <2>2. ASSUME NEW k \in DOMAIN h.transcript, s[i] = h.transcript[k]
          PROVE
           /\ s[i].time <= n /\ s[i].time \notin away \ {t}
           /\ s[i].excluded = "no" => s[i].time \notin h.summary \cup h.hidden
           /\ s[i].message /\ s[i].excluded = "no" => \A u \in h.summary : u < s[i].time
           /\ s[i].message /\ s[i].excluded = "history_compressed" => s[i].time \in h.summary
      BY <2>2 DEF Sound
    <2>3. QED BY <1>5, <2>1, <2>2
  <1>9. Told(h) \subseteq Told(g)
    <2>1. ASSUME NEW i \in DOMAIN h.transcript PROVE h.transcript[i].time \in Told(g)
      <3>1. i \in 1 .. p \/ i + 1 \in (p + 2) .. (len + 1)
        BY <1>t
      <3> HIDE DEF len
      <3>2. CASE i \in 1 .. p
        BY <1>t, <1>2, <1>3, <3>2 DEF Told
      <3>3. CASE i + 1 \in (p + 2) .. (len + 1)
        <4>1. i + 1 \in 1 .. (len + 1) /\ (i + 1) - 1 = i
          BY <1>t, <3>3
        <4>2. s[i + 1] = h.transcript[i]
          BY <1>2, <3>3, <4>1
        <4>3. QED BY <1>2, <1>3, <4>1, <4>2 DEF Told
      <3>4. QED BY <3>1, <3>2, <3>3
    <2>2. QED BY <2>1 DEF Told
  <1>10. Sound(g, n, away \ {t})
    BY <1>3, <1>6, <1>8, <1>9 DEF Sound
  <1>11. QED
    BY <1>3, <1>10 DEF g, s, e

\* Hiding items: none of the newly hidden ones is in the summary.
LEMMA SoundExclude ==
    ASSUME NEW h \in History, NEW n, NEW away, Sound(h, n, away),
           NEW which \in SUBSET DOMAIN h.transcript
    PROVE  LET g == [h EXCEPT
                !.transcript = [i \in DOMAIN h.transcript |->
                    IF i \in which THEN [@[i] EXCEPT !.excluded = "manual"] ELSE @[i]],
                !.hidden = @ \cup {h.transcript[i].time : i \in
                    {j \in which : h.transcript[j].excluded = "no"}}] IN
           g \in History /\ Sound(g, n, away)
  <1> DEFINE old == h.transcript
             s == [i \in DOMAIN old |->
                      IF i \in which THEN [old[i] EXCEPT !.excluded = "manual"] ELSE old[i]]
             more == {old[i].time : i \in {j \in which : old[j].excluded = "no"}}
             g == [h EXCEPT !.transcript = s, !.hidden = h.hidden \cup more]
  <1>1. \A i \in DOMAIN old : old[i] \in Entry /\ old[i].time \in Times
    BY EntryFacts
  <1>2. /\ DOMAIN s = DOMAIN old
        /\ \A i \in DOMAIN old :
              /\ s[i] \in Entry /\ s[i].time = old[i].time /\ s[i].message = old[i].message
              /\ s[i].excluded = IF i \in which THEN "manual" ELSE old[i].excluded
    BY <1>1 DEF Entry
  <1>3. s \in Seq(Entry)
    <2>1. DOMAIN old = 1 .. Len(old) /\ Len(old) \in Nat
      BY EntryFacts
    <2>2. s \in [1 .. Len(old) -> Entry]
      BY <1>2, <2>1
    <2>3. QED
      BY <2>1, <2>2
  <1>4. more \subseteq Times /\ more \subseteq Told(h) /\ more \cap h.summary = {}
        /\ \A t \in more : \E j \in which : old[j].time = t
    BY <1>1 DEF Sound, Told
  <1>5. /\ g \in History /\ g.transcript = s /\ g.summary = h.summary
        /\ g.hidden = h.hidden \cup more /\ g.boundary = h.boundary
    BY <1>3, <1>4 DEF History
  <1> HIDE DEF s, g, more
  <1>6. Told(g) = Told(h)
    BY <1>2, <1>5 DEF Told
  <1>7. \A i, j \in DOMAIN s : i < j => s[i].time < s[j].time
    BY <1>2 DEF Sound
  <1>8. \A i, j \in DOMAIN old : i # j => old[i].time # old[j].time
    <2>1. \A i, j \in DOMAIN old : i # j => i < j \/ j < i
      BY EntryFacts
    <2>2. \A i \in DOMAIN old : old[i].time \in Nat
      BY <1>1, HistoryAssumption DEF Times
    <2>3. QED
      BY <2>1, <2>2 DEF Sound
  <1>9. \A i \in DOMAIN s :
           /\ s[i].time <= n /\ s[i].time \notin away
           /\ s[i].excluded = "no" => s[i].time \notin h.summary \cup h.hidden \cup more
           /\ s[i].message /\ s[i].excluded = "no" => \A u \in h.summary : u < s[i].time
           /\ s[i].message /\ s[i].excluded = "history_compressed" => s[i].time \in h.summary
    BY <1>2, <1>4, <1>8 DEF Sound
  <1>10. Sound(g, n, away)
    BY <1>4, <1>5, <1>6, <1>7, <1>9 DEF Sound
  <1>11. QED
    BY <1>5, <1>10 DEF g, s, more

\* Where the summary is put in, item by item.
Compressed(h, told, keep, edge) ==
    [h EXCEPT
        !.summary = told,
        !.boundary = IF keep \in DOMAIN h.transcript THEN h.transcript[keep].time ELSE edge,
        !.transcript = [i \in DOMAIN h.transcript |->
            IF i < keep /\ @[i].excluded = "no"
            THEN [@[i] EXCEPT !.excluded = "history_compressed"] ELSE @[i]]]

CompressedTo(g, h, told, keep, edge) ==
    /\ g \in History /\ g.summary = told /\ g.hidden = h.hidden
    /\ g.boundary = IF keep \in DOMAIN h.transcript THEN h.transcript[keep].time ELSE edge
    /\ DOMAIN g.transcript = DOMAIN h.transcript
    /\ \A i \in DOMAIN h.transcript :
          /\ g.transcript[i].time = h.transcript[i].time
          /\ g.transcript[i].message = h.transcript[i].message
          /\ g.transcript[i].excluded =
                IF i < keep /\ h.transcript[i].excluded = "no"
                THEN "history_compressed" ELSE h.transcript[i].excluded

LEMMA CompressFacts ==
    ASSUME NEW h \in History, NEW told \in SUBSET Times, NEW keep, NEW edge \in Nat
    PROVE  CompressedTo(Compressed(h, told, keep, edge), h, told, keep, edge)
  <1> DEFINE old == h.transcript
             s == [i \in DOMAIN old |->
                     IF i < keep /\ old[i].excluded = "no"
                     THEN [old[i] EXCEPT !.excluded = "history_compressed"] ELSE old[i]]
             b == IF keep \in DOMAIN old THEN old[keep].time ELSE edge
             g == Compressed(h, told, keep, edge)
  <1>0. g = [h EXCEPT !.summary = told, !.boundary = b, !.transcript = s]
    BY DEF Compressed
  <1>1. /\ \A i \in DOMAIN old : old[i] \in Entry /\ old[i].time \in Nat
        /\ DOMAIN old = 1 .. Len(old) /\ Len(old) \in Nat
    BY EntryFacts, HistoryAssumption DEF Times
  <1>2. /\ DOMAIN s = DOMAIN old
        /\ \A i \in DOMAIN old :
              /\ s[i] \in Entry /\ s[i].time = old[i].time /\ s[i].message = old[i].message
              /\ s[i].excluded = IF i < keep /\ old[i].excluded = "no"
                                 THEN "history_compressed" ELSE old[i].excluded
    BY <1>1 DEF Entry
  <1>3. s \in Seq(Entry)
    <2>1. s \in [1 .. Len(old) -> Entry]
      BY <1>1, <1>2
    <2>2. QED BY <1>1, <2>1
  <1>4. b \in Nat
    BY <1>1
  <1> HIDE DEF s, b, g
  <1>5. /\ g \in History /\ g.summary = told /\ g.hidden = h.hidden
        /\ g.boundary = b /\ g.transcript = s
    BY <1>0, <1>3, <1>4 DEF History
  <1>6. /\ g \in History /\ g.summary = told /\ g.hidden = h.hidden /\ g.boundary = b
        /\ DOMAIN g.transcript = DOMAIN h.transcript
        /\ \A i \in DOMAIN h.transcript :
              /\ g.transcript[i].time = h.transcript[i].time
              /\ g.transcript[i].message = h.transcript[i].message
              /\ g.transcript[i].excluded =
                    IF i < keep /\ h.transcript[i].excluded = "no"
                    THEN "history_compressed" ELSE h.transcript[i].excluded
    BY <1>2, <1>5
  <1>7. QED BY <1>6 DEF b, g, CompressedTo

\* The summary arrives for the transcript it was made from, which may have
\* got longer: what it tells of is before everything that stays visible.
LEMMA SoundCompress ==
    ASSUME NEW h \in History, NEW n \in Nat, NEW away, Sound(h, n, away),
           NEW last \in DOMAIN h.transcript,
           h.transcript[last].message, h.transcript[last].excluded = "no",
           NEW told, h.summary \subseteq told,
           \A i \in 1 .. last : h.transcript[i].message /\ h.transcript[i].excluded = "no"
                                   => h.transcript[i].time \in told,
           \A t \in told : \/ t \in h.summary
                           \/ \E i \in 1 .. last : /\ h.transcript[i].message
                                                   /\ h.transcript[i].excluded = "no"
                                                   /\ h.transcript[i].time = t,
           told \in SUBSET Times, NEW keep, keep = last + 1,
           NEW after \in Nat, after = n + 1,
           NEW g, CompressedTo(g, h, told, keep, after)
    PROVE  Sound(g, n, away)
  <1> DEFINE old == h.transcript
             s == g.transcript
             edge == g.boundary
  <1>0. /\ g \in History /\ g.summary = told /\ g.hidden = h.hidden
        /\ g.boundary = IF keep \in DOMAIN h.transcript
                        THEN h.transcript[keep].time ELSE after
        /\ DOMAIN g.transcript = DOMAIN h.transcript
        /\ \A i \in DOMAIN h.transcript :
              /\ g.transcript[i].time = h.transcript[i].time
              /\ g.transcript[i].message = h.transcript[i].message
              /\ g.transcript[i].excluded =
                    IF i < keep /\ h.transcript[i].excluded = "no"
                    THEN "history_compressed" ELSE h.transcript[i].excluded
    BY DEF CompressedTo
  <1>1. /\ \A i \in DOMAIN old : old[i] \in Entry /\ old[i].time \in Times /\ old[i].time \in Nat
        /\ DOMAIN old = 1 .. Len(old) /\ Len(old) \in Nat
        /\ h.summary \subseteq Times
    BY EntryFacts, HistoryAssumption DEF Times
  <1>2. /\ DOMAIN s = DOMAIN old
        /\ \A i \in DOMAIN old :
              /\ s[i].time = old[i].time /\ s[i].message = old[i].message
              /\ s[i].excluded = IF i < last + 1 /\ old[i].excluded = "no"
                                 THEN "history_compressed" ELSE old[i].excluded
    BY <1>0
  <1>4. \A i, j \in DOMAIN old : i < j => old[i].time < old[j].time
    BY DEF Sound
  <1>5. \A t \in told : /\ t \in Nat /\ t \in Times /\ t <= old[last].time
                        /\ t \in Told(h) /\ t \notin h.hidden
                        /\ t \in h.summary \/
                           \E i \in 1 .. last : old[i].message /\ old[i].excluded = "no"
                                                /\ old[i].time = t
    <2>1. ASSUME NEW t \in h.summary PROVE t < old[last].time /\ t \in Told(h) /\ t \notin h.hidden
      BY DEF Sound
    <2>2. ASSUME NEW i \in 1 .. last, old[i].message, old[i].excluded = "no"
          PROVE  /\ old[i].time <= old[last].time /\ i \in DOMAIN old
                 /\ old[i].time \in Told(h) /\ old[i].time \notin h.hidden
      <3>1. i \in DOMAIN old /\ (i < last \/ i = last)
        BY <1>1
      <3>2. old[i].time <= old[last].time
        BY <1>1, <1>4, <3>1
      <3>3. QED
        BY <2>2, <3>1, <3>2 DEF Sound, Told
    <2>3. \A t \in Times : t \in Nat
      BY HistoryAssumption DEF Times
    <2>4. SUFFICES ASSUME NEW t \in told
                   PROVE  /\ t \in Nat /\ t \in Times /\ t <= old[last].time
                          /\ t \in Told(h) /\ t \notin h.hidden
                          /\ t \in h.summary \/
                             \E i \in 1 .. last : old[i].message /\ old[i].excluded = "no"
                                                  /\ old[i].time = t
      OBVIOUS
    <2>5. CASE t \in h.summary
      BY <1>1, <2>1, <2>3, <2>5
    <2>6. CASE \E i \in 1 .. last : old[i].message /\ old[i].excluded = "no" /\ old[i].time = t
      BY <1>1, <2>2, <2>3, <2>6
    <2>7. QED BY <2>5, <2>6
  <1>e. edge = IF last + 1 \in DOMAIN old THEN old[last + 1].time ELSE n + 1
    BY <1>0
  <1> HIDE DEF edge
  <1>6. edge \in Nat /\ \A t \in told : t < edge
    <2>1. old[last].time < edge
      <3>1. last < last + 1 /\ last \in Nat
        BY <1>1
      <3>2. CASE last + 1 \in DOMAIN old
        BY <1>e, <1>4, <3>1, <3>2
      <3>3. CASE last + 1 \notin DOMAIN old
        <4>1. old[last].time <= n
          BY DEF Sound
        <4>2. QED BY <1>1, <1>e, <3>3, <4>1
      <3>4. QED BY <3>2, <3>3
    <2>2. edge \in Nat
      BY <1>1, <1>e
    <2>3. QED BY <1>1, <1>5, <2>1, <2>2
  <1>7. /\ g.transcript = s /\ g.summary = told
        /\ g.hidden = h.hidden /\ g.boundary = edge
    BY <1>0 DEF edge
  <1> HIDE DEF s, edge
  <1>8. Told(g) = Told(h)
    BY <1>2, <1>7 DEF Told
  <1>9. \A i, j \in DOMAIN s : i < j => s[i].time < s[j].time
    BY <1>2, <1>4
  <1>10. ASSUME NEW i \in DOMAIN s
         PROVE  /\ s[i].time <= n /\ s[i].time \notin away
                /\ s[i].excluded = "no" => s[i].time \notin told \cup h.hidden
                /\ s[i].message /\ s[i].excluded = "no" => \A u \in told : u < s[i].time
                /\ s[i].message /\ s[i].excluded = "history_compressed" => s[i].time \in told
    <2>1. i \in DOMAIN old /\ i \in Nat /\ last \in Nat
      BY <1>1, <1>2
    <2>2. s[i].time <= n /\ s[i].time \notin away
      BY <1>2, <2>1 DEF Sound
    <2>3. ASSUME s[i].excluded = "no"
          PROVE  s[i].time \notin told \cup h.hidden /\ \A u \in told : u < s[i].time
      <3>1. last < i /\ old[i].excluded = "no"
        BY <1>2, <2>1, <2>3
      <3>2. old[last].time < old[i].time
        BY <1>4, <2>1, <3>1
      <3>3. \A u \in told : u < old[i].time
        BY <1>1, <1>5, <2>1, <3>2
      <3>4. old[i].time \notin h.hidden
        BY <2>1, <3>1 DEF Sound
      <3>5. old[i].time \notin told
        <4>1. ASSUME old[i].time \in told PROVE FALSE
          <5>1. old[i].time < old[i].time
            BY <3>3, <4>1
          <5>2. old[i].time \in Nat
            BY <1>1, <2>1
          <5>3. QED BY <5>1, <5>2
        <4>2. QED BY <4>1
      <3>6. QED BY <1>2, <2>1, <3>3, <3>4, <3>5
    <2>4. ASSUME s[i].message, s[i].excluded = "history_compressed"
          PROVE  s[i].time \in told
      <3>1. CASE old[i].excluded = "history_compressed"
        BY <1>2, <2>1, <2>4, <3>1 DEF Sound
      <3>2. CASE i < last + 1 /\ old[i].excluded = "no"
        <4>1. i \in 1 .. last
          BY <1>1, <2>1, <3>2
        <4>2. QED BY <1>2, <2>1, <2>4, <3>2, <4>1
      <3>3. QED BY <1>2, <2>1, <2>4, <3>1, <3>2
    <2>5. QED BY <2>2, <2>3, <2>4
  <1>11. Sound(g, n, away)
    <2>1. told \subseteq Told(g) /\ told \cap h.hidden = {} /\ h.hidden \subseteq Told(g)
      BY <1>5, <1>8 DEF Sound
    <2>2. QED
      BY <1>6, <1>7, <1>9, <1>10, <2>1 DEF Sound
  <1>12. QED
    BY <1>11

LEMMA HistoryStarts ==
    HistoryInit => HistoryInv
  <1> SUFFICES ASSUME HistoryInit PROVE HistoryInv
    OBVIOUS
  <1>1. Empty(0) \in History /\ Sound(Empty(0), 0, {})
    BY SoundEmpty
  <1>2. HistoryTypeOK
    <2>1. NoCompaction \in Compaction
      BY DEF Compaction, NoCompaction
    <2>2. 0 \in 0 .. MaxTime /\ 0 \in 0 .. MaxEdits /\ 0 \in Nat
      BY HistoryAssumption
    <2>3. QED
      BY <1>1, <2>1, <2>2, Zenon DEF HistoryInit, HistoryTypeOK
  <1>3. Fits
    BY DEF HistoryInit, Fits, Compacting
  <1>4. QED
    BY <1>1, <1>2, <1>3 DEF HistoryInit, HistoryInv

\* The three ways an item is added at the end.
LEMMA AppendKeepsHistory ==
    ASSUME HistoryInv, NEW message \in BOOLEAN, Ticks, Appended(message),
           UNCHANGED <<compaction, missed, snapshot, edits, replaced>>,
           \/ revision' = revision /\ message = FALSE
           \/ revision' = revision + 1
    PROVE  HistoryInv'
  <1>1. /\ now \in Nat /\ now + 1 \in Times /\ now' = now + 1 /\ now' \in 0 .. MaxTime
        /\ chat \in History /\ snapshot \in History /\ revision \in Nat
        /\ compaction.revision \in Nat
    BY HistoryAssumption DEF HistoryInv, HistoryTypeOK, Ticks, Times, Compaction
  <1>2. chat' = [chat EXCEPT !.transcript = Append(@, NewEntry(now + 1, message))]
    BY DEF Appended
  <1>3. chat' \in History
    <2>1. NewEntry(now + 1, message) \in Entry
      BY <1>1 DEF NewEntry, Entry
    <2>2. Append(chat.transcript, NewEntry(now + 1, message)) \in Seq(Entry)
      BY <1>1, <2>1, EntryFacts
    <2>3. QED BY <1>1, <1>2, <2>2, OnlyTranscript
  <1>4. HistoryTypeOK'
    BY <1>1, <1>3 DEF HistoryInv, HistoryTypeOK
  <1>5. ASSUME ~replaced
        PROVE  /\ Sound(chat, now, missed)' /\ Sound(snapshot, now, missed)'
               /\ (missed \subseteq 1 .. now)' /\ Fits'
    <2>1. missed \subseteq 1 .. now /\ Sound(chat, now, missed) /\ Sound(snapshot, now, missed)
      BY <1>5 DEF HistoryInv
    <2>2. Sound(chat', now + 1, missed)
      BY <1>1, <1>2, <2>1, SoundAppend
    <2>3. Sound(snapshot, now + 1, missed)
      BY <1>1, <2>1, SoundLater
    <2>4. (missed \subseteq 1 .. now)'
      BY <1>1, <2>1
    <2>5. Fits'
      <3>1. CASE revision' = revision + 1
        BY <1>1, <1>5, <3>1 DEF HistoryInv, Fits, Compacting
      <3>2. CASE revision' = revision
        <4> DEFINE last == compaction.keepFrom - 1
        <4> SUFFICES ASSUME Compacting, compaction.revision = revision
                     PROVE  /\ last \in Positions'
                            /\ LlmVisible(last)'
                            /\ compaction.summary = chat'.summary \cup
                                 {chat'.transcript[i].time : i \in
                                    {j \in 1 .. last : LlmVisible(j)'}}
          BY <1>1, <1>5, <3>2 DEF HistoryInv, Fits, Compacting
        <4>1. /\ last \in Positions /\ LlmVisible(last)
              /\ compaction.summary = chat.summary \cup
                    {chat.transcript[i].time : i \in {j \in 1 .. last : LlmVisible(j)}}
          BY <1>5 DEF HistoryInv, Fits
        <4>2. /\ chat'.summary = chat.summary
              /\ \A i \in Positions : i \in Positions' /\ chat'.transcript[i] = chat.transcript[i]
          <5>1. /\ NewEntry(now + 1, message) \in Entry
                /\ chat.transcript \in Seq(Entry)
            BY <1>1, EntryFacts DEF NewEntry, Entry
          <5> DEFINE s == Append(chat.transcript, NewEntry(now + 1, message))
          <5>2. s \in Seq(Entry) /\ \A i \in DOMAIN chat.transcript :
                    i \in DOMAIN s /\ s[i] = chat.transcript[i]
            BY <5>1
          <5>3. chat'.transcript = s /\ chat'.summary = chat.summary
            BY <1>1, <1>2, <5>2, OnlyTranscript
          <5> HIDE DEF s
          <5>4. QED BY <5>2, <5>3 DEF Positions
        <4>3. \A j \in 1 .. last : j \in Positions
          BY <1>1, <4>1, EntryFacts DEF Positions
        <4> HIDE DEF last
        <4>4. \A j \in Positions : LlmVisible(j)' = LlmVisible(j)
          BY <4>2 DEF LlmVisible
        <4>k. last' = last
          BY DEF last
        <4> DEFINE seen == {j \in 1 .. last : LlmVisible(j)}
        <4>5. seen = {j \in 1 .. last : LlmVisible(j)'} /\ \A j \in seen : j \in Positions
          BY <4>3, <4>4
        <4> HIDE DEF seen
        <4>6. {chat.transcript[i].time : i \in seen} = {chat'.transcript[i].time : i \in seen}
          BY <4>2, <4>5
        <4>7. LlmVisible(last)' /\ last \in Positions'
          BY <4>1, <4>2, <4>4, <4>k DEF LlmVisible
        <4>8. compaction.summary = chat'.summary \cup {chat'.transcript[i].time : i \in seen}
          BY <4>1, <4>2, <4>6 DEF seen
        <4>9. QED BY <4>5, <4>7, <4>8
      <3>3. QED BY <3>1, <3>2
    <2>6. QED BY <1>1, <2>1, <2>2, <2>3, <2>4, <2>5
  <1>6. QED
    BY <1>4, <1>5 DEF HistoryInv

LEMMA MissedKeepsHistory ==
    HistoryInv /\ MessageMissed => HistoryInv'
  <1> SUFFICES ASSUME HistoryInv, MessageMissed PROVE HistoryInv'
    OBVIOUS
  <1>1. /\ now \in Nat /\ now + 1 \in Times /\ now' = now + 1 /\ now' \in 0 .. MaxTime
        /\ chat \in History /\ snapshot \in History
    BY HistoryAssumption DEF HistoryInv, HistoryTypeOK, MessageMissed, Ticks, Times
  <1>2. HistoryTypeOK'
    BY <1>1 DEF HistoryInv, HistoryTypeOK, MessageMissed
  <1>3. ASSUME ~replaced
        PROVE  /\ Sound(chat, now + 1, missed \cup {now + 1})
               /\ Sound(snapshot, now + 1, missed \cup {now + 1})
               /\ missed \cup {now + 1} \subseteq 1 .. (now + 1)
    <2>1. Sound(chat, now, missed) /\ Sound(snapshot, now, missed) /\ missed \subseteq 1 .. now
      BY <1>3 DEF HistoryInv
    <2>2. \A t \in missed \cup {now + 1} : t \in missed \/ t > now
      BY <1>1
    <2>3. now + 1 \in Nat /\ now <= now + 1
      BY <1>1
    <2> DEFINE k == now + 1
               later == missed \cup {now + 1}
    <2>4. k \in Nat /\ now <= k /\ \A t \in later : t \in missed \/ t > now
      BY <2>2, <2>3
    <2>5. later \subseteq 1 .. k
      BY <1>1, <2>1
    <2> HIDE DEF k, later
    <2>6. Sound(chat, k, later) /\ Sound(snapshot, k, later)
      BY <1>1, <2>1, <2>4, SoundLater
    <2>7. QED BY <2>5, <2>6 DEF k, later
  <1>4. Fits /\ ~replaced => Fits'
    BY DEF MessageMissed, Fits, Compacting, Positions, LlmVisible
  <1>5. QED
    BY <1>1, <1>2, <1>3, <1>4 DEF HistoryInv, MessageMissed

LEMMA BackfillKeepsHistory ==
    ASSUME HistoryInv, NEW t \in missed, Backfill(t)
    PROVE  HistoryInv'
  <1>1. PICK n \in {0} \cup Positions :
           /\ n # 0 => chat.transcript[n].time <= t
           /\ \A i \in Positions : i > n => chat.transcript[i].time > t
           /\ chat' = [chat EXCEPT !.transcript = InsertAt(@, n + 1, NewEntry(t, TRUE))]
    BY DEF Backfill
  <1>2. /\ now \in Nat /\ chat \in History /\ snapshot \in History /\ t \in Times
        /\ revision \in Nat /\ compaction.revision \in Nat
    BY HistoryAssumption DEF HistoryInv, HistoryTypeOK, Compaction
  <1>3. chat' \in History
    <2>1. NewEntry(t, TRUE) \in Entry
      BY <1>2 DEF NewEntry, Entry
    <2>2. n + 1 \in 1 .. (Len(chat.transcript) + 1) /\ chat.transcript \in Seq(Entry)
      BY <1>2, EntryFacts DEF Positions
    <2>3. InsertAt(chat.transcript, n + 1, NewEntry(t, TRUE)) \in Seq(Entry)
      BY <2>1, <2>2, InsertAtFacts DEF Inserted
    <2>4. QED BY <1>1, <1>2, <2>3, OnlyTranscript
  <1>4. HistoryTypeOK'
    BY <1>3 DEF HistoryInv, HistoryTypeOK, Backfill
  <1>5. ASSUME ~replaced
        PROVE  /\ Sound(chat', now, missed \ {t}) /\ Sound(snapshot, now, missed \ {t})
               /\ missed \ {t} \subseteq 1 .. now
    <2>1. Sound(chat, now, missed) /\ Sound(snapshot, now, missed) /\ missed \subseteq 1 .. now
      BY <1>5 DEF HistoryInv
    <2>2. Sound(snapshot, now, missed \ {t})
      BY <1>2, <2>1, SoundLater
    <2>3. t <= now /\ t >= chat.boundary
      BY <1>2, <2>1 DEF Backfill
    <2>4. Sound(chat', now, missed \ {t})
      BY <1>1, <1>2, <2>1, <2>3, SoundInsert DEF Positions
    <2>5. QED BY <2>1, <2>2, <2>4
  <1>6. ~replaced => Fits'
    <2>1. revision' = revision + 1 /\ compaction' = compaction
      BY DEF Backfill
    <2>2. ~replaced /\ Compacting => compaction.revision <= revision
      BY DEF HistoryInv, Fits
    <2>3. QED
      BY <1>2, <2>1, <2>2 DEF Fits, Compacting
  <1>7. QED
    BY <1>4, <1>5, <1>6 DEF HistoryInv, Backfill

\* What an exclusion and a summary leave is a history, whole or not.
LEMMA ExcludeTyped ==
    ASSUME NEW h \in History, NEW which \in SUBSET DOMAIN h.transcript
    PROVE  [h EXCEPT
                !.transcript = [i \in DOMAIN h.transcript |->
                    IF i \in which THEN [@[i] EXCEPT !.excluded = "manual"] ELSE @[i]],
                !.hidden = @ \cup {h.transcript[i].time : i \in
                    {j \in which : h.transcript[j].excluded = "no"}}] \in History
  <1> DEFINE old == h.transcript
             s == [i \in DOMAIN old |->
                      IF i \in which THEN [old[i] EXCEPT !.excluded = "manual"] ELSE old[i]]
             more == {old[i].time : i \in {j \in which : old[j].excluded = "no"}}
  <1>1. /\ \A i \in DOMAIN old : old[i] \in Entry /\ old[i].time \in Times
        /\ DOMAIN old = 1 .. Len(old) /\ Len(old) \in Nat
    BY EntryFacts
  <1>2. \A i \in DOMAIN old : s[i] \in Entry
    BY <1>1 DEF Entry
  <1>3. s \in Seq(Entry)
    <2>1. s \in [1 .. Len(old) -> Entry]
      BY <1>1, <1>2
    <2>2. QED BY <1>1, <2>1
  <1>4. more \subseteq Times
    BY <1>1
  <1> HIDE DEF s, more
  <1>5. [h EXCEPT !.transcript = s, !.hidden = h.hidden \cup more] \in History
    BY <1>3, <1>4 DEF History
  <1>6. QED BY <1>5 DEF s, more

LEMMA ExcludeKeepsHistory ==
    ASSUME HistoryInv, NEW which \in SUBSET Positions, Exclude(which)
    PROVE  HistoryInv'
  <1>1. /\ now \in Nat /\ chat \in History /\ revision \in Nat
        /\ compaction.revision \in Nat
    BY HistoryAssumption DEF HistoryInv, HistoryTypeOK, Compaction
  <1>2. chat' \in History
    BY <1>1, ExcludeTyped DEF Exclude, Positions
  <1>3. HistoryTypeOK'
    BY <1>1, <1>2, HistoryAssumption DEF HistoryInv, HistoryTypeOK, Exclude, Edits
  <1>4. ~replaced => Sound(chat', now, missed)
    BY <1>1, SoundExclude DEF HistoryInv, Exclude, Positions
  <1>5. ~replaced => Fits'
    BY <1>1 DEF HistoryInv, Exclude, Fits, Compacting
  <1>6. QED
    BY <1>3, <1>4, <1>5 DEF HistoryInv, Exclude

\* The owner clears, saves, restores or deletes.
LEMMA OwnerKeepsHistory ==
    ASSUME HistoryInv,
           ClearHistory \/ SaveSnapshot \/ RestoreSnapshot \/ DeleteAndRecreate
    PROVE  HistoryInv'
  <1>1. /\ now \in Nat /\ chat \in History /\ snapshot \in History /\ revision \in Nat
        /\ compaction.revision \in Nat /\ replaced \in BOOLEAN
        /\ edits + 1 \in Nat /\ (edits < MaxEdits => edits + 1 \in 0 .. MaxEdits)
    BY HistoryAssumption DEF HistoryInv, HistoryTypeOK, Compaction
  <1>2. Empty(now + 1) \in History /\ Sound(Empty(now + 1), now, missed)
    BY <1>1, SoundEmpty
  <1>3. CASE ClearHistory
    <2>1. HistoryTypeOK'
      BY <1>1, <1>2, <1>3 DEF HistoryInv, HistoryTypeOK, ClearHistory, Edits
    <2>2. ~replaced => Fits'
      BY <1>1, <1>3 DEF HistoryInv, ClearHistory, Fits, Compacting
    <2>3. QED BY <1>2, <1>3, <2>1, <2>2 DEF HistoryInv, ClearHistory
  <1>4. CASE SaveSnapshot
    <2>1. HistoryTypeOK'
      BY <1>1, <1>4 DEF HistoryInv, HistoryTypeOK, SaveSnapshot, Edits
    <2>2. ~replaced => Fits'
      BY <1>4 DEF HistoryInv, SaveSnapshot, Fits, Compacting, Positions, LlmVisible
    <2>3. QED BY <1>4, <2>1, <2>2 DEF HistoryInv, SaveSnapshot
  <1>5. CASE RestoreSnapshot
    <2>1. HistoryTypeOK'
      BY <1>1, <1>5 DEF HistoryInv, HistoryTypeOK, RestoreSnapshot, Edits
    <2>2. ~replaced => Fits'
      BY <1>1, <1>5 DEF HistoryInv, RestoreSnapshot, Fits, Compacting
    <2>3. QED BY <1>5, <2>1, <2>2 DEF HistoryInv, RestoreSnapshot
  <1>6. CASE DeleteAndRecreate
    <2>1. HistoryTypeOK'
      BY <1>1, <1>2, <1>6
         DEF HistoryInv, HistoryTypeOK, DeleteAndRecreate, Edits, Compacting
    <2>2. ~replaced' => Fits'
      BY <1>6 DEF DeleteAndRecreate, Fits, Compacting
    <2>3. QED BY <1>2, <1>6, <2>1, <2>2 DEF HistoryInv, DeleteAndRecreate
  <1>7. QED
    BY <1>3, <1>4, <1>5, <1>6

LEMMA CompactionKeepsHistory ==
    ASSUME HistoryInv,
           CompactionFails \/ SummaryArrives \/ \E i \in Positions : BeginCompaction(i)
    PROVE  HistoryInv'
  <1>1. /\ now \in Nat /\ now + 1 \in Nat /\ chat \in History /\ revision \in Nat
        /\ compaction \in Compaction /\ compaction.revision \in Nat
        /\ compaction.keepFrom \in Nat /\ compaction.summary \in SUBSET Times
    BY HistoryAssumption DEF HistoryInv, HistoryTypeOK, Compaction
  <1>2. NoCompaction \in Compaction
    BY DEF Compaction, NoCompaction
  <1>3. CASE CompactionFails
    BY <1>2, <1>3
       DEF HistoryInv, HistoryTypeOK, CompactionFails, Fits, Compacting
  <1>4. CASE SummaryArrives /\ revision # compaction.revision
    BY <1>2, <1>4
       DEF HistoryInv, HistoryTypeOK, SummaryArrives, Fits, Compacting
  <1>5. CASE SummaryArrives /\ revision = compaction.revision
    <2>0. chat' = Compressed(chat, compaction.summary, compaction.keepFrom, now + 1)
      BY <1>5 DEF SummaryArrives, ApplyCompressedHistory, Positions, Compressed
    <2>k. CompressedTo(chat', chat, compaction.summary, compaction.keepFrom, now + 1)
      BY <1>1, <2>0, CompressFacts
    <2>2. chat' \in History
      BY <2>k DEF CompressedTo
    <2>3. HistoryTypeOK'
      BY <1>1, <1>2, <1>5, <2>2
         DEF HistoryInv, HistoryTypeOK, SummaryArrives, ApplyCompressedHistory
    <2>4. ~replaced => Sound(chat', now, missed)
      <3> SUFFICES ASSUME ~replaced PROVE Sound(chat', now, missed)
        OBVIOUS
      <3> DEFINE last == compaction.keepFrom - 1
                 told == compaction.summary
      <3>1. /\ Sound(chat, now, missed)
            /\ last \in DOMAIN chat.transcript
            /\ chat.transcript[last].message /\ chat.transcript[last].excluded = "no"
            /\ told = chat.summary \cup {chat.transcript[i].time : i \in
                   {j \in 1 .. last : chat.transcript[j].message /\
                                      chat.transcript[j].excluded = "no"}}
        BY <1>5 DEF HistoryInv, Fits, SummaryArrives, LlmVisible, Positions
      <3>2. compaction.keepFrom = last + 1
        BY <1>1
      <3>3. /\ chat.summary \subseteq told
            /\ \A i \in 1 .. last :
                  chat.transcript[i].message /\ chat.transcript[i].excluded = "no"
                     => chat.transcript[i].time \in told
            /\ \A t \in told :
                  \/ t \in chat.summary
                  \/ \E i \in 1 .. last : /\ chat.transcript[i].message
                                          /\ chat.transcript[i].excluded = "no"
                                          /\ chat.transcript[i].time = t
        BY <3>1
      <3> DEFINE after == now + 1
                 keep == compaction.keepFrom
      <3>4. /\ CompressedTo(chat', chat, told, keep, after) /\ keep = last + 1
            /\ told \in SUBSET Times /\ after \in Nat /\ after = now + 1
        BY <1>1, <2>k, <3>2
      <3> HIDE DEF last, told, after, keep
      <3>5. QED BY <1>1, <3>1, <3>3, <3>4, SoundCompress
    <2>5. Fits'
      BY <1>5 DEF SummaryArrives, Fits, Compacting
    <2>6. QED BY <1>5, <2>3, <2>4, <2>5 DEF HistoryInv, SummaryArrives
  <1>6. ASSUME NEW i \in Positions, BeginCompaction(i)
        PROVE  HistoryInv'
    <2>1. i \in Nat /\ (i + 1) - 1 = i
      BY <1>1, EntryFacts DEF Positions
    <2>2. compaction' = [summary |-> chat.summary \cup
                            {chat.transcript[k].time : k \in
                                {j \in 1 .. i : LlmVisible(j)}},
                        keepFrom |-> i + 1, revision |-> revision]
      BY <1>6 DEF BeginCompaction
    <2>3. {chat.transcript[k].time : k \in {j \in 1 .. i : LlmVisible(j)}} \subseteq Times
      BY <1>1, <2>1, EntryFacts DEF Positions
    <2>4. compaction' \in Compaction
      BY <1>1, <2>1, <2>2, <2>3, EntryFacts DEF Compaction
    <2>5. HistoryTypeOK'
      BY <1>6, <2>4 DEF HistoryInv, HistoryTypeOK, BeginCompaction
    <2>6. Fits'
      <3>1. compaction'.keepFrom - 1 = i /\ compaction'.revision = revision
        BY <2>1, <2>2
      <3>2. chat' = chat /\ revision' = revision /\ LlmVisible(i)
        BY <1>6 DEF BeginCompaction
      <3>3. compaction'.summary = chat.summary \cup
               {chat.transcript[k].time : k \in {j \in 1 .. i : LlmVisible(j)}}
        BY <2>2
      <3>4. QED
        BY <1>1, <3>1, <3>2, <3>3 DEF Fits, Positions, LlmVisible
    <2>7. QED BY <1>6, <2>5, <2>6 DEF HistoryInv, BeginCompaction
  <1>7. QED
    BY <1>3, <1>4, <1>5, <1>6

LEMMA HistoryStep ==
    HistoryInv /\ [HistoryNext]_historyVars => HistoryInv'
  <1> SUFFICES ASSUME HistoryInv, [HistoryNext]_historyVars PROVE HistoryInv'
    OBVIOUS
  <1>1. CASE AppendHistory
    BY <1>1, AppendKeepsHistory DEF AppendHistory
  <1>2. CASE AppendNote
    BY <1>2, AppendKeepsHistory DEF AppendNote
  <1>3. CASE SwitchMode
    BY <1>3, AppendKeepsHistory DEF SwitchMode
  <1>4. CASE MessageMissed
    BY <1>4, MissedKeepsHistory
  <1>5. CASE \E t \in missed : Backfill(t)
    BY <1>5, BackfillKeepsHistory
  <1>6. CASE \E i \in Positions : Exclude({i}) \/ Exclude({j \in Positions : j > i})
    <2>1. PICK i \in Positions : Exclude({i}) \/ Exclude({j \in Positions : j > i})
      BY <1>6
    <2>2. {i} \in SUBSET Positions /\ {j \in Positions : j > i} \in SUBSET Positions
      OBVIOUS
    <2>3. QED BY <2>1, <2>2, ExcludeKeepsHistory
  <1>7. CASE ClearHistory \/ SaveSnapshot \/ RestoreSnapshot \/ DeleteAndRecreate
    BY <1>7, OwnerKeepsHistory
  <1>8. CASE CompactionFails \/ SummaryArrives \/ \E i \in Positions : BeginCompaction(i)
    BY <1>8, CompactionKeepsHistory
  <1>9. CASE UNCHANGED historyVars
    BY <1>9 DEF historyVars, HistoryInv, HistoryTypeOK, Fits, Compacting, Positions, LlmVisible
  <1>10. QED
    BY <1>1, <1>2, <1>3, <1>4, <1>5, <1>6, <1>7, <1>8, <1>9 DEF HistoryNext

LEMMA HistoryInvariant ==
    HistorySpec => []HistoryInv
  <1>1. QED
    BY HistoryStarts, HistoryStep, PTL DEF HistorySpec

\* Every value of the session, its summary and its saved copy is one the
\* program can hold, whatever the owner does while a summary is made.
THEOREM HistoryTypes ==
    HistorySpec => []HistoryTypeOK
  <1>1. HistoryInv => HistoryTypeOK
    BY DEF HistoryInv
  <1>2. QED
    BY <1>1, HistoryInvariant, PTL

\* A summary made over several awaits never tells what the model still sees,
\* was told to hide or no longer has, for any number of items and edits.
THEOREM HistoryStaysWhole ==
    HistorySpec => []HistoryIsWhole
  <1>1. HistoryInv => HistoryIsWhole
    BY DEF HistoryInv, HistoryIsWhole, Sound, Told, Positions
  <1>2. QED
    BY <1>1, HistoryInvariant, PTL

-----------------------------------------------------------------------------
(* The turns that wait for their facts, for any number of keys and turns.    *)
(*                                                                           *)
(* DeletedTurnsAreForgotten is not inductive: what was stored, is under way   *)
(* and waits must be three stretches of one rising sequence, no turn may      *)
(* belong to two keys, and a key may be in only one place (timer, ready,      *)
(* running), for only then is the batch that starts never an aborted one.     *)

KeyLists == UNION {[keys -> SUBSET keys] : keys \in SUBSET QueueKeys}

Rising(s) == \A i, j \in DOMAIN s : i < j => s[i] < s[j]
Below(s, t) == \A i \in DOMAIN s, j \in DOMAIN t : s[i] < t[j]
Among(s, n) == \A i \in DOMAIN s : s[i] \in 1 .. n
Apart(s, turnSet) == \A i \in DOMAIN s : s[i] \notin turnSet

\* One key: its turns stored (s), under way (b), waiting (q).
InTurn(s, b, q) ==
    /\ Rising(s) /\ Rising(b) /\ Rising(q)
    /\ Below(s, b) /\ Below(s, q) /\ Below(b, q)

Known(s, b, q) == ToSet(s) \cup ToSet(b) \cup ToSet(q)

Extracting(keys, qu, ba, aborted, timers, st, gone, n) ==
    /\ keys \in KeyLists /\ timers \subseteq QueueKeys
    /\ qu \in [QueueKeys -> Seq(Turns)] /\ ba \in [QueueKeys -> Seq(Turns)]
    /\ st \in [QueueKeys -> Seq(Turns)]
    /\ \A k \in QueueKeys : Len(qu[k]) <= MaxPendingTurns /\ Len(ba[k]) <= MaxTurnsPerBatch
    /\ aborted \subseteq QueueKeys /\ \A k \in aborted : ba[k] # <<>>
    /\ timers \cap DOMAIN keys = {}
    /\ \A k \in timers \cup DOMAIN keys : ba[k] = <<>>
    /\ gone \subseteq 1 .. n /\ n \in 0 .. MaxTurns
    /\ \A k \in QueueKeys :
          /\ InTurn(st[k], ba[k], qu[k])
          /\ Among(st[k], n) /\ Among(ba[k], n) /\ Among(qu[k], n)
          /\ Apart(st[k], gone) /\ Apart(qu[k], gone)
          /\ k \notin aborted => Apart(ba[k], gone)
    /\ \A j, k \in QueueKeys :
          j # k => Known(st[j], ba[j], qu[j]) \cap Known(st[k], ba[k], qu[k]) = {}

ExtractionInv ==
    /\ Extracting(readyKeys, queued, batch, abortedKeys, timer, stored, dropped, turns)
    /\ limit \in Nat /\ notified \in BOOLEAN /\ off \in BOOLEAN /\ reloads \in 0 .. MaxReloads

LEMMA JoinedFacts ==
    ASSUME NEW keys \in KeyLists, NEW k \in QueueKeys
    PROVE  Joined(keys, k) \in KeyLists /\ DOMAIN Joined(keys, k) = DOMAIN keys \cup {k}
  <1>1. PICK S \in SUBSET QueueKeys : keys \in [S -> SUBSET S]
    BY DEF KeyLists
  <1>2. Joined(keys, k) \in [S \cup {k} -> SUBSET (S \cup {k})]
    BY <1>1 DEF Joined
  <1>3. S \cup {k} \in SUBSET QueueKeys
    OBVIOUS
  <1>4. QED
    BY <1>1, <1>2, <1>3 DEF KeyLists

LEMMA WithoutFacts ==
    ASSUME NEW keys \in KeyLists, NEW gone
    PROVE  Without(keys, gone) \in KeyLists /\ DOMAIN Without(keys, gone) = DOMAIN keys \ gone
  <1>1. PICK S \in SUBSET QueueKeys : keys \in [S -> SUBSET S]
    BY DEF KeyLists
  <1>2. Without(keys, gone) \in [S \ gone -> SUBSET (S \ gone)]
    BY <1>1 DEF Without
  <1>3. S \ gone \in SUBSET QueueKeys
    OBVIOUS
  <1>4. QED
    BY <1>1, <1>2, <1>3 DEF KeyLists

LEMMA EmptyFacts ==
    /\ <<>> \in Seq(Turns) /\ DOMAIN <<>> = {} /\ Len(<<>>) = 0
    /\ NoKeys \in KeyLists /\ DOMAIN NoKeys = {}
  <1>1. NoKeys \in [{} -> SUBSET {}]
    BY DEF NoKeys
  <1>2. QED
    BY <1>1 DEF KeyLists

\* A batch is cut off at the front of what waits.
LEMMA SplitFacts ==
    ASSUME NEW q \in Seq(Turns), NEW n \in 0 .. Len(q)
    PROVE  /\ SubSeq(q, 1, n) \in Seq(Turns) /\ SubSeq(q, n + 1, Len(q)) \in Seq(Turns)
           /\ Len(SubSeq(q, 1, n)) = n /\ Len(SubSeq(q, n + 1, Len(q))) = Len(q) - n
           /\ \A i \in DOMAIN SubSeq(q, 1, n) :
                 i \in DOMAIN q /\ i <= n /\ SubSeq(q, 1, n)[i] = q[i]
           /\ \A i \in DOMAIN SubSeq(q, n + 1, Len(q)) :
                 /\ i \in Nat /\ n + i \in DOMAIN q /\ n < n + i
                 /\ SubSeq(q, n + 1, Len(q))[i] = q[n + i]
  <1> DEFINE a == SubSeq(q, 1, n)
             b == SubSeq(q, n + 1, Len(q))
  <1>1. /\ Len(q) \in Nat /\ n \in Nat /\ n <= Len(q) /\ DOMAIN q = 1 .. Len(q)
        /\ \A i \in 1 .. Len(q) : q[i] \in Turns
    OBVIOUS
  <1>2. a \in Seq(Turns) /\ Len(a) = n /\ DOMAIN a = 1 .. n /\ \A i \in 1 .. n : a[i] = q[i]
    <2>1. \A i \in 1 .. n : q[i] \in Turns
      BY <1>1
    <2>2. /\ a \in Seq(Turns) /\ Len(a) = IF 1 <= n THEN n - 1 + 1 ELSE 0
          /\ \A i \in 1 .. (n - 1 + 1) : a[i] = q[1 + i - 1]
      BY <1>1, <2>1, SubSeqProperties
    <2> HIDE DEF a
    <2>3. n - 1 + 1 = n /\ \A i \in Int : 1 + i - 1 = i
      BY <1>1
    <2>4. Len(a) = n
      BY <1>1, <2>2
    <2>5. QED BY <1>1, <2>2, <2>3, <2>4
  <1>3. /\ b \in Seq(Turns) /\ Len(b) = Len(q) - n /\ DOMAIN b = 1 .. (Len(q) - n)
        /\ \A i \in 1 .. (Len(q) - n) : b[i] = q[n + i]
    <2> DEFINE k == n + 1
               l == Len(q)
    <2>1. k \in Nat /\ l \in Nat /\ 1 <= k /\ k <= l + 1 /\ k - 1 = n
      BY <1>1
    <2>2. b = SubSeq(q, k, l) /\ \A i \in k .. l : q[i] \in Turns
      BY <1>1, <2>1
    <2> HIDE DEF b, k, l
    <2>3. /\ b \in Seq(Turns) /\ Len(b) = IF k <= l THEN l - k + 1 ELSE 0
          /\ \A i \in 1 .. (l - k + 1) : b[i] = q[k + i - 1]
      BY <1>1, <2>1, <2>2, SubSeqProperties
    <2>4. l - k + 1 = l - n /\ \A i \in Int : k + i - 1 = n + i
      BY <1>1, <2>1
    <2>5. Len(b) = l - n
      BY <2>1, <2>3
    <2>6. DOMAIN b = 1 .. (l - n)
      BY <2>3, <2>5
    <2>7. ASSUME NEW i \in 1 .. (l - n) PROVE b[i] = q[n + i]
      <3>1. i \in Int /\ i \in 1 .. (l - k + 1)
        BY <2>4
      <3>2. b[i] = q[k + i - 1]
        BY <2>3, <3>1
      <3>3. QED BY <2>4, <3>1, <3>2
    <2>8. QED BY <2>3, <2>5, <2>6, <2>7 DEF l
  <1> HIDE DEF a, b
  <1>4. \A i \in DOMAIN a : i \in DOMAIN q /\ i <= n /\ a[i] = q[i]
    BY <1>1, <1>2
  <1>5. \A i \in DOMAIN b : i \in Nat /\ n + i \in DOMAIN q /\ n < n + i /\ b[i] = q[n + i]
    <2>1. ASSUME NEW i \in 1 .. (Len(q) - n)
          PROVE  i \in Nat /\ n + i \in 1 .. Len(q) /\ n < n + i
      BY <1>1
    <2>2. QED BY <1>1, <1>3, <2>1
  <1>6. QED
    BY <1>2, <1>3, <1>4, <1>5 DEF a, b

\* The front n of q is cut off as a, b is left.
CutInto(q, n, a, b) == a = SubSeq(q, 1, n) /\ b = SubSeq(q, n + 1, Len(q))

\* What one key has in its three places stays in turn when its batch is cut off.
LEMMA SplitInTurn ==
    ASSUME NEW s \in Seq(Turns), NEW q \in Seq(Turns), NEW n \in 0 .. Len(q),
           NEW a, NEW b, CutInto(q, n, a, b),
           InTurn(s, <<>>, q)
    PROVE  /\ InTurn(s, a, b)
           /\ ToSet(a) \subseteq ToSet(q) /\ ToSet(b) \subseteq ToSet(q)
           /\ a \in Seq(Turns) /\ b \in Seq(Turns) /\ Len(a) = n /\ Len(b) <= Len(q)
  <1>1. /\ a \in Seq(Turns) /\ b \in Seq(Turns) /\ Len(a) = n /\ Len(b) = Len(q) - n
        /\ \A i \in DOMAIN a : i \in DOMAIN q /\ i <= n /\ a[i] = q[i]
        /\ \A i \in DOMAIN b : i \in Nat /\ n + i \in DOMAIN q /\ n < n + i /\ b[i] = q[n + i]
    BY SplitFacts DEF CutInto
  <1>2. n \in Nat /\ Len(q) \in Nat /\ \A i \in DOMAIN a \cup DOMAIN b \cup DOMAIN q : i \in Nat
    BY <1>1
  <1>3. Rising(q) /\ Rising(s) /\ Below(s, q)
    BY DEF InTurn
  <1>4. Rising(a) /\ Below(s, a)
    BY <1>1, <1>3 DEF Rising, Below
  <1>5. Rising(b)
    <2> SUFFICES ASSUME NEW i \in DOMAIN b, NEW j \in DOMAIN b, i < j PROVE b[i] < b[j]
      BY DEF Rising
    <2>1. n + i < n + j
      BY <1>1, <1>2
    <2>2. QED BY <1>1, <1>3, <2>1 DEF Rising
  <1>6. Below(s, b)
    BY <1>1, <1>3 DEF Below
  <1>7. Below(a, b)
    <2> SUFFICES ASSUME NEW i \in DOMAIN a, NEW j \in DOMAIN b PROVE a[i] < b[j]
      BY DEF Below
    <2>1. i < n + j
      BY <1>1, <1>2
    <2>2. QED BY <1>1, <1>3, <2>1 DEF Rising
  <1>8. ToSet(a) \subseteq ToSet(q) /\ ToSet(b) \subseteq ToSet(q)
    BY <1>1 DEF ToSet
  <1>9. QED
    BY <1>1, <1>2, <1>3, <1>4, <1>5, <1>6, <1>7, <1>8 DEF InTurn

\* ...and when the batch that ended is stored or lost.
LEMMA StoredInTurn ==
    ASSUME NEW s \in Seq(Turns), NEW b \in Seq(Turns), NEW q \in Seq(Turns), InTurn(s, b, q)
    PROVE  /\ InTurn(s \o b, <<>>, q) /\ InTurn(s, <<>>, q) /\ s \o b \in Seq(Turns)
           /\ \A i \in DOMAIN (s \o b) : \/ \E j \in DOMAIN s : (s \o b)[i] = s[j]
                                         \/ \E j \in DOMAIN b : (s \o b)[i] = b[j]
  <1> DEFINE c == s \o b
             m == Len(s)
  <1>1. /\ c \in Seq(Turns) /\ Len(c) = Len(s) + Len(b)
        /\ \A i \in 1 .. (Len(s) + Len(b)) : c[i] = IF i <= Len(s) THEN s[i] ELSE b[i - Len(s)]
    BY ConcatProperties
  <1> HIDE DEF c
  <1>2. /\ m \in Nat /\ Len(b) \in Nat /\ DOMAIN s = 1 .. m /\ DOMAIN b = 1 .. Len(b)
        /\ DOMAIN c = 1 .. (m + Len(b))
    BY <1>1
  <1>3. \A i \in DOMAIN c : /\ i \in Nat
                            /\ \/ i <= m /\ i \in DOMAIN s /\ c[i] = s[i]
                               \/ m < i /\ i - m \in DOMAIN b /\ c[i] = b[i - m]
    <2> SUFFICES ASSUME NEW i \in DOMAIN c
                 PROVE  /\ i \in Nat
                        /\ \/ i <= m /\ i \in DOMAIN s /\ c[i] = s[i]
                           \/ m < i /\ i - m \in DOMAIN b /\ c[i] = b[i - m]
      OBVIOUS
    <2>1. i \in Nat /\ i \in 1 .. (Len(s) + Len(b))
      BY <1>2
    <2>2. CASE i <= m
      BY <1>1, <1>2, <2>1, <2>2
    <2>3. CASE m < i
      BY <1>1, <1>2, <2>1, <2>3
    <2>4. QED BY <1>2, <2>1, <2>2, <2>3
  <1>4. Rising(c)
    <2> SUFFICES ASSUME NEW i \in DOMAIN c, NEW j \in DOMAIN c, i < j PROVE c[i] < c[j]
      BY DEF Rising
    <2>1. i \in Nat /\ j \in Nat
      BY <1>3
    <2>2. CASE i <= m /\ i \in DOMAIN s /\ c[i] = s[i]
      <3>1. CASE j <= m /\ j \in DOMAIN s /\ c[j] = s[j]
        BY <2>2, <3>1 DEF InTurn, Rising
      <3>2. CASE m < j /\ j - m \in DOMAIN b /\ c[j] = b[j - m]
        BY <2>2, <3>2 DEF InTurn, Below
      <3>3. QED BY <1>3, <3>1, <3>2
    <2>3. CASE m < i /\ i - m \in DOMAIN b /\ c[i] = b[i - m]
      <3>1. m < j /\ j - m \in DOMAIN b /\ c[j] = b[j - m]
        BY <1>2, <1>3, <2>1, <2>3
      <3>2. i - m < j - m
        BY <1>2, <2>1
      <3>3. QED BY <2>3, <3>1, <3>2 DEF InTurn, Rising
    <2>4. QED BY <1>3, <2>2, <2>3
  <1>5. Below(c, q)
    BY <1>3 DEF InTurn, Below
  <1>6. Rising(<<>>) /\ Below(s, <<>>) /\ Below(c, <<>>) /\ Below(<<>>, q)
    BY EmptyFacts DEF Rising, Below
  <1>7. InTurn(c, <<>>, q) /\ InTurn(s, <<>>, q)
    BY <1>4, <1>5, <1>6 DEF InTurn
  <1>8. \A i \in DOMAIN c : \/ \E j \in DOMAIN s : c[i] = s[j]
                            \/ \E j \in DOMAIN b : c[i] = b[j]
    BY <1>3
  <1>9. QED
    BY <1>1, <1>7, <1>8 DEF c

Served(taken, keys, waiting, running, r, b, q) ==
    /\ r = Without(keys, taken)
    /\ DOMAIN b = QueueKeys /\ DOMAIN q = QueueKeys
    /\ \A k \in QueueKeys \ taken : b[k] = running[k] /\ q[k] = waiting[k]
    /\ \A k \in QueueKeys \cap taken :
          \E n \in 0 .. Len(waiting[k]) :
             n <= MaxTurnsPerBatch /\ CutInto(waiting[k], n, b[k], q[k])

\* pump: whatever keys it takes, each of them gets the front of what it has.
LEMMA PumpCuts ==
    ASSUME NEW keys \in KeyLists, NEW waiting \in [QueueKeys -> Seq(Turns)],
           NEW running \in [QueueKeys -> Seq(Turns)], Pump(keys, waiting, running)
    PROVE  \E taken \in SUBSET DOMAIN keys :
              Served(taken, keys, waiting, running, readyKeys', batch', queued')
  <1> DEFINE busy == {k \in QueueKeys : running[k] # <<>>}
             free == IF off \/ limit <= Cardinality(busy) THEN 0
                     ELSE limit - Cardinality(busy)
             taken == {k \in DOMAIN keys : Cardinality(keys[k]) < free}
             size(k) == IF Len(waiting[k]) < MaxTurnsPerBatch
                        THEN Len(waiting[k]) ELSE MaxTurnsPerBatch
  <1>1. /\ readyKeys' = Without(keys, taken)
        /\ batch' = [k \in QueueKeys |->
                        IF k \in taken THEN SubSeq(waiting[k], 1, size(k)) ELSE running[k]]
        /\ queued' = [k \in QueueKeys |->
                        IF k \in taken
                        THEN SubSeq(waiting[k], size(k) + 1, Len(waiting[k]))
                        ELSE waiting[k]]
    BY DEF Pump
  <1>2. \A k \in QueueKeys : size(k) \in 0 .. Len(waiting[k]) /\ size(k) <= MaxTurnsPerBatch
    BY ExtractionAssumption
  <1>3. taken \in SUBSET DOMAIN keys
    OBVIOUS
  <1> HIDE DEF taken, size
  <1>4. \A k \in QueueKeys \ taken : batch'[k] = running[k] /\ queued'[k] = waiting[k]
    BY <1>1
  <1>5. \A k \in QueueKeys \cap taken : CutInto(waiting[k], size(k), batch'[k], queued'[k])
    BY <1>1 DEF CutInto
  <1>6. QED
    BY <1>1, <1>2, <1>3, <1>4, <1>5 DEF Served

LEMMA PumpKeepsTurns ==
    ASSUME NEW keys, NEW waiting, NEW running, NEW aborted, NEW timers, NEW st, NEW gone, NEW n,
           Extracting(keys, waiting, running, aborted, timers, st, gone, n),
           Pump(keys, waiting, running)
    PROVE  Extracting(readyKeys', queued', batch', aborted, timers, st, gone, n)
  <1>1. /\ keys \in KeyLists /\ waiting \in [QueueKeys -> Seq(Turns)]
        /\ running \in [QueueKeys -> Seq(Turns)] /\ st \in [QueueKeys -> Seq(Turns)]
    BY DEF Extracting
  <1>2. PICK taken \in SUBSET DOMAIN keys :
              Served(taken, keys, waiting, running, readyKeys', batch', queued')
    BY <1>1, PumpCuts
  <1>2a. /\ readyKeys' = Without(keys, taken)
         /\ DOMAIN batch' = QueueKeys /\ DOMAIN queued' = QueueKeys
         /\ \A k \in QueueKeys \ taken : batch'[k] = running[k] /\ queued'[k] = waiting[k]
         /\ \A k \in QueueKeys \cap taken :
               \E m \in 0 .. Len(waiting[k]) :
                  /\ m <= MaxTurnsPerBatch
                  /\ CutInto(waiting[k], m, batch'[k], queued'[k])
    BY <1>2 DEF Served
  <1>3. /\ readyKeys' \in KeyLists /\ DOMAIN readyKeys' = DOMAIN keys \ taken
        /\ DOMAIN keys \subseteq QueueKeys
    <2>1. DOMAIN keys \subseteq QueueKeys
      BY <1>1 DEF KeyLists
    <2>2. QED BY <1>1, <1>2a, <2>1, WithoutFacts
  <1>4. \A k \in taken : k \in QueueKeys /\ running[k] = <<>> /\ k \notin aborted /\ k \notin timers
    BY <1>3 DEF Extracting
  <1>5. ASSUME NEW k \in QueueKeys
        PROVE  /\ batch'[k] \in Seq(Turns) /\ queued'[k] \in Seq(Turns)
               /\ Len(batch'[k]) <= MaxTurnsPerBatch /\ Len(queued'[k]) <= MaxPendingTurns
               /\ InTurn(st[k], batch'[k], queued'[k])
               /\ ToSet(queued'[k]) \subseteq ToSet(waiting[k])
               /\ k \notin taken => batch'[k] = running[k]
               /\ k \in taken => ToSet(batch'[k]) \subseteq ToSet(waiting[k])
    <2>1. CASE k \notin taken
      BY <1>1, <1>2a, <2>1 DEF Extracting
    <2>2. CASE k \in taken
      <3>1. PICK m \in 0 .. Len(waiting[k]) :
                       /\ m <= MaxTurnsPerBatch
                       /\ CutInto(waiting[k], m, batch'[k], queued'[k])
        <4>1. k \in QueueKeys \cap taken
          BY <2>2
        <4>2. QED BY <1>2a, <4>1
      <3>2. /\ InTurn(st[k], <<>>, waiting[k]) /\ Len(waiting[k]) <= MaxPendingTurns
            /\ waiting[k] \in Seq(Turns) /\ st[k] \in Seq(Turns)
        BY <1>1, <1>4, <2>2 DEF Extracting
      <3>3. /\ InTurn(st[k], batch'[k], queued'[k])
            /\ ToSet(batch'[k]) \subseteq ToSet(waiting[k])
            /\ ToSet(queued'[k]) \subseteq ToSet(waiting[k])
            /\ batch'[k] \in Seq(Turns) /\ queued'[k] \in Seq(Turns)
            /\ Len(batch'[k]) = m /\ Len(queued'[k]) <= Len(waiting[k])
        <4> DEFINE q == waiting[k]
                   s == st[k]
                   a == batch'[k]
                   b == queued'[k]
        <4>1. /\ s \in Seq(Turns) /\ q \in Seq(Turns) /\ m \in 0 .. Len(q)
              /\ CutInto(q, m, a, b) /\ InTurn(s, <<>>, q)
          BY <3>1, <3>2
        <4> HIDE DEF q, s, a, b
        <4>2. /\ InTurn(s, a, b)
              /\ ToSet(a) \subseteq ToSet(q) /\ ToSet(b) \subseteq ToSet(q)
              /\ a \in Seq(Turns) /\ b \in Seq(Turns) /\ Len(a) = m /\ Len(b) <= Len(q)
          BY <4>1, SplitInTurn
        <4>3. QED BY <4>2 DEF q, s, a, b
      <3>4. Len(queued'[k]) <= MaxPendingTurns
        BY <3>2, <3>3, ExtractionAssumption
      <3>5. QED BY <2>2, <3>1, <3>3, <3>4
    <2>3. QED BY <2>1, <2>2
  <1>6. ASSUME NEW k \in QueueKeys
        PROVE  /\ Among(batch'[k], n) /\ Among(queued'[k], n) /\ Apart(queued'[k], gone)
               /\ k \notin aborted => Apart(batch'[k], gone)
    <2>1. /\ \A t \in ToSet(waiting[k]) : t \in 1 .. n /\ t \notin gone
          /\ \A t \in ToSet(running[k]) : t \in 1 .. n
          /\ k \notin aborted => \A t \in ToSet(running[k]) : t \notin gone
      BY DEF Extracting, Among, Apart, ToSet
    <2>2. /\ \A t \in ToSet(queued'[k]) : t \in 1 .. n /\ t \notin gone
          /\ \A t \in ToSet(batch'[k]) : t \in 1 .. n
          /\ k \notin aborted => \A t \in ToSet(batch'[k]) : t \notin gone
      BY <1>5, <2>1
    <2>3. QED BY <2>2 DEF Among, Apart, ToSet
  <1>7. \A k \in QueueKeys :
           Known(st[k], batch'[k], queued'[k]) \subseteq Known(st[k], running[k], waiting[k])
    BY <1>5 DEF Known
  <1>8. \A j, k \in QueueKeys :
          j # k => Known(st[j], batch'[j], queued'[j]) \cap Known(st[k], batch'[k], queued'[k]) = {}
    <2>1. \A j, k \in QueueKeys :
          j # k => Known(st[j], running[j], waiting[j]) \cap Known(st[k], running[k], waiting[k]) = {}
      BY DEF Extracting
    <2>2. QED BY <1>7, <2>1
  <1>9. /\ batch' \in [QueueKeys -> Seq(Turns)] /\ queued' \in [QueueKeys -> Seq(Turns)]
    <2>1. batch' = [k \in QueueKeys |-> batch'[k]] /\ queued' = [k \in QueueKeys |-> queued'[k]]
      BY <1>1 DEF Pump
    <2>2. QED BY <1>5, <2>1
  <1>10. /\ \A k \in aborted : k \in QueueKeys /\ batch'[k] # <<>>
         /\ \A k \in timers \cup DOMAIN readyKeys' : batch'[k] = <<>>
         /\ timers \cap DOMAIN readyKeys' = {}
    BY <1>2a, <1>3, <1>4 DEF Extracting
  <1>11. \A k \in QueueKeys : Among(st[k], n) /\ Apart(st[k], gone)
    BY DEF Extracting
  <1>12. timers \subseteq QueueKeys /\ gone \subseteq 1 .. n /\ n \in 0 .. MaxTurns
    BY DEF Extracting
  <1>13. QED
    BY <1>1, <1>3, <1>5, <1>6, <1>8, <1>9, <1>10, <1>11, <1>12 DEF Extracting

LEMMA ExtractionStarts ==
    ExtractionInit => ExtractionInv
  <1> SUFFICES ASSUME ExtractionInit PROVE ExtractionInv
    OBVIOUS
  <1> DEFINE none == [k \in QueueKeys |-> <<>>]
  <1>1. /\ readyKeys = NoKeys /\ queued = none /\ batch = none /\ stored = none
        /\ abortedKeys = {} /\ timer = {} /\ dropped = {} /\ turns = 0
    BY DEF ExtractionInit
  <1>2. none \in [QueueKeys -> Seq(Turns)] /\ \A k \in QueueKeys : none[k] = <<>>
    OBVIOUS
  <1> HIDE DEF none
  <1>3. \A k \in QueueKeys :
          /\ InTurn(none[k], none[k], none[k]) /\ Among(none[k], 0) /\ Apart(none[k], {})
          /\ Known(none[k], none[k], none[k]) = {}
          /\ Len(none[k]) <= MaxPendingTurns /\ Len(none[k]) <= MaxTurnsPerBatch
    BY <1>2, EmptyFacts, ExtractionAssumption
       DEF InTurn, Rising, Below, Among, Apart, Known, ToSet
  <1>4. 0 \in 0 .. MaxTurns /\ 0 \in 0 .. MaxReloads
    BY ExtractionAssumption
  <1>5. Extracting(NoKeys, none, none, {}, {}, none, {}, 0)
    BY <1>2, <1>3, <1>4, EmptyFacts DEF Extracting
  <1>6. QED
    BY <1>1, <1>4, <1>5 DEF ExtractionInv, ExtractionInit

\* The executor offers a turn: it is later than all that came before.
LEMMA OfferInTurn ==
    ASSUME NEW s, NEW b, NEW q \in Seq(Turns), NEW n \in Nat, n + 1 \in Turns,
           InTurn(s, b, q), Among(s, n), Among(b, n), Among(q, n)
    PROVE  /\ InTurn(s, b, Append(q, n + 1)) /\ Append(q, n + 1) \in Seq(Turns)
           /\ Len(Append(q, n + 1)) = Len(q) + 1
           /\ ToSet(Append(q, n + 1)) = ToSet(q) \cup {n + 1}
  <1> DEFINE c == Append(q, n + 1)
             m == Len(q) + 1
  <1>1. /\ c \in Seq(Turns) /\ Len(c) = Len(q) + 1 /\ m \notin DOMAIN q /\ c[m] = n + 1
        /\ DOMAIN c = DOMAIN q \cup {m}
        /\ \A i \in DOMAIN q : i \in Nat /\ i < m /\ c[i] = q[i]
    OBVIOUS
  <1> HIDE DEF c, m
  <1>2. /\ \A i \in DOMAIN s : s[i] < n + 1
        /\ \A i \in DOMAIN b : b[i] < n + 1
        /\ \A i \in DOMAIN q : q[i] < n + 1
    BY DEF Among
  <1>3. Rising(c)
    <2> SUFFICES ASSUME NEW i \in DOMAIN c, NEW j \in DOMAIN c, i < j PROVE c[i] < c[j]
      BY DEF Rising
    <2>1. i \in DOMAIN q
      BY <1>1
    <2>2. CASE j \in DOMAIN q
      BY <1>1, <2>1, <2>2 DEF InTurn, Rising
    <2>3. CASE j = m
      BY <1>1, <1>2, <2>1, <2>3
    <2>4. QED BY <1>1, <2>2, <2>3
  <1>4. Below(s, c) /\ Below(b, c)
    BY <1>1, <1>2 DEF InTurn, Below
  <1>5. ToSet(c) = ToSet(q) \cup {n + 1}
    BY <1>1 DEF ToSet
  <1>6. QED
    BY <1>1, <1>3, <1>4, <1>5 DEF InTurn, c

LEMMA EnqueueKeepsTurns ==
    ASSUME ExtractionInv, NEW k \in QueueKeys, EnqueueTurn(k)
    PROVE  ExtractionInv'
  <1>1. /\ Extracting(readyKeys, queued, batch, abortedKeys, timer, stored, dropped, turns)
        /\ turns \in Nat /\ turns + 1 \in Turns /\ turns + 1 \in 0 .. MaxTurns
        /\ turns' = turns + 1
        /\ UNCHANGED <<readyKeys, batch, abortedKeys, stored, dropped>>
    BY ExtractionAssumption DEF ExtractionInv, EnqueueTurn, Extracting, Turns
  <1>2. /\ timer' \subseteq timer \cup {k}
        /\ k \in timer' => k \in timer \/ (batch[k] = <<>> /\ k \notin DOMAIN readyKeys)
    BY DEF EnqueueTurn, Running
  <1>3. /\ queued' \in [QueueKeys -> Seq(Turns)]
        /\ \A j \in QueueKeys :
              /\ Len(queued'[j]) <= MaxPendingTurns
              /\ InTurn(stored[j], batch[j], queued'[j])
              /\ ToSet(queued'[j]) \subseteq ToSet(queued[j]) \cup {turns + 1}
              /\ j # k => queued'[j] = queued[j]
    <2>1. CASE UNCHANGED queued
      BY <1>1, <2>1 DEF Extracting
    <2>2. CASE Len(queued[k]) < MaxPendingTurns
               /\ queued' = [queued EXCEPT ![k] = Append(@, turns + 1)]
      <3>1. /\ InTurn(stored[k], batch[k], queued[k]) /\ queued[k] \in Seq(Turns)
            /\ Among(stored[k], turns) /\ Among(batch[k], turns) /\ Among(queued[k], turns)
        BY <1>1 DEF Extracting
      <3> DEFINE q == queued[k]
                 c == Append(q, turns + 1)
      <3>2. /\ InTurn(stored[k], batch[k], c) /\ c \in Seq(Turns) /\ Len(c) = Len(q) + 1
            /\ ToSet(c) = ToSet(q) \cup {turns + 1}
        BY <1>1, <3>1, OfferInTurn
      <3>3. Len(c) <= MaxPendingTurns
        BY <2>2, <3>1, <3>2, ExtractionAssumption
      <3>4. queued \in [QueueKeys -> Seq(Turns)] /\ queued' = [queued EXCEPT ![k] = c]
        BY <1>1, <2>2 DEF Extracting
      <3> HIDE DEF c
      <3>5. queued' \in [QueueKeys -> Seq(Turns)] /\ queued'[k] = c
            /\ \A j \in QueueKeys \ {k} : queued'[j] = queued[j]
        BY <3>2, <3>4
      <3>6. QED
        BY <1>1, <3>2, <3>3, <3>5 DEF Extracting
    <2>3. QED BY <2>1, <2>2 DEF EnqueueTurn
  <1>4. \A s : Among(s, turns) => Among(s, turns + 1)
    BY <1>1 DEF Among
  <1>5. turns + 1 \notin dropped /\ dropped \subseteq 1 .. (turns + 1)
    BY <1>1 DEF Extracting
  <1>6. ASSUME NEW j \in QueueKeys
        PROVE  Among(queued'[j], turns + 1) /\ Apart(queued'[j], dropped)
    <2>1. \A t \in ToSet(queued[j]) : t \in 1 .. turns /\ t \notin dropped
      BY <1>1 DEF Extracting, Among, Apart, ToSet
    <2>2. \A t \in ToSet(queued'[j]) : t \in 1 .. (turns + 1) /\ t \notin dropped
      BY <1>1, <1>3, <1>5, <2>1
    <2>3. QED BY <2>2 DEF Among, Apart, ToSet
  <1>7. ASSUME NEW i \in QueueKeys, NEW j \in QueueKeys, i # j
        PROVE  Known(stored[i], batch[i], queued'[i])
                  \cap Known(stored[j], batch[j], queued'[j]) = {}
    <2>1. ASSUME NEW l \in QueueKeys
          PROVE  turns + 1 \notin Known(stored[l], batch[l], queued[l])
      <3>1. Among(stored[l], turns) /\ Among(batch[l], turns) /\ Among(queued[l], turns)
        BY <1>1 DEF Extracting
      <3>2. QED BY <1>1, <3>1 DEF Among, Known, ToSet
    <2>2. \A l \in QueueKeys :
             /\ Known(stored[l], batch[l], queued'[l])
                   \subseteq Known(stored[l], batch[l], queued[l]) \cup {turns + 1}
             /\ l # k => Known(stored[l], batch[l], queued'[l])
                          = Known(stored[l], batch[l], queued[l])
      BY <1>3 DEF Known
    <2>3. Known(stored[i], batch[i], queued[i]) \cap Known(stored[j], batch[j], queued[j]) = {}
      BY <1>1, <1>7 DEF Extracting
    <2>4. i # k \/ j # k
      BY <1>7
    <2>5. QED BY <2>1, <2>2, <2>3, <2>4
  <1>8. Extracting(readyKeys, queued', batch, abortedKeys, timer', stored, dropped, turns + 1)
    BY <1>1, <1>2, <1>3, <1>4, <1>5, <1>6, <1>7 DEF Extracting
  <1>9. QED
    BY <1>1, <1>8 DEF ExtractionInv, EnqueueTurn

LEMMA TimerKeepsTurns ==
    ASSUME ExtractionInv, NEW k \in QueueKeys, TimerFires(k)
    PROVE  ExtractionInv'
  <1>1. Extracting(readyKeys, queued, batch, abortedKeys, timer, stored, dropped, turns)
    BY DEF ExtractionInv
  <1>2. /\ Joined(readyKeys, k) \in KeyLists
        /\ DOMAIN Joined(readyKeys, k) = DOMAIN readyKeys \cup {k}
    BY <1>1, JoinedFacts DEF Extracting
  <1>3. Extracting(Joined(readyKeys, k), queued, batch, abortedKeys, timer \ {k},
                   stored, dropped, turns)
    BY <1>1, <1>2 DEF Extracting, TimerFires
  <1>4. Extracting(readyKeys', queued', batch', abortedKeys, timer \ {k}, stored, dropped, turns)
    BY <1>3, PumpKeepsTurns DEF TimerFires
  <1>5. QED
    BY <1>4 DEF ExtractionInv, TimerFires

LEMMA ReloadKeepsTurns ==
    ExtractionInv /\ ReloadConfig => ExtractionInv'
  <1> SUFFICES ASSUME ExtractionInv, ReloadConfig PROVE ExtractionInv'
    OBVIOUS
  <1>1. Extracting(readyKeys', queued', batch', abortedKeys, timer, stored, dropped, turns)
    BY PumpKeepsTurns DEF ExtractionInv, ReloadConfig
  <1>2. QED
    BY <1>1 DEF ExtractionInv, ReloadConfig

\* A batch ends, its facts stored or not, and the key waits again if more came.
LEMMA BatchEndsKeepsTurns ==
    ASSUME ExtractionInv, NEW k \in QueueKeys, BatchEnds(k)
    PROVE  ExtractionInv'
  <1> DEFINE keys == IF queued[k] # <<>> THEN Joined(readyKeys, k) ELSE readyKeys
             running == [batch EXCEPT ![k] = <<>>]
             aborted == abortedKeys \ {k}
  <1>1. /\ Extracting(readyKeys, queued, batch, abortedKeys, timer, stored, dropped, turns)
        /\ batch[k] # <<>>
    BY DEF ExtractionInv, BatchEnds, Running
  <1>2. /\ batch \in [QueueKeys -> Seq(Turns)] /\ stored \in [QueueKeys -> Seq(Turns)]
        /\ queued \in [QueueKeys -> Seq(Turns)] /\ readyKeys \in KeyLists
        /\ k \notin timer /\ k \notin DOMAIN readyKeys
    BY <1>1 DEF Extracting
  <1>3. /\ keys \in KeyLists /\ DOMAIN keys \subseteq DOMAIN readyKeys \cup {k}
    BY <1>2, JoinedFacts
  <1>4. /\ running \in [QueueKeys -> Seq(Turns)] /\ running[k] = <<>>
        /\ \A j \in QueueKeys \ {k} : running[j] = batch[j]
    BY <1>2, EmptyFacts
  <1>5. Pump(keys, queued, running)
    BY DEF BatchEnds
  <1> HIDE DEF keys, running
  <1>6. /\ stored' \in [QueueKeys -> Seq(Turns)]
        /\ \A j \in QueueKeys :
              /\ InTurn(stored'[j], running[j], queued[j])
              /\ Among(stored'[j], turns) /\ Apart(stored'[j], dropped)
              /\ j # k => stored'[j] = stored[j]
              /\ ToSet(stored'[j]) \subseteq ToSet(stored[j]) \cup ToSet(batch[j])
    <2>1. /\ InTurn(stored[k], batch[k], queued[k])
          /\ stored[k] \in Seq(Turns) /\ batch[k] \in Seq(Turns) /\ queued[k] \in Seq(Turns)
          /\ Among(stored[k], turns) /\ Among(batch[k], turns) /\ Apart(stored[k], dropped)
          /\ k \notin abortedKeys => Apart(batch[k], dropped)
      BY <1>1, <1>2 DEF Extracting
    <2> DEFINE s == stored[k]
               b == batch[k]
               q == queued[k]
               c == s \o b
    <2>2. /\ InTurn(c, <<>>, q) /\ InTurn(s, <<>>, q) /\ c \in Seq(Turns)
          /\ \A i \in DOMAIN c : \/ \E j \in DOMAIN s : c[i] = s[j]
                                 \/ \E j \in DOMAIN b : c[i] = b[j]
      <3>1. /\ s \in Seq(Turns) /\ b \in Seq(Turns) /\ q \in Seq(Turns) /\ InTurn(s, b, q)
        BY <2>1
      <3> HIDE DEF s, b, q
      <3>2. QED BY <3>1, StoredInTurn
    <2>3. CASE UNCHANGED stored
      <3>1. \A j \in QueueKeys : InTurn(stored[j], running[j], queued[j])
        <4>1. \A j \in QueueKeys \ {k} : InTurn(stored[j], running[j], queued[j])
          BY <1>1, <1>4 DEF Extracting
        <4>2. InTurn(stored[k], running[k], queued[k])
          BY <1>4, <2>2
        <4>3. QED BY <4>1, <4>2
      <3>2. QED BY <1>1, <1>2, <2>3, <3>1 DEF Extracting
    <2>4. CASE k \notin abortedKeys /\ stored' = [stored EXCEPT ![k] = c]
      <3> HIDE DEF c
      <3>1. /\ stored' \in [QueueKeys -> Seq(Turns)] /\ stored'[k] = c
            /\ \A j \in QueueKeys \ {k} : stored'[j] = stored[j]
        BY <1>2, <2>2, <2>4
      <3>2. Among(c, turns) /\ Apart(c, dropped) /\ ToSet(c) \subseteq ToSet(s) \cup ToSet(b)
        BY <2>1, <2>2, <2>4 DEF Among, Apart, ToSet
      <3>3. \A j \in QueueKeys \ {k} : InTurn(stored'[j], running[j], queued[j])
        BY <1>1, <1>4, <3>1 DEF Extracting
      <3>4. InTurn(stored'[k], running[k], queued[k])
        BY <1>4, <2>2, <3>1
      <3>5. \A j \in QueueKeys \ {k} : Among(stored'[j], turns) /\ Apart(stored'[j], dropped)
        BY <1>1, <3>1 DEF Extracting
      <3>6. QED BY <3>1, <3>2, <3>3, <3>4, <3>5
    <2>5. QED BY <2>3, <2>4 DEF BatchEnds
  <1>7. ASSUME NEW j \in QueueKeys
        PROVE  /\ Among(running[j], turns) /\ Len(running[j]) <= MaxTurnsPerBatch
               /\ j \notin aborted => Apart(running[j], dropped)
    <2>1. CASE j = k
      BY <1>4, <2>1, EmptyFacts, ExtractionAssumption DEF Among, Apart
    <2>2. CASE j # k
      BY <1>1, <1>4, <2>2 DEF Extracting
    <2>3. QED BY <2>1, <2>2
  <1>8. ASSUME NEW i \in QueueKeys, NEW j \in QueueKeys, i # j
        PROVE  Known(stored'[i], running[i], queued[i])
                  \cap Known(stored'[j], running[j], queued[j]) = {}
    <2>1. \A l \in QueueKeys : Known(stored'[l], running[l], queued[l])
                                \subseteq Known(stored[l], batch[l], queued[l])
      <3> SUFFICES ASSUME NEW l \in QueueKeys
                   PROVE  Known(stored'[l], running[l], queued[l])
                             \subseteq Known(stored[l], batch[l], queued[l])
        OBVIOUS
      <3>1. ToSet(running[l]) \subseteq ToSet(batch[l])
        <4>1. CASE l = k
          BY <1>4, <4>1, EmptyFacts DEF ToSet
        <4>2. CASE l # k
          BY <1>4, <4>2
        <4>3. QED BY <4>1, <4>2
      <3>2. QED BY <1>6, <3>1 DEF Known
    <2>2. Known(stored[i], batch[i], queued[i]) \cap Known(stored[j], batch[j], queued[j]) = {}
      BY <1>1, <1>8 DEF Extracting
    <2>3. QED BY <2>1, <2>2
  <1>9. /\ \A j \in aborted : j \in QueueKeys /\ running[j] # <<>>
        /\ \A j \in timer \cup DOMAIN keys : running[j] = <<>>
        /\ timer \cap DOMAIN keys = {}
    <2>1. /\ \A j \in abortedKeys : j \in QueueKeys /\ batch[j] # <<>>
          /\ \A j \in timer \cup DOMAIN readyKeys : batch[j] = <<>>
          /\ timer \cap DOMAIN readyKeys = {} /\ timer \subseteq QueueKeys
          /\ DOMAIN readyKeys \subseteq QueueKeys
      BY <1>1, <1>2 DEF Extracting, KeyLists
    <2>2. QED BY <1>2, <1>3, <1>4, <2>1
  <1>10. Extracting(keys, queued, running, aborted, timer, stored', dropped, turns)
    <2>1. /\ timer \subseteq QueueKeys /\ dropped \subseteq 1 .. turns /\ turns \in 0 .. MaxTurns
          /\ \A j \in QueueKeys : /\ Len(queued[j]) <= MaxPendingTurns /\ Among(queued[j], turns)
                                  /\ Apart(queued[j], dropped)
      BY <1>1 DEF Extracting
    <2> HIDE DEF aborted
    <2>2. aborted \subseteq QueueKeys
      BY <1>9
    <2>3. QED
      BY <1>2, <1>3, <1>4, <1>6, <1>7, <1>8, <1>9, <2>1, <2>2 DEF Extracting
  <1>11. Extracting(readyKeys', queued', batch', aborted, timer, stored', dropped, turns)
    BY <1>5, <1>10, PumpKeepsTurns
  <1>12. QED
    BY <1>11 DEF ExtractionInv, BatchEnds

\* A session is deleted, or the program stops: what its keys had is dropped.
Drops(group, keys, qu, ba, aborted, timers, gone, r, q, a, tm, g) ==
    /\ r \in KeyLists /\ DOMAIN r = DOMAIN keys \ group
    /\ q = [k \in QueueKeys |-> IF k \in group THEN <<>> ELSE qu[k]]
    /\ a = aborted \cup (group \cap {k \in QueueKeys : ba[k] # <<>>})
    /\ tm = timers \ group
    /\ \A t : t \in g <=> \/ t \in gone
                          \/ \E k \in group : t \in ToSet(qu[k]) \cup ToSet(ba[k])

LEMMA DropKeepsTurns ==
    ASSUME NEW keys, NEW qu, NEW ba, NEW aborted, NEW timers, NEW st, NEW gone, NEW n,
           Extracting(keys, qu, ba, aborted, timers, st, gone, n),
           NEW group \in SUBSET QueueKeys, NEW r, NEW q, NEW a, NEW tm, NEW g,
           Drops(group, keys, qu, ba, aborted, timers, gone, r, q, a, tm, g)
    PROVE  Extracting(r, q, ba, a, tm, st, g, n)
  <1> DEFINE more == {t \in g : \E k \in group : t \in ToSet(qu[k]) \cup ToSet(ba[k])}
  <1>0. /\ r \in KeyLists /\ DOMAIN r = DOMAIN keys \ group
        /\ q = [k \in QueueKeys |-> IF k \in group THEN <<>> ELSE qu[k]]
        /\ a = aborted \cup (group \cap {k \in QueueKeys : ba[k] # <<>>})
        /\ tm = timers \ group /\ g = gone \cup more
        /\ \A t : t \in more <=> \E k \in group : t \in ToSet(qu[k]) \cup ToSet(ba[k])
    BY DEF Drops
  <1> HIDE DEF more
  <1>1. /\ q \in [QueueKeys -> Seq(Turns)]
        /\ \A k \in QueueKeys : q[k] = IF k \in group THEN <<>> ELSE qu[k]
    BY <1>0, EmptyFacts DEF Extracting
  <1>2. /\ a \subseteq QueueKeys /\ \A k \in a : ba[k] # <<>>
        /\ aborted \subseteq a /\ \A k \in group : k \in a \/ ba[k] = <<>>
    BY <1>0 DEF Extracting
  <1>3. ASSUME NEW k \in QueueKeys
        PROVE  /\ Len(q[k]) <= MaxPendingTurns /\ Among(q[k], n)
               /\ InTurn(st[k], ba[k], q[k])
               /\ Known(st[k], ba[k], q[k]) \subseteq Known(st[k], ba[k], qu[k])
    <2>1. CASE k \in group
      <3>1. q[k] = <<>>
        BY <1>1, <2>1
      <3>2. InTurn(st[k], ba[k], qu[k])
        BY DEF Extracting
      <3>3. /\ Rising(<<>>) /\ Below(st[k], <<>>) /\ Below(ba[k], <<>>)
            /\ Among(<<>>, n) /\ ToSet(<<>>) = {} /\ Len(<<>>) <= MaxPendingTurns
        BY EmptyFacts, ExtractionAssumption DEF Rising, Below, Among, ToSet
      <3>4. QED BY <3>1, <3>2, <3>3 DEF InTurn, Known
    <2>2. CASE k \notin group
      BY <1>1, <2>2 DEF Extracting
    <2>3. QED BY <2>1, <2>2
  <1>4. ASSUME NEW k \in QueueKeys
        PROVE  /\ Apart(st[k], more)
               /\ k \notin group => Apart(ba[k], more) /\ Apart(qu[k], more)
    <2>1. ASSUME NEW j \in group, NEW t \in ToSet(qu[j]) \cup ToSet(ba[j])
          PROVE  /\ t \notin ToSet(st[k])
                 /\ k \notin group => t \notin ToSet(ba[k]) /\ t \notin ToSet(qu[k])
      <3>1. CASE j = k
        <4>1. Below(st[k], ba[k]) /\ Below(st[k], qu[k]) /\ Among(st[k], n)
          BY DEF Extracting, InTurn
        <4>2. QED BY <2>1, <3>1, <4>1 DEF Below, Among, ToSet
      <3>2. CASE j # k
        <4>1. Known(st[j], ba[j], qu[j]) \cap Known(st[k], ba[k], qu[k]) = {}
          BY <3>2 DEF Extracting
        <4>2. QED BY <2>1, <4>1 DEF Known
      <3>3. QED BY <3>1, <3>2
    <2>2. \A t \in more : /\ t \notin ToSet(st[k])
                          /\ k \notin group => t \notin ToSet(ba[k]) /\ t \notin ToSet(qu[k])
      BY <1>0, <2>1
    <2>3. \A z : \A i \in DOMAIN z : z[i] \in ToSet(z)
      BY DEF ToSet
    <2>4. \A z : (\A t \in more : t \notin ToSet(z)) => Apart(z, more)
      BY <2>3 DEF Apart
    <2>5. Apart(st[k], more)
      BY <2>2, <2>4
    <2>6. k \notin group => Apart(ba[k], more) /\ Apart(qu[k], more)
      <3>1. CASE k \notin group
        <4>1. /\ \A t \in more : t \notin ToSet(ba[k])
              /\ \A t \in more : t \notin ToSet(qu[k])
          BY <2>2, <3>1
        <4>2. QED BY <2>4, <4>1
      <3>2. QED BY <3>1
    <2>7. QED BY <2>5, <2>6
  <1>5. ASSUME NEW k \in QueueKeys
        PROVE  /\ Apart(st[k], gone \cup more) /\ Apart(q[k], gone \cup more)
               /\ k \notin a => Apart(ba[k], gone \cup more)
    <2>1. /\ Apart(st[k], gone) /\ Apart(qu[k], gone)
          /\ k \notin aborted => Apart(ba[k], gone)
      BY DEF Extracting
    <2>2. CASE k \in group
      <3>1. q[k] = <<>> /\ (k \notin a => ba[k] = <<>>)
        BY <1>1, <1>2, <2>2
      <3>2. Apart(<<>>, gone \cup more)
        BY EmptyFacts DEF Apart
      <3>3. QED BY <1>4, <2>1, <3>1, <3>2 DEF Apart
    <2>3. CASE k \notin group
      BY <1>1, <1>2, <1>4, <2>1, <2>3 DEF Apart
    <2>4. QED BY <2>2, <2>3
  <1>6. gone \cup more \subseteq 1 .. n
    <2>1. \A k \in group : \A t \in ToSet(qu[k]) \cup ToSet(ba[k]) : t \in 1 .. n
      BY DEF Extracting, Among, ToSet
    <2>2. gone \subseteq 1 .. n
      BY DEF Extracting
    <2>3. QED BY <1>0, <2>1, <2>2
  <1>7. ASSUME NEW i \in QueueKeys, NEW j \in QueueKeys, i # j
        PROVE  Known(st[i], ba[i], q[i]) \cap Known(st[j], ba[j], q[j]) = {}
    <2>1. Known(st[i], ba[i], qu[i]) \cap Known(st[j], ba[j], qu[j]) = {}
      BY <1>7 DEF Extracting
    <2>2. QED BY <1>3, <2>1
  <1>8. Extracting(r, q, ba, a, timers \ group, st, gone \cup more, n)
    <2>1. /\ timers \subseteq QueueKeys /\ ba \in [QueueKeys -> Seq(Turns)]
          /\ st \in [QueueKeys -> Seq(Turns)] /\ n \in 0 .. MaxTurns
          /\ timers \cap DOMAIN keys = {} /\ \A k \in timers \cup DOMAIN keys : ba[k] = <<>>
          /\ \A k \in QueueKeys : /\ Len(ba[k]) <= MaxTurnsPerBatch
                                  /\ Among(st[k], n) /\ Among(ba[k], n)
      BY DEF Extracting
    <2>2. QED
      BY <1>0, <1>1, <1>2, <1>3, <1>5, <1>6, <1>7, <2>1 DEF Extracting
  <1>9. QED
    BY <1>0, <1>8

LEMMA CancelKeepsTurns ==
    ASSUME ExtractionInv, NEW s \in Sessions, CancelSession(s)
    PROVE  ExtractionInv'
  <1>1. Extracting(readyKeys, queued, batch, abortedKeys, timer, stored, dropped, turns)
    BY DEF ExtractionInv
  <1>2. /\ Of(s) \in SUBSET QueueKeys
        /\ \A t : t \in AcceptedIn(s) <=>
                     \E k \in Of(s) : t \in ToSet(queued[k]) \cup ToSet(batch[k])
    BY DEF Of, AcceptedIn
  <1>3. /\ Without(readyKeys, Of(s)) \in KeyLists
        /\ DOMAIN Without(readyKeys, Of(s)) = DOMAIN readyKeys \ Of(s)
    BY <1>1, WithoutFacts DEF Extracting
  <1>4. Drops(Of(s), readyKeys, queued, batch, abortedKeys, timer, dropped,
              readyKeys', queued', abortedKeys', timer', dropped')
    BY <1>2, <1>3 DEF Drops, CancelSession, Running
  <1>5. Extracting(readyKeys', queued', batch, abortedKeys', timer', stored, dropped', turns)
    BY <1>1, <1>2, <1>4, DropKeepsTurns
  <1>6. UNCHANGED <<batch, limit, notified, off, turns, reloads, stored>>
    BY DEF CancelSession
  <1>7. QED
    BY <1>5, <1>6 DEF ExtractionInv

LEMMA StopKeepsTurns ==
    ExtractionInv /\ StopExtraction => ExtractionInv'
  <1> SUFFICES ASSUME ExtractionInv, StopExtraction PROVE ExtractionInv'
    OBVIOUS
  <1> DEFINE more == UNION {AcceptedIn(s) : s \in Sessions}
             a == abortedKeys \cup (QueueKeys \cap {k \in QueueKeys : batch[k] # <<>>})
             q == [k \in QueueKeys |-> IF k \in QueueKeys THEN <<>> ELSE queued[k]]
  <1>1. Extracting(readyKeys, queued, batch, abortedKeys, timer, stored, dropped, turns)
    BY DEF ExtractionInv
  <1>2. \A t : t \in more <=> \E k \in QueueKeys : t \in ToSet(queued[k]) \cup ToSet(batch[k])
    BY DEF AcceptedIn, Of, Sessions
  <1>3. DOMAIN NoKeys = DOMAIN readyKeys \ QueueKeys /\ NoKeys \in KeyLists
    BY <1>1, EmptyFacts DEF Extracting, KeyLists
  <1>4. /\ readyKeys' = NoKeys /\ queued' = q /\ abortedKeys' = a
        /\ timer' = timer \ QueueKeys /\ dropped' = dropped \cup more
    <2>1. timer \ QueueKeys = {} /\ abortedKeys \subseteq {k \in QueueKeys : batch[k] # <<>>}
      BY <1>1 DEF Extracting
    <2>2. q = [k \in QueueKeys |-> <<>>]
      OBVIOUS
    <2>3. QED BY <2>1, <2>2 DEF StopExtraction, Running
  <1> HIDE DEF more
  <1>5. Drops(QueueKeys, readyKeys, queued, batch, abortedKeys, timer, dropped,
              readyKeys', queued', abortedKeys', timer', dropped')
    BY <1>2, <1>3, <1>4 DEF Drops
  <1>6. Extracting(readyKeys', queued', batch, abortedKeys', timer', stored, dropped', turns)
    <2>1. QueueKeys \in SUBSET QueueKeys
      OBVIOUS
    <2>2. QED BY <1>1, <1>5, <2>1, DropKeepsTurns
  <1>7. UNCHANGED <<batch, limit, notified, turns, reloads, stored>> /\ off' = TRUE
    BY DEF StopExtraction
  <1>8. QED
    BY <1>6, <1>7 DEF ExtractionInv

LEMMA ExtractionStep ==
    ExtractionInv /\ [ExtractionNext]_extractionVars => ExtractionInv'
  <1> SUFFICES ASSUME ExtractionInv, [ExtractionNext]_extractionVars PROVE ExtractionInv'
    OBVIOUS
  <1>1. ASSUME NEW k \in QueueKeys, EnqueueTurn(k) PROVE ExtractionInv'
    BY <1>1, EnqueueKeepsTurns
  <1>2. ASSUME NEW k \in QueueKeys, TimerFires(k) PROVE ExtractionInv'
    BY <1>2, TimerKeepsTurns
  <1>3. ASSUME NEW k \in QueueKeys, BatchEnds(k) PROVE ExtractionInv'
    BY <1>3, BatchEndsKeepsTurns
  <1>4. ASSUME NEW s \in Sessions, CancelSession(s) PROVE ExtractionInv'
    BY <1>4, CancelKeepsTurns
  <1>5. CASE ConfigChanges
    <2>1. limit' \in Nat /\ notified' \in BOOLEAN
      <3>1. limit' \in {0, 1, 2} /\ notified' = FALSE
        BY <1>5 DEF ConfigChanges
      <3>2. limit' \in Nat
        BY <3>1
      <3>3. notified' \in BOOLEAN
        BY <3>1, Zenon
      <3>4. QED BY <3>2, <3>3
    <2>2. reloads' \in 0 .. MaxReloads
      BY <1>5, ExtractionAssumption DEF ExtractionInv, ConfigChanges
    <2>3. QED BY <1>5, <2>1, <2>2 DEF ExtractionInv, ConfigChanges
  <1>6. CASE ReloadConfig
    BY <1>6, ReloadKeepsTurns
  <1>7. CASE StopExtraction
    BY <1>7, StopKeepsTurns
  <1>8. CASE UNCHANGED extractionVars
    BY <1>8 DEF ExtractionInv, extractionVars
  <1>9. QED
    BY <1>1, <1>2, <1>3, <1>4, <1>5, <1>6, <1>7, <1>8 DEF ExtractionNext

LEMMA ExtractionInvariant ==
    ExtractionSpec => []ExtractionInv
  <1>1. QED
    BY ExtractionStarts, ExtractionStep, PTL DEF ExtractionSpec

\* The queue holds at most so many turns per key and per batch, and only a key
\* that is running is ever aborted.
THEOREM ExtractionTypes ==
    ExtractionSpec => []ExtractionTypeOK
  <1>1. ExtractionInv => ExtractionTypeOK
    <2> SUFFICES ASSUME ExtractionInv PROVE ExtractionTypeOK
      OBVIOUS
    <2>1. Extracting(readyKeys, queued, batch, abortedKeys, timer, stored, dropped, turns)
      BY DEF ExtractionInv
    <2>2. abortedKeys \subseteq Running /\ dropped \subseteq Turns /\ turns \in 0 .. MaxTurns
      BY <2>1, ExtractionAssumption DEF Extracting, Running, Turns
    <2>3. QED
      BY <2>1, <2>2 DEF ExtractionInv, Extracting, ExtractionTypeOK, KeyLists
  <1>2. QED
    BY <1>1, ExtractionInvariant, PTL

\* However timers, requests, config changes, deletions and the shutdown
\* interleave, no turn of a deleted session is stored after it, and the turns of
\* a user are stored in order and once.
THEOREM ExtractionForgetsDeletedTurns ==
    ExtractionSpec => []DeletedTurnsAreForgotten
  <1>1. ExtractionInv => DeletedTurnsAreForgotten
    <2> SUFFICES ASSUME ExtractionInv PROVE DeletedTurnsAreForgotten
      OBVIOUS
    <2>1. \A k \in QueueKeys : Apart(stored[k], dropped) /\ Rising(stored[k])
      BY DEF ExtractionInv, Extracting, InTurn
    <2>2. QED
      BY <2>1 DEF Apart, Rising, ToSet, DeletedTurnsAreForgotten
  <1>2. QED
    BY <1>1, ExtractionInvariant, PTL
=============================================================================
