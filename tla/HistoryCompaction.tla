---------------------------- MODULE HistoryCompaction ----------------------------
(***************************************************************************)
(* Summarising the older part of a session's transcript                      *)
(* (conversation/historyCompressor.ts) while the transcript goes on: the     *)
(* summary is made from a snapshot over several awaits, and is applied only   *)
(* when the history revision is still that of the snapshot.                  *)
(*                                                                           *)
(* An item is the time it was made; a summary is the set of messages it was   *)
(* made from.  Items are messages of the chat or notes the model never sees;  *)
(* tool calls and results share the fate of the message before them.  How the *)
(* length to keep is found (messages, turns, tokens) is left out: any split   *)
(* may be asked for.                                                         *)
(***************************************************************************)
EXTENDS Naturals, Sequences, SequencesExt

CONSTANTS
    MaxTime,    \* bound: items ever made, and messages missed
    MaxEdits    \* bound: what owner and clients do to the history

ASSUME HistoryAssumption == MaxTime \in Nat /\ MaxEdits \in Nat

VARIABLES
    now,        \* the time of the last item
    chat,       \* the session: transcript, summary, boundary
    revision,   \* historyRevision
    compaction, \* the run in inFlightSessions: its snapshot, or NoCompaction
    missed,     \* messages of the chat that did not reach the program
    snapshot,   \* a saved copy of it (sessionSnapshotStore)
    edits,      \* bound
    replaced    \* observed: the session was deleted and made anew meanwhile

historyVars == <<now, chat, revision, compaction, missed, snapshot, edits, replaced>>

Times == 1 .. MaxTime

Entry == [time : Times, message : BOOLEAN,
         excluded : {"no", "history_compressed", "manual"}]

\* hidden is observed: the messages that were hidden before any summary had them.
History == [transcript : Seq(Entry), summary : SUBSET Times,
            boundary : Nat, hidden : SUBSET Times]

Compaction == [summary : SUBSET Times,   \* of the snapshot, with what is added to it
               keepFrom : Nat,           \* transcriptStartIndexToKeep, from 1
               revision : Nat]
NoCompaction == [summary |-> {}, keepFrom |-> 0, revision |-> 0]

HistoryTypeOK ==
    /\ now \in 0 .. MaxTime
    /\ chat \in History /\ snapshot \in History
    /\ revision \in Nat
    /\ compaction \in Compaction
    /\ missed \subseteq Times
    /\ edits \in 0 .. MaxEdits /\ replaced \in BOOLEAN

Empty(time) == [transcript |-> <<>>, summary |-> {}, boundary |-> time, hidden |-> {}]

HistoryInit ==
    /\ now = 0 /\ chat = Empty(0) /\ snapshot = Empty(0)
    /\ revision = 0 /\ compaction = NoCompaction /\ missed = {}
    /\ edits = 0 /\ replaced = FALSE

Compacting == compaction # NoCompaction
Positions == DOMAIN chat.transcript
LlmVisible(i) ==
    chat.transcript[i].message /\ chat.transcript[i].excluded = "no"

NewEntry(time, message) == [time |-> time, message |-> message, excluded |-> "no"]

-----------------------------------------------------------------------------
(* The transcript goes on.                                                   *)

Ticks == now < MaxTime /\ now' = now + 1
Appended(message) ==
    chat' = [chat EXCEPT !.transcript = Append(@, NewEntry(now + 1, message))]

AppendHistory ==
    /\ Ticks /\ Appended(TRUE)
    /\ revision' = revision + 1
    /\ UNCHANGED <<compaction, missed, snapshot, edits, replaced>>

\* Markers and statuses are no history: the revision stays.
AppendNote ==
    /\ Ticks /\ Appended(FALSE)
    /\ UNCHANGED <<revision, compaction, missed, snapshot, edits, replaced>>

\* A switch of the mode leaves a note, but does change what a prompt says.
SwitchMode ==
    /\ Ticks /\ Appended(FALSE)
    /\ revision' = revision + 1
    /\ UNCHANGED <<compaction, missed, snapshot, edits, replaced>>

MessageMissed ==
    /\ Ticks /\ missed' = missed \cup {now + 1}
    /\ UNCHANGED <<chat, revision, compaction, snapshot, edits, replaced>>

\* insertUserHistoryByTimestamp: never before what was summarised or cleared,
\* and after the last item that is not later (findTranscriptInsertIndex).
Backfill(t) ==
    /\ t >= chat.boundary
    /\ missed' = missed \ {t}
    /\ \E n \in {0} \cup Positions :
          /\ n # 0 => chat.transcript[n].time <= t
          /\ \A i \in Positions : i > n => chat.transcript[i].time > t
          /\ chat' = [chat EXCEPT !.transcript = InsertAt(@, n + 1, NewEntry(t, TRUE))]
    /\ revision' = revision + 1
    /\ UNCHANGED <<now, compaction, snapshot, edits, replaced>>

-----------------------------------------------------------------------------
(* The owner and the clients.                                                *)

Edits == edits < MaxEdits /\ edits' = edits + 1

\* excludeItem, excludeItemsAfter: also what is compressed is hidden.
Excludable(i) == chat.transcript[i].excluded # "manual"
Exclude(which) ==
    /\ Edits
    /\ \E i \in which : Excludable(i)
    /\ chat' = [chat EXCEPT
          !.transcript = [i \in Positions |->
              IF i \in which THEN [@[i] EXCEPT !.excluded = "manual"] ELSE @[i]],
          !.hidden = @ \cup {chat.transcript[i].time : i \in
              {j \in which : chat.transcript[j].excluded = "no"}}]
    /\ revision' = revision + 1
    /\ UNCHANGED <<now, compaction, missed, snapshot, replaced>>

ClearHistory ==
    /\ Edits
    /\ chat' = Empty(now + 1)
    /\ revision' = revision + 1
    /\ UNCHANGED <<now, compaction, missed, snapshot, replaced>>

SaveSnapshot ==
    /\ Edits
    /\ snapshot' = chat
    /\ UNCHANGED <<now, chat, revision, compaction, missed, replaced>>

\* restorePersistedSession: the revision goes on from that of the session.
RestoreSnapshot ==
    /\ Edits
    /\ chat' = snapshot
    /\ revision' = revision + 1
    /\ UNCHANGED <<now, compaction, missed, snapshot, replaced>>

\* deleteSession, and a message that makes the session anew: nothing of the
\* old object is kept, its revision neither.
DeleteAndRecreate ==
    /\ Edits
    /\ chat' = Empty(now + 1) /\ snapshot' = Empty(now + 1)
    /\ revision' = 0
    /\ replaced' = (replaced \/ Compacting)
    /\ UNCHANGED <<now, compaction, missed>>

-----------------------------------------------------------------------------
(* A compaction: its snapshot, its awaits, its end.                          *)

\* projectCompressionHistorySnapshot: everything up to the item at `last`, a
\* message the model still sees.
BeginCompaction(last) ==
    /\ ~Compacting
    /\ LlmVisible(last)
    /\ compaction' = [summary |-> chat.summary \cup
                          {chat.transcript[i].time : i \in
                              {j \in 1 .. last : LlmVisible(j)}},
                      keepFrom |-> last + 1, revision |-> revision]
    /\ UNCHANGED <<now, chat, revision, missed, snapshot, edits, replaced>>

\* The request failed or was aborted, or the summary saves nothing.
CompactionFails ==
    /\ Compacting
    /\ compaction' = NoCompaction
    /\ UNCHANGED <<now, chat, revision, missed, snapshot, edits, replaced>>

ApplyCompressedHistory(c) ==
    /\ chat' = [chat EXCEPT
          !.summary = c.summary,
          !.boundary = IF c.keepFrom \in Positions
                       THEN chat.transcript[c.keepFrom].time ELSE now + 1,
          !.transcript = [i \in Positions |->
              IF i < c.keepFrom /\ @[i].excluded = "no"
              THEN [@[i] EXCEPT !.excluded = "history_compressed"] ELSE @[i]]]
    /\ revision' = revision + 1

\* Mutant: only a transcript that became shorter is noticed.
SummaryArrivesUnchecked ==
    /\ Compacting
    /\ \/ Len(chat.transcript) >= compaction.keepFrom - 1
          /\ ApplyCompressedHistory(compaction)
       \/ Len(chat.transcript) < compaction.keepFrom - 1
          /\ UNCHANGED <<chat, revision>>
    /\ compaction' = NoCompaction
    /\ UNCHANGED <<now, missed, snapshot, edits, replaced>>

\* applyCompressedHistoryIfHistoryRevisionMatches.
SummaryArrives ==
    /\ Compacting
    /\ \/ revision = compaction.revision /\ ApplyCompressedHistory(compaction)
       \/ revision # compaction.revision /\ UNCHANGED <<chat, revision>>
    /\ compaction' = NoCompaction
    /\ UNCHANGED <<now, missed, snapshot, edits, replaced>>

-----------------------------------------------------------------------------

HistoryNext ==
    \/ AppendHistory \/ AppendNote \/ SwitchMode \/ MessageMissed
    \/ \E t \in missed : Backfill(t)
    \/ \E i \in Positions : Exclude({i}) \/ Exclude({j \in Positions : j > i})
    \/ ClearHistory \/ SaveSnapshot \/ RestoreSnapshot \/ DeleteAndRecreate
    \/ \E i \in Positions : BeginCompaction(i)
    \/ CompactionFails \/ SummaryArrives

HistorySpec == HistoryInit /\ [][HistoryNext]_historyVars

-----------------------------------------------------------------------------
(* Properties.                                                               *)

\* Whatever is said, hidden, inserted, cleared or restored while a summary is
\* being made, the model sees every message once: what was compressed is in
\* the summary and what it still sees is not, the summary tells only of what
\* came before, of nothing that was hidden first, and of nothing that was
\* cleared.  A session deleted under a compaction may get its summary.
HistoryIsWhole ==
    ~replaced =>
        /\ \A i \in Positions :
              chat.transcript[i].message =>
                 /\ chat.transcript[i].excluded = "history_compressed" =>
                       chat.transcript[i].time \in chat.summary
                 /\ chat.transcript[i].excluded = "no" =>
                       \A t \in chat.summary : t < chat.transcript[i].time
        /\ chat.summary \cap chat.hidden = {}
        /\ chat.summary \subseteq {chat.transcript[i].time : i \in Positions}
=============================================================================
