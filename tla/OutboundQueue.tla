----------------------------- MODULE OutboundQueue -----------------------------
(***************************************************************************)
(* What one session sends: the promise chain of MessageQueue, the texts a   *)
(* run puts into it (generationOutbound.ts) and the media its tools put     *)
(* beside them (chatMediaDelivery.ts), while responses begin, are muted by  *)
(* a steer message, renewed, interrupted, stopped, cleared and completed.   *)
(* A chunk carries the signals it captured when it was made; they decide    *)
(* long after whether it is sent.                                           *)
(*                                                                          *)
(* A response is its number (responseEpoch), the two abort signals of its   *)
(* run are one flag, an outbound controller is a number (0 is null).        *)
(* Chunks are numbered as they are made.  Texts, delays and the wording of  *)
(* the history are left out.                                                *)
(***************************************************************************)
EXTENDS Naturals, Sequences, SequencesExt

CONSTANTS
    MaxChunks,     \* bound: texts and media ever made
    MaxResponses,  \* bound: responses begun
    MaxMutes       \* bound: steers, stops, interruptions, clears and resets

VARIABLES
    chunk,     \* each chunk: where it is, and what it captured
    order,     \* observed: the open chunks in the order they were enqueued
    tail,      \* queues.get(sessionId): the last promise, 0 for none
    epoch,     \* responseEpoch
    open,      \* isSessionResponding
    out,       \* outboundAbortController: its number, or 0
    muted,     \* the outbound controllers that were aborted
    cut,       \* responses whose run was aborted
    completed, \* observed: responses their own run completed
    working,   \* runs that may still produce output
    drain,     \* the promise the open response's run waits for before it completes
    mutes,     \* bound, and observed: how often output was disturbed
    shown,     \* observed: the texts the chat shows
    history    \* the assistant texts of the transcript

chatVars == <<shown, history>>
sessionVars == <<epoch, open, out, muted, cut, completed, working, drain, mutes>>
queueVars == <<chunk, order, tail>>
outboundVars == <<queueVars, sessionVars, chatVars>>

Responses == 1 .. MaxResponses

Chunk == [text  : BOOLEAN,
          at    : {"rendering", "waiting", "delaying", "sending", "settled", "closed"},
          fate  : {"none", "skipped", "sent", "failed"},
          run   : Nat,    \* the response it belongs to
          sig   : Nat,    \* the outbound controller it captured
          stale : BOOLEAN,\* observed: its response was disturbed since it was made
          after : Nat]    \* the promise it is chained to, 0 for a resolved one

Made == 1 .. Len(chunk)

OutboundTypeOK ==
    /\ chunk \in Seq(Chunk)
    /\ order \in Seq(Made)
    /\ tail \in {0} \cup Made
    /\ epoch \in Nat /\ out \in Nat /\ mutes \in Nat
    /\ open \in BOOLEAN
    /\ muted \subseteq Nat /\ cut \subseteq Nat
    /\ completed \subseteq Nat /\ working \subseteq Nat
    /\ drain \in {0} \cup Made
    /\ shown \in Seq(Made) /\ history \in Seq(Made)

OutboundInit ==
    /\ chunk = <<>> /\ order = <<>> /\ tail = 0
    /\ epoch = 0 /\ open = FALSE /\ out = 0 /\ mutes = 0
    /\ muted = {} /\ cut = {} /\ completed = {} /\ working = {}
    /\ drain = 0
    /\ shown = <<>> /\ history = <<>>

-----------------------------------------------------------------------------
(* Making a chunk.  The run waits until a text of its own is settled.      *)

Finished(c) == chunk[c].at \in {"settled", "closed"}
Busy(r) == \E c \in Made : chunk[c].text /\ chunk[c].run = r /\ ~Finished(c)

NewChunk(r, text, at, after) ==
    [text |-> text, at |-> at, fate |-> "none", run |-> r, sig |-> out,
     stale |-> FALSE, after |-> after]

\* Only the response of a text that was sent is still of interest.
Closed(c) ==
    [chunk EXCEPT ![c] = [text |-> FALSE, at |-> "closed", fate |-> "none", sig |-> 0,
                          run |-> IF c \in Range(shown) THEN @.run ELSE 0,
                          stale |-> FALSE, after |-> 0]]

ProduceText(r) ==
    /\ Len(chunk) < MaxChunks
    /\ r \in working /\ ~Busy(r)
    /\ out \notin muted
    /\ chunk' = Append(chunk, NewChunk(r, TRUE, "rendering", 0))
    /\ UNCHANGED <<order, tail, sessionVars, chatVars>>

(* Mutant: the outbound signal is captured after rendering.                *)
EnqueueTextRecapturing(c) ==
    /\ chunk[c].at = "rendering"
    /\ chunk' = [chunk EXCEPT ![c].at = "waiting", ![c].after = tail, ![c].sig = out]
    /\ tail' = c
    /\ order' = Append(order, c)
    /\ UNCHANGED <<sessionVars, chatVars>>

\* MessageQueue.enqueue: chained to the tail, or to a resolved promise.
EnqueueText(c) ==
    /\ chunk[c].at = "rendering"
    /\ chunk' = [chunk EXCEPT ![c].at = "waiting", ![c].after = tail]
    /\ tail' = c
    /\ order' = Append(order, c)
    /\ UNCHANGED <<sessionVars, chatVars>>

\* A text of which rendering leaves nothing.
DropText(c) ==
    /\ chunk[c].at = "rendering"
    /\ chunk' = Closed(c)
    /\ UNCHANGED <<order, tail, sessionVars, chatVars>>

EnqueueMedia(r) ==
    /\ Len(chunk) < MaxChunks
    /\ r \in working \ cut
    /\ out \notin muted
    /\ chunk' = Append(chunk, NewChunk(r, FALSE, "waiting", tail))
    /\ tail' = Len(chunk) + 1
    /\ order' = Append(order, Len(chunk) + 1)
    /\ UNCHANGED <<sessionVars, chatVars>>

-----------------------------------------------------------------------------
(* The task of a chunk: skip, wait, skip, send, record.                    *)

Aborted(c) == chunk[c].run \in cut \/ chunk[c].sig \in muted

\* isCurrent of the executor, asked for texts only.
IsCurrent(c) == open /\ epoch = chunk[c].run

Resolved(p) == p # 0 => chunk[p].at = "closed"

Settle(c, fate) == chunk' = [chunk EXCEPT ![c].at = "settled", ![c].fate = fate]

Start(c) ==
    /\ chunk[c].at = "waiting" /\ Resolved(chunk[c].after)
    /\ \/ Aborted(c) /\ Settle(c, "skipped")
       \/ ~Aborted(c) /\ chunk' = [chunk EXCEPT ![c].at = "delaying"]
    /\ UNCHANGED <<order, tail, sessionVars, chatVars>>

DelayEnds(c) ==
    /\ chunk[c].at = "delaying"
    /\ LET sends == ~Aborted(c) /\ (chunk[c].text => IsCurrent(c)) IN
       \/ ~sends /\ Settle(c, "skipped")
       \/ sends /\ chunk' = [chunk EXCEPT ![c].at = "sending"]
    /\ UNCHANGED <<order, tail, sessionVars, chatVars>>

\* appendHistoryIfResponseEpochMatches; a media has its own record.
SendSucceeds(c) ==
    /\ chunk[c].at = "sending"
    /\ Settle(c, "sent")
    /\ shown' = IF chunk[c].text THEN Append(shown, c) ELSE shown
    /\ history' = IF chunk[c].text /\ IsCurrent(c) THEN Append(history, c) ELSE history
    /\ UNCHANGED <<order, tail, sessionVars>>

SendFails(c) ==
    /\ chunk[c].at = "sending"
    /\ Settle(c, "failed")
    /\ UNCHANGED <<order, tail, sessionVars, chatVars>>

(* Mutants: the tail is deleted whoever's it is, or never resolves.        *)
SettledDeletesTail(c) ==
    /\ chunk[c].at = "settled"
    /\ chunk' = Closed(c)
    /\ tail' = 0
    /\ order' = RemoveFirst(order, c)
    /\ UNCHANGED <<sessionVars, chatVars>>
SettledUnlessFailed(c) ==
    /\ chunk[c].at = "settled" /\ chunk[c].fate # "failed"
    /\ chunk' = Closed(c)
    /\ tail' = IF tail = c THEN 0 ELSE tail
    /\ order' = RemoveFirst(order, c)
    /\ UNCHANGED <<sessionVars, chatVars>>

\* The finally of enqueue: the tail is deleted only when it is its own.
Settled(c) ==
    /\ chunk[c].at = "settled"
    /\ chunk' = Closed(c)
    /\ tail' = IF tail = c THEN 0 ELSE tail
    /\ order' = RemoveFirst(order, c)
    /\ UNCHANGED <<sessionVars, chatVars>>

-----------------------------------------------------------------------------
(* The session's responses.                                                *)

BeginResponse ==
    /\ ~open /\ epoch < MaxResponses
    /\ epoch' = epoch + 1 /\ open' = TRUE
    /\ out' = epoch + 1 + mutes
    /\ working' = working \cup {epoch + 1}
    /\ drain' = 0
    /\ UNCHANGED <<queueVars, chatVars, muted, cut, completed, mutes>>

\* Counts what disturbs the output of the open response.
Disturbed ==
    /\ open /\ mutes < MaxMutes /\ mutes' = mutes + 1
    /\ chunk' = [c \in Made |-> [chunk[c] EXCEPT !.stale =
                    @ \/ (chunk[c].run = epoch /\ ~Finished(c))]]
    /\ UNCHANGED <<order, tail, chatVars>>

\* interruptOutbound, when a steer message arrives.
Mute ==
    /\ Disturbed
    /\ out # 0 /\ out \notin muted
    /\ muted' = muted \cup {out}
    /\ UNCHANGED <<epoch, open, out, cut, completed, working, drain>>

\* consumeSteerMessages, at a boundary of the run: a new controller.
Renew ==
    /\ open /\ out \in muted /\ epoch \in working \ cut
    /\ out' = epoch + mutes
    /\ UNCHANGED <<queueVars, chatVars, epoch, open, muted, cut, completed, working, drain, mutes>>

Interrupt ==
    /\ Disturbed
    /\ open' = FALSE
    /\ cut' = cut \cup {epoch}
    /\ UNCHANGED <<epoch, out, muted, completed, working, drain>>

\* .stop during a generation: its run still has to complete the response.
Stop ==
    /\ Disturbed
    /\ epoch \in working \ cut
    /\ cut' = cut \cup {epoch}
    /\ UNCHANGED <<epoch, open, out, muted, completed, working, drain>>

Clear ==
    /\ Disturbed
    /\ open' = FALSE /\ out' = 0
    /\ cut' = cut \cup {epoch}
    /\ muted' = muted \cup {out}
    /\ UNCHANGED <<epoch, completed, working, drain>>

\* resetProfileOperationState: idle, and no signal is aborted.
Reset ==
    /\ Disturbed
    /\ open' = FALSE
    /\ UNCHANGED <<epoch, out, muted, cut, completed, working, drain>>

(* Mutant: the run does not wait for the text it submitted.                *)
StopWorkingEarly(r) ==
    /\ r \in working
    /\ working' = working \ {r}
    /\ UNCHANGED <<queueVars, chatVars, epoch, open, out, muted, cut, completed, drain, mutes>>

\* The run produces nothing more; unless it failed it waits for the queue.
StopWorking(r) ==
    /\ r \in working /\ ~Busy(r)
    /\ working' = working \ {r}
    /\ drain' \in IF open /\ r = epoch THEN {0, tail} ELSE {drain}
    /\ UNCHANGED <<queueVars, chatVars, epoch, open, out, muted, cut, completed, mutes>>

\* completeResponse asks for the epoch only: also what was interrupted while
\* its run waited for the queue gives up its outbound controller.
Complete(r) ==
    /\ r = epoch /\ r \notin working
    /\ open \/ out # 0
    /\ Resolved(drain)
    /\ open' = FALSE /\ out' = 0
    /\ completed' = IF open THEN completed \cup {r} ELSE completed
    /\ drain' = 0
    /\ UNCHANGED <<queueVars, chatVars, epoch, muted, cut, working, mutes>>

-----------------------------------------------------------------------------

QueueStep(c) ==
    Start(c) \/ DelayEnds(c) \/ SendSucceeds(c) \/ SendFails(c) \/ Settled(c)

OutboundNext ==
    \/ \E r \in Responses : ProduceText(r) \/ EnqueueMedia(r)
    \/ \E c \in Made : EnqueueText(c) \/ DropText(c) \/ QueueStep(c)
    \/ BeginResponse \/ Mute \/ Renew \/ Interrupt \/ Stop \/ Clear \/ Reset
    \/ \E r \in Responses : StopWorking(r) \/ Complete(r)

OutboundSpec == OutboundInit /\ [][OutboundNext]_outboundVars

\* The event loop runs the tasks of the chain, delays end, sends answer or fail.
OutboundFairness ==
    \A c \in 1 .. MaxChunks : WF_outboundVars(\E i \in Made : i = c /\ QueueStep(i))

-----------------------------------------------------------------------------
(* Properties.                                                             *)

Started(c) == chunk[c].at \in {"delaying", "sending", "settled", "closed"}

\* Whatever is enqueued while the tail is being deleted or a predecessor is
\* settling, a task starts only after every earlier one has ended: one send at
\* a time, in the order of enqueue (messageQueue.ts).
SendsInOrder ==
    \A i, j \in 1 .. Len(order) :
        i < j /\ Started(order[j]) => Finished(order[i])

\* "Old chunks must not borrow the new signal created when a steer is consumed"
\* (generationOutbound.ts): what was made before the output of its response was
\* muted or stopped is not sent any more, even when the output is live again.
MutedChunksStayUnsent ==
    [][\A c \in Made :
          /\ chunk[c].at # "sending" /\ chunk'[c].at = "sending"
          /\ open /\ chunk[c].run = epoch
          => ~chunk[c].stale]_outboundVars

\* The transcript lists the texts the chat shows in the order it shows them,
\* each once, and has every accepted one of a response that its own run completed.
HistoryMatchesChat ==
    /\ Range(history) \subseteq Range(shown) /\ IsInjective(shown)
    /\ \A i, j \in DOMAIN history, k, l \in DOMAIN shown :
          history[i] = shown[k] /\ history[j] = shown[l] => (i < j <=> k < l)
    /\ \A c \in Made :
          c \in Range(shown) /\ chunk[c].run \in completed => c \in Range(history)

\* Whatever is muted, interrupted or fails, no enqueued chunk blocks the queue.
EnqueuedChunksSettle ==
    \A c \in 1 .. MaxChunks :
        (\E i \in Made : i = c /\ chunk[i].at = "waiting") ~>
            (\E i \in Made : i = c /\ chunk[i].at = "closed")
=============================================================================
