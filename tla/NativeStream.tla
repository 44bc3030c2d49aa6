------------------------------ MODULE NativeStream ------------------------------
(***************************************************************************)
(* NativeStreamDelivery (generation/nativeStreamDelivery.ts): one run writes *)
(* text bubbles, each a stream of its own, and sends media between them; the *)
(* promise `barrier` makes each wait for what came before it, and an         *)
(* interruption must get past every such wait.                               *)
(*                                                                           *)
(* Bubbles and media are items, numbered as the run produces them.  A promise *)
(* is the item that settles it, 0 the drain of the queue before the run.  The *)
(* text itself, pacing and what a stream reports are left out; a stream opens,*)
(* is finished and interrupted with or without an error.                      *)
(***************************************************************************)
EXTENDS Naturals, Sequences

CONSTANTS
    MaxItems,   \* bound: bubbles and media of the run
    MaxCancels  \* bound: how often the signals of the run are aborted

ASSUME NativeAssumption == MaxItems \in Nat /\ MaxCancels \in Nat

VARIABLES
    items,
    current,    \* the bubble the run writes to, 0 for none
    barrier,
    drained,    \* the queue that was there before the run is empty
    broken,     \* failure is set
    aborted,    \* the signals are aborted
    superseded, \* isCurrent() is false
    ended,      \* how the run ended its output: "no", "finish" or "interrupt"
    cancels

nativeVars == <<items, current, barrier, drained, broken, aborted, superseded, ended, cancels>>

Item == [text      : BOOLEAN,
         after     : 0 .. MaxItems,   \* the promise it waits for
         at        : {"waiting", "going", "skipped", "over"},
         cancelled : BOOLEAN,         \* its signals, or its controller
         closing   : BOOLEAN,
         passed    : {"no", "ok", "failed"}]  \* its promise

Produced == 1 .. Len(items)

NativeTypeOK ==
    /\ items \in Seq(Item)
    /\ current \in 0 .. MaxItems /\ barrier \in 0 .. MaxItems
    /\ drained \in BOOLEAN /\ broken \in BOOLEAN
    /\ aborted \in BOOLEAN /\ superseded \in BOOLEAN
    /\ ended \in {"no", "finish", "interrupt"}
    /\ cancels \in 0 .. MaxCancels

NativeInit ==
    /\ items = <<>> /\ current = 0 /\ barrier = 0
    /\ drained = FALSE /\ broken = FALSE
    /\ aborted = FALSE /\ superseded = FALSE /\ ended = "no" /\ cancels = 0

Promise(p) == IF p = 0 THEN IF drained THEN "ok" ELSE "no" ELSE items[p].passed

NewItem(text, after) ==
    [text |-> text, after |-> after, at |-> "waiting", cancelled |-> FALSE,
     closing |-> FALSE, passed |-> "no"]

\* close(segment, interrupted) of every bubble in `which` that is not closed.
ClosedItems(is, which, interrupted) ==
    [i \in DOMAIN is |->
        IF i \in which /\ is[i].text /\ is[i].passed = "no"
        THEN [is[i] EXCEPT !.closing = TRUE, !.cancelled = @ \/ interrupted \/ superseded]
        ELSE is[i]]

-----------------------------------------------------------------------------
(* The run.                                                                  *)

\* append(): more text for the current bubble changes nothing here.
AppendDelta ==
    /\ ended = "no" /\ ~superseded /\ ~aborted /\ ~broken
    /\ current = 0 /\ Len(items) < MaxItems
    /\ items' = Append(items, NewItem(TRUE, barrier))
    /\ current' = Len(items) + 1
    /\ UNCHANGED <<barrier, drained, broken, aborted, superseded, ended, cancels>>

(* Mutant: later text waits only for what the media waits for.               *)
BeginExternalDeliveryUngated ==
    /\ ended = "no" /\ ~broken /\ Len(items) < MaxItems
    /\ LET ready == IF current # 0 THEN current ELSE barrier IN
       /\ items' = Append(ClosedItems(items, {current}, FALSE), NewItem(FALSE, ready))
       /\ barrier' = ready
    /\ current' = 0
    /\ UNCHANGED <<drained, broken, aborted, superseded, ended, cancels>>

\* The bubble is closed, the media waits for it, later text for the media.
BeginExternalDelivery ==
    /\ ended = "no" /\ ~broken /\ Len(items) < MaxItems
    /\ LET ready == IF current # 0 THEN current ELSE barrier IN
       /\ items' = Append(ClosedItems(items, {current}, FALSE), NewItem(FALSE, ready))
       /\ barrier' = Len(items) + 1
    /\ current' = 0
    /\ UNCHANGED <<drained, broken, aborted, superseded, ended, cancels>>

\* After a failure the media fails at once, and so does what waits for it.
BeginAfterFailure ==
    /\ ended = "no" /\ broken /\ Len(items) < MaxItems
    /\ items' = Append(items, [NewItem(FALSE, barrier) EXCEPT !.at = "over", !.passed = "failed"])
    /\ barrier' = Len(items) + 1
    /\ current' = 0
    /\ UNCHANGED <<drained, broken, aborted, superseded, ended, cancels>>

FinishStream ==
    /\ ended = "no" /\ ~superseded
    /\ ended' = "finish" /\ current' = 0
    /\ items' = ClosedItems(items, {current}, FALSE)
    /\ barrier' = IF current # 0 THEN current ELSE barrier
    /\ UNCHANGED <<drained, broken, aborted, superseded, cancels>>

\* Also what append() and finish() do for a run that is not current.
InterruptStream ==
    /\ ended # "interrupt" /\ ended' = "interrupt"
    /\ current' = 0
    /\ items' = ClosedItems(items, Produced, TRUE)
    /\ UNCHANGED <<barrier, drained, broken, aborted, superseded, cancels>>

-----------------------------------------------------------------------------
(* The session.                                                              *)

\* A steer mutes the output, or the run is aborted: the listeners close the
\* bubbles, the media have the signal themselves.
SignalsAbort ==
    /\ cancels < MaxCancels /\ ~aborted
    /\ cancels' = cancels + 1 /\ aborted' = TRUE
    /\ items' = [i \in Produced |-> [ClosedItems(items, Produced, TRUE)[i]
                                        EXCEPT !.cancelled = @ \/ items[i].passed = "no"]]
    /\ current' = 0
    /\ UNCHANGED <<barrier, drained, broken, superseded, ended>>

\* The steer is consumed: what comes now has new signals.
SignalsRenewed ==
    /\ aborted /\ aborted' = FALSE
    /\ UNCHANGED <<items, current, barrier, drained, broken, superseded, ended, cancels>>

Superseded ==
    /\ ~superseded /\ superseded' = TRUE
    /\ UNCHANGED <<items, current, barrier, drained, broken, aborted, ended, cancels>>

QueueDrained ==
    /\ ~drained /\ drained' = TRUE
    /\ UNCHANGED <<items, current, barrier, broken, aborted, superseded, ended, cancels>>

-----------------------------------------------------------------------------
(* The items.                                                                *)

Goes(i, at) == items' = [items EXCEPT ![i].at = at]
Passes(i, how) == items' = [items EXCEPT ![i].at = "over", ![i].passed = how]

\* Starts run one at a time, in order (the chain of native-stream-start), and
\* so do the media of the session's queue.
FirstInLine(i) ==
    \A k \in 1 .. (i - 1) :
        items[k].text = items[i].text =>
            IF items[i].text THEN items[k].at # "waiting"
            ELSE items[k].at \notin {"waiting", "going"}

(* Mutant: an aborted start still waits for what came before.                *)
StartSkippedWhenReady(i) ==
    /\ items[i].text /\ items[i].at = "waiting" /\ FirstInLine(i)
    /\ items[i].cancelled /\ Promise(items[i].after) = "ok"
    /\ Goes(i, "skipped")
    /\ UNCHANGED <<current, barrier, drained, broken, aborted, superseded, ended, cancels>>

\* waitUntilReady and the checks after it: nothing is opened.
StartSkipped(i) ==
    /\ items[i].text /\ items[i].at = "waiting" /\ FirstInLine(i)
    /\ items[i].cancelled \/ (Promise(items[i].after) = "ok" /\ superseded)
    /\ Goes(i, "skipped")
    /\ UNCHANGED <<current, barrier, drained, broken, aborted, superseded, ended, cancels>>

StartOpens(i) ==
    /\ items[i].text /\ items[i].at = "waiting" /\ FirstInLine(i)
    /\ Promise(items[i].after) = "ok" /\ ~items[i].cancelled /\ ~superseded
    /\ Goes(i, "going")
    /\ UNCHANGED <<current, barrier, drained, broken, aborted, superseded, ended, cancels>>

\* The barrier was rejected, or the stream cannot be opened.
StartFails(i) ==
    /\ items[i].text /\ items[i].at = "waiting" /\ FirstInLine(i)
    /\ ~items[i].cancelled
    /\ LET ready == Promise(items[i].after) IN
       ready = "failed" \/ (ready = "ok" /\ ~superseded)
    /\ Goes(i, "over") /\ broken' = TRUE
    /\ UNCHANGED <<current, barrier, drained, aborted, superseded, ended, cancels>>

\* The end of close(): the stream is finished or interrupted; an error of the
\* start or of the stream rejects it.
CloseSettles(i) ==
    /\ items[i].text /\ items[i].closing /\ items[i].passed = "no"
    /\ \/ items[i].at = "skipped" /\ Passes(i, "ok") /\ UNCHANGED broken
       \/ items[i].at = "over" /\ Passes(i, "failed") /\ UNCHANGED broken
       \/ items[i].at = "going" /\ Passes(i, "ok") /\ UNCHANGED broken
       \/ items[i].at = "going" /\ Passes(i, "failed") /\ broken' = TRUE
    /\ UNCHANGED <<current, barrier, drained, aborted, superseded, ended, cancels>>

MediaGoes(i) ==
    /\ ~items[i].text /\ items[i].at = "waiting" /\ FirstInLine(i)
    /\ Promise(items[i].after) = "ok" /\ ~items[i].cancelled
    /\ Goes(i, "going")
    /\ UNCHANGED <<current, barrier, drained, broken, aborted, superseded, ended, cancels>>

\* settle(): the media was sent or has failed, or never went out.
MediaSettles(i) ==
    /\ ~items[i].text
    /\ \/ items[i].at = "going"
       \/ /\ items[i].at = "waiting" /\ FirstInLine(i)
          /\ items[i].cancelled \/ Promise(items[i].after) = "failed"
    /\ Goes(i, "over")
    /\ UNCHANGED <<current, barrier, drained, broken, aborted, superseded, ended, cancels>>

\* barrier = ready.then(() => completed).
GateOpens(i) ==
    /\ ~items[i].text /\ items[i].passed = "no"
    /\ LET ready == Promise(items[i].after) IN
       /\ ready = "failed" \/ (ready = "ok" /\ items[i].at = "over")
       /\ items' = [items EXCEPT ![i].passed = ready]
    /\ UNCHANGED <<current, barrier, drained, broken, aborted, superseded, ended, cancels>>

TextStep(i) == StartSkipped(i) \/ StartOpens(i) \/ StartFails(i) \/ CloseSettles(i)

NativeNext ==
    \/ AppendDelta \/ BeginExternalDelivery \/ BeginAfterFailure
    \/ FinishStream \/ InterruptStream
    \/ SignalsAbort \/ SignalsRenewed \/ Superseded \/ QueueDrained
    \/ \E i \in Produced : TextStep(i) \/ MediaGoes(i) \/ MediaSettles(i) \/ GateOpens(i)

NativeSpec == NativeInit /\ [][NativeNext]_nativeVars

\* Starts and closings go on; nothing is assumed of media and of the queue.
NativeFairness ==
    \A i \in 1 .. MaxItems : WF_nativeVars(\E k \in Produced : k = i /\ TextStep(k))

-----------------------------------------------------------------------------
(* Properties.                                                               *)

\* The chat gets bubbles and media in the order the run produced them: an item
\* begins only when each earlier one is over, or is a bubble that was cancelled
\* and adds no text any more.
ItemsKeepOrder ==
    \A i, j \in Produced :
        i < j /\ items[j].at = "going" =>
            IF items[i].text
            THEN items[i].passed # "no" \/ items[i].at = "skipped" \/ items[i].cancelled
            ELSE items[i].at = "over"

\* "Never wait for a media gate here: cancellation must release text waiting
\* behind it" (nativeStreamDelivery.ts): interrupted output comes to its end
\* even when no media and no earlier queue ever does.
InterruptionGetsThrough ==
    (ended = "interrupt") ~>
        (\A i \in Produced : items[i].text => items[i].passed # "no")
=============================================================================
