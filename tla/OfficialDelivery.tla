---------------------------- MODULE OfficialDelivery ----------------------------
(***************************************************************************)
(* What the QQ official channel sends in answer to one verified event: the   *)
(* reply permit with its message budget (replyPermit.ts), the policy that    *)
(* turns a refused passive reply into one proactive message                  *)
(* (deliveryPolicy.ts), discrete texts and media (client.ts) and one text    *)
(* stream (textStream.ts), all drawing on the same permit.                   *)
(*                                                                           *)
(* The platform accepts a request, refuses it, refuses it for one of the     *)
(* reply limits, or does not tell (timeout, transport, 5xx), in which case    *)
(* the message may be in the chat.  The signal of the turn is one flag.  The  *)
(* proactive rate limit of the policy is a refusal that may happen.           *)
(***************************************************************************)
EXTENDS Naturals, Sequences, SequencesExt, FiniteSets

CONSTANTS
    Sends,              \* discrete texts and media sent for the event
    MaxMessages,        \* the permit's budget
    ProactiveFallback,  \* config.proactiveFallback
    MaxFragments        \* bound: fragments appended to the stream

ASSUME OfficialAssumption ==
    IsFiniteSet(Sends) /\ MaxMessages \in Nat /\ MaxFragments \in Nat

VARIABLES
    used,          \* PermitState.used
    nextSequence,
    expired,       \* the permit's time is over
    cancelled,     \* the signal of the turn
    send,          \* each discrete send
    inChat,        \* observed: how often each of them came to the chat
    stream,        \* the text stream
    said,          \* observed: the fragments it took
    stopped,       \* observed: somebody interrupted the stream
    streamChat,    \* observed: the text its stream message shows
    plainChat      \* observed: the text its proactive message shows

permitVars == <<used, nextSequence>>
sendVars == <<send, inChat>>
streamVars == <<stream, said, stopped, streamChat, plainChat>>
officialVars == <<permitVars, expired, cancelled, sendVars, streamVars>>

Fragments == 1 .. MaxFragments
Failures == {"rejected", "unknown"}

\* QqDeliverySlot with its reservation; "none" is the stream's null.
Slot == [mode : {"none", "reply", "proactive"},
         state : {"none", "reserved", "committed", "released"},
         sequence : Nat]

Send == [at : {"idle", "uploading", "posting", "accepted"} \cup Failures,
         kind : {"none", "text", "media"}, slot : Slot]

Stream == [state : {"open", "sealing", "sealed", "failed", "closure_unknown"},
           pending : Seq(Fragments), buffered : Seq(Fragments),
           accepted : Seq(Fragments),
           id : BOOLEAN,            \* streamId is set
           slot : Slot,
           timer : BOOLEAN,
           queued : Nat,            \* flush tasks of the tail
           request : {"none", "frame", "plain", "final"},
           text : Seq(Fragments),   \* of the request
           failure : {"none"} \cup Failures,
           interrupted : BOOLEAN,
           closing : {"no", "yes", "done"}]

OfficialTypeOK ==
    /\ used \in Nat /\ nextSequence \in Nat
    /\ expired \in BOOLEAN /\ cancelled \in BOOLEAN
    /\ send \in [Sends -> Send] /\ inChat \in [Sends -> Nat]
    /\ stream \in Stream
    /\ said \in Seq(Fragments) /\ stopped \in BOOLEAN
    /\ streamChat \in Seq(Fragments) /\ plainChat \in Seq(Fragments)

NoSlot == [mode |-> "none", state |-> "none", sequence |-> 0]
Proactive == [mode |-> "proactive", state |-> "none", sequence |-> 0]

OfficialInit ==
    /\ used = 0 /\ nextSequence = 1
    /\ expired = FALSE /\ cancelled = FALSE
    /\ send = [s \in Sends |-> [at |-> "idle", kind |-> "none", slot |-> NoSlot]]
    /\ inChat = [s \in Sends |-> 0]
    /\ stream = [state |-> "open", pending |-> <<>>, buffered |-> <<>>,
                 accepted |-> <<>>, id |-> FALSE, slot |-> NoSlot,
                 timer |-> FALSE, queued |-> 0, request |-> "none",
                 text |-> <<>>, failure |-> "none", interrupted |-> FALSE,
                 closing |-> "no"]
    /\ said = <<>> /\ stopped = FALSE /\ streamChat = <<>> /\ plainChat = <<>>

-----------------------------------------------------------------------------
(* The permit.                                                              *)

Reservable == ~expired /\ used < MaxMessages
Reserved == [mode |-> "reply", state |-> "reserved", sequence |-> nextSequence]

\* reserve() of the policy: a slot of the permit, or a proactive one.
ReserveSlot(slot) ==
    \/ /\ Reservable
       /\ slot = Reserved
       /\ used' = used + 1 /\ nextSequence' = nextSequence + 1
    \/ /\ ~Reservable /\ ProactiveFallback
       /\ slot = Proactive
       /\ UNCHANGED permitVars

Unreservable == ~Reservable /\ ~ProactiveFallback

(* Mutant: releasing does not ask whether the slot was committed.           *)
ReleaseAlways(slot) ==
    used' = IF slot.mode = "reply" THEN used - 1 ELSE used

\* Only what is reserved and not committed goes back to the budget.
Release(slot) ==
    used' = IF slot.state = "reserved" THEN used - 1 ELSE used

Holds(slot) == slot.state \in {"reserved", "committed"}
Commit(slot) == [slot EXCEPT !.state = "committed"]
Freed(slot) == [slot EXCEPT !.state = IF @ = "reserved" THEN "released" ELSE @]
Fallen(slot) == [Freed(slot) EXCEPT !.mode = "proactive"]

PermitExpires ==
    /\ ~expired /\ expired' = TRUE
    /\ UNCHANGED <<permitVars, cancelled, sendVars, streamVars>>

TurnCancelled ==
    /\ ~cancelled /\ cancelled' = TRUE
    /\ UNCHANGED <<permitVars, expired, sendVars, streamVars>>

-----------------------------------------------------------------------------
(* Discrete texts and media.                                                *)

Becomes(s, at, slot) == send' = [send EXCEPT ![s].at = at, ![s].slot = slot]
Begins(s, kind, at, slot) ==
    send' = [send EXCEPT ![s] = [at |-> at, kind |-> kind, slot |-> slot]]

\* The proactive request goes out, or the rate limit refuses it.
PostProactive(s, slot) ==
    \/ Becomes(s, "posting", slot)
    \/ Becomes(s, "rejected", slot)

\* throwIfAborted, or no slot to have.
Refused(s, kind) ==
    /\ cancelled \/ Unreservable
    /\ Begins(s, kind, "rejected", NoSlot)
    /\ UNCHANGED permitVars

SendText(s) ==
    /\ send[s].at = "idle"
    /\ \/ Refused(s, "text")
       \/ ~cancelled /\ \E slot \in {Reserved, Proactive} :
             /\ ReserveSlot(slot)
             /\ \/ slot.mode = "reply" /\ Begins(s, "text", "posting", Commit(slot))
                \/ /\ slot.mode = "proactive"
                   /\ \E at \in {"posting", "rejected"} : Begins(s, "text", at, slot)
    /\ UNCHANGED <<expired, cancelled, inChat, streamVars>>

SendMedia(s) ==
    /\ send[s].at = "idle"
    /\ \/ Refused(s, "media")
       \/ ~cancelled /\ \E slot \in {Reserved, Proactive} :
             ReserveSlot(slot) /\ Begins(s, "media", "uploading", slot)
    /\ UNCHANGED <<expired, cancelled, inChat, streamVars>>

\* A permit that expired during the upload gives its slot back.
UploadEnds(s) ==
    /\ send[s].at = "uploading" /\ ~cancelled
    /\ LET slot == send[s].slot IN
       \/ /\ slot.mode = "proactive"
          /\ PostProactive(s, slot) /\ UNCHANGED used
       \/ /\ slot.mode = "reply" /\ ~expired
          /\ Becomes(s, "posting", Commit(slot)) /\ UNCHANGED used
       \/ /\ slot.mode = "reply" /\ expired
          /\ Release(slot)
          /\ IF ProactiveFallback THEN PostProactive(s, Fallen(slot))
             ELSE Becomes(s, "rejected", Freed(slot))
    /\ UNCHANGED <<nextSequence, expired, cancelled, inChat, streamVars>>

(* Mutant: both handlers of a failed upload give its slot back.             *)
UploadFailsTwice(s) ==
    /\ send[s].at = "uploading"
    /\ used' = IF Holds(send[s].slot) THEN used - 2 ELSE used
    /\ \E kind \in Failures : Becomes(s, kind, Freed(send[s].slot))
    /\ UNCHANGED <<nextSequence, expired, cancelled, inChat, streamVars>>

UploadFails(s) ==
    /\ send[s].at = "uploading"
    /\ Release(send[s].slot)
    /\ \E kind \in Failures : Becomes(s, kind, Freed(send[s].slot))
    /\ UNCHANGED <<nextSequence, expired, cancelled, inChat, streamVars>>

(* Mutant: an unknown outcome is followed by a proactive message too.       *)
FallsBackUnknown(slot, outcome) ==
    /\ outcome \in {"limited", "unknown"}
    /\ ProactiveFallback /\ slot.mode = "reply"

\* tryFallback: the reply is definitely refused, for one of the reply limits.
FallsBack(slot, outcome) ==
    /\ outcome = "limited"
    /\ ProactiveFallback /\ slot.mode = "reply"

Outcomes == {"accepted", "limited"} \cup Failures

\* What a failed request is called.
FailureOf(outcome) == IF outcome = "unknown" THEN "unknown" ELSE "rejected"

SendAnswered(s) ==
    /\ send[s].at = "posting"
    /\ \E outcome \in Outcomes, arrived \in BOOLEAN :
          LET slot == send[s].slot
              falls == ~cancelled /\ FallsBack(slot, outcome)
          IN
          /\ arrived => outcome \in {"accepted", "unknown"}
          /\ outcome = "accepted" => arrived
          /\ inChat' = IF arrived THEN [inChat EXCEPT ![s] = @ + 1] ELSE inChat
          /\ \/ outcome = "accepted" /\ Becomes(s, "accepted", slot) /\ UNCHANGED used
             \/ falls /\ Release(slot) /\ PostProactive(s, Fallen(slot))
             \/ /\ outcome # "accepted" /\ ~falls
                /\ Becomes(s, FailureOf(outcome), slot)
                /\ IF send[s].kind = "media" THEN Release(slot) ELSE UNCHANGED used
    /\ UNCHANGED <<nextSequence, expired, cancelled, streamVars>>

-----------------------------------------------------------------------------
(* The text stream.  Its flushes are tasks of one promise chain.            *)

AppendText ==
    /\ Len(said) < MaxFragments
    /\ ~cancelled /\ stream.state = "open"
    /\ said' = Append(said, Len(said) + 1)
    /\ stream' = [stream EXCEPT !.pending = Append(@, Len(said) + 1), !.timer = TRUE]
    /\ UNCHANGED <<permitVars, expired, cancelled, sendVars, stopped, streamChat, plainChat>>

FlushTimer ==
    /\ stream.timer
    /\ stream' = [stream EXCEPT !.timer = FALSE, !.queued = @ + 1]
    /\ UNCHANGED <<permitVars, expired, cancelled, sendVars, said, stopped, streamChat, plainChat>>

\* The catch of a flush: what was not sent is forgotten.
FlushFails(st, kind) ==
    [st EXCEPT !.failure = kind, !.pending = <<>>, !.request = "none", !.text = <<>>,
               !.queued = @ - 1,
               !.state = IF kind = "unknown" THEN "closure_unknown" ELSE "failed"]

Buffer(st, slot, text) ==
    [st EXCEPT !.slot = slot, !.buffered = @ \o text,
               !.request = "none", !.text = <<>>, !.queued = @ - 1]

FlushIdle == stream.failure # "none" \/ stream.interrupted \/ stream.pending = <<>>

\* A task of the tail up to its request: the first one reserves the slot, a
\* later one finds that the permit has expired.
Flush ==
    /\ stream.queued > 0 /\ stream.request = "none"
    /\ LET Requests(slot) ==
              stream' = IF slot.mode = "proactive"
                        THEN Buffer([stream EXCEPT !.pending = <<>>], slot, stream.pending)
                        ELSE [stream EXCEPT !.slot = Commit(slot), !.pending = <<>>,
                                  !.request = "frame", !.text = stream.pending]
       IN
       \/ FlushIdle /\ stream' = [stream EXCEPT !.queued = @ - 1] /\ UNCHANGED permitVars
       \/ /\ ~FlushIdle
          /\ \/ cancelled
             \/ stream.slot = NoSlot /\ Unreservable
             \/ stream.slot.mode = "reply" /\ expired
          /\ stream' = FlushFails(stream, "rejected") /\ UNCHANGED permitVars
       \/ /\ ~FlushIdle /\ ~cancelled /\ stream.slot = NoSlot
          /\ \E slot \in {Reserved, Proactive} : ReserveSlot(slot) /\ Requests(slot)
       \/ /\ ~FlushIdle /\ ~cancelled /\ stream.slot # NoSlot
          /\ stream.slot.mode = "reply" => ~expired
          /\ Requests(stream.slot) /\ UNCHANGED permitVars
    /\ UNCHANGED <<expired, cancelled, sendVars, said, stopped, streamChat, plainChat>>

\* Only a first frame that was refused may be followed by a proactive message.
FrameAnswered ==
    /\ stream.request = "frame"
    /\ \E outcome \in Outcomes, arrived \in BOOLEAN :
          LET full == stream.accepted \o stream.text
              falls == /\ ~stream.id /\ ~stream.interrupted /\ ~cancelled
                       /\ FallsBack(stream.slot, outcome)
          IN
          /\ arrived => outcome \in {"accepted", "unknown"}
          /\ outcome = "accepted" => arrived
          /\ streamChat' = IF arrived THEN full ELSE streamChat
          /\ \/ /\ outcome = "accepted" /\ UNCHANGED used
                /\ stream' = [stream EXCEPT !.id = TRUE, !.accepted = full,
                                  !.request = "none", !.text = <<>>, !.queued = @ - 1]
             \/ /\ falls /\ Release(stream.slot)
                /\ stream' = Buffer(stream, Fallen(stream.slot), stream.text)
             \/ /\ outcome # "accepted" /\ ~falls /\ UNCHANGED used
                /\ stream' = FlushFails(stream, FailureOf(outcome))
    /\ UNCHANGED <<nextSequence, expired, cancelled, sendVars, said, stopped, plainChat>>

(* Mutant: finish() stops the timer without flushing what waits for it.     *)
CloseUnflushed(st, interrupt) ==
    LET dropped == IF interrupt
                   THEN [st EXCEPT !.interrupted = TRUE, !.pending = <<>>, !.buffered = <<>>]
                   ELSE st
    IN IF st.closing # "no" THEN dropped
       ELSE [dropped EXCEPT !.closing = "yes", !.timer = FALSE, !.state = "sealing"]

(* Mutant: an interruption that finds the stream closing is ignored.        *)
CloseUnlessClosing(st, interrupt) ==
    IF st.closing # "no" THEN st
    ELSE [st EXCEPT !.interrupted = interrupt, !.closing = "yes", !.timer = FALSE,
                    !.state = "sealing",
                    !.pending = IF interrupt THEN <<>> ELSE @,
                    !.buffered = IF interrupt THEN <<>> ELSE @,
                    !.queued = IF interrupt THEN @ ELSE @ + 1]

\* close(): an interruption drops what is not sent, also of a stream that is
\* being finished.
Close(st, interrupt) ==
    LET dropped == IF interrupt
                   THEN [st EXCEPT !.interrupted = TRUE, !.pending = <<>>, !.buffered = <<>>]
                   ELSE st
    IN IF st.closing # "no" THEN dropped
       ELSE [dropped EXCEPT !.closing = "yes", !.timer = FALSE, !.state = "sealing",
                            !.queued = IF interrupt THEN @ ELSE @ + 1]

CloseStream(interrupt) ==
    /\ interrupt => ~stopped
    /\ ~interrupt => stream.closing = "no"
    /\ stream' = Close(stream, interrupt)
    /\ stopped' = (stopped \/ interrupt)
    /\ UNCHANGED <<permitVars, expired, cancelled, sendVars, said, streamChat, plainChat>>

Closes(state) ==
    stream' = [stream EXCEPT !.closing = "done", !.state = state, !.request = "none",
                             !.text = <<>>]

\* The end of the chain: the buffered text as one proactive message, or the
\* last frame that seals what the stream message shows.
CloseRuns ==
    /\ stream.closing = "yes" /\ stream.queued = 0 /\ stream.request = "none"
    /\ LET plain == /\ ~stream.interrupted /\ stream.slot.mode = "proactive"
                    /\ stream.buffered # <<>>
       IN
       \/ /\ stream.failure # "none"
          /\ Closes(IF stream.failure = "unknown" THEN "closure_unknown" ELSE "failed")
       \/ /\ stream.failure = "none" /\ plain
          /\ \/ ~cancelled /\ stream' = [stream EXCEPT !.request = "plain",
                                                       !.text = stream.buffered]
             \/ Closes("failed")
       \/ /\ stream.failure = "none" /\ ~plain /\ stream.id
          /\ IF expired \/ (cancelled /\ ~stream.interrupted) THEN Closes("closure_unknown")
             ELSE stream' = [stream EXCEPT !.request = "final"]
       \/ /\ stream.failure = "none" /\ ~plain /\ ~stream.id
          /\ Closes("sealed")
    /\ UNCHANGED <<permitVars, expired, cancelled, sendVars, said, stopped, streamChat, plainChat>>

PlainAnswered ==
    /\ stream.request = "plain"
    /\ \/ /\ plainChat' = stream.text
          /\ stream' = [stream EXCEPT !.request = "none", !.text = <<>>, !.buffered = <<>>,
                            !.accepted = stream.text, !.closing = "done",
                            !.state = "sealed"]
       \/ plainChat' \in {plainChat, stream.text} /\ Closes("closure_unknown")
       \/ UNCHANGED plainChat /\ Closes("failed")
    /\ UNCHANGED <<permitVars, expired, cancelled, sendVars, said, stopped, streamChat>>

\* The last frame carries the accepted text once more.
FinalAnswered ==
    /\ stream.request = "final"
    /\ \E state \in {"sealed", "closure_unknown"} : Closes(state)
    /\ streamChat' \in {streamChat, stream.accepted}
    /\ UNCHANGED <<permitVars, expired, cancelled, sendVars, said, stopped, plainChat>>

-----------------------------------------------------------------------------

OfficialNext ==
    \/ PermitExpires \/ TurnCancelled
    \/ \E s \in Sends :
          SendText(s) \/ SendMedia(s) \/ UploadEnds(s) \/ UploadFails(s) \/ SendAnswered(s)
    \/ AppendText \/ FlushTimer \/ Flush \/ FrameAnswered
    \/ \E interrupt \in BOOLEAN : CloseStream(interrupt)
    \/ CloseRuns \/ PlainAnswered \/ FinalAnswered

OfficialSpec == OfficialInit /\ [][OfficialNext]_officialVars

-----------------------------------------------------------------------------
(* Properties.                                                              *)

\* A message is in the chat at most once, and the failure its caller is told
\* is true: a rejected one is not there, an accepted one is.  So nobody who
\* sends a rejected message again, the fallback included, shows it twice.
NothingIsShownTwice ==
    \A s \in Sends :
        /\ inChat[s] <= 1
        /\ send[s].at = "accepted" => inChat[s] = 1
        /\ send[s].at \in {"idle", "uploading", "posting", "rejected"} => inChat[s] = 0

\* The budget counts exactly the slots that are held: what fails before it
\* was submitted frees its slot once, what was submitted never does, and no
\* two messages go out under one sequence number.
BudgetCountsHeldSlots ==
    /\ used = Cardinality({s \in Sends : Holds(send[s].slot)})
              + (IF Holds(stream.slot) THEN 1 ELSE 0)
    /\ used <= MaxMessages
    /\ \A s \in Sends :
          Holds(send[s].slot) =>
             /\ send[s].slot.sequence # stream.slot.sequence
             /\ \A q \in Sends \ {s} : send[s].slot.sequence # send[q].slot.sequence

\* The chat shows a beginning of what the model said, in the stream message
\* or in the proactive one but never in both, and what is reported as accepted
\* is shown; a stream that was finished and sealed shows everything.
StreamShowsWhatWasSaid ==
    /\ streamChat = <<>> \/ plainChat = <<>>
    /\ \E shownText \in {streamChat, plainChat} :
          /\ streamChat \o plainChat = shownText
          /\ IsPrefix(shownText, said) /\ IsPrefix(stream.accepted, shownText)
          /\ stream.state = "sealed" /\ ~stream.interrupted =>
                stream.accepted = said

\* Once interrupted a stream adds nothing to the chat but the request that
\* was already out, and it keeps what was accepted.
InterruptedAddsNothing ==
    [][stopped =>
          /\ stream.request = "none" => UNCHANGED <<streamChat, plainChat>>
          /\ stream'.request \in {"frame", "plain"} => stream.request = stream'.request
          /\ IsPrefix(stream.accepted, stream'.accepted)]_officialVars
=============================================================================
