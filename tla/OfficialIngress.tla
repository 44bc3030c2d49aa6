----------------------------- MODULE OfficialIngress -----------------------------
(***************************************************************************)
(* What becomes of the events of the QQ official platform: the age of a      *)
(* message decides whether it may still be answered (eventDecoder.ts), a     *)
(* durable receipt whether it was handled before                             *)
(* (incomingMessageReceiptStore.ts), and only then it is handled             *)
(* (officialMessageIngress.ts).  A message may be told as group context and  *)
(* as a mention, in any order, and again after a reconnect or a restart.     *)
(* Receipts are durable, so a restart changes nothing here.                  *)
(***************************************************************************)
EXTENDS Naturals, Sequences, FiniteSets

CONSTANTS
    Messages,
    MaxReceipts   \* MAX_RECEIPTS

VARIABLES
    old,          \* messages whose 5 minutes to be answered are over
    receipts,     \* incoming_message_receipts: "none", "context" or "activated"
    heard,        \* observed: what was handled of each under its receipt
    activations   \* observed: how often each was handled as addressed to the bot

ingressVars == <<old, receipts, heard, activations>>

IngressTypeOK ==
    /\ old \subseteq Messages
    /\ receipts \in [Messages -> {"none", "context", "activated"}]
    /\ heard \in [Messages -> Seq({"context", "activated"})]
    /\ activations \in [Messages -> Nat]

IngressInit ==
    /\ old = {}
    /\ receipts = [m \in Messages |-> "none"]
    /\ heard = [m \in Messages |-> <<>>]
    /\ activations = [m \in Messages |-> 0]

MessageAges(m) ==
    /\ m \notin old /\ old' = old \cup {m}
    /\ UNCHANGED <<receipts, heard, activations>>

\* A receipt lives 10 minutes, twice the time its message can be answered:
\* claim() deletes those that are over before it reads or counts any.
ReceiptExpires(m) ==
    /\ m \in old /\ receipts[m] # "none"
    /\ receipts' = [receipts EXCEPT ![m] = "none"]
    /\ heard' = [heard EXCEPT ![m] = <<>>]
    /\ UNCHANGED <<old, activations>>

(* Mutant: the age of a message is not asked.                                *)
DecodedAtAnyAge(m, addressed, wholeGroup) ==
    IF ~(wholeGroup \/ addressed) THEN "dropped"
    ELSE IF addressed THEN "activated" ELSE "context"

\* A mention or a private message is dropped when it is old; an event of a
\* whole group is context unless it addresses the bot and is not old.
Decoded(m, addressed, wholeGroup) ==
    IF ~wholeGroup /\ (m \in old \/ ~addressed) THEN "dropped"
    ELSE IF addressed /\ m \notin old THEN "activated"
    ELSE "context"

Room == Cardinality({m \in Messages : receipts[m] # "none"}) < MaxReceipts

\* What claim() accepts, the second time as an upgrade.
Claimed(m, as) ==
    \/ receipts[m] = "none" /\ Room
    \/ receipts[m] = "context" /\ as = "activated"

EventArrives(m) ==
    /\ \E addressed, wholeGroup \in BOOLEAN :
          LET as == Decoded(m, addressed, wholeGroup) IN
          /\ as # "dropped" /\ Claimed(m, as)
          /\ receipts' = [receipts EXCEPT ![m] = as]
          /\ heard' = [heard EXCEPT ![m] = Append(@, as)]
          /\ activations' = [activations EXCEPT ![m] =
                                IF as = "activated" THEN @ + 1 ELSE @]
    /\ UNCHANGED old

IngressNext ==
    \E m \in Messages : MessageAges(m) \/ ReceiptExpires(m) \/ EventArrives(m)

IngressSpec == IngressInit /\ [][IngressNext]_ingressVars

-----------------------------------------------------------------------------
(* Properties.                                                               *)

\* Told any number of times, in any order and also after its receipt is gone,
\* a message is answered at most once; while its receipt lasts it enters the
\* conversation once, as context that may become addressed but not back.
MessagesCountOnce ==
    \A m \in Messages :
        /\ activations[m] <= 1
        /\ heard[m] \in {<<>>, <<"context">>, <<"activated">>,
                         <<"context", "activated">>}
=============================================================================
