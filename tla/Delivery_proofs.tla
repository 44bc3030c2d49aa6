------------------------------ MODULE Delivery_proofs ------------------------------
(***************************************************************************)
(* What comes to the chat: the reply permit, the messages and the text stream *)
(* of the QQ official channel, the queue of what a session sends, and the     *)
(* bubbles and media of one run.                                             *)
(***************************************************************************)
EXTENDS OfficialDelivery, OutboundQueue, NativeStream, FiniteSetTheorems, SequenceTheorems,
        TLAPS

-----------------------------------------------------------------------------
(* The reply permit, for any number of sends, any budget and any number of    *)
(* fragments.                                                                *)
(*                                                                           *)
(* The budget is not inductive: a request that fails gives back only a slot   *)
(* that is still reserved, so the invariant says at which point of a send or   *)
(* of the stream a slot can be what.                                         *)

HeldSends == {s \in Sends : Holds(send[s].slot)}

\* A slot that is reserved is the one of an upload under way, which has no other.
SlotFits(x) ==
    /\ x.at = "idle" => x.slot = NoSlot
    /\ x.slot.state = "reserved" => x.at = "uploading" /\ x.slot.mode = "reply"
    /\ x.at = "uploading" /\ x.slot.mode = "reply" => x.slot.state = "reserved"

\* The stream commits its slot with its first frame.
StreamSlot ==
    /\ "slot" \in DOMAIN stream /\ stream.slot \in Slot
    /\ stream.slot.state # "reserved"
    /\ stream.slot.mode = "reply" => stream.slot.state = "committed"
    /\ stream.slot.mode = "none" => stream.slot = NoSlot

\* A number is never given twice; 0 is the one of a message without a slot.
Sequences ==
    /\ nextSequence > 0 /\ stream.slot.sequence < nextSequence
    /\ Holds(stream.slot) => stream.slot.sequence # 0
    /\ \A s \in Sends :
          /\ send[s].slot.sequence < nextSequence
          /\ Holds(send[s].slot) => send[s].slot.sequence # 0
          /\ send[s].slot.sequence # 0 =>
                /\ send[s].slot.sequence # stream.slot.sequence
                /\ \A q \in Sends \ {s} : send[s].slot.sequence # send[q].slot.sequence

HeldByStream == IF Holds(stream.slot) THEN 1 ELSE 0

PermitInv ==
    /\ used \in Nat /\ nextSequence \in Nat
    /\ send \in [Sends -> Send]
    /\ \A s \in Sends : SlotFits(send[s])
    /\ StreamSlot /\ Sequences
    /\ used = Cardinality(HeldSends) + HeldByStream
    /\ used <= MaxMessages

LEMMA HeldIsFinite == IsFiniteSet(HeldSends) /\ Cardinality(HeldSends) \in Nat
  <1>1. HeldSends \subseteq Sends
    BY DEF HeldSends
  <1> QED
    BY <1>1, OfficialAssumption, FS_Subset, FS_CardinalityType

LEMMA PermitInitInv == OfficialInit => PermitInv
  <1> SUFFICES ASSUME OfficialInit PROVE PermitInv
    OBVIOUS
  <1>1. NoSlot \in Slot /\ NoSlot.state = "none" /\ NoSlot.mode = "none"
        /\ NoSlot.sequence = 0
    BY DEF NoSlot, Slot
  <1>2. send \in [Sends -> Send]
    BY <1>1 DEF OfficialInit, Send
  <1>3. \A s \in Sends : send[s].at = "idle" /\ send[s].slot = NoSlot
    BY DEF OfficialInit
  <1>4. "slot" \in DOMAIN stream /\ stream.slot = NoSlot
    BY DEF OfficialInit
  <1>5. HeldSends = {}
    BY <1>1, <1>3 DEF HeldSends, Holds
  <1>6. Cardinality(HeldSends) = 0 /\ HeldByStream = 0
    BY <1>1, <1>4, <1>5, FS_EmptySet DEF HeldByStream, Holds
  <1>7. used = 0 /\ nextSequence = 1 /\ MaxMessages \in Nat
    BY OfficialAssumption DEF OfficialInit
  <1> QED
    BY <1>1, <1>2, <1>3, <1>4, <1>5, <1>6, <1>7
       DEF PermitInv, SlotFits, StreamSlot, Sequences, Holds

\* A step of one send keeps the books when it holds its slot as before, takes a
\* new one, or gives back the one it held.
LEMMA SendChanges ==
    ASSUME NEW s \in Sends, PermitInv,
           send' \in [Sends -> Send],
           \A q \in Sends \ {s} : send'[q] = send[q],
           SlotFits(send'[s]),
           stream' = stream,
           \/ /\ Holds(send'[s].slot) <=> Holds(send[s].slot)
              /\ send'[s].slot.sequence = send[s].slot.sequence
              /\ used' = used /\ nextSequence' = nextSequence
           \/ /\ ~Holds(send[s].slot) /\ Holds(send'[s].slot)
              /\ send'[s].slot.sequence = nextSequence
              /\ used < MaxMessages
              /\ used' = used + 1 /\ nextSequence' = nextSequence + 1
           \/ /\ Holds(send[s].slot) /\ ~Holds(send'[s].slot)
              /\ send'[s].slot.sequence = send[s].slot.sequence
              /\ used' = used - 1 /\ nextSequence' = nextSequence
    PROVE  PermitInv'
  <1>1. \A q \in Sends : SlotFits(send[q])'
    <2>1. \A q \in Sends : SlotFits(send'[q])
      BY DEF PermitInv
    <2> QED
      BY <2>1 DEF SlotFits
  <1>2. StreamSlot' /\ HeldByStream' = HeldByStream /\ HeldByStream \in {0, 1}
    BY DEF PermitInv, StreamSlot, HeldByStream, Holds
  <1>3. HeldSends' = {q \in Sends : Holds(send'[q].slot)}
    BY DEF HeldSends, Holds
  <1>4. IsFiniteSet(HeldSends) /\ Cardinality(HeldSends) \in Nat
    BY HeldIsFinite
  <1>5. /\ used \in Nat /\ nextSequence \in Nat /\ MaxMessages \in Nat
        /\ used = Cardinality(HeldSends) + HeldByStream /\ used <= MaxMessages
    BY OfficialAssumption DEF PermitInv
  <1>6. \A q \in Sends : send[q].slot.sequence \in Nat /\ send'[q].slot.sequence \in Nat
    BY DEF PermitInv, Send, Slot
  <1>7. /\ used' \in Nat /\ nextSequence' \in Nat
        /\ used' = Cardinality(HeldSends') + HeldByStream'
        /\ used' <= MaxMessages
    <2>1. CASE /\ Holds(send'[s].slot) <=> Holds(send[s].slot)
               /\ used' = used /\ nextSequence' = nextSequence
      <3>1. HeldSends' = HeldSends
        BY <2>1, <1>3 DEF HeldSends
      <3> QED
        BY <2>1, <3>1, <1>2, <1>5
    <2>2. CASE /\ ~Holds(send[s].slot) /\ Holds(send'[s].slot)
               /\ used < MaxMessages
               /\ used' = used + 1 /\ nextSequence' = nextSequence + 1
      <3>1. HeldSends' = HeldSends \cup {s} /\ s \notin HeldSends
        BY <2>2, <1>3 DEF HeldSends
      <3>2. Cardinality(HeldSends') = Cardinality(HeldSends) + 1
        BY <3>1, <1>4, FS_AddElement
      <3> QED
        BY <2>2, <3>2, <1>2, <1>4, <1>5
    <2>3. CASE /\ Holds(send[s].slot) /\ ~Holds(send'[s].slot)
               /\ used' = used - 1 /\ nextSequence' = nextSequence
      <3>1. HeldSends' = HeldSends \ {s} /\ s \in HeldSends
        BY <2>3, <1>3 DEF HeldSends
      <3>2. Cardinality(HeldSends') = Cardinality(HeldSends) - 1
        BY <3>1, <1>4, FS_RemoveElement
      <3>3. Cardinality(HeldSends') \in Nat
        BY <3>1, <1>4, FS_RemoveElement, FS_CardinalityType
      <3> QED
        BY <2>3, <3>2, <3>3, <1>2, <1>4, <1>5
    <2> QED
      BY <2>1, <2>2, <2>3
  <1>8. Sequences'
    <2>1. /\ nextSequence > 0 /\ stream.slot.sequence < nextSequence
          /\ Holds(stream.slot) => stream.slot.sequence # 0
          /\ \A q \in Sends : send[q].slot.sequence < nextSequence
          /\ \A q \in Sends : Holds(send[q].slot) => send[q].slot.sequence # 0
          /\ \A q \in Sends : send[q].slot.sequence # 0 =>
                send[q].slot.sequence # stream.slot.sequence
          /\ \A q, r \in Sends : send[q].slot.sequence # 0 /\ q # r =>
                send[q].slot.sequence # send[r].slot.sequence
      BY DEF PermitInv, Sequences
    <2>2. stream.slot.sequence \in Nat
      BY DEF PermitInv, StreamSlot, Slot
    <2>3. /\ nextSequence' >= nextSequence
          /\ \/ send'[s].slot.sequence = send[s].slot.sequence
             \/ send'[s].slot.sequence = nextSequence /\ nextSequence' = nextSequence + 1
          /\ Holds(send'[s].slot) => send'[s].slot.sequence # 0
      BY <1>5, <2>1
    <2>4. \A q \in Sends :
             /\ send'[q].slot.sequence < nextSequence'
             /\ Holds(send'[q].slot) => send'[q].slot.sequence # 0
             /\ send'[q].slot.sequence # 0 =>
                   send'[q].slot.sequence # stream.slot.sequence
      BY <2>1, <2>2, <2>3, <1>5, <1>6, <1>7
    <2>5. \A q, r \in Sends : send'[q].slot.sequence # 0 /\ q # r =>
             send'[q].slot.sequence # send'[r].slot.sequence
      BY <2>1, <2>3, <1>5, <1>6
    <2>6. /\ nextSequence' > 0 /\ stream.slot.sequence < nextSequence'
      BY <2>1, <2>2, <2>3, <1>5, <1>7
    <2> QED
      BY <2>1, <2>4, <2>5, <2>6 DEF Sequences, Holds
  <1> QED
    BY <1>1, <1>2, <1>7, <1>8 DEF PermitInv

\* So does a step of the stream.
LEMMA StreamChanges ==
    ASSUME PermitInv, StreamSlot', send' = send,
           \/ /\ Holds(stream'.slot) <=> Holds(stream.slot)
              /\ stream'.slot.sequence = stream.slot.sequence
              /\ used' = used /\ nextSequence' = nextSequence
           \/ /\ ~Holds(stream.slot) /\ Holds(stream'.slot)
              /\ stream'.slot.sequence = nextSequence
              /\ used < MaxMessages
              /\ used' = used + 1 /\ nextSequence' = nextSequence + 1
    PROVE  PermitInv'
  <1>1. HeldSends' = HeldSends
    BY DEF HeldSends, Holds
  <1>2. send' \in [Sends -> Send] /\ (\A s \in Sends : SlotFits(send[s]))'
    BY DEF PermitInv, SlotFits
  <1>3. /\ used \in Nat /\ nextSequence \in Nat /\ MaxMessages \in Nat
        /\ used = Cardinality(HeldSends) + HeldByStream /\ used <= MaxMessages
        /\ Cardinality(HeldSends) \in Nat
    BY OfficialAssumption, HeldIsFinite DEF PermitInv
  <1>4. /\ HeldByStream = IF Holds(stream.slot) THEN 1 ELSE 0
        /\ HeldByStream' = IF Holds(stream'.slot) THEN 1 ELSE 0
    BY DEF HeldByStream, Holds
  <1>5. /\ used' \in Nat /\ nextSequence' \in Nat /\ used' <= MaxMessages
        /\ nextSequence' >= nextSequence
        /\ used' = Cardinality(HeldSends') + HeldByStream'
    BY <1>1, <1>3, <1>4
  <1>6. Sequences'
    <2>1. /\ nextSequence > 0 /\ stream.slot.sequence < nextSequence
          /\ Holds(stream.slot) => stream.slot.sequence # 0
          /\ \A q \in Sends :
                /\ send[q].slot.sequence < nextSequence
                /\ Holds(send[q].slot) => send[q].slot.sequence # 0
                /\ send[q].slot.sequence # 0 =>
                      /\ send[q].slot.sequence # stream.slot.sequence
                      /\ \A r \in Sends \ {q} :
                            send[q].slot.sequence # send[r].slot.sequence
      BY DEF PermitInv, Sequences
    <2>2. \A q \in Sends : send[q].slot.sequence \in Nat
      BY DEF PermitInv, Send, Slot
    <2>3. stream.slot.sequence \in Nat
      BY DEF PermitInv, StreamSlot, Slot
    <2>4. /\ nextSequence' > 0 /\ stream'.slot.sequence < nextSequence'
          /\ Holds(stream'.slot) => stream'.slot.sequence # 0
          /\ \A q \in Sends :
                /\ send[q].slot.sequence < nextSequence'
                /\ send[q].slot.sequence # 0 =>
                      send[q].slot.sequence # stream'.slot.sequence
      BY <2>1, <2>2, <2>3, <1>3, <1>5
    <2> QED
      BY <2>1, <2>4 DEF Sequences, Holds
  <1> QED
    BY <1>1, <1>2, <1>5, <1>6 DEF PermitInv

LEMMA SlotFacts ==
    /\ NoSlot \in Slot /\ NoSlot.sequence = 0 /\ NoSlot.state = "none" /\ NoSlot.mode = "none"
    /\ Proactive \in Slot /\ Proactive.sequence = 0 /\ Proactive.state = "none" /\ Proactive.mode = "proactive"
    /\ \A slot \in Slot :
          /\ Commit(slot) \in Slot /\ Commit(slot).state = "committed"
          /\ Commit(slot).mode = slot.mode /\ Commit(slot).sequence = slot.sequence
          /\ Freed(slot) \in Slot /\ Freed(slot).mode = slot.mode
          /\ Freed(slot).sequence = slot.sequence
          /\ Freed(slot).state = IF slot.state = "reserved" THEN "released" ELSE slot.state
          /\ Fallen(slot) \in Slot /\ Fallen(slot).mode = "proactive"
          /\ Fallen(slot).sequence = slot.sequence
          /\ Fallen(slot).state = Freed(slot).state
  BY DEF Slot, NoSlot, Proactive, Commit, Freed, Fallen

LEMMA ReservedSlot ==
    PermitInv => /\ Reserved \in Slot /\ Reserved.mode = "reply"
                 /\ Reserved.state = "reserved" /\ Reserved.sequence = nextSequence
                 /\ Reserved # Proactive
  BY DEF PermitInv, Slot, Reserved, Proactive

\* What a send becomes.
LEMMA SendBecomes ==
    ASSUME NEW s \in Sends, PermitInv
    PROVE  /\ send[s] \in Send /\ send[s].slot \in Slot /\ SlotFits(send[s])
           /\ \A at, slot : Becomes(s, at, slot) =>
                 send' = [send EXCEPT ![s] = [at |-> at, kind |-> send[s].kind, slot |-> slot]]
  BY DEF PermitInv, Send, Becomes

LEMMA PermitNextInv == PermitInv /\ [OfficialNext]_officialVars => PermitInv'
  <1> SUFFICES ASSUME PermitInv, [OfficialNext]_officialVars
               PROVE  PermitInv'
    OBVIOUS
  <1>0. /\ used \in Nat /\ nextSequence \in Nat /\ MaxMessages \in Nat
        /\ send \in [Sends -> Send]
        /\ "slot" \in DOMAIN stream /\ stream.slot \in Slot
        /\ stream.slot.state # "reserved"
        /\ stream.slot.mode = "reply" => stream.slot.state = "committed"
        /\ stream.slot.mode = "none" => stream.slot = NoSlot
    BY OfficialAssumption DEF PermitInv, StreamSlot
  <1>r. Reservable => used < MaxMessages
    BY DEF Reservable
  \* Only the slots are of interest: actions that leave them alone.
  <1>1. ASSUME send' = send, stream' = stream \/ stream'.slot = stream.slot,
               "slot" \in DOMAIN stream', used' = used, nextSequence' = nextSequence
        PROVE  PermitInv'
    <2>1. stream'.slot = stream.slot
      BY <1>1
    <2>2. StreamSlot'
      BY <1>0, <1>1, <2>1 DEF StreamSlot
    <2> QED
      BY <1>1, <2>1, <2>2, StreamChanges
  <1>2. ASSUME NEW s \in Sends, SendText(s)
        PROVE  PermitInv'
    <2>1. send[s].at = "idle" /\ send[s].slot = NoSlot /\ stream' = stream
      BY <1>0, <1>2, SendBecomes DEF SendText, SlotFits, streamVars
    <2>2. ~Holds(send[s].slot)
      BY <2>1, SlotFacts DEF Holds
    <2>3. CASE Refused(s, "text")
      <3>1. /\ send' = [send EXCEPT ![s] =
                          [at |-> "rejected", kind |-> "text", slot |-> NoSlot]]
            /\ used' = used /\ nextSequence' = nextSequence
        BY <2>3 DEF Refused, Begins, permitVars
      <3>2. [at |-> "rejected", kind |-> "text", slot |-> NoSlot] \in Send
        BY SlotFacts DEF Send, Failures
      <3> QED
        BY <1>0, <2>1, <2>2, <3>1, <3>2, SlotFacts, SendChanges DEF SlotFits, Holds
    <2>4. CASE ReserveSlot(Reserved) /\ Begins(s, "text", "posting", Commit(Reserved))
      <3>1. /\ send' = [send EXCEPT ![s] =
                          [at |-> "posting", kind |-> "text", slot |-> Commit(Reserved)]]
            /\ used' = used + 1 /\ nextSequence' = nextSequence + 1 /\ used < MaxMessages
        BY <2>4, <1>r, ReservedSlot DEF ReserveSlot, Begins
      <3>2. /\ Commit(Reserved) \in Slot /\ Commit(Reserved).state = "committed"
            /\ Commit(Reserved).sequence = nextSequence
        BY SlotFacts, ReservedSlot
      <3>3. [at |-> "posting", kind |-> "text", slot |-> Commit(Reserved)] \in Send
        BY <3>2 DEF Send, Failures
      <3> QED
        BY <1>0, <2>1, <2>2, <3>1, <3>2, <3>3, SendChanges DEF SlotFits, Holds
    <2>5. ASSUME ReserveSlot(Proactive), NEW at \in {"posting", "rejected"},
                 Begins(s, "text", at, Proactive)
          PROVE  PermitInv'
      <3>1. /\ send' = [send EXCEPT ![s] =
                          [at |-> at, kind |-> "text", slot |-> Proactive]]
            /\ used' = used /\ nextSequence' = nextSequence
        BY <2>5, ReservedSlot DEF ReserveSlot, Begins, permitVars
      <3>2. [at |-> at, kind |-> "text", slot |-> Proactive] \in Send
        BY SlotFacts DEF Send, Failures
      <3> QED
        BY <1>0, <2>1, <2>2, <3>1, <3>2, SlotFacts, SendChanges DEF SlotFits, Holds
    <2> QED
      BY <1>2, <2>3, <2>4, <2>5, SlotFacts, ReservedSlot DEF SendText
  <1>3. ASSUME NEW s \in Sends, SendMedia(s)
        PROVE  PermitInv'
    <2>1. send[s].at = "idle" /\ send[s].slot = NoSlot /\ stream' = stream
      BY <1>0, <1>3, SendBecomes DEF SendMedia, SlotFits, streamVars
    <2>2. ~Holds(send[s].slot)
      BY <2>1, SlotFacts DEF Holds
    <2>3. CASE Refused(s, "media")
      <3>1. /\ send' = [send EXCEPT ![s] =
                          [at |-> "rejected", kind |-> "media", slot |-> NoSlot]]
            /\ used' = used /\ nextSequence' = nextSequence
        BY <2>3 DEF Refused, Begins, permitVars
      <3>2. [at |-> "rejected", kind |-> "media", slot |-> NoSlot] \in Send
        BY SlotFacts DEF Send, Failures
      <3> QED
        BY <1>0, <2>1, <2>2, <3>1, <3>2, SlotFacts, SendChanges DEF SlotFits, Holds
    <2>4. CASE ReserveSlot(Reserved) /\ Begins(s, "media", "uploading", Reserved)
      <3>1. /\ send' = [send EXCEPT ![s] =
                          [at |-> "uploading", kind |-> "media", slot |-> Reserved]]
            /\ used' = used + 1 /\ nextSequence' = nextSequence + 1 /\ used < MaxMessages
        BY <2>4, <1>r, ReservedSlot DEF ReserveSlot, Begins
      <3>2. [at |-> "uploading", kind |-> "media", slot |-> Reserved] \in Send
        BY ReservedSlot DEF Send, Failures
      <3> QED
        BY <1>0, <2>1, <2>2, <3>1, <3>2, ReservedSlot, SendChanges DEF SlotFits, Holds
    <2>5. CASE ReserveSlot(Proactive) /\ Begins(s, "media", "uploading", Proactive)
      <3>1. /\ send' = [send EXCEPT ![s] =
                          [at |-> "uploading", kind |-> "media", slot |-> Proactive]]
            /\ used' = used /\ nextSequence' = nextSequence
        BY <2>5, ReservedSlot DEF ReserveSlot, Begins, permitVars
      <3>2. [at |-> "uploading", kind |-> "media", slot |-> Proactive] \in Send
        BY SlotFacts DEF Send, Failures
      <3> QED
        BY <1>0, <2>1, <2>2, <3>1, <3>2, SlotFacts, SendChanges DEF SlotFits, Holds
    <2> QED
      BY <1>3, <2>3, <2>4, <2>5 DEF SendMedia
  \* A send that goes on with the slot it has, committed or not, or that has lost it.
  <1>4. ASSUME NEW s \in Sends, stream' = stream, nextSequence' = nextSequence,
               NEW at \in {"posting", "accepted", "rejected", "unknown"},
               \/ /\ used' = used
                  /\ send[s].slot.state # "reserved"
                  /\ \/ Becomes(s, at, send[s].slot)
                     \/ Becomes(s, at, Freed(send[s].slot))
                     \/ Becomes(s, at, Fallen(send[s].slot))
               \/ used' = used /\ Becomes(s, at, Commit(send[s].slot))
                  /\ Holds(send[s].slot)
               \/ /\ used' = used - 1 /\ send[s].slot.state = "reserved"
                  /\ \/ Becomes(s, at, Freed(send[s].slot))
                     \/ Becomes(s, at, Fallen(send[s].slot))
        PROVE  PermitInv'
    <2> DEFINE old == send[s].slot
    <2>1. old \in Slot /\ send[s].kind \in {"none", "text", "media"}
      BY <1>0 DEF Send
    <2>2. \A slot \in Slot : [at |-> at, kind |-> send[s].kind, slot |-> slot] \in Send
      BY <2>1 DEF Send, Failures
    <2>3. \A slot \in Slot : Becomes(s, at, slot) =>
             /\ send' \in [Sends -> Send]
             /\ \A q \in Sends \ {s} : send'[q] = send[q]
             /\ send'[s].at = at /\ send'[s].slot = slot
      <3>1. \A slot \in Slot : Becomes(s, at, slot) =>
               send' = [send EXCEPT ![s] = [at |-> at, kind |-> send[s].kind, slot |-> slot]]
        BY SendBecomes
      <3> QED
        BY <1>0, <2>2, <3>1
    <2>4. /\ Freed(old) \in Slot /\ Fallen(old) \in Slot /\ Commit(old) \in Slot
          /\ Freed(old).sequence = old.sequence /\ Fallen(old).sequence = old.sequence
          /\ Commit(old).sequence = old.sequence /\ Commit(old).state = "committed"
          /\ Freed(old).state = IF old.state = "reserved" THEN "released" ELSE old.state
          /\ Fallen(old).state = Freed(old).state
      BY <2>1, SlotFacts
    <2>5. \A x : x.at = at /\ x.slot.state # "reserved" => SlotFits(x)
      BY DEF SlotFits
    <2>6. PICK new \in Slot :
             /\ Becomes(s, at, new) /\ new.state # "reserved" /\ new.sequence = old.sequence
             /\ \/ used' = used /\ (Holds(new) <=> Holds(old))
                \/ used' = used - 1 /\ Holds(old) /\ ~Holds(new)
      <3> HIDE DEF old
      <3>1. old.state # "reserved" =>
               Freed(old).state = old.state /\ Fallen(old).state = old.state
        BY <2>4
      <3>2. CASE /\ used' = used
                 /\ old.state # "reserved"
                 /\ \/ Becomes(s, at, old)
                    \/ Becomes(s, at, Freed(old))
                    \/ Becomes(s, at, Fallen(old))
        BY <3>1, <3>2, <2>1, <2>4 DEF Holds
      <3>3. CASE used' = used /\ Becomes(s, at, Commit(old)) /\ Holds(old)
        BY <3>3, <2>4 DEF Holds
      <3>4. CASE /\ used' = used - 1 /\ old.state = "reserved"
                 /\ \/ Becomes(s, at, Freed(old))
                    \/ Becomes(s, at, Fallen(old))
        BY <3>4, <2>4 DEF Holds
      <3> QED
        BY <1>4, <3>2, <3>3, <3>4 DEF old
    <2>7. /\ send' \in [Sends -> Send]
          /\ \A q \in Sends \ {s} : send'[q] = send[q]
          /\ send'[s].at = at /\ send'[s].slot = new
      BY <2>3, <2>6
    <2>8. SlotFits(send'[s])
      BY <2>5, <2>6, <2>7
    <2> QED
      BY <1>4, <2>6, <2>7, <2>8, SendChanges
  <1>5. ASSUME NEW s \in Sends, UploadEnds(s)
        PROVE  PermitInv'
    <2> DEFINE old == send[s].slot
    <2>1. /\ send[s].at = "uploading" /\ SlotFits(send[s]) /\ old \in Slot
          /\ stream' = stream /\ nextSequence' = nextSequence
      BY <1>5, SendBecomes DEF UploadEnds, streamVars
    <2>2. /\ old.mode = "proactive" => old.state # "reserved"
          /\ old.mode = "reply" => old.state = "reserved" /\ Holds(old)
      BY <2>1 DEF SlotFits, Holds
    <2>3. CASE old.mode = "proactive" /\ PostProactive(s, old) /\ used' = used
      BY <2>1, <2>2, <2>3, <1>4 DEF PostProactive
    <2>4. CASE old.mode = "reply" /\ Becomes(s, "posting", Commit(old)) /\ used' = used
      BY <2>1, <2>2, <2>4, <1>4
    <2>5. CASE /\ old.mode = "reply" /\ Release(old)
               /\ PostProactive(s, Fallen(old)) \/ Becomes(s, "rejected", Freed(old))
      <3>1. used' = used - 1 /\ old.state = "reserved"
        BY <2>2, <2>5 DEF Release
      <3> QED
        BY <2>1, <2>5, <3>1, <1>4 DEF PostProactive
    <2> QED
      BY <1>5, <2>3, <2>4, <2>5 DEF UploadEnds
  <1>6. ASSUME NEW s \in Sends, UploadFails(s)
        PROVE  PermitInv'
    <2>1. /\ stream' = stream /\ nextSequence' = nextSequence
          /\ Release(send[s].slot)
      BY <1>6 DEF UploadFails, streamVars
    <2>2. PICK kind \in {"rejected", "unknown"} : Becomes(s, kind, Freed(send[s].slot))
      BY <1>6 DEF UploadFails, Failures
    <2> QED
      BY <2>1, <2>2, <1>4 DEF Release
  <1>7. ASSUME NEW s \in Sends, SendAnswered(s)
        PROVE  PermitInv'
    <2> DEFINE old == send[s].slot
    <2>1. /\ send[s].at = "posting" /\ stream' = stream /\ nextSequence' = nextSequence
      BY <1>7 DEF SendAnswered, streamVars
    <2>2. old.state # "reserved"
      BY <2>1, SendBecomes DEF SlotFits
    <2>3. Release(old) => used' = used
      BY <2>2 DEF Release
    <2>4. PICK outcome \in Outcomes :
             \/ Becomes(s, "accepted", old) /\ used' = used
             \/ Release(old) /\ PostProactive(s, Fallen(old))
             \/ /\ Becomes(s, FailureOf(outcome), old)
                /\ Release(old) \/ used' = used
      BY <1>7 DEF SendAnswered
    <2>5. FailureOf(outcome) \in {"rejected", "unknown"}
      BY DEF FailureOf
    <2>6. CASE Becomes(s, "accepted", old) /\ used' = used
      BY <2>1, <2>2, <2>6, <1>4
    <2>7. CASE Release(old) /\ PostProactive(s, Fallen(old))
      BY <2>1, <2>2, <2>3, <2>7, <1>4 DEF PostProactive
    <2>8. CASE /\ Becomes(s, FailureOf(outcome), old)
               /\ Release(old) \/ used' = used
      BY <2>1, <2>2, <2>3, <2>5, <2>8, <1>4
    <2> QED
      BY <2>4, <2>6, <2>7, <2>8
  <1>8. CASE Flush
    <2> DEFINE old == stream.slot
    <2>1. send' = send
      BY <1>8 DEF Flush, sendVars
    <2>2. CASE /\ permitVars' = permitVars
               /\ \/ stream' = [stream EXCEPT !.queued = @ - 1]
                  \/ stream' = FlushFails(stream, "rejected")
      BY <1>0, <1>1, <2>1, <2>2 DEF FlushFails, permitVars
    <2>3. CASE /\ ReserveSlot(Reserved) /\ old = NoSlot
               /\ stream' = [stream EXCEPT !.slot = Commit(Reserved), !.pending = <<>>,
                                !.request = "frame", !.text = stream.pending]
      <3>1. /\ used < MaxMessages /\ used' = used + 1 /\ nextSequence' = nextSequence + 1
        BY <2>3, <1>r, ReservedSlot DEF ReserveSlot
      <3>2. stream'.slot = Commit(Reserved) /\ "slot" \in DOMAIN stream'
        BY <1>0, <2>3
      <3>3. /\ Commit(Reserved) \in Slot /\ Commit(Reserved).state = "committed"
            /\ Commit(Reserved).mode = "reply"
            /\ Commit(Reserved).sequence = nextSequence
        BY SlotFacts, ReservedSlot
      <3>4. StreamSlot'
        BY <3>2, <3>3 DEF StreamSlot
      <3>5. ~Holds(stream.slot) /\ Holds(stream'.slot)
        BY <2>3, <3>2, <3>3, SlotFacts DEF Holds
      <3> QED
        BY <2>1, <3>1, <3>2, <3>3, <3>4, <3>5, StreamChanges
    <2>4. CASE /\ ReserveSlot(Proactive) /\ old = NoSlot
               /\ stream' = Buffer([stream EXCEPT !.pending = <<>>], Proactive, stream.pending)
      <3>1. used' = used /\ nextSequence' = nextSequence
        BY <2>4, ReservedSlot DEF ReserveSlot, permitVars
      <3>2. stream'.slot = Proactive /\ "slot" \in DOMAIN stream'
        BY <1>0, <2>4 DEF Buffer
      <3>3. StreamSlot'
        BY <3>2, SlotFacts DEF StreamSlot
      <3>4. ~Holds(stream.slot) /\ ~Holds(stream'.slot)
        BY <2>4, <3>2, SlotFacts DEF Holds
      <3>5. stream'.slot.sequence = stream.slot.sequence
        BY <2>4, <3>2, SlotFacts
      <3> QED
        BY <2>1, <3>1, <3>3, <3>4, <3>5, StreamChanges
    <2>5. CASE /\ permitVars' = permitVars /\ old.mode = "proactive"
               /\ stream' = Buffer([stream EXCEPT !.pending = <<>>], old, stream.pending)
      <3>1. stream'.slot = stream.slot /\ "slot" \in DOMAIN stream'
        BY <1>0, <2>5 DEF Buffer
      <3> QED
        BY <1>1, <2>1, <2>5, <3>1 DEF permitVars
    <2>6. CASE /\ permitVars' = permitVars /\ old.mode = "reply"
               /\ stream' = [stream EXCEPT !.slot = Commit(old), !.pending = <<>>,
                                !.request = "frame", !.text = stream.pending]
      <3>1. stream'.slot = Commit(old) /\ "slot" \in DOMAIN stream'
        BY <1>0, <2>6
      <3>2. /\ Commit(old) \in Slot /\ Commit(old).state = "committed"
            /\ Commit(old).mode = old.mode /\ Commit(old).sequence = old.sequence
        BY <1>0, SlotFacts
      <3>3. StreamSlot'
        BY <2>6, <3>1, <3>2 DEF StreamSlot
      <3>4. Holds(stream.slot) /\ Holds(stream'.slot)
        BY <1>0, <2>6, <3>1, <3>2 DEF Holds
      <3> QED
        BY <2>1, <2>6, <3>1, <3>2, <3>3, <3>4, StreamChanges DEF permitVars
    <2>7. old.mode \in {"none", "reply", "proactive"} /\ (old # NoSlot => old.mode # "none")
      BY <1>0 DEF Slot
    <2>8. Reserved.mode = "reply" /\ Proactive.mode = "proactive"
      BY SlotFacts, ReservedSlot
    <2> QED
      BY <1>8, <2>2, <2>3, <2>4, <2>5, <2>6, <2>7, <2>8 DEF Flush
  <1>9. CASE FrameAnswered
    <2>1. send' = send /\ nextSequence' = nextSequence
      BY <1>9 DEF FrameAnswered, sendVars
    <2>2. PICK outcome \in Outcomes :
             \/ /\ used' = used
                /\ stream' = [stream EXCEPT !.id = TRUE,
                                  !.accepted = stream.accepted \o stream.text,
                                  !.request = "none", !.text = <<>>, !.queued = @ - 1]
             \/ /\ FallsBack(stream.slot, outcome) /\ Release(stream.slot)
                /\ stream' = Buffer(stream, Fallen(stream.slot), stream.text)
             \/ /\ used' = used
                /\ stream' = FlushFails(stream, FailureOf(outcome))
      BY <1>9 DEF FrameAnswered
    <2>3. CASE /\ used' = used
               /\ \/ stream' = [stream EXCEPT !.id = TRUE,
                                   !.accepted = stream.accepted \o stream.text,
                                   !.request = "none", !.text = <<>>, !.queued = @ - 1]
                  \/ stream' = FlushFails(stream, FailureOf(outcome))
      BY <1>0, <1>1, <2>1, <2>3 DEF FlushFails
    <2>4. CASE /\ FallsBack(stream.slot, outcome) /\ Release(stream.slot)
               /\ stream' = Buffer(stream, Fallen(stream.slot), stream.text)
      <3>1. stream.slot.mode = "reply" /\ stream.slot.state = "committed" /\ used' = used
        BY <1>0, <2>4 DEF FallsBack, Release
      <3>2. stream'.slot = Fallen(stream.slot) /\ "slot" \in DOMAIN stream'
        BY <1>0, <2>4 DEF Buffer
      <3>3. /\ Fallen(stream.slot) \in Slot /\ Fallen(stream.slot).state = "committed"
            /\ Fallen(stream.slot).mode = "proactive"
            /\ Fallen(stream.slot).sequence = stream.slot.sequence
        BY <1>0, <3>1, SlotFacts
      <3>4. StreamSlot'
        BY <3>2, <3>3 DEF StreamSlot
      <3>5. Holds(stream.slot) /\ Holds(stream'.slot)
        BY <3>1, <3>2, <3>3 DEF Holds
      <3> QED
        BY <2>1, <3>1, <3>2, <3>3, <3>4, <3>5, StreamChanges
    <2> QED
      BY <2>2, <2>3, <2>4
  <1>10. CASE AppendText \/ FlushTimer
    BY <1>0, <1>1, <1>10 DEF AppendText, FlushTimer, permitVars, sendVars
  <1>11. ASSUME NEW interrupt \in BOOLEAN, CloseStream(interrupt)
         PROVE  PermitInv'
    <2>1. /\ Close(stream, interrupt).slot = stream.slot
          /\ "slot" \in DOMAIN Close(stream, interrupt)
      BY <1>0 DEF Close
    <2> QED
      BY <1>1, <1>11, <2>1 DEF CloseStream, permitVars, sendVars
  <1>12. CASE CloseRuns
    <2>1. stream'.slot = stream.slot /\ "slot" \in DOMAIN stream'
      BY <1>0, <1>12 DEF CloseRuns, Closes
    <2> QED
      BY <1>1, <1>12, <2>1 DEF CloseRuns, permitVars, sendVars
  <1>13. CASE PlainAnswered
    <2>1. stream'.slot = stream.slot /\ "slot" \in DOMAIN stream'
      BY <1>0, <1>13 DEF PlainAnswered, Closes
    <2> QED
      BY <1>1, <1>13, <2>1 DEF PlainAnswered, permitVars, sendVars
  <1>14. CASE FinalAnswered
    <2>1. stream'.slot = stream.slot /\ "slot" \in DOMAIN stream'
      BY <1>0, <1>14 DEF FinalAnswered, Closes
    <2> QED
      BY <1>1, <1>14, <2>1 DEF FinalAnswered, permitVars, sendVars
  <1>15. CASE PermitExpires \/ TurnCancelled \/ UNCHANGED officialVars
    BY <1>0, <1>1, <1>15
       DEF PermitExpires, TurnCancelled, officialVars, permitVars, sendVars, streamVars
  <1> QED
    BY <1>2, <1>3, <1>5, <1>6, <1>7, <1>8, <1>9, <1>10, <1>11, <1>12, <1>13, <1>14, <1>15
       DEF OfficialNext

\* The budget of the permit counts exactly the slots that are held, and no two
\* messages go out under one sequence number (replyPermit.ts, deliveryPolicy.ts).
THEOREM BudgetIsExact == OfficialSpec => []BudgetCountsHeldSlots
  <1>1. PermitInv => BudgetCountsHeldSlots
    <2> SUFFICES ASSUME PermitInv PROVE BudgetCountsHeldSlots
      OBVIOUS
    <2>1. \A s \in Sends : Holds(send[s].slot) =>
             /\ \A q \in Sends \ {s} : send[s].slot.sequence # send[q].slot.sequence
             /\ send[s].slot.sequence # stream.slot.sequence
      BY DEF PermitInv, Sequences
    <2> QED
      BY <2>1 DEF PermitInv, BudgetCountsHeldSlots, HeldSends, HeldByStream
  <1> QED
    BY <1>1, PermitInitInv, PermitNextInv, PTL DEF OfficialSpec

ShownInv == inChat \in [Sends -> Nat] /\ NothingIsShownTwice

LEMMA ShownNextInv ==
    PermitInv /\ ShownInv /\ [OfficialNext]_officialVars => ShownInv'
  <1> SUFFICES ASSUME PermitInv, ShownInv, [OfficialNext]_officialVars
               PROVE  ShownInv'
    OBVIOUS
  <1>0. send \in [Sends -> Send] /\ inChat \in [Sends -> Nat]
    BY DEF PermitInv, ShownInv
  <1>1. \A s \in Sends :
           /\ inChat[s] \in Nat /\ inChat[s] <= 1
           /\ send[s].at = "accepted" => inChat[s] = 1
           /\ send[s].at \in {"idle", "uploading", "posting", "rejected"} => inChat[s] = 0
    BY DEF ShownInv, NothingIsShownTwice
  <1>b. ASSUME NEW s \in Sends, NEW at, NEW slot, Becomes(s, at, slot)
        PROVE  send' = [send EXCEPT ![s] = [at |-> at, kind |-> send[s].kind, slot |-> slot]]
    BY <1>b, SendBecomes
  <1>2. CASE send' = send /\ inChat' = inChat
    BY <1>0, <1>1, <1>2 DEF ShownInv, NothingIsShownTwice
  \* A send whose answer is not known to be there, and that has none so far.
  <1>3. ASSUME NEW s \in Sends, send[s].at \in {"idle", "uploading"}, inChat' = inChat,
               NEW x, send' = [send EXCEPT ![s] = x],
               x.at \in {"uploading", "posting", "rejected", "unknown"}
        PROVE  ShownInv'
    <2>1. send'[s] = x /\ (\A q \in Sends \ {s} : send'[q] = send[q])
      BY <1>0, <1>3
    <2>2. inChat[s] = 0
      BY <1>1, <1>3
    <2>3. \A q \in Sends :
             /\ inChat[q] <= 1
             /\ send'[q].at = "accepted" => inChat[q] = 1
             /\ send'[q].at \in {"idle", "uploading", "posting", "rejected"} => inChat[q] = 0
      BY <1>1, <1>3, <2>1, <2>2
    <2> QED
      BY <1>0, <1>3, <2>3 DEF ShownInv, NothingIsShownTwice
  <1>4. ASSUME NEW s \in Sends, SendText(s)
        PROVE  ShownInv'
    <2>1. send[s].at = "idle" /\ inChat' = inChat
      BY <1>4 DEF SendText
    <2>2. PICK at \in {"posting", "rejected"} : \E slot : Begins(s, "text", at, slot)
      BY <1>4 DEF SendText, Refused
    <2>3. PICK slot : Begins(s, "text", at, slot)
      BY <2>2
    <2> QED
      BY <2>1, <2>3, <1>3 DEF Begins
  <1>5. ASSUME NEW s \in Sends, SendMedia(s)
        PROVE  ShownInv'
    <2>1. send[s].at = "idle" /\ inChat' = inChat
      BY <1>5 DEF SendMedia
    <2>2. PICK at \in {"uploading", "rejected"} : \E slot : Begins(s, "media", at, slot)
      BY <1>5 DEF SendMedia, Refused
    <2>3. PICK slot : Begins(s, "media", at, slot)
      BY <2>2
    <2> QED
      BY <2>1, <2>3, <1>3 DEF Begins
  <1>6. ASSUME NEW s \in Sends, UploadEnds(s) \/ UploadFails(s)
        PROVE  ShownInv'
    <2>1. send[s].at = "uploading" /\ inChat' = inChat
      BY <1>6 DEF UploadEnds, UploadFails
    <2>2. PICK at \in {"posting", "rejected", "unknown"} : \E slot : Becomes(s, at, slot)
      BY <1>6 DEF UploadEnds, UploadFails, PostProactive, Failures
    <2>3. PICK slot : Becomes(s, at, slot)
      BY <2>2
    <2> QED
      BY <2>1, <2>3, <1>3, <1>b
  <1>7. ASSUME NEW s \in Sends, SendAnswered(s)
        PROVE  ShownInv'
    <2>1. inChat[s] = 0
      BY <1>1, <1>7 DEF SendAnswered
    <2>2. PICK outcome \in Outcomes, arrived \in BOOLEAN :
             /\ arrived => outcome \in {"accepted", "unknown"}
             /\ outcome = "accepted" => arrived
             /\ inChat' = IF arrived THEN [inChat EXCEPT ![s] = @ + 1] ELSE inChat
             /\ \/ outcome = "accepted" /\ Becomes(s, "accepted", send[s].slot)
                \/ /\ FallsBack(send[s].slot, outcome)
                   /\ PostProactive(s, Fallen(send[s].slot))
                \/ outcome # "accepted" /\ Becomes(s, FailureOf(outcome), send[s].slot)
      BY <1>7 DEF SendAnswered
    <2>3. PICK at \in {"accepted", "posting", "rejected", "unknown"} :
             /\ \E slot : Becomes(s, at, slot)
             /\ at = "accepted" => arrived
             /\ at \in {"posting", "rejected"} => ~arrived
      BY <2>2 DEF FallsBack, PostProactive, FailureOf
    <2>4. /\ inChat' \in [Sends -> Nat]
          /\ inChat'[s] = IF arrived THEN 1 ELSE 0
          /\ \A q \in Sends \ {s} : inChat'[q] = inChat[q]
      BY <1>0, <2>1, <2>2
    <2>5. send'[s].at = at /\ (\A q \in Sends \ {s} : send'[q] = send[q])
      BY <1>0, <2>3, <1>b
    <2>6. \A q \in Sends :
             /\ inChat'[q] <= 1
             /\ send'[q].at = "accepted" => inChat'[q] = 1
             /\ send'[q].at \in {"idle", "uploading", "posting", "rejected"} => inChat'[q] = 0
      BY <1>1, <2>3, <2>4, <2>5
    <2> QED
      BY <2>4, <2>6 DEF ShownInv, NothingIsShownTwice
  <1> QED
    BY <1>2, <1>4, <1>5, <1>6, <1>7
       DEF OfficialNext, PermitExpires, TurnCancelled, AppendText, FlushTimer, Flush,
           FrameAnswered, CloseStream, CloseRuns, PlainAnswered, FinalAnswered,
           officialVars, sendVars

\* No message comes to the chat twice, and what its caller is told of it is true
\* (client.ts, deliveryPolicy.ts).
THEOREM MessagesAreShownOnce == OfficialSpec => []NothingIsShownTwice
  <1>1. OfficialInit => ShownInv
    BY DEF OfficialInit, ShownInv, NothingIsShownTwice
  <1>2. ShownInv => NothingIsShownTwice
    BY DEF ShownInv
  <1> QED
    BY <1>1, <1>2, PermitInitInv, PermitNextInv, ShownNextInv, PTL DEF OfficialSpec

-----------------------------------------------------------------------------
(* The text stream, for any number of fragments: what the chat shows of what  *)
(* was said.                                                                 *)
(*                                                                           *)
(* That it is a beginning of it, and all of it in the end, needs where every  *)
(* piece is in between: accepted, under way, buffered or pending, in this     *)
(* order, as long as nothing was given up (StreamWhole), and which of the two *)
(* messages may show it (StreamShown).                                       *)

\* What the request that is out adds to the stream message when it is accepted.
InFlight(st) == IF st.request = "frame" THEN st.text ELSE <<>>

\* Where the stream is in its life: what is under way, and what ended it.
StreamLife(st) ==
    /\ st.state = "open" => st.closing = "no" /\ st.failure = "none" /\ ~st.interrupted
    /\ st.state = "sealed" => st.closing = "done"
    /\ st.closing # "no" => ~st.timer
    /\ st.closing = "done" => st.request = "none" /\ st.queued = 0
    /\ st.request = "frame" =>
          st.queued > 0 /\ st.failure = "none" /\ st.slot.mode = "reply"
    /\ st.request \in {"plain", "final"} =>
          st.closing = "yes" /\ st.queued = 0 /\ st.failure = "none"
    /\ st.request = "plain" => st.slot.mode = "proactive"
    /\ st.request = "final" => st.id
    /\ st.id => st.slot.mode = "reply"

\* What was said and what the stream holds of it, while nothing of it was given up:
\* accepted, under way, buffered, pending; and pending text has a flush to come.
StreamWhole(st, words) ==
    /\ st.failure = "none" /\ ~st.interrupted /\ st.closing # "done" =>
          /\ words = ((st.accepted \o InFlight(st)) \o st.buffered) \o st.pending
          /\ st.pending # <<>> =>
                st.timer \/ st.queued > (IF st.request = "frame" THEN 1 ELSE 0)
    /\ st.request = "plain" => st.text = words
    /\ (st.request = "final" \/ st.state = "sealed") /\ ~st.interrupted => st.accepted = words

\* What the chat shows: in the stream message while the stream has its slot, in
\* one proactive message after its end when it has none.
StreamShown(st, words, framed, plain) ==
    /\ st.slot.mode # "proactive" =>
          /\ st.buffered = <<>> /\ plain = <<>>
          /\ IsPrefix(st.accepted, framed) /\ IsPrefix(framed, words)
          /\ st.failure = "none" => framed = st.accepted
          /\ IsPrefix(st.accepted \o InFlight(st), words)
    /\ st.slot.mode = "proactive" =>
          /\ framed = <<>> /\ IsPrefix(st.accepted, plain) /\ IsPrefix(plain, words)
          /\ st.closing # "done" => plain = <<>>
    /\ ~st.id /\ st.closing # "done" => st.accepted = <<>>

Streaming(st, words, framed, plain) ==
    /\ st \in Stream /\ words \in Seq(Fragments)
    /\ framed \in Seq(Fragments) /\ plain \in Seq(Fragments)
    /\ StreamLife(st) /\ StreamWhole(st, words) /\ StreamShown(st, words, framed, plain)

LEMMA Joins ==
    ASSUME NEW S, NEW s \in Seq(S), NEW t \in Seq(S)
    PROVE  /\ <<>> \in Seq(S) /\ s \o t \in Seq(S)
           /\ <<>> \o s = s /\ s \o <<>> = s
           /\ s \o t = <<>> <=> s = <<>> /\ t = <<>>
  BY ConcatProperties, ConcatEmptySeq, ConcatEqualIffEmpty, EmptySeq

LEMMA PrefixFacts ==
    ASSUME NEW S, NEW s \in Seq(S), NEW t \in Seq(S)
    PROVE  IsPrefix(s, s) /\ IsPrefix(<<>>, s) /\ IsPrefix(s, s \o t)
  <1>1. IsPrefix(s, s)
    BY LenProperties DEF IsPrefix
  <1>2. IsPrefix(<<>>, s)
    <2>1. Len(<<>>) = 0 /\ <<>> \in Seq(S)
      BY EmptySeq
    <2>2. SubSeq(<<>>, 1, 0) = <<>> /\ SubSeq(s, 1, 0) = <<>>
      BY <2>1, SubSeqEmpty
    <2>3. QED
      BY <2>1, <2>2, LenProperties DEF IsPrefix
  <1>3. IsPrefix(s, s \o t)
    <2>1. /\ s \o t \in Seq(S) /\ Len(s \o t) = Len(s) + Len(t)
          /\ Len(s) \in Nat /\ Len(t) \in Nat
      BY ConcatProperties, LenProperties
    <2>2. SubSeq(s \o t, 1, Len(s)) = SubSeq(s, 1, Len(s))
      BY <2>1, SubSeqFull, ConcatSimplifications, SubSeqOfConcat1
    <2>3. QED
      BY <2>1, <2>2 DEF IsPrefix
  <1>4. QED
    BY <1>1, <1>2, <1>3

\* What is a beginning stays one when more follows.
LEMMA PrefixGrows ==
    ASSUME NEW S, NEW s \in Seq(S), NEW t \in Seq(S), NEW u \in Seq(S), IsPrefix(s, t)
    PROVE  IsPrefix(s, t \o u)
  <1>1. /\ t \o u \in Seq(S) /\ Len(t \o u) = Len(t) + Len(u)
        /\ Len(s) \in Nat /\ Len(t) \in Nat /\ Len(u) \in Nat /\ Len(s) <= Len(t)
    BY ConcatProperties, LenProperties DEF IsPrefix
  <1>2. SubSeq(t \o u, 1, Len(s)) = SubSeq(t, 1, Len(s))
    BY <1>1, SubSeqOfConcat1
  <1>3. QED
    BY <1>1, <1>2 DEF IsPrefix

LEMMA StreamStarts ==
    OfficialInit => Streaming(stream, said, streamChat, plainChat) /\ stopped = stream.interrupted
  <1> SUFFICES ASSUME OfficialInit
               PROVE  Streaming(stream, said, streamChat, plainChat)
                      /\ stopped = stream.interrupted
    OBVIOUS
  <1>1. <<>> \in Seq(Fragments) /\ <<>> \o <<>> = <<>> /\ IsPrefix(<<>>, <<>>)
    BY EmptySeq, Joins, PrefixFacts
  <1>2. /\ stream.state = "open" /\ stream.closing = "no" /\ stream.failure = "none"
        /\ stream.request = "none" /\ ~stream.interrupted /\ ~stream.timer /\ ~stream.id
        /\ stream.accepted = <<>> /\ stream.text = <<>> /\ stream.buffered = <<>>
        /\ stream.pending = <<>> /\ stream.slot.mode = "none"
        /\ said = <<>> /\ streamChat = <<>> /\ plainChat = <<>> /\ ~stopped
    BY DEF OfficialInit, NoSlot
  <1>3. stream \in Stream
    BY <1>1 DEF OfficialInit, Stream, Slot, NoSlot
  <1>4. InFlight(stream) = <<>>
    BY <1>2 DEF InFlight
  <1>5. StreamLife(stream)
    BY <1>2 DEF StreamLife
  <1>6. StreamWhole(stream, said)
    BY <1>1, <1>2, <1>4 DEF StreamWhole
  <1>7. StreamShown(stream, said, streamChat, plainChat)
    BY <1>1, <1>2, <1>4 DEF StreamShown
  <1>8. stopped = stream.interrupted
    BY DEF OfficialInit
  <1>9. QED
    BY <1>1, <1>2, <1>3, <1>5, <1>6, <1>7, <1>8 DEF Streaming

\* A flush that fails forgets what it was to send.
LEMMA FlushFailsStream ==
    ASSUME NEW st, NEW words, NEW framed, NEW plain, Streaming(st, words, framed, plain),
           NEW kind \in Failures, st.queued > 0, NEW seen,
           seen = framed \/ (st.request = "frame" /\ seen = st.accepted \o st.text)
    PROVE  Streaming(FlushFails(st, kind), words, seen, plain)
  <1> DEFINE g == FlushFails(st, kind)
  <1>0. /\ st \in Stream /\ words \in Seq(Fragments) /\ framed \in Seq(Fragments)
        /\ plain \in Seq(Fragments)
        /\ StreamLife(st) /\ StreamWhole(st, words) /\ StreamShown(st, words, framed, plain)
    BY DEF Streaming
  <1>1. /\ st.queued \in Nat /\ st.queued - 1 \in Nat /\ <<>> \in Seq(Fragments)
        /\ st.accepted \in Seq(Fragments) /\ st.text \in Seq(Fragments)
    BY <1>0, EmptySeq DEF Stream
  <1>2. /\ g \in Stream /\ g.failure = kind /\ kind # "none"
        /\ g.pending = <<>> /\ g.request = "none"
        /\ g.text = <<>> /\ g.state \in {"failed", "closure_unknown"}
        /\ g.closing = st.closing /\ g.timer = st.timer /\ g.slot = st.slot /\ g.id = st.id
        /\ g.interrupted = st.interrupted /\ g.accepted = st.accepted
        /\ g.buffered = st.buffered
    BY <1>0, <1>1 DEF FlushFails, Stream, Failures
  <1>3. st.closing # "done" /\ st.request \in {"none", "frame"}
    BY <1>0, <1>1 DEF StreamLife, Stream
  <1> HIDE DEF g
  <1>4. StreamLife(g)
    BY <1>0, <1>2, <1>3 DEF StreamLife
  <1>5. StreamWhole(g, words)
    BY <1>2 DEF StreamWhole
  <1>6. /\ InFlight(g) = <<>> /\ st.accepted \o <<>> = st.accepted
        /\ st.accepted \o st.text \in Seq(Fragments)
        /\ IsPrefix(st.accepted, st.accepted) /\ IsPrefix(st.accepted, st.accepted \o st.text)
    BY <1>1, <1>2, Joins, PrefixFacts DEF InFlight
  <1>7. seen \in Seq(Fragments)
    BY <1>0, <1>6
  <1>8. StreamShown(g, words, seen, plain)
    <2>1. CASE st.request = "frame"
      <3>1. /\ st.slot.mode = "reply" /\ st.failure = "none" /\ InFlight(st) = st.text
        BY <1>0, <2>1 DEF StreamLife, InFlight
      <3>2. /\ st.buffered = <<>> /\ plain = <<>> /\ framed = st.accepted
            /\ IsPrefix(framed, words) /\ IsPrefix(st.accepted \o st.text, words)
            /\ ~st.id => st.accepted = <<>>
        BY <1>0, <1>3, <3>1 DEF StreamShown
      <3>3. IsPrefix(st.accepted, seen) /\ IsPrefix(seen, words)
        BY <1>6, <3>2
      <3>4. QED
        BY <1>2, <1>3, <1>6, <3>1, <3>2, <3>3 DEF StreamShown
    <2>2. CASE st.request = "none"
      <3>1. InFlight(st) = <<>> /\ seen = framed
        BY <2>2 DEF InFlight
      <3>2. QED
        BY <1>0, <1>2, <1>3, <1>6, <3>1 DEF StreamShown
    <2>3. QED
      BY <1>3, <2>1, <2>2
  <1>9. QED
    BY <1>0, <1>2, <1>4, <1>5, <1>7, <1>8 DEF Streaming, g

\* A flush without a reply to go to buffers what is pending.
LEMMA BufferPending ==
    ASSUME NEW st, NEW words, NEW framed, NEW plain, Streaming(st, words, framed, plain),
           st.queued > 0, st.request = "none", st.failure = "none", ~st.interrupted,
           st.slot.mode # "reply", NEW slot \in Slot, slot.mode = "proactive"
    PROVE  Streaming(Buffer([st EXCEPT !.pending = <<>>], slot, st.pending),
                     words, framed, plain)
  <1> DEFINE g == Buffer([st EXCEPT !.pending = <<>>], slot, st.pending)
  <1>0. /\ st \in Stream /\ words \in Seq(Fragments) /\ framed \in Seq(Fragments)
        /\ plain \in Seq(Fragments)
        /\ StreamLife(st) /\ StreamWhole(st, words) /\ StreamShown(st, words, framed, plain)
    BY DEF Streaming
  <1>1. /\ st.queued \in Nat /\ st.queued - 1 \in Nat /\ <<>> \in Seq(Fragments)
        /\ st.accepted \in Seq(Fragments) /\ st.buffered \in Seq(Fragments)
        /\ st.pending \in Seq(Fragments) /\ st.buffered \o st.pending \in Seq(Fragments)
    BY <1>0, EmptySeq, ConcatProperties DEF Stream
  <1>2. /\ g \in Stream /\ g.pending = <<>> /\ g.request = "none" /\ g.text = <<>>
        /\ g.buffered = st.buffered \o st.pending /\ g.slot = slot
        /\ g.state = st.state /\ g.failure = st.failure
        /\ g.closing = st.closing /\ g.timer = st.timer /\ g.id = st.id
        /\ g.interrupted = st.interrupted /\ g.accepted = st.accepted
    BY <1>0, <1>1 DEF Buffer, Stream
  <1>3. st.closing # "done" /\ ~st.id /\ st.state # "sealed"
    BY <1>0, <1>1 DEF StreamLife, Stream
  <1> HIDE DEF g
  <1>4. StreamLife(g)
    BY <1>0, <1>2, <1>3 DEF StreamLife
  <1>5. /\ InFlight(g) = <<>> /\ InFlight(st) = <<>> /\ st.accepted = <<>>
        /\ framed = <<>> /\ plain = <<>>
    BY <1>0, <1>2, <1>3 DEF InFlight, StreamShown
  <1>6. words = g.buffered
    <2>1. words = ((<<>> \o <<>>) \o st.buffered) \o st.pending
      BY <1>0, <1>3, <1>5 DEF StreamWhole
    <2>2. QED
      BY <1>1, <1>2, <2>1, Joins
  <1>7. StreamWhole(g, words)
    <2>1. ((<<>> \o <<>>) \o g.buffered) \o <<>> = g.buffered
      BY <1>1, <1>2, Joins
    <2>2. QED
      BY <1>2, <1>3, <1>5, <1>6, <2>1 DEF StreamWhole
  <1>8. StreamShown(g, words, framed, plain)
    BY <1>0, <1>1, <1>2, <1>5, PrefixFacts DEF StreamShown
  <1>9. QED
    BY <1>0, <1>2, <1>4, <1>7, <1>8 DEF Streaming, g

\* A first frame that was refused is buffered for a proactive message.
LEMMA BufferFrame ==
    ASSUME NEW st, NEW words, NEW framed, NEW plain, Streaming(st, words, framed, plain),
           st.request = "frame", ~st.id, ~st.interrupted,
           NEW slot \in Slot, slot.mode = "proactive"
    PROVE  Streaming(Buffer(st, slot, st.text), words, framed, plain)
  <1> DEFINE g == Buffer(st, slot, st.text)
  <1>0. /\ st \in Stream /\ words \in Seq(Fragments) /\ framed \in Seq(Fragments)
        /\ plain \in Seq(Fragments)
        /\ StreamLife(st) /\ StreamWhole(st, words) /\ StreamShown(st, words, framed, plain)
    BY DEF Streaming
  <1>1. /\ st.queued \in Nat /\ st.queued > 0 /\ st.queued - 1 \in Nat
        /\ st.accepted \in Seq(Fragments) /\ st.buffered \in Seq(Fragments)
        /\ st.text \in Seq(Fragments) /\ st.buffered \o st.text \in Seq(Fragments)
        /\ st.pending \in Seq(Fragments) /\ <<>> \in Seq(Fragments)
    BY <1>0, ConcatProperties, EmptySeq DEF Stream, StreamLife
  <1>2. /\ g \in Stream /\ g.pending = st.pending /\ g.request = "none" /\ g.text = <<>>
        /\ g.buffered = st.buffered \o st.text /\ g.slot = slot
        /\ g.state = st.state /\ g.failure = st.failure
        /\ g.closing = st.closing /\ g.timer = st.timer /\ g.id = st.id
        /\ g.interrupted = st.interrupted /\ g.accepted = st.accepted
        /\ g.queued = st.queued - 1
    BY <1>0, <1>1 DEF Buffer, Stream
  <1>3. /\ st.closing # "done" /\ st.state # "sealed" /\ st.failure = "none"
        /\ st.slot.mode = "reply"
    BY <1>0, <1>1 DEF StreamLife
  <1> HIDE DEF g
  <1>4. StreamLife(g)
    BY <1>0, <1>2, <1>3 DEF StreamLife
  <1>5. /\ InFlight(g) = <<>> /\ InFlight(st) = st.text
        /\ st.accepted = <<>> /\ framed = <<>> /\ plain = <<>> /\ st.buffered = <<>>
    BY <1>0, <1>2, <1>3 DEF InFlight, StreamShown
  <1>6. words = g.buffered \o g.pending
    <2>1. words = ((<<>> \o st.text) \o <<>>) \o st.pending
      BY <1>0, <1>3, <1>5 DEF StreamWhole
    <2>2. (<<>> \o st.text) \o <<>> = st.text /\ g.buffered = st.text
      BY <1>1, <1>2, <1>5, Joins
    <2>3. QED
      BY <1>2, <2>1, <2>2
  <1>7. StreamWhole(g, words)
    <2>1. (<<>> \o <<>>) \o g.buffered = g.buffered
      BY <1>1, <1>2, Joins
    <2>2. st.pending # <<>> => st.timer \/ st.queued > 1
      BY <1>0, <1>3 DEF StreamWhole
    <2>3. g.pending # <<>> => g.timer \/ g.queued > 0
      BY <1>1, <1>2, <2>2
    <2>4. QED
      BY <1>2, <1>3, <1>5, <1>6, <2>1, <2>3 DEF StreamWhole
  <1>8. StreamShown(g, words, framed, plain)
    BY <1>0, <1>1, <1>2, <1>5, PrefixFacts DEF StreamShown
  <1>9. QED
    BY <1>0, <1>2, <1>4, <1>7, <1>8 DEF Streaming, g

\* A flush that sends a frame.
LEMMA FrameGoes ==
    ASSUME NEW st, NEW words, NEW framed, NEW plain, Streaming(st, words, framed, plain),
           st.queued > 0, st.request = "none", st.failure = "none", ~st.interrupted,
           st.slot.mode # "proactive", NEW slot \in Slot, slot.mode = "reply"
    PROVE  Streaming([st EXCEPT !.slot = slot, !.pending = <<>>, !.request = "frame",
                                !.text = st.pending], words, framed, plain)
  <1> DEFINE g == [st EXCEPT !.slot = slot, !.pending = <<>>, !.request = "frame",
                             !.text = st.pending]
  <1>0. /\ st \in Stream /\ words \in Seq(Fragments) /\ framed \in Seq(Fragments)
        /\ plain \in Seq(Fragments)
        /\ StreamLife(st) /\ StreamWhole(st, words) /\ StreamShown(st, words, framed, plain)
    BY DEF Streaming
  <1>1. /\ st.accepted \in Seq(Fragments) /\ st.pending \in Seq(Fragments)
        /\ <<>> \in Seq(Fragments) /\ st.queued \in Nat
        /\ st.accepted \o st.pending \in Seq(Fragments)
    BY <1>0, EmptySeq, ConcatProperties DEF Stream
  <1>2. /\ g \in Stream /\ g.pending = <<>> /\ g.request = "frame" /\ g.text = st.pending
        /\ g.buffered = st.buffered /\ g.slot = slot
        /\ g.state = st.state /\ g.failure = st.failure
        /\ g.closing = st.closing /\ g.timer = st.timer /\ g.id = st.id
        /\ g.interrupted = st.interrupted /\ g.accepted = st.accepted
        /\ g.queued = st.queued
    BY <1>0, <1>1 DEF Stream
  <1>3. st.closing # "done" /\ st.state # "sealed"
    BY <1>0, <1>1 DEF StreamLife
  <1> HIDE DEF g
  <1>4. StreamLife(g)
    BY <1>0, <1>2, <1>3 DEF StreamLife
  <1>5. /\ InFlight(g) = st.pending /\ InFlight(st) = <<>>
        /\ plain = <<>> /\ st.buffered = <<>> /\ framed = st.accepted
    BY <1>0, <1>2 DEF InFlight, StreamShown
  <1>6. words = st.accepted \o st.pending
    <2>1. words = ((st.accepted \o <<>>) \o <<>>) \o st.pending
      BY <1>0, <1>3, <1>5 DEF StreamWhole
    <2>2. QED
      BY <1>1, <2>1, Joins
  <1>7. StreamWhole(g, words)
    <2>1. ((st.accepted \o st.pending) \o <<>>) \o <<>> = st.accepted \o st.pending
      BY <1>1, Joins
    <2>2. QED
      BY <1>2, <1>3, <1>5, <1>6, <2>1 DEF StreamWhole
  <1>8. StreamShown(g, words, framed, plain)
    <2>1. IsPrefix(st.accepted \o st.pending, words)
      BY <1>1, <1>6, PrefixFacts
    <2>2. QED
      BY <1>0, <1>2, <1>5, <2>1 DEF StreamShown
  <1>9. QED
    BY <1>0, <1>2, <1>4, <1>7, <1>8 DEF Streaming, g

LEMMA FrameAccepted ==
    ASSUME NEW st, NEW words, NEW framed, NEW plain, Streaming(st, words, framed, plain),
           st.request = "frame"
    PROVE  Streaming([st EXCEPT !.id = TRUE, !.accepted = st.accepted \o st.text,
                                !.request = "none", !.text = <<>>, !.queued = @ - 1],
                     words, st.accepted \o st.text, plain)
  <1> DEFINE full == st.accepted \o st.text
             g == [st EXCEPT !.id = TRUE, !.accepted = full,
                             !.request = "none", !.text = <<>>, !.queued = @ - 1]
  <1>0. /\ st \in Stream /\ words \in Seq(Fragments) /\ framed \in Seq(Fragments)
        /\ plain \in Seq(Fragments)
        /\ StreamLife(st) /\ StreamWhole(st, words) /\ StreamShown(st, words, framed, plain)
    BY DEF Streaming
  <1>1. /\ st.accepted \in Seq(Fragments) /\ st.text \in Seq(Fragments)
        /\ <<>> \in Seq(Fragments) /\ st.queued \in Nat /\ st.queued > 0
        /\ st.queued - 1 \in Nat /\ full \in Seq(Fragments)
        /\ st.pending \in Seq(Fragments)
    BY <1>0, EmptySeq, ConcatProperties DEF Stream, StreamLife
  <1>2. /\ g \in Stream /\ g.pending = st.pending /\ g.request = "none" /\ g.text = <<>>
        /\ g.buffered = st.buffered /\ g.slot = st.slot
        /\ g.state = st.state /\ g.failure = st.failure
        /\ g.closing = st.closing /\ g.timer = st.timer /\ g.id = TRUE
        /\ g.interrupted = st.interrupted /\ g.accepted = full
        /\ g.queued = st.queued - 1
    BY <1>0, <1>1 DEF Stream
  <1>3. /\ st.closing # "done" /\ st.state # "sealed" /\ st.failure = "none"
        /\ st.slot.mode = "reply"
    BY <1>0, <1>1 DEF StreamLife
  <1> HIDE DEF g
  <1>4. StreamLife(g)
    BY <1>0, <1>2, <1>3 DEF StreamLife
  <1>5. /\ InFlight(g) = <<>> /\ InFlight(st) = st.text
        /\ plain = <<>> /\ st.buffered = <<>> /\ IsPrefix(full, words)
    BY <1>0, <1>2, <1>3 DEF InFlight, StreamShown
  <1>6. full \o <<>> = full
    BY <1>1, Joins
  <1> HIDE DEF full
  <1>7. StreamWhole(g, words)
    <2>1. ~st.interrupted => words = (full \o <<>>) \o st.pending
      BY <1>0, <1>3, <1>5 DEF StreamWhole, full
    <2>2. ~st.interrupted /\ st.pending # <<>> => st.timer \/ st.queued > 1
      BY <1>0, <1>3 DEF StreamWhole
    <2>3. ~st.interrupted /\ g.pending # <<>> => g.timer \/ g.queued > 0
      BY <1>1, <1>2, <2>2
    <2>4. QED
      BY <1>2, <1>3, <1>5, <1>6, <2>1, <2>3 DEF StreamWhole
  <1>8. StreamShown(g, words, full, plain)
    BY <1>1, <1>2, <1>3, <1>5, <1>6, PrefixFacts DEF StreamShown
  <1>9. QED
    BY <1>0, <1>1, <1>2, <1>4, <1>7, <1>8 DEF Streaming, g, full

\* More is said.
LEMMA StreamTakes ==
    ASSUME NEW st, NEW words, NEW framed, NEW plain, Streaming(st, words, framed, plain),
           st.state = "open", NEW x \in Fragments
    PROVE  Streaming([st EXCEPT !.pending = Append(@, x), !.timer = TRUE],
                     Append(words, x), framed, plain)
  <1> DEFINE g == [st EXCEPT !.pending = Append(@, x), !.timer = TRUE]
             more == Append(words, x)
  <1>0. /\ st \in Stream /\ words \in Seq(Fragments) /\ framed \in Seq(Fragments)
        /\ plain \in Seq(Fragments)
        /\ StreamLife(st) /\ StreamWhole(st, words) /\ StreamShown(st, words, framed, plain)
    BY DEF Streaming
  <1>1. /\ st.accepted \in Seq(Fragments) /\ st.text \in Seq(Fragments)
        /\ st.buffered \in Seq(Fragments) /\ st.pending \in Seq(Fragments)
        /\ <<x>> \in Seq(Fragments) /\ <<>> \in Seq(Fragments)
        /\ Append(st.pending, x) \in Seq(Fragments) /\ more \in Seq(Fragments)
    BY <1>0, EmptySeq, AppendProperties DEF Stream
  <1>2. /\ g \in Stream /\ g.pending = Append(st.pending, x) /\ g.request = st.request
        /\ g.text = st.text /\ g.buffered = st.buffered /\ g.slot = st.slot
        /\ g.state = st.state /\ g.failure = st.failure
        /\ g.closing = st.closing /\ g.timer = TRUE /\ g.id = st.id
        /\ g.interrupted = st.interrupted /\ g.accepted = st.accepted
        /\ g.queued = st.queued
    BY <1>0, <1>1 DEF Stream
  <1>3. /\ st.closing = "no" /\ st.failure = "none" /\ ~st.interrupted
        /\ st.request \notin {"plain", "final"}
    BY <1>0 DEF StreamLife
  <1> HIDE DEF g
  <1>4. StreamLife(g)
    BY <1>0, <1>2, <1>3 DEF StreamLife
  <1>5. /\ InFlight(g) = InFlight(st) /\ InFlight(g) \in Seq(Fragments)
        /\ st.accepted \o InFlight(st) \in Seq(Fragments)
        /\ (st.accepted \o InFlight(st)) \o st.buffered \in Seq(Fragments)
    BY <1>1, <1>2, Joins DEF InFlight
  <1>6. more = words \o <<x>> /\ Append(st.pending, x) = st.pending \o <<x>>
    BY <1>0, <1>1, AppendIsConcat
  <1>7. \A s \in Seq(Fragments) : IsPrefix(s, words) => IsPrefix(s, more)
    BY <1>0, <1>1, <1>6, PrefixGrows
  <1>8. StreamWhole(g, more)
    <2>1. words = ((st.accepted \o InFlight(st)) \o st.buffered) \o st.pending
      BY <1>0, <1>3 DEF StreamWhole
    <2> DEFINE sent == (st.accepted \o InFlight(st)) \o st.buffered
    <2> HIDE DEF sent
    <2>a. sent \in Seq(Fragments) /\ words = sent \o st.pending
      BY <1>5, <2>1 DEF sent
    <2>b. \A s, r \in Seq(Fragments) : (sent \o s) \o r = sent \o (s \o r)
      BY <2>a, ConcatAssociative
    <2>c. words \o <<x>> = sent \o (st.pending \o <<x>>)
      <3>1. st.pending \in Seq(Fragments) /\ <<x>> \in Seq(Fragments)
        BY <1>1
      <3>2. QED
        BY <2>a, <2>b, <3>1
    <2> HIDE DEF more
    <2>2. more = ((st.accepted \o InFlight(st)) \o st.buffered) \o Append(st.pending, x)
      BY <1>6, <2>c DEF sent
    <2>3. QED
      BY <1>2, <1>3, <1>5, <2>2 DEF StreamWhole
  <1>9. StreamShown(g, more, framed, plain)
    BY <1>0, <1>1, <1>2, <1>5, <1>7 DEF StreamShown
  <1>10. QED
    BY <1>0, <1>1, <1>2, <1>4, <1>8, <1>9 DEF Streaming, g, more

\* Flushes that are asked for, or that have nothing to do.
LEMMA FlushCounted ==
    ASSUME NEW st, NEW words, NEW framed, NEW plain, Streaming(st, words, framed, plain),
           NEW timer \in BOOLEAN, NEW n \in Nat, timer => st.timer,
           \/ st.timer /\ n = st.queued + 1
           \/ /\ st.queued > 0 /\ st.request = "none" /\ timer = st.timer
              /\ n = st.queued - 1
              /\ st.failure # "none" \/ st.interrupted \/ st.pending = <<>>
    PROVE  Streaming([st EXCEPT !.timer = timer, !.queued = n], words, framed, plain)
  <1> DEFINE g == [st EXCEPT !.timer = timer, !.queued = n]
  <1>0. /\ st \in Stream /\ words \in Seq(Fragments) /\ framed \in Seq(Fragments)
        /\ plain \in Seq(Fragments)
        /\ StreamLife(st) /\ StreamWhole(st, words) /\ StreamShown(st, words, framed, plain)
    BY DEF Streaming
  <1>1. st.queued \in Nat
    BY <1>0 DEF Stream
  <1>2. /\ g \in Stream /\ g.pending = st.pending /\ g.request = st.request
        /\ g.text = st.text /\ g.buffered = st.buffered /\ g.slot = st.slot
        /\ g.state = st.state /\ g.failure = st.failure
        /\ g.closing = st.closing /\ g.timer = timer /\ g.id = st.id
        /\ g.interrupted = st.interrupted /\ g.accepted = st.accepted /\ g.queued = n
    BY <1>0, <1>1 DEF Stream
  <1>3. st.closing # "done" /\ (st.request = "frame" => st.queued > 0 /\ n > 1)
        /\ st.request \notin {"plain", "final"}
    BY <1>0, <1>1 DEF StreamLife, Stream
  <1> HIDE DEF g
  <1>4. StreamLife(g)
    <2>1. st.request = "frame" => n > 0
      BY <1>3
    <2>2. st.closing # "no" => ~timer
      BY <1>0 DEF StreamLife
    <2>3. QED
      BY <1>0, <1>2, <1>3, <2>1, <2>2 DEF StreamLife
  <1>5. InFlight(g) = InFlight(st)
    BY <1>2 DEF InFlight
  <1>6. StreamWhole(g, words)
    <2>1. \/ st.failure # "none" \/ st.interrupted \/ st.pending = <<>>
          \/ n > (IF st.request = "frame" THEN 1 ELSE 0)
      BY <1>1, <1>3
    <2>2. QED
      BY <1>0, <1>2, <1>5, <2>1 DEF StreamWhole
  <1>7. StreamShown(g, words, framed, plain)
    BY <1>0, <1>2, <1>5 DEF StreamShown
  <1>8. QED
    BY <1>0, <1>2, <1>4, <1>6, <1>7 DEF Streaming, g

LEMMA CloseKeepsStream ==
    ASSUME NEW st, NEW words, NEW framed, NEW plain, Streaming(st, words, framed, plain),
           NEW interrupt \in BOOLEAN, ~interrupt => st.closing = "no"
    PROVE  /\ Streaming(Close(st, interrupt), words, framed, plain)
           /\ Close(st, interrupt).interrupted = IF interrupt THEN TRUE ELSE st.interrupted
  <1> DEFINE g == Close(st, interrupt)
  <1>0. /\ st \in Stream /\ words \in Seq(Fragments) /\ framed \in Seq(Fragments)
        /\ plain \in Seq(Fragments)
        /\ StreamLife(st) /\ StreamWhole(st, words) /\ StreamShown(st, words, framed, plain)
    BY DEF Streaming
  <1>1. st.queued \in Nat /\ st.queued + 1 \in Nat /\ <<>> \in Seq(Fragments)
    BY <1>0, EmptySeq DEF Stream
  <1>2. /\ g \in Stream /\ g.request = st.request /\ g.text = st.text /\ g.slot = st.slot
        /\ g.failure = st.failure /\ g.id = st.id /\ g.accepted = st.accepted
        /\ IF interrupt THEN g.interrupted = TRUE ELSE g.interrupted = st.interrupted
        /\ g.buffered = (IF interrupt THEN <<>> ELSE st.buffered)
        /\ g.pending = (IF interrupt THEN <<>> ELSE st.pending)
        /\ st.closing # "no" =>
              g.closing = st.closing /\ g.state = st.state /\ g.timer = st.timer
              /\ g.queued = st.queued
        /\ st.closing = "no" => g.closing = "yes" /\ g.state = "sealing" /\ ~g.timer
        /\ g.queued >= st.queued /\ (~interrupt => g.queued = st.queued + 1)
    <2>1. CASE interrupt /\ st.closing # "no"
      <3>1. g = [st EXCEPT !.interrupted = TRUE, !.pending = <<>>, !.buffered = <<>>]
        BY <2>1 DEF Close
      <3>2. QED
        <4> HIDE DEF g
        <4>1. g \in Stream
          BY <1>0, <1>1, <2>1, <3>1 DEF Stream
        <4>2. /\ g.request = st.request /\ g.text = st.text /\ g.slot = st.slot
              /\ g.failure = st.failure /\ g.id = st.id /\ g.accepted = st.accepted
              /\ g.closing = st.closing /\ g.state = st.state /\ g.timer = st.timer
              /\ g.queued = st.queued
          BY <1>0, <1>1, <2>1, <3>1 DEF Stream
        <4>3. g.interrupted = TRUE /\ g.buffered = <<>> /\ g.pending = <<>>
          BY <1>0, <1>1, <2>1, <3>1 DEF Stream
        <4>4. g.queued >= st.queued
          BY <1>1, <4>2
        <4>5. QED
          BY <2>1, <4>1, <4>2, <4>3, <4>4
    <2>2. CASE interrupt /\ st.closing = "no"
      <3> DEFINE h == [st EXCEPT !.interrupted = TRUE, !.pending = <<>>, !.buffered = <<>>]
      <3>1. /\ h \in Stream /\ h.request = st.request /\ h.text = st.text /\ h.slot = st.slot
            /\ h.failure = st.failure /\ h.id = st.id /\ h.accepted = st.accepted
            /\ h.interrupted = TRUE /\ h.buffered = <<>> /\ h.pending = <<>>
            /\ h.closing = st.closing /\ h.queued = st.queued
        BY <1>0, <1>1 DEF Stream
      <3>2. st.closing = "no" => Close(st, TRUE) = [h EXCEPT !.closing = "yes", !.timer = FALSE,
                                   !.state = "sealing", !.queued = @]
        BY DEF Close
      <3>3. g = Close(st, TRUE)
        BY <2>2
      <3> HIDE DEF h, g
      <3>4. g = [h EXCEPT !.closing = "yes", !.timer = FALSE, !.state = "sealing", !.queued = @]
        BY <2>2, <3>2, <3>3
      <3>5. g \in Stream
        BY <3>1, <3>4 DEF Stream
      <3>6. /\ g.request = st.request /\ g.text = st.text /\ g.slot = st.slot
            /\ g.failure = st.failure /\ g.id = st.id /\ g.accepted = st.accepted
            /\ g.buffered = <<>> /\ g.pending = <<>>
        BY <3>1, <3>4 DEF Stream
      <3>7. /\ g.closing = "yes" /\ g.state = "sealing" /\ g.timer = FALSE
            /\ g.queued = st.queued /\ g.interrupted = h.interrupted
        BY <3>1, <3>4 DEF Stream
      <3>8. g.queued >= st.queued /\ ~g.timer
        BY <1>1, <3>7
      <3>9. QED
        BY <2>2, <3>1, <3>5, <3>6, <3>7, <3>8
    <2>3. CASE ~interrupt
      <3>1. g = [st EXCEPT !.closing = "yes", !.timer = FALSE, !.state = "sealing",
                           !.queued = @ + 1]
        BY <2>3 DEF Close
      <3>2. QED
        <4> HIDE DEF g
        <4>1. g \in Stream
          BY <1>0, <1>1, <2>3, <3>1 DEF Stream
        <4>2. /\ g.request = st.request /\ g.text = st.text /\ g.slot = st.slot
              /\ g.failure = st.failure /\ g.id = st.id /\ g.accepted = st.accepted
              /\ g.interrupted = st.interrupted /\ g.buffered = st.buffered
              /\ g.pending = st.pending
          BY <1>0, <1>1, <2>3, <3>1 DEF Stream
        <4>3. /\ g.closing = "yes" /\ g.state = "sealing" /\ g.timer = FALSE
              /\ g.queued = st.queued + 1
          BY <1>0, <1>1, <2>3, <3>1 DEF Stream
        <4>4. g.queued >= st.queued /\ ~g.timer
          BY <1>1, <4>3
        <4>5. QED
          BY <2>3, <4>1, <4>2, <4>3, <4>4
    <2>4. QED
      BY <2>1, <2>2, <2>3
  <1> HIDE DEF g
  <1>3. g.closing # "no" /\ (g.closing = "done" <=> st.closing = "done") /\ g.queued \in Nat
    BY <1>2 DEF Stream
  <1>4. StreamLife(g)
    BY <1>0, <1>1, <1>2, <1>3 DEF StreamLife
  <1>5. InFlight(g) = InFlight(st)
    BY <1>2 DEF InFlight
  <1>6. StreamWhole(g, words)
    <2>1. ~interrupt => g.queued > (IF st.request = "frame" THEN 1 ELSE 0)
      BY <1>0, <1>1, <1>2 DEF StreamLife
    <2>2. g.state = "sealed" => st.state = "sealed"
      BY <1>2
    <2>3. CASE interrupt
      BY <1>0, <1>2, <2>3 DEF StreamWhole
    <2>4. CASE ~interrupt
      BY <1>0, <1>2, <1>3, <1>5, <2>1, <2>2, <2>4 DEF StreamWhole
    <2>5. QED
      BY <2>3, <2>4
  <1>7. StreamShown(g, words, framed, plain)
    BY <1>0, <1>2, <1>3, <1>5 DEF StreamShown
  <1>8. QED
    BY <1>0, <1>2, <1>4, <1>6, <1>7 DEF Streaming, g

\* The last request goes out.
LEMMA LastGoes ==
    ASSUME NEW st, NEW words, NEW framed, NEW plain, Streaming(st, words, framed, plain),
           st.closing = "yes", st.queued = 0, st.request = "none", st.failure = "none",
           NEW request \in {"plain", "final"}, NEW text,
           IF request = "final" THEN st.id /\ text = st.text
           ELSE ~st.interrupted /\ st.slot.mode = "proactive" /\ text = st.buffered
    PROVE  Streaming([st EXCEPT !.request = request, !.text = text], words, framed, plain)
  <1> DEFINE g == [st EXCEPT !.request = request, !.text = text]
  <1>0. /\ st \in Stream /\ words \in Seq(Fragments) /\ framed \in Seq(Fragments)
        /\ plain \in Seq(Fragments)
        /\ StreamLife(st) /\ StreamWhole(st, words) /\ StreamShown(st, words, framed, plain)
    BY DEF Streaming
  <1>1. /\ st.accepted \in Seq(Fragments) /\ st.buffered \in Seq(Fragments)
        /\ <<>> \in Seq(Fragments) /\ st.text \in Seq(Fragments)
        /\ text \in Seq(Fragments)
    BY <1>0, EmptySeq DEF Stream
  <1>2. /\ g \in Stream /\ g.pending = st.pending /\ g.request = request
        /\ g.text = text /\ g.buffered = st.buffered /\ g.slot = st.slot
        /\ g.state = st.state /\ g.failure = st.failure
        /\ g.closing = st.closing /\ g.timer = st.timer /\ g.id = st.id
        /\ g.interrupted = st.interrupted /\ g.accepted = st.accepted
        /\ g.queued = st.queued
    BY <1>0, <1>1 DEF Stream
  <1> HIDE DEF g
  <1>3. StreamLife(g)
    BY <1>0, <1>2 DEF StreamLife
  <1>4. InFlight(g) = <<>> /\ InFlight(st) = <<>>
    BY <1>2 DEF InFlight
  <1>5. ~st.interrupted => words = ((st.accepted \o <<>>) \o st.buffered) \o <<>>
                           /\ st.pending = <<>>
    <2>1. ~st.timer /\ ~(st.queued > 0)
      BY <1>0 DEF StreamLife
    <2>2. QED
      BY <1>0, <1>4, <2>1 DEF StreamWhole
  <1>6. st.accepted \o <<>> = st.accepted
    BY <1>1, Joins
  <1>7. request = "final" /\ ~st.interrupted => st.accepted = words
    <2>1. request = "final" => st.buffered = <<>>
      BY <1>0 DEF StreamLife, StreamShown
    <2>2. QED
      BY <1>1, <1>5, <1>6, <2>1, Joins
  <1>8. request = "plain" => text = words
    <2>1. request = "plain" => st.accepted = <<>> /\ text = st.buffered /\ ~st.interrupted
      BY <1>0 DEF StreamLife, StreamShown
    <2>2. <<>> \o st.buffered = st.buffered /\ st.buffered \o <<>> = st.buffered
      BY <1>1, Joins
    <2>3. QED
      BY <1>5, <1>6, <2>1, <2>2
  <1>9. StreamWhole(g, words)
    <2>1. g.state # "sealed"
      BY <1>0, <1>2 DEF StreamLife
    <2>2. QED
      BY <1>0, <1>2, <1>4, <1>5, <1>7, <1>8, <2>1 DEF StreamWhole
  <1>10. StreamShown(g, words, framed, plain)
    BY <1>0, <1>2, <1>4 DEF StreamShown
  <1>11. QED
    BY <1>0, <1>2, <1>3, <1>9, <1>10 DEF Streaming, g

\* The stream is done, whether its proactive message came to the chat or not.
LEMMA StreamIsDone ==
    ASSUME NEW st, NEW words, NEW framed, NEW plain, Streaming(st, words, framed, plain),
           st.closing = "yes", st.queued = 0, st.request # "frame",
           NEW state \in {"sealed", "failed", "closure_unknown"},
           NEW accepted \in {st.accepted, st.text}, NEW buffered \in {st.buffered, <<>>},
           NEW seen \in {plain, st.text},
           accepted # st.accepted \/ seen # plain => st.request = "plain",
           accepted \in {st.accepted, seen},
           state = "sealed" /\ ~st.interrupted => accepted = words
    PROVE  Streaming([st EXCEPT !.request = "none", !.text = <<>>, !.buffered = buffered,
                                !.accepted = accepted, !.closing = "done", !.state = state],
                     words, framed, seen)
  <1> DEFINE g == [st EXCEPT !.request = "none", !.text = <<>>, !.buffered = buffered,
                             !.accepted = accepted, !.closing = "done", !.state = state]
  <1>0. /\ st \in Stream /\ words \in Seq(Fragments) /\ framed \in Seq(Fragments)
        /\ plain \in Seq(Fragments)
        /\ StreamLife(st) /\ StreamWhole(st, words) /\ StreamShown(st, words, framed, plain)
    BY DEF Streaming
  <1>1. /\ st.accepted \in Seq(Fragments) /\ st.buffered \in Seq(Fragments)
        /\ <<>> \in Seq(Fragments) /\ st.text \in Seq(Fragments)
        /\ accepted \in Seq(Fragments) /\ buffered \in Seq(Fragments)
        /\ seen \in Seq(Fragments)
    BY <1>0, EmptySeq DEF Stream
  <1>2. /\ g \in Stream /\ g.pending = st.pending /\ g.request = "none"
        /\ g.buffered = buffered /\ g.slot = st.slot
        /\ g.state = state /\ g.failure = st.failure
        /\ g.closing = "done" /\ g.timer = st.timer /\ g.id = st.id
        /\ g.interrupted = st.interrupted /\ g.accepted = accepted
        /\ g.queued = st.queued
    BY <1>0, <1>1 DEF Stream
  <1> HIDE DEF g
  <1>3. StreamLife(g)
    BY <1>0, <1>2 DEF StreamLife
  <1>4. InFlight(g) = <<>> /\ InFlight(st) = <<>>
    BY <1>2 DEF InFlight
  <1>5. StreamWhole(g, words)
    BY <1>2 DEF StreamWhole
  <1>6. StreamShown(g, words, framed, seen)
    <2>1. CASE accepted = st.accepted /\ seen = plain
      BY <1>0, <1>2, <1>4, <2>1 DEF StreamShown
    <2>2. CASE st.request = "plain"
      <3>1. st.slot.mode = "proactive" /\ st.text = words /\ framed = <<>>
            /\ st.accepted = <<>> /\ plain = <<>>
        BY <1>0, <2>2 DEF StreamLife, StreamWhole, StreamShown
      <3>2. \A s \in Seq(Fragments) : IsPrefix(s, s) /\ IsPrefix(<<>>, s)
        BY PrefixFacts
      <3>3. IsPrefix(accepted, seen) /\ IsPrefix(seen, words)
        BY <1>0, <1>1, <3>1, <3>2
      <3>4. QED
        BY <1>2, <3>1, <3>3 DEF StreamShown
    <2>3. QED
      BY <2>1, <2>2
  <1>7. QED
    BY <1>0, <1>1, <1>2, <1>3, <1>5, <1>6 DEF Streaming, g

StreamInv == Streaming(stream, said, streamChat, plainChat) /\ stopped = stream.interrupted

LEMMA StreamStep == PermitInv /\ StreamInv /\ [OfficialNext]_officialVars => StreamInv'
  <1> SUFFICES ASSUME PermitInv, StreamInv, [OfficialNext]_officialVars
               PROVE  StreamInv'
    OBVIOUS
  <1>0. /\ Streaming(stream, said, streamChat, plainChat) /\ stream \in Stream
        /\ said \in Seq(Fragments) /\ stopped = stream.interrupted
        /\ StreamLife(stream) /\ StreamWhole(stream, said)
        /\ StreamShown(stream, said, streamChat, plainChat)
    BY DEF StreamInv, Streaming
  <1>s. /\ stream.slot \in Slot /\ stream.slot.mode \in {"none", "reply", "proactive"}
        /\ stream.slot.mode = "none" <=> stream.slot = NoSlot
        /\ Reserved \in Slot /\ Reserved.mode = "reply"
        /\ Proactive \in Slot /\ Proactive.mode = "proactive"
        /\ NoSlot.mode = "none"
    BY <1>0, SlotFacts, ReservedSlot DEF PermitInv, StreamSlot, Slot
  <1>1. CASE UNCHANGED streamVars
    BY <1>0, <1>1 DEF StreamInv, streamVars
  <1>2. CASE AppendText
    <2> DEFINE x == Len(said) + 1
    <2>1. x \in Fragments
      BY <1>0, <1>2, OfficialAssumption, LenProperties DEF AppendText, Fragments
    <2>2. /\ stream' = [stream EXCEPT !.pending = Append(@, x), !.timer = TRUE]
          /\ said' = Append(said, x) /\ stream.state = "open"
          /\ UNCHANGED <<stopped, streamChat, plainChat>>
      BY <1>2 DEF AppendText
    <2>3. stream'.interrupted = stream.interrupted
      BY <1>0, <2>2 DEF Stream
    <2> HIDE DEF x
    <2>4. Streaming(stream', said', streamChat, plainChat)
      BY <1>0, <2>1, <2>2, StreamTakes
    <2>5. QED
      BY <1>0, <2>2, <2>3, <2>4 DEF StreamInv
  <1>3. CASE FlushTimer
    <2> DEFINE n == stream.queued + 1
    <2>1. n \in Nat
      BY <1>0 DEF Stream
    <2>2. /\ stream' = [stream EXCEPT !.timer = FALSE, !.queued = n] /\ stream.timer
          /\ UNCHANGED <<said, stopped, streamChat, plainChat>>
      BY <1>3 DEF FlushTimer
    <2>3. stream'.interrupted = stream.interrupted /\ n = stream.queued + 1
      BY <1>0, <2>2 DEF Stream
    <2> HIDE DEF n
    <2>4. Streaming(stream', said, streamChat, plainChat)
      BY <1>0, <2>1, <2>2, <2>3, FlushCounted
    <2>5. QED
      BY <1>0, <2>2, <2>3, <2>4 DEF StreamInv
  <1>4. CASE Flush
    <2>1. /\ stream.queued > 0 /\ stream.request = "none"
          /\ UNCHANGED <<said, stopped, streamChat, plainChat>>
      BY <1>4 DEF Flush
    <2>2. CASE FlushIdle /\ stream' = [stream EXCEPT !.queued = @ - 1]
      <3> DEFINE n == stream.queued - 1
      <3>1. n \in Nat /\ stream.timer \in BOOLEAN
        BY <1>0, <2>1 DEF Stream
      <3>2. stream' = [stream EXCEPT !.timer = stream.timer, !.queued = n]
        BY <1>0, <2>2 DEF Stream
      <3>3. stream'.interrupted = stream.interrupted /\ n = stream.queued - 1
        BY <1>0, <2>2 DEF Stream
      <3>4. stream.failure # "none" \/ stream.interrupted \/ stream.pending = <<>>
        BY <2>2 DEF FlushIdle
      <3> HIDE DEF n
      <3>5. Streaming([stream EXCEPT !.timer = stream.timer, !.queued = n],
                      said, streamChat, plainChat)
        BY <1>0, <2>1, <3>1, <3>3, <3>4, FlushCounted
      <3>6. Streaming(stream', said, streamChat, plainChat)
        BY <3>2, <3>5
      <3>7. QED
        BY <1>0, <2>1, <3>3, <3>6 DEF StreamInv
    <2>3. CASE stream' = FlushFails(stream, "rejected")
      <3>1. stream'.interrupted = stream.interrupted
        BY <1>0, <2>3 DEF Stream, FlushFails
      <3>2. Streaming(stream', said, streamChat, plainChat)
        BY <1>0, <2>1, <2>3, FlushFailsStream DEF Failures
      <3>3. QED
        BY <1>0, <2>1, <3>1, <3>2 DEF StreamInv
    <2>4. ASSUME ~FlushIdle, NEW slot \in Slot, slot.mode = "proactive",
                 stream.slot.mode # "reply",
                 stream' = Buffer([stream EXCEPT !.pending = <<>>], slot, stream.pending)
          PROVE  StreamInv'
      <3>1. stream'.interrupted = stream.interrupted
        BY <1>0, <2>4 DEF Stream, Buffer
      <3>2. stream.failure = "none" /\ ~stream.interrupted
        BY <2>4 DEF FlushIdle
      <3>3. Streaming(stream', said, streamChat, plainChat)
        BY <1>0, <2>1, <2>4, <3>2, BufferPending
      <3>4. QED
        BY <1>0, <2>1, <3>1, <3>3 DEF StreamInv
    <2>5. ASSUME ~FlushIdle, NEW slot \in Slot, slot.mode = "reply",
                 stream.slot.mode # "proactive",
                 stream' = [stream EXCEPT !.slot = slot, !.pending = <<>>,
                                  !.request = "frame", !.text = stream.pending]
          PROVE  StreamInv'
      <3>1. stream'.interrupted = stream.interrupted
        BY <1>0, <2>5 DEF Stream
      <3>2. stream.failure = "none" /\ ~stream.interrupted
        BY <2>5 DEF FlushIdle
      <3>3. Streaming(stream', said, streamChat, plainChat)
        BY <1>0, <2>1, <2>5, <3>2, FrameGoes
      <3>4. QED
        BY <1>0, <2>1, <3>1, <3>3 DEF StreamInv
    <2>6. ASSUME ~FlushIdle, NEW slot \in Slot, slot.mode # "none",
                 stream.slot.mode \in {"none", slot.mode},
                 stream' = IF slot.mode = "proactive"
                           THEN Buffer([stream EXCEPT !.pending = <<>>], slot, stream.pending)
                           ELSE [stream EXCEPT !.slot = Commit(slot), !.pending = <<>>,
                                     !.request = "frame", !.text = stream.pending]
          PROVE  StreamInv'
      <3>1. slot.mode \in {"reply", "proactive"}
        BY <2>6 DEF Slot
      <3>2. Commit(slot) \in Slot /\ Commit(slot).mode = slot.mode
        BY SlotFacts
      <3>3. CASE slot.mode = "proactive"
        BY <2>4, <2>6, <3>3
      <3>4. CASE slot.mode = "reply"
        BY <2>5, <2>6, <3>2, <3>4
      <3>5. QED
        BY <3>1, <3>3, <3>4
    <2>7. \/ FlushIdle /\ stream' = [stream EXCEPT !.queued = @ - 1]
          \/ stream' = FlushFails(stream, "rejected")
          \/ /\ ~FlushIdle
             /\ \E slot \in Slot :
                   /\ slot.mode # "none" /\ stream.slot.mode \in {"none", slot.mode}
                   /\ stream' = IF slot.mode = "proactive"
                                THEN Buffer([stream EXCEPT !.pending = <<>>], slot, stream.pending)
                                ELSE [stream EXCEPT !.slot = Commit(slot), !.pending = <<>>,
                                          !.request = "frame", !.text = stream.pending]
      BY <1>4, <1>s DEF Flush
    <2>8. QED
      BY <2>2, <2>3, <2>6, <2>7
  <1>5. CASE FrameAnswered
    <2> DEFINE full == stream.accepted \o stream.text
    <2>1. /\ stream.request = "frame" /\ UNCHANGED <<said, stopped, plainChat>>
          /\ stream.queued > 0
      BY <1>0, <1>5 DEF FrameAnswered, StreamLife
    <2>2. PICK outcome \in Outcomes :
             \/ /\ streamChat' = full
                /\ stream' = [stream EXCEPT !.id = TRUE, !.accepted = full,
                                  !.request = "none", !.text = <<>>, !.queued = @ - 1]
             \/ /\ streamChat' = streamChat /\ ~stream.id /\ ~stream.interrupted
                /\ stream' = Buffer(stream, Fallen(stream.slot), stream.text)
             \/ /\ streamChat' \in {streamChat, full}
                /\ stream' = FlushFails(stream, FailureOf(outcome))
      BY <1>5 DEF FrameAnswered, FallsBack
    <2>3. stream'.interrupted = stream.interrupted
      BY <1>0, <2>2 DEF Stream, Buffer, FlushFails
    <2>4. CASE /\ streamChat' = full
               /\ stream' = [stream EXCEPT !.id = TRUE, !.accepted = full,
                                 !.request = "none", !.text = <<>>, !.queued = @ - 1]
      <3>1. Streaming(stream', said, streamChat', plainChat)
        BY <1>0, <2>1, <2>4, FrameAccepted
      <3>2. QED
        BY <1>0, <2>1, <2>3, <3>1 DEF StreamInv
    <2>5. CASE /\ streamChat' = streamChat /\ ~stream.id /\ ~stream.interrupted
               /\ stream' = Buffer(stream, Fallen(stream.slot), stream.text)
      <3>1. Fallen(stream.slot) \in Slot /\ Fallen(stream.slot).mode = "proactive"
        BY <1>s, SlotFacts
      <3>2. Streaming(stream', said, streamChat, plainChat)
        BY <1>0, <2>1, <2>5, <3>1, BufferFrame
      <3>3. QED
        BY <1>0, <2>1, <2>3, <2>5, <3>2 DEF StreamInv
    <2>6. CASE /\ streamChat' \in {streamChat, full}
               /\ stream' = FlushFails(stream, FailureOf(outcome))
      <3>1. FailureOf(outcome) \in Failures
        BY DEF FailureOf, Failures
      <3>2. Streaming(stream', said, streamChat', plainChat)
        BY <1>0, <2>1, <2>6, <3>1, FlushFailsStream
      <3>3. QED
        BY <1>0, <2>1, <2>3, <3>2 DEF StreamInv
    <2>7. QED
      BY <2>2, <2>4, <2>5, <2>6
  <1>6. ASSUME NEW interrupt \in BOOLEAN, CloseStream(interrupt)
        PROVE  StreamInv'
    <2>1. /\ stream' = Close(stream, interrupt)
          /\ ~interrupt => stream.closing = "no"
          /\ stopped' = (stopped \/ interrupt)
          /\ UNCHANGED <<said, streamChat, plainChat>>
      BY <1>6 DEF CloseStream
    <2>2. CASE interrupt = TRUE
      <3>1. Streaming(Close(stream, TRUE), said, streamChat, plainChat)
            /\ Close(stream, TRUE).interrupted = TRUE
        BY <1>0, CloseKeepsStream
      <3>2. QED
        BY <1>0, <2>1, <2>2, <3>1 DEF StreamInv
    <2>3. CASE interrupt = FALSE
      <3>1. stream.closing = "no" /\ stopped' = stopped
        BY <1>0, <2>1, <2>3 DEF Stream
      <3>2. Streaming(Close(stream, FALSE), said, streamChat, plainChat)
            /\ Close(stream, FALSE).interrupted = stream.interrupted
        BY <1>0, <3>1, CloseKeepsStream
      <3>3. QED
        BY <1>0, <2>1, <2>3, <3>1, <3>2 DEF StreamInv
    <2>4. QED
      BY <1>6, <2>2, <2>3
  \* The ends of the stream.
  <1>7. ASSUME stream.closing = "yes", stream.queued = 0, stream.request # "frame",
               NEW state \in {"sealed", "failed", "closure_unknown"}, Closes(state),
               state = "sealed" /\ ~stream.interrupted => stream.accepted = said,
               plainChat' = plainChat \/ (stream.request = "plain" /\ plainChat' = stream.text),
               UNCHANGED <<said, stopped, streamChat>>
        PROVE  StreamInv'
    <2>1. stream' = [stream EXCEPT !.request = "none", !.text = <<>>,
                         !.buffered = stream.buffered, !.accepted = stream.accepted,
                         !.closing = "done", !.state = state]
      BY <1>0, <1>7 DEF Closes, Stream
    <2>2. stream'.interrupted = stream.interrupted
      BY <1>0, <1>7 DEF Stream, Closes
    <2>3. plainChat' \in {plainChat, stream.text}
      BY <1>7
    <2>4. Streaming(stream', said, streamChat, plainChat')
      BY <1>0, <1>7, <2>1, <2>3, StreamIsDone
    <2>5. QED
      BY <1>0, <1>7, <2>2, <2>4 DEF StreamInv
  <1>8. CASE CloseRuns
    <2>1. /\ stream.closing = "yes" /\ stream.queued = 0 /\ stream.request = "none"
          /\ UNCHANGED <<said, stopped, streamChat, plainChat>>
      BY <1>8 DEF CloseRuns
    <2>2. ASSUME NEW request \in {"plain", "final"}, NEW text, stream.failure = "none",
                 IF request = "final" THEN stream.id /\ text = stream.text
                 ELSE ~stream.interrupted /\ stream.slot.mode = "proactive"
                      /\ text = stream.buffered,
                 stream' = [stream EXCEPT !.request = request, !.text = text]
          PROVE  StreamInv'
      <3>1. stream'.interrupted = stream.interrupted
        BY <1>0, <2>2 DEF Stream
      <3>2. Streaming(stream', said, streamChat, plainChat)
        BY <1>0, <2>1, <2>2, LastGoes
      <3>3. QED
        BY <1>0, <2>1, <3>1, <3>2 DEF StreamInv
    <2>3. CASE Closes("failed") \/ Closes("closure_unknown")
      BY <1>7, <2>1, <2>3
    <2>4. CASE /\ stream.failure = "none" /\ ~stream.interrupted
               /\ stream.slot.mode = "proactive"
               /\ stream' = [stream EXCEPT !.request = "plain", !.text = stream.buffered]
      BY <2>2, <2>4
    <2>5. CASE /\ stream.failure = "none" /\ stream.id
               /\ stream' = [stream EXCEPT !.request = "final"]
      <3>1. stream' = [stream EXCEPT !.request = "final", !.text = stream.text]
        BY <1>0, <2>5 DEF Stream
      <3>2. QED
        BY <2>2, <2>5, <3>1
    <2>6. CASE /\ stream.failure = "none" /\ ~stream.id /\ Closes("sealed")
               /\ stream.interrupted \/ stream.slot.mode # "proactive" \/ stream.buffered = <<>>
      <3>1. ~stream.interrupted => stream.accepted = said
        <4> SUFFICES ASSUME ~stream.interrupted PROVE stream.accepted = said
          OBVIOUS
        <4>1. stream.accepted = <<>> /\ stream.buffered = <<>> /\ InFlight(stream) = <<>>
          BY <1>0, <2>1, <2>6 DEF StreamShown, InFlight
        <4>2. ~stream.timer /\ ~(stream.queued > 0)
          BY <1>0, <2>1 DEF StreamLife
        <4>3. stream.pending = <<>> /\ said = ((<<>> \o <<>>) \o <<>>) \o <<>>
          BY <1>0, <2>1, <2>6, <4>1, <4>2 DEF StreamWhole
        <4>4. ((<<>> \o <<>>) \o <<>>) \o <<>> = <<>>
          BY EmptySeq, Joins
        <4>5. QED
          BY <4>1, <4>3, <4>4
      <3>2. QED
        BY <1>7, <2>1, <2>6, <3>1
    <2>7. QED
      BY <1>8, <2>3, <2>4, <2>5, <2>6 DEF CloseRuns
  <1>9. CASE PlainAnswered
    <2>1. /\ stream.request = "plain" /\ UNCHANGED <<said, stopped, streamChat>>
          /\ stream.closing = "yes" /\ stream.queued = 0 /\ stream.text = said
          /\ stream.state # "sealed"
      BY <1>0, <1>9 DEF PlainAnswered, StreamLife, StreamWhole
    <2>2. CASE /\ plainChat' = stream.text
               /\ stream' = [stream EXCEPT !.request = "none", !.text = <<>>, !.buffered = <<>>,
                                 !.accepted = stream.text, !.closing = "done",
                                 !.state = "sealed"]
      <3>1. stream'.interrupted = stream.interrupted
        BY <1>0, <2>2 DEF Stream
      <3>2. Streaming(stream', said, streamChat, plainChat')
        BY <1>0, <2>1, <2>2, StreamIsDone
      <3>3. QED
        BY <1>0, <2>1, <3>1, <3>2 DEF StreamInv
    <2>3. CASE plainChat' \in {plainChat, stream.text}
               /\ (Closes("closure_unknown") \/ Closes("failed"))
      BY <1>7, <2>1, <2>3
    <2>4. QED
      BY <1>9, <2>2, <2>3 DEF PlainAnswered
  <1>10. CASE FinalAnswered
    <2>1. /\ stream.request = "final" /\ UNCHANGED <<said, stopped, plainChat>>
          /\ stream.closing = "yes" /\ stream.queued = 0 /\ stream.failure = "none"
          /\ stream.slot.mode = "reply"
      BY <1>0, <1>10 DEF FinalAnswered, StreamLife
    <2>2. streamChat = stream.accepted /\ (~stream.interrupted => stream.accepted = said)
      BY <1>0, <2>1 DEF StreamWhole, StreamShown
    <2>3. streamChat' = streamChat
      BY <1>10, <2>2 DEF FinalAnswered
    <2>4. QED
      BY <1>7, <1>10, <2>1, <2>2, <2>3 DEF FinalAnswered
  <1>11. QED
    BY <1>1, <1>2, <1>3, <1>4, <1>5, <1>6, <1>8, <1>9, <1>10
       DEF OfficialNext, PermitExpires, TurnCancelled, SendText, SendMedia, UploadEnds,
           UploadFails, SendAnswered, officialVars

LEMMA StreamInvariant == OfficialSpec => [](PermitInv /\ StreamInv)
  <1>1. OfficialInit => StreamInv
    BY StreamStarts DEF StreamInv
  <1>2. QED
    BY <1>1, PermitInitInv, PermitNextInv, StreamStep, PTL DEF OfficialSpec

\* The chat shows a beginning of what was said, in one of the two messages, and
\* all of it when the stream was sealed (textStream.ts).
THEOREM StreamIsShown == OfficialSpec => []StreamShowsWhatWasSaid
  <1>1. StreamInv => StreamShowsWhatWasSaid
    <2> SUFFICES ASSUME StreamInv PROVE StreamShowsWhatWasSaid
      OBVIOUS
    <2>1. /\ said \in Seq(Fragments) /\ streamChat \in Seq(Fragments)
          /\ plainChat \in Seq(Fragments)
          /\ StreamWhole(stream, said) /\ StreamShown(stream, said, streamChat, plainChat)
      BY DEF StreamInv, Streaming
    <2>2. /\ streamChat \o <<>> = streamChat /\ <<>> \o plainChat = plainChat
      BY <2>1, Joins
    <2>3. stream.state = "sealed" /\ ~stream.interrupted => stream.accepted = said
      BY <2>1 DEF StreamWhole
    <2>4. CASE stream.slot.mode # "proactive"
      <3>1. /\ plainChat = <<>> /\ IsPrefix(stream.accepted, streamChat)
            /\ IsPrefix(streamChat, said)
        BY <2>1, <2>4 DEF StreamShown
      <3>2. QED
        BY <2>2, <2>3, <3>1 DEF StreamShowsWhatWasSaid
    <2>5. CASE stream.slot.mode = "proactive"
      <3>1. /\ streamChat = <<>> /\ IsPrefix(stream.accepted, plainChat)
            /\ IsPrefix(plainChat, said)
        BY <2>1, <2>5 DEF StreamShown
      <3>2. QED
        BY <2>2, <2>3, <3>1 DEF StreamShowsWhatWasSaid
    <2>6. QED
      BY <2>4, <2>5
  <1>2. QED
    BY <1>1, StreamInvariant, PTL

\* After an interruption only the request that is already out can still add to the
\* chat, and nothing that was accepted is taken back (close in textStream.ts).
THEOREM InterruptedStreamsAddNothing == OfficialSpec => InterruptedAddsNothing
  <1>1. ASSUME StreamInv, [OfficialNext]_officialVars, stopped
        PROVE  /\ stream.request = "none" => UNCHANGED <<streamChat, plainChat>>
               /\ stream'.request \in {"frame", "plain"} => stream.request = stream'.request
               /\ IsPrefix(stream.accepted, stream'.accepted)
    <2>0. /\ stream \in Stream /\ stream.interrupted /\ StreamLife(stream)
          /\ stream.accepted \in Seq(Fragments) /\ stream.text \in Seq(Fragments)
          /\ StreamShown(stream, said, streamChat, plainChat)
      BY <1>1 DEF StreamInv, Streaming, Stream
    <2>1. stream.request = "none" => UNCHANGED <<streamChat, plainChat>>
      BY <1>1
         DEF OfficialNext, PermitExpires, TurnCancelled, SendText, SendMedia, UploadEnds,
             UploadFails, SendAnswered, AppendText, FlushTimer, Flush, FrameAnswered,
             CloseStream, CloseRuns, PlainAnswered, FinalAnswered, officialVars, streamVars
    <2>2. IsPrefix(stream.accepted, stream.accepted)
          /\ IsPrefix(stream.accepted, stream.accepted \o stream.text)
      BY <2>0, PrefixFacts
    <2>3. stream.request = "plain" => IsPrefix(stream.accepted, stream.text)
      <3>1. stream.request = "plain" => stream.accepted = <<>>
        BY <2>0 DEF StreamLife, StreamShown
      <3>2. IsPrefix(<<>>, stream.text)
        BY <2>0, PrefixFacts
      <3>3. QED
        BY <3>1, <3>2
    <2>4. CASE AppendText
      BY <2>0, <2>2, <2>4 DEF AppendText, StreamLife
    <2>5. CASE FlushTimer
      <3>1. stream'.request = stream.request /\ stream'.accepted = stream.accepted
        BY <2>0, <2>5 DEF FlushTimer, Stream
      <3>2. QED
        BY <2>1, <2>2, <3>1
    <2>6. CASE Flush
      <3>1. stream'.request = "none" /\ stream'.accepted = stream.accepted
        BY <2>0, <2>6 DEF Flush, FlushIdle, FlushFails, Stream
      <3>2. QED
        BY <2>1, <2>2, <3>1
    <2>7. CASE FrameAnswered
      <3>1. /\ stream'.request = "none"
            /\ stream'.accepted \in {stream.accepted, stream.accepted \o stream.text}
        BY <2>0, <2>7 DEF FrameAnswered, FlushFails, Buffer, Stream
      <3>2. QED
        BY <2>1, <2>2, <3>1
    <2>8. ASSUME NEW interrupt \in BOOLEAN, CloseStream(interrupt)
          PROVE  stream'.request = stream.request /\ stream'.accepted = stream.accepted
      <3>1. CASE interrupt
        BY <2>0, <2>8, <3>1 DEF CloseStream, Close, Stream
      <3>2. CASE ~interrupt
        BY <2>0, <2>8, <3>2 DEF CloseStream, Close, Stream
      <3>3. QED
        BY <3>1, <3>2
    <2>9. CASE CloseRuns
      <3>1. stream'.request \in {"none", "final"} /\ stream'.accepted = stream.accepted
        BY <2>0, <2>9 DEF CloseRuns, Closes, Stream
      <3>2. QED
        BY <2>1, <2>2, <3>1
    <2>10. CASE PlainAnswered
      <3>1. stream'.request = "none" /\ stream'.accepted \in {stream.accepted, stream.text}
        BY <2>0, <2>10 DEF PlainAnswered, Closes, Stream
      <3>2. stream.request = "plain"
        BY <2>10 DEF PlainAnswered
      <3>3. QED
        BY <2>1, <2>2, <2>3, <3>1, <3>2
    <2>11. CASE FinalAnswered
      <3>1. stream'.request = "none" /\ stream'.accepted = stream.accepted
        BY <2>0, <2>11 DEF FinalAnswered, Closes, Stream
      <3>2. QED
        BY <2>1, <2>2, <3>1
    <2>12. CASE UNCHANGED streamVars
      BY <2>1, <2>2, <2>12 DEF streamVars
    <2>13. QED
      BY <1>1, <2>1, <2>2, <2>4, <2>5, <2>6, <2>7, <2>8, <2>9, <2>10, <2>11, <2>12
         DEF OfficialNext, PermitExpires, TurnCancelled, SendText, SendMedia, UploadEnds,
             UploadFails, SendAnswered, officialVars
  <1>2. QED
    BY <1>1, StreamInvariant, PTL DEF OfficialSpec, InterruptedAddsNothing

-----------------------------------------------------------------------------
(* What one session sends, for any number of chunks, responses and           *)
(* disturbances: the order of its queue, the mute of its chunks, and the     *)
(* transcript beside the chat.                                               *)
(*                                                                           *)
(* The order is not inductive: that nobody overtakes follows from whom each  *)
(* chunk waits for, and from whose the tail is.                              *)

Unsettled(c) == chunk[c].at \in {"waiting", "delaying", "sending", "settled"}

\* The enqueued chunks stand in line: the tail is the last one, the first one
\* has nobody to wait for, each other one has not begun and waits for the one
\* before it.
InLine ==
    /\ IsInjective(order)
    /\ \A c \in Made : c \in Range(order) <=> Unsettled(c)
    /\ tail = IF order = <<>> THEN 0 ELSE order[Len(order)]
    /\ \A i \in DOMAIN order :
          IF i = 1 THEN Resolved(chunk[order[i]].after)
                   ELSE /\ chunk[order[i]].at = "waiting"
                        /\ chunk[order[i]].after = order[i - 1]
    /\ \A c \in Made : chunk[c].after \in {0} \cup Made

LineInv == OutboundTypeOK /\ InLine

LEMMA OutboundInitLine == OutboundInit => LineInv
  <1> SUFFICES ASSUME OutboundInit PROVE LineInv
    OBVIOUS
  <1>1. Made = {} /\ order = <<>> /\ DOMAIN order = {} /\ tail = 0 /\ Range(order) = {}
    BY DEF OutboundInit, Made, Range
  <1>2. OutboundTypeOK
    <2>1. \A S : <<>> \in Seq(S)
      OBVIOUS
    <2>2. QED
      BY <1>1, <2>1 DEF OutboundInit, OutboundTypeOK
  <1>3. InLine
    BY <1>1 DEF InLine, IsInjective
  <1>4. QED
    BY <1>2, <1>3 DEF LineInv

\* Whoever has begun is the first in line.
LEMMA StartedIsFirst ==
    ASSUME LineInv, NEW c \in Made, Unsettled(c), chunk[c].at # "waiting"
    PROVE  order # <<>> /\ order[1] = c
  <1>1. PICK i \in DOMAIN order : order[i] = c
    BY DEF LineInv, InLine, Range
  <1>2. QED
    BY <1>1 DEF LineInv, InLine, OutboundTypeOK

\* Whoever leaves the line is its first.
LEMMA FirstLeaves ==
    ASSUME NEW S, NEW s \in Seq(S), s # <<>>, IsInjective(s)
    PROVE  RemoveFirst(s, s[1]) = Tail(s)
  <1> DEFINE c == s[1]
             I == {i \in 1 .. Len(s) : s[i] = c}
  <1>1. I = {1}
    BY DEF IsInjective
  <1>2. SelectInSeq(s, LAMBDA v : v = c) = 1
    BY <1>1 DEF SelectInSeq, Min
  <1>3. RemoveFirst(s, c) = RemoveAt(s, 1)
    <2>1. \E i \in 1 .. Len(s) : s[i] = c BY <1>1
    <2>2. QED BY <1>2, <2>1 DEF RemoveFirst
  <1>4. RemoveAt(s, 1) = Tail(s)
    BY DEF RemoveAt
  <1>5. QED
    BY <1>3, <1>4

\* A new chunk changes nothing of those that were made before.
LEMMA ChunkMade ==
    ASSUME LineInv, NEW r \in Responses, NEW text \in BOOLEAN,
           NEW at \in {"rendering", "waiting"}, NEW after \in {0} \cup Made,
           chunk' = Append(chunk, NewChunk(r, text, at, after))
    PROVE  /\ chunk' \in Seq(Chunk) /\ Len(chunk') = Len(chunk) + 1
           /\ Len(chunk') \notin Made /\ Made' = Made \cup {Len(chunk')}
           /\ \A c \in Made : chunk'[c] = chunk[c]
           /\ chunk'[Len(chunk')] = NewChunk(r, text, at, after)
  <1>1. NewChunk(r, text, at, after) \in Chunk
    BY DEF NewChunk, Chunk, Responses, LineInv, OutboundTypeOK, Made
  <1>2. QED
    BY <1>1 DEF LineInv, OutboundTypeOK, Made

\* A step that changes some fields of the chunks.
LEMMA ChunksKept ==
    ASSUME LineInv, chunk' \in Seq(Chunk), Len(chunk') = Len(chunk)
    PROVE  Made' = Made
  BY DEF Made

LEMMA MoreMade ==
    ASSUME LineInv, Made \subseteq Made' PROVE \A s \in Seq(Made) : s \in Seq(Made')
  OBVIOUS

LEMMA OneChanges ==
    ASSUME LineInv, NEW c \in Made, NEW it \in Chunk, chunk' = [chunk EXCEPT ![c] = it]
    PROVE  /\ chunk' \in Seq(Chunk) /\ Len(chunk') = Len(chunk) /\ Made' = Made
           /\ chunk'[c] = it
           /\ \A d \in Made : d # c => chunk'[d] = chunk[d]
  BY DEF LineInv, OutboundTypeOK, Made

LEMMA CloseFacts ==
    ASSUME LineInv, NEW c \in Made, chunk' = Closed(c)
    PROVE  /\ chunk' \in Seq(Chunk) /\ Len(chunk') = Len(chunk) /\ Made' = Made
           /\ \A d \in Made : d # c => chunk'[d] = chunk[d]
           /\ chunk'[c].at = "closed" /\ chunk'[c].after = 0
           /\ chunk'[c].run = IF c \in Range(shown) THEN chunk[c].run ELSE 0
  <1> DEFINE it == [text |-> FALSE, at |-> "closed", fate |-> "none", sig |-> 0,
                    run |-> IF c \in Range(shown) THEN chunk[c].run ELSE 0,
                    stale |-> FALSE, after |-> 0]
  <1>1. chunk[c] \in Chunk
    BY DEF LineInv, OutboundTypeOK, Made
  <1>2. it \in Chunk
    BY <1>1 DEF Chunk
  <1>3. chunk' = [chunk EXCEPT ![c] = it]
    BY DEF Closed, LineInv, OutboundTypeOK, Made
  <1>4. /\ it.at = "closed" /\ it.after = 0
        /\ it.run = IF c \in Range(shown) THEN chunk[c].run ELSE 0
    OBVIOUS
  <1> HIDE DEF it
  <1>5. QED
    BY <1>2, <1>3, <1>4, OneChanges

LEMMA ProduceTextLine ==
    ASSUME LineInv, NEW r \in Responses, ProduceText(r) PROVE LineInv'
  <1>1. chunk' = Append(chunk, NewChunk(r, TRUE, "rendering", 0))
    BY DEF ProduceText
  <1>2. /\ chunk' \in Seq(Chunk) /\ Len(chunk') = Len(chunk) + 1
        /\ Len(chunk') \notin Made /\ Made' = Made \cup {Len(chunk')}
        /\ \A c \in Made : chunk'[c] = chunk[c]
        /\ chunk'[Len(chunk')] = NewChunk(r, TRUE, "rendering", 0)
    BY <1>1, ChunkMade
  <1> HIDE <1>1
  <1>3. OutboundTypeOK'
    BY <1>2, MoreMade DEF ProduceText, sessionVars, chatVars, LineInv, OutboundTypeOK
  <1>4. /\ order' = order /\ tail' = tail
    BY DEF ProduceText
  <1>5. InLine'
    <2>1. \A i \in DOMAIN order : order[i] \in Made
      BY DEF LineInv, OutboundTypeOK
    <2>2. IsInjective(order')
      BY <1>4 DEF LineInv, InLine
    <2>3. \A c \in Made' : c \in Range(order') <=> Unsettled(c)'
      <3>1. \A c \in Made : c \in Range(order) <=> Unsettled(c)
        BY DEF LineInv, InLine
      <3>2. \A c \in Made : Unsettled(c)' <=> Unsettled(c)
        BY <1>2 DEF Unsettled
      <3>3. \A c : c = Len(chunk') => c \notin Range(order) /\ ~Unsettled(c)'
        BY <1>2, <2>1 DEF Unsettled, NewChunk, Range
      <3>4. QED
        BY <1>2, <1>4, <3>1, <3>2, <3>3
    <2>4. \A p \in {0} \cup Made : Resolved(p) => Resolved(p)'
      BY <1>2 DEF Resolved
    <2>5. \A i \in DOMAIN order' :
             IF i = 1 THEN Resolved(chunk[order[i]].after)'
                      ELSE /\ chunk'[order'[i]].at = "waiting"
                           /\ chunk'[order'[i]].after = order'[i - 1]
      BY <1>2, <1>4, <2>1, <2>4 DEF LineInv, InLine
    <2>6. \A c \in Made' : chunk'[c].after \in {0} \cup Made'
      BY <1>2 DEF NewChunk, LineInv, InLine
    <2>7. tail' = IF order' = <<>> THEN 0 ELSE order'[Len(order')]
      BY <1>4 DEF LineInv, InLine
    <2>8. QED
      BY <2>2, <2>3, <2>5, <2>6, <2>7 DEF InLine
  <1>6. QED
    BY <1>3, <1>5 DEF LineInv

\* The one who joins the line waits for the tail.
LEMMA JoinsLine ==
    ASSUME LineInv, NEW c \in Made', c \notin Range(order),
           chunk' \in Seq(Chunk), Made \subseteq Made', Made' \ Made \subseteq {c},
           \A d \in Made \ {c} : chunk'[d] = chunk[d],
           c \in Made => chunk[c].at = "rendering",
           chunk'[c].at = "waiting", chunk'[c].after = tail,
           tail' = c, order' = Append(order, c)
    PROVE  InLine' /\ order' \in Seq(Made')
  <1> USE DEF LineInv, OutboundTypeOK, InLine
  <1>1. /\ order' \in Seq(Made') /\ Len(order') = Len(order) + 1
        /\ \A i \in DOMAIN order : order'[i] = order[i] /\ order[i] \in Made \ {c}
        /\ order'[Len(order')] = c
    BY DEF Range
  <1>2. IsInjective(order)'
    BY <1>1 DEF IsInjective, Range
  <1>3. \A d \in Made' : d \in Range(order') <=> Unsettled(d)'
    <2>1. Range(order') = Range(order) \cup {c}
      <3>1. DOMAIN order' = DOMAIN order \cup {Len(order')}
        BY <1>1
      <3>2. QED BY <1>1, <3>1 DEF Range
    <2>2. QED BY <2>1 DEF Unsettled
  <1>4. tail' = IF order' = <<>> THEN 0 ELSE order'[Len(order')]
    BY <1>1
  <1>5. \A i \in DOMAIN order' :
          IF i = 1 THEN Resolved(chunk[order[i]].after)'
                   ELSE /\ chunk'[order'[i]].at = "waiting"
                        /\ chunk'[order'[i]].after = order'[i - 1]
    <2> SUFFICES ASSUME NEW i \in DOMAIN order'
                 PROVE  IF i = 1 THEN Resolved(chunk[order[i]].after)'
                   ELSE /\ chunk'[order'[i]].at = "waiting"
                        /\ chunk'[order'[i]].after = order'[i - 1]
      OBVIOUS
    <2>1. CASE i = Len(order')
      BY <2>1, <1>1 DEF Resolved
    <2>2. CASE i # Len(order')
      <3>1. i \in DOMAIN order /\ order'[i] = order[i] /\ chunk'[order[i]] = chunk[order[i]]
        BY <2>2, <1>1
      <3>2. i # 1 => order'[i - 1] = order[i - 1]
        BY <3>1, <1>1
      <3>3. chunk[order[i]].after \in {0} \cup Made
        BY <3>1, <1>1
      <3>4. QED BY <3>1, <3>2, <3>3 DEF Resolved
    <2>3. QED BY <2>1, <2>2
  <1>6. \A d \in Made' : chunk'[d].after \in {0} \cup Made'
    OBVIOUS
  <1>7. QED
    BY <1>1, <1>2, <1>3, <1>4, <1>5, <1>6 DEF Unsettled

LEMMA EnqueueTextLine ==
    ASSUME LineInv, NEW c \in Made, EnqueueText(c) PROVE LineInv'
  <1>1. /\ chunk' \in Seq(Chunk) /\ Len(chunk') = Len(chunk)
        /\ \A d \in Made \ {c} : chunk'[d] = chunk[d]
        /\ chunk'[c].at = "waiting" /\ chunk'[c].after = tail
        /\ chunk[c].at = "rendering"
    <2>1. chunk[c] \in Chunk /\ tail \in Nat
      BY DEF LineInv, OutboundTypeOK, Made
    <2>2. [chunk[c] EXCEPT !.at = "waiting", !.after = tail] \in Chunk
      BY <2>1 DEF Chunk
    <2>3. chunk' = [chunk EXCEPT ![c] = [chunk[c] EXCEPT !.at = "waiting", !.after = tail]]
      BY DEF EnqueueText
    <2>4. /\ chunk' \in Seq(Chunk) /\ Len(chunk') = Len(chunk)
          /\ \A d \in Made : d # c => chunk'[d] = chunk[d]
          /\ chunk'[c] = [chunk[c] EXCEPT !.at = "waiting", !.after = tail]
      BY <2>2, <2>3, OneChanges
    <2>5. QED
      BY <2>1, <2>4 DEF EnqueueText, Chunk
  <1>2. Made' = Made BY <1>1 DEF Made
  <1>3. c \notin Range(order)
    BY <1>1 DEF LineInv, InLine, Unsettled
  <1>4. tail' = c /\ order' = Append(order, c)
    BY DEF EnqueueText
  <1>5. InLine' /\ order' \in Seq(Made')
    BY <1>1, <1>2, <1>3, <1>4, JoinsLine
  <1>6. OutboundTypeOK'
    BY <1>1, <1>2, <1>5 DEF EnqueueText, sessionVars, chatVars, LineInv, OutboundTypeOK
  <1>7. QED
    BY <1>5, <1>6 DEF LineInv

LEMMA EnqueueMediaLine ==
    ASSUME LineInv, NEW r \in Responses, EnqueueMedia(r) PROVE LineInv'
  <1>1. /\ chunk' = Append(chunk, NewChunk(r, FALSE, "waiting", tail))
        /\ tail \in {0} \cup Made
    BY DEF EnqueueMedia, LineInv, OutboundTypeOK
  <1>2. /\ chunk' \in Seq(Chunk) /\ Len(chunk') = Len(chunk) + 1
        /\ Len(chunk') \notin Made /\ Made' = Made \cup {Len(chunk')}
        /\ \A c \in Made : chunk'[c] = chunk[c]
        /\ chunk'[Len(chunk')] = NewChunk(r, FALSE, "waiting", tail)
    BY <1>1, ChunkMade
  <1>3. tail' = Len(chunk') /\ order' = Append(order, Len(chunk'))
    BY <1>2 DEF EnqueueMedia
  <1>4. Len(chunk') \notin Range(order)
    BY <1>2 DEF LineInv, OutboundTypeOK, Range
  <1> HIDE <1>1
  <1>5. InLine' /\ order' \in Seq(Made')
    BY <1>2, <1>3, <1>4, JoinsLine DEF NewChunk
  <1>6. \A s \in Seq(Made) : s \in Seq(Made')
    BY <1>2
  <1>7. OutboundTypeOK'
    BY <1>2, <1>3, <1>5, <1>6 DEF EnqueueMedia, sessionVars, chatVars, LineInv, OutboundTypeOK
  <1>8. QED
    BY <1>5, <1>7 DEF LineInv

LEMMA DropTextLine ==
    ASSUME LineInv, NEW c \in Made, DropText(c) PROVE LineInv'
  <1>1. chunk' = Closed(c) /\ order' = order /\ tail' = tail /\ chunk[c].at = "rendering"
    BY DEF DropText
  <1>2. /\ chunk' \in Seq(Chunk) /\ Len(chunk') = Len(chunk) /\ Made' = Made
        /\ \A d \in Made : d # c => chunk'[d] = chunk[d]
        /\ chunk'[c].at = "closed" /\ chunk'[c].after = 0
    BY <1>1, CloseFacts
  <1> HIDE <1>1
  <1>3. OutboundTypeOK'
    BY <1>2 DEF DropText, sessionVars, chatVars, LineInv, OutboundTypeOK
  <1>4. InLine'
    <2>1. \A d \in Made : Unsettled(d)' <=> Unsettled(d)
      BY <1>1, <1>2 DEF Unsettled
    <2>2. \A i \in DOMAIN order : order[i] \in Made /\ order[i] # c
      <3>1. order \in Seq(Made)
        BY DEF LineInv, OutboundTypeOK
      <3>2. \A d \in Range(order) \cap Made : Unsettled(d)
        BY DEF LineInv, InLine
      <3>3. ~Unsettled(c)
        BY <1>1 DEF Unsettled
      <3>4. \A i \in DOMAIN order : order[i] \in Made /\ order[i] \in Range(order)
        BY <3>1 DEF Range
      <3>5. QED
        BY <3>2, <3>3, <3>4
    <2>3. \A p \in {0} \cup Made : Resolved(p) => Resolved(p)'
      BY <1>2 DEF Resolved
    <2>4. \A i \in DOMAIN order' :
             IF i = 1 THEN Resolved(chunk[order[i]].after)'
                      ELSE /\ chunk'[order'[i]].at = "waiting"
                           /\ chunk'[order'[i]].after = order'[i - 1]
      <3> SUFFICES ASSUME NEW i \in DOMAIN order
                   PROVE  IF i = 1 THEN Resolved(chunk[order[i]].after)'
                                   ELSE /\ chunk'[order[i]].at = "waiting"
                                        /\ chunk'[order[i]].after = order[i - 1]
        BY <1>1
      <3>1. chunk'[order[i]] = chunk[order[i]] /\ order[i] \in Made
        BY <1>2, <2>2
      <3>2. IF i = 1 THEN Resolved(chunk[order[i]].after)
                     ELSE /\ chunk[order[i]].at = "waiting"
                          /\ chunk[order[i]].after = order[i - 1]
        BY DEF LineInv, InLine
      <3>3. chunk[order[i]].after \in {0} \cup Made
        BY <3>1 DEF LineInv, InLine
      <3>4. \A p : p = chunk[order[i]].after /\ Resolved(p)' => Resolved(chunk[order[i]].after)'
        BY <1>1, <3>1 DEF Resolved
      <3>5. QED
        BY <3>1, <3>2, <3>3, <3>4, <2>3
    <2>5. \A d \in Made' : chunk'[d].after \in {0} \cup Made'
      BY <1>2 DEF LineInv, InLine
    <2>6. QED
      BY <1>1, <1>2, <2>1, <2>4, <2>5 DEF LineInv, InLine
  <1>5. QED
    BY <1>3, <1>4 DEF LineInv

\* The task of the first one in line goes on.
LEMMA FirstGoesOn ==
    ASSUME LineInv, NEW c \in Made, order # <<>>, order[1] = c,
           Resolved(chunk[c].after),
           NEW it \in Chunk, chunk' = [chunk EXCEPT ![c] = it],
           it.at \in {"delaying", "sending", "settled"}, it.after = chunk[c].after,
           order' = order, tail' = tail
    PROVE  InLine' /\ Made' = Made /\ chunk' \in Seq(Chunk)
  <1>1. /\ chunk' \in Seq(Chunk) /\ Made' = Made
        /\ chunk'[c] = it
        /\ \A d \in Made : d # c => chunk'[d] = chunk[d]
    BY OneChanges
  <1>2. 1 \in DOMAIN order /\ \A i \in DOMAIN order : order[i] \in Made /\ (order[i] = c <=> i = 1)
    BY DEF LineInv, InLine, OutboundTypeOK, IsInjective
  <1>3. \A d \in Made : Unsettled(d)' <=> Unsettled(d)
    BY <1>1, <1>2 DEF Unsettled, LineInv, InLine, Range
  <1>4. \A p \in {0} \cup Made : Resolved(p) => Resolved(p)'
    <2>1. chunk[c].at # "closed"
      BY <1>2 DEF Unsettled, LineInv, InLine, Range
    <2>2. QED
      BY <1>1, <2>1 DEF Resolved
  <1>5. \A i \in DOMAIN order' :
           IF i = 1 THEN Resolved(chunk[order[i]].after)'
                    ELSE /\ chunk'[order'[i]].at = "waiting"
                         /\ chunk'[order'[i]].after = order'[i - 1]
    <2> SUFFICES ASSUME NEW i \in DOMAIN order'
                 PROVE  IF i = 1 THEN Resolved(chunk[order[i]].after)'
                                 ELSE /\ chunk'[order'[i]].at = "waiting"
                                      /\ chunk'[order'[i]].after = order'[i - 1]
      OBVIOUS
    <2>1. CASE i = 1
      <3>1. chunk'[order'[i]].after = chunk[c].after
        BY <1>1, <2>1
      <3>2. chunk[c].after \in {0} \cup Made
        BY DEF LineInv, InLine
      <3>3. QED BY <2>1, <3>1, <3>2, <1>4
    <2>2. CASE i # 1
      <3>1. i \in DOMAIN order /\ order[i] \in Made /\ chunk'[order[i]] = chunk[order[i]]
        BY <1>1, <1>2, <2>2
      <3>2. chunk[order[i]].at = "waiting" /\ chunk[order[i]].after = order[i - 1]
        BY <2>2, <3>1 DEF LineInv, InLine
      <3>3. QED BY <2>2, <3>1, <3>2
    <2>3. QED BY <2>1, <2>2
  <1>6. \A d \in Made' : chunk'[d].after \in {0} \cup Made'
    BY <1>1 DEF LineInv, InLine
  <1>7. QED
    BY <1>1, <1>3, <1>5, <1>6 DEF LineInv, InLine

\* Whoever's predecessor has settled is the first.
LEMMA ResolvedIsFirst ==
    ASSUME LineInv, NEW c \in Made, Unsettled(c),
           Resolved(chunk[c].after) \/ chunk[c].at # "waiting"
    PROVE  order # <<>> /\ order[1] = c /\ Resolved(chunk[c].after)
  <1>1. PICK i \in DOMAIN order : order[i] = c
    BY DEF LineInv, InLine, Range
  <1>2. order # <<>> /\ i \in 1 .. Len(order)
    BY <1>1 DEF LineInv, OutboundTypeOK
  <1>3. ASSUME i # 1 PROVE FALSE
    <2>1. chunk[c].after = order[i - 1] /\ i - 1 \in DOMAIN order /\ chunk[c].at = "waiting"
      BY <1>1, <1>2, <1>3 DEF LineInv, InLine, OutboundTypeOK
    <2>2. order[i - 1] \in Made /\ Unsettled(order[i - 1]) /\ order[i - 1] # 0
      <3>1. order[i - 1] \in Made /\ order[i - 1] \in Range(order)
        BY <2>1 DEF LineInv, OutboundTypeOK, Range
      <3>2. QED BY <3>1 DEF LineInv, InLine, Made
    <2>3. QED
      BY <2>1, <2>2 DEF Resolved, Unsettled
  <1>4. QED
    BY <1>1, <1>2, <1>3 DEF LineInv, InLine

LEMMA QueueStepLine ==
    ASSUME LineInv, NEW c \in Made, Start(c) \/ DelayEnds(c) \/ SendSucceeds(c) \/ SendFails(c)
    PROVE  LineInv'
  <1>1. /\ Unsettled(c) /\ order' = order /\ tail' = tail
        /\ Resolved(chunk[c].after) \/ chunk[c].at # "waiting"
    BY DEF Start, DelayEnds, SendSucceeds, SendFails, Unsettled
  <1>2. order # <<>> /\ order[1] = c /\ Resolved(chunk[c].after)
    BY <1>1, ResolvedIsFirst
  <1>3. chunk[c] \in Chunk
    BY DEF LineInv, OutboundTypeOK, Made
  <1>4. \E at \in {"delaying", "sending", "settled"},
           fate \in {"none", "skipped", "sent", "failed"} :
           chunk' = [chunk EXCEPT ![c] = [chunk[c] EXCEPT !.at = at, !.fate = fate]]
    <2>1. \A at : [chunk[c] EXCEPT !.at = at] = [chunk[c] EXCEPT !.at = at, !.fate = chunk[c].fate]
      BY <1>3 DEF Chunk
    <2>2. chunk[c].fate \in {"none", "skipped", "sent", "failed"}
      BY <1>3 DEF Chunk
    <2>3. ASSUME NEW at \in {"delaying", "sending"}, chunk' = [chunk EXCEPT ![c].at = at]
          PROVE  chunk' = [chunk EXCEPT ![c] = [chunk[c] EXCEPT !.at = at, !.fate = chunk[c].fate]]
      BY <2>1, <2>3
    <2>4. ASSUME NEW fate \in {"skipped", "sent", "failed"}, Settle(c, fate)
          PROVE  chunk' = [chunk EXCEPT ![c] = [chunk[c] EXCEPT !.at = "settled", !.fate = fate]]
      BY <2>4 DEF Settle
    <2>5. CASE \E fate \in {"skipped", "sent", "failed"} : Settle(c, fate)
      BY <2>4, <2>5
    <2>6. CASE \E at \in {"delaying", "sending"} : chunk' = [chunk EXCEPT ![c].at = at]
      BY <2>2, <2>3, <2>6
    <2>7. QED
      BY <2>5, <2>6 DEF Start, DelayEnds, SendSucceeds, SendFails
  <1>5. PICK at \in {"delaying", "sending", "settled"},
             fate \in {"none", "skipped", "sent", "failed"} :
           chunk' = [chunk EXCEPT ![c] = [chunk[c] EXCEPT !.at = at, !.fate = fate]]
    BY <1>4
  <1> DEFINE it == [chunk[c] EXCEPT !.at = at, !.fate = fate]
  <1>6. it \in Chunk /\ it.at = at /\ it.after = chunk[c].after
    BY <1>3 DEF Chunk
  <1>7. chunk' = [chunk EXCEPT ![c] = it]
    BY <1>5
  <1> HIDE DEF it
  <1>8. InLine' /\ Made' = Made /\ chunk' \in Seq(Chunk)
    BY <1>1, <1>2, <1>6, <1>7, FirstGoesOn
  <1>9. shown' \in Seq(Made) /\ history' \in Seq(Made)
    <2>1. /\ shown \in Seq(Made) /\ history \in Seq(Made)
          /\ Append(shown, c) \in Seq(Made) /\ Append(history, c) \in Seq(Made)
      BY DEF LineInv, OutboundTypeOK
    <2>2. shown' \in {shown, Append(shown, c)} /\ history' \in {history, Append(history, c)}
      BY DEF Start, DelayEnds, SendSucceeds, SendFails, chatVars
    <2>3. QED BY <2>1, <2>2
  <1>10. OutboundTypeOK'
    BY <1>1, <1>8, <1>9 DEF Start, DelayEnds, SendSucceeds, SendFails, sessionVars, LineInv,
         OutboundTypeOK
  <1>11. QED
    BY <1>8, <1>10 DEF LineInv

LEMMA SettledLine ==
    ASSUME LineInv, NEW c \in Made, Settled(c) PROVE LineInv'
  <1>1. chunk' = Closed(c) /\ chunk[c].at = "settled"
    BY DEF Settled
  <1>2. /\ chunk' \in Seq(Chunk) /\ Len(chunk') = Len(chunk) /\ Made' = Made
        /\ \A d \in Made : d # c => chunk'[d] = chunk[d]
        /\ chunk'[c].at = "closed" /\ chunk'[c].after = 0
    BY <1>1, CloseFacts
  <1>3. order # <<>> /\ order[1] = c
    BY <1>1, StartedIsFirst DEF Unsettled
  <1>4. order \in Seq(Made) /\ IsInjective(order)
    BY DEF LineInv, InLine, OutboundTypeOK
  <1>5. order' = Tail(order)
    BY <1>3, <1>4, FirstLeaves DEF Settled
  <1>6. /\ order' \in Seq(Made) /\ Len(order') = Len(order) - 1
        /\ \A i \in 1 .. Len(order') : order'[i] = order[i + 1]
        /\ DOMAIN order' = 1 .. Len(order') /\ DOMAIN order = 1 .. Len(order)
    BY <1>3, <1>4, <1>5
  <1>7. \A i \in DOMAIN order : order[i] \in Made /\ (order[i] = c <=> i = 1)
    BY <1>3, <1>4, <1>6 DEF IsInjective
  <1>8. tail' = IF tail = c THEN 0 ELSE tail
    BY DEF Settled
  <1>9. tail' = IF order' = <<>> THEN 0 ELSE order'[Len(order')]
    <2>1. tail = order[Len(order)] /\ Len(order) \in DOMAIN order
      BY <1>3, <1>4 DEF LineInv, InLine
    <2>2. CASE Len(order) = 1
      BY <1>3, <1>6, <1>8, <2>1, <2>2
    <2>3. CASE Len(order) # 1
      BY <1>6, <1>7, <1>8, <2>1, <2>3
    <2>4. QED BY <2>2, <2>3
  <1>10. IsInjective(order')
    BY <1>4, <1>6 DEF IsInjective
  <1>11. \A d \in Made : d \in Range(order') <=> Unsettled(d)'
    <2>1. \A d \in Made : d \in Range(order') <=> d \in Range(order) /\ d # c
      <3>1. \A d \in Made : d \in Range(order') => d \in Range(order) /\ d # c
        BY <1>6, <1>7 DEF Range
      <3>2. ASSUME NEW d \in Made, d \in Range(order), d # c PROVE d \in Range(order')
        <4>1. PICK i \in DOMAIN order : order[i] = d
          BY <3>2 DEF Range
        <4>2. i - 1 \in DOMAIN order' /\ order'[i - 1] = d
          BY <4>1, <3>2, <1>6, <1>7
        <4>3. QED BY <4>2 DEF Range
      <3>3. QED BY <3>1, <3>2
    <2>2. Unsettled(c) /\ ~Unsettled(c)'
      BY <1>1, <1>2 DEF Unsettled
    <2>3. \A d \in Made : d # c => (Unsettled(d)' <=> Unsettled(d))
      BY <1>2 DEF Unsettled
    <2>4. QED
      BY <2>1, <2>2, <2>3 DEF LineInv, InLine
  <1>12. \A i \in DOMAIN order' :
           IF i = 1 THEN Resolved(chunk[order[i]].after)'
                    ELSE /\ chunk'[order'[i]].at = "waiting"
                         /\ chunk'[order'[i]].after = order'[i - 1]
    <2> SUFFICES ASSUME NEW i \in DOMAIN order'
                 PROVE  IF i = 1 THEN Resolved(chunk[order[i]].after)'
                                 ELSE /\ chunk'[order'[i]].at = "waiting"
                                      /\ chunk'[order'[i]].after = order'[i - 1]
      OBVIOUS
    <2>1. i + 1 \in DOMAIN order /\ order'[i] = order[i + 1] /\ chunk'[order'[i]] = chunk[order[i + 1]]
      BY <1>6, <1>7, <1>2
    <2>2. chunk[order[i + 1]].at = "waiting" /\ chunk[order[i + 1]].after = order[i]
      BY <2>1, <1>6 DEF LineInv, InLine
    <2>3. CASE i = 1
      BY <2>1, <2>2, <2>3, <1>2, <1>3 DEF Resolved
    <2>4. CASE i # 1
      <3>1. order'[i - 1] = order[i]
        BY <2>4, <1>6
      <3>2. QED BY <3>1, <2>1, <2>2, <2>4
    <2>5. QED BY <2>3, <2>4
  <1>13. InLine'
    <2>1. \A d \in Made : chunk'[d].after \in {0} \cup Made
      BY <1>2 DEF LineInv, InLine
    <2>2. QED
      BY <1>2, <1>9, <1>10, <1>11, <1>12, <2>1 DEF InLine
  <1>14. tail' \in {0} \cup Made
    BY <1>8 DEF LineInv, OutboundTypeOK
  <1>15. OutboundTypeOK'
    BY <1>2, <1>6, <1>14 DEF Settled, sessionVars, chatVars, LineInv, OutboundTypeOK
  <1>16. QED
    BY <1>13, <1>15 DEF LineInv

\* What disturbs the output changes only what is observed of the chunks.
LEMMA DisturbedChunks ==
    ASSUME LineInv, Disturbed
    PROVE  /\ chunk' \in Seq(Chunk) /\ Made' = Made
           /\ \A c \in Made : /\ chunk'[c] \in Chunk
                              /\ chunk'[c].at = chunk[c].at /\ chunk'[c].run = chunk[c].run
                              /\ chunk'[c].sig = chunk[c].sig /\ chunk'[c].text = chunk[c].text
                              /\ chunk'[c].after = chunk[c].after
                              /\ chunk'[c].stale = (chunk[c].stale \/
                                                    (chunk[c].run = epoch /\ ~Finished(c)))
  <1>1. \A c \in Made : chunk[c] \in Chunk
    BY DEF LineInv, OutboundTypeOK, Made
  <1> DEFINE it(c) == [chunk[c] EXCEPT !.stale = @ \/ (chunk[c].run = epoch /\ ~Finished(c))]
  <1>2. chunk' = [c \in Made |-> it(c)]
    BY DEF Disturbed
  <1>3. \A c \in Made :
           /\ it(c) \in Chunk
           /\ it(c).at = chunk[c].at /\ it(c).run = chunk[c].run
           /\ it(c).sig = chunk[c].sig /\ it(c).text = chunk[c].text
           /\ it(c).after = chunk[c].after
           /\ it(c).stale = (chunk[c].stale \/ (chunk[c].run = epoch /\ ~Finished(c)))
    BY <1>1 DEF Chunk
  <1> HIDE DEF it
  <1>4. Len(chunk) \in Nat /\ Made = 1 .. Len(chunk)
    BY DEF LineInv, OutboundTypeOK, Made
  <1>5. chunk' \in Seq(Chunk) /\ Len(chunk') = Len(chunk)
    BY <1>2, <1>3, <1>4, IsASeq
  <1>6. Made' = Made
    BY <1>5 DEF Made
  <1>7. QED
    BY <1>2, <1>3, <1>5, <1>6

LEMMA DisturbedLine ==
    ASSUME LineInv, Mute \/ Interrupt \/ Stop \/ Clear \/ Reset PROVE LineInv'
  <1>1. Disturbed
    BY DEF Mute, Interrupt, Stop, Clear, Reset
  <1>2. /\ chunk' \in Seq(Chunk) /\ Made' = Made
        /\ \A c \in Made : chunk'[c].at = chunk[c].at /\ chunk'[c].after = chunk[c].after
    BY <1>1, DisturbedChunks
  <1>3. order' = order /\ tail' = tail /\ shown' = shown /\ history' = history /\ mutes' \in Nat
    BY <1>1 DEF Disturbed, chatVars, LineInv, OutboundTypeOK
  <1>4. /\ open' \in BOOLEAN /\ out' \in Nat /\ muted' \subseteq Nat /\ cut' \subseteq Nat
        /\ UNCHANGED <<epoch, completed, working, drain>>
    <2>1. /\ open \in BOOLEAN /\ out \in Nat /\ epoch \in Nat
          /\ muted \subseteq Nat /\ cut \subseteq Nat
      BY DEF LineInv, OutboundTypeOK
    <2>2. CASE Mute BY <2>1, <2>2 DEF Mute
    <2>3. CASE Interrupt BY <2>1, <2>3 DEF Interrupt
    <2>4. CASE Stop BY <2>1, <2>4 DEF Stop
    <2>5. CASE Clear BY <2>1, <2>5 DEF Clear
    <2>6. CASE Reset BY <2>1, <2>6 DEF Reset
    <2>7. QED BY <2>2, <2>3, <2>4, <2>5, <2>6
  <1>5. OutboundTypeOK'
    BY <1>2, <1>3, <1>4 DEF LineInv, OutboundTypeOK
  <1>6. InLine'
    <2>1. \A i \in DOMAIN order : order[i] \in Made
      BY DEF LineInv, OutboundTypeOK
    <2>2. \A d \in Made : Unsettled(d)' <=> Unsettled(d)
      BY <1>2 DEF Unsettled
    <2>3. \A p \in {0} \cup Made : Resolved(p) => Resolved(p)'
      BY <1>2 DEF Resolved
    <2>4. \A i \in DOMAIN order' :
             IF i = 1 THEN Resolved(chunk[order[i]].after)'
                      ELSE /\ chunk'[order'[i]].at = "waiting"
                           /\ chunk'[order'[i]].after = order'[i - 1]
      BY <1>2, <1>3, <2>1, <2>3 DEF LineInv, InLine
    <2>5. \A d \in Made' : chunk'[d].after \in {0} \cup Made'
      BY <1>2 DEF LineInv, InLine
    <2>6. QED
      BY <1>2, <1>3, <2>2, <2>4, <2>5 DEF LineInv, InLine
  <1>7. QED
    BY <1>5, <1>6 DEF LineInv

LEMMA SessionStepLine ==
    ASSUME LineInv, NEW r,
           BeginResponse \/ Renew \/ StopWorking(r) \/ Complete(r) \/ UNCHANGED outboundVars
    PROVE  LineInv'
  <1>1. UNCHANGED queueVars /\ UNCHANGED chatVars
    BY DEF BeginResponse, Renew, StopWorking, Complete, outboundVars
  <1>2. InLine'
    BY <1>1 DEF LineInv, InLine, queueVars, Unsettled, Resolved, Made
  <1>3. /\ epoch' \in Nat /\ open' \in BOOLEAN /\ out' \in Nat /\ mutes' \in Nat
        /\ muted' \subseteq Nat /\ cut' \subseteq Nat /\ completed' \subseteq Nat
        /\ working' \subseteq Nat /\ drain' \in {0} \cup Made
    <2>1. /\ open \in BOOLEAN /\ out \in Nat /\ epoch \in Nat /\ mutes \in Nat
          /\ muted \subseteq Nat /\ cut \subseteq Nat /\ completed \subseteq Nat
          /\ working \subseteq Nat /\ drain \in {0} \cup Made /\ tail \in {0} \cup Made
      BY DEF LineInv, OutboundTypeOK
    <2>2. CASE BeginResponse BY <2>1, <2>2 DEF BeginResponse
    <2>3. CASE Renew BY <2>1, <2>3 DEF Renew
    <2>4. CASE StopWorking(r) BY <2>1, <2>4 DEF StopWorking
    <2>5. CASE Complete(r) BY <2>1, <2>5 DEF Complete
    <2>6. CASE UNCHANGED outboundVars BY <2>1, <2>6 DEF outboundVars, sessionVars
    <2>7. QED BY <2>2, <2>3, <2>4, <2>5, <2>6
  <1>4. OutboundTypeOK'
    BY <1>1, <1>3 DEF queueVars, chatVars, LineInv, OutboundTypeOK, Made
  <1>5. QED
    BY <1>2, <1>4 DEF LineInv

LEMMA OutboundStepLine ==
    ASSUME LineInv, [OutboundNext]_outboundVars PROVE LineInv'
  <1>1. ASSUME NEW r \in Responses, ProduceText(r) \/ EnqueueMedia(r) PROVE LineInv'
    BY <1>1, ProduceTextLine, EnqueueMediaLine
  <1>2. ASSUME NEW c \in Made, EnqueueText(c) \/ DropText(c) \/ QueueStep(c) PROVE LineInv'
    BY <1>2, EnqueueTextLine, DropTextLine, QueueStepLine, SettledLine DEF QueueStep
  <1>3. ASSUME BeginResponse \/ Renew \/ UNCHANGED outboundVars PROVE LineInv'
    BY <1>3, SessionStepLine
  <1>4. ASSUME Mute \/ Interrupt \/ Stop \/ Clear \/ Reset PROVE LineInv'
    BY <1>4, DisturbedLine
  <1>5. ASSUME NEW r \in Responses, StopWorking(r) \/ Complete(r) PROVE LineInv'
    BY <1>5, SessionStepLine
  <1>6. QED
    BY <1>1, <1>2, <1>3, <1>4, <1>5 DEF OutboundNext

(* The signals of a chunk, and what the runs and the transcript know of it.  *)

\* What is not sent yet of the open response has captured the controller that
\* is live, or one that was aborted; and what was disturbed is aborted.
SignalsHold ==
    \A c \in Made : open /\ chunk[c].run = epoch /\ ~Finished(c) =>
        /\ chunk[c].sig = out \/ chunk[c].sig \in muted
        /\ chunk[c].stale => Aborted(c)

\* A run that completed its response waits for no text, and the transcript has
\* what the chat shows of the open one.
RunsAnswer ==
    /\ completed \cap working = {}
    /\ completed \subseteq 1 .. epoch /\ working \subseteq 1 .. epoch
    /\ \A c \in Made :
          /\ chunk[c].run <= epoch
          /\ chunk[c].text /\ ~Finished(c) => chunk[c].run \in working
          /\ c \in Range(shown) => Finished(c)
          /\ c \in Range(shown) /\ open /\ chunk[c].run = epoch => c \in Range(history)

OutboundInv == LineInv /\ SignalsHold /\ RunsAnswer /\ HistoryMatchesChat

LEMMA OutboundInitInv == OutboundInit => OutboundInv
  <1> SUFFICES ASSUME OutboundInit PROVE OutboundInv
    OBVIOUS
  <1>1. Made = {} /\ Range(history) = {} /\ Range(shown) = {} /\ DOMAIN shown = {}
        /\ DOMAIN history = {}
    BY DEF OutboundInit, Made, Range
  <1>2. SignalsHold /\ RunsAnswer /\ HistoryMatchesChat
    BY <1>1 DEF OutboundInit, SignalsHold, RunsAnswer, HistoryMatchesChat, IsInjective
  <1>3. QED
    BY <1>2, OutboundInitLine DEF OutboundInv

\* What a step of the queue may do to a chunk.
LEMMA ChunkMoves ==
    ASSUME LineInv, NEW c \in Made, EnqueueText(c) \/ DropText(c) \/ QueueStep(c)
    PROVE  /\ Made' = Made /\ UNCHANGED sessionVars
           /\ \A d \in Made : d # c => chunk'[d] = chunk[d]
           /\ Finished(c) => Finished(c)'
           /\ \/ /\ chunk'[c].run = chunk[c].run /\ chunk'[c].sig = chunk[c].sig
                 /\ chunk'[c].stale = chunk[c].stale /\ chunk'[c].text = chunk[c].text
              \/ /\ Finished(c)'
                 /\ chunk'[c].run = IF c \in Range(shown) THEN chunk[c].run ELSE 0
           /\ \/ UNCHANGED chatVars
              \/ SendSucceeds(c)
  <1>1. UNCHANGED sessionVars /\ (UNCHANGED chatVars \/ SendSucceeds(c))
    BY DEF EnqueueText, DropText, QueueStep, Start, DelayEnds, SendFails, Settled, SendSucceeds
  <1>2. chunk[c] \in Chunk
    BY DEF LineInv, OutboundTypeOK, Made
  <1>3. CASE DropText(c) \/ Settled(c)
    <2>1. chunk' = Closed(c)
      BY <1>3 DEF DropText, Settled
    <2>2. /\ Made' = Made /\ chunk'[c].at = "closed"
          /\ \A d \in Made : d # c => chunk'[d] = chunk[d]
          /\ chunk'[c].run = IF c \in Range(shown) THEN chunk[c].run ELSE 0
      BY <2>1, CloseFacts
    <2>3. QED BY <1>1, <2>2 DEF Finished
  <1>4. CASE EnqueueText(c) \/ Start(c) \/ DelayEnds(c) \/ SendSucceeds(c) \/ SendFails(c)
    <2>1. \E it \in Chunk :
             /\ chunk' = [chunk EXCEPT ![c] = it]
             /\ it.run = chunk[c].run /\ it.sig = chunk[c].sig
             /\ it.stale = chunk[c].stale /\ it.text = chunk[c].text
      <3>1. CASE EnqueueText(c)
        <4> DEFINE it == [chunk[c] EXCEPT !.at = "waiting", !.after = tail]
        <4>1. tail \in Nat
          BY DEF LineInv, OutboundTypeOK, Made
        <4>2. /\ it \in Chunk /\ it.run = chunk[c].run /\ it.sig = chunk[c].sig
              /\ it.stale = chunk[c].stale /\ it.text = chunk[c].text
          BY <1>2, <4>1 DEF Chunk
        <4>3. chunk' = [chunk EXCEPT ![c] = it]
          BY <3>1 DEF EnqueueText
        <4> HIDE DEF it
        <4>4. QED BY <4>2, <4>3
      <3>2. CASE \E fate \in {"skipped", "sent", "failed"} : Settle(c, fate)
        <4>1. PICK fate \in {"skipped", "sent", "failed"} : Settle(c, fate)
          BY <3>2
        <4> DEFINE it == [chunk[c] EXCEPT !.at = "settled", !.fate = fate]
        <4>2. /\ it \in Chunk /\ it.run = chunk[c].run /\ it.sig = chunk[c].sig
              /\ it.stale = chunk[c].stale /\ it.text = chunk[c].text
          BY <1>2 DEF Chunk
        <4>3. chunk' = [chunk EXCEPT ![c] = it]
          BY <4>1 DEF Settle
        <4> HIDE DEF it
        <4>4. QED BY <4>2, <4>3
      <3>3. CASE \E at \in {"delaying", "sending"} : chunk' = [chunk EXCEPT ![c].at = at]
        <4>1. PICK at \in {"delaying", "sending"} : chunk' = [chunk EXCEPT ![c].at = at]
          BY <3>3
        <4> DEFINE it == [chunk[c] EXCEPT !.at = at]
        <4>2. /\ it \in Chunk /\ it.run = chunk[c].run /\ it.sig = chunk[c].sig
              /\ it.stale = chunk[c].stale /\ it.text = chunk[c].text
          BY <1>2 DEF Chunk
        <4>3. chunk' = [chunk EXCEPT ![c] = it]
          BY <4>1
        <4> HIDE DEF it
        <4>4. QED BY <4>2, <4>3
      <3>4. QED
        BY <1>4, <3>1, <3>2, <3>3 DEF Start, DelayEnds, SendSucceeds, SendFails
    <2>2. PICK it \in Chunk :
             /\ chunk' = [chunk EXCEPT ![c] = it]
             /\ it.run = chunk[c].run /\ it.sig = chunk[c].sig
             /\ it.stale = chunk[c].stale /\ it.text = chunk[c].text
      BY <2>1
    <2>3. ~Finished(c)
      BY <1>4 DEF EnqueueText, Start, DelayEnds, SendSucceeds, SendFails, Finished
    <2>4. /\ Made' = Made /\ chunk'[c] = it
          /\ \A d \in Made : d # c => chunk'[d] = chunk[d]
      BY <2>2, OneChanges
    <2>5. QED
      BY <1>1, <2>2, <2>3, <2>4
  <1>5. QED
    BY <1>3, <1>4 DEF QueueStep

\* Making a chunk, seen from the session.
LEMMA ChunkBegins ==
    ASSUME LineInv, NEW r \in Responses, ProduceText(r) \/ EnqueueMedia(r)
    PROVE  /\ r \in working /\ UNCHANGED sessionVars /\ UNCHANGED chatVars
           /\ \A d \in Made : chunk'[d] = chunk[d]
           /\ Made' = Made \cup {Len(chunk')} /\ Len(chunk') \notin Made
           /\ \A c : c = Len(chunk') => /\ chunk'[c].run = r /\ chunk'[c].sig = out
                                        /\ chunk'[c].stale = FALSE /\ ~Finished(c)'
  <1>1. \E text \in BOOLEAN, at \in {"rendering", "waiting"}, after \in {0} \cup Made :
           chunk' = Append(chunk, NewChunk(r, text, at, after))
    BY DEF ProduceText, EnqueueMedia, LineInv, OutboundTypeOK
  <1>2. PICK text \in BOOLEAN, at \in {"rendering", "waiting"}, after \in {0} \cup Made :
           chunk' = Append(chunk, NewChunk(r, text, at, after))
    BY <1>1
  <1>3. /\ Len(chunk') \notin Made /\ Made' = Made \cup {Len(chunk')}
        /\ \A c \in Made : chunk'[c] = chunk[c]
        /\ chunk'[Len(chunk')] = NewChunk(r, text, at, after)
    BY <1>2, ChunkMade
  <1>4. r \in working /\ UNCHANGED sessionVars /\ UNCHANGED chatVars
    BY DEF ProduceText, EnqueueMedia
  <1>5. QED
    BY <1>3, <1>4 DEF NewChunk, Finished

\* Signals are captured when a chunk is made, and a controller is left only
\* after it was aborted.
LEMMA OutboundStepSignals ==
    ASSUME OutboundInv, [OutboundNext]_outboundVars PROVE SignalsHold'
  <1> USE DEF OutboundInv
  <1>t. /\ epoch \in Nat /\ open \in BOOLEAN /\ \A c \in Made : chunk[c].stale \in BOOLEAN
    <2>1. \A c \in Made : chunk[c] \in Chunk
      BY DEF LineInv, OutboundTypeOK, Made
    <2>2. QED
      BY <2>1 DEF LineInv, OutboundTypeOK, Chunk
  <1>1. ASSUME NEW r \in Responses, ProduceText(r) \/ EnqueueMedia(r) PROVE SignalsHold'
    <2>1. UNCHANGED sessionVars /\ \A d \in Made : chunk'[d] = chunk[d]
      BY <1>1, ChunkBegins
    <2>2. \A c \in Made' \ Made : chunk'[c].sig = out /\ chunk'[c].stale = FALSE
      BY <1>1, ChunkBegins
    <2>3. QED
      BY <2>1, <2>2 DEF SignalsHold, sessionVars, Finished, Aborted
  <1>2. ASSUME NEW c \in Made, EnqueueText(c) \/ DropText(c) \/ QueueStep(c) PROVE SignalsHold'
    BY <1>2, ChunkMoves DEF SignalsHold, sessionVars, Finished, Aborted
  <1>3. CASE BeginResponse
    <2>1. Made' = Made /\ chunk' = chunk /\ epoch' = epoch + 1
      BY <1>3 DEF BeginResponse, queueVars, Made
    <2>2. \A c \in Made : chunk[c].run # epoch'
      BY <2>1, <1>t DEF RunsAnswer, LineInv, OutboundTypeOK, Chunk, Made
    <2>3. QED
      BY <2>1, <2>2 DEF SignalsHold
  <1>4. CASE Renew
    BY <1>4 DEF Renew, SignalsHold, queueVars, Made, Finished, Aborted
  <1>5. CASE Mute \/ Interrupt \/ Stop \/ Clear \/ Reset
    <2>1. Disturbed
      BY <1>5 DEF Mute, Interrupt, Stop, Clear, Reset
    <2>2. CASE Interrupt \/ Clear \/ Reset
      BY <2>2 DEF Interrupt, Clear, Reset, SignalsHold
    <2>3. CASE Mute
      BY <2>1, <2>3, DisturbedChunks, <1>t DEF Mute, SignalsHold, Finished, Aborted
    <2>4. CASE Stop
      BY <2>1, <2>4, DisturbedChunks, <1>t DEF Stop, SignalsHold, Finished, Aborted
    <2>5. QED BY <1>5, <2>2, <2>3, <2>4
  <1>6. ASSUME NEW r \in Responses, StopWorking(r) \/ Complete(r) PROVE SignalsHold'
    BY <1>6 DEF StopWorking, Complete, SignalsHold, queueVars, Made, Finished, Aborted
  <1>7. CASE UNCHANGED outboundVars
    BY <1>7 DEF outboundVars, sessionVars, SignalsHold, queueVars, Made, Finished, Aborted
  <1>8. QED
    BY <1>1, <1>2, <1>3, <1>4, <1>5, <1>6, <1>7 DEF OutboundNext

\* A text was sent: the chat shows it last, and so does the transcript if it
\* has it.
LEMMA SentIsLast ==
    ASSUME OutboundInv, NEW c \in Made, SendSucceeds(c)
    PROVE  /\ Range(history') \subseteq Range(shown') /\ IsInjective(shown')
           /\ \A i, j \in DOMAIN history', k, l \in DOMAIN shown' :
                 history'[i] = shown'[k] /\ history'[j] = shown'[l] => (i < j <=> k < l)
           /\ Range(shown') = IF chunk[c].text THEN Range(shown) \cup {c} ELSE Range(shown)
           /\ Range(history') = IF chunk[c].text /\ IsCurrent(c) THEN Range(history) \cup {c}
                                ELSE Range(history)
  <1>1. shown \in Seq(Made) /\ history \in Seq(Made)
    BY DEF OutboundInv, LineInv, OutboundTypeOK
  <1>2. c \notin Range(shown) /\ c \notin Range(history)
    BY DEF OutboundInv, RunsAnswer, HistoryMatchesChat, SendSucceeds, Finished
  <1>3. /\ Range(history) \subseteq Range(shown) /\ IsInjective(shown)
        /\ \A i, j \in DOMAIN history, k, l \in DOMAIN shown :
              history[i] = shown[k] /\ history[j] = shown[l] => (i < j <=> k < l)
    BY DEF OutboundInv, HistoryMatchesChat
  <1>4. ASSUME NEW s \in Seq(Made)
        PROVE  /\ DOMAIN Append(s, c) = DOMAIN s \cup {Len(s) + 1} /\ DOMAIN s = 1 .. Len(s)
               /\ \A i \in DOMAIN s : Append(s, c)[i] = s[i]
               /\ Append(s, c)[Len(s) + 1] = c
               /\ Range(Append(s, c)) = Range(s) \cup {c}
    <2>1. /\ DOMAIN Append(s, c) = DOMAIN s \cup {Len(s) + 1} /\ DOMAIN s = 1 .. Len(s)
          /\ \A i \in DOMAIN s : Append(s, c)[i] = s[i]
          /\ Append(s, c)[Len(s) + 1] = c
      OBVIOUS
    <2>2. QED
      BY <2>1 DEF Range
  <1>5. Len(shown) \in Nat /\ Len(history) \in Nat
    BY <1>1
  <1>6. \A i \in DOMAIN history : \E k \in DOMAIN shown : history[i] = shown[k]
    BY <1>3 DEF Range
  <1>7. CASE ~chunk[c].text
    BY <1>3, <1>7 DEF SendSucceeds
  <1>8. CASE chunk[c].text /\ ~IsCurrent(c)
    <2>1. shown' = Append(shown, c) /\ history' = history
      BY <1>8 DEF SendSucceeds
    <2>2. IsInjective(shown')
      BY <2>1, <1>1, <1>2, <1>3, <1>4 DEF IsInjective, Range
    <2>3. \A i, j \in DOMAIN history', k, l \in DOMAIN shown' :
             history'[i] = shown'[k] /\ history'[j] = shown'[l] => (i < j <=> k < l)
      <3>1. \A i \in DOMAIN history', k \in DOMAIN shown' :
               history'[i] = shown'[k] => k \in DOMAIN shown /\ shown'[k] = shown[k]
        BY <2>1, <1>1, <1>2, <1>4 DEF Range
      <3>2. QED BY <3>1, <2>1, <1>3
    <2>4. QED BY <1>8, <2>1, <2>2, <2>3, <1>1, <1>3, <1>4
  <1>9. CASE chunk[c].text /\ IsCurrent(c)
    <2>1. shown' = Append(shown, c) /\ history' = Append(history, c)
      BY <1>9 DEF SendSucceeds
    <2>2. IsInjective(shown')
      BY <2>1, <1>1, <1>2, <1>3, <1>4 DEF IsInjective, Range
    <2>3. \A i, j \in DOMAIN history', k, l \in DOMAIN shown' :
             history'[i] = shown'[k] /\ history'[j] = shown'[l] => (i < j <=> k < l)
      <3>1. \A i \in DOMAIN history', k \in DOMAIN shown' :
               history'[i] = shown'[k] =>
                  \/ /\ i \in DOMAIN history /\ k \in DOMAIN shown
                     /\ history'[i] = history[i] /\ shown'[k] = shown[k]
                  \/ i = Len(history) + 1 /\ k = Len(shown) + 1
        BY <2>1, <1>1, <1>2, <1>4 DEF Range
      <3>2. \A i \in DOMAIN history, k \in DOMAIN shown :
               i \in Nat /\ i < Len(history) + 1 /\ k \in Nat /\ k < Len(shown) + 1
        BY <1>1, <1>4
      <3>3. SUFFICES ASSUME NEW i \in DOMAIN history', NEW j \in DOMAIN history',
                            NEW k \in DOMAIN shown', NEW l \in DOMAIN shown',
                            history'[i] = shown'[k], history'[j] = shown'[l]
                     PROVE  i < j <=> k < l
        OBVIOUS
      <3>4. CASE i \in DOMAIN history /\ k \in DOMAIN shown
                 /\ history'[i] = history[i] /\ shown'[k] = shown[k]
        <4>1. CASE j \in DOMAIN history /\ l \in DOMAIN shown
                   /\ history'[j] = history[j] /\ shown'[l] = shown[l]
          BY <3>3, <3>4, <4>1, <1>3
        <4>2. CASE j = Len(history) + 1 /\ l = Len(shown) + 1
          BY <3>2, <3>4, <4>2
        <4>3. QED BY <3>1, <3>3, <4>1, <4>2
      <3>5. CASE i = Len(history) + 1 /\ k = Len(shown) + 1
        BY <3>1, <3>2, <3>3, <3>5, <1>5
      <3>6. QED BY <3>1, <3>3, <3>4, <3>5
    <2>4. QED BY <1>9, <2>1, <2>2, <2>3, <1>1, <1>3, <1>4
  <1>10. QED
    BY <1>7, <1>8, <1>9

LEMMA OutboundStepAnswers ==
    ASSUME OutboundInv, [OutboundNext]_outboundVars PROVE RunsAnswer' /\ HistoryMatchesChat'
  <1> USE DEF OutboundInv
  <1>t. /\ epoch \in Nat /\ epoch' \in Nat /\ \A c \in Made : chunk[c].run \in Nat
        /\ working \subseteq Nat /\ completed \subseteq Nat
        /\ Range(shown) \subseteq Made /\ Range(history) \subseteq Range(shown)
        /\ IsInjective(shown)
        /\ \A i, j \in DOMAIN history, k, l \in DOMAIN shown :
              history[i] = shown[k] /\ history[j] = shown[l] => (i < j <=> k < l)
    <2>1. \A c \in Made : chunk[c] \in Chunk
      BY DEF LineInv, OutboundTypeOK, Made
    <2>2. LineInv'
      BY OutboundStepLine
    <2>3. Range(shown) \subseteq Made
      BY DEF LineInv, OutboundTypeOK, Range
    <2>4. QED
      BY <2>1, <2>2, <2>3 DEF LineInv, OutboundTypeOK, Chunk, HistoryMatchesChat
  <1>1. ASSUME NEW r \in Responses, ProduceText(r) \/ EnqueueMedia(r)
        PROVE  RunsAnswer' /\ HistoryMatchesChat'
    <2>1. /\ UNCHANGED sessionVars /\ UNCHANGED chatVars /\ r \in working
          /\ \A d \in Made : chunk'[d] = chunk[d]
      BY <1>1, ChunkBegins
    <2>2. Made \subseteq Made' /\ \A c \in Made' \ Made : chunk'[c].run = r
      BY <1>1, ChunkBegins
    <2>3. r <= epoch
      BY <2>1, <1>t DEF RunsAnswer
    <2>4. RunsAnswer'
      BY <2>1, <2>2, <2>3, <1>t DEF RunsAnswer, sessionVars, chatVars, Finished
    <2>5. HistoryMatchesChat'
      BY <2>1, <2>2, <1>t DEF HistoryMatchesChat, sessionVars, chatVars
    <2>6. QED BY <2>4, <2>5
  <1>2. ASSUME NEW c \in Made, EnqueueText(c) \/ DropText(c) \/ QueueStep(c)
        PROVE  RunsAnswer' /\ HistoryMatchesChat'
    <2>1. /\ Made' = Made /\ UNCHANGED sessionVars
          /\ \A d \in Made : d # c => chunk'[d] = chunk[d]
          /\ Finished(c) => Finished(c)'
          /\ \/ /\ chunk'[c].run = chunk[c].run /\ chunk'[c].sig = chunk[c].sig
                /\ chunk'[c].stale = chunk[c].stale /\ chunk'[c].text = chunk[c].text
             \/ /\ Finished(c)'
                /\ chunk'[c].run = IF c \in Range(shown) THEN chunk[c].run ELSE 0
          /\ UNCHANGED chatVars \/ SendSucceeds(c)
      BY <1>2, ChunkMoves
    <2>2. /\ completed \cap working = {}
          /\ completed \subseteq 1 .. epoch /\ working \subseteq 1 .. epoch
      BY DEF RunsAnswer
    <2>3. \A d \in Made : /\ chunk'[d].run <= epoch
                          /\ chunk'[d].text /\ ~Finished(d)' => chunk'[d].run \in working
                          /\ Finished(d) => Finished(d)'
      <3>1. \A d \in Made : d # c => (Finished(d)' <=> Finished(d))
        BY <2>1 DEF Finished
      <3>2. QED BY <2>1, <3>1, <1>t DEF RunsAnswer
    <2>4. CASE UNCHANGED chatVars
      <3>1. \A d \in Made : d \in Range(shown) => chunk'[d].run = chunk[d].run
        BY <2>1
      <3>2. RunsAnswer'
        BY <2>1, <2>2, <2>3, <2>4, <3>1 DEF RunsAnswer, sessionVars, chatVars
      <3>3. HistoryMatchesChat'
        BY <2>1, <2>4, <3>1, <1>t DEF HistoryMatchesChat, sessionVars, chatVars
      <3>4. QED BY <3>2, <3>3
    <2>5. CASE SendSucceeds(c)
      <3>1. /\ Range(history') \subseteq Range(shown') /\ IsInjective(shown')
            /\ \A i, j \in DOMAIN history', k, l \in DOMAIN shown' :
                 history'[i] = shown'[k] /\ history'[j] = shown'[l] => (i < j <=> k < l)
            /\ Range(shown') = IF chunk[c].text THEN Range(shown) \cup {c} ELSE Range(shown)
            /\ Range(history') = IF chunk[c].text /\ IsCurrent(c) THEN Range(history) \cup {c}
                                 ELSE Range(history)
        BY <2>5, SentIsLast
      <3>2. ~Finished(c) /\ Finished(c)' /\ chunk'[c].run = chunk[c].run
        <4>1. chunk \in Seq(Chunk) /\ c \in 1 .. Len(chunk) /\ chunk[c] \in Chunk
          BY DEF LineInv, OutboundTypeOK, Made
        <4>2. chunk'[c].at = "settled" /\ chunk'[c].run = chunk[c].run
          BY <4>1, <2>5 DEF SendSucceeds, Settle, Chunk
        <4>3. QED BY <4>2, <2>5 DEF SendSucceeds, Finished
      <3>3. \A d \in Made : chunk'[d].run = chunk[d].run
        BY <2>1, <3>2
      <3>4. chunk[c].text => chunk[c].run \notin completed
        BY <2>2, <3>2 DEF RunsAnswer
      <3>5. \A d \in Made : /\ d \in Range(shown') => Finished(d)'
                            /\ d \in Range(shown') /\ open /\ chunk[d].run = epoch =>
                                  d \in Range(history')
                            /\ d \in Range(shown') /\ chunk[d].run \in completed =>
                                  d \in Range(history')
        BY <2>3, <3>1, <3>2, <3>4 DEF RunsAnswer, HistoryMatchesChat, IsCurrent
      <3>6. RunsAnswer'
        BY <2>1, <2>2, <2>3, <3>3, <3>5 DEF RunsAnswer, sessionVars
      <3>7. HistoryMatchesChat'
        BY <2>1, <3>1, <3>3, <3>5 DEF HistoryMatchesChat, sessionVars
      <3>8. QED BY <3>6, <3>7
    <2>6. QED BY <2>1, <2>4, <2>5
  <1>3. CASE BeginResponse
    <2>1. Made' = Made /\ chunk' = chunk /\ epoch' = epoch + 1 /\ shown' = shown
          /\ history' = history /\ completed' = completed /\ working' = working \cup {epoch + 1}
      BY <1>3 DEF BeginResponse, queueVars, chatVars, Made
    <2>2. \A c \in Made : chunk[c].run <= epoch /\ chunk[c].run # epoch + 1
      BY <1>t DEF RunsAnswer
    <2>3. RunsAnswer'
      BY <2>1, <2>2, <1>t DEF RunsAnswer, Finished
    <2>4. HistoryMatchesChat'
      BY <2>1 DEF HistoryMatchesChat
    <2>5. QED BY <2>3, <2>4
  <1>4. CASE Renew \/ UNCHANGED outboundVars
    <2>1. Made' = Made /\ chunk' = chunk /\ epoch' = epoch /\ shown' = shown /\ open' = open
          /\ history' = history /\ completed' = completed /\ working' = working
      BY <1>4 DEF Renew, queueVars, chatVars, outboundVars, sessionVars, Made
    <2>2. QED
      BY <2>1 DEF RunsAnswer, HistoryMatchesChat, Finished
  <1>5. CASE Mute \/ Interrupt \/ Stop \/ Clear \/ Reset
    <2>1. Disturbed
      BY <1>5 DEF Mute, Interrupt, Stop, Clear, Reset
    <2>2. /\ Made' = Made /\ epoch' = epoch /\ shown' = shown /\ (open' => open)
          /\ history' = history /\ completed' = completed /\ working' = working
      BY <1>5, <2>1, DisturbedChunks
         DEF Mute, Interrupt, Stop, Clear, Reset, Disturbed, chatVars
    <2>3. \A c \in Made : /\ chunk'[c].run = chunk[c].run /\ chunk'[c].text = chunk[c].text
                          /\ Finished(c)' <=> Finished(c)
      BY <2>1, DisturbedChunks DEF Finished
    <2>4. RunsAnswer'
      BY <2>2, <2>3 DEF RunsAnswer
    <2>5. HistoryMatchesChat'
      BY <2>2, <2>3 DEF HistoryMatchesChat
    <2>6. QED BY <2>4, <2>5
  <1>6. ASSUME NEW r \in Responses, StopWorking(r) \/ Complete(r)
        PROVE  RunsAnswer' /\ HistoryMatchesChat'
    <2>1. /\ Made' = Made /\ chunk' = chunk /\ epoch' = epoch /\ shown' = shown
          /\ history' = history /\ (open' => open)
      BY <1>6 DEF StopWorking, Complete, queueVars, chatVars, Made
    <2>2. CASE StopWorking(r)
      <3>1. completed' = completed /\ working' = working \ {r} /\ ~Busy(r)
        BY <2>2 DEF StopWorking
      <3>2. \A c \in Made : chunk[c].text /\ ~Finished(c) => chunk[c].run # r
        BY <3>1 DEF Busy
      <3>3. RunsAnswer'
        BY <2>1, <3>1, <3>2 DEF RunsAnswer, Finished
      <3>4. HistoryMatchesChat'
        BY <2>1, <3>1 DEF HistoryMatchesChat
      <3>5. QED BY <3>3, <3>4
    <2>3. CASE Complete(r)
      <3>1. /\ r = epoch /\ r \notin working /\ working' = working /\ open' = FALSE
            /\ completed' = IF open THEN completed \cup {r} ELSE completed
        BY <2>3 DEF Complete
      <3>2. open => r \in 1 .. epoch
        BY <3>1 DEF Responses
      <3>3. RunsAnswer'
        BY <2>1, <3>1, <3>2 DEF RunsAnswer, Finished
      <3>4. HistoryMatchesChat'
        BY <2>1, <3>1 DEF RunsAnswer, HistoryMatchesChat
      <3>5. QED BY <3>3, <3>4
    <2>4. QED BY <1>6, <2>2, <2>3
  <1>7. QED
    BY <1>1, <1>2, <1>3, <1>4, <1>5, <1>6 DEF OutboundNext

LEMMA OutboundInvariant == OutboundSpec => []OutboundInv
  <1>1. OutboundInv /\ [OutboundNext]_outboundVars => OutboundInv'
    BY OutboundStepLine, OutboundStepSignals, OutboundStepAnswers DEF OutboundInv
  <1>2. QED
    BY <1>1, OutboundInitInv, PTL DEF OutboundSpec

\* Type correctness of the outbound queue, for any bounds.
THEOREM OutboundTypes == OutboundSpec => []OutboundTypeOK
  <1>1. OutboundInv => OutboundTypeOK
    BY DEF OutboundInv, LineInv
  <1>2. QED
    BY <1>1, OutboundInvariant, PTL

\* Whatever is enqueued while the tail of MessageQueue is being deleted or a
\* predecessor is settling, a task starts only after every earlier one has
\* ended, for any number of chunks, responses and disturbances.
THEOREM OutboundSendsInOrder == OutboundSpec => []SendsInOrder
  <1>1. OutboundInv => SendsInOrder
    <2> SUFFICES ASSUME LineInv, NEW i \in 1 .. Len(order), NEW j \in 1 .. Len(order),
                        i < j, Started(order[j])
                 PROVE  Finished(order[i])
      BY DEF OutboundInv, SendsInOrder
    <2>1. j # 1 /\ j \in DOMAIN order
      BY DEF LineInv, OutboundTypeOK
    <2>2. chunk[order[j]].at = "waiting"
      BY <2>1 DEF LineInv, InLine
    <2>3. QED
      BY <2>2 DEF Started
  <1>2. QED
    BY <1>1, OutboundInvariant, PTL

\* The transcript has the texts the chat shows, in the same order, and all of a
\* response its own run completed, however sends end, fail and are interrupted.
THEOREM OutboundHistoryMatchesChat == OutboundSpec => []HistoryMatchesChat
  <1>1. OutboundInv => HistoryMatchesChat
    BY DEF OutboundInv
  <1>2. QED
    BY <1>1, OutboundInvariant, PTL

\* What was made before the output of its response was muted or stopped is not
\* sent any more, whichever controller is live by then (generationOutbound.ts).
THEOREM OutboundMutedChunksStayUnsent == OutboundSpec => MutedChunksStayUnsent
  <1> DEFINE Kept == \A c \in Made :
                        /\ chunk[c].at # "sending" /\ chunk'[c].at = "sending"
                        /\ open /\ chunk[c].run = epoch
                        => ~chunk[c].stale
  <1>1. OutboundInv /\ [OutboundNext]_outboundVars => Kept
    <2> SUFFICES ASSUME OutboundInv, [OutboundNext]_outboundVars, NEW c \in Made,
                        chunk[c].at # "sending", chunk'[c].at = "sending",
                        open, chunk[c].run = epoch
                 PROVE  ~chunk[c].stale
      OBVIOUS
    <2>1. DelayEnds(c)
      <3>1. ASSUME NEW r \in Responses, ProduceText(r) \/ EnqueueMedia(r) PROVE FALSE
        BY <3>1, ChunkBegins DEF OutboundInv
      <3>2. ASSUME NEW d \in Made, EnqueueText(d) \/ DropText(d) \/ QueueStep(d), d # c
            PROVE  FALSE
        BY <3>2, ChunkMoves DEF OutboundInv
      <3>3. chunk \in Seq(Chunk) /\ c \in 1 .. Len(chunk) /\ chunk[c] \in Chunk
        BY DEF OutboundInv, LineInv, OutboundTypeOK, Made
      <3>4. CASE EnqueueText(c)
        BY <3>3, <3>4 DEF EnqueueText, Chunk
      <3>5. CASE DropText(c) \/ Settled(c)
        BY <3>3, <3>5, CloseFacts DEF DropText, Settled, OutboundInv
      <3>6. CASE Start(c) \/ SendSucceeds(c) \/ SendFails(c)
        BY <3>3, <3>6 DEF Start, SendSucceeds, SendFails, Settle, Chunk
      <3>7. CASE Mute \/ Interrupt \/ Stop \/ Clear \/ Reset
        <4>1. Disturbed
          BY <3>7 DEF Mute, Interrupt, Stop, Clear, Reset
        <4>2. QED
          BY <4>1, DisturbedChunks DEF OutboundInv
      <3>8. CASE BeginResponse \/ Renew \/ (\E r \in Responses : StopWorking(r) \/ Complete(r))
                 \/ UNCHANGED outboundVars
        BY <3>8 DEF BeginResponse, Renew, StopWorking, Complete, queueVars, outboundVars
      <3>9. QED
        BY <3>1, <3>2, <3>4, <3>5, <3>6, <3>7, <3>8 DEF OutboundNext, QueueStep
    <2>2. ~Aborted(c)
      <3>1. chunk \in Seq(Chunk) /\ c \in 1 .. Len(chunk) /\ chunk[c] \in Chunk
        BY DEF OutboundInv, LineInv, OutboundTypeOK, Made
      <3>2. QED
        BY <2>1, <3>1 DEF DelayEnds, Settle, Chunk
    <2>3. ~Finished(c)
      BY <2>1 DEF DelayEnds, Finished
    <2>4. QED
      BY <2>2, <2>3 DEF OutboundInv, SignalsHold
  <1>2. QED
    BY <1>1, OutboundInvariant, PTL DEF OutboundSpec, MutedChunksStayUnsent

-----------------------------------------------------------------------------
(* The bubbles and media of one run, for any number of them.                 *)
(*                                                                           *)
(* That they keep their order is not inductive: an item waits for one promise *)
(* only, and that one may be settled by a cancelled bubble which waited for   *)
(* nobody.  So the invariant says what lies between an item and the promise it *)
(* waits for, and what came before an item that has begun.                   *)

\* A bubble that adds nothing any more, an item that is no longer in the way of
\* later ones, and one that has begun, or is media that came to an end.
Over(x) == x.passed # "no" \/ x.cancelled
Behind(x) == IF x.text THEN Over(x) ELSE x.at = "over"
Begun(x) == x.at = "going" \/ (~x.text /\ x.at = "over")

\* The items up to f were produced before a failure, those after it have failed.
\* Between an item and the one whose promise it waits for are only bubbles that are
\* over; a bubble waits for media; media was cancelled together with the bubbles
\* before it; what has begun has everything behind it.
ItemFits(is, j) ==
    /\ is[j].after < j
    /\ \A i \in (is[j].after + 1) .. (j - 1) : is[i].text /\ Over(is[i])
    /\ is[j].text /\ is[j].after # 0 => ~is[is[j].after].text
    /\ ~is[j].text /\ is[j].cancelled => \A i \in 1 .. (j - 1) : is[i].text => Over(is[i])
    /\ ~is[j].text => is[j].at # "skipped" /\ (is[j].passed = "ok" => is[j].at = "over")
    /\ Begun(is[j]) => \A i \in 1 .. (j - 1) : Behind(is[i])

ItemsFit(is, f) ==
    /\ f \in 0 .. Len(is)
    /\ \A j \in 1 .. f : ItemFits(is, j)
    /\ \A j \in (f + 1) .. Len(is) :
          ~is[j].text /\ is[j].at = "over" /\ is[j].passed = "failed"

\* While the run produces, the barrier is its last media; of the bubbles after it
\* at most the last one is not over, and that is the current one.
AtEnd(is, last, now) ==
    /\ last \in 0 .. Len(is) /\ now \in {0, Len(is)}
    /\ last # 0 => ~is[last].text
    /\ now # 0 => is[now].text
    /\ \A i \in (last + 1) .. Len(is) : is[i].text /\ (i = now \/ Over(is[i]))

\* What a step may do to an item that was produced.
Kept(x, y) ==
    /\ y.text = x.text /\ y.after = x.after
    /\ Over(x) => Over(y)
    /\ ~x.text /\ x.at = "over" => y.at = "over"
    /\ ~x.text /\ x.passed = "failed" => y.passed = "failed"

ItemsMove(is, new) ==
    /\ is \in Seq(Item) /\ new \in Seq(Item) /\ Len(new) = Len(is)
    /\ \A i \in 1 .. Len(is) : Kept(is[i], new[i])

LEMMA ItemFacts ==
    ASSUME NEW is \in Seq(Item)
    PROVE  /\ Len(is) \in Nat
           /\ \A i \in 1 .. Len(is) : is[i] \in Item /\ is[i].after \in Nat
  <1>1. Len(is) \in Nat /\ \A i \in 1 .. Len(is) : is[i] \in Item
    BY ElementOfSeq, LenProperties
  <1>2. \A x \in Item : x.after \in Nat
    BY DEF Item
  <1>3. QED
    BY <1>1, <1>2

LEMMA ItemsStayFit ==
    ASSUME NEW is, NEW new, NEW f, ItemsMove(is, new), ItemsFit(is, f),
           \A j \in 1 .. f :
              /\ ~new[j].text /\ new[j].cancelled =>
                    is[j].cancelled \/ \A i \in 1 .. (j - 1) : new[i].text => Over(new[i])
              /\ ~new[j].text =>
                    new[j].at # "skipped" /\ (new[j].passed = "ok" => new[j].at = "over")
              /\ Begun(new[j]) => Begun(is[j]) \/ \A i \in 1 .. (j - 1) : Behind(is[i])
    PROVE  ItemsFit(new, f)
  <1>1. /\ is \in Seq(Item) /\ new \in Seq(Item) /\ Len(new) = Len(is) /\ Len(is) \in Nat
        /\ f \in 0 .. Len(is)
        /\ \A i \in 1 .. Len(is) : Kept(is[i], new[i]) /\ is[i].after \in Nat
    BY ItemFacts DEF ItemsMove, ItemsFit
  <1>2. \A i \in 1 .. Len(is) : Behind(is[i]) => Behind(new[i])
    BY <1>1 DEF Kept, Behind
  <1>3. ASSUME NEW j \in 1 .. f PROVE ItemFits(new, j)
    <2>1. ItemFits(is, j) /\ j \in 1 .. Len(is) /\ j \in Nat
      BY <1>1 DEF ItemsFit
    <2>2. new[j].after = is[j].after /\ (new[j].text <=> is[j].text) /\ is[j].after < j
          /\ is[j].after \in Nat
      BY <1>1, <2>1 DEF Kept, ItemFits
    <2>3. \A i \in (new[j].after + 1) .. (j - 1) : new[i].text /\ Over(new[i])
      <3>1. \A i \in (is[j].after + 1) .. (j - 1) :
               i \in 1 .. Len(is) /\ is[i].text /\ Over(is[i])
        BY <1>1, <2>1, <2>2 DEF ItemFits
      <3>2. QED
        BY <1>1, <2>2, <3>1 DEF Kept
    <2>4. new[j].text /\ new[j].after # 0 => ~new[new[j].after].text
      <3>1. is[j].after # 0 => is[j].after \in 1 .. Len(is)
        BY <1>1, <2>1, <2>2
      <3>2. QED
        BY <1>1, <2>1, <2>2, <3>1 DEF ItemFits, Kept
    <2>5. ~new[j].text /\ new[j].cancelled =>
             \A i \in 1 .. (j - 1) : new[i].text => Over(new[i])
      <3>1. \A i \in 1 .. (j - 1) : i \in 1 .. Len(is)
        BY <1>1, <2>1
      <3>2. ~is[j].text /\ is[j].cancelled =>
             \A i \in 1 .. (j - 1) : new[i].text => Over(new[i])
        BY <1>1, <2>1, <3>1 DEF ItemFits, Kept
      <3>3. QED
        BY <2>2, <3>2
    <2>6. Begun(new[j]) => \A i \in 1 .. (j - 1) : Behind(new[i])
      <3>1. \A i \in 1 .. (j - 1) : i \in 1 .. Len(is)
        BY <1>1, <2>1
      <3>2. Begun(new[j]) => \A i \in 1 .. (j - 1) : Behind(is[i])
        BY <2>1 DEF ItemFits
      <3>3. QED
        BY <1>2, <3>1, <3>2
    <2>7. QED
      BY <2>2, <2>3, <2>4, <2>5, <2>6 DEF ItemFits
  <1>4. \A j \in (f + 1) .. Len(new) :
           ~new[j].text /\ new[j].at = "over" /\ new[j].passed = "failed"
    <2>1. \A j \in (f + 1) .. Len(is) : j \in 1 .. Len(is)
          /\ ~is[j].text /\ is[j].at = "over" /\ is[j].passed = "failed"
      BY <1>1 DEF ItemsFit
    <2>2. QED
      BY <1>1, <2>1 DEF Kept
  <1>5. QED
    BY <1>1, <1>3, <1>4 DEF ItemsFit

\* Media whose turn it is, and whose promise is settled, has nothing before it.
LEMMA MediaIsFree ==
    ASSUME NEW is \in Seq(Item), NEW f, ItemsFit(is, f), NEW j \in 1 .. f, ~is[j].text,
           \A k \in 1 .. (j - 1) : ~is[k].text => is[k].at = "over",
           is[j].after # 0 => is[is[j].after].passed # "no"
    PROVE  \A i \in 1 .. (j - 1) : Behind(is[i])
  <1> SUFFICES ASSUME NEW i \in 1 .. (j - 1) PROVE Behind(is[i])
    OBVIOUS
  <1>1. /\ f \in Nat /\ j \in Nat /\ i \in Nat /\ i < j /\ 1 <= i /\ j <= f /\ f <= Len(is)
        /\ \A k \in 1 .. f : ItemFits(is, k) /\ is[k].after \in Nat
    BY ItemFacts DEF ItemsFit
  <1>2. CASE ~is[i].text
    BY <1>2 DEF Behind
  <1>3. ASSUME NEW n \in (i + 1) .. (j - 1), ~is[n].text PROVE Behind(is[i])
    <2>1. Begun(is[n])
      BY <1>1, <1>3 DEF Begun
    <2>2. ItemFits(is, n) /\ i \in 1 .. (n - 1)
      BY <1>1
    <2>3. QED
      BY <2>1, <2>2 DEF ItemFits
  <1>4. CASE is[i].text /\ \A n \in (i + 1) .. (j - 1) : is[n].text
    <2> DEFINE a == is[j].after
    <2> HIDE DEF a
    <2>1. a \in Nat /\ a < j
          /\ \A k \in (a + 1) .. (j - 1) : is[k].text /\ Over(is[k])
      BY <1>1 DEF ItemFits, a
    <2>2. CASE a < i
      <3>1. i \in (a + 1) .. (j - 1)
        BY <1>1, <2>1, <2>2
      <3>2. QED
        BY <2>1, <3>1 DEF Behind
    <2>3. CASE a = i
      <3>1. a # 0
        BY <1>1, <2>3
      <3>2. Over(is[i])
        BY <2>3, <3>1 DEF Over, a
      <3>3. QED
        BY <1>4, <3>2 DEF Behind
    <2>4. CASE i < a
      <3> DEFINE b == is[a].after
      <3> HIDE DEF b
      <3>1. a \in 1 .. f /\ a \in (i + 1) .. (j - 1)
        BY <1>1, <2>1, <2>4
      <3>2. is[a].text
        BY <1>4, <3>1
      <3>3. b \in Nat /\ b < a /\ (b # 0 => ~is[b].text)
            /\ \A k \in (b + 1) .. (a - 1) : is[k].text /\ Over(is[k])
        BY <1>1, <3>1, <3>2 DEF ItemFits, b
      <3>4. b # i
        BY <1>1, <1>4, <3>3
      <3>5. ~(i < b)
        <4>1. i < b => b \in (i + 1) .. (j - 1) /\ b # 0
          BY <1>1, <2>1, <3>3
        <4>2. QED
          BY <1>4, <3>3, <4>1
      <3>6. i \in (b + 1) .. (a - 1)
        BY <1>1, <2>1, <2>4, <3>3, <3>4, <3>5
      <3>7. QED
        BY <3>3, <3>6 DEF Behind
    <2>5. QED
      BY <1>1, <2>1, <2>2, <2>3, <2>4
  <1>5. QED
    BY <1>2, <1>3, <1>4

\* So has a bubble whose barrier is open.
LEMMA BubbleIsFree ==
    ASSUME NEW is \in Seq(Item), NEW f, ItemsFit(is, f), NEW j \in 1 .. f, is[j].text,
           is[j].after # 0 => is[is[j].after].passed = "ok"
    PROVE  \A i \in 1 .. (j - 1) : Behind(is[i])
  <1> SUFFICES ASSUME NEW i \in 1 .. (j - 1) PROVE Behind(is[i])
    OBVIOUS
  <1>1. /\ f \in Nat /\ j \in Nat /\ i \in Nat /\ i < j /\ 1 <= i /\ j <= f /\ f <= Len(is)
        /\ \A k \in 1 .. f : ItemFits(is, k) /\ is[k].after \in Nat
    BY ItemFacts DEF ItemsFit
  <1> DEFINE a == is[j].after
  <1> HIDE DEF a
  <1>2. a \in Nat /\ a < j /\ (a # 0 => ~is[a].text /\ is[a].passed = "ok")
        /\ \A k \in (a + 1) .. (j - 1) : is[k].text /\ Over(is[k])
    BY <1>1 DEF ItemFits, a
  <1>3. CASE a < i
    <2>1. i \in (a + 1) .. (j - 1)
      BY <1>1, <1>2, <1>3
    <2>2. QED
      BY <1>2, <2>1 DEF Behind
  <1>4. CASE i <= a
    <2>1. a \in 1 .. f /\ a # 0
      BY <1>1, <1>2, <1>4
    <2>2. is[a].at = "over" /\ ~is[a].text
      BY <1>1, <1>2, <2>1 DEF ItemFits
    <2>3. CASE i = a
      BY <2>2, <2>3 DEF Behind
    <2>4. CASE i < a
      <3>1. i \in 1 .. (a - 1) /\ Begun(is[a]) /\ ItemFits(is, a)
        BY <1>1, <1>2, <2>1, <2>2, <2>4 DEF Begun
      <3>2. QED
        BY <3>1 DEF ItemFits
    <2>5. QED
      BY <1>1, <1>2, <1>4, <2>3, <2>4
  <1>5. QED
    BY <1>1, <1>2, <1>3, <1>4

LEMMA EndStays ==
    ASSUME NEW is, NEW new, NEW last, NEW now, ItemsMove(is, new), AtEnd(is, last, now)
    PROVE  AtEnd(new, last, now)
  <1>1. /\ Len(new) = Len(is) /\ Len(is) \in Nat
        /\ \A i \in 1 .. Len(is) : Kept(is[i], new[i])
    BY ItemFacts DEF ItemsMove
  <1>2. /\ last \in 0 .. Len(is) /\ now \in {0, Len(is)}
        /\ last # 0 => last \in 1 .. Len(is) /\ ~is[last].text
        /\ now # 0 => now \in 1 .. Len(is) /\ is[now].text
        /\ \A i \in (last + 1) .. Len(is) :
              i \in 1 .. Len(is) /\ is[i].text /\ (i = now \/ Over(is[i]))
    BY <1>1 DEF AtEnd
  <1>3. QED
    BY <1>1, <1>2 DEF AtEnd, Kept

\* The invariant, beside the types.
Flows(is, down, end, last, now) ==
    /\ \E f \in 0 .. Len(is) : ItemsFit(is, f) /\ (~down => f = Len(is))
    /\ end = "no" /\ ~down => AtEnd(is, last, now)

\* Closing and cancelling moves no item.
LEMMA CancelledStayFit ==
    ASSUME NEW is, NEW new, NEW down, NEW down2, NEW end, NEW end2, NEW last, NEW last2,
           NEW now, NEW now2,
           Flows(is, down, end, last, now), ItemsMove(is, new), down => down2,
           \A i \in 1 .. Len(is) :
              /\ new[i].at = is[i].at /\ new[i].passed = is[i].passed
              /\ ~is[i].text /\ new[i].cancelled =>
                    is[i].cancelled \/ \A k \in 1 .. Len(is) : Over(new[k]),
           \/ end2 # "no"
           \/ end2 = end /\ last2 = last /\ now2 = now
           \/ /\ end2 = end /\ last2 = last /\ now2 = 0
              /\ \A k \in 1 .. Len(is) : Over(new[k])
    PROVE  Flows(new, down2, end2, last2, now2)
  <1>1. /\ Len(new) = Len(is) /\ Len(is) \in Nat
        /\ \A i \in 1 .. Len(is) : Kept(is[i], new[i])
    BY ItemFacts DEF ItemsMove
  <1>2. PICK f \in 0 .. Len(is) : ItemsFit(is, f) /\ (~down => f = Len(is))
    BY DEF Flows
  <1>3. ASSUME NEW j \in 1 .. f
        PROVE  /\ ~new[j].text /\ new[j].cancelled =>
                     is[j].cancelled \/ \A i \in 1 .. (j - 1) : new[i].text => Over(new[i])
               /\ ~new[j].text =>
                     new[j].at # "skipped" /\ (new[j].passed = "ok" => new[j].at = "over")
               /\ Begun(new[j]) => Begun(is[j]) \/ \A i \in 1 .. (j - 1) : Behind(is[i])
    <2>1. j \in 1 .. Len(is) /\ ItemFits(is, j) /\ (new[j].text <=> is[j].text)
      BY <1>1, <1>2 DEF ItemsFit, Kept
    <2>2. \A i \in 1 .. (j - 1) : i \in 1 .. Len(is)
      BY <1>1, <2>1
    <2>3. QED
      BY <2>1, <2>2 DEF ItemFits, Begun
  <1>4. ItemsFit(new, f)
    BY <1>2, <1>3, ItemsStayFit
  <1>5. end2 = "no" /\ ~down2 => AtEnd(new, last2, now2)
    <2> SUFFICES ASSUME end2 = "no", ~down2 PROVE AtEnd(new, last2, now2)
      OBVIOUS
    <2>1. AtEnd(new, last, now)
      BY EndStays DEF Flows
    <2>2. CASE now2 = now
      BY <2>1, <2>2
    <2>3. CASE now2 = 0 /\ \A k \in 1 .. Len(is) : Over(new[k])
      <3>1. \A i \in (last + 1) .. Len(new) : i \in 1 .. Len(is)
        BY <1>1, <2>1 DEF AtEnd
      <3>2. QED
        BY <1>1, <2>1, <2>3, <3>1 DEF AtEnd
    <2>4. QED
      BY <2>2, <2>3
  <1>6. QED
    BY <1>1, <1>2, <1>4, <1>5 DEF Flows

\* So does one that goes on, when nothing before it is in its way.
GoesOn(is, new, i, x) ==
    /\ x \in Item /\ new = [is EXCEPT ![i] = x]
    /\ Kept(is[i], x) /\ x.cancelled = is[i].cancelled
    /\ ~x.text => x.at # "skipped" /\ (x.passed = "ok" => x.at = "over")
    /\ Begun(x) => Begun(is[i]) \/ \A k \in 1 .. (i - 1) : Behind(is[k])

LEMMA OneItemFits ==
    ASSUME NEW is \in Seq(Item), NEW new, NEW down, NEW down2, NEW end, NEW last, NEW now,
           Flows(is, down, end, last, now), down => down2,
           NEW i \in 1 .. Len(is), NEW x, GoesOn(is, new, i, x)
    PROVE  new \in Seq(Item) /\ Flows(new, down2, end, last, now)
  <1>0. /\ x \in Item /\ new = [is EXCEPT ![i] = x]
        /\ Kept(is[i], x) /\ x.cancelled = is[i].cancelled
        /\ ~x.text => x.at # "skipped" /\ (x.passed = "ok" => x.at = "over")
        /\ Begun(x) => Begun(is[i]) \/ \A k \in 1 .. (i - 1) : Behind(is[k])
    BY DEF GoesOn
  <1>1. /\ new \in Seq(Item) /\ Len(new) = Len(is) /\ Len(is) \in Nat
        /\ \A k \in 1 .. Len(is) : new[k] = IF k = i THEN x ELSE is[k]
    BY <1>0, ItemFacts, ExceptSeq, ElementOfSeq
  <1>2. \A y : Kept(y, y)
    BY DEF Kept
  <1>3. ItemsMove(is, new)
    BY <1>0, <1>1, <1>2 DEF ItemsMove
  <1>4. PICK f \in 0 .. Len(is) : ItemsFit(is, f) /\ (~down => f = Len(is))
    BY DEF Flows
  <1>5. ASSUME NEW j \in 1 .. f
        PROVE  /\ ~new[j].text /\ new[j].cancelled =>
                     is[j].cancelled \/ \A k \in 1 .. (j - 1) : new[k].text => Over(new[k])
               /\ ~new[j].text =>
                     new[j].at # "skipped" /\ (new[j].passed = "ok" => new[j].at = "over")
               /\ Begun(new[j]) => Begun(is[j]) \/ \A k \in 1 .. (j - 1) : Behind(is[k])
    <2>0. ItemFits(is, j)
      BY <1>4 DEF ItemsFit
    <2>l. Len(is) \in Nat
      BY <1>1
    <2>1. j \in 1 .. Len(is) /\ ItemFits(is, j)
      BY <2>0, <2>l
    <2>2. CASE j = i
      <3>1. new[j] = x
        BY <1>1, <2>1, <2>2
      <3>2. QED
        BY <1>0, <2>2, <3>1
    <2>3. CASE j # i
      <3>1. new[j] = is[j]
        BY <1>1, <2>1, <2>3
      <3>2. QED
        BY <2>1, <3>1 DEF ItemFits
    <2>4. QED
      BY <2>2, <2>3
  <1>6. ItemsFit(new, f)
    BY <1>3, <1>4, <1>5, ItemsStayFit
  <1>7. end = "no" /\ ~down2 => AtEnd(new, last, now)
    BY <1>3, EndStays DEF Flows
  <1>8. QED
    BY <1>1, <1>4, <1>6, <1>7 DEF Flows

\* Nor does one that is produced after it.
LEMMA EarlierFit ==
    ASSUME NEW is \in Seq(Item), NEW new, NEW j \in 1 .. Len(is), ItemFits(is, j),
           \A i \in 1 .. Len(is) : new[i] = is[i]
    PROVE  ItemFits(new, j)
  <1>1. /\ Len(is) \in Nat /\ new[j] = is[j] /\ is[j].after \in Nat /\ is[j].after < j
    BY ItemFacts DEF ItemFits
  <1>2. \A i \in 1 .. (j - 1) : i \in 1 .. Len(is)
    BY <1>1
  <1>3. \A i \in (is[j].after + 1) .. (j - 1) : i \in 1 .. Len(is)
    BY <1>1
  <1>4. is[j].after # 0 => is[j].after \in 1 .. Len(is)
    BY <1>1
  <1>5. QED
    BY <1>1, <1>2, <1>3, <1>4 DEF ItemFits

\* A new item waits for the last one that is not over.
LEMMA ProducedFits ==
    ASSUME NEW is \in Seq(Item), NEW new, NEW last, NEW now, NEW x \in Item,
           ItemsFit(is, Len(is)), AtEnd(is, last, now), new = Append(is, x),
           x.at = "waiting", x.passed = "no", ~x.cancelled,
           x.text => now = 0 /\ x.after = last,
           ~x.text => x.after = IF now # 0 THEN now ELSE last
    PROVE  /\ new \in Seq(Item) /\ ItemsFit(new, Len(new))
           /\ x.text => AtEnd(new, last, Len(new))
           /\ ~x.text => AtEnd(new, Len(new), 0)
  <1> DEFINE n == Len(is)
  <1>1. /\ n \in Nat /\ new \in Seq(Item) /\ Len(new) = n + 1 /\ new[n + 1] = x
        /\ \A i \in 1 .. n : new[i] = is[i] /\ is[i].after \in Nat
        /\ x.after \in Nat
    <2>1. x.after \in Nat
      BY DEF Item
    <2>2. QED
      BY <2>1, ItemFacts, AppendProperties
  <1>2. /\ last \in 0 .. n /\ now \in {0, n} /\ (last # 0 => ~is[last].text)
        /\ (now # 0 => is[now].text)
        /\ \A i \in (last + 1) .. n : is[i].text /\ (i = now \/ Over(is[i]))
        /\ \A j \in 1 .. n : ItemFits(is, j)
    BY DEF AtEnd, ItemsFit
  <1> HIDE DEF n
  <1>3. ASSUME NEW j \in 1 .. n PROVE ItemFits(new, j)
    <2>1. j \in 1 .. Len(is) /\ ItemFits(is, j)
          /\ \A i \in 1 .. Len(is) : new[i] = is[i]
      BY <1>1, <1>2 DEF n
    <2>2. QED
      BY <2>1, EarlierFit
  <1>4. ItemFits(new, n + 1)
    <2>1. x.after < n + 1 /\ x.after \in 0 .. n
      BY <1>1, <1>2
    <2>2. \A i \in (x.after + 1) .. n : is[i].text /\ Over(is[i])
      <3>1. CASE x.after = last /\ now = 0
        <4>1. \A i \in (last + 1) .. n : i # 0
          BY <1>1, <1>2
        <4>2. QED
          BY <1>2, <3>1, <4>1
      <3>2. CASE x.after = n
        BY <1>1, <3>2
      <3>3. QED
        BY <1>2, <3>1, <3>2
    <2>3. \A i \in (x.after + 1) .. (n + 1 - 1) : new[i].text /\ Over(new[i])
      <3>1. \A i \in (x.after + 1) .. (n + 1 - 1) : i \in 1 .. n /\ i \in (x.after + 1) .. n
        BY <1>1, <2>1
      <3>2. QED
        BY <1>1, <2>2, <3>1
    <2>4. x.text /\ x.after # 0 => ~new[x.after].text
      BY <1>1, <1>2, <2>1
    <2>5. ~Begun(x)
      BY DEF Begun
    <2>6. QED
      BY <1>1, <2>1, <2>3, <2>4, <2>5 DEF ItemFits
  <1>5. ItemsFit(new, Len(new))
    <2>1. \A j \in 1 .. (n + 1) : j \in 1 .. n \/ j = n + 1
      BY <1>1
    <2>2. QED
      BY <1>1, <1>3, <1>4, <2>1 DEF ItemsFit
  <1>6. x.text => AtEnd(new, last, Len(new))
    <2> SUFFICES ASSUME x.text PROVE AtEnd(new, last, n + 1)
      BY <1>1
    <2>1. now = 0
      OBVIOUS
    <2>2. \A i \in (last + 1) .. (n + 1) :
             i = n + 1 \/ (i \in 1 .. n /\ i \in (last + 1) .. n /\ i # 0)
      BY <1>1, <1>2
    <2>3. last # 0 => last \in 1 .. n
      BY <1>1, <1>2
    <2>4. \A i \in (last + 1) .. (n + 1) : new[i].text /\ (i = n + 1 \/ Over(new[i]))
      BY <1>1, <1>2, <2>1, <2>2
    <2>5. last \in 0 .. (n + 1)
      BY <1>1, <1>2
    <2>6. QED
      BY <1>1, <1>2, <2>3, <2>4, <2>5 DEF AtEnd
  <1>7. ~x.text => AtEnd(new, Len(new), 0)
    BY <1>1 DEF AtEnd
  <1>8. QED
    BY <1>1, <1>5, <1>6, <1>7

NativeInv == NativeTypeOK /\ Flows(items, broken, ended, barrier, current)

LEMMA NativeStarts == NativeInit => NativeInv
  <1> SUFFICES ASSUME NativeInit PROVE NativeInv
    OBVIOUS
  <1>1. items = <<>> /\ Len(items) = 0 /\ items \in Seq(Item)
    BY EmptySeq DEF NativeInit
  <1>2. NativeTypeOK
    <2>1. 0 \in 0 .. MaxItems /\ 0 \in 0 .. MaxCancels
      BY NativeAssumption
    <2>2. current = 0 /\ barrier = 0 /\ cancels = 0 /\ ended = "no"
          /\ drained = FALSE /\ broken = FALSE /\ aborted = FALSE /\ superseded = FALSE
      BY DEF NativeInit
    <2>3. QED
      BY <1>1, <2>1, <2>2 DEF NativeTypeOK
  <1>3. ItemsFit(items, 0)
    BY <1>1 DEF ItemsFit
  <1>4. AtEnd(items, barrier, current)
    BY <1>1 DEF AtEnd, NativeInit
  <1>5. Flows(items, broken, ended, barrier, current)
    BY <1>1, <1>3, <1>4 DEF Flows
  <1>6. QED
    BY <1>2, <1>5 DEF NativeInv

LEMMA NewItemFacts ==
    ASSUME NEW text \in BOOLEAN, NEW after \in 0 .. MaxItems
    PROVE  /\ NewItem(text, after) \in Item
           /\ NewItem(text, after).text = text /\ NewItem(text, after).after = after
           /\ NewItem(text, after).at = "waiting" /\ NewItem(text, after).passed = "no"
           /\ NewItem(text, after).cancelled = FALSE
  BY DEF NewItem, Item

\* close() of a bubble.
LEMMA ClosedFacts ==
    ASSUME NEW is \in Seq(Item), NEW which, NEW interrupted \in BOOLEAN,
           superseded \in BOOLEAN
    PROVE  /\ ItemsMove(is, ClosedItems(is, which, interrupted))
           /\ \A i \in 1 .. Len(is) :
                 /\ ClosedItems(is, which, interrupted)[i].at = is[i].at
                 /\ ClosedItems(is, which, interrupted)[i].passed = is[i].passed
                 /\ ~is[i].text => ClosedItems(is, which, interrupted)[i] = is[i]
                 /\ is[i].text /\ interrupted /\ i \in which =>
                       Over(ClosedItems(is, which, interrupted)[i])
  <1> DEFINE new == ClosedItems(is, which, interrupted)
  <1>1. DOMAIN is = 1 .. Len(is) /\ Len(is) \in Nat
        /\ \A i \in 1 .. Len(is) : is[i] \in Item
    BY ItemFacts, LenProperties
  <1>2. \A i \in 1 .. Len(is) :
           new[i] = IF i \in which /\ is[i].text /\ is[i].passed = "no"
                    THEN [is[i] EXCEPT !.closing = TRUE,
                                       !.cancelled = @ \/ interrupted \/ superseded]
                    ELSE is[i]
    BY <1>1 DEF ClosedItems
  <1>3. new = [i \in 1 .. Len(is) |-> new[i]]
    BY <1>1 DEF ClosedItems
  <1> HIDE DEF new
  <1>4. ASSUME NEW i \in 1 .. Len(is)
        PROVE  /\ new[i] \in Item /\ Kept(is[i], new[i])
               /\ new[i].at = is[i].at /\ new[i].passed = is[i].passed
               /\ ~is[i].text => new[i] = is[i]
               /\ is[i].text /\ interrupted /\ i \in which => Over(new[i])
    <2>1. is[i] \in Item
      BY <1>1
    <2>2. CASE i \in which /\ is[i].text /\ is[i].passed = "no"
      <3> DEFINE c == is[i].cancelled \/ interrupted \/ superseded
      <3>1. c \in BOOLEAN
        BY Zenon
      <3> HIDE DEF c
      <3>2. new[i] = [is[i] EXCEPT !.closing = TRUE, !.cancelled = c]
        BY <1>2, <2>2 DEF c
      <3>3. /\ new[i] \in Item /\ new[i].text = is[i].text /\ new[i].after = is[i].after
            /\ new[i].at = is[i].at /\ new[i].passed = is[i].passed
            /\ new[i].cancelled = c
        BY <2>1, <3>1, <3>2 DEF Item
      <3>4. is[i].cancelled => c
        BY DEF c
      <3>5. interrupted => c
        BY DEF c
      <3>6. QED
        BY <2>2, <3>3, <3>4, <3>5 DEF Kept, Over
    <2>3. CASE ~(i \in which /\ is[i].text /\ is[i].passed = "no")
      <3>1. new[i] = is[i]
        BY <1>2, <2>3
      <3>2. QED
        BY <2>1, <2>3, <3>1 DEF Kept, Over
    <2>4. QED
      BY <2>2, <2>3
  <1>5. new \in Seq(Item) /\ Len(new) = Len(is)
    BY <1>1, <1>3, <1>4, IsASeq
  <1>6. ItemsMove(is, new)
    BY <1>4, <1>5 DEF ItemsMove
  <1>7. QED
    BY <1>4, <1>6 DEF new

\* What an item that may go on can rely on.
LEMMA ItemIsFree ==
    ASSUME NativeInv, NEW i \in Produced
    PROVE  /\ ~items[i].text => /\ items[i].at # "skipped"
                                /\ items[i].passed = "ok" => items[i].at = "over"
           /\ ~items[i].text /\ items[i].at = "waiting" /\ FirstInLine(i)
              /\ (items[i].cancelled \/ Promise(items[i].after) # "no") =>
                    \A k \in 1 .. (i - 1) : Behind(items[k])
           /\ items[i].text /\ Promise(items[i].after) = "ok" =>
                    \A k \in 1 .. (i - 1) : Behind(items[k])
  <1>1. /\ items \in Seq(Item) /\ Len(items) \in Nat /\ i \in 1 .. Len(items)
        /\ \A k \in 1 .. Len(items) : items[k] \in Item
    BY ItemFacts DEF NativeInv, NativeTypeOK, Produced
  <1>2. PICK f \in 0 .. Len(items) : ItemsFit(items, f)
    BY DEF NativeInv, Flows
  <1>3. CASE i \in (f + 1) .. Len(items)
    BY <1>2, <1>3 DEF ItemsFit
  <1>4. CASE i \in 1 .. f
    <2>1. ItemFits(items, i)
      BY <1>2, <1>4 DEF ItemsFit
    <2>2. items[i].after # 0 => Promise(items[i].after) = items[items[i].after].passed
      BY DEF Promise
    <2>3. ASSUME ~items[i].text, items[i].at = "waiting", FirstInLine(i),
                 items[i].cancelled \/ Promise(items[i].after) # "no"
          PROVE  \A k \in 1 .. (i - 1) : Behind(items[k])
      <3>1. \A k \in 1 .. (i - 1) : k \in 1 .. Len(items)
        BY <1>1
      <3>2. \A k \in 1 .. (i - 1) : ~items[k].text => items[k].at = "over"
        <4> SUFFICES ASSUME NEW k \in 1 .. (i - 1), ~items[k].text
                     PROVE  items[k].at = "over"
          OBVIOUS
        <4>1. items[k].at \notin {"waiting", "going"}
          BY <1>1, <2>3, <3>1 DEF FirstInLine, Item
        <4>2. items[k].at # "skipped"
          <5>1. k \in 1 .. f
            BY <1>1, <1>2, <1>4
          <5>2. QED
            BY <1>2, <5>1 DEF ItemsFit, ItemFits
        <4>3. items[k].at \in {"waiting", "going", "skipped", "over"}
          BY <1>1, <3>1 DEF Item
        <4>4. QED
          BY <4>1, <4>2, <4>3
      <3>3. CASE items[i].cancelled
        BY <2>1, <2>3, <3>2, <3>3 DEF ItemFits, Behind
      <3>4. CASE Promise(items[i].after) # "no"
        BY <1>1, <1>2, <1>4, <2>2, <2>3, <3>2, <3>4, MediaIsFree
      <3>5. QED
        BY <2>3, <3>3, <3>4
    <2>4. ASSUME items[i].text, Promise(items[i].after) = "ok"
          PROVE  \A k \in 1 .. (i - 1) : Behind(items[k])
      BY <1>1, <1>2, <1>4, <2>2, <2>4, BubbleIsFree
    <2>5. QED
      BY <2>1, <2>3, <2>4 DEF ItemFits
  <1>5. QED
    BY <1>1, <1>2, <1>3, <1>4

LEMMA ItemStep ==
    ASSUME NativeInv, NEW i \in Produced,
           TextStep(i) \/ MediaGoes(i) \/ MediaSettles(i) \/ GateOpens(i)
    PROVE  NativeInv'
  <1> DEFINE old == items[i]
  <1>1. /\ NativeTypeOK /\ items \in Seq(Item) /\ i \in 1 .. Len(items) /\ old \in Item
        /\ Flows(items, broken, ended, barrier, current)
    BY ItemFacts DEF NativeInv, NativeTypeOK, Produced
  <1>2. /\ UNCHANGED <<current, barrier, drained, aborted, superseded, ended, cancels>>
        /\ broken' \in BOOLEAN /\ (broken => broken')
    BY <1>1 DEF TextStep, StartSkipped, StartOpens, StartFails, CloseSettles, MediaGoes,
                MediaSettles, GateOpens, NativeTypeOK
  <1>3. ASSUME NEW x \in Item, items' = [items EXCEPT ![i] = x], Kept(old, x),
               x.cancelled = old.cancelled,
               ~x.text => x.at # "skipped" /\ (x.passed = "ok" => x.at = "over"),
               Begun(x) => Begun(old) \/ \A k \in 1 .. (i - 1) : Behind(items[k])
        PROVE  NativeInv'
    <2>g. GoesOn(items, items', i, x)
      BY <1>3 DEF GoesOn
    <2>1. /\ items' \in Seq(Item) /\ Flows(items', broken', ended, barrier, current)
      BY <1>1, <1>2, <2>g, OneItemFits
    <2>2. NativeTypeOK'
      BY <1>1, <1>2, <2>1 DEF NativeTypeOK
    <2>3. QED
      BY <1>2, <2>1, <2>2 DEF NativeInv
  \* Goes and Passes.
  <1>4. ASSUME NEW at \in {"waiting", "going", "skipped", "over"},
               NEW how \in {"no", "ok", "failed"},
               items' = [items EXCEPT ![i] = [old EXCEPT !.at = at, !.passed = how]],
               old.passed # "no" => how = old.passed,
               ~old.text => at # "skipped" /\ (how = "ok" => at = "over")
                            /\ (old.at = "over" => at = "over"),
               Begun([old EXCEPT !.at = at, !.passed = how]) =>
                  Begun(old) \/ \A k \in 1 .. (i - 1) : Behind(items[k])
        PROVE  NativeInv'
    <2> DEFINE x == [old EXCEPT !.at = at, !.passed = how]
    <2>1. /\ x \in Item /\ x.text = old.text /\ x.after = old.after /\ x.at = at
          /\ x.passed = how /\ x.cancelled = old.cancelled
      BY <1>1 DEF Item
    <2>2. items' = [items EXCEPT ![i] = x]
      BY <1>4
    <2>3. Begun(x) => Begun(old) \/ \A k \in 1 .. (i - 1) : Behind(items[k])
      BY <1>4
    <2> HIDE DEF x
    <2>4. Kept(old, x)
      BY <1>4, <2>1 DEF Kept, Over
    <2>5. QED
      BY <1>3, <1>4, <2>1, <2>2, <2>3, <2>4
  <1>5. \A at : Goes(i, at) =>
           items' = [items EXCEPT ![i] = [old EXCEPT !.at = at, !.passed = old.passed]]
    BY <1>1 DEF Goes, Item
  <1>6. \A how : Passes(i, how) =>
           items' = [items EXCEPT ![i] = [old EXCEPT !.at = "over", !.passed = how]]
    BY <1>1 DEF Passes
  <1>7. old.passed \in {"no", "ok", "failed"} /\ old.text \in BOOLEAN
    BY <1>1 DEF Item
  <1>8. ~old.text => old.at # "skipped" /\ (old.passed = "ok" => old.at = "over")
    BY ItemIsFree
  <1>b. \A at, how : Begun([old EXCEPT !.at = at, !.passed = how]) <=>
                        at = "going" \/ (~old.text /\ at = "over")
    BY <1>1 DEF Begun, Item
  <1>9. CASE StartSkipped(i)
    <2>1. old.text /\ Goes(i, "skipped")
      BY <1>9 DEF StartSkipped
    <2>2. ~Begun([old EXCEPT !.at = "skipped", !.passed = old.passed])
      BY <1>1, <2>1 DEF Begun, Item
    <2>3. QED
      BY <1>4, <1>5, <1>7, <2>1, <2>2
  <1>10. CASE StartOpens(i)
    <2>1. old.text /\ Goes(i, "going") /\ Promise(old.after) = "ok"
      BY <1>10 DEF StartOpens
    <2>2. \A k \in 1 .. (i - 1) : Behind(items[k])
      BY <2>1, ItemIsFree
    <2>3. QED
      BY <1>4, <1>5, <1>7, <2>1, <2>2
  <1>11. CASE StartFails(i)
    <2>1. old.text /\ Goes(i, "over")
      BY <1>11 DEF StartFails
    <2>2. ~Begun([old EXCEPT !.at = "over", !.passed = old.passed])
      BY <1>1, <2>1 DEF Begun, Item
    <2>3. QED
      BY <1>4, <1>5, <1>7, <2>1, <2>2
  <1>12. CASE CloseSettles(i)
    <2>1. /\ old.text /\ old.passed = "no"
          /\ Passes(i, "ok") \/ Passes(i, "failed")
      BY <1>12 DEF CloseSettles
    <2>2. \A how : ~Begun([old EXCEPT !.at = "over", !.passed = how])
      BY <1>1, <2>1 DEF Begun, Item
    <2>3. QED
      BY <1>4, <1>6, <2>1, <2>2
  <1>13. CASE MediaGoes(i)
    <2>1. ~old.text /\ old.at = "waiting" /\ FirstInLine(i) /\ Promise(old.after) = "ok"
          /\ Goes(i, "going")
      BY <1>13 DEF MediaGoes
    <2>2. \A k \in 1 .. (i - 1) : Behind(items[k])
      BY <2>1, ItemIsFree
    <2>3. QED
      BY <1>4, <1>5, <1>7, <1>8, <2>1, <2>2
  <1>14. CASE MediaSettles(i)
    <2>1. ~old.text /\ Goes(i, "over")
      BY <1>14 DEF MediaSettles
    <2>2. Begun(old) \/ \A k \in 1 .. (i - 1) : Behind(items[k])
      <3>1. CASE old.at = "going"
        BY <3>1 DEF Begun
      <3>2. CASE /\ old.at = "waiting" /\ FirstInLine(i)
                 /\ old.cancelled \/ Promise(old.after) = "failed"
        BY <2>1, <3>2, ItemIsFree
      <3>3. QED
        BY <1>14, <3>1, <3>2 DEF MediaSettles
    <2>3. QED
      BY <1>4, <1>5, <1>7, <2>1, <2>2
  <1>15. CASE GateOpens(i)
    <2> DEFINE ready == Promise(old.after)
    <2>1. /\ ~old.text /\ old.passed = "no" /\ ready \in {"ok", "failed"}
          /\ ready = "ok" => old.at = "over"
      BY <1>15 DEF GateOpens
    <2>2. items' = [items EXCEPT ![i].passed = ready]
      BY <1>15 DEF GateOpens
    <2> HIDE DEF ready
    <2>3. /\ items' = [items EXCEPT ![i] = [old EXCEPT !.at = old.at, !.passed = ready]]
          /\ old.at \in {"waiting", "going", "skipped", "over"}
      BY <1>1, <2>2 DEF Item
    <2>4. Begun([old EXCEPT !.at = old.at, !.passed = ready]) => Begun(old)
      BY <1>b DEF Begun
    <2>5. QED
      BY <1>4, <1>8, <2>1, <2>3, <2>4
  <1>16. QED
    BY <1>9, <1>10, <1>11, <1>12, <1>13, <1>14, <1>15 DEF TextStep

LEMMA AppendFacts ==
    ASSUME NEW is \in Seq(Item), NEW x \in Item
    PROVE  /\ Append(is, x) \in Seq(Item) /\ Len(Append(is, x)) = Len(is) + 1
           /\ Append(is, x)[Len(is) + 1] = x
           /\ \A i \in 1 .. Len(is) : Append(is, x)[i] = is[i]
  BY AppendProperties

LEMMA ProducesStep ==
    ASSUME NativeInv, AppendDelta \/ BeginExternalDelivery \/ BeginAfterFailure
    PROVE  NativeInv'
  <1> DEFINE n == Len(items)
  <1>1. /\ NativeTypeOK /\ items \in Seq(Item) /\ n \in Nat /\ superseded \in BOOLEAN
        /\ Flows(items, broken, ended, barrier, current)
        /\ barrier \in 0 .. MaxItems /\ current \in 0 .. MaxItems /\ MaxItems \in Nat
    BY ItemFacts, NativeAssumption DEF NativeInv, NativeTypeOK
  <1>2. ended = "no" /\ n < MaxItems /\ n + 1 \in 0 .. MaxItems
    <2>1. ended = "no" /\ n < MaxItems
      BY DEF AppendDelta, BeginExternalDelivery, BeginAfterFailure
    <2>2. QED
      BY <1>1, <2>1
  <1>3. ~broken => ItemsFit(items, n) /\ AtEnd(items, barrier, current)
    BY <1>1, <1>2 DEF Flows
  <1>4. CASE AppendDelta
    <2> DEFINE x == NewItem(TRUE, barrier)
    <2>1. /\ x \in Item /\ x.text /\ x.after = barrier /\ x.at = "waiting"
          /\ x.passed = "no" /\ ~x.cancelled
      BY <1>1, NewItemFacts
    <2>2. /\ ~broken /\ current = 0 /\ items' = Append(items, x) /\ current' = n + 1
          /\ UNCHANGED <<barrier, drained, broken, aborted, superseded, ended, cancels>>
      BY <1>4 DEF AppendDelta
    <2> HIDE DEF x
    <2>3. AtEnd(items, barrier, 0)
      BY <1>3, <2>2
    <2>4. /\ items' \in Seq(Item) /\ ItemsFit(items', Len(items'))
          /\ AtEnd(items', barrier, Len(items'))
      BY <1>1, <1>3, <2>1, <2>2, <2>3, ProducedFits
    <2>5. Len(items') = n + 1
      BY <1>1, <2>1, <2>2, AppendFacts
    <2>6. Flows(items', broken', ended', barrier', current')
      BY <1>1, <2>2, <2>4, <2>5 DEF Flows
    <2>7. NativeTypeOK'
      BY <1>1, <1>2, <2>2, <2>4 DEF NativeTypeOK
    <2>8. QED
      BY <2>6, <2>7 DEF NativeInv
  <1>5. CASE BeginExternalDelivery
    <2> DEFINE ready == IF current # 0 THEN current ELSE barrier
               is == ClosedItems(items, {current}, FALSE)
               x == NewItem(FALSE, ready)
    <2>1. ready \in 0 .. MaxItems
      BY <1>1
    <2>2. /\ x \in Item /\ x.text = FALSE /\ x.after = ready /\ x.at = "waiting"
          /\ x.passed = "no" /\ x.cancelled = FALSE
      BY <2>1, NewItemFacts
    <2>3. /\ ~broken /\ items' = Append(is, x) /\ barrier' = n + 1 /\ current' = 0
          /\ UNCHANGED <<drained, broken, aborted, superseded, ended, cancels>>
      BY <1>5 DEF BeginExternalDelivery
    <2>4. /\ ItemsMove(items, is)
          /\ \A i \in 1 .. n : /\ is[i].at = items[i].at /\ is[i].passed = items[i].passed
                               /\ ~items[i].text => is[i] = items[i]
      BY <1>1, ClosedFacts
    <2>r. ready = IF current # 0 THEN current ELSE barrier
      OBVIOUS
    <2> HIDE DEF ready, is, x
    <2>5. Flows(is, broken, ended, barrier, current)
      <3>1. \A i \in 1 .. n :
               ~items[i].text /\ is[i].cancelled =>
                  items[i].cancelled \/ \A k \in 1 .. n : Over(is[k])
        BY <2>4
      <3>2. QED
        BY <1>1, <2>4, <3>1, CancelledStayFit
    <2>6. is \in Seq(Item) /\ Len(is) = n
      BY <2>4 DEF ItemsMove
    <2>7. ItemsFit(is, Len(is)) /\ AtEnd(is, barrier, current)
      BY <1>2, <2>3, <2>5 DEF Flows
    <2>8. /\ items' \in Seq(Item) /\ ItemsFit(items', Len(items'))
          /\ AtEnd(items', Len(items'), 0)
      BY <2>2, <2>3, <2>6, <2>7, <2>r, ProducedFits
    <2>9. Len(items') = n + 1
      BY <2>2, <2>3, <2>6, AppendFacts
    <2>10. Flows(items', broken', ended', barrier', current')
      BY <1>1, <2>3, <2>8, <2>9 DEF Flows
    <2>11. NativeTypeOK'
      BY <1>1, <1>2, <2>3, <2>8 DEF NativeTypeOK
    <2>12. QED
      BY <2>10, <2>11 DEF NativeInv
  <1>6. CASE BeginAfterFailure
    <2> DEFINE x == [NewItem(FALSE, barrier) EXCEPT !.at = "over", !.passed = "failed"]
    <2>1. x \in Item /\ x.text = FALSE /\ x.at = "over" /\ x.passed = "failed"
      <3>1. NewItem(FALSE, barrier) \in Item /\ NewItem(FALSE, barrier).text = FALSE
        BY <1>1, NewItemFacts
      <3> DEFINE y == NewItem(FALSE, barrier)
      <3> HIDE DEF y
      <3>2. y \in Item /\ y.text = FALSE
        BY <3>1 DEF y
      <3>3. LET z == [y EXCEPT !.at = "over", !.passed = "failed"]
            IN  z \in Item /\ z.text = FALSE /\ z.at = "over" /\ z.passed = "failed"
        BY <3>2 DEF Item
      <3>4. QED
        BY <3>3 DEF y
    <2>2. /\ broken /\ items' = Append(items, x) /\ barrier' = n + 1 /\ current' = 0
          /\ UNCHANGED <<drained, broken, aborted, superseded, ended, cancels>>
      BY <1>6 DEF BeginAfterFailure
    <2> HIDE DEF x
    <2>3. /\ items' \in Seq(Item) /\ Len(items') = n + 1 /\ items'[n + 1] = x
          /\ \A i \in 1 .. n : items'[i] = items[i] /\ items[i].after \in Nat
      BY <1>1, <2>1, <2>2, AppendFacts, ItemFacts
    <2>4. PICK f \in 0 .. n : ItemsFit(items, f)
      BY <1>1 DEF Flows
    <2>5. ASSUME NEW j \in 1 .. f PROVE ItemFits(items', j)
      <3>1. ItemFits(items, j) /\ j \in 1 .. n
        BY <1>1, <2>4 DEF ItemsFit
      <3>2. QED
        BY <1>1, <2>3, <3>1, EarlierFit
    <2>6. \A j \in (f + 1) .. (n + 1) :
             ~items'[j].text /\ items'[j].at = "over" /\ items'[j].passed = "failed"
      <3>1. \A j \in (f + 1) .. (n + 1) : j = n + 1 \/ (j \in (f + 1) .. n /\ j \in 1 .. n)
        BY <1>1
      <3>2. QED
        BY <2>1, <2>3, <2>4, <3>1 DEF ItemsFit
    <2>7. ItemsFit(items', f) /\ f \in 0 .. Len(items')
      BY <1>1, <2>3, <2>5, <2>6 DEF ItemsFit
    <2>8. Flows(items', broken', ended', barrier', current')
      BY <2>2, <2>7 DEF Flows
    <2>9. NativeTypeOK'
      BY <1>1, <1>2, <2>2, <2>3 DEF NativeTypeOK
    <2>10. QED
      BY <2>8, <2>9 DEF NativeInv
  <1>7. QED
    BY <1>4, <1>5, <1>6

LEMMA ClosesStep ==
    ASSUME NativeInv, FinishStream \/ InterruptStream \/ SignalsAbort
    PROVE  NativeInv'
  <1> DEFINE n == Len(items)
  <1>1. /\ NativeTypeOK /\ items \in Seq(Item) /\ n \in Nat /\ superseded \in BOOLEAN
        /\ Flows(items, broken, ended, barrier, current)
        /\ barrier \in 0 .. MaxItems /\ current \in 0 .. MaxItems /\ 0 \in 0 .. MaxItems
        /\ cancels \in 0 .. MaxCancels /\ MaxCancels \in Nat
    BY ItemFacts, NativeAssumption DEF NativeInv, NativeTypeOK
  <1>2. ASSUME NEW which, NEW how \in BOOLEAN, items' = ClosedItems(items, which, how),
               broken' = broken, ended' # "no"
        PROVE  items' \in Seq(Item) /\ Flows(items', broken', ended', barrier', current')
    <2> DEFINE is == ClosedItems(items, which, how)
    <2>1. /\ ItemsMove(items, is)
          /\ \A i \in 1 .. n : /\ is[i].at = items[i].at /\ is[i].passed = items[i].passed
                               /\ ~items[i].text => is[i] = items[i]
      BY <1>1, ClosedFacts
    <2> HIDE DEF is
    <2>2. \A i \in 1 .. n :
             ~items[i].text /\ is[i].cancelled =>
                items[i].cancelled \/ \A k \in 1 .. n : Over(is[k])
      BY <2>1
    <2>3. Flows(is, broken, ended', barrier', current')
      BY <1>1, <1>2, <2>1, <2>2, CancelledStayFit
    <2>4. is \in Seq(Item) /\ is = items'
      BY <1>2, <2>1 DEF ItemsMove, is
    <2>5. QED
      BY <1>2, <2>3, <2>4
  <1>3. CASE FinishStream
    <2>1. /\ items' = ClosedItems(items, {current}, FALSE) /\ ended' = "finish"
          /\ current' = 0 /\ barrier' \in 0 .. MaxItems
          /\ UNCHANGED <<drained, broken, aborted, superseded, cancels>>
      BY <1>1, <1>3 DEF FinishStream
    <2>2. items' \in Seq(Item) /\ Flows(items', broken', ended', barrier', current')
      BY <1>2, <2>1
    <2>3. QED
      BY <1>1, <2>1, <2>2 DEF NativeInv, NativeTypeOK
  <1>4. CASE InterruptStream
    <2>1. /\ items' = ClosedItems(items, Produced, TRUE) /\ ended' = "interrupt"
          /\ current' = 0
          /\ UNCHANGED <<barrier, drained, broken, aborted, superseded, cancels>>
      BY <1>4 DEF InterruptStream
    <2>2. items' \in Seq(Item) /\ Flows(items', broken', ended', barrier', current')
      BY <1>2, <2>1
    <2>3. QED
      BY <1>1, <2>1, <2>2 DEF NativeInv, NativeTypeOK
  <1>5. CASE SignalsAbort
    <2> DEFINE is == ClosedItems(items, Produced, TRUE)
    <2>1. /\ items' = [i \in 1 .. n |-> [is[i] EXCEPT !.cancelled = @ \/ items[i].passed = "no"]]
          /\ cancels < MaxCancels /\ cancels' = cancels + 1 /\ aborted' = TRUE
          /\ current' = 0
          /\ UNCHANGED <<barrier, drained, broken, superseded, ended>>
      BY <1>5 DEF SignalsAbort, Produced
    <2>2. /\ ItemsMove(items, is)
          /\ \A i \in 1 .. n : is[i].at = items[i].at /\ is[i].passed = items[i].passed
      BY <1>1, ClosedFacts
    <2> HIDE DEF is
    <2>3. is \in Seq(Item) /\ Len(is) = n
      BY <2>2 DEF ItemsMove
    <2>4. \A i \in 1 .. n : is[i] \in Item /\ Kept(items[i], is[i])
      BY <2>2, <2>3, ItemFacts DEF ItemsMove
    <2>5. ASSUME NEW i \in 1 .. n
          PROVE  /\ items'[i] \in Item /\ Kept(items[i], items'[i]) /\ Over(items'[i])
                 /\ items'[i].at = items[i].at /\ items'[i].passed = items[i].passed
      <3> DEFINE x == is[i]
                 c == x.cancelled \/ items[i].passed = "no"
      <3>1. c \in BOOLEAN
        BY Zenon
      <3>2. items'[i] = [x EXCEPT !.cancelled = c]
        BY <2>1
      <3>3. items[i].passed = "no" => c
        OBVIOUS
      <3>4. x \in Item /\ Kept(items[i], x) /\ x.at = items[i].at /\ x.passed = items[i].passed
        BY <2>2, <2>4
      <3> HIDE DEF c, x
      <3>5. /\ items'[i] \in Item /\ items'[i].text = x.text /\ items'[i].after = x.after
            /\ items'[i].at = x.at /\ items'[i].passed = x.passed
            /\ items'[i].cancelled = c
        BY <3>1, <3>2, <3>4 DEF Item
      <3>6. Over(items'[i])
        BY <3>3, <3>4, <3>5 DEF Over
      <3>7. QED
        BY <3>4, <3>5, <3>6 DEF Kept
    <2>6. items' \in Seq(Item) /\ Len(items') = n
      <3>1. items' = [i \in 1 .. n |-> items'[i]]
        BY <2>1
      <3>2. QED
        BY <1>1, <2>5, <3>1, IsASeq
    <2>7. ItemsMove(items, items')
      BY <1>1, <2>5, <2>6 DEF ItemsMove
    <2>8. Flows(items', broken, ended, barrier, 0)
      <3>1. \A i \in 1 .. n :
               ~items[i].text /\ items'[i].cancelled =>
                  items[i].cancelled \/ \A k \in 1 .. n : Over(items'[k])
        BY <2>5
      <3>2. QED
        BY <1>1, <2>5, <2>7, <3>1, CancelledStayFit
    <2>9. Flows(items', broken', ended', barrier', current')
      BY <2>1, <2>8
    <2>10. NativeTypeOK'
      <3>1. cancels' \in 0 .. MaxCancels
        BY <1>1, <2>1
      <3>2. QED
        BY <1>1, <2>1, <2>6, <3>1 DEF NativeTypeOK
    <2>11. QED
      BY <2>9, <2>10 DEF NativeInv
  <1>6. QED
    BY <1>3, <1>4, <1>5

LEMMA NativeInvariant == NativeSpec => []NativeInv
  <1>1. NativeInv /\ [NativeNext]_nativeVars => NativeInv'
    <2> SUFFICES ASSUME NativeInv, [NativeNext]_nativeVars PROVE NativeInv'
      OBVIOUS
    <2>1. CASE AppendDelta \/ BeginExternalDelivery \/ BeginAfterFailure
      BY <2>1, ProducesStep
    <2>2. CASE FinishStream \/ InterruptStream \/ SignalsAbort
      BY <2>2, ClosesStep
    <2>3. CASE SignalsRenewed \/ Superseded \/ QueueDrained \/ UNCHANGED nativeVars
      <3>1. /\ UNCHANGED <<items, current, barrier, broken, ended, cancels>>
            /\ drained' \in BOOLEAN /\ aborted' \in BOOLEAN /\ superseded' \in BOOLEAN
        BY <2>3 DEF SignalsRenewed, Superseded, QueueDrained, nativeVars, NativeInv,
                    NativeTypeOK
      <3>2. QED
        BY <3>1 DEF NativeInv, NativeTypeOK
    <2>4. CASE \E i \in Produced : TextStep(i) \/ MediaGoes(i) \/ MediaSettles(i) \/ GateOpens(i)
      BY <2>4, ItemStep
    <2>5. QED
      BY <2>1, <2>2, <2>3, <2>4 DEF NativeNext
  <1>2. QED
    BY <1>1, NativeStarts, PTL DEF NativeSpec

\* The items of a run stay well-formed: a promise an item waits for is one of the
\* run's, and only what was produced is current.
THEOREM NativeTypes == NativeSpec => []NativeTypeOK
  <1>1. NativeInv => NativeTypeOK
    BY DEF NativeInv
  <1>2. QED
    BY <1>1, NativeInvariant, PTL

\* Whatever is cancelled, fails or settles in the meantime, a bubble or media begins
\* only behind everything the run produced before it (append, beginExternalDelivery
\* and the chain of native-stream-start).
THEOREM NativeItemsKeepOrder == NativeSpec => []ItemsKeepOrder
  <1>1. ASSUME NativeInv PROVE ItemsKeepOrder
    <2> SUFFICES ASSUME NEW i \in Produced, NEW j \in Produced, i < j, items[j].at = "going"
                 PROVE  IF items[i].text
                        THEN items[i].passed # "no" \/ items[i].at = "skipped"
                             \/ items[i].cancelled
                        ELSE items[i].at = "over"
      BY DEF ItemsKeepOrder
    <2>1. items \in Seq(Item) /\ Len(items) \in Nat /\ i \in 1 .. Len(items)
          /\ j \in 1 .. Len(items)
      BY <1>1, ItemFacts DEF NativeInv, NativeTypeOK, Produced
    <2>2. PICK f \in 0 .. Len(items) : ItemsFit(items, f)
      BY <1>1 DEF NativeInv, Flows
    <2>3. j \in 1 .. f
      <3>1. j \notin (f + 1) .. Len(items)
        BY <2>2 DEF ItemsFit
      <3>2. QED
        BY <2>1, <2>2, <3>1
    <2>4. ItemFits(items, j) /\ Begun(items[j]) /\ i \in 1 .. (j - 1)
      BY <2>1, <2>2, <2>3 DEF ItemsFit, Begun
    <2>5. Behind(items[i])
      BY <2>4 DEF ItemFits
    <2>6. QED
      BY <2>5 DEF Behind, Over
  <1>2. QED
    BY <1>1, NativeInvariant, PTL
=============================================================================
