---------------------------- MODULE ResponseTurns ----------------------------
(***************************************************************************)
(* What a chat session promises about its responses, whatever happens in   *)
(* the pipeline behind it: they are numbered in the order they open, one   *)
(* is open at a time, a closed one never opens again, at most one          *)
(* generation works for the session and it works for the open response.    *)
(***************************************************************************)
EXTENDS Naturals

VARIABLES
    slot,    \* the number of the open response, 0 when none is open
    issued,  \* how many responses were opened so far
    live     \* the generations nobody has aborted

vars == <<slot, issued, live>>

Init == slot = 0 /\ issued = 0 /\ live = {}

(* The next response opens, and its generation starts. *)
OpenNext ==
    /\ issued' = issued + 1
    /\ slot' = issued + 1
    /\ live' = {issued + 1}

Open == slot = 0 /\ OpenNext

(* The generation ends, or is cancelled; delivery goes on. *)
Settle == slot # 0 /\ live # {} /\ live' = {} /\ UNCHANGED <<slot, issued>>

Close == slot # 0 /\ slot' = 0 /\ live' = {} /\ UNCHANGED issued

(* The response closes and queued work opens the next one at once. *)
Handover == slot # 0 /\ OpenNext

Next == Open \/ Settle \/ Close \/ Handover

Spec == Init /\ [][Next]_vars

FairSpec == Spec /\ WF_vars(Close \/ Handover)
=============================================================================
