-------------------------------- MODULE QqGateway --------------------------------
(***************************************************************************)
(* The connection to the QQ official gateway (services/qqOfficial/gateway.ts)*)
(* as a client that must not stay without one: attempts to connect, the      *)
(* handshake with its watchdog, heartbeats, and the reconnect timer, while    *)
(* the application stops and starts it and the peer refuses, closes, asks to  *)
(* reconnect, or falls silent.                                               *)
(*                                                                           *)
(* An attempt compares the generation it began with: it is the current one   *)
(* or a stale one, and any number of stale ones is like one.  Backoff delays, *)
(* tokens and the numbers of dispatches are left out.                         *)
(***************************************************************************)

VARIABLES
    gwStopped,    \* stopped
    attempts,     \* connect() calls in flight: "current", "stale"
    socket,       \* none, or how far its handshake came
    peerAnswers,  \* the peer of the socket still answers and closes it
    watchdog,     \* handshakeWatchdog is armed
    heartbeat,    \* "off", or whether the last one was acknowledged
    reconnect,    \* the reconnect timer is armed
    resumable     \* sessionId and sequence are known

gatewayVars == <<gwStopped, attempts, socket, peerAnswers, watchdog, heartbeat,
                 reconnect, resumable>>

GatewayTypeOK ==
    /\ gwStopped \in BOOLEAN
    /\ attempts \subseteq {"current", "stale"}
    /\ socket \in {"none", "opening", "identifying", "resuming", "ready"}
    /\ peerAnswers \in BOOLEAN /\ watchdog \in BOOLEAN
    /\ heartbeat \in {"off", "acknowledged", "sent"}
    /\ reconnect \in BOOLEAN /\ resumable \in BOOLEAN

GatewayInit ==
    /\ gwStopped = TRUE /\ attempts = {} /\ socket = "none" /\ peerAnswers = TRUE
    /\ watchdog = FALSE /\ heartbeat = "off" /\ reconnect = FALSE /\ resumable = FALSE

\* A new generation: what was the current attempt is stale.
Outdated == IF attempts = {} THEN {} ELSE {"stale"}

\* teardown(): no socket, no watchdog, no heartbeat; its listeners are gone.
Teardown ==
    /\ socket' = "none" /\ watchdog' = FALSE /\ heartbeat' = "off"
    /\ peerAnswers' = TRUE

\* The listener of a socket of the current generation that closed.
CloseSocket ==
    /\ Teardown
    /\ reconnect' = ~gwStopped
    /\ UNCHANGED <<gwStopped, attempts>>

-----------------------------------------------------------------------------
(* The application.                                                          *)

StartGateway ==
    /\ gwStopped /\ gwStopped' = FALSE
    /\ attempts' = Outdated \cup {"current"}
    /\ UNCHANGED <<socket, peerAnswers, watchdog, heartbeat, reconnect, resumable>>

StopGateway ==
    /\ ~gwStopped /\ gwStopped' = TRUE
    /\ attempts' = Outdated
    /\ reconnect' = FALSE
    /\ Teardown
    /\ UNCHANGED resumable

-----------------------------------------------------------------------------
(* Connecting.                                                               *)

Current(a) == a = "current" /\ ~gwStopped

\* The socket is made and its handshake watched; a stale attempt gives up.
AttemptSucceeds(a) ==
    /\ a \in attempts /\ attempts' = attempts \ {a}
    /\ IF Current(a)
       THEN socket' = "opening" /\ watchdog' = TRUE /\ peerAnswers' \in BOOLEAN
       ELSE UNCHANGED <<socket, watchdog, peerAnswers>>
    /\ UNCHANGED <<gwStopped, heartbeat, reconnect, resumable>>

(* Mutant: a failed attempt counts on the socket's own close to reconnect.   *)
AttemptFailsForGood(a) ==
    /\ a \in attempts /\ attempts' = attempts \ {a}
    /\ reconnect' = (reconnect \/ (Current(a) /\ resumable))
    /\ UNCHANGED <<gwStopped, socket, peerAnswers, watchdog, heartbeat, resumable>>

AttemptFails(a) ==
    /\ a \in attempts /\ attempts' = attempts \ {a}
    /\ reconnect' = (reconnect \/ Current(a))
    /\ UNCHANGED <<gwStopped, socket, peerAnswers, watchdog, heartbeat, resumable>>

ReconnectFires ==
    /\ reconnect /\ reconnect' = FALSE
    /\ attempts' = Outdated \cup {"current"}
    /\ UNCHANGED <<gwStopped, socket, peerAnswers, watchdog, heartbeat, resumable>>

-----------------------------------------------------------------------------
(* The socket.                                                               *)

(* Mutant: the greeting ends the watch, heartbeats begin when it is ready.   *)
HelloUnwatched ==
    /\ socket # "none" /\ peerAnswers
    /\ watchdog' = FALSE /\ heartbeat' = "off"
    /\ socket' = IF resumable THEN "resuming" ELSE "identifying"
    /\ UNCHANGED <<gwStopped, attempts, peerAnswers, reconnect, resumable>>

\* Op 10: the handshake goes on under a new watch, heartbeats begin.
Hello ==
    /\ socket # "none" /\ peerAnswers
    /\ watchdog' = TRUE /\ heartbeat' = "acknowledged"
    /\ socket' = IF resumable THEN "resuming" ELSE "identifying"
    /\ UNCHANGED <<gwStopped, attempts, peerAnswers, reconnect, resumable>>

\* READY has a session id to resume with, RESUMED keeps the one there is.
Ready ==
    /\ socket \in {"identifying", "resuming"} /\ peerAnswers
    /\ socket' = "ready" /\ watchdog' = FALSE
    /\ resumable' \in IF socket = "resuming" THEN {TRUE} ELSE BOOLEAN
    /\ UNCHANGED <<gwStopped, attempts, peerAnswers, heartbeat, reconnect>>

Acknowledged ==
    /\ heartbeat = "sent" /\ peerAnswers
    /\ heartbeat' = "acknowledged"
    /\ UNCHANGED <<gwStopped, attempts, socket, peerAnswers, watchdog, reconnect, resumable>>

\* Ops 7 and 9, an unusable interval, an error, or the peer closes; the session
\* is forgotten on op 9 and on the codes of an invalid token.
PeerCloses ==
    /\ socket # "none" /\ peerAnswers
    /\ CloseSocket
    /\ resumable' \in {resumable, FALSE}

PeerFallsSilent ==
    /\ socket # "none" /\ peerAnswers /\ peerAnswers' = FALSE
    /\ UNCHANGED <<gwStopped, attempts, socket, watchdog, heartbeat, reconnect, resumable>>

\* terminate() closes the socket whatever the peer does.
WatchdogFires ==
    /\ watchdog
    /\ CloseSocket
    /\ UNCHANGED resumable

HeartbeatFires ==
    /\ heartbeat # "off"
    /\ \/ heartbeat = "sent" /\ CloseSocket
       \/ /\ heartbeat = "acknowledged" /\ heartbeat' = "sent"
          /\ UNCHANGED <<gwStopped, attempts, socket, peerAnswers, watchdog, reconnect>>
    /\ UNCHANGED resumable

-----------------------------------------------------------------------------

GatewayNext ==
    \/ StartGateway \/ StopGateway
    \/ \E a \in attempts : AttemptSucceeds(a) \/ AttemptFails(a)
    \/ ReconnectFires \/ Hello \/ Ready \/ Acknowledged
    \/ PeerCloses \/ PeerFallsSilent \/ WatchdogFires \/ HeartbeatFires

GatewaySpec == GatewayInit /\ [][GatewayNext]_gatewayVars

\* Timers fire; a request has a timeout.
GatewayFairness ==
    /\ \A a \in {"current", "stale"} :
          WF_gatewayVars(AttemptSucceeds(a) \/ AttemptFails(a))
    /\ WF_gatewayVars(ReconnectFires)
    /\ WF_gatewayVars(WatchdogFires)
    /\ WF_gatewayVars(HeartbeatFires)

-----------------------------------------------------------------------------
(* Properties.                                                               *)

\* A gateway that was not stopped is never left without a connection in the
\* making: whatever fails, closes or is restarted meanwhile, there is a socket,
\* an attempt of the current generation or a timer, and never two of them.
NeverStranded ==
    ~gwStopped =>
        \/ socket # "none" /\ "current" \notin attempts /\ ~reconnect
        \/ socket = "none" /\ "current" \in attempts /\ ~reconnect
        \/ socket = "none" /\ "current" \notin attempts /\ reconnect

\* A socket whose peer fell silent is given up, in the middle of the handshake
\* as well as after it.
SilentPeersAreLeft == (socket # "none" /\ ~peerAnswers) ~> (socket = "none")
=============================================================================
