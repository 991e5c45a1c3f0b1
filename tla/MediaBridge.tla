---------------------------- MODULE MediaBridge ----------------------------
(***************************************************************************)
(* The audio of a cellular call between an Agent's modem and Core          *)
(* (go-runtime/internal/agentmedia, and the sessions of cellularmedia that *)
(* use it): Core reserves a place for a session, asks the Agent to prepare *)
(* it, and the Agent opens the modem's audio and dials Core, while Core    *)
(* waits, gives up, revokes the reservation or disconnects the Agent.      *)
(*                                                                         *)
(* One modem.  Sessions have fresh random identities, so that one cannot   *)
(* be reserved twice.  Audio frames, the broker's capacity and a repeated  *)
(* preparation, which Core never sends, are left out.                      *)
(***************************************************************************)
CONSTANTS Session,
          NoSession

ASSUME MediaAssumption == NoSession \notin Session

VARIABLES
  core,         \* what Core's goroutine of each session is doing
  reservations, \* Broker.reservations
  attached,     \* sessions whose reservation got a peer
  signalled,    \* reservations whose ready channel is closed
  unclosed,     \* peers to be closed by the goroutine that revoked them
  handler,      \* the broker's handler of each session's socket
  media,        \* the sockets that are open
  answer,       \* the Agent's answer to the preparation
  prep,         \* the Agent's goroutine of each session
  owner,        \* Manager.sessions of the modem
  audio,        \* the sessions that have opened the modem's audio
  managerClosed

brokerVars  == <<reservations, attached, signalled, unclosed>>
managerVars == <<answer, prep, owner, audio, managerClosed>>
mvars == <<core, brokerVars, handler, media, managerVars>>

MInit ==
  /\ core = [s \in Session |-> "none"]
  /\ reservations = {} /\ attached = {} /\ signalled = {} /\ unclosed = {}
  /\ handler = [s \in Session |-> "none"] /\ media = {}
  /\ answer = [s \in Session |-> "none"] /\ prep = [s \in Session |-> "none"]
  /\ owner = NoSession /\ audio = {} /\ managerClosed = FALSE

-----------------------------------------------------------------------------
(* Core's broker.                                                          *)

\* A set of reservations is removed; their peers are closed after the unlock.
Removed(set) ==
  /\ reservations' = reservations \ set
  /\ signalled' = signalled \cup (set \cap reservations)
  /\ unclosed' = unclosed \cup (set \cap reservations \cap attached)

\* Broker.purgeLocked may find any reservation expired that has no peer yet.
Expired == SUBSET (reservations \ attached)

CoreGoesTo(s, phase) == core' = [core EXCEPT ![s] = phase]

\* Service.prepare reserves and asks the Agent to prepare.
ReserveMedia(s) ==
  /\ core[s] = "none" /\ CoreGoesTo(s, "asking")
  /\ \E e \in Expired :
       /\ reservations' = (reservations \ e) \cup {s}
       /\ signalled' = signalled \cup e
  /\ UNCHANGED <<attached, unclosed, handler, media, managerVars>>

\* The Agent fails or does not answer within 30 seconds: the reservation is
\* revoked, and the Agent is not told.
PrepareFails(s) ==
  /\ core[s] = "asking" /\ CoreGoesTo(s, "over")
  /\ Removed({s})
  /\ UNCHANGED <<attached, handler, media, managerVars>>

\* Broker.Acquire up to its unlock.
PrepareSucceeds(s) ==
  /\ core[s] = "asking" /\ answer[s] = "ok"
  /\ \E e \in Expired :
       /\ Removed(e)
       /\ CoreGoesTo(s, IF s \in reservations \ e THEN "acquiring" ELSE "abandoned")
  /\ UNCHANGED <<attached, handler, media, managerVars>>

\* It wakes up and looks again, or gives up after five seconds.
Acquire(s) ==
  /\ core[s] = "acquiring"
  /\ \/ /\ s \in signalled
        /\ CoreGoesTo(s, IF s \in reservations \cap attached
                         THEN "ready" ELSE "abandoned")
     \/ CoreGoesTo(s, "abandoned")
  /\ UNCHANGED <<brokerVars, handler, media, managerVars>>

\* Service.stopMedia when the call is over: the reservation goes first.
EndMedia(s) ==
  /\ core[s] = "ready" /\ CoreGoesTo(s, "stopping")
  /\ Removed({s})
  /\ UNCHANGED <<attached, handler, media, managerVars>>

\* Peer.close by Revoke or DisconnectAgent.
ClosePeer(s) ==
  /\ s \in unclosed /\ unclosed' = unclosed \ {s}
  /\ media' = media \ {s}
  /\ UNCHANGED <<core, reservations, attached, signalled, handler, managerVars>>

\* The Agent's credential is revoked.
DisconnectMedia ==
  /\ reservations # {} /\ Removed(reservations)
  /\ UNCHANGED <<core, attached, handler, media, managerVars>>

-----------------------------------------------------------------------------
(* Its handler of the Agent's socket (Broker.ServeHTTP).                   *)

HandlerGoesTo(s, phase) == handler' = [handler EXCEPT ![s] = phase]

\* The Agent has dialled; its credential may not be the one of the moment.
Handshake(s) ==
  /\ prep[s] = "dialing" /\ handler[s] = "none"
  /\ \E e \in Expired :
       /\ Removed(e)
       /\ \/ /\ s \in reservations \ e /\ s \notin attached
             /\ HandlerGoesTo(s, "checked") /\ media' = media \cup {s}
          \/ HandlerGoesTo(s, "over") /\ UNCHANGED media
  /\ UNCHANGED <<core, attached, managerVars>>

\* Mutant: the reservation was checked before the handshake, that will do.
MutantAttach(s) ==
  /\ handler[s] = "checked"
  /\ attached' = attached \cup {s} /\ HandlerGoesTo(s, "attached")
  /\ UNCHANGED <<core, reservations, signalled, unclosed, media, managerVars>>

\* The WebSocket handshake has taken its time: the reservation may be gone.
Attach(s) ==
  /\ handler[s] = "checked"
  /\ \E e \in Expired :
       /\ Removed(e)
       /\ IF s \in reservations \ e /\ s \notin attached
          THEN /\ attached' = attached \cup {s} /\ HandlerGoesTo(s, "attached")
               /\ UNCHANGED media
          ELSE /\ HandlerGoesTo(s, "over") /\ media' = media \ {s}
               /\ UNCHANGED attached
  /\ UNCHANGED <<core, managerVars>>

Acknowledge(s) ==
  /\ handler[s] = "attached"
  /\ \/ /\ s \in media /\ HandlerGoesTo(s, "acknowledged")
        /\ UNCHANGED <<reservations, signalled, media>>
     \/ /\ HandlerGoesTo(s, "over")
        /\ reservations' = reservations \ {s} /\ signalled' = signalled \cup {s}
        /\ media' = media \ {s}
  /\ UNCHANGED <<core, attached, unclosed, managerVars>>

\* It wakes Acquire, unless the reservation is gone once more.
Announce(s) ==
  /\ handler[s] = "acknowledged"
  /\ IF s \in reservations
     THEN /\ HandlerGoesTo(s, "serving") /\ signalled' = signalled \cup {s}
          /\ UNCHANGED media
     ELSE /\ HandlerGoesTo(s, "over") /\ media' = media \ {s}
          /\ UNCHANGED signalled
  /\ UNCHANGED <<core, reservations, attached, unclosed, managerVars>>

\* The socket is closed or breaks.
ServeEnds(s) ==
  /\ handler[s] = "serving" /\ s \notin media
  /\ HandlerGoesTo(s, "over")
  /\ reservations' = reservations \ {s}
  /\ UNCHANGED <<core, attached, signalled, unclosed, media, managerVars>>

MediaBreaks(s) ==
  /\ s \in media /\ media' = media \ {s}
  /\ UNCHANGED <<core, brokerVars, handler, managerVars>>

-----------------------------------------------------------------------------
(* The Agent's manager.                                                    *)

PrepGoesTo(s, phase) == prep' = [prep EXCEPT ![s] = phase]

GivesUp(s) ==
  /\ PrepGoesTo(s, "over") /\ answer' = [answer EXCEPT ![s] = "failed"]

\* Manager.prepare; Core may have given up long ago.
AgentPrepare(s) ==
  /\ core[s] # "none" /\ prep[s] = "none"
  /\ IF managerClosed \/ owner # NoSession
     THEN GivesUp(s)
     ELSE PrepGoesTo(s, "opening") /\ UNCHANGED answer
  /\ UNCHANGED <<core, brokerVars, handler, media, owner, audio, managerClosed>>

OpenAudio(s) ==
  /\ prep[s] = "opening"
  /\ \/ /\ PrepGoesTo(s, "dialing") /\ audio' = audio \cup {s}
        /\ UNCHANGED answer
     \/ GivesUp(s) /\ UNCHANGED audio
  /\ UNCHANGED <<core, brokerVars, handler, media, owner, managerClosed>>

DialSucceeds(s) ==
  /\ prep[s] = "dialing" /\ handler[s] \in {"acknowledged", "serving"}
  /\ PrepGoesTo(s, "dialed")
  /\ UNCHANGED <<core, brokerVars, handler, media, answer, owner, audio,
                 managerClosed>>

DialFails(s) ==
  /\ prep[s] = "dialing" /\ GivesUp(s)
  /\ audio' = audio \ {s} /\ media' = media \ {s}
  /\ handler' = [handler EXCEPT ![s] = IF @ = "none" THEN "over" ELSE @]
  /\ UNCHANGED <<core, brokerVars, owner, managerClosed>>

\* Mutant: the modem was free before the audio was opened, that will do.
MutantMayInsert == ~managerClosed

\* Another preparation may have been faster, the manager may be closed.
MayInsert == ~managerClosed /\ owner = NoSession

InsertSession(s) ==
  /\ prep[s] = "dialed"
  /\ IF MayInsert
     THEN /\ PrepGoesTo(s, "running") /\ answer' = [answer EXCEPT ![s] = "ok"]
          /\ owner' = s
          /\ UNCHANGED <<media, audio>>
     ELSE /\ GivesUp(s) /\ media' = media \ {s} /\ audio' = audio \ {s}
          /\ UNCHANGED owner
  /\ UNCHANGED <<core, brokerVars, handler, managerClosed>>

\* session.closeTransport
CloseTransport(s) ==
  /\ PrepGoesTo(s, "closing")
  /\ media' = media \ {s} /\ audio' = audio \ {s}

\* Mutant: the end of the socket is left to the one who stops the session.
MutantRunEnds(s) ==
  /\ prep[s] = "running" /\ s \notin audio /\ CloseTransport(s)
  /\ UNCHANGED <<core, brokerVars, handler, answer, owner, managerClosed>>

\* Manager.run: one of its two copying goroutines fails.
RunEnds(s) ==
  /\ prep[s] = "running" /\ s \notin media /\ CloseTransport(s)
  /\ UNCHANGED <<core, brokerVars, handler, answer, owner, managerClosed>>

AudioFails(s) ==
  /\ prep[s] = "running" /\ CloseTransport(s)
  /\ UNCHANGED <<core, brokerVars, handler, answer, owner, managerClosed>>

\* Mutant: a session that ends stays in the manager's table.
MutantRunReturns(s) ==
  /\ prep[s] = "closing" /\ PrepGoesTo(s, "over")
  /\ UNCHANGED <<core, brokerVars, handler, media, answer, owner, audio, managerClosed>>

RunReturns(s) ==
  /\ prep[s] = "closing" /\ PrepGoesTo(s, "over")
  /\ owner' = IF owner = s THEN NoSession ELSE owner
  /\ UNCHANGED <<core, brokerVars, handler, media, answer, audio, managerClosed>>

\* Core asks the Agent to stop (Service.stopAgentMedia): Manager.stop does
\* nothing unless the session is the modem's; the request may be lost.
StopAgentMedia(s) ==
  /\ core[s] \in {"stopping", "abandoned"} /\ CoreGoesTo(s, "over")
  /\ IF core[s] = "abandoned" THEN Removed({s})
     ELSE UNCHANGED <<reservations, signalled, unclosed>>
  /\ \/ /\ owner = s /\ prep[s] = "running" /\ CloseTransport(s)
     \/ UNCHANGED <<prep, media, audio>>
  /\ UNCHANGED <<attached, handler, answer, owner, managerClosed>>

\* Manager.Close when the Agent stops.
CloseManager ==
  /\ ~managerClosed /\ managerClosed' = TRUE
  /\ IF owner # NoSession /\ prep[owner] = "running"
     THEN CloseTransport(owner) ELSE UNCHANGED <<prep, media, audio>>
  /\ UNCHANGED <<core, brokerVars, handler, answer, owner>>

-----------------------------------------------------------------------------

SessionStep(s) ==
  \/ ReserveMedia(s) \/ PrepareFails(s) \/ PrepareSucceeds(s) \/ Acquire(s)
  \/ EndMedia(s)     \/ ClosePeer(s)
  \/ Handshake(s)    \/ Attach(s)       \/ Acknowledge(s)     \/ Announce(s)
  \/ ServeEnds(s)    \/ MediaBreaks(s)
  \/ AgentPrepare(s) \/ OpenAudio(s)    \/ DialSucceeds(s)    \/ DialFails(s)
  \/ InsertSession(s) \/ RunEnds(s)     \/ AudioFails(s)      \/ RunReturns(s)
  \/ StopAgentMedia(s)

MNext ==
  \/ \E s \in Session : SessionStep(s)
  \/ DisconnectMedia \/ CloseManager

MSpec == MInit /\ [][MNext]_mvars

\* Every goroutine goes on; waiting for the peer, the audio, the network and
\* the answer of a request has a timeout.
MFairness ==
  \A s \in Session :
    /\ WF_mvars(PrepareFails(s) \/ PrepareSucceeds(s)) /\ WF_mvars(Acquire(s))
    /\ WF_mvars(ClosePeer(s)) /\ WF_mvars(StopAgentMedia(s))
    /\ WF_mvars(Handshake(s)) /\ WF_mvars(Attach(s)) /\ WF_mvars(Acknowledge(s))
    /\ WF_mvars(Announce(s)) /\ WF_mvars(ServeEnds(s))
    /\ WF_mvars(OpenAudio(s)) /\ WF_mvars(DialSucceeds(s) \/ DialFails(s))
    /\ WF_mvars(InsertSession(s)) /\ WF_mvars(RunEnds(s)) /\ WF_mvars(RunReturns(s))

MFairSpec == MSpec /\ MFairness

-----------------------------------------------------------------------------
(* Properties.                                                             *)

\* Types of all variables; the modem's owner is a session that has not returned.
MTypeOK ==
  /\ core \in [Session -> {"none", "asking", "acquiring", "abandoned", "ready",
                           "stopping", "over"}]
  /\ reservations \subseteq Session /\ attached \subseteq Session
  /\ signalled \subseteq Session /\ unclosed \subseteq Session
  /\ handler \in [Session -> {"none", "checked", "attached", "acknowledged",
                              "serving", "over"}]
  /\ media \subseteq Session
  /\ answer \in [Session -> {"none", "ok", "failed"}]
  /\ prep \in [Session -> {"none", "opening", "dialing", "dialed", "running",
                           "closing", "over"}]
  /\ owner \in Session \cup {NoSession} /\ audio \subseteq Session
  /\ \A s \in Session : owner = s => prep[s] \in {"running", "closing"}
  /\ managerClosed \in BOOLEAN

\* A socket that was attached does not outlive its reservation: whoever
\* revokes one while its handshake or acknowledgement is under way leaves no
\* connection behind that nobody will close.
RevokedPeerIsClosed == media \cap attached \subseteq reservations \cup unclosed

\* The modem's audio is carried by the session that owns the modem, though
\* preparations overlap and Core's requests to stop find none yet.
AudioIsOwned == \A s \in Session : prep[s] = "running" => owner = s

\* Once Core has given a session up, the Agent releases the modem's audio for
\* good, even if its preparation was late or Core's request to stop was lost.
AudioReleased ==
  \A s \in Session : <>(core[s] = "over") => <>[](s \notin audio)
=============================================================================
