----------------------------- MODULE AgentLink -----------------------------
(***************************************************************************)
(* The WebSocket between one Agent and Core (go-runtime/agentlink): which  *)
(* connection is the Agent's, what happens to the requests on it when it   *)
(* breaks, when the Agent's credential is revoked, and when Core keeps the *)
(* Agent free of requests to restart its process or to update itself.      *)
(*                                                                         *)
(* An attempt to connect is handled by a goroutine of Core, a request by   *)
(* another; each takes its steps between the locks of the code.  What a    *)
(* request asks for is left out, except the restart of the process.        *)
(***************************************************************************)
EXTENDS Naturals, Sequences, FiniteSets

CONSTANTS Conn,                 \* attempts to connect
          Request,
          HostOperation,        \* operations that restart the Agent's process
          NoConn, NoHost,
          Update,               \* the lease of Core's own update
          Slots,                \* requests the Agent executes at a time
          MaxToken              \* bound of the credentials issued

ASSUME LinkAssumption ==
  /\ Slots \in Nat \ {0} /\ MaxToken \in Nat \ {0}
  /\ NoConn \notin Conn
  /\ NoHost \notin HostOperation /\ Update \notin HostOperation

VARIABLES
  token,            \* the credential Core accepts
  credentialEpoch,
  revoking,         \* the credential is replaced, DisconnectAgent is to come
  closing,          \* connections DisconnectAgent has still to close
  conn,             \* Core's view of each attempt
  socket,           \* the sockets that are open
  agents,           \* the connection registered for the Agent
  maintenance,      \* who keeps other requests away
  request,          \* Core's goroutines
  inbox,            \* requests on their way to the Agent
  answers,          \* answers on their way to Core
  client,           \* the connection the Agent's process works on
  workers,          \* the requests it executes
  restarting        \* it has accepted a restart

admissionVars == <<token, credentialEpoch, revoking, closing>>
connVars      == <<conn, agents>>
clientVars    == <<client, workers, restarting>>
lvars == <<admissionVars, connVars, socket, maintenance, request, inbox, answers,
           clientVars>>

Connection ==
  [phase : {"new", "admitted", "authorized", "registered", "removed", "closed"},
   epoch : 1..MaxToken, token : 1..MaxToken]

NoConnection == [phase |-> "new", epoch |-> 1, token |-> 1]
Over         == [NoConnection EXCEPT !.phase = "closed"]

\* permit: NoHost for an ordinary request, else the operation restarting
\* the process.  reply: its channel holds an answer.
Pending == [phase : {"new", "chosen", "pending", "sent", "offline", "done"},
            conn : Conn \cup {NoConn}, permit : HostOperation \cup {NoHost},
            reply : BOOLEAN]

LInit ==
  /\ token = 1 /\ credentialEpoch = 1 /\ revoking = FALSE /\ closing = {}
  /\ conn = [c \in Conn |-> NoConnection]
  /\ socket = {} /\ agents = NoConn /\ maintenance = NoHost
  /\ request = [q \in Request |-> [phase |-> "new", conn |-> NoConn,
                  permit |-> NoHost, reply |-> FALSE]]
  /\ inbox = [c \in Conn |-> <<>>] /\ answers = {}
  /\ client = NoConn /\ workers = {} /\ restarting = FALSE

-----------------------------------------------------------------------------
(* Connecting.                                                             *)

\* The Agent dials with a credential it was given once; Core notes the epoch
\* before it looks the credential up.
Dial(c) ==
  /\ client = NoConn /\ conn[c].phase = "new"
  /\ \E t \in 1..token :
       conn' = [conn EXCEPT ![c] = [phase |-> "admitted",
                                    epoch |-> credentialEpoch, token |-> t]]
  /\ client' = c /\ socket' = socket \cup {c}
  /\ UNCHANGED <<admissionVars, agents, maintenance, request, inbox, answers, workers, restarting>>

ConnGoesTo(c, phase) == conn' = [conn EXCEPT ![c].phase = phase]

Authorize(c) ==
  /\ conn[c].phase = "admitted"
  /\ IF conn[c].token = token
     THEN ConnGoesTo(c, "authorized") /\ UNCHANGED socket
     ELSE conn' = [conn EXCEPT ![c] = Over] /\ socket' = socket \ {c}
  /\ UNCHANGED <<admissionVars, agents, maintenance, request, inbox, answers,
                 clientVars>>

\* Mutant: a change of credentials during the handshake is not noticed.
MutantAdmissible(c) == agents = NoConn

\* Server.add: a second connection of the Agent is refused, too.
Admissible(c) == agents = NoConn /\ conn[c].epoch = credentialEpoch

Hello(c) ==
  /\ conn[c].phase = "authorized"
  /\ IF c \in socket /\ Admissible(c)
     THEN /\ ConnGoesTo(c, "registered") /\ agents' = c
          /\ UNCHANGED socket
     ELSE /\ conn' = [conn EXCEPT ![c] = Over] /\ socket' = socket \ {c}
          /\ UNCHANGED agents
  /\ UNCHANGED <<admissionVars, maintenance, request, inbox, answers, clientVars>>

SocketBreaks(c) ==
  /\ c \in socket /\ socket' = socket \ {c}
  /\ UNCHANGED <<admissionVars, connVars, maintenance, request, inbox, answers,
                 clientVars>>

\* The read loop fails and Server.remove runs, in its two critical sections.
RemoveConnection(c) ==
  /\ conn[c].phase = "registered" /\ c \notin socket
  /\ ConnGoesTo(c, "removed")
  /\ agents' = IF agents = c THEN NoConn ELSE agents
  /\ answers' = {q \in answers : request[q].conn # c}
  /\ UNCHANGED <<admissionVars, socket, maintenance, request, inbox, clientVars>>

CloseConnection(c) ==
  /\ conn[c].phase = "removed"
  /\ conn' = [conn EXCEPT ![c] = Over]
  /\ UNCHANGED <<admissionVars, agents, socket, maintenance, request, inbox,
                 answers, clientVars>>

\* An administrator replaces the credential ...
ReplaceToken ==
  /\ ~revoking /\ closing = {} /\ token < MaxToken
  /\ token' = token + 1 /\ revoking' = TRUE
  /\ UNCHANGED <<credentialEpoch, closing, connVars, socket, maintenance, request,
                 inbox, answers, clientVars>>

\* ... and Server.DisconnectAgent invalidates handshakes and connections.
DisconnectAgent ==
  /\ revoking /\ revoking' = FALSE
  /\ credentialEpoch' = credentialEpoch + 1
  /\ closing' = {agents} \ {NoConn}
  /\ UNCHANGED <<token, connVars, socket, maintenance, request, inbox, answers,
                 clientVars>>

CloseRevoked(c) ==
  /\ c \in closing
  /\ closing' = closing \ {c} /\ socket' = socket \ {c}
  /\ UNCHANGED <<token, credentialEpoch, revoking, connVars, maintenance, request,
                 inbox, answers, clientVars>>

-----------------------------------------------------------------------------
(* Requests.                                                               *)

\* A restart names the process it is for: here that of the connection.
ChooseConnection(q) ==
  /\ request[q].phase = "new" /\ agents # NoConn
  /\ \E p \in HostOperation \cup {NoHost} :
       request' = [request EXCEPT ![q].phase = "chosen", ![q].conn = agents,
                                  ![q].permit = p]
  /\ UNCHANGED <<admissionVars, connVars, socket, maintenance, inbox, answers,
                 clientVars>>

Return(q, phase) ==
  request' = [request EXCEPT ![q].phase = phase, ![q].reply = FALSE]

\* roundTrip up to its unlock: the lease is looked at and the request becomes
\* pending under the same lock.
RegisterPending(q) ==
  /\ request[q].phase = "chosen"
  /\ IF request[q].permit # maintenance
     THEN Return(q, "done")
     ELSE IF conn[request[q].conn].phase = "closed"
     THEN Return(q, "offline")
     ELSE request' = [request EXCEPT ![q].phase = "pending"]
  /\ UNCHANGED <<admissionVars, connVars, socket, maintenance, inbox, answers,
                 clientVars>>

SendRequest(q) ==
  LET c == request[q].conn IN
  /\ request[q].phase = "pending"
  /\ IF c \in socket
     THEN /\ inbox' = [inbox EXCEPT ![c] = Append(@, q)]
          /\ request' = [request EXCEPT ![q].phase = "sent"]
     ELSE Return(q, "offline") /\ UNCHANGED inbox
  /\ UNCHANGED <<admissionVars, connVars, socket, maintenance, answers, clientVars>>

\* The read loop; the answer of a request that is no longer pending is inert.
ReadAnswer(q) ==
  /\ q \in answers /\ conn[request[q].conn].phase = "registered"
  /\ answers' = answers \ {q}
  /\ request' = [request EXCEPT ![q].reply = request[q].phase = "sent"]
  /\ UNCHANGED <<admissionVars, connVars, socket, maintenance, inbox, clientVars>>

\* The select statement of roundTrip takes any of its cases that is ready.
ReturnAnswer(q) ==
  /\ request[q].phase = "sent" /\ request[q].reply
  /\ Return(q, "done")
  /\ UNCHANGED <<admissionVars, connVars, socket, maintenance, inbox, answers,
                 clientVars>>

ReturnClosed(q) ==
  /\ request[q].phase = "sent" /\ conn[request[q].conn].phase = "closed"
  /\ Return(q, IF request[q].reply THEN "done" ELSE "offline")
  /\ UNCHANGED <<admissionVars, connVars, socket, maintenance, inbox, answers,
                 clientVars>>

TimeOut(q) ==
  /\ request[q].phase \in {"pending", "sent"}
  /\ Return(q, "done")
  /\ UNCHANGED <<admissionVars, connVars, socket, maintenance, inbox, answers,
                 clientVars>>

-----------------------------------------------------------------------------
(* Maintenance.                                                            *)

IsPending(q) == request[q].phase \in {"pending", "sent"}

\* Mutant: a request that is not written yet does not count.
MutantNothingPending ==
  \A q \in Request : ~(request[q].phase = "sent" /\ request[q].conn = agents)

\* No caller waits for an answer over the registered connection.
NothingPending ==
  \A q \in Request : ~(IsPending(q) /\ request[q].conn = agents)

BeginHostMaintenance(l) ==
  /\ maintenance = NoHost /\ agents # NoConn /\ NothingPending
  /\ maintenance' = l
  /\ UNCHANGED <<admissionVars, connVars, socket, request, inbox, answers, clientVars>>

BeginUpdateMaintenance ==
  /\ maintenance = NoHost /\ NothingPending
  /\ maintenance' = Update
  /\ UNCHANGED <<admissionVars, connVars, socket, request, inbox, answers, clientVars>>

EndMaintenance ==
  /\ maintenance # NoHost
  /\ maintenance' = NoHost
  /\ UNCHANGED <<admissionVars, connVars, socket, request, inbox, answers, clientVars>>

-----------------------------------------------------------------------------
(* The Agent.                                                              *)

Answer(q) == answers' = IF client \in socket THEN answers \cup {q} ELSE answers

\* Mutant: a restart does not wait for requests under way.
MutantMayRestart == TRUE

MayRestart == workers = {}

\* Client.Run's read loop.  It takes no more requests once it has accepted a
\* restart; PrepareRestart, the platform's check, may refuse one.
ReadRequest ==
  /\ client # NoConn /\ ~restarting /\ inbox[client] # <<>>
  /\ LET q == Head(inbox[client]) IN
       \/ /\ request[q].permit = NoHost /\ Cardinality(workers) < Slots
          /\ workers' = workers \cup {q}
          /\ UNCHANGED <<answers, restarting>>
       \/ /\ request[q].permit # NoHost \/ Cardinality(workers) = Slots
          /\ Answer(q)                                            \* refused
          /\ UNCHANGED <<workers, restarting>>
       \/ /\ request[q].permit # NoHost /\ MayRestart
          /\ Answer(q) /\ restarting' = TRUE
          /\ UNCHANGED workers
  /\ inbox' = [inbox EXCEPT ![client] = Tail(@)]
  /\ UNCHANGED <<admissionVars, connVars, socket, maintenance, request, client>>

WorkerDone(q) ==
  /\ q \in workers
  /\ workers' = workers \ {q} /\ Answer(q)
  /\ UNCHANGED <<admissionVars, connVars, socket, maintenance, request, inbox,
                 client, restarting>>

\* Mutant: the next connection does not wait for the work of this one.
\* Client.Run returns when its socket is closed, or a restart it accepted
\* does not come about, and all its workers have returned.
ClientEnds ==
  /\ client # NoConn /\ workers = {}
  /\ client \notin socket \/ restarting
  /\ client' = NoConn /\ restarting' = FALSE /\ socket' = socket \ {client}
  /\ inbox' = [inbox EXCEPT ![client] = <<>>]
  /\ UNCHANGED <<admissionVars, connVars, maintenance, request, answers, workers>>

\* By a restart it accepted, or a crash.
ProcessReplaced ==
  /\ client # NoConn
  /\ client' = NoConn /\ restarting' = FALSE /\ workers' = {}
  /\ socket' = socket \ {client}
  /\ inbox' = [c \in Conn |-> <<>>]
  /\ UNCHANGED <<admissionVars, connVars, maintenance, request, answers>>

-----------------------------------------------------------------------------

ConnStep(c) ==
  \/ Dial(c)         \/ Authorize(c)        \/ Hello(c)
  \/ SocketBreaks(c) \/ RemoveConnection(c) \/ CloseConnection(c)
  \/ CloseRevoked(c)

RequestStep(q) ==
  \/ ChooseConnection(q) \/ RegisterPending(q) \/ SendRequest(q)
  \/ ReadAnswer(q)       \/ ReturnAnswer(q)    \/ ReturnClosed(q)
  \/ TimeOut(q)          \/ WorkerDone(q)

LNext ==
  \/ \E c \in Conn : ConnStep(c)
  \/ \E q \in Request : RequestStep(q)
  \/ \E l \in HostOperation : BeginHostMaintenance(l)
  \/ BeginUpdateMaintenance \/ EndMaintenance
  \/ ReplaceToken \/ DisconnectAgent
  \/ ReadRequest \/ ClientEnds \/ ProcessReplaced

LSpec == LInit /\ [][LNext]_lvars

-----------------------------------------------------------------------------
(* Properties.                                                             *)

\* Types of all variables.
LTypeOK ==
  /\ token \in 1..MaxToken /\ credentialEpoch \in 1..MaxToken
  /\ revoking \in BOOLEAN /\ closing \subseteq Conn
  /\ conn \in [Conn -> Connection] /\ socket \subseteq Conn
  /\ agents \in Conn \cup {NoConn}
  /\ maintenance \in HostOperation \cup {NoHost, Update}
  /\ request \in [Request -> Pending]
  /\ inbox \in [Conn -> Seq(Request)] /\ answers \subseteq Request
  /\ client \in Conn \cup {NoConn}
  /\ workers \subseteq Request /\ restarting \in BOOLEAN

\* An Agent whose credential was replaced does not stay connected, at whatever
\* point of its handshake the change finds it.
RevokedStaysOut ==
  agents # NoConn /\ conn[agents].token # token =>
    revoking \/ agents \in closing \/ agents \notin socket

\* While somebody keeps requests away, nobody else waits for an answer of the
\* Agent, reconnects and requests that chose their connection before included.
MaintenanceExcludes ==
  \A q \in Request :
    maintenance # NoHost /\ IsPending(q) /\ request[q].conn = agents
    => request[q].permit = maintenance

\* The Agent executes the requests of one connection at a time, and no
\* restart it has accepted cuts one off: those that Core no longer waits for
\* and those that were still in the socket when the lease began count, too.
WorkIsOwned ==
  /\ \A q \in workers : request[q].conn = client
  /\ restarting => workers = {}
=============================================================================
