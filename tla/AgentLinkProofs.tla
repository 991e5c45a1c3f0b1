--------------------------- MODULE AgentLinkProofs ---------------------------
(***************************************************************************)
(* What holds of AgentLink for any connections, requests, operations and   *)
(* bounds; at the end, that the Agent's parts together (MCAgent) keep their *)
(* types.                                                                  *)
(***************************************************************************)
EXTENDS MCAgent, PaidCallProofs, MessageSendProofs

\* The epoch follows the credential when DisconnectAgent has run.
EpochInv == token = IF revoking THEN credentialEpoch + 1 ELSE credentialEpoch

\* A handshake that noted the epoch of the moment was, or will be, authorized
\* by the credential of the moment.
HandshakeInv ==
  \A c \in Conn :
    /\ conn[c].epoch <= credentialEpoch
    /\ conn[c].phase \in {"authorized", "registered"} /\ conn[c].epoch = credentialEpoch
         => revoking \/ conn[c].token = token

RegisteredInv == agents # NoConn => conn[agents].phase = "registered"

\* A request that has started keeps to a connection that was registered.
ChosenInv ==
  \A q \in Request : request[q].phase # "new" =>
    /\ request[q].conn \in Conn
    /\ conn[request[q].conn].phase \in {"registered", "removed", "closed"}

\* What travels over a connection, or is executed, was sent over it.
InboxInv ==
  \A c \in Conn : \A i \in 1..Len(inbox[c]) :
    request[inbox[c][i]].phase # "new" /\ request[inbox[c][i]].conn = c

WorkersInv ==
  /\ \A q \in workers : request[q].phase # "new"
  /\ client = NoConn => workers = {}

LinkInv ==
  /\ LTypeOK /\ EpochInv /\ HandshakeInv /\ RegisteredInv /\ ChosenInv /\ InboxInv
  /\ WorkersInv /\ RevokedStaysOut /\ MaintenanceExcludes /\ WorkIsOwned

-----------------------------------------------------------------------------
(* What the operators return.                                              *)

LEMMA ConnectionTypes ==
  /\ NoConnection \in Connection /\ Over \in Connection /\ Over.phase = "closed"
  /\ Over.epoch = 1
<1>1. 1 \in 1..MaxToken
  BY LinkAssumption
<1>2. NoConnection \in Connection /\ NoConnection.epoch = 1
  BY <1>1 DEF NoConnection, Connection
<1> QED BY <1>2 DEF Over, Connection

\* A step of one attempt to connect leaves the others alone.
LEMMA ConnUpdate ==
  ASSUME LTypeOK, NEW c \in Conn, NEW v \in Connection, conn' = [conn EXCEPT ![c] = v]
  PROVE  /\ conn' \in [Conn -> Connection] /\ conn'[c] = v
         /\ \A d \in Conn \ {c} : conn'[d] = conn[d]
BY DEF LTypeOK

LEMMA PhaseUpdate ==
  ASSUME LTypeOK, NEW c \in Conn,
         NEW ph \in {"new", "admitted", "authorized", "registered", "removed", "closed"},
         ConnGoesTo(c, ph)
  PROVE  /\ conn' \in [Conn -> Connection]
         /\ conn'[c].phase = ph /\ conn'[c].epoch = conn[c].epoch
         /\ conn'[c].token = conn[c].token
         /\ \A d \in Conn \ {c} : conn'[d] = conn[d]
<1> DEFINE v == [conn[c] EXCEPT !.phase = ph]
<1>0. conn[c] \in Connection
  BY DEF LTypeOK
<1>1. /\ v \in Connection /\ v.phase = ph /\ v.epoch = conn[c].epoch
      /\ v.token = conn[c].token
  BY <1>0 DEF Connection
<1>2. conn' = [conn EXCEPT ![c] = v]
  BY DEF ConnGoesTo
<1> HIDE DEF v
<1> QED BY <1>1, <1>2, ConnUpdate

\* A step of one request leaves its connection and its permit alone.
LEMMA RequestUpdate ==
  ASSUME LTypeOK, NEW q \in Request,
         NEW ph \in {"new", "chosen", "pending", "sent", "offline", "done"},
         \/ request' = [request EXCEPT ![q].phase = ph] \/ Return(q, ph)
  PROVE  /\ request' \in [Request -> Pending]
         /\ request'[q].phase = ph /\ request'[q].conn = request[q].conn
         /\ request'[q].permit = request[q].permit
         /\ \A r \in Request \ {q} : request'[r] = request[r]
<1>0. request[q] \in Pending /\ request \in [Request -> Pending]
  BY DEF LTypeOK
<1>1. PICK v \in Pending :
        /\ v.phase = ph /\ v.conn = request[q].conn /\ v.permit = request[q].permit
        /\ request' = [request EXCEPT ![q] = v]
  <2>1. CASE request' = [request EXCEPT ![q].phase = ph]
    <3> DEFINE v == [request[q] EXCEPT !.phase = ph]
    <3>1. v \in Pending /\ v.phase = ph /\ v.conn = request[q].conn
          /\ v.permit = request[q].permit
      BY <1>0 DEF Pending
    <3>2. request' = [request EXCEPT ![q] = v]
      BY <2>1
    <3> QED BY <3>1, <3>2
  <2>2. CASE Return(q, ph)
    <3> DEFINE v == [request[q] EXCEPT !.phase = ph, !.reply = FALSE]
    <3>1. v \in Pending /\ v.phase = ph /\ v.conn = request[q].conn
          /\ v.permit = request[q].permit
      BY <1>0 DEF Pending
    <3>2. request' = [request EXCEPT ![q] = v]
      BY <1>0, <2>2 DEF Return
    <3> QED BY <3>1, <3>2
  <2> QED BY <2>1, <2>2
<1> QED BY <1>0, <1>1

-----------------------------------------------------------------------------
(* Connecting.                                                             *)

LEMMA LinkInitInv == LInit => LinkInv
<1> SUFFICES ASSUME LInit PROVE LinkInv
  OBVIOUS
<1>1. 1 \in 1..MaxToken /\ conn \in [Conn -> Connection]
  BY LinkAssumption, ConnectionTypes DEF LInit
<1>2. [phase |-> "new", conn |-> NoConn, permit |-> NoHost, reply |-> FALSE] \in Pending
  BY DEF Pending
<1>3. request \in [Request -> Pending] /\ \A q \in Request : request[q].phase = "new"
  BY <1>2 DEF LInit
<1>4. LTypeOK
  <2>1. inbox \in [Conn -> Seq(Request)]
    BY DEF LInit
  <2> QED BY <1>1, <1>3, <2>1 DEF LInit, LTypeOK
<1>5. HandshakeInv
  BY DEF LInit, HandshakeInv, NoConnection
<1> QED BY <1>3, <1>4, <1>5
        DEF LInit, LinkInv, EpochInv, RegisteredInv, ChosenInv, InboxInv, WorkersInv,
            RevokedStaysOut, MaintenanceExcludes, WorkIsOwned

\* What a change of the connections alone must respect: a connection in use
\* stays one that was registered.
LEMMA ConnStepOthers ==
  ASSUME LinkInv,
         \A d \in Conn : conn[d].phase \in {"registered", "removed", "closed"} =>
           conn'[d].phase \in {"registered", "removed", "closed"},
         UNCHANGED <<maintenance, request, inbox>>
  PROVE  ChosenInv' /\ InboxInv'
BY DEF LinkInv, ChosenInv, InboxInv

\* What one attempt must respect when its handshake goes on.
LEMMA KeepHandshakes ==
  ASSUME LinkInv, NEW c \in Conn, UNCHANGED <<token, credentialEpoch, revoking>>,
         \A d \in Conn \ {c} : conn'[d] = conn[d],
         conn'[c].epoch \in {1, conn[c].epoch, credentialEpoch},
         conn'[c].phase \in {"authorized", "registered"} /\ conn'[c].epoch = credentialEpoch
           => revoking \/ conn'[c].token = token
  PROVE  EpochInv' /\ HandshakeInv'
<1>1. credentialEpoch \in Nat \ {0}
  BY LinkAssumption DEF LinkInv, LTypeOK
<1>2. EpochInv'
  BY DEF LinkInv, EpochInv
<1>3. conn'[c].epoch <= credentialEpoch
  BY <1>1 DEF LinkInv, HandshakeInv
<1>4. HandshakeInv'
  BY <1>3 DEF LinkInv, HandshakeInv
<1> QED BY <1>2, <1>4

LEMMA DialInv ==
  ASSUME LinkInv, NEW c \in Conn, Dial(c)
  PROVE  LinkInv'
<1>0. /\ client = NoConn /\ conn[c].phase = "new" /\ client' = c /\ workers = {}
      /\ socket' = socket \cup {c}
      /\ UNCHANGED <<token, credentialEpoch, revoking, closing, agents, maintenance,
                     request, inbox, answers, workers, restarting>>
  BY DEF Dial, admissionVars, LinkInv, WorkersInv
<1>1. PICK t \in 1..token : conn' = [conn EXCEPT ![c] =
        [phase |-> "admitted", epoch |-> credentialEpoch, token |-> t]]
  BY DEF Dial
<1>2. [phase |-> "admitted", epoch |-> credentialEpoch, token |-> t] \in Connection
  <2>1. credentialEpoch \in 1..MaxToken /\ token \in 1..MaxToken /\ MaxToken \in Nat
    BY LinkAssumption DEF LinkInv, LTypeOK
  <2>2. t \in 1..MaxToken
    BY <2>1
  <2> QED BY <2>1, <2>2 DEF Connection
<1>3. /\ conn' \in [Conn -> Connection] /\ conn'[c].phase = "admitted"
      /\ conn'[c].epoch = credentialEpoch
      /\ \A d \in Conn \ {c} : conn'[d] = conn[d]
  BY <1>1, <1>2, ConnUpdate DEF LinkInv
<1>4. LTypeOK' /\ WorkersInv' /\ WorkIsOwned'
  BY <1>0, <1>3, LinkAssumption DEF LinkInv, LTypeOK, WorkersInv, WorkIsOwned
<1>5. EpochInv' /\ HandshakeInv'
  BY <1>0, <1>3, KeepHandshakes
<1>6. ChosenInv' /\ InboxInv'
  BY <1>0, <1>3, ConnStepOthers
<1>7. RegisteredInv' /\ RevokedStaysOut' /\ MaintenanceExcludes'
  BY <1>0, <1>3
  DEF LinkInv, LTypeOK, RegisteredInv, RevokedStaysOut, MaintenanceExcludes, IsPending
<1> QED BY <1>4, <1>5, <1>6, <1>7 DEF LinkInv

LEMMA AuthorizeInv ==
  ASSUME LinkInv, NEW c \in Conn, Authorize(c)
  PROVE  LinkInv'
<1>0. /\ conn[c].phase = "admitted" /\ socket' \subseteq socket
      /\ UNCHANGED <<token, credentialEpoch, revoking, closing, agents, maintenance,
                     request, inbox, answers, client, workers, restarting>>
  BY DEF Authorize, admissionVars, clientVars
<1>1. /\ conn' \in [Conn -> Connection]
      /\ \/ /\ conn'[c].phase = "authorized" /\ conn'[c].epoch = conn[c].epoch
            /\ conn'[c].token = token
         \/ conn'[c].phase = "closed" /\ conn'[c].epoch = 1
      /\ \A d \in Conn \ {c} : conn'[d] = conn[d]
  <2>1. CASE ConnGoesTo(c, "authorized") /\ conn[c].token = token
    BY <2>1, PhaseUpdate DEF LinkInv
  <2>2. CASE conn' = [conn EXCEPT ![c] = Over]
    BY <2>2, ConnectionTypes, ConnUpdate DEF LinkInv
  <2> QED BY <2>1, <2>2 DEF Authorize
<1>2. LTypeOK' /\ WorkersInv' /\ WorkIsOwned'
  BY <1>0, <1>1 DEF LinkInv, LTypeOK, WorkersInv, WorkIsOwned
<1>3. EpochInv' /\ HandshakeInv'
  BY <1>0, <1>1, KeepHandshakes DEF LinkInv, HandshakeInv
<1>4. ChosenInv' /\ InboxInv'
  BY <1>0, <1>1, ConnStepOthers
<1>5. RegisteredInv' /\ RevokedStaysOut' /\ MaintenanceExcludes'
  BY <1>0, <1>1
  DEF LinkInv, LTypeOK, RegisteredInv, RevokedStaysOut, MaintenanceExcludes, IsPending
<1> QED BY <1>2, <1>3, <1>4, <1>5 DEF LinkInv

LEMMA HelloInv ==
  ASSUME LinkInv, NEW c \in Conn, Hello(c)
  PROVE  LinkInv'
<1>0. /\ conn[c].phase = "authorized" /\ socket' \subseteq socket
      /\ UNCHANGED <<token, credentialEpoch, revoking, closing, maintenance,
                     request, inbox, answers, client, workers, restarting>>
  BY DEF Hello, admissionVars, clientVars
<1>1. /\ conn' \in [Conn -> Connection]
      /\ \/ /\ conn'[c].phase = "registered" /\ conn'[c].epoch = conn[c].epoch
            /\ conn'[c].token = conn[c].token /\ agents' = c /\ agents = NoConn
            /\ conn[c].epoch = credentialEpoch
         \/ conn'[c].phase = "closed" /\ conn'[c].epoch = 1 /\ agents' = agents
      /\ \A d \in Conn \ {c} : conn'[d] = conn[d]
  <2>1. CASE ConnGoesTo(c, "registered") /\ Admissible(c) /\ agents' = c
    BY <2>1, PhaseUpdate DEF LinkInv, Admissible
  <2>2. CASE conn' = [conn EXCEPT ![c] = Over] /\ agents' = agents
    BY <2>2, ConnectionTypes, ConnUpdate DEF LinkInv
  <2> QED BY <2>1, <2>2 DEF Hello
<1>2. LTypeOK' /\ WorkersInv' /\ WorkIsOwned'
  BY <1>0, <1>1 DEF LinkInv, LTypeOK, WorkersInv, WorkIsOwned
<1>3. EpochInv' /\ HandshakeInv'
  BY <1>0, <1>1, KeepHandshakes DEF LinkInv, HandshakeInv
<1>4. ChosenInv' /\ InboxInv'
  BY <1>0, <1>1, ConnStepOthers
<1>5. RegisteredInv' /\ RevokedStaysOut'
  BY <1>0, <1>1 DEF LinkInv, LTypeOK, RegisteredInv, RevokedStaysOut, HandshakeInv
<1>6. \A q \in Request : IsPending(q) => request[q].conn # c
  BY <1>0 DEF LinkInv, ChosenInv, IsPending
<1>7. MaintenanceExcludes'
  BY <1>0, <1>1, <1>6 DEF LinkInv, MaintenanceExcludes, IsPending
<1> QED BY <1>2, <1>3, <1>4, <1>5, <1>7 DEF LinkInv

\* The read loop fails and the connection is removed, then closed.
LEMMA LeaveInv ==
  ASSUME LinkInv, NEW c \in Conn, RemoveConnection(c) \/ CloseConnection(c)
  PROVE  LinkInv'
<1>0. /\ conn[c].phase \in {"registered", "removed"} /\ answers' \subseteq answers
      /\ UNCHANGED <<token, credentialEpoch, revoking, closing, socket, maintenance,
                     request, inbox, client, workers, restarting>>
  BY DEF RemoveConnection, CloseConnection, admissionVars, clientVars
<1>1. /\ conn' \in [Conn -> Connection]
      /\ conn'[c].phase \in {"removed", "closed"} /\ conn'[c].epoch \in {1, conn[c].epoch}
      /\ \A d \in Conn \ {c} : conn'[d] = conn[d]
      /\ agents' \in {agents, NoConn} /\ (agents = c => agents' = NoConn)
  <2>1. CASE RemoveConnection(c)
    BY <2>1, PhaseUpdate DEF RemoveConnection, LinkInv
  <2>2. CASE CloseConnection(c)
    <3>1. agents # c
      BY <2>2, LinkAssumption DEF CloseConnection, LinkInv, RegisteredInv
    <3> QED BY <2>2, <3>1, ConnectionTypes, ConnUpdate DEF CloseConnection, LinkInv
  <2> QED BY <2>1, <2>2
<1>2. LTypeOK' /\ WorkersInv' /\ WorkIsOwned'
  BY <1>0, <1>1 DEF LinkInv, LTypeOK, WorkersInv, WorkIsOwned
<1>3. EpochInv' /\ HandshakeInv'
  BY <1>0, <1>1, KeepHandshakes
<1>4. ChosenInv' /\ InboxInv'
  BY <1>0, <1>1, ConnStepOthers
<1>5. RegisteredInv' /\ RevokedStaysOut'
  BY <1>0, <1>1 DEF LinkInv, LTypeOK, RegisteredInv, RevokedStaysOut
<1>6. MaintenanceExcludes'
  <2>1. \A q \in Request : IsPending(q) => request[q].conn # NoConn
    BY LinkAssumption DEF LinkInv, ChosenInv, IsPending
  <2> QED BY <1>0, <1>1, <2>1 DEF LinkInv, MaintenanceExcludes, IsPending
<1> QED BY <1>2, <1>3, <1>4, <1>5, <1>6 DEF LinkInv

\* A socket is closed, by the network or by DisconnectAgent.
LEMMA SocketInv ==
  ASSUME LinkInv, NEW c \in Conn, SocketBreaks(c) \/ CloseRevoked(c)
  PROVE  LinkInv'
<1>0. /\ socket' = socket \ {c} /\ closing' \in {closing, closing \ {c}}
      /\ UNCHANGED <<token, credentialEpoch, revoking, conn, agents, maintenance,
                     request, inbox, answers, client, workers, restarting>>
  BY DEF SocketBreaks, CloseRevoked, admissionVars, connVars, clientVars
<1>1. LTypeOK' /\ WorkersInv' /\ WorkIsOwned'
  BY <1>0 DEF LinkInv, LTypeOK, WorkersInv, WorkIsOwned
<1>2. EpochInv' /\ HandshakeInv' /\ ChosenInv' /\ InboxInv' /\ RegisteredInv'
  BY <1>0 DEF LinkInv, EpochInv, HandshakeInv, ChosenInv, InboxInv, RegisteredInv
<1>3. RevokedStaysOut' /\ MaintenanceExcludes'
  BY <1>0 DEF LinkInv, RevokedStaysOut, MaintenanceExcludes, IsPending
<1> QED BY <1>1, <1>2, <1>3 DEF LinkInv

\* The credential is replaced, then handshakes and connections are invalidated.
LEMMA RevokeInv ==
  ASSUME LinkInv, ReplaceToken \/ DisconnectAgent
  PROVE  LinkInv'
<1>0. UNCHANGED <<conn, agents, socket, maintenance, request, inbox, answers, client,
                  workers, restarting>>
  BY DEF ReplaceToken, DisconnectAgent, connVars, clientVars
<1>1. /\ token \in Nat /\ credentialEpoch \in Nat /\ MaxToken \in Nat
      /\ 1 <= token /\ token <= MaxToken /\ 1 <= credentialEpoch
      /\ token = IF revoking THEN credentialEpoch + 1 ELSE credentialEpoch
      /\ \A c \in Conn : conn[c].epoch \in Nat /\ conn[c].epoch <= credentialEpoch
  BY LinkAssumption DEF LinkInv, LTypeOK, EpochInv, HandshakeInv, Connection
<1>2. ChosenInv' /\ InboxInv' /\ RegisteredInv' /\ WorkersInv' /\ WorkIsOwned'
      /\ MaintenanceExcludes'
  BY <1>0 DEF LinkInv, ChosenInv, InboxInv, RegisteredInv, WorkersInv, WorkIsOwned,
              MaintenanceExcludes, IsPending
<1>3. CASE ReplaceToken
  <2>1. /\ ~revoking /\ revoking' = TRUE /\ token < MaxToken /\ token' = token + 1
        /\ UNCHANGED <<credentialEpoch, closing>>
    BY <1>3 DEF ReplaceToken
  <2>2. token' \in 1..MaxToken /\ EpochInv'
    BY <1>1, <2>1 DEF EpochInv
  <2>3. LTypeOK'
    BY <1>0, <2>1, <2>2 DEF LinkInv, LTypeOK
  <2>4. HandshakeInv' /\ RevokedStaysOut'
    BY <1>0, <2>1 DEF LinkInv, HandshakeInv, RevokedStaysOut
  <2> QED BY <1>2, <2>2, <2>3, <2>4 DEF LinkInv
<1>4. CASE DisconnectAgent
  <2>1. /\ revoking /\ revoking' = FALSE /\ credentialEpoch' = credentialEpoch + 1
        /\ closing' = {agents} \ {NoConn} /\ token' = token
    BY <1>4 DEF DisconnectAgent
  <2>2. credentialEpoch' \in 1..MaxToken /\ EpochInv'
    BY <1>1, <2>1 DEF EpochInv
  <2>3. LTypeOK'
    <3>1. closing' \subseteq Conn
      BY <2>1 DEF LinkInv, LTypeOK
    <3> QED BY <1>0, <2>1, <2>2, <3>1 DEF LinkInv, LTypeOK
  <2>4. HandshakeInv'
    <3>1. \A c \in Conn : conn[c].epoch <= credentialEpoch + 1
                          /\ conn[c].epoch # credentialEpoch + 1
      BY <1>1
    <3> QED BY <1>0, <2>1, <3>1 DEF HandshakeInv
  <2>5. RevokedStaysOut'
    BY <1>0, <2>1 DEF RevokedStaysOut
  <2> QED BY <1>2, <2>2, <2>3, <2>4, <2>5 DEF LinkInv
<1> QED BY <1>3, <1>4

-----------------------------------------------------------------------------
(* Requests and maintenance.                                               *)

\* A request goes on over the connection it chose.
LEMMA RequestGoesOn ==
  ASSUME LinkInv, NEW q \in Request,
         NEW ph \in {"pending", "sent", "offline", "done"},
         \/ request' = [request EXCEPT ![q].phase = ph] \/ Return(q, ph),
         request[q].phase # "new",
         ph \in {"pending", "sent"} => IsPending(q) \/ request[q].permit = maintenance,
         UNCHANGED <<token, credentialEpoch, revoking, closing, conn, agents, socket,
                     maintenance, answers, client, workers, restarting>>
  PROVE  /\ inbox' \in [Conn -> Seq(Request)] /\ InboxInv' => LinkInv'
         /\ inbox' = inbox => LinkInv'
<1>1. /\ request' \in [Request -> Pending]
      /\ request'[q].phase = ph /\ request'[q].conn = request[q].conn
      /\ request'[q].permit = request[q].permit
      /\ \A r \in Request \ {q} : request'[r] = request[r]
  BY RequestUpdate DEF LinkInv
<1>2. \A r \in Request : /\ request'[r].conn = request[r].conn
                         /\ request[r].phase # "new" <=> request'[r].phase # "new"
  BY <1>1
<1>3. inbox' \in [Conn -> Seq(Request)] => LTypeOK'
  BY <1>1 DEF LinkInv, LTypeOK
<1>4. EpochInv' /\ HandshakeInv' /\ RegisteredInv' /\ RevokedStaysOut' /\ ChosenInv'
  BY <1>2 DEF LinkInv, EpochInv, HandshakeInv, RegisteredInv, RevokedStaysOut, ChosenInv
<1>5. WorkersInv' /\ WorkIsOwned'
  BY <1>2 DEF LinkInv, LTypeOK, WorkersInv, WorkIsOwned
<1>6. MaintenanceExcludes'
  BY <1>1 DEF LinkInv, MaintenanceExcludes, IsPending
<1>7. ASSUME inbox' = inbox PROVE InboxInv' /\ inbox' \in [Conn -> Seq(Request)]
  <2>1. inbox \in [Conn -> Seq(Request)]
    BY DEF LinkInv, LTypeOK
  <2>2. \A c \in Conn : \A i \in 1..Len(inbox[c]) : inbox[c][i] \in Request
    BY <2>1
  <2>3. InboxInv'
    BY <1>2, <1>7, <2>2 DEF LinkInv, InboxInv
  <2> QED BY <1>7, <2>1, <2>3
<1> QED BY <1>3, <1>4, <1>5, <1>6, <1>7 DEF LinkInv

LEMMA ChooseConnectionInv ==
  ASSUME LinkInv, NEW q \in Request, ChooseConnection(q)
  PROVE  LinkInv'
<1>0. /\ request[q].phase = "new" /\ agents # NoConn
      /\ UNCHANGED <<token, credentialEpoch, revoking, closing, conn, agents, socket,
                     maintenance, inbox, answers, client, workers, restarting>>
  BY DEF ChooseConnection, admissionVars, connVars, clientVars
<1>1. PICK p \in HostOperation \cup {NoHost} :
        request' = [request EXCEPT ![q].phase = "chosen", ![q].conn = agents,
                                   ![q].permit = p]
  BY DEF ChooseConnection
<1>2. /\ request' \in [Request -> Pending] /\ request'[q].phase = "chosen"
      /\ request'[q].conn = agents /\ agents \in Conn
      /\ \A r \in Request \ {q} : request'[r] = request[r]
  <2> DEFINE v == [request[q] EXCEPT !.phase = "chosen", !.conn = agents, !.permit = p]
  <2>0. request[q] \in Pending /\ agents \in Conn /\ request \in [Request -> Pending]
    BY <1>0 DEF LinkInv, LTypeOK
  <2>1. v \in Pending /\ v.phase = "chosen" /\ v.conn = agents
    BY <2>0 DEF Pending
  <2>2. request' = [request EXCEPT ![q] = v]
    BY <1>1, <2>0
  <2> HIDE DEF v
  <2> QED BY <2>0, <2>1, <2>2
<1>3. LTypeOK'
  BY <1>0, <1>2 DEF LinkInv, LTypeOK
<1>4. EpochInv' /\ HandshakeInv' /\ RegisteredInv' /\ RevokedStaysOut'
  BY <1>0 DEF LinkInv, EpochInv, HandshakeInv, RegisteredInv, RevokedStaysOut
<1>5. ChosenInv'
  BY <1>0, <1>2 DEF LinkInv, ChosenInv, RegisteredInv
<1>6. WorkersInv' /\ WorkIsOwned'
  BY <1>0, <1>2 DEF LinkInv, LTypeOK, WorkersInv, WorkIsOwned
<1>7. InboxInv'
  <2>1. \A c \in Conn : \A i \in 1..Len(inbox[c]) : inbox[c][i] \in Request
    BY DEF LinkInv, LTypeOK
  <2> QED BY <1>0, <1>2, <2>1 DEF LinkInv, InboxInv
<1>8. MaintenanceExcludes'
  BY <1>0, <1>2 DEF LinkInv, MaintenanceExcludes, IsPending
<1> QED BY <1>3, <1>4, <1>5, <1>6, <1>7, <1>8 DEF LinkInv

\* The lease is looked at when the request becomes pending; later steps only end it.
LEMMA RequestInv ==
  ASSUME LinkInv, NEW q \in Request,
         RegisterPending(q) \/ ReturnAnswer(q) \/ ReturnClosed(q) \/ TimeOut(q)
  PROVE  LinkInv'
<1>1. /\ request[q].phase # "new"
      /\ UNCHANGED <<token, credentialEpoch, revoking, closing, conn, agents, socket,
                     maintenance, inbox, answers, client, workers, restarting>>
  BY DEF RegisterPending, ReturnAnswer, ReturnClosed, TimeOut, admissionVars, connVars,
         clientVars
<1>2. \/ Return(q, "done") \/ Return(q, "offline")
      \/ /\ request' = [request EXCEPT ![q].phase = "pending"]
         /\ request[q].permit = maintenance
  BY DEF RegisterPending, ReturnAnswer, ReturnClosed, TimeOut
<1> QED BY <1>1, <1>2, RequestGoesOn

LEMMA SendRequestInv ==
  ASSUME LinkInv, NEW q \in Request, SendRequest(q)
  PROVE  LinkInv'
<1>1. /\ request[q].phase = "pending" /\ IsPending(q)
      /\ UNCHANGED <<token, credentialEpoch, revoking, closing, conn, agents, socket,
                     maintenance, answers, client, workers, restarting>>
  BY DEF SendRequest, IsPending, admissionVars, connVars, clientVars
<1>2. CASE Return(q, "offline") /\ UNCHANGED inbox
  BY <1>1, <1>2, RequestGoesOn
<1>3. CASE /\ inbox' = [inbox EXCEPT ![request[q].conn] = Append(@, q)]
           /\ request' = [request EXCEPT ![q].phase = "sent"]
  <2>1. PICK c \in Conn : c = request[q].conn
    BY <1>1 DEF LinkInv, ChosenInv
  <2>2. inbox \in [Conn -> Seq(Request)] /\ inbox' = [inbox EXCEPT ![c] = Append(inbox[c], q)]
    BY <1>3, <2>1 DEF LinkInv, LTypeOK
  <2>3. /\ Append(inbox[c], q) \in Seq(Request)
        /\ Len(Append(inbox[c], q)) = Len(inbox[c]) + 1
        /\ \A i \in 1..Len(inbox[c]) : /\ Append(inbox[c], q)[i] = inbox[c][i]
                                       /\ inbox[c][i] \in Request
        /\ Append(inbox[c], q)[Len(inbox[c]) + 1] = q
        /\ Len(inbox[c]) \in Nat
    BY <2>2
  <2>4. inbox' \in [Conn -> Seq(Request)]
    BY <2>2, <2>3
  <2>5. /\ request'[q].phase = "sent" /\ request'[q].conn = c
        /\ \A r \in Request \ {q} : request'[r] = request[r]
    BY <1>3, <2>1, RequestUpdate DEF LinkInv
  <2>6. InboxInv'
    <3> SUFFICES ASSUME NEW d \in Conn, NEW i \in 1..Len(inbox'[d])
                 PROVE  /\ request'[inbox'[d][i]].phase # "new"
                        /\ request'[inbox'[d][i]].conn = d
      BY DEF InboxInv
    <3>1. CASE d # c
      <4>1. inbox'[d] = inbox[d] /\ inbox[d][i] \in Request /\ i \in 1..Len(inbox[d])
        BY <2>2, <3>1
      <4> QED BY <2>1, <2>5, <4>1 DEF LinkInv, InboxInv
    <3>2. CASE d = c /\ i = Len(inbox[c]) + 1
      <4>1. inbox'[d][i] = q
        BY <2>2, <2>3, <3>2
      <4> QED BY <2>5, <3>2, <4>1
    <3>3. CASE d = c /\ i # Len(inbox[c]) + 1
      <4>1. i \in 1..Len(inbox[c]) /\ inbox'[c] = Append(inbox[c], q)
        BY <2>2, <2>3, <3>3
      <4>2. inbox'[d][i] = inbox[c][i] /\ inbox[c][i] \in Request
        BY <2>3, <3>3, <4>1
      <4> QED BY <2>5, <3>3, <4>1, <4>2 DEF LinkInv, InboxInv
    <3> QED BY <3>1, <3>2, <3>3
  <2> QED BY <1>1, <1>3, <2>4, <2>6, RequestGoesOn
<1> QED BY <1>2, <1>3 DEF SendRequest

LEMMA ReadAnswerInv ==
  ASSUME LinkInv, NEW q \in Request, ReadAnswer(q)
  PROVE  LinkInv'
<1>0. /\ answers' \subseteq answers
      /\ UNCHANGED <<token, credentialEpoch, revoking, closing, conn, agents, socket,
                     maintenance, inbox, client, workers, restarting>>
  BY DEF ReadAnswer, admissionVars, connVars, clientVars
<1>1. /\ request' \in [Request -> Pending]
      /\ \A r \in Request : /\ request'[r].phase = request[r].phase
                            /\ request'[r].conn = request[r].conn
                            /\ request'[r].permit = request[r].permit
  <2> DEFINE v == [request[q] EXCEPT !.reply = request[q].phase = "sent"]
  <2>0. request[q] \in Pending /\ request \in [Request -> Pending]
    BY DEF LinkInv, LTypeOK
  <2>1. v \in Pending /\ v.phase = request[q].phase /\ v.conn = request[q].conn
        /\ v.permit = request[q].permit
    BY <2>0 DEF Pending
  <2>2. request' = [request EXCEPT ![q] = v]
    BY <2>0 DEF ReadAnswer
  <2> HIDE DEF v
  <2> QED BY <2>0, <2>1, <2>2
<1>2. LTypeOK'
  BY <1>0, <1>1 DEF LinkInv, LTypeOK
<1>3. EpochInv' /\ HandshakeInv' /\ RegisteredInv' /\ RevokedStaysOut' /\ ChosenInv'
  BY <1>0, <1>1 DEF LinkInv, EpochInv, HandshakeInv, RegisteredInv, RevokedStaysOut,
                    ChosenInv
<1>4. WorkersInv' /\ WorkIsOwned' /\ MaintenanceExcludes'
  BY <1>0, <1>1 DEF LinkInv, LTypeOK, WorkersInv, WorkIsOwned, MaintenanceExcludes, IsPending
<1>5. InboxInv'
  <2>1. inbox \in [Conn -> Seq(Request)]
    BY DEF LinkInv, LTypeOK
  <2>2. \A c \in Conn : \A i \in 1..Len(inbox[c]) : inbox[c][i] \in Request
    BY <2>1
  <2> QED BY <1>0, <1>1, <2>2 DEF LinkInv, InboxInv
<1> QED BY <1>2, <1>3, <1>4, <1>5 DEF LinkInv

\* Maintenance begins only when nobody waits over the registered connection.
LEMMA MaintenanceInv ==
  ASSUME LinkInv,
         \/ (\E l \in HostOperation : BeginHostMaintenance(l))
         \/ BeginUpdateMaintenance \/ EndMaintenance
  PROVE  LinkInv'
<1>1. /\ maintenance' \in HostOperation \cup {NoHost, Update}
      /\ maintenance' = NoHost \/ NothingPending
      /\ UNCHANGED <<token, credentialEpoch, revoking, closing, conn, agents, socket,
                     request, inbox, answers, client, workers, restarting>>
  BY DEF BeginHostMaintenance, BeginUpdateMaintenance, EndMaintenance, admissionVars,
         connVars, clientVars
<1>2. LTypeOK' /\ WorkersInv' /\ WorkIsOwned'
  BY <1>1 DEF LinkInv, LTypeOK, WorkersInv, WorkIsOwned
<1>3. EpochInv' /\ HandshakeInv' /\ ChosenInv' /\ InboxInv' /\ RegisteredInv'
      /\ RevokedStaysOut'
  BY <1>1 DEF LinkInv, EpochInv, HandshakeInv, ChosenInv, InboxInv, RegisteredInv,
              RevokedStaysOut
<1>4. MaintenanceExcludes'
  BY <1>1 DEF LinkInv, MaintenanceExcludes, NothingPending, IsPending
<1> QED BY <1>2, <1>3, <1>4 DEF LinkInv

-----------------------------------------------------------------------------
(* The Agent.                                                              *)

\* What a step of the Agent's process must respect.
LEMMA AgentStep ==
  ASSUME LinkInv, socket' \subseteq socket, answers' \subseteq Request,
         inbox' \in [Conn -> Seq(Request)], client' \in {client, NoConn},
         workers' \subseteq Request, restarting' \in BOOLEAN,
         UNCHANGED <<token, credentialEpoch, revoking, closing, conn, agents,
                     maintenance, request>>,
         InboxInv', WorkersInv', WorkIsOwned'
  PROVE  LinkInv'
<1>1. LTypeOK'
  BY DEF LinkInv, LTypeOK
<1>2. EpochInv' /\ HandshakeInv' /\ ChosenInv' /\ RegisteredInv' /\ RevokedStaysOut'
      /\ MaintenanceExcludes'
  BY DEF LinkInv, EpochInv, HandshakeInv, ChosenInv, RegisteredInv, RevokedStaysOut,
         MaintenanceExcludes, IsPending
<1> QED BY <1>1, <1>2 DEF LinkInv

LEMMA ReadRequestInv ==
  ASSUME LinkInv, ReadRequest
  PROVE  LinkInv'
<1>0. PICK c \in Conn : c = client /\ inbox[c] # <<>>
  BY DEF ReadRequest, LinkInv, LTypeOK
<1>1. PICK q \in Request : q = Head(inbox[c]) /\ request[q].phase # "new" /\ request[q].conn = c
  <2>1. inbox[c] \in Seq(Request)
    BY DEF LinkInv, LTypeOK
  <2>2. Head(inbox[c]) = inbox[c][1] /\ 1 \in 1..Len(inbox[c]) /\ Head(inbox[c]) \in Request
    BY <1>0, <2>1
  <2>3. request[inbox[c][1]].phase # "new" /\ request[inbox[c][1]].conn = c
    BY <2>2 DEF LinkInv, InboxInv
  <2> QED BY <2>2, <2>3
<1>2. /\ ~restarting /\ inbox' = [inbox EXCEPT ![c] = Tail(inbox[c])]
      /\ UNCHANGED <<token, credentialEpoch, revoking, closing, conn, agents, socket,
                     maintenance, request, client>>
  BY <1>0 DEF ReadRequest, admissionVars, connVars
<1>3. /\ \/ workers' = workers \cup {q} /\ restarting' = restarting
         \/ workers' = workers /\ restarting' = restarting
         \/ workers' = workers /\ workers = {} /\ restarting' = TRUE
      /\ answers' \in {answers, answers \cup {q}}
  BY <1>0, <1>1 DEF ReadRequest, Answer, MayRestart
<1>4. inbox' \in [Conn -> Seq(Request)] /\ InboxInv'
  <2>1. inbox \in [Conn -> Seq(Request)]
    BY DEF LinkInv, LTypeOK
  <2>2. /\ Tail(inbox[c]) \in Seq(Request)
        /\ \A i \in 1..Len(Tail(inbox[c])) : /\ Tail(inbox[c])[i] = inbox[c][i + 1]
                                             /\ i + 1 \in 1..Len(inbox[c])
    BY <1>0, <2>1
  <2>3. inbox' \in [Conn -> Seq(Request)]
    BY <1>2, <2>1, <2>2
  <2>4. ASSUME NEW d \in Conn, NEW i \in 1..Len(inbox'[d])
        PROVE  request[inbox'[d][i]].phase # "new" /\ request[inbox'[d][i]].conn = d
    <3>1. CASE d # c
      <4>1. inbox'[d] = inbox[d]
        BY <1>2, <2>1, <3>1
      <4> QED BY <2>4, <4>1 DEF LinkInv, InboxInv
    <3>2. CASE d = c
      <4>1. inbox'[c] = Tail(inbox[c])
        BY <1>2, <2>1
      <4>2. i \in 1..Len(Tail(inbox[c]))
        BY <2>4, <3>2, <4>1
      <4>3. inbox'[d][i] = inbox[c][i + 1] /\ i + 1 \in 1..Len(inbox[c])
        BY <2>2, <3>2, <4>1, <4>2
      <4> QED BY <3>2, <4>3 DEF LinkInv, InboxInv
    <3> QED BY <3>1, <3>2
  <2> QED BY <1>2, <2>3, <2>4 DEF InboxInv
<1>5. WorkersInv' /\ WorkIsOwned'
  BY <1>0, <1>1, <1>2, <1>3, LinkAssumption DEF LinkInv, WorkersInv, WorkIsOwned
<1>6. workers' \subseteq Request /\ answers' \subseteq Request /\ restarting' \in BOOLEAN
  BY <1>3 DEF LinkInv, LTypeOK
<1> QED BY <1>2, <1>4, <1>5, <1>6, AgentStep

LEMMA AgentInv ==
  ASSUME LinkInv, (\E q \in Request : WorkerDone(q)) \/ ClientEnds \/ ProcessReplaced
  PROVE  LinkInv'
<1>0. /\ UNCHANGED <<token, credentialEpoch, revoking, closing, conn, agents,
                     maintenance, request>>
      /\ socket' \subseteq socket
  BY DEF WorkerDone, ClientEnds, ProcessReplaced, admissionVars, connVars
<1>1. ASSUME NEW q \in Request, WorkerDone(q) PROVE LinkInv'
  <2>1. /\ workers' \subseteq workers /\ UNCHANGED <<client, restarting, inbox>>
        /\ answers' \subseteq Request
    BY <1>1 DEF WorkerDone, Answer, LinkInv, LTypeOK
  <2>2. WorkersInv' /\ WorkIsOwned' /\ InboxInv'
    BY <1>0, <2>1 DEF LinkInv, WorkersInv, WorkIsOwned, InboxInv
  <2> QED BY <1>0, <2>1, <2>2, AgentStep DEF LinkInv, LTypeOK
<1>2. CASE ClientEnds \/ ProcessReplaced
  <2>1. /\ client' = NoConn /\ workers' = {} /\ restarting' = FALSE /\ answers' = answers
        /\ \A c \in Conn : inbox'[c] \in {inbox[c], <<>>}
        /\ inbox' = [c \in Conn |-> inbox'[c]]
    BY <1>2 DEF ClientEnds, ProcessReplaced, LinkInv, LTypeOK
  <2>2. inbox' \in [Conn -> Seq(Request)]
    <3>1. <<>> \in Seq(Request) /\ \A c \in Conn : inbox[c] \in Seq(Request)
      BY DEF LinkInv, LTypeOK
    <3>2. \A c \in Conn : inbox'[c] \in Seq(Request)
      BY <2>1, <3>1
    <3> QED BY <2>1, <3>2
  <2>3. InboxInv'
    <3> SUFFICES ASSUME NEW c \in Conn, NEW i \in 1..Len(inbox'[c])
                 PROVE  request[inbox'[c][i]].phase # "new" /\ request[inbox'[c][i]].conn = c
      BY <1>0 DEF InboxInv
    <3>1. CASE inbox'[c] = <<>>
      BY <3>1
    <3>2. CASE inbox'[c] = inbox[c]
      BY <3>2 DEF LinkInv, InboxInv
    <3> QED BY <2>1, <3>1, <3>2
  <2>4. WorkersInv' /\ WorkIsOwned'
    BY <2>1 DEF WorkersInv, WorkIsOwned
  <2> QED BY <1>0, <2>1, <2>2, <2>3, <2>4, AgentStep DEF LinkInv, LTypeOK
<1> QED BY <1>1, <1>2

-----------------------------------------------------------------------------

LEMMA LinkStepInv == LinkInv /\ [LNext]_lvars => LinkInv'
<1> SUFFICES ASSUME LinkInv, [LNext]_lvars PROVE LinkInv'
  OBVIOUS
<1>1. CASE UNCHANGED lvars
  BY <1>1 DEF lvars, admissionVars, connVars, clientVars, LinkInv, LTypeOK, EpochInv,
     HandshakeInv, RegisteredInv, ChosenInv, InboxInv, WorkersInv, RevokedStaysOut,
     MaintenanceExcludes, IsPending, WorkIsOwned
<1>2. ASSUME NEW c \in Conn, ConnStep(c) PROVE LinkInv'
  BY <1>2, DialInv, AuthorizeInv, HelloInv, LeaveInv, SocketInv DEF ConnStep
<1>3. ASSUME NEW q \in Request, RequestStep(q) PROVE LinkInv'
  BY <1>3, ChooseConnectionInv, RequestInv, SendRequestInv, ReadAnswerInv, AgentInv
  DEF RequestStep
<1> QED BY <1>1, <1>2, <1>3, MaintenanceInv, RevokeInv, ReadRequestInv, AgentInv DEF LNext

LEMMA LinkInvariant == LSpec => []LinkInv
BY LinkInitInv, LinkStepInv, PTL DEF LSpec

\* The types of all variables of the link.
THEOREM LinkTypeCorrect == LSpec => []LTypeOK
<1>1. LinkInv => LTypeOK
  BY DEF LinkInv
<1> QED BY <1>1, LinkInvariant, PTL

\* An Agent whose credential was replaced does not stay connected, at whatever
\* point of its handshake the change finds it (Server.add, DisconnectAgent).
THEOREM RevokedAgentStaysOut == LSpec => []RevokedStaysOut
<1>1. LinkInv => RevokedStaysOut
  BY DEF LinkInv
<1> QED BY <1>1, LinkInvariant, PTL

\* While somebody keeps requests away, nobody else waits for an answer of the
\* Agent (roundTrip, BeginHostMaintenance, BeginUpdateMaintenance).
THEOREM MaintenanceIsExclusive == LSpec => []MaintenanceExcludes
<1>1. LinkInv => MaintenanceExcludes
  BY DEF LinkInv
<1> QED BY <1>1, LinkInvariant, PTL

\* The Agent executes the requests of one connection at a time, and no restart
\* it has accepted cuts one off (Client.Run).
THEOREM AgentWorkIsOwned == LSpec => []WorkIsOwned
<1>1. LinkInv => WorkIsOwned
  BY DEF LinkInv
<1> QED BY <1>1, LinkInvariant, PTL

-----------------------------------------------------------------------------
(* The Agent: its calls, its messages and its connection side by side, as  *)
(* they are checked together.                                              *)

\* Every behaviour of the parts together is one of each part, whose variables
\* keep their types.
THEOREM AgentTypeCorrect == MCSpec => []AgentTypeOK
<1>1. MCSpec => Spec
  <2>1. MCInit => Init
    BY DEF MCInit
  <2>2. [MCNext]_<<vars, svars, lvars, focus>> => [Next]_vars
    BY DEF MCNext
  <2> QED BY <2>1, <2>2, PTL DEF MCSpec, Spec
<1>2. MCSpec => SSpec
  <2>1. MCInit => SInit
    BY DEF MCInit
  <2>2. [MCNext]_<<vars, svars, lvars, focus>> => [SNext]_svars
    BY DEF MCNext
  <2> QED BY <2>1, <2>2, PTL DEF MCSpec, SSpec
<1>3. MCSpec => LSpec
  <2>1. MCInit => LInit
    BY DEF MCInit
  <2>2. [MCNext]_<<vars, svars, lvars, focus>> => [LNext]_lvars
    BY DEF MCNext
  <2> QED BY <2>1, <2>2, PTL DEF MCSpec, LSpec
<1>4. TypeOK /\ STypeOK /\ LTypeOK => AgentTypeOK
  BY DEF AgentTypeOK
<1> QED
  BY <1>1, <1>2, <1>3, <1>4,
     TypeCorrect, SmsTypeCorrect, LinkTypeCorrect, PTL
=============================================================================
