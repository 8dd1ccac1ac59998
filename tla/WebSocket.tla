----------------------------- MODULE WebSocket -----------------------------
(***************************************************************************)
(* The websocket transport of a page (Webos.ServerCall.websocket): how it  *)
(* finds the server, starts it, connects, and what becomes of the messages *)
(* it is given.                                                            *)
(*                                                                         *)
(* There are two objects with its methods: registerTransport() has copied  *)
(* it, so supports(), which is asked before every call, connects with the  *)
(* flags of the copy, and a message or a subscription with those of the    *)
(* original.  They share `options' and the socket.                         *)
(***************************************************************************)
EXTENDS SocketServer

CONSTANTS
  MaxMessages,  \* bound: requests given to the transport
  MaxConnects,  \* bound: calls of connect() that ask, start or open anything
  PanelOrders,  \* the requests the control panel makes
  OtherOrders,  \* the requests other pages make
  MaxOrders     \* bound: requests of the control panel and of other pages

ASSUME PageAssumption ==
  /\ MaxMessages \in Nat /\ MaxConnects \in Nat /\ MaxOrders \in Nat
  /\ PanelOrders \subseteq Kinds /\ OtherOrders \subseteq Kinds

Messages == 1 .. MaxMessages
Connects == 1 .. MaxConnects
None == 0

(* The senders of requests that are not a connect(). *)
Panel == -1
Elsewhere == -2

VARIABLES
  status,     \* options.server: whether it is known, and `started'
  disabled,   \* _disabled of the transport
  loading,    \* _loadingDependencies of the copy
  connecting, \* _connectOperation of the copy and of the original
  owner,      \* [Connects -> the object it was called on]
  phase,      \* [Connects -> how far it, or its socket, has come]
  socket,     \* _socket: the connect() that made it
  peer,       \* [Connects -> the process at the other end]
  place,      \* [Messages -> where each message is]
  reply,      \* [Messages -> what its operation was completed with]
  orders      \* requests of the panel and of other pages so far

pageVars == <<status, disabled, loading, connecting, owner, phase, socket, peer, place, reply, orders>>
linkVars == <<socket, peer>>
vars == <<serverVars, pageVars>>

Owners == {"copy", "original"}
Phases == {"none", "asking", "starting", "requiring", "opening", "ready", "failed", "closed", "stuck"}
Places == {"nowhere", "waiting", "queued", "sent", "back", "done"}
Replies == {"answer", "error"}
At0 == [at |-> "nowhere", of |-> None]

Init ==
  /\ ServerInit
  /\ status = "unknown"
  /\ disabled = FALSE
  /\ loading = FALSE
  /\ connecting = [o \in Owners |-> None]
  /\ owner = [i \in Connects |-> "copy"]
  /\ phase = [i \in Connects |-> "none"]
  /\ socket = None
  /\ peer = [i \in Connects |-> NoPid]
  /\ place = [m \in Messages |-> At0]
  /\ reply = [m \in Messages |-> "none"]
  /\ orders = 0

Fresh == {i \in Connects : phase[i] = "none"}
Waiting(i) == {m \in Messages : place[m] = [at |-> "waiting", of |-> i]}
Moved(ms, at, i) == [m \in Messages |-> IF m \in ms THEN [at |-> at, of |-> i] ELSE place[m]]
Replied(ms, r) == [m \in Messages |-> IF m \in ms THEN r ELSE reply[m]]

-----------------------------------------------------------------------------
(* connect(). *)

(* Its operation is completed with an error: _connecting is reset, and the  *)
(* messages that wait for it are answered by the error.                     *)
Refused(i, ms) ==
  /\ phase' = [phase EXCEPT ![i] = "failed"]
  /\ connecting' = [o \in Owners |-> IF connecting[o] = i THEN None ELSE connecting[o]]
  /\ place' = Moved(ms, "done", None)
  /\ reply' = Replied(ms, "error")

(* connectSocket(): the flag is raised on the object connect() is called on. *)
Requiring(i, o, ms) ==
  /\ phase' = [phase EXCEPT ![i] = "requiring"]
  /\ loading' = (loading \/ o = "copy")
  /\ place' = Moved(ms, "waiting", i)
  /\ UNCHANGED <<connecting, reply>>

(* gotServerStatus(): `reqs' are the requests but for the one that asked.    *)
GotStatus(i, o, now, ms, reqs) ==
  \/ /\ ~config.enabled \/ (now = "off" /\ ~config.autoStart)
     /\ disabled' = TRUE
     /\ Refused(i, ms)
     /\ request' = reqs
     /\ UNCHANGED <<loading, mixed>>
  \/ /\ config.enabled /\ now = "off" /\ config.autoStart
     /\ phase' = [phase EXCEPT ![i] = "starting"]
     /\ place' = Moved(ms, "waiting", i)
     /\ Begin(reqs, "start", i)
     /\ UNCHANGED <<disabled, loading, connecting, reply>>
  \/ /\ config.enabled /\ now = "on"
     /\ Requiring(i, o, ms)
     /\ request' = reqs
     /\ UNCHANGED <<disabled, mixed>>

(* The page's calls are preceded by supports(), which connects the copy. *)
Asked == disabled \/ status # "unknown" \/ connecting["copy"] # None

(* connect() on one of the objects, for a message or for none: it joins the *)
(* one in progress, asks for the status, or goes on with what it knows.     *)
Connect(o, ms) ==
  /\ \/ /\ connecting[o] # None
        /\ place' = Moved(ms, "waiting", connecting[o])
        /\ UNCHANGED <<request, mixed, disabled, loading, connecting, owner, phase, reply>>
     \/ /\ connecting[o] = None /\ Fresh # {}
        /\ LET i == CHOOSE j \in Fresh : TRUE IN
           /\ owner' = [owner EXCEPT ![i] = o]
           /\ \/ /\ status = "unknown"
                 /\ connecting' = [connecting EXCEPT ![o] = i]
                 /\ phase' = [phase EXCEPT ![i] = "asking"]
                 /\ place' = Moved(ms, "waiting", i)
                 /\ o = "copy" \/ Asked
                 /\ Begin(request, "status", i)
                 /\ UNCHANGED <<disabled, loading, reply>>
              \/ /\ status # "unknown"
                 /\ GotStatus(i, o, status, ms, request)
  /\ UNCHANGED <<config, faults, process, pidFile, status, linkVars, orders>>

(* Any call to the server asks the copy first whether it may carry it. *)
Supports ==
  /\ ~disabled /\ status = "unknown" /\ connecting["copy"] = None
  /\ Connect("copy", {})

Supported == ~disabled /\ status = "on" /\ ~loading

(* subscribe() needs a socket. *)
Subscribe ==
  /\ socket = None \/ connecting["original"] # None
  /\ Connect("original", {})

-----------------------------------------------------------------------------
(* The answers of the requests, over ajax. *)

(* A mutant: an error is taken for a status. *)
AnyAnswer(r) ==
  /\ request[r].kind = "status" /\ request[r].sender # Elsewhere
  /\ request[r].outcome # "none"
  /\ status' = request[r].outcome
  /\ request' = Released(r)
  /\ UNCHANGED <<mixed, disabled, loading, connecting, phase, place, reply>>
  /\ UNCHANGED <<config, faults, process, pidFile, owner, linkVars, orders>>

(* getServerStatus() for a connect() or for the panel. *)
StatusAnswered(r) ==
  /\ request[r].kind = "status" /\ request[r].sender # Elsewhere
  /\ request[r].outcome \in {"on", "off"}
  /\ status' = request[r].outcome
  /\ IF request[r].sender = Panel
       THEN /\ request' = Released(r)
            /\ UNCHANGED <<mixed, disabled, loading, connecting, phase, place, reply>>
       ELSE LET i == request[r].sender IN
            GotStatus(i, owner[i], request[r].outcome, Waiting(i), Released(r))
  /\ UNCHANGED <<config, faults, process, pidFile, owner, linkVars, orders>>

(* startServer() of a connect(). *)
StartAnswered(r) ==
  /\ request[r].kind = "start" /\ request[r].sender \in Connects
  /\ request[r].outcome = "done"
  /\ LET i == request[r].sender IN Requiring(i, owner[i], Waiting(i))
  /\ status' = "on"
  /\ request' = Released(r)
  /\ UNCHANGED <<config, faults, process, pidFile, mixed, disabled, owner, linkVars, orders>>

ConnectRefused(r) ==
  /\ request[r].sender \in Connects
  /\ request[r].outcome = "failed"
  /\ LET i == request[r].sender IN Refused(i, Waiting(i))
  /\ request' = Released(r)
  /\ UNCHANGED <<config, faults, process, pidFile, mixed, status, disabled, loading, owner, linkVars, orders>>

(* stopServer() notes that the server is stopped; it fails to when nothing  *)
(* is known of it.  Of the other orders nothing is noted.                   *)
OrderAnswered(r) ==
  /\ request[r].sender \in {Panel, Elsewhere}
  /\ request[r].outcome # "none"
  /\ request[r].kind = "status" => request[r].sender = Elsewhere \/ request[r].outcome = "failed"
  /\ status' = IF /\ request[r].kind = "stop" /\ request[r].sender = Panel
                  /\ request[r].outcome = "done" /\ status # "unknown"
                 THEN "off" ELSE status
  /\ request' = Released(r)
  /\ UNCHANGED <<config, faults, process, pidFile, mixed, disabled, loading, connecting, owner, phase,
                 linkVars, place, reply, orders>>

(* The panel's buttons, and what other pages ask. *)
Order(kind, sender) ==
  /\ orders < MaxOrders
  /\ sender = Panel => Asked
  /\ Begin(request, kind, sender)
  /\ orders' = orders + 1
  /\ UNCHANGED <<config, faults, process, pidFile, status, disabled, loading, connecting, owner, phase,
                 linkVars, place, reply>>

-----------------------------------------------------------------------------
(* The socket (a Wampy object) of a connect(). *)

(* Webos.require() has the library, which it loads once.                     *)
(* getServerLocation() knows no address when the server has been stopped     *)
(* meanwhile, and the callback throws: the operation is never completed.     *)
LibraryLoaded(i) ==
  /\ phase[i] = "requiring"
  /\ loading' = (loading /\ owner[i] # "copy")
  /\ IF status = "on"
       THEN /\ phase' = [phase EXCEPT ![i] = "opening"]
            /\ socket' = i
       ELSE /\ phase' = [phase EXCEPT ![i] = "stuck"]
            /\ UNCHANGED socket
  /\ UNCHANGED <<serverVars, status, disabled, connecting, owner, peer, place, reply, orders>>

LibraryFails(i) ==
  /\ phase[i] = "requiring"
  /\ \A j \in Connects : phase[j] \notin {"opening", "ready", "closed", "stuck"}
  /\ Refused(i, Waiting(i))
  /\ UNCHANGED <<serverVars, status, disabled, loading, owner, linkVars, orders>>

(* A mutant: what has been queued before the welcome is not sent. *)
WelcomeOnly(i) ==
  /\ phase[i] = "opening"
  /\ \E p \in Listening : peer' = [peer EXCEPT ![i] = p]
  /\ phase' = [phase EXCEPT ![i] = "ready"]
  /\ connecting' = [o \in Owners |-> IF connecting[o] = i THEN None ELSE connecting[o]]
  /\ place' = Moved(Waiting(i), "sent", i)
  /\ UNCHANGED <<serverVars, status, disabled, loading, owner, socket, reply, orders>>

(* The server's welcome: the operation is completed, which hands the waiting *)
(* messages to the socket, and then what is queued is sent.                  *)
Welcome(i) ==
  /\ phase[i] = "opening"
  /\ \E p \in Listening : peer' = [peer EXCEPT ![i] = p]
  /\ phase' = [phase EXCEPT ![i] = "ready"]
  /\ connecting' = [o \in Owners |-> IF connecting[o] = i THEN None ELSE connecting[o]]
  /\ place' = [m \in Messages |->
                 IF place[m].of = i /\ place[m].at \in {"waiting", "queued"}
                   THEN [at |-> "sent", of |-> i] ELSE place[m]]
  /\ UNCHANGED <<serverVars, status, disabled, loading, owner, socket, reply, orders>>

(* The browser cannot connect: onError. What is queued stays in the queue. *)
OpenFails(i) ==
  /\ phase[i] = "opening"
  /\ phase' = [phase EXCEPT ![i] = "closed"]
  /\ connecting' = [o \in Owners |-> IF connecting[o] = i THEN None ELSE connecting[o]]
  /\ place' = Moved(Waiting(i), "done", None)
  /\ reply' = Replied(Waiting(i), "error")
  /\ UNCHANGED <<serverVars, status, disabled, loading, owner, linkVars, orders>>

(* The connection is closed before or after the welcome: onClose writes to   *)
(* the console.                                                              *)
Close(i) ==
  /\ phase[i] \in {"opening", "ready"}
  /\ phase' = [phase EXCEPT ![i] = "closed"]
  /\ peer' = [peer EXCEPT ![i] = NoPid]
  /\ UNCHANGED <<serverVars, status, disabled, loading, connecting, owner, socket, place, reply, orders>>

(* _sendMsg() for a call or a group that is given to the transport. *)
Send(m) ==
  /\ Supported
  /\ {n \in Messages : place[n] = At0} = m .. MaxMessages
  /\ \/ /\ socket = None \/ connecting["original"] # None
        /\ Connect("original", {m})
     \/ /\ socket # None /\ connecting["original"] = None
        /\ place' = Moved({m}, IF phase[socket] = "ready" THEN "sent" ELSE "queued", socket)
        /\ UNCHANGED <<serverVars, status, disabled, loading, connecting, owner, phase, linkVars,
                       reply, orders>>

(* onCall() of the server. *)
Serve(m) ==
  /\ place[m].at = "sent"
  /\ LET i == place[m].of IN
     /\ phase[i] = "ready" /\ process[peer[i]] = "listening"
     /\ place' = Moved({m}, "back", i)
  /\ UNCHANGED <<serverVars, status, disabled, loading, connecting, owner, phase, linkVars, reply, orders>>

(* callRes or callErr. *)
Answer(m) ==
  /\ place[m].at = "back" /\ phase[place[m].of] = "ready"
  /\ place' = Moved({m}, "done", None)
  /\ \E a \in Replies : reply' = Replied({m}, a)
  /\ UNCHANGED <<serverVars, status, disabled, loading, connecting, owner, phase, linkVars, orders>>

-----------------------------------------------------------------------------
AjaxAnswer(r) == StatusAnswered(r) \/ StartAnswered(r) \/ ConnectRefused(r) \/ OrderAnswered(r)

(* What a socket does by itself. *)
Library(i) == LibraryLoaded(i) \/ LibraryFails(i)
Settle(i) == Welcome(i) \/ OpenFails(i) \/ (phase[i] = "opening" /\ Close(i))
Orphan(i) == phase[i] = "ready" /\ process[peer[i]] = "dead" /\ Close(i)
Carry(m) == Serve(m) \/ Answer(m)

Next ==
  \/ Supports \/ Subscribe
  \/ \E m \in Messages : Send(m) \/ Carry(m)
  \/ \E k \in PanelOrders : Order(k, Panel)
  \/ \E k \in OtherOrders : Order(k, Elsewhere)
  \/ \E r \in Requests : AjaxAnswer(r)
  \/ \E i \in Connects : Library(i) \/ Welcome(i) \/ OpenFails(i) \/ Close(i)
  \/ ServerStep /\ UNCHANGED pageVars

(* PHP and the processes go on; a request over ajax is answered, or fails; a  *)
(* library is read or not; a socket opens or does not, carries what it is    *)
(* given while its server lives and closes when that has died.               *)
Fairness ==
  /\ ServerFairness
  /\ \A r \in Requests : WF_vars(AjaxAnswer(r))
  /\ \A i \in Connects : WF_vars(Library(i)) /\ WF_vars(Settle(i)) /\ WF_vars(Orphan(i))
  /\ \A m \in Messages : WF_vars(Carry(m))

Spec == Init /\ [][Next]_vars /\ Fairness

-----------------------------------------------------------------------------
(* Properties. *)

TypeOK ==
  /\ ServerTypeOK
  /\ status \in {"unknown", "on", "off"}
  /\ disabled \in BOOLEAN /\ loading \in BOOLEAN
  /\ connecting \in [Owners -> Connects \cup {None}]
  /\ owner \in [Connects -> Owners]
  /\ phase \in [Connects -> Phases]
  /\ socket \in Connects \cup {None}
  /\ peer \in [Connects -> Pids \cup {NoPid}]
  /\ place \in [Messages -> [at : Places, of : Connects \cup {None}]]
  /\ reply \in [Messages -> Replies \cup {"none"}]
  /\ orders \in 0 .. MaxOrders

(* What the transport loses: messages that wait for a connect() whose        *)
(* callback has thrown, or that are queued on, wait for or have been sent    *)
(* over a socket that is closed.                                             *)
Lost == {m \in Messages : place[m].of # None /\ phase[place[m].of] \in {"closed", "stuck"}}

(* A message that is given to the transport is answered in the end, or Lost: *)
(* it is not forgotten by the flags of the two objects, a connect() it joins, *)
(* the socket's queue or a socket that is replaced.                          *)
AnsweredOrLost ==
  \A m \in Messages : place[m] # At0 ~> reply[m] # "none" \/ m \in Lost
=============================================================================
