-------------------------- MODULE WebSocket_proofs --------------------------
(***************************************************************************)
(* The server that listens is the one the file names, for any page, any    *)
(* requests and any processes, as long as no two starts or stops overlap;   *)
(* and what the operations that connect() returns promise to those who     *)
(* listen to them, for any observers.                                      *)
(***************************************************************************)
EXTENDS WebSocket, Operation, FiniteSetTheorems, SequenceTheorems, TLAPS

PageTypeOK ==
  /\ status \in {"unknown", "on", "off"}
  /\ disabled \in BOOLEAN /\ loading \in BOOLEAN
  /\ connecting \in [Owners -> Connects \cup {None}]
  /\ owner \in [Connects -> Owners]
  /\ phase \in [Connects -> Phases]
  /\ socket \in Connects \cup {None}
  /\ peer \in [Connects -> Pids \cup {NoPid}]
  /\ place \in [Messages -> [at : Places, of : Connects \cup {None}]]
  /\ reply \in [Messages -> Replies \cup {"none"}]
  /\ orders \in 0 .. MaxOrders

(* A request that is over, or that nobody has made, takes no step; one that  *)
(* has been made has a sender.                                               *)
Senders == Connects \cup {Panel, Elsewhere}

Tidy(reqs) ==
  \A r \in Requests :
    /\ reqs[r].outcome # "none" => reqs[r].step = "none"
    /\ reqs[r].kind = "none" => reqs[r].step = "none" /\ reqs[r].outcome = "none"
    /\ reqs[r].kind # "none" => reqs[r].sender \in Senders

RequestsTidy == Tidy(request)

(* While no two starts or stops have overlapped, there is one process at     *)
(* most and the file names it, or the request that has started it is about   *)
(* to write it there, or the process itself is, and nothing else goes on.    *)
Alone ==
  /\ \A r, s \in Meddling : r = s
  /\ \A p, q \in Pids : Alive(p) /\ Alive(q) => p = q
  /\ \A p \in Pids : Alive(p) =>
       \/ pidFile = p
       \/ /\ process[p] = "started" \/ ~config.posix
          /\ \E r \in Requests : request[r].step = "write" /\ request[r].held = p
       \/ process[p] = "called" /\ config.posix
  /\ \A r \in Requests : request[r].step \in {"launch", "clear"} => \A p \in Pids : ~Alive(p)
  /\ \A r \in Requests : request[r].step = "write" => \A p \in Pids : Alive(p) => p = request[r].held
  /\ \A p \in Pids : process[p] = "called" => Meddling = {}

Safe == ~mixed => Alone

IInv == ServerTypeOK /\ PageTypeOK /\ RequestsTidy /\ Safe

LEMMA TypeParts == TypeOK <=> ServerTypeOK /\ PageTypeOK
BY DEF TypeOK, PageTypeOK

LEMMA IdleType ==
  /\ Idle \in RequestRecords
  /\ Idle.step = "none" /\ Idle.kind = "none" /\ Idle.outcome = "none"
BY DEF Idle, Record, RequestRecords, Steps, Outcomes, NoPid

LEMMA InitInv == Init => IInv
<1> SUFFICES ASSUME Init PROVE IInv
  OBVIOUS
<1> USE ServerAssumption, PageAssumption
<1>1. ServerTypeOK
  <2>1. 0 \in 0 .. MaxFaults
    OBVIOUS
  <2> QED BY <2>1, IdleType DEF Init, ServerInit, ServerTypeOK, States, NoPid
<1>2. PageTypeOK
  <2>1. At0 \in [at : Places, of : Connects \cup {None}]
    BY DEF At0, Places
  <2>2. 0 \in 0 .. MaxOrders
    OBVIOUS
  <2>3. place \in [Messages -> [at : Places, of : Connects \cup {None}]]
    BY <2>1 DEF Init
  <2> QED BY <2>2, <2>3 DEF Init, PageTypeOK, Owners, Phases, None, NoPid
<1>3. RequestsTidy
  BY IdleType DEF Init, ServerInit, RequestsTidy, Tidy
<1>4. Safe
  BY IdleType DEF Init, ServerInit, Safe, Alone, Meddling, Alive
<1> QED BY <1>1, <1>2, <1>3, <1>4 DEF IInv

-----------------------------------------------------------------------------
(* What the page does to the requests: it takes an answer, makes a request,  *)
(* or both.                                                                  *)

Left(reqs) == reqs = request \/ \E r \in Requests : request[r].outcome # "none" /\ reqs = Released(r)

PageRequest ==
  /\ UNCHANGED <<config, process, pidFile, faults>>
  /\ \E reqs \in [Requests -> RequestRecords] :
       /\ Left(reqs)
       /\ \/ request' = reqs /\ mixed' = mixed
          \/ \E kind \in Kinds, sender \in Senders : Begin(reqs, kind, sender)

LEMMA LeftTidy ==
  ASSUME ServerTypeOK, RequestsTidy, NEW reqs \in [Requests -> RequestRecords], Left(reqs)
  PROVE  /\ Tidy(reqs)
         /\ \A r \in Requests : reqs[r] = request[r] \/ (reqs[r].step = "none" /\ request[r].step = "none")
<1>1. CASE reqs = request
  BY <1>1 DEF RequestsTidy
<1>2. ASSUME NEW r \in Requests, request[r].outcome # "none", reqs = Released(r)
      PROVE  /\ Tidy(reqs)
             /\ \A s \in Requests : reqs[s] = request[s] \/ (reqs[s].step = "none" /\ request[s].step = "none")
  <2>1. reqs = [request EXCEPT ![r] = Idle]
    BY <1>2 DEF Released
  <2>2. \A s \in Requests \ {r} : reqs[s] = request[s]
    BY <2>1
  <2>3. reqs[r] = Idle
    BY <2>1 DEF ServerTypeOK
  <2>5. request[r].step = "none"
    BY <1>2 DEF RequestsTidy, Tidy
  <2> QED BY <2>2, <2>3, <2>5, IdleType DEF RequestsTidy, Tidy
<1> QED BY <1>1, <1>2 DEF Left

LEMMA BeginStep ==
  ASSUME NEW reqs \in [Requests -> RequestRecords], Tidy(reqs), mixed \in BOOLEAN,
         NEW kind \in Kinds, NEW sender \in Senders, Begin(reqs, kind, sender)
  PROVE  /\ request' \in [Requests -> RequestRecords]
         /\ Tidy(request')
         /\ mixed' = (mixed \/ (kind # "status" /\ Busy))
         /\ \E s \in Requests :
              /\ reqs[s].step = "none"
              /\ \A r \in Requests \ {s} : request'[r] = reqs[r]
              /\ request'[s].step = First(kind)
<1> DEFINE s == CHOOSE r \in Free(reqs) : TRUE
           new == Record(kind, sender, First(kind), "none")
<1>1. s \in Requests /\ reqs[s].kind = "none"
  BY DEF Begin, Free
<1>2. request' = [reqs EXCEPT ![s] = new]
  BY DEF Begin
<1>3. /\ new.kind = kind /\ new.sender = sender /\ new.step = First(kind) /\ new.outcome = "none"
  BY DEF Record
<1>4. First(kind) \in Steps /\ kind # "none"
  BY DEF First, Kinds, Steps
<1>5. sender \in Int
  BY PageAssumption DEF Senders, Connects, Panel, Elsewhere
<1>6. new \in RequestRecords
  BY <1>4, <1>5 DEF Record, RequestRecords, Outcomes, NoPid
<1> HIDE DEF s, new
<1>7. request' \in [Requests -> RequestRecords]
  BY <1>1, <1>2, <1>6
<1>8. request'[s] = new /\ \A r \in Requests \ {s} : request'[r] = reqs[r]
  BY <1>1, <1>2
<1>9. Tidy(request')
  BY <1>3, <1>4, <1>8 DEF Tidy
<1>10. reqs[s].step = "none"
  BY <1>1 DEF Tidy
<1>11. mixed' = (mixed \/ (kind # "status" /\ Busy))
  BY DEF Begin
<1> QED BY <1>1, <1>3, <1>7, <1>8, <1>9, <1>10, <1>11

(* A page's step that leaves the requests and the server alone. *)
LEMMA NoRequest ==
  ASSUME ServerTypeOK, UNCHANGED serverVars
  PROVE  PageRequest
BY DEF serverVars, PageRequest, Left, ServerTypeOK

LEMMA OneRequest ==
  ASSUME NEW reqs \in [Requests -> RequestRecords], Left(reqs),
         UNCHANGED <<config, process, pidFile, faults>>,
         \/ request' = reqs /\ mixed' = mixed
         \/ \E kind \in Kinds, sender \in Senders : Begin(reqs, kind, sender)
  PROVE  PageRequest
BY DEF PageRequest

LEMMA ReleasedType ==
  ASSUME ServerTypeOK, NEW r \in Requests, request[r].outcome # "none"
  PROVE  Released(r) \in [Requests -> RequestRecords] /\ Left(Released(r))
BY IdleType DEF ServerTypeOK, Released, Left

LEMMA MovedType ==
  ASSUME PageTypeOK, NEW ms, NEW at \in Places, NEW i \in Connects \cup {None}
  PROVE  Moved(ms, at, i) \in [Messages -> [at : Places, of : Connects \cup {None}]]
<1>1. [at |-> at, of |-> i] \in [at : Places, of : Connects \cup {None}]
  OBVIOUS
<1> QED BY <1>1 DEF Moved, PageTypeOK

LEMMA RepliedType ==
  ASSUME PageTypeOK, NEW ms, NEW r \in Replies
  PROVE  Replied(ms, r) \in [Messages -> Replies \cup {"none"}]
BY DEF Replied, PageTypeOK

LEMMA RefusedType ==
  ASSUME PageTypeOK, NEW i \in Connects, NEW ms, Refused(i, ms)
  PROVE  /\ phase' \in [Connects -> Phases]
         /\ connecting' \in [Owners -> Connects \cup {None}]
         /\ place' \in [Messages -> [at : Places, of : Connects \cup {None}]]
         /\ reply' \in [Messages -> Replies \cup {"none"}]
<1>1. "done" \in Places /\ "error" \in Replies /\ "failed" \in Phases
  BY DEF Places, Replies, Phases
<1>2. phase' \in [Connects -> Phases] /\ connecting' \in [Owners -> Connects \cup {None}]
  BY <1>1 DEF Refused, PageTypeOK
<1>3. place' \in [Messages -> [at : Places, of : Connects \cup {None}]]
  BY <1>1, MovedType DEF Refused
<1>4. reply' \in [Messages -> Replies \cup {"none"}]
  BY <1>1, RepliedType DEF Refused
<1> QED BY <1>2, <1>3, <1>4

LEMMA RequiringType ==
  ASSUME PageTypeOK, NEW i \in Connects, NEW o \in Owners, NEW ms, Requiring(i, o, ms)
  PROVE  /\ phase' \in [Connects -> Phases]
         /\ loading' \in BOOLEAN
         /\ connecting' \in [Owners -> Connects \cup {None}]
         /\ place' \in [Messages -> [at : Places, of : Connects \cup {None}]]
         /\ reply' \in [Messages -> Replies \cup {"none"}]
<1>1. "waiting" \in Places /\ "requiring" \in Phases
  BY DEF Places, Phases
<1>2. place' \in [Messages -> [at : Places, of : Connects \cup {None}]]
  BY <1>1, MovedType DEF Requiring
<1>3. loading' \in BOOLEAN
  BY DEF Requiring, PageTypeOK
<1> QED BY <1>1, <1>2, <1>3 DEF Requiring, PageTypeOK

LEMMA GotStatusType ==
  ASSUME PageTypeOK, NEW i \in Connects, NEW o \in Owners, NEW now, NEW ms,
         NEW reqs, GotStatus(i, o, now, ms, reqs)
  PROVE  /\ disabled' \in BOOLEAN /\ loading' \in BOOLEAN
         /\ phase' \in [Connects -> Phases]
         /\ connecting' \in [Owners -> Connects \cup {None}]
         /\ place' \in [Messages -> [at : Places, of : Connects \cup {None}]]
         /\ reply' \in [Messages -> Replies \cup {"none"}]
         /\ \/ request' = reqs /\ mixed' = mixed
            \/ \E kind \in Kinds, sender \in Senders : Begin(reqs, kind, sender)
<1>1. CASE disabled' = TRUE /\ Refused(i, ms) /\ request' = reqs /\ UNCHANGED <<loading, mixed>>
  BY <1>1, RefusedType DEF PageTypeOK
<1>2. CASE /\ phase' = [phase EXCEPT ![i] = "starting"]
           /\ place' = Moved(ms, "waiting", i)
           /\ Begin(reqs, "start", i)
           /\ UNCHANGED <<disabled, loading, connecting, reply>>
  <2>1. "waiting" \in Places /\ "starting" \in Phases /\ "start" \in Kinds /\ i \in Senders
    BY DEF Places, Phases, Kinds, Senders
  <2>2. place' \in [Messages -> [at : Places, of : Connects \cup {None}]]
    BY <1>2, <2>1, MovedType
  <2>3. \E kind \in Kinds, sender \in Senders : Begin(reqs, kind, sender)
    BY <1>2, <2>1
  <2> QED BY <1>2, <2>1, <2>2, <2>3 DEF PageTypeOK
<1>3. CASE Requiring(i, o, ms) /\ request' = reqs /\ UNCHANGED <<disabled, mixed>>
  BY <1>3, RequiringType DEF PageTypeOK
<1> QED BY <1>1, <1>2, <1>3 DEF GotStatus

LEMMA ConnectStep ==
  ASSUME ServerTypeOK, PageTypeOK, NEW o \in Owners, NEW ms, Connect(o, ms)
  PROVE  PageTypeOK' /\ PageRequest
<1>1. request \in [Requests -> RequestRecords] /\ Left(request)
  BY DEF ServerTypeOK, Left
<1>2. UNCHANGED <<config, faults, process, pidFile, status, socket, peer, orders>>
  BY DEF Connect, linkVars
<1>3. "waiting" \in Places /\ "asking" \in Phases /\ "status" \in Kinds
  BY DEF Places, Phases, Kinds
<1>4. CASE /\ connecting[o] # None
           /\ place' = Moved(ms, "waiting", connecting[o])
           /\ UNCHANGED <<request, mixed, disabled, loading, connecting, owner, phase, reply>>
  <2>1. connecting[o] \in Connects \cup {None}
    BY DEF PageTypeOK
  <2>2. place' \in [Messages -> [at : Places, of : Connects \cup {None}]]
    BY <1>3, <1>4, <2>1, MovedType
  <2>3. PageRequest
    BY <1>1, <1>2, <1>4, OneRequest
  <2> QED BY <1>2, <1>4, <2>2, <2>3 DEF PageTypeOK
<1>5. CASE connecting[o] = None /\ Fresh # {}
  <2> DEFINE i == CHOOSE j \in Fresh : TRUE
  <2>1. i \in Connects
    BY <1>5 DEF Fresh
  <2>2. CASE /\ owner' = [owner EXCEPT ![i] = o]
             /\ connecting' = [connecting EXCEPT ![o] = i]
             /\ phase' = [phase EXCEPT ![i] = "asking"]
             /\ place' = Moved(ms, "waiting", i)
             /\ Begin(request, "status", i)
             /\ UNCHANGED <<disabled, loading, reply>>
    <3> HIDE DEF i
    <3>1. place' \in [Messages -> [at : Places, of : Connects \cup {None}]]
      BY <1>3, <2>1, <2>2, MovedType
    <3>2. i \in Senders
      BY <2>1 DEF Senders
    <3>3. PageRequest
      BY <1>1, <1>2, <1>3, <2>2, <3>2, OneRequest
    <3>4. /\ connecting' \in [Owners -> Connects \cup {None}]
          /\ phase' \in [Connects -> Phases] /\ owner' \in [Connects -> Owners]
      BY <1>3, <2>1, <2>2 DEF PageTypeOK
    <3> QED BY <1>2, <2>2, <3>1, <3>3, <3>4 DEF PageTypeOK
  <2>3. CASE owner' = [owner EXCEPT ![i] = o] /\ GotStatus(i, o, status, ms, request)
    <3> HIDE DEF i
    <3>1. PageRequest
      BY <1>1, <1>2, <2>1, <2>3, GotStatusType, OneRequest
    <3>2. owner' \in [Connects -> Owners]
      BY <2>1, <2>3 DEF PageTypeOK
    <3> QED BY <1>2, <2>1, <2>3, <3>1, <3>2, GotStatusType DEF PageTypeOK
  <2> QED BY <1>4, <1>5, <2>2, <2>3 DEF Connect
<1> QED BY <1>4, <1>5 DEF Connect

LEMMA SupportsStep ==
  ASSUME ServerTypeOK, PageTypeOK, Supports \/ Subscribe
  PROVE  PageTypeOK' /\ PageRequest
<1>1. "copy" \in Owners /\ "original" \in Owners
  BY DEF Owners
<1> QED BY <1>1, ConnectStep DEF Supports, Subscribe

LEMMA SendStep ==
  ASSUME ServerTypeOK, PageTypeOK, NEW m \in Messages, Send(m)
  PROVE  PageTypeOK' /\ PageRequest
<1>1. CASE Connect("original", {m})
  BY <1>1, ConnectStep DEF Owners
<1>2. CASE /\ place' = Moved({m}, IF phase[socket] = "ready" THEN "sent" ELSE "queued", socket)
           /\ UNCHANGED <<serverVars, status, disabled, loading, connecting, owner, phase, linkVars,
                          reply, orders>>
  <2>1. "sent" \in Places /\ "queued" \in Places /\ socket \in Connects \cup {None}
    BY DEF Places, PageTypeOK
  <2>2. place' \in [Messages -> [at : Places, of : Connects \cup {None}]]
    BY <1>2, <2>1, MovedType
  <2>3. PageRequest
    BY <1>2, NoRequest
  <2> QED BY <1>2, <2>2, <2>3 DEF PageTypeOK, linkVars
<1> QED BY <1>1, <1>2 DEF Send

LEMMA CarryStep ==
  ASSUME ServerTypeOK, PageTypeOK, NEW m \in Messages, Carry(m)
  PROVE  PageTypeOK' /\ PageRequest
<1>1. /\ UNCHANGED <<serverVars, status, disabled, loading, connecting, owner, phase, linkVars, orders>>
      /\ "back" \in Places /\ "done" \in Places
  BY DEF Carry, Serve, Answer, Places
<1>2. place[m].of \in Connects \cup {None} /\ None \in Connects \cup {None}
  BY DEF PageTypeOK
<1>3. CASE Serve(m)
  <2>1. place' \in [Messages -> [at : Places, of : Connects \cup {None}]]
    BY <1>1, <1>2, <1>3, MovedType DEF Serve
  <2>2. reply' = reply
    BY <1>3 DEF Serve
  <2> QED BY <1>1, <2>1, <2>2, NoRequest DEF PageTypeOK, linkVars
<1>4. CASE Answer(m)
  <2>1. place' \in [Messages -> [at : Places, of : Connects \cup {None}]]
    BY <1>1, <1>2, <1>4, MovedType DEF Answer
  <2>2. reply' \in [Messages -> Replies \cup {"none"}]
    BY <1>4, RepliedType DEF Answer
  <2> QED BY <1>1, <2>1, <2>2, NoRequest DEF PageTypeOK, linkVars
<1> QED BY <1>3, <1>4 DEF Carry

LEMMA OrderStep ==
  ASSUME ServerTypeOK, PageTypeOK, NEW kind \in Kinds, NEW sender \in {Panel, Elsewhere},
         Order(kind, sender)
  PROVE  PageTypeOK' /\ PageRequest
<1>1. /\ UNCHANGED <<config, faults, process, pidFile, status, disabled, loading, connecting, owner, phase,
                     linkVars, place, reply>>
      /\ Begin(request, kind, sender)
      /\ orders < MaxOrders /\ orders' = orders + 1
  BY DEF Order
<1>2. orders' \in 0 .. MaxOrders
  BY <1>1, PageAssumption DEF PageTypeOK
<1>3. sender \in Senders /\ request \in [Requests -> RequestRecords] /\ Left(request)
  BY DEF Senders, ServerTypeOK, Left
<1>4. PageRequest
  BY <1>1, <1>3, OneRequest
<1> QED BY <1>1, <1>2, <1>4 DEF PageTypeOK, linkVars

LEMMA AnswerStep ==
  ASSUME ServerTypeOK, PageTypeOK, RequestsTidy, NEW r \in Requests, AjaxAnswer(r)
  PROVE  PageTypeOK' /\ PageRequest
<1>1. request[r].outcome # "none"
  BY DEF AjaxAnswer, StatusAnswered, StartAnswered, ConnectRefused, OrderAnswered
<1>2. Released(r) \in [Requests -> RequestRecords] /\ Left(Released(r))
  BY <1>1, ReleasedType
<1>3. UNCHANGED <<config, faults, process, pidFile, owner, linkVars, orders>>
  BY DEF AjaxAnswer, StatusAnswered, StartAnswered, ConnectRefused, OrderAnswered
<1>4. CASE StatusAnswered(r)
  <2>1. status' \in {"unknown", "on", "off"}
    BY <1>4 DEF StatusAnswered
  <2>2. CASE /\ request' = Released(r)
             /\ UNCHANGED <<mixed, disabled, loading, connecting, phase, place, reply>>
    BY <1>2, <1>3, <2>1, <2>2, OneRequest DEF PageTypeOK, linkVars
  <2>3. CASE /\ request[r].sender # Panel
             /\ GotStatus(request[r].sender, owner[request[r].sender], request[r].outcome,
                          Waiting(request[r].sender), Released(r))
    <3>1. request[r].kind # "none" /\ request[r].sender # Elsewhere
      BY <1>4 DEF StatusAnswered
    <3>2. request[r].sender \in Connects
      BY <2>3, <3>1 DEF RequestsTidy, Tidy, Senders
    <3>3. owner[request[r].sender] \in Owners
      BY <3>2 DEF PageTypeOK
    <3>4. PageRequest
      BY <1>2, <1>3, <2>3, <3>2, <3>3, GotStatusType, OneRequest
    <3> QED BY <1>3, <2>1, <2>3, <3>2, <3>3, <3>4, GotStatusType DEF PageTypeOK, linkVars
  <2> QED BY <1>4, <2>2, <2>3 DEF StatusAnswered
<1>5. CASE StartAnswered(r)
  <2>1. request[r].sender \in Connects
    BY <1>5 DEF StartAnswered
  <2>2. owner[request[r].sender] \in Owners
    BY <2>1 DEF PageTypeOK
  <2>3. /\ Requiring(request[r].sender, owner[request[r].sender], Waiting(request[r].sender))
        /\ status' = "on" /\ request' = Released(r) /\ UNCHANGED <<mixed, disabled>>
    BY <1>5 DEF StartAnswered
  <2>4. PageRequest
    BY <1>2, <1>3, <2>3, OneRequest
  <2> QED BY <1>3, <2>1, <2>2, <2>3, <2>4, RequiringType DEF PageTypeOK, linkVars
<1>6. CASE ConnectRefused(r)
  <2>1. request[r].sender \in Connects
    BY <1>6 DEF ConnectRefused
  <2>2. /\ Refused(request[r].sender, Waiting(request[r].sender))
        /\ request' = Released(r) /\ UNCHANGED <<mixed, status, disabled, loading>>
    BY <1>6 DEF ConnectRefused
  <2>3. PageRequest
    BY <1>2, <1>3, <2>2, OneRequest
  <2> QED BY <1>3, <2>1, <2>2, <2>3, RefusedType DEF PageTypeOK, linkVars
<1>7. CASE OrderAnswered(r)
  <2>1. status' \in {"unknown", "on", "off"}
    BY <1>7 DEF OrderAnswered, PageTypeOK
  <2>2. /\ request' = Released(r)
        /\ UNCHANGED <<mixed, disabled, loading, connecting, phase, place, reply>>
    BY <1>7 DEF OrderAnswered
  <2> QED BY <1>2, <1>3, <2>1, <2>2, OneRequest DEF PageTypeOK, linkVars
<1> QED BY <1>4, <1>5, <1>6, <1>7 DEF AjaxAnswer

LEMMA SocketStep ==
  ASSUME ServerTypeOK, PageTypeOK, NEW i \in Connects,
         Library(i) \/ Welcome(i) \/ OpenFails(i) \/ Close(i)
  PROVE  PageTypeOK' /\ PageRequest
<1>1. UNCHANGED <<serverVars, status, disabled, owner, orders>>
  BY DEF Library, LibraryLoaded, LibraryFails, Welcome, OpenFails, Close, linkVars
<1>2. PageRequest
  BY <1>1, NoRequest
<1>3. /\ {"opening", "stuck", "ready", "closed"} \subseteq Phases
      /\ {"sent", "done"} \subseteq Places /\ "error" \in Replies
  BY DEF Phases, Places, Replies
<1>4. CASE LibraryLoaded(i)
  <2>1. loading' \in BOOLEAN /\ phase' \in [Connects -> Phases] /\ socket' \in Connects \cup {None}
    BY <1>3, <1>4 DEF LibraryLoaded, PageTypeOK
  <2> QED BY <1>1, <1>2, <1>4, <2>1 DEF LibraryLoaded, PageTypeOK
<1>5. CASE LibraryFails(i)
  <2>1. Refused(i, Waiting(i)) /\ UNCHANGED <<loading, linkVars>>
    BY <1>5 DEF LibraryFails
  <2> QED BY <1>1, <1>2, <2>1, RefusedType DEF PageTypeOK, linkVars
<1>6. CASE Welcome(i)
  <2>1. peer' \in [Connects -> Pids \cup {NoPid}]
    BY <1>6 DEF Welcome, Listening, PageTypeOK
  <2>2. phase' \in [Connects -> Phases] /\ connecting' \in [Owners -> Connects \cup {None}]
    BY <1>3, <1>6 DEF Welcome, PageTypeOK
  <2>3. [at |-> "sent", of |-> i] \in [at : Places, of : Connects \cup {None}]
    BY <1>3
  <2>4. place' \in [Messages -> [at : Places, of : Connects \cup {None}]]
    BY <1>6, <2>3 DEF Welcome, PageTypeOK
  <2> QED BY <1>1, <1>2, <1>6, <2>1, <2>2, <2>4 DEF Welcome, PageTypeOK
<1>7. CASE OpenFails(i)
  <2>1. phase' \in [Connects -> Phases] /\ connecting' \in [Owners -> Connects \cup {None}]
    BY <1>3, <1>7 DEF OpenFails, PageTypeOK
  <2>2. place' \in [Messages -> [at : Places, of : Connects \cup {None}]]
    BY <1>3, <1>7, MovedType DEF OpenFails
  <2>3. reply' \in [Messages -> Replies \cup {"none"}]
    BY <1>3, <1>7, RepliedType DEF OpenFails
  <2> QED BY <1>1, <1>2, <1>7, <2>1, <2>2, <2>3 DEF OpenFails, PageTypeOK, linkVars
<1>8. CASE Close(i)
  <2>1. phase' \in [Connects -> Phases] /\ peer' \in [Connects -> Pids \cup {NoPid}]
    BY <1>3, <1>8 DEF Close, PageTypeOK
  <2> QED BY <1>1, <1>2, <1>8, <2>1 DEF Close, PageTypeOK
<1> QED BY <1>4, <1>5, <1>6, <1>7, <1>8 DEF Library

(* Whatever the page does, the processes and the file are as before, and so  *)
(* are the requests that meddle but for one that begins.                     *)
LEMMA PageKeeps ==
  ASSUME ServerTypeOK, RequestsTidy, Safe, PageRequest
  PROVE  ServerTypeOK' /\ RequestsTidy' /\ Safe'
<1>1. PICK reqs \in [Requests -> RequestRecords] :
        /\ Left(reqs)
        /\ \/ request' = reqs /\ mixed' = mixed
           \/ \E kind \in Kinds, sender \in Senders : Begin(reqs, kind, sender)
  BY DEF PageRequest
<1>2. UNCHANGED <<config, process, pidFile, faults>>
  BY DEF PageRequest
<1>3. /\ Tidy(reqs)
      /\ \A r \in Requests : reqs[r] = request[r] \/ (reqs[r].step = "none" /\ request[r].step = "none")
  BY <1>1, LeftTidy
<1>4. CASE request' = reqs /\ mixed' = mixed
  <2>1. \A r \in Requests : request'[r] = request[r] \/ request'[r].step = "none"
    BY <1>3, <1>4
  <2>2. ServerTypeOK'
    BY <1>2, <1>4 DEF ServerTypeOK
  <2>3. RequestsTidy'
    BY <1>3, <1>4 DEF RequestsTidy, Tidy
  <2>4. ASSUME Alone PROVE Alone'
    <3>1. Meddling' \subseteq Meddling
      BY <2>1 DEF Meddling
    <3>2. \A p \in Pids : Alive(p)' <=> Alive(p)
      BY <1>2 DEF Alive
    <3>3. \A r \in Requests : request[r].step = "write" => request'[r] = request[r]
      BY <1>3, <1>4
    <3> QED BY <1>2, <2>1, <2>4, <3>1, <3>2, <3>3 DEF Alone
  <2> QED BY <1>4, <2>2, <2>3, <2>4 DEF Safe
<1>5. ASSUME NEW kind \in Kinds, NEW sender \in Senders, Begin(reqs, kind, sender)
      PROVE  ServerTypeOK' /\ RequestsTidy' /\ Safe'
  <2>1. mixed \in BOOLEAN
    BY DEF ServerTypeOK
  <2>2. /\ request' \in [Requests -> RequestRecords]
        /\ Tidy(request')
        /\ mixed' = (mixed \/ (kind # "status" /\ Busy))
    BY <1>3, <1>5, <2>1, BeginStep
  <2>3. PICK s \in Requests :
          /\ reqs[s].step = "none"
          /\ \A r \in Requests \ {s} : request'[r] = reqs[r]
          /\ request'[s].step = First(kind)
    BY <1>3, <1>5, <2>1, BeginStep
  <2>4. ServerTypeOK'
    BY <1>2, <2>1, <2>2 DEF ServerTypeOK
  <2>5. RequestsTidy'
    BY <2>2 DEF RequestsTidy, Tidy
  <2>6. First(kind) \notin {"launch", "clear", "write"} /\ (kind = "status" => First(kind) = "report")
    BY DEF First, Kinds
  <2>7. ASSUME ~mixed', Alone PROVE Alone'
    <3>1. \A r \in Requests \ {s} : request'[r] = request[r] \/ request'[r].step = "none"
      BY <1>3, <2>3
    <3>2. Meddling' \subseteq Meddling \cup {s} /\ (Meddling = {} \/ Meddling' \subseteq Meddling)
      BY <2>2, <2>3, <2>6, <2>7, <3>1 DEF Meddling, Busy
    <3>7. \A p \in Pids : process'[p] = "called" => Meddling' = {}
      <4> SUFFICES ASSUME NEW p \in Pids, process[p] = "called" PROVE Meddling' = {}
        BY <1>2
      <4>1. Meddling = {}
        BY <2>7 DEF Alone
      <4>2. kind = "status"
        BY <2>2, <2>7 DEF Busy
      <4> QED BY <2>3, <2>6, <3>2, <4>1, <4>2 DEF Meddling
    <3>3. \A r, t \in Meddling' : r = t
      BY <2>7, <3>2 DEF Alone
    <3>4. \A p \in Pids : Alive(p)' <=> Alive(p)
      BY <1>2 DEF Alive
    <3>5. \A r \in Requests : request[r].step = "write" => request'[r] = request[r]
      BY <1>3, <2>3
    <3>6. \A r \in Requests : request'[r].step \in {"launch", "clear", "write"} => request'[r] = request[r]
      BY <2>3, <2>6, <3>1
    <3> QED BY <1>2, <2>7, <3>3, <3>4, <3>5, <3>6, <3>7 DEF Alone
  <2> QED BY <2>2, <2>4, <2>5, <2>7 DEF Safe
<1> QED BY <1>1, <1>4, <1>5

-----------------------------------------------------------------------------
(* The steps of the requests and of the processes. *)

(* A request that ends, and one that goes on. *)
LEMMA EndStep ==
  ASSUME ServerTypeOK, RequestsTidy, NEW r \in Requests, request[r].kind # "none",
         NEW outcome \in Outcomes, End(r, outcome)
  PROVE  /\ request' \in [Requests -> RequestRecords]
         /\ RequestsTidy'
         /\ \A s \in Requests \ {r} : request'[s] = request[s]
         /\ request'[r].step = "none"
<1> DEFINE new == Record(request[r].kind, request[r].sender, "none", outcome)
<1>1. request[r] \in RequestRecords
  BY DEF ServerTypeOK
<1>2. new \in RequestRecords
  BY <1>1 DEF Record, RequestRecords, Steps, NoPid
<1>3. new.step = "none" /\ new.kind = request[r].kind /\ new.sender = request[r].sender
  BY DEF Record
<1>4. request' = [request EXCEPT ![r] = new]
  BY DEF End
<1> HIDE DEF new
<1>5. request' \in [Requests -> RequestRecords]
  BY <1>2, <1>4 DEF ServerTypeOK
<1>6. request'[r] = new /\ \A s \in Requests \ {r} : request'[s] = request[s]
  BY <1>4 DEF ServerTypeOK
<1>7. RequestsTidy'
  BY <1>3, <1>6 DEF RequestsTidy, Tidy
<1> QED BY <1>3, <1>5, <1>6, <1>7

LEMMA GotoStep ==
  ASSUME ServerTypeOK, RequestsTidy, NEW r \in Requests, request[r].step # "none",
         NEW step \in Steps, Goto(r, step)
  PROVE  /\ request' \in [Requests -> RequestRecords]
         /\ RequestsTidy'
         /\ \A s \in Requests \ {r} : request'[s] = request[s]
         /\ request'[r].step = step
<1> DEFINE new == [request[r] EXCEPT !.step = step]
<1>1. request[r] \in RequestRecords
  BY DEF ServerTypeOK
<1>2. new \in RequestRecords /\ new.step = step /\ new.kind = request[r].kind
      /\ new.sender = request[r].sender /\ new.outcome = request[r].outcome
  BY <1>1 DEF RequestRecords
<1>3. request' = [request EXCEPT ![r] = new]
  BY DEF Goto
<1> HIDE DEF new
<1>4. request' \in [Requests -> RequestRecords]
  BY <1>2, <1>3 DEF ServerTypeOK
<1>5. request'[r] = new /\ \A s \in Requests \ {r} : request'[s] = request[s]
  BY <1>3 DEF ServerTypeOK
<1>6. RequestsTidy'
  BY <1>2, <1>5 DEF RequestsTidy, Tidy
<1> QED BY <1>2, <1>4, <1>5, <1>6

(* A request steps, and neither the file nor the processes change: all that  *)
(* is to be shown is what its new step says of the processes.                *)
LEMMA QuietStep ==
  ASSUME ServerTypeOK, Safe, NEW r \in Requests,
         \A s \in Requests \ {r} : request'[s] = request[s],
         request[r].step # "write", request'[r].step # "write",
         r \in Meddling \/ request'[r].step = "none",
         UNCHANGED <<config, process, pidFile, mixed>>,
         Alone /\ request'[r].step \in {"launch", "clear"} => \A p \in Pids : ~Alive(p)
  PROVE  Safe'
<1> SUFFICES ASSUME Alone PROVE Alone'
  BY DEF Safe
<1>1. Meddling' \subseteq Meddling
  BY DEF Meddling
<1>2. \A p \in Pids : Alive(p)' <=> Alive(p)
  BY DEF Alive
<1>3. \A s \in Requests : request[s].step = "write" => request'[s] = request[s]
  OBVIOUS
<1>4. \A s \in Requests : request'[s].step = "write" => request'[s] = request[s]
  OBVIOUS
<1>5. \A s \in Requests : request'[s].step \in {"launch", "clear"} => \A p \in Pids : ~Alive(p)
  BY DEF Alone
<1> QED BY <1>1, <1>2, <1>3, <1>4, <1>5 DEF Alone

LEMMA NotAPid == NoPid \notin Pids
BY ServerAssumption DEF Pids, NoPid

(* Only one that meddles is there. *)
LEMMA OnlyOne ==
  ASSUME Alone, NEW r \in Requests, request[r].step \notin {"none", "report"},
         NEW s \in Requests, s # r
  PROVE  request[s].step \in {"none", "report"}
BY DEF Alone, Meddling

LEMMA CheckSteps ==
  ASSUME ServerTypeOK, RequestsTidy, Safe, NEW r \in Requests,
         Report(r) \/ Choose(r) \/ CheckStop(r) \/ CheckStart(r)
  PROVE  ServerTypeOK' /\ RequestsTidy' /\ Safe'
<1>1. /\ UNCHANGED <<config, faults, process, pidFile, mixed>>
      /\ request[r].step \in {"report", "choose", "check stop", "check start"}
      /\ \/ \E outcome \in Outcomes : End(r, outcome)
         \/ /\ request[r].step # "report"
            /\ \E step \in {"check stop", "check start", "kill"} : Goto(r, step)
         \/ /\ request[r].step = "check start"
            /\ ~IsServerStarted
            /\ Goto(r, "launch")
  <2>1. {"on", "off", "failed"} \subseteq Outcomes
    BY DEF Outcomes
  <2> QED BY <2>1 DEF Report, Choose, CheckStop, CheckStart, Refuse
<1>2. request[r].kind # "none"
  BY <1>1 DEF RequestsTidy, Tidy
<1>3. CASE \E outcome \in Outcomes : End(r, outcome)
  <2>1. /\ request' \in [Requests -> RequestRecords]
        /\ RequestsTidy'
        /\ \A s \in Requests \ {r} : request'[s] = request[s]
        /\ request'[r].step = "none"
    BY <1>2, <1>3, EndStep
  <2>2. Safe'
    BY <1>1, <2>1, QuietStep
  <2> QED BY <1>1, <2>1, <2>2 DEF ServerTypeOK
<1>4. ASSUME NEW step \in {"check stop", "check start", "kill", "launch"}, Goto(r, step),
             request[r].step # "report",
             step = "launch" => request[r].step = "check start" /\ ~IsServerStarted
      PROVE  ServerTypeOK' /\ RequestsTidy' /\ Safe'
  <2>1. step \in Steps
    BY <1>4 DEF Steps
  <2>2. /\ request' \in [Requests -> RequestRecords]
        /\ RequestsTidy'
        /\ \A s \in Requests \ {r} : request'[s] = request[s]
        /\ request'[r].step = step
    BY <1>1, <1>4, <2>1, GotoStep
  <2>3. r \in Meddling
    BY <1>1, <1>4 DEF Meddling
  <2>4. ASSUME Alone, step = "launch" PROVE \A p \in Pids : ~Alive(p)
    <3> SUFFICES ASSUME NEW p \in Pids, Alive(p) PROVE FALSE
      OBVIOUS
    <3>1. \A s \in Requests : request[s].step # "write"
      BY <1>1, <1>4, <2>4, OnlyOne
    <3>2. pidFile = p
      BY <2>4, <2>3, <3>1 DEF Alone
    <3>3. p # NoPid
      BY NotAPid
    <3> QED BY <1>4, <2>4, <3>2, <3>3 DEF IsServerStarted
  <2>5. Safe'
    BY <1>1, <1>4, <2>2, <2>3, <2>4, QuietStep
  <2> QED BY <1>1, <2>2, <2>5 DEF ServerTypeOK
<1> QED BY <1>1, <1>3, <1>4

LEMMA KillStep ==
  ASSUME ServerTypeOK, RequestsTidy, Safe, NEW r \in Requests, Kill(r)
  PROVE  ServerTypeOK' /\ RequestsTidy' /\ Safe'
<1>1. request[r].step = "kill" /\ UNCHANGED <<config, pidFile>>
  BY DEF Kill
<1>2. request[r].kind # "none"
  BY <1>1 DEF RequestsTidy, Tidy
<1>3. r \in Meddling
  BY <1>1 DEF Meddling
<1>4. CASE Refuse(r) /\ UNCHANGED <<process, mixed, faults>>
  <2>1. End(r, "failed") /\ "failed" \in Outcomes
    BY <1>4 DEF Refuse, Outcomes
  <2>2. /\ request' \in [Requests -> RequestRecords]
        /\ RequestsTidy'
        /\ \A s \in Requests \ {r} : request'[s] = request[s]
        /\ request'[r].step = "none"
    BY <1>2, <2>1, EndStep
  <2>3. Safe'
    BY <1>1, <1>3, <1>4, <2>2, QuietStep
  <2> QED BY <1>1, <1>4, <2>2, <2>3 DEF ServerTypeOK
<1>5. CASE pidFile # NoPid /\ request' = [request EXCEPT ![r].step = "clear", ![r].held = pidFile]
  <2> DEFINE new == [request[r] EXCEPT !.step = "clear", !.held = pidFile]
  <2>1. pidFile \in Pids /\ request[r] \in RequestRecords /\ request[r].outcome = "none"
    BY <1>1, <1>5 DEF ServerTypeOK, RequestsTidy, Tidy
  <2>2. /\ new \in RequestRecords /\ new.step = "clear"
        /\ new.kind = request[r].kind /\ new.sender = request[r].sender /\ new.outcome = "none"
    BY <2>1 DEF RequestRecords, Steps
  <2>3. request' = [request EXCEPT ![r] = new]
    BY <1>5 DEF ServerTypeOK, RequestRecords
  <2> HIDE DEF new
  <2>4. /\ request' \in [Requests -> RequestRecords]
        /\ request'[r] = new
        /\ \A s \in Requests \ {r} : request'[s] = request[s]
    BY <2>2, <2>3 DEF ServerTypeOK
  <2>5. RequestsTidy'
    BY <1>2, <2>2, <2>4 DEF RequestsTidy, Tidy
  <2>6. CASE process' = [process EXCEPT ![pidFile] = "dead"] /\ UNCHANGED <<mixed, faults>>
    <3>1. process' \in [Pids -> States]
      BY <2>6 DEF ServerTypeOK, States
    <3>2. ASSUME Alone PROVE Alone'
      <4>1. \A s \in Requests : request[s].step # "write"
        BY <1>1, <3>2, OnlyOne
      <4>2. \A p \in Pids : Alive(p) => p = pidFile
        BY <1>3, <3>2, <4>1 DEF Alone
      <4>3. \A p \in Pids : ~Alive(p)'
        BY <2>1, <2>6, <4>2 DEF Alive, ServerTypeOK
      <4>4. Meddling' \subseteq Meddling
        BY <1>3, <2>4 DEF Meddling
      <4>5. \A s \in Requests : request'[s].step # "write"
        BY <2>2, <2>4, <4>1
      <4>6. \A p \in Pids : process'[p] # "called"
        BY <4>3 DEF Alive
      <4>7. \A s, t \in Meddling' : s = t
        BY <3>2, <4>4 DEF Alone
      <4> QED BY <4>3, <4>5, <4>6, <4>7 DEF Alone
    <3> QED BY <1>1, <2>4, <2>5, <2>6, <3>1, <3>2 DEF ServerTypeOK, Safe
  <2>7. CASE mixed' = TRUE /\ Fault /\ UNCHANGED process
    <3>1. faults' \in 0 .. MaxFaults
      BY <2>7, ServerAssumption DEF Fault, ServerTypeOK
    <3> QED BY <1>1, <2>4, <2>5, <2>7, <3>1 DEF ServerTypeOK, Safe
  <2> QED BY <2>6, <2>7, <1>5 DEF Kill
<1> QED BY <1>4, <1>5 DEF Kill

(* The steps after which the file is another one: nothing is alive, or what  *)
(* is alive is what is written there.                                        *)
LEMMA FileStep ==
  ASSUME ServerTypeOK, RequestsTidy, Safe, NEW r \in Requests, Clear(r) \/ Write(r)
  PROVE  ServerTypeOK' /\ RequestsTidy' /\ Safe'
<1>1. /\ UNCHANGED <<config, faults, process, mixed>>
      /\ request[r].step \in {"clear", "write"}
      /\ End(r, "done") \/ Goto(r, "check start")
      /\ pidFile' = IF request[r].step = "clear" THEN NoPid ELSE request[r].held
  BY DEF Clear, Write
<1>2. request[r].kind # "none" /\ request[r] \in RequestRecords
  BY <1>1 DEF RequestsTidy, Tidy, ServerTypeOK
<1>3. /\ request' \in [Requests -> RequestRecords]
      /\ RequestsTidy'
      /\ \A s \in Requests \ {r} : request'[s] = request[s]
      /\ request'[r].step \in {"none", "check start"}
  <2>1. "done" \in Outcomes /\ "check start" \in Steps
    BY DEF Outcomes, Steps
  <2>2. CASE End(r, "done")
    BY <1>2, <2>1, <2>2, EndStep
  <2>3. CASE Goto(r, "check start")
    BY <1>1, <2>1, <2>3, GotoStep
  <2> QED BY <1>1, <2>2, <2>3
<1>4. pidFile' \in Pids \cup {NoPid}
  BY <1>1, <1>2 DEF RequestRecords
<1>5. ASSUME Alone PROVE Alone'
  <2>1. \A s \in Requests : request'[s].step \notin {"launch", "clear", "write"}
    BY <1>1, <1>3, <1>5, OnlyOne
  <2>2. \A p \in Pids : Alive(p)' <=> Alive(p)
    BY <1>1 DEF Alive
  <2>3. \A p \in Pids : Alive(p) => pidFile' = p
    BY <1>1, <1>5 DEF Alone
  <2>4. Meddling' \subseteq Meddling /\ r \in Meddling
    BY <1>1, <1>3 DEF Meddling
  <2>5. \A p \in Pids : process'[p] # "called"
    BY <1>1, <1>5, <2>4 DEF Alone
  <2>6. \A s, t \in Meddling' : s = t
    BY <1>5, <2>4 DEF Alone
  <2> QED BY <2>1, <2>2, <2>3, <2>5, <2>6 DEF Alone
<1> QED BY <1>1, <1>3, <1>4, <1>5 DEF ServerTypeOK, Safe

LEMMA LaunchStep ==
  ASSUME ServerTypeOK, RequestsTidy, Safe, NEW r \in Requests, Launch(r)
  PROVE  ServerTypeOK' /\ RequestsTidy' /\ Safe'
<1>1. request[r].step = "launch" /\ UNCHANGED <<config, faults, pidFile, mixed>>
  BY DEF Launch
<1>2. request[r].kind # "none" /\ request[r].outcome = "none" /\ request[r] \in RequestRecords
  BY <1>1 DEF RequestsTidy, Tidy, ServerTypeOK
<1>3. r \in Meddling
  BY <1>1 DEF Meddling
<1>4. CASE Refuse(r) /\ UNCHANGED process
  <2>1. End(r, "failed") /\ "failed" \in Outcomes
    BY <1>4 DEF Refuse, Outcomes
  <2>2. /\ request' \in [Requests -> RequestRecords]
        /\ RequestsTidy'
        /\ \A s \in Requests \ {r} : request'[s] = request[s]
        /\ request'[r].step = "none"
    BY <1>2, <2>1, EndStep
  <2>3. Safe'
    BY <1>1, <1>3, <1>4, <2>2, QuietStep
  <2> QED BY <1>1, <1>4, <2>2, <2>3 DEF ServerTypeOK
<1>5. CASE Unborn # {}
           /\ process' = [process EXCEPT ![CHOOSE q \in Unborn : TRUE] = "started"]
           /\ request' = [request EXCEPT ![r].step = "write", ![r].held = CHOOSE q \in Unborn : TRUE]
  <2> DEFINE p == CHOOSE q \in Unborn : TRUE
             new == [request[r] EXCEPT !.step = "write", !.held = p]
  <2>1. p \in Pids
    BY <1>5 DEF Unborn
  <2> HIDE DEF p
  <2>2. /\ new \in RequestRecords /\ new.step = "write" /\ new.held = p
        /\ new.kind = request[r].kind /\ new.sender = request[r].sender /\ new.outcome = "none"
    BY <1>2, <2>1 DEF RequestRecords, Steps
  <2>3. request' = [request EXCEPT ![r] = new]
    BY <1>2, <1>5 DEF ServerTypeOK, RequestRecords, p
  <2> HIDE DEF new
  <2>4. /\ request' \in [Requests -> RequestRecords]
        /\ request'[r] = new
        /\ \A s \in Requests \ {r} : request'[s] = request[s]
    BY <2>2, <2>3 DEF ServerTypeOK
  <2>5. RequestsTidy'
    BY <1>2, <2>2, <2>4 DEF RequestsTidy, Tidy
  <2>6. process' = [process EXCEPT ![p] = "started"]
    BY <1>5 DEF p
  <2>7. process' \in [Pids -> States]
    BY <2>6 DEF ServerTypeOK, States
  <2>8. ASSUME Alone PROVE Alone'
    <3>1. \A q \in Pids : ~Alive(q)
      BY <1>1, <2>8 DEF Alone
    <3>2. \A q \in Pids : Alive(q)' => q = p
      BY <2>6, <3>1 DEF Alive, ServerTypeOK
    <3>3. process'[p] = "started"
      BY <2>1, <2>6 DEF ServerTypeOK
    <3>4. \A s \in Requests \ {r} : request'[s].step \in {"none", "report"}
      BY <1>1, <2>4, <2>8, OnlyOne
    <3>5. Meddling' \subseteq Meddling
      BY <1>3, <2>4 DEF Meddling
    <3>6. \A q \in Pids : process'[q] # "called"
      BY <3>2, <3>3 DEF Alive
    <3> QED BY <2>2, <2>4, <2>8, <3>2, <3>3, <3>4, <3>5, <3>6 DEF Alone
  <2> QED BY <1>1, <2>4, <2>5, <2>7, <2>8 DEF ServerTypeOK, Safe
<1> QED BY <1>4, <1>5 DEF Launch

(* A request is killed, or its answer is lost. *)
LEMMA DieStep ==
  ASSUME ServerTypeOK, RequestsTidy, Safe, NEW r \in Requests, Die(r)
  PROVE  ServerTypeOK' /\ RequestsTidy' /\ Safe'
<1>1. /\ UNCHANGED <<config, process, pidFile>>
      /\ r \in Meddling \/ request[r].outcome # "none"
      /\ End(r, "failed") /\ "failed" \in Outcomes
      /\ mixed' = (mixed \/ r \in Meddling)
      /\ faults < MaxFaults /\ faults' = faults + 1
  BY DEF Die, Refuse, Fault, Outcomes
<1>2. request[r].kind # "none"
  BY <1>1 DEF RequestsTidy, Tidy, Meddling
<1>3. /\ request' \in [Requests -> RequestRecords]
      /\ RequestsTidy'
      /\ \A s \in Requests \ {r} : request'[s] = request[s]
      /\ request'[r].step = "none"
  BY <1>1, <1>2, EndStep
<1>4. faults' \in 0 .. MaxFaults
  BY <1>1, ServerAssumption DEF ServerTypeOK
<1>5. mixed' \in BOOLEAN
  BY <1>1 DEF ServerTypeOK
<1>6. ASSUME ~mixed' PROVE Alone'
  <2>1. ~mixed /\ r \notin Meddling
    BY <1>1, <1>6 DEF ServerTypeOK
  <2>2. mixed' = mixed
    BY <1>5, <1>6, <2>1 DEF ServerTypeOK
  <2>3. request[r].step # "write"
    BY <2>1 DEF Meddling
  <2>4. Safe'
    BY <1>1, <1>3, <2>2, <2>3, QuietStep
  <2> QED BY <1>6, <2>4 DEF Safe
<1> QED BY <1>1, <1>3, <1>4, <1>5, <1>6 DEF ServerTypeOK, Safe

(* A server is run by hand: nothing else is going on, or anything may.       *)
LEMMA RunStep ==
  ASSUME ServerTypeOK, RequestsTidy, Safe, Run
  PROVE  ServerTypeOK' /\ RequestsTidy' /\ Safe'
<1> DEFINE p == CHOOSE q \in Unborn : TRUE
<1>1. /\ p \in Pids
      /\ process' = [process EXCEPT ![p] = "called"]
      /\ mixed' = (mixed \/ Meddling # {} \/ (\E q \in Pids : Alive(q)) \/ ~config.posix)
      /\ UNCHANGED <<config, pidFile, request>>
  BY DEF Run, Unborn
<1> HIDE DEF p
<1>2. faults' \in 0 .. MaxFaults
  BY ServerAssumption DEF Run, Fault, ServerTypeOK
<1>3. process'[p] = "called" /\ \A q \in Pids \ {p} : process'[q] = process[q]
  BY <1>1 DEF ServerTypeOK
<1>4. ServerTypeOK'
  <2>1. process' \in [Pids -> States]
    BY <1>1 DEF ServerTypeOK, States
  <2>2. mixed' \in BOOLEAN
    BY <1>1 DEF ServerTypeOK
  <2> QED BY <1>1, <1>2, <2>1, <2>2 DEF ServerTypeOK
<1>5. RequestsTidy'
  BY <1>1 DEF RequestsTidy, Tidy
<1>6. ASSUME ~mixed' PROVE Alone'
  <2>1. Meddling = {} /\ config.posix /\ \A q \in Pids : ~Alive(q)
    BY <1>1, <1>6
  <2>2. Meddling' = {}
    BY <1>1, <2>1 DEF Meddling
  <2>3. \A q \in Pids : Alive(q)' => q = p
    BY <1>3, <2>1 DEF Alive
  <2>4. \A r \in Requests : request'[r].step \in {"none", "report"}
    BY <2>2 DEF Meddling
  <2> QED BY <1>1, <1>3, <2>1, <2>2, <2>3, <2>4 DEF Alone
<1> QED BY <1>4, <1>5, <1>6 DEF Safe

(* The processes: no other one comes to life, and one that is listening has  *)
(* written the file, if it can.                                              *)
LEMMA ProcessStep ==
  ASSUME ServerTypeOK, RequestsTidy, Safe, NEW p \in Pids, Boot(p) \/ Bind(p) \/ Crash(p)
  PROVE  ServerTypeOK' /\ RequestsTidy' /\ Safe'
<1>1. UNCHANGED <<config, request, mixed>>
  BY DEF Boot, Bind, Crash
<1>2. /\ Alive(p)
      /\ process' \in [Pids -> States]
      /\ \A q \in Pids \ {p} : process'[q] = process[q]
      /\ process'[p] \notin {"started", "called"}
      /\ faults' \in 0 .. MaxFaults
      /\ pidFile' = p \/ (/\ pidFile' = pidFile
                         /\ \/ process[p] \notin {"started", "called"}
                            \/ process'[p] = "dead"
                            \/ ~config.posix)
  <2>1. CASE Boot(p)
    <3>1. process' \in [Pids -> States]
      BY <2>1 DEF Boot, ServerTypeOK, States
    <3> QED BY <2>1, <3>1 DEF Boot, Alive, ServerTypeOK
  <2>2. CASE Bind(p)
    BY <2>2 DEF Bind, Alive, ServerTypeOK, States
  <2>3. CASE Crash(p)
    <3>1. faults' \in 0 .. MaxFaults
      BY <2>3, ServerAssumption DEF Crash, Fault, ServerTypeOK
    <3> QED BY <2>3, <3>1 DEF Crash, Alive, ServerTypeOK, States
  <2> QED BY <2>1, <2>2, <2>3
<1>3. ServerTypeOK'
  BY <1>1, <1>2 DEF ServerTypeOK
<1>4. RequestsTidy'
  BY <1>1 DEF RequestsTidy, Tidy
<1>5. ASSUME Alone PROVE Alone'
  <2>1. \A q \in Pids : Alive(q) => q = p
    BY <1>2, <1>5 DEF Alone
  <2>2. \A q \in Pids : Alive(q)' => q = p /\ Alive(q)
    BY <1>2, <2>1 DEF Alive
  <2>3. ASSUME Alive(p)'
        PROVE  \/ pidFile' = p
               \/ ~config.posix /\ \E r \in Requests : request[r].step = "write" /\ request[r].held = p
    <3>1. \/ pidFile = p
          \/ /\ process[p] = "started" \/ ~config.posix
             /\ \E r \in Requests : request[r].step = "write" /\ request[r].held = p
          \/ process[p] = "called" /\ config.posix
      BY <1>2, <1>5 DEF Alone
    <3>2. process'[p] # "dead"
      BY <2>3 DEF Alive
    <3> QED BY <1>2, <3>1, <3>2
  <2>4. Meddling' = Meddling
    BY <1>1 DEF Meddling
  <2>5. \A q \in Pids : process'[q] = "called" => process[q] = "called"
    BY <1>2
  <2> QED BY <1>1, <1>5, <2>2, <2>3, <2>4, <2>5 DEF Alone
<1> QED BY <1>1, <1>3, <1>4, <1>5 DEF Safe

-----------------------------------------------------------------------------
LEMMA NextInv == IInv /\ [Next]_vars => IInv'
<1> SUFFICES ASSUME IInv, [Next]_vars PROVE IInv'
  OBVIOUS
<1>1. ServerTypeOK /\ PageTypeOK /\ RequestsTidy /\ Safe
  BY DEF IInv
<1>2. CASE UNCHANGED vars
  <2>1. UNCHANGED serverVars /\ UNCHANGED pageVars
    BY <1>2 DEF vars
  <2>2. PageTypeOK'
    BY <1>1, <2>1 DEF pageVars, PageTypeOK
  <2> QED BY <1>1, <2>1, <2>2, NoRequest, PageKeeps DEF IInv
<1>3. ASSUME PageTypeOK' /\ PageRequest PROVE IInv'
  BY <1>1, <1>3, PageKeeps DEF IInv
<1>4. CASE Supports \/ Subscribe
  BY <1>1, <1>3, <1>4, SupportsStep
<1>5. ASSUME NEW m \in Messages, Send(m) \/ Carry(m) PROVE IInv'
  BY <1>1, <1>3, <1>5, SendStep, CarryStep
<1>6. ASSUME NEW k \in PanelOrders \cup OtherOrders, Order(k, Panel) \/ Order(k, Elsewhere)
      PROVE  IInv'
  BY <1>1, <1>3, <1>6, OrderStep, PageAssumption
<1>7. ASSUME NEW r \in Requests, AjaxAnswer(r) PROVE IInv'
  BY <1>1, <1>3, <1>7, AnswerStep
<1>8. ASSUME NEW i \in Connects, Library(i) \/ Welcome(i) \/ OpenFails(i) \/ Close(i) PROVE IInv'
  BY <1>1, <1>3, <1>8, SocketStep
<1>9. CASE ServerStep /\ UNCHANGED pageVars
  <2>1. PageTypeOK'
    BY <1>1, <1>9 DEF pageVars, PageTypeOK
  <2>2. ASSUME NEW r \in Requests, Step(r) \/ Die(r)
        PROVE  ServerTypeOK' /\ RequestsTidy' /\ Safe'
    BY <1>1, <2>2, CheckSteps, KillStep, FileStep, LaunchStep, DieStep DEF Step
  <2>3. ASSUME NEW p \in Pids, Boot(p) \/ Bind(p) \/ Crash(p)
        PROVE  ServerTypeOK' /\ RequestsTidy' /\ Safe'
    BY <1>1, <2>3, ProcessStep
  <2>4. CASE Run
    BY <1>1, <2>1, <2>4, RunStep DEF IInv
  <2> QED BY <1>9, <2>1, <2>2, <2>3, <2>4 DEF ServerStep, IInv
<1> QED BY <1>2, <1>4, <1>5, <1>6, <1>7, <1>8, <1>9 DEF Next

LEMMA Invariant == Spec => []IInv
BY InitInv, NextInv, PTL DEF Spec

(* Every reachable state of the page, the requests and the processes is well *)
(* typed: of the callbacks of connect() none takes an error for a status.    *)
THEOREM TypesKept == Spec => []TypeOK
<1>1. IInv => TypeOK
  BY TypeParts DEF IInv
<1> QED BY <1>1, Invariant, PTL

(* As long as no two starts or stops have overlapped, by requests or by hand, *)
(* and none was left half way, the server that listens is the one the file   *)
(* names, at every step of executeStartServer(), executeStopServer() and     *)
(* executeRestartServer() and of the process that boots, or the one that the *)
(* request is about to write there when the process cannot.                  *)
THEOREM ServerStaysKnown == Spec => []ServerKnown
<1>1. IInv => ServerKnown
  BY DEF IInv, Safe, Alone, ServerKnown, Listening, Alive
<1> QED BY <1>1, Invariant, PTL

-----------------------------------------------------------------------------
(* What connect() gives its callers is an operation (Operation): who listens *)
(* to one hears of each completion once at most, and of the only one.        *)

(* Where an observer will still be called: in the triggers under way, or    *)
(* those that will follow them.                                             *)
Awaiting(f, o) == o \in f.todo \/ (f.outcomeNext /\ Event[o] # "complete")
Pending(o) == {i \in DOMAIN frames : Awaiting(frames[i], o)}
Due(o) == Cardinality(Pending(o)) + (IF o \in timers THEN 1 ELSE 0)

(* A trigger calls who is registered; that of 'complete' calls no other. *)
Triggering(f) ==
  /\ f.todo \subseteq ToSet(registered) /\ f.running \subseteq ToSet(registered)
  /\ f.outcomeNext => \A o \in f.todo : Event[o] = "complete"
Triggered == \A i \in DOMAIN frames : Triggering(frames[i])

(* Nothing happens before the operation completes. *)
Before ==
  /\ completed <=> completions # 0
  /\ completions = 0 => frames = <<>> /\ \A o \in Observers : calls[o] = 0
  /\ completions = 0 => \A o \in ToSet(registered) : o \in observers \cup stopped
  /\ \A o \in Observers \ ToSet(registered) : calls[o] = 0

(* What an observer has heard, and will still hear, is one call for each     *)
(* completion at most.                                                       *)
Numbered == \A o \in ToSet(registered) \ late : calls[o] + Due(o) <= completions

(* Who should hear of the only completion has, or will. *)
Waits(o) ==
  \/ o \in timers
  \/ \E i \in DOMAIN frames : o \in frames[i].todo
  \/ o \in observers /\ Event[o] = Outcome /\ \E i \in DOMAIN frames : frames[i].outcomeNext
Concerned(o) == Event[o] \in {"complete", Outcome} /\ (o \in Once \/ o \in observers)
Told ==
  completions = 1 /\ ~threw =>
    \A o \in ToSet(registered) : Concerned(o) => calls[o] >= 1 \/ o \in stopped \/ Waits(o)

OperationInv == OperationTypeOK /\ Triggered /\ Before /\ Numbered /\ Told

(* The part of a sequence before its last element. *)
LEMMA FrontFacts ==
    ASSUME NEW S, NEW s \in Seq(S), s # <<>>
    PROVE  /\ Front(s) \in Seq(S)
           /\ Len(Front(s)) = Len(s) - 1
           /\ \A i \in 1 .. Len(s) - 1 : Front(s)[i] = s[i]
           /\ Last(s) = s[Len(s)]
           /\ Last(s) \in S
<1> DEFINE n == Len(s) - 1
           t == SubSeq(s, 1, n)
<1>1. n \in Nat /\ Len(s) = n + 1
  BY EmptySeq
<1>2. \A i \in 1 .. n : s[i] \in S
  BY <1>1
<1>3. s[Len(s)] \in S
  BY <1>1
<1>4. Front(s) = t /\ Last(s) = s[Len(s)]
  BY DEF Front, Last
<1> HIDE DEF n
<1>5. /\ t \in Seq(S)
      /\ Len(t) = IF 1 <= n THEN n - 1 + 1 ELSE 0
      /\ \A i \in 1 .. n - 1 + 1 : t[i] = s[1 + i - 1]
  BY <1>1, <1>2, SubSeqProperties
<1> HIDE DEF t
<1>6. Len(t) = n
  BY <1>1, <1>5
<1>7. \A i \in 1 .. n : t[i] = s[i]
  <2> SUFFICES ASSUME NEW i \in 1 .. n PROVE t[i] = s[i]
    OBVIOUS
  <2>1. i \in 1 .. n - 1 + 1 /\ 1 + i - 1 = i
    BY <1>1
  <2> QED BY <1>5, <2>1
<1>8. Len(s) - 1 = n
  BY <1>1
<1> QED BY <1>3, <1>4, <1>5, <1>6, <1>7, <1>8


(* How the triggers change: one comes, goes, or changes, the last one. *)
Topped(f) == /\ DOMAIN frames' = DOMAIN frames
             /\ frames'[Len(frames)] = f
             /\ \A i \in DOMAIN frames : i # Len(frames) => frames'[i] = frames[i]

LEMMA FramePushed ==
    ASSUME frames \in Seq(Frames), NEW f \in Frames, frames' = Append(frames, f)
    PROVE  /\ frames' \in Seq(Frames)
           /\ DOMAIN frames' = DOMAIN frames \cup {Len(frames) + 1}
           /\ Len(frames) + 1 \notin DOMAIN frames
           /\ frames'[Len(frames) + 1] = f
           /\ \A i \in DOMAIN frames : frames'[i] = frames[i]
<1>1. Len(frames) \in Nat /\ DOMAIN frames = 1 .. Len(frames)
  OBVIOUS
<1>2. frames' \in Seq(Frames) /\ Len(frames') = Len(frames) + 1 /\ DOMAIN frames' = 1 .. Len(frames) + 1
  OBVIOUS
<1> QED BY <1>1, <1>2

LEMMA FrameTopped ==
    ASSUME frames \in Seq(Frames), frames # <<>>, NEW f \in Frames,
           frames' = [frames EXCEPT ![Len(frames)] = f]
    PROVE  frames' \in Seq(Frames) /\ Topped(f) /\ Len(frames) \in DOMAIN frames
<1>1. Len(frames) \in DOMAIN frames /\ DOMAIN frames = 1 .. Len(frames)
  BY EmptySeq
<1>2. frames' \in Seq(Frames) /\ Len(frames') = Len(frames)
      /\ \A i \in 1 .. Len(frames) : frames'[i] = IF i = Len(frames) THEN f ELSE frames[i]
  BY <1>1, ExceptSeq
<1>3. DOMAIN frames' = DOMAIN frames
  BY <1>1, <1>2
<1> QED BY <1>1, <1>2, <1>3 DEF Topped

LEMMA FramePopped ==
    ASSUME frames \in Seq(Frames), frames # <<>>, frames' = Front(frames)
    PROVE  /\ frames' \in Seq(Frames)
           /\ DOMAIN frames' = DOMAIN frames \ {Len(frames)}
           /\ \A i \in DOMAIN frames' : i \in DOMAIN frames /\ frames'[i] = frames[i]
<1>1. /\ frames' \in Seq(Frames) /\ Len(frames') = Len(frames) - 1
      /\ \A i \in 1 .. Len(frames) - 1 : frames'[i] = frames[i]
  BY FrontFacts
<1>2. Len(frames) \in Nat \ {0} /\ DOMAIN frames = 1 .. Len(frames)
      /\ DOMAIN frames' = 1 .. Len(frames) - 1
  BY <1>1, EmptySeq
<1> QED BY <1>1, <1>2

(* The innermost trigger. *)
LEMMA LastFrame ==
    ASSUME frames \in Seq(Frames), frames # <<>>
    PROVE  /\ Last(frames) = frames[Len(frames)] /\ Last(frames) \in Frames
           /\ Len(frames) \in DOMAIN frames
<1>1. Len(frames) \in DOMAIN frames
  BY EmptySeq
<1> QED BY <1>1, FrontFacts

(* How many triggers an observer awaits. *)
LEMMA PendingFinite ==
    ASSUME frames \in Seq(Frames), NEW o
    PROVE  IsFiniteSet(Pending(o)) /\ Cardinality(Pending(o)) \in Nat
<1>1. DOMAIN frames = 1 .. Len(frames) /\ Len(frames) \in Nat
  OBVIOUS
<1>2. IsFiniteSet(1 .. Len(frames))
  BY <1>1, FS_Interval
<1>3. Pending(o) \subseteq 1 .. Len(frames)
  BY <1>1 DEF Pending
<1> QED BY <1>2, <1>3, FS_Subset, FS_CardinalityType

LEMMA PendingFewer ==
    ASSUME frames \in Seq(Frames), NEW o, Pending(o)' \subseteq Pending(o)
    PROVE  Cardinality(Pending(o)') <= Cardinality(Pending(o))
BY PendingFinite, FS_Subset

LEMMA PendingLess ==
    ASSUME frames \in Seq(Frames), NEW o, NEW i \in Pending(o), Pending(o)' \subseteq Pending(o) \ {i}
    PROVE  Cardinality(Pending(o)') + 1 <= Cardinality(Pending(o))
<1> DEFINE P == Pending(o)  Q == Pending(o)'
<1>1. IsFiniteSet(P) /\ i \in P /\ Q \subseteq P \ {i} /\ Cardinality(P) \in Nat
  BY PendingFinite
<1> HIDE DEF P, Q
<1>2. IsFiniteSet(P \ {i}) /\ Cardinality(P \ {i}) = Cardinality(P) - 1
  BY <1>1, FS_RemoveElement
<1>3. Cardinality(Q) <= Cardinality(P \ {i}) /\ IsFiniteSet(Q)
  BY <1>1, <1>2, FS_Subset
<1>4. Cardinality(Q) \in Nat
  BY <1>3, FS_CardinalityType
<1> QED BY <1>1, <1>2, <1>3, <1>4 DEF P, Q

LEMMA PendingMore ==
    ASSUME frames \in Seq(Frames), NEW o, NEW i, i \notin Pending(o), Pending(o)' \subseteq Pending(o) \cup {i}
    PROVE  Cardinality(Pending(o)') <= Cardinality(Pending(o)) + 1
<1> DEFINE P == Pending(o)  Q == Pending(o)'
<1>1. IsFiniteSet(P) /\ i \notin P /\ Q \subseteq P \cup {i} /\ Cardinality(P) \in Nat
  BY PendingFinite
<1> HIDE DEF P, Q
<1>2. IsFiniteSet(P \cup {i}) /\ Cardinality(P \cup {i}) = Cardinality(P) + 1
  BY <1>1, FS_AddElement
<1>3. Cardinality(Q) <= Cardinality(P \cup {i})
  BY <1>1, <1>2, FS_Subset
<1> QED BY <1>1, <1>2, <1>3 DEF P, Q

(* One observer more. *)
LEMMA MoreRegistered ==
    ASSUME registered \in Seq(Observers), NEW o \in Observers, registered' = Append(registered, o)
    PROVE  /\ registered' \in Seq(Observers)
           /\ ToSet(registered)' = ToSet(registered) \cup {o}
<1>1. /\ registered' \in Seq(Observers) /\ Len(registered) \in Nat
      /\ DOMAIN registered = 1 .. Len(registered)
      /\ DOMAIN registered' = DOMAIN registered \cup {Len(registered) + 1}
      /\ registered'[Len(registered) + 1] = o
      /\ \A i \in DOMAIN registered : registered'[i] = registered[i]
  OBVIOUS
<1> QED BY <1>1 DEF ToSet

(* Who is registered is an observer. *)
LEMMA NobodyIn == ASSUME OperationTypeOK PROVE ToSet(registered) \subseteq Observers
BY DEF OperationTypeOK, ToSet

(* Who is registered while no 'complete' is being triggered awaits nothing. *)
LEMMA NewcomerAwaitsNothing ==
    ASSUME OperationInv, NEW o \in Observers, o \notin ToSet(registered), ~InComplete
    PROVE  Pending(o) = {}
BY DEF OperationInv, Triggered, Triggering, Pending, Awaiting, InComplete

(* Each action keeps what is known of the observers. *)
LEMMA OnKeeps ==
    ASSUME OperationInv, NEW o \in Observers, On(o)
    PROVE  OperationInv'
<1>1. /\ o \notin ToSet(registered) /\ registered' = Append(registered, o)
      /\ observers' = observers \cup {o}
      /\ late' = IF InComplete THEN late \cup {o} ELSE late
      /\ timers' = IF completed THEN timers \cup {o} ELSE timers
      /\ UNCHANGED <<completed, failed, completions, frames, calls, stopped, threw>>
  BY DEF On, Register, outcomeVars
<1>2. registered' \in Seq(Observers) /\ ToSet(registered)' = ToSet(registered) \cup {o}
  BY <1>1, MoreRegistered DEF OperationInv, OperationTypeOK
<1>3. OperationTypeOK'
  BY <1>1, <1>2 DEF OperationInv, OperationTypeOK
<1>4. Triggered'
  BY <1>1, <1>2 DEF OperationInv, Triggered, Triggering
<1>5. Before'
  BY <1>1, <1>2 DEF OperationInv, Before
<1>6. \A q : Pending(q)' = Pending(q)
  BY <1>1 DEF Pending, Awaiting
<1>7. Numbered'
  <2> SUFFICES ASSUME NEW q \in ToSet(registered)', q \notin late'
               PROVE  calls'[q] + Due(q)' <= completions'
    BY DEF Numbered
  <2>1. CASE q = o
    <3>1. ~InComplete
      BY <1>1, <2>1
    <3>2. Pending(q)' = {}
      BY <1>1, <1>6, <2>1, <3>1, NewcomerAwaitsNothing
    <3>3. Cardinality(Pending(q)') = 0
      BY <3>2, FS_EmptySet
    <3>4. calls'[q] = 0
      BY <1>1, <2>1 DEF OperationInv, Before
    <3>5. completions \in Nat /\ (completed <=> completions # 0) /\ o \notin timers
      BY <1>1, CompletionsAssumption DEF OperationInv, OperationTypeOK, Before
    <3>6. Due(q)' = IF completed THEN 1 ELSE 0
      BY <1>1, <2>1, <3>3, <3>5 DEF Due
    <3> QED BY <1>1, <3>4, <3>5, <3>6
  <2>2. CASE q # o
    <3>1. q \in ToSet(registered) \ late
      BY <1>1, <1>2, <2>2
    <3>2. Due(q)' = Due(q)
      BY <1>1, <1>6, <2>2 DEF Due
    <3> QED BY <1>1, <3>1, <3>2 DEF OperationInv, Numbered
  <2> QED BY <2>1, <2>2
<1>8. Told'
  <2> SUFFICES ASSUME completions' = 1, ~threw', NEW q \in ToSet(registered)', Concerned(q)'
               PROVE  calls'[q] >= 1 \/ q \in stopped' \/ Waits(q)'
    BY DEF Told
  <2>1. CASE q = o
    <3>1. completed
      BY <1>1 DEF OperationInv, Before
    <3> QED BY <1>1, <2>1, <3>1 DEF Waits
  <2>2. CASE q # o
    <3>1. q \in ToSet(registered) /\ Concerned(q)
      BY <1>1, <1>2, <2>2 DEF Concerned, Outcome
    <3>2. calls[q] >= 1 \/ q \in stopped \/ Waits(q)
      BY <1>1, <3>1 DEF OperationInv, Told
    <3>3. Waits(q) => Waits(q)'
      BY <1>1 DEF Waits, Outcome
    <3> QED BY <1>1, <3>2, <3>3
  <2> QED BY <2>1, <2>2
<1> QED BY <1>3, <1>4, <1>5, <1>7, <1>8 DEF OperationInv

LEMMA OffKeeps ==
    ASSUME OperationInv, NEW o \in Observers, Off(o)
    PROVE  OperationInv'
<1>1. /\ o \in observers /\ observers' = observers \ {o}
      /\ stopped' = IF \E i \in DOMAIN frames : o \in frames[i].todo THEN stopped ELSE stopped \cup {o}
      /\ UNCHANGED <<completed, failed, completions, registered, late, timers, frames, calls, threw>>
  BY DEF Off, outcomeVars
<1>2. OperationTypeOK'
  BY <1>1 DEF OperationInv, OperationTypeOK
<1>3. Triggered'
  BY <1>1 DEF OperationInv, Triggered, Triggering
<1>4. Before'
  <2>1. completions = 0 => stopped' = stopped \cup {o}
    BY <1>1 DEF OperationInv, Before
  <2> QED BY <1>1, <2>1 DEF OperationInv, Before
<1>5. \A q : Due(q)' = Due(q)
  BY <1>1 DEF Due, Pending, Awaiting
<1>6. Numbered'
  BY <1>1, <1>5 DEF OperationInv, Numbered
<1>7. Told'
  <2> SUFFICES ASSUME completions' = 1, ~threw', NEW q \in ToSet(registered)', Concerned(q)'
               PROVE  calls'[q] >= 1 \/ q \in stopped' \/ Waits(q)'
    BY DEF Told
  <2>1. q \in ToSet(registered) /\ Concerned(q) /\ stopped \subseteq stopped'
    BY <1>1 DEF Concerned, Outcome
  <2>2. calls[q] >= 1 \/ q \in stopped \/ Waits(q)
    BY <1>1, <2>1 DEF OperationInv, Told
  <2>3. q # o /\ Waits(q) => Waits(q)'
    BY <1>1 DEF Waits, Outcome
  <2>4. q = o => q \in stopped' \/ Waits(q)'
    BY <1>1 DEF Waits
  <2> QED BY <1>1, <2>1, <2>2, <2>3, <2>4
<1> QED BY <1>2, <1>3, <1>4, <1>6, <1>7 DEF OperationInv

(* What trigger() starts. *)
LEMMA TriggersAreFrames ==
    ASSUME OperationTypeOK, NEW event, NEW next \in BOOLEAN
    PROVE  Trigger(event, next) \in Frames
BY NobodyIn DEF Trigger, Snapshot, Frames, OperationTypeOK

LEMMA SetCompletedKeeps ==
    ASSUME OperationInv, NEW fail \in BOOLEAN, SetCompleted(fail)
    PROVE  OperationInv'
<1> DEFINE f == Trigger("complete", TRUE)
           n == Len(frames) + 1
<1>1. /\ completions < MaxCompletions /\ completions' = completions + 1
      /\ completed' = TRUE /\ failed' = fail /\ frames' = Append(frames, f)
      /\ UNCHANGED <<registered, late, stopped, observers, timers, calls, threw>>
  BY DEF SetCompleted, observerVars
<1>2. f \in Frames /\ f.todo = Snapshot("complete") /\ f.outcomeNext = TRUE /\ f.running = {}
  BY TriggersAreFrames DEF OperationInv, Trigger
<1> HIDE DEF f
<1>3. /\ frames' \in Seq(Frames) /\ DOMAIN frames' = DOMAIN frames \cup {n} /\ n \notin DOMAIN frames
      /\ frames'[n] = f /\ \A i \in DOMAIN frames : frames'[i] = frames[i]
  BY <1>1, <1>2, FramePushed DEF OperationInv, OperationTypeOK
<1> HIDE DEF n
<1>4. completions \in Nat /\ completions' \in 1 .. MaxCompletions
  BY <1>1, CompletionsAssumption DEF OperationInv, OperationTypeOK
<1>5. OperationTypeOK'
  BY <1>1, <1>2, <1>3, <1>4 DEF OperationInv, OperationTypeOK
<1>6. Triggered'
  <2> SUFFICES ASSUME NEW k \in DOMAIN frames' PROVE Triggering(frames'[k])
    BY <1>1 DEF Triggered, Triggering
  <2>1. Triggering(f)
    BY <1>2 DEF OperationInv, OperationTypeOK, Triggering, Snapshot
  <2>2. k # n => Triggering(frames[k])
    BY <1>3 DEF OperationInv, Triggered
  <2> QED BY <1>3, <2>1, <2>2
<1>7. Before'
  BY <1>1, <1>4 DEF OperationInv, Before
<1>8. Numbered'
  <2> SUFFICES ASSUME NEW q \in ToSet(registered) \ late
               PROVE  calls[q] + Due(q)' <= completions + 1
    BY <1>1 DEF Numbered
  <2>1. frames \in Seq(Frames) /\ q \in Observers /\ calls[q] \in Nat
    BY NobodyIn DEF OperationInv, OperationTypeOK
  <2>2. Pending(q)' \subseteq Pending(q) \cup {n} /\ n \notin Pending(q)
    BY <1>3 DEF Pending, Awaiting
  <2>3. Cardinality(Pending(q)') <= Cardinality(Pending(q)) + 1
    BY <2>1, <2>2, PendingMore
  <2>4. calls[q] + Due(q) <= completions
    BY DEF OperationInv, Numbered
  <2>5. Cardinality(Pending(q)) \in Nat
    BY <2>1, PendingFinite
  <2>6. Cardinality(Pending(q)') \in Nat
    <3>1. IsFiniteSet(Pending(q) \cup {n})
      BY <2>1, PendingFinite, FS_AddElement
    <3> QED BY <2>2, <3>1, FS_Subset, FS_CardinalityType
  <2> QED BY <1>1, <1>4, <2>1, <2>3, <2>4, <2>5, <2>6 DEF Due
<1>9. Told'
  <2> SUFFICES ASSUME completions = 0, NEW q \in ToSet(registered), Concerned(q)'
               PROVE  q \in stopped \/ Waits(q)'
    BY <1>1, <1>4 DEF Told
  <2>1. q \in observers \cup stopped
    BY DEF OperationInv, Before
  <2>2. q \in observers => Waits(q)'
    <3> SUFFICES ASSUME q \in observers PROVE Waits(q)'
      OBVIOUS
    <3>1. CASE Event[q] = "complete"
      BY <1>2, <1>3, <3>1 DEF Waits, Snapshot
    <3>2. CASE Event[q] = Outcome'
      BY <1>1, <1>2, <1>3, <3>2 DEF Waits
    <3> QED BY <3>1, <3>2 DEF Concerned
  <2> QED BY <2>1, <2>2
<1> QED BY <1>5, <1>6, <1>7, <1>8, <1>9 DEF OperationInv

LEMMA CallNextKeeps ==
    ASSUME OperationInv, CallNext
    PROVE  OperationInv'
<1> DEFINE n == Len(frames)
<1>1. PICK i \in DOMAIN registered :
        /\ registered[i] \in Last(frames).todo /\ Call(registered[i])
        /\ frames' = [frames EXCEPT ![n] = [Last(frames) EXCEPT !.todo = @ \ {registered[i]},
                                                                !.running = {registered[i]}]]
  BY DEF CallNext
<1> DEFINE o == registered[i]
           f == Last(frames)
           g == [f EXCEPT !.todo = @ \ {o}, !.running = {o}]
<1>2. /\ frames # <<>>
      /\ UNCHANGED <<completed, failed, completions, registered, late, stopped, timers, threw>>
  BY DEF CallNext, outcomeVars, observerVars
<1>3. frames \in Seq(Frames) /\ f = frames[n] /\ f \in Frames /\ n \in DOMAIN frames
  BY <1>2, LastFrame DEF OperationInv, OperationTypeOK
<1>4. o \in ToSet(registered) /\ o \in Observers
  BY NobodyIn DEF OperationInv, ToSet
<1>5. calls' = [calls EXCEPT ![o] = @ + 1]
      /\ observers' = (IF o \in Once THEN observers \ {o} ELSE observers) /\ o \in f.todo
  BY <1>1 DEF Call
<1>6. g \in Frames /\ g.todo = f.todo \ {o} /\ g.running = {o} /\ g.outcomeNext = f.outcomeNext
  BY <1>3, <1>4 DEF Frames
<1>7. frames' = [frames EXCEPT ![n] = g]
  BY <1>1
<1> HIDE DEF g, o, f
<1>8. frames' \in Seq(Frames) /\ Topped(g)
  BY <1>2, <1>3, <1>6, <1>7, FrameTopped
<1> HIDE DEF n
<1>9. DOMAIN frames' = DOMAIN frames /\ frames'[n] = g
      /\ \A k \in DOMAIN frames : k # n => frames'[k] = frames[k]
  BY <1>8 DEF Topped, n
<1>10. /\ calls' \in [Observers -> Nat] /\ calls'[o] = calls[o] + 1
       /\ \A q \in Observers : q # o => calls'[q] = calls[q]
  BY <1>4, <1>5 DEF OperationInv, OperationTypeOK
<1>11. OperationTypeOK'
  <2>1. \A k \in DOMAIN frames' : \A p, q \in frames'[k].running : p = q
    BY <1>6, <1>9 DEF OperationInv, OperationTypeOK
  <2> QED BY <1>2, <1>5, <1>8, <1>10, <2>1 DEF OperationInv, OperationTypeOK
<1>12. Triggered'
  <2> SUFFICES ASSUME NEW k \in DOMAIN frames PROVE Triggering(frames'[k])
    BY <1>2, <1>9 DEF Triggered, Triggering
  <2>1. Triggering(frames[k])
    BY DEF OperationInv, Triggered
  <2>2. CASE k = n
    BY <1>3, <1>4, <1>6, <1>9, <2>1, <2>2 DEF Triggering
  <2>3. CASE k # n
    BY <1>9, <2>1, <2>3
  <2> QED BY <2>2, <2>3
<1>13. Before'
  <2>1. completions # 0
    BY <1>2 DEF OperationInv, Before
  <2> QED BY <1>2, <1>4, <1>10, <2>1 DEF OperationInv, Before
<1>14. f.outcomeNext => Event[o] = "complete"
  BY <1>3, <1>5 DEF OperationInv, Triggered, Triggering
<1>15. Numbered'
  <2> SUFFICES ASSUME NEW q \in ToSet(registered) \ late
               PROVE  calls'[q] + Due(q)' <= completions
    BY <1>2 DEF Numbered
  <2>1. q \in Observers /\ calls[q] \in Nat /\ completions \in Nat
    BY NobodyIn, CompletionsAssumption DEF OperationInv, OperationTypeOK
  <2>2. calls[q] + Due(q) <= completions
    BY DEF OperationInv, Numbered
  <2>3. Cardinality(Pending(q)) \in Nat
    BY <1>3, PendingFinite
  <2>4. Pending(q)' \subseteq Pending(q)
    BY <1>3, <1>6, <1>9 DEF Pending, Awaiting
  <2>5. Cardinality(Pending(q)') \in Nat
    BY <1>3, <2>4, PendingFinite, FS_Subset, FS_CardinalityType
  <2>6. CASE q = o
    <3>1. n \in Pending(q) /\ n \notin Pending(q)'
      BY <1>3, <1>5, <1>6, <1>9, <1>14, <2>6 DEF Pending, Awaiting
    <3>2. Pending(q)' \subseteq Pending(q) \ {n}
      BY <2>4, <3>1
    <3>3. Cardinality(Pending(q)') + 1 <= Cardinality(Pending(q))
      BY <1>3, <3>1, <3>2, PendingLess
    <3> QED BY <1>2, <1>10, <2>1, <2>2, <2>3, <2>5, <2>6, <3>3 DEF Due
  <2>7. CASE q # o
    <3>1. Cardinality(Pending(q)') <= Cardinality(Pending(q))
      BY <1>3, <2>4, PendingFewer
    <3> QED BY <1>2, <1>10, <2>1, <2>2, <2>3, <2>5, <2>7, <3>1 DEF Due
  <2> QED BY <2>6, <2>7
<1>16. Told'
  <2> SUFFICES ASSUME completions = 1, ~threw, NEW q \in ToSet(registered), Concerned(q)'
               PROVE  calls'[q] >= 1 \/ q \in stopped \/ Waits(q)'
    BY <1>2 DEF Told
  <2>1. q \in Observers
    BY NobodyIn DEF OperationInv
  <2>2. CASE q = o
    <3>1. calls[q] \in Nat
      BY <2>1 DEF OperationInv, OperationTypeOK
    <3> QED BY <1>10, <2>2, <3>1
  <2>3. CASE q # o
    <3>1. q \in observers' <=> q \in observers
      BY <1>5, <2>3
    <3>2. Concerned(q)
      BY <1>2, <3>1 DEF Concerned, Outcome
    <3>3. calls[q] >= 1 \/ q \in stopped \/ Waits(q)
      BY <3>2 DEF OperationInv, Told
    <3>4. \A k \in DOMAIN frames : /\ q \in frames'[k].todo <=> q \in frames[k].todo
                                   /\ frames'[k].outcomeNext <=> frames[k].outcomeNext
      BY <1>3, <1>6, <1>9, <2>3
    <3>5. Waits(q) => Waits(q)'
      BY <1>2, <1>9, <3>1, <3>4 DEF Waits, Outcome
    <3> QED BY <1>10, <2>1, <2>3, <3>3, <3>5
  <2> QED BY <2>2, <2>3
<1> QED BY <1>11, <1>12, <1>13, <1>15, <1>16 DEF OperationInv

LEMMA EndTriggerKeeps ==
    ASSUME OperationInv, EndTrigger
    PROVE  OperationInv'
<1> DEFINE n == Len(frames)
           f == Last(frames)
           g == Trigger(Outcome, FALSE)
<1>1. /\ frames # <<>> /\ f.todo = {}
      /\ frames' = IF f.outcomeNext THEN [frames EXCEPT ![n] = g] ELSE Front(frames)
      /\ UNCHANGED <<completed, failed, completions, registered, late, stopped, observers, timers, calls, threw>>
  BY DEF EndTrigger, outcomeVars, observerVars
<1>2. frames \in Seq(Frames) /\ f = frames[n] /\ f \in Frames /\ n \in DOMAIN frames
  BY <1>1, LastFrame DEF OperationInv, OperationTypeOK
<1>3. g \in Frames /\ g.todo = Snapshot(Outcome) /\ g.outcomeNext = FALSE /\ g.running = {}
  BY TriggersAreFrames DEF OperationInv, Trigger
<1>4. Outcome \in {"success", "error"}
  BY DEF Outcome
<1>5. \A q \in g.todo : q \in observers /\ Event[q] # "complete"
  BY <1>3, <1>4 DEF Snapshot
<1>6. \A q : q \in observers /\ Event[q] = Outcome => q \in g.todo
  BY <1>3 DEF Snapshot
<1> HIDE DEF g, f
<1>7. /\ frames' \in Seq(Frames) /\ DOMAIN frames' \subseteq DOMAIN frames
      /\ \A k \in DOMAIN frames : k # n => k \in DOMAIN frames' /\ frames'[k] = frames[k]
      /\ n \in DOMAIN frames' <=> f.outcomeNext
      /\ f.outcomeNext => frames'[n] = g
  <2>1. CASE f.outcomeNext
    <3>1. frames' \in Seq(Frames) /\ Topped(g)
      BY <1>1, <1>2, <1>3, <2>1, FrameTopped
    <3> QED BY <1>2, <2>1, <3>1 DEF Topped
  <2>2. CASE ~f.outcomeNext
    BY <1>1, <1>2, <2>2, FramePopped
  <2> QED BY <2>1, <2>2
<1> HIDE DEF n
<1>8. OperationTypeOK'
  <2>1. \A k \in DOMAIN frames' : \A p, q \in frames'[k].running : p = q
    BY <1>3, <1>7 DEF OperationInv, OperationTypeOK
  <2> QED BY <1>1, <1>7, <2>1 DEF OperationInv, OperationTypeOK
<1>9. Triggered'
  <2> SUFFICES ASSUME NEW k \in DOMAIN frames' PROVE Triggering(frames'[k])
    BY <1>1 DEF Triggered, Triggering
  <2>1. Triggering(g)
    BY <1>3, <1>5 DEF OperationInv, OperationTypeOK, Triggering
  <2>2. k # n => Triggering(frames[k])
    BY <1>7 DEF OperationInv, Triggered
  <2> QED BY <1>7, <2>1, <2>2
<1>10. Before'
  <2>1. completions # 0
    BY <1>1 DEF OperationInv, Before
  <2> QED BY <1>1, <2>1 DEF OperationInv, Before
<1>11. Numbered'
  <2> SUFFICES ASSUME NEW q \in ToSet(registered) \ late
               PROVE  calls[q] + Due(q)' <= completions
    BY <1>1 DEF Numbered
  <2>1. calls[q] \in Nat /\ completions \in Nat /\ calls[q] + Due(q) <= completions
    BY NobodyIn, CompletionsAssumption DEF OperationInv, OperationTypeOK, Numbered
  <2>2. Pending(q)' \subseteq Pending(q)
    BY <1>2, <1>3, <1>5, <1>7 DEF Pending, Awaiting
  <2>3. Cardinality(Pending(q)') <= Cardinality(Pending(q))
    BY <1>2, <2>2, PendingFewer
  <2>4. Cardinality(Pending(q)) \in Nat /\ Cardinality(Pending(q)') \in Nat
    BY <1>2, <2>2, PendingFinite, FS_Subset, FS_CardinalityType
  <2> QED BY <1>1, <2>1, <2>3, <2>4 DEF Due
<1>12. Told'
  <2> SUFFICES ASSUME completions = 1, ~threw, NEW q \in ToSet(registered), Concerned(q)
               PROVE  calls[q] >= 1 \/ q \in stopped \/ Waits(q)'
    BY <1>1 DEF Told, Concerned, Outcome
  <2>1. calls[q] >= 1 \/ q \in stopped \/ Waits(q)
    BY DEF OperationInv, Told
  <2>2. ASSUME NEW k \in DOMAIN frames, q \in frames[k].todo PROVE Waits(q)'
    BY <1>1, <1>2, <1>7, <2>2 DEF Waits
  <2>3. ASSUME q \in observers, Event[q] = Outcome, NEW k \in DOMAIN frames, frames[k].outcomeNext
        PROVE  Waits(q)'
    <3>1. CASE k = n
      BY <1>2, <1>6, <1>7, <2>3, <3>1 DEF Waits
    <3>2. CASE k # n
      BY <1>1, <1>7, <2>3, <3>2 DEF Waits, Outcome
    <3> QED BY <3>1, <3>2
  <2>4. q \in timers => Waits(q)'
    BY <1>1 DEF Waits
  <2> QED BY <2>1, <2>2, <2>3, <2>4 DEF Waits
<1> QED BY <1>8, <1>9, <1>10, <1>11, <1>12 DEF OperationInv

LEMMA ThrowKeeps ==
    ASSUME OperationInv, Throw
    PROVE  OperationInv'
<1>1. /\ frames # <<>> /\ frames' = Front(frames) /\ threw' = TRUE
      /\ UNCHANGED <<completed, failed, completions, registered, late, stopped, observers, timers, calls>>
  BY DEF Throw, outcomeVars, observerVars
<1>2. frames \in Seq(Frames)
  BY DEF OperationInv, OperationTypeOK
<1>3. /\ frames' \in Seq(Frames)
      /\ \A i \in DOMAIN frames' : i \in DOMAIN frames /\ frames'[i] = frames[i]
  BY <1>1, <1>2, FramePopped
<1>4. OperationTypeOK'
  <2>1. \A k \in DOMAIN frames' : \A p, q \in frames'[k].running : p = q
    BY <1>3 DEF OperationInv, OperationTypeOK
  <2> QED BY <1>1, <1>3, <2>1 DEF OperationInv, OperationTypeOK
<1>5. Triggered'
  BY <1>1, <1>3 DEF OperationInv, Triggered, Triggering
<1>6. Before'
  <2>1. completions # 0
    BY <1>1 DEF OperationInv, Before
  <2> QED BY <1>1, <2>1 DEF OperationInv, Before
<1>7. Numbered'
  <2> SUFFICES ASSUME NEW q \in ToSet(registered) \ late
               PROVE  calls[q] + Due(q)' <= completions
    BY <1>1 DEF Numbered
  <2>1. calls[q] \in Nat /\ completions \in Nat /\ calls[q] + Due(q) <= completions
    BY NobodyIn, CompletionsAssumption DEF OperationInv, OperationTypeOK, Numbered
  <2>2. Pending(q)' \subseteq Pending(q)
    BY <1>3 DEF Pending, Awaiting
  <2>3. Cardinality(Pending(q)') <= Cardinality(Pending(q))
    BY <1>2, <2>2, PendingFewer
  <2>4. Cardinality(Pending(q)) \in Nat /\ Cardinality(Pending(q)') \in Nat
    BY <1>2, <2>2, PendingFinite, FS_Subset, FS_CardinalityType
  <2> QED BY <1>1, <2>1, <2>3, <2>4 DEF Due
<1>8. Told'
  BY <1>1 DEF Told
<1> QED BY <1>4, <1>5, <1>6, <1>7, <1>8 DEF OperationInv

LEMMA DeferredKeeps ==
    ASSUME OperationInv, NEW o \in Observers, Deferred(o)
    PROVE  OperationInv'
<1>1. /\ frames = <<>> /\ o \in timers /\ timers' = timers \ {o}
      /\ UNCHANGED <<completed, failed, completions, registered, late, stopped, threw>>
  BY DEF Deferred, outcomeVars, observerVars
<1>2. \/ /\ calls' = [calls EXCEPT ![o] = @ + 1]
         /\ observers' = (IF o \in Once THEN observers \ {o} ELSE observers)
         /\ frames' = <<[todo |-> {}, outcomeNext |-> FALSE, running |-> {o}]>>
      \/ UNCHANGED <<observers, calls, frames>> /\ Event[o] \notin {"complete", Outcome}
  BY DEF Deferred, Call
<1>3. o \in ToSet(registered) /\ completed /\ completions # 0
  BY <1>1 DEF OperationInv, OperationTypeOK, Before
<1>4. frames' \in Seq(Frames)
      /\ \A k \in DOMAIN frames' : /\ frames'[k].todo = {} /\ ~frames'[k].outcomeNext
                                   /\ frames'[k].running = {o}
  <2>1. CASE frames' = frames
    BY <1>1, <2>1
  <2>2. CASE frames' = <<[todo |-> {}, outcomeNext |-> FALSE, running |-> {o}]>>
    <3>1. [todo |-> {}, outcomeNext |-> FALSE, running |-> {o}] \in Frames
      BY DEF Frames
    <3> QED BY <2>2, <3>1
  <2> QED BY <1>2, <2>1, <2>2
<1>5. /\ calls' \in [Observers -> Nat] /\ calls'[o] \in {calls[o], calls[o] + 1}
      /\ \A q \in Observers : q # o => calls'[q] = calls[q]
      /\ observers' \subseteq observers /\ observers \subseteq observers' \cup {o}
      /\ Event[o] \in {"complete", Outcome} => calls'[o] = calls[o] + 1
  BY <1>2 DEF OperationInv, OperationTypeOK
<1>6. OperationTypeOK'
  BY <1>1, <1>4, <1>5 DEF OperationInv, OperationTypeOK
<1>7. Triggered'
  BY <1>1, <1>3, <1>4 DEF Triggered, Triggering
<1>8. Before'
  BY <1>1, <1>3, <1>5 DEF OperationInv, Before
<1>9. Numbered'
  <2> SUFFICES ASSUME NEW q \in ToSet(registered) \ late
               PROVE  calls'[q] + Due(q)' <= completions
    BY <1>1 DEF Numbered
  <2>1. /\ calls[q] \in Nat /\ q \in Observers /\ completions \in Nat
        /\ calls[q] + Due(q) <= completions
    BY NobodyIn, CompletionsAssumption DEF OperationInv, OperationTypeOK, Numbered
  <2>2. Pending(q) = {} /\ Pending(q)' = {}
    BY <1>1, <1>4 DEF Pending, Awaiting
  <2>3. Cardinality(Pending(q)) = 0 /\ Cardinality(Pending(q)') = 0
    BY <2>2, FS_EmptySet
  <2>4. Due(q) = (IF q \in timers THEN 1 ELSE 0) /\ Due(q)' = (IF q \in timers' THEN 1 ELSE 0)
    BY <2>3 DEF Due
  <2>5. CASE q = o
    BY <1>1, <1>5, <2>1, <2>4, <2>5
  <2>6. CASE q # o
    BY <1>1, <1>5, <2>1, <2>4, <2>6
  <2> QED BY <2>5, <2>6
<1>10. Told'
  <2> SUFFICES ASSUME completions = 1, ~threw, NEW q \in ToSet(registered), Concerned(q)'
               PROVE  calls'[q] >= 1 \/ q \in stopped \/ Waits(q)'
    BY <1>1 DEF Told
  <2>1. q \in Observers /\ calls[q] \in Nat
    BY NobodyIn DEF OperationInv, OperationTypeOK
  <2>2. CASE q = o
    <3>1. Event[o] \in {"complete", Outcome}
      BY <1>1, <2>2 DEF Concerned, Outcome
    <3> QED BY <1>5, <2>1, <2>2, <3>1
  <2>3. CASE q # o
    <3>1. Concerned(q)
      BY <1>1, <1>5, <2>3 DEF Concerned, Outcome
    <3>2. calls[q] >= 1 \/ q \in stopped \/ Waits(q)
      BY <3>1 DEF OperationInv, Told
    <3>3. Waits(q) => q \in timers'
      BY <1>1, <2>3 DEF Waits
    <3> QED BY <1>5, <2>1, <2>3, <3>2, <3>3 DEF Waits
  <2> QED BY <2>2, <2>3
<1> QED BY <1>6, <1>7, <1>8, <1>9, <1>10 DEF OperationInv

LEMMA OperationStarts == OperationInit => OperationInv
<1> SUFFICES ASSUME OperationInit PROVE OperationInv
  OBVIOUS
<1>1. registered = <<>> /\ ToSet(registered) = {}
  BY DEF OperationInit, ToSet
<1>2. OperationTypeOK
  <2>1. completions \in 0 .. MaxCompletions /\ frames \in Seq(Frames) /\ registered \in Seq(Observers)
    BY CompletionsAssumption DEF OperationInit
  <2>2. calls \in [Observers -> Nat] /\ DOMAIN frames = {}
    BY DEF OperationInit
  <2> QED BY <2>1, <2>2 DEF OperationInit, OperationTypeOK
<1> QED BY <1>1, <1>2 DEF OperationInit, OperationInv, Triggered, Before, Numbered, Told

LEMMA OperationStep == OperationInv /\ [OperationNext]_operationVars => OperationInv'
<1> SUFFICES ASSUME OperationInv, [OperationNext]_operationVars PROVE OperationInv'
  OBVIOUS
<1>1. CASE OperationNext
  BY <1>1, OnKeeps, OffKeeps, DeferredKeeps, SetCompletedKeeps, CallNextKeeps, EndTriggerKeeps,
     ThrowKeeps DEF OperationNext
<1>2. CASE UNCHANGED operationVars
  BY <1>2 DEF operationVars, outcomeVars, observerVars, OperationInv, OperationTypeOK, Triggered,
              Triggering, Before, Numbered, Due, Pending, Awaiting, Told, Concerned, Waits, Outcome
<1> QED BY <1>1, <1>2

LEMMA OperationInvKept == OperationSpec => []OperationInv
BY OperationStarts, OperationStep, PTL DEF OperationSpec

(* The observers, the timers and the triggers under way are typed, for any  *)
(* observers and number of completions; timers run after a completion only. *)
THEOREM OperationTypesKept == OperationSpec => []OperationTypeOK
<1>1. OperationInv => OperationTypeOK
  BY DEF OperationInv
<1> QED BY <1>1, OperationInvKept, PTL

(* However observers register, remove, complete again and throw while they  *)
(* are called, each hears of a completion once at most, unless it was       *)
(* registered while 'complete' was being triggered.                         *)
THEOREM HeardOnce == OperationSpec => []HeardOncePerCompletion
<1>1. OperationInv => HeardOncePerCompletion
  <2> SUFFICES ASSUME OperationInv, NEW o \in Observers \ late PROVE calls[o] <= completions
    BY DEF HeardOncePerCompletion
  <2>1. calls[o] \in Nat /\ completions \in Nat /\ frames \in Seq(Frames)
    BY CompletionsAssumption DEF OperationInv, OperationTypeOK
  <2>2. CASE o \in ToSet(registered)
    <3>1. calls[o] + Due(o) <= completions
      BY <2>2 DEF OperationInv, Numbered
    <3>2. Due(o) \in Nat
      BY <2>1, PendingFinite DEF Due
    <3> QED BY <2>1, <3>1, <3>2
  <2>3. CASE o \notin ToSet(registered)
    BY <2>1, <2>3 DEF OperationInv, Before
  <2> QED BY <2>2, <2>3
<1> QED BY <1>1, OperationInvKept, PTL

(* Unless an observer threw, everyone concerned by the only completion has  *)
(* heard of it when nothing is left to run, whenever he was registered.     *)
THEOREM EveryoneIsTold == OperationSpec => []EveryoneTold
<1>1. OperationInv => EveryoneTold
  BY EmptySeq DEF OperationInv, Told, EveryoneTold, Settled, Concerned, Waits
<1> QED BY <1>1, OperationInvKept, PTL
=============================================================================
