---------------------------- MODULE SocketServer ----------------------------
(***************************************************************************)
(* The processes of the websocket server (sbin/server.php), the file that  *)
(* names the one that runs, and the requests that look at it, start it and *)
(* stop it (WebSocketController).                                          *)
(*                                                                         *)
(* Requests run at the same time and share the file without a lock; the    *)
(* process that has been started writes its own pid there too, before it   *)
(* takes the port, if its PHP can tell it.  Someone may also run the script *)
(* from the command line.                                                  *)
(***************************************************************************)
EXTENDS Integers

CONSTANTS
  MaxPids,     \* bound: processes the host can start
  MaxRequests, \* requests that run at a time
  MaxFaults    \* bound: requests killed, answers lost, servers that die or cannot
               \* be killed, and those run by hand

ASSUME ServerAssumption == MaxPids \in Nat /\ MaxRequests \in Nat /\ MaxFaults \in Nat

Pids == 1 .. MaxPids
Requests == 1 .. MaxRequests
NoPid == 0

VARIABLES
  config,   \* /etc/websocket-server.json; whether PHP has posix_getpid()
  process,  \* [Pids -> what the process does]
  pidFile,  \* the pid in /var/run/websocket-server.pid
  request,  \* [Requests -> the request that runs there]
  mixed,    \* two starts or stops have overlapped, one has been left half way,
            \* or a server was run where the file cannot tell (history)
  faults    \* what has gone wrong or was done by hand so far

serverVars == <<config, process, pidFile, request, mixed, faults>>

Kinds == {"status", "start", "stop", "restart"}
Outcomes == {"none", "on", "off", "done", "failed"}

(* A process that a request has started, or that was run from the command   *)
(* line (called); on the port of the configuration, or on another (aside).  *)
States == {"unborn", "started", "called", "binding", "listening", "aside", "dead"}

(* What a request does next; each is a read or a write of the file. *)
Steps == {"none", "report", "choose", "check stop", "kill", "clear", "check start", "launch", "write"}
First(kind) ==
  CASE kind = "status"  -> "report"
    [] kind = "start"   -> "check start"
    [] kind = "stop"    -> "check stop"
    [] kind = "restart" -> "choose"

(* Who has sent the request is the sender's affair. *)
Record(kind, sender, step, outcome) ==
  [kind |-> kind, sender |-> sender, step |-> step, held |-> NoPid, outcome |-> outcome]
Idle == Record("none", 0, "none", "none")

(* A process of the pid in the file is there, listening or not. *)
Alive(p) == process[p] \notin {"unborn", "dead"}
IsServerStarted == pidFile # NoPid /\ Alive(pidFile)

Listening == {p \in Pids : process[p] = "listening"}
Unborn == {p \in Pids : process[p] = "unborn"}
Meddling == {r \in Requests : request[r].step \notin {"none", "report"}}

(* Starts or stops in progress: a process called by hand, which has not      *)
(* written its pid, counts as one.                                           *)
Busy == Meddling # {} \/ \E p \in Pids : process[p] = "called"

ServerInit ==
  /\ config \in [enabled : BOOLEAN, autoStart : BOOLEAN, posix : BOOLEAN]
  /\ process = [p \in Pids |-> "unborn"]
  /\ pidFile = NoPid
  /\ request = [r \in Requests |-> Idle]
  /\ mixed = FALSE
  /\ faults = 0

(* A request begins; `reqs' are those there are already. *)
Free(reqs) == {r \in Requests : reqs[r].kind = "none"}
Begin(reqs, kind, sender) ==
  /\ Free(reqs) # {}
  /\ request' = [reqs EXCEPT ![CHOOSE r \in Free(reqs) : TRUE] =
                   Record(kind, sender, First(kind), "none")]
  /\ mixed' = (mixed \/ (kind # "status" /\ Busy))

Released(r) == [request EXCEPT ![r] = Idle]

-----------------------------------------------------------------------------
(* The steps of a request. *)

End(r, outcome) ==
  request' = [request EXCEPT ![r] = Record(request[r].kind, request[r].sender, "none", outcome)]

Goto(r, step) == request' = [request EXCEPT ![r].step = step]

(* executeGetServerStatus(). *)
Report(r) ==
  /\ request[r].step = "report"
  /\ End(r, IF IsServerStarted THEN "on" ELSE "off")
  /\ UNCHANGED <<config, faults, process, pidFile, mixed>>

(* executeRestartServer(). *)
Choose(r) ==
  /\ request[r].step = "choose"
  /\ Goto(r, IF IsServerStarted THEN "check stop" ELSE "check start")
  /\ UNCHANGED <<config, faults, process, pidFile, mixed>>

Refuse(r) == End(r, "failed")

Fault == faults < MaxFaults /\ faults' = faults + 1

(* executeStopServer(): refused if the server is not started, *)
CheckStop(r) ==
  /\ request[r].step = "check stop"
  /\ IF IsServerStarted THEN Goto(r, "kill") ELSE Refuse(r)
  /\ UNCHANGED <<config, faults, process, pidFile, mixed>>

(* it reads the pid again.  `kill 0', when another request has cleared the   *)
(* file meanwhile, is for the process group of the web server, the request   *)
(* itself included.  A kill that fails says so on stderr, which the request  *)
(* does not read: it goes on.                                                *)
Kill(r) ==
  /\ request[r].step = "kill"
  /\ \/ /\ pidFile = NoPid
        /\ Refuse(r)
        /\ UNCHANGED <<process, mixed, faults>>
     \/ /\ pidFile # NoPid
        /\ request' = [request EXCEPT ![r].step = "clear", ![r].held = pidFile]
        /\ \/ /\ process' = [process EXCEPT ![pidFile] = "dead"]
              /\ UNCHANGED <<mixed, faults>>
           \/ /\ Alive(pidFile)
              /\ mixed' = TRUE
              /\ Fault
              /\ UNCHANGED process
  /\ UNCHANGED <<config, pidFile>>

Clear(r) ==
  /\ request[r].step = "clear"
  /\ pidFile' = NoPid
  /\ IF request[r].kind = "restart" THEN Goto(r, "check start") ELSE End(r, "done")
  /\ UNCHANGED <<config, faults, process, mixed>>

(* A mutant: a server that runs is not looked for. *)
CheckNothing(r) ==
  /\ request[r].step = "check start"
  /\ Goto(r, "launch")
  /\ UNCHANGED <<config, faults, process, pidFile, mixed>>

(* executeStartServer(): refused if it is, *)
CheckStart(r) ==
  /\ request[r].step = "check start"
  /\ IF IsServerStarted THEN Refuse(r) ELSE Goto(r, "launch")
  /\ UNCHANGED <<config, faults, process, pidFile, mixed>>

(* or if it is not enabled, or the caller may not start it, or the host      *)
(* cannot.                                                                   *)
Launch(r) ==
  /\ request[r].step = "launch"
  /\ \/ /\ Refuse(r)
        /\ UNCHANGED process
     \/ /\ config.enabled /\ Unborn # {}
        /\ LET p == CHOOSE q \in Unborn : TRUE IN
           /\ process' = [process EXCEPT ![p] = "started"]
           /\ request' = [request EXCEPT ![r].step = "write", ![r].held = p]
  /\ UNCHANGED <<config, faults, pidFile, mixed>>

Write(r) ==
  /\ request[r].step = "write"
  /\ pidFile' = request[r].held
  /\ End(r, "done")
  /\ UNCHANGED <<config, faults, process, mixed>>

(* PHP ends the request (set_time_limit), or its answer is lost. *)
Die(r) ==
  /\ r \in Meddling \/ request[r].outcome \notin {"none", "failed"}
  /\ Refuse(r)
  /\ mixed' = (mixed \/ r \in Meddling)
  /\ Fault
  /\ UNCHANGED <<config, process, pidFile>>

Step(r) ==
  \/ Report(r) \/ Choose(r)
  \/ CheckStop(r) \/ Kill(r) \/ Clear(r)
  \/ CheckStart(r) \/ Launch(r) \/ Write(r)

-----------------------------------------------------------------------------
(* sbin/server.php. *)

(* Someone runs it from the command line.  The file tells of it when no other *)
(* process is alive, nothing is in progress and PHP knows its own pid.       *)
Run ==
  /\ Unborn # {}
  /\ process' = [process EXCEPT ![CHOOSE q \in Unborn : TRUE] = "called"]
  /\ mixed' = (mixed \/ Meddling # {} \/ (\E p \in Pids : Alive(p)) \/ ~config.posix)
  /\ Fault
  /\ UNCHANGED <<config, pidFile, request>>

(* It leaves when the server is not enabled, else fills the file, if it      *)
(* can, and takes the port of the configuration or of the option -p, here    *)
(* another one, which is free.                                               *)
Boot(p) ==
  /\ process[p] \in {"started", "called"}
  /\ \/ /\ ~config.enabled
        /\ process' = [process EXCEPT ![p] = "dead"]
        /\ UNCHANGED pidFile
     \/ /\ config.enabled
        /\ \/ process' = [process EXCEPT ![p] = "binding"]
           \/ process[p] = "called" /\ process' = [process EXCEPT ![p] = "aside"]
        /\ pidFile' = IF config.posix THEN p ELSE pidFile
  /\ UNCHANGED <<config, faults, request, mixed>>

(* One process can have the port of the configuration. *)
Bind(p) ==
  /\ process[p] = "binding"
  /\ process' = [process EXCEPT ![p] = IF Listening = {} THEN "listening" ELSE "dead"]
  /\ UNCHANGED <<config, faults, pidFile, request, mixed>>

Crash(p) ==
  /\ process[p] \in {"listening", "aside"}
  /\ process' = [process EXCEPT ![p] = "dead"]
  /\ Fault
  /\ UNCHANGED <<config, pidFile, request, mixed>>

ServerStep ==
  \/ \E r \in Requests : Step(r) \/ Die(r)
  \/ Run
  \/ \E p \in Pids : Boot(p) \/ Bind(p) \/ Crash(p)

(* PHP runs its requests and the host its processes. *)
ServerFairness ==
  /\ \A r \in Requests : WF_serverVars(Step(r))
  /\ \A p \in Pids : WF_serverVars(Boot(p) \/ Bind(p))

-----------------------------------------------------------------------------
(* Properties. *)

RequestRecords ==
  [kind : Kinds \cup {"none"}, sender : Int, step : Steps, held : Pids \cup {NoPid},
   outcome : Outcomes]

ServerTypeOK ==
  /\ config \in [enabled : BOOLEAN, autoStart : BOOLEAN, posix : BOOLEAN]
  /\ process \in [Pids -> States]
  /\ pidFile \in Pids \cup {NoPid}
  /\ request \in [Requests -> RequestRecords]
  /\ mixed \in BOOLEAN
  /\ faults \in 0 .. MaxFaults

(***************************************************************************)
(* The server that listens is the one the file names, at any moment of any *)
(* request, so that it is seen, can be stopped and is not started twice;    *)
(* where PHP does not know its own pid, the request that has started it may *)
(* still have to write it.  Not when two starts or stops have overlapped,   *)
(* one was killed half way or could not kill, or a server was run by hand   *)
(* beside another or without a pid: the file's readers rely on their order. *)
(***************************************************************************)
ServerKnown ==
  ~mixed => \A p \in Listening :
    \/ pidFile = p
    \/ ~config.posix /\ \E r \in Requests : request[r].step = "write" /\ request[r].held = p

(***************************************************************************)
(* What the sources say and the code does not do.                          *)
(***************************************************************************)
(* `Cannot stop server' is for a kill that fails (WebSocketController): a    *)
(* request that goes on to clear the file has killed the process.            *)
ClearedIsDead == \A r \in Requests : request[r].step = "clear" => ~Alive(request[r].held)

(* `Fill proc file with current pid' (server.php): so at all times. *)
PidFileNamesServer == \A p \in Listening : pidFile = p
=============================================================================
