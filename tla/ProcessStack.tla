---------------------------- MODULE ProcessStack ----------------------------
(***************************************************************************)
(* Webos.Process (boot/lib/process.js) and the part Webos.Callback          *)
(* (boot/lib/callback.js) has in it: which process is the current one.      *)
(*                                                                          *)
(* JavaScript runs one piece of code at a time, so Webos.Process.stack is   *)
(* meant to follow the calls: run() pushes the process around its main,     *)
(* fire() pushes the process the callback was made in around the callback,  *)
(* and each pops when the code it called returns.  That code may run and    *)
(* stop processes and fire callbacks in its turn, and stop() rewrites the   *)
(* stack under the calls in progress.  It may also throw: fire() pops all   *)
(* the same, but an exception leaves run() before it has popped when an     *)
(* observer of 'start' throws, or when Webos.Error.catchError(), which      *)
(* calls the interface's error handler, throws in its turn.                 *)
(***************************************************************************)
EXTENDS Naturals, Sequences, FiniteSets, SequencesExt

CONSTANTS
    Processes,   \* the processes of the page
    NoProcess,   \* no process (undefined)
    MaxDepth     \* bound: calls to run() and fire() in progress at a time

ASSUME ProcessesAssumption == IsFiniteSet(Processes) /\ NoProcess \notin Processes
ASSUME DepthAssumption == MaxDepth \in Nat

VARIABLES
    state,    \* _state of each process
    stack,    \* Webos.Process.stack
    frames,   \* the calls to run() and fire() in progress, the innermost last
    escaped,  \* history: the processes whose run() an exception has left
    stopped   \* history: the processes stop() was called on while they were alive

vars == <<state, stack, frames, escaped, stopped>>

States == {"ready", "running", "idle", "killed"}

(* What a call is running: the observers of 'start', the main of the process, *)
(* or a callback.                                                             *)
Frames == [process : Processes, call : {"start", "main", "fire"}]

Alive(p) == state[p] \in {"running", "idle"}

TypeOK ==
    /\ state \in [Processes -> States]
    /\ stack \in Seq(Processes)
    /\ frames \in Seq(Frames)
    /\ escaped \subseteq Processes
    /\ stopped \subseteq Processes

Init ==
    /\ state = [p \in Processes |-> "ready"]
    /\ stack = <<>>
    /\ frames = <<>>
    /\ escaped = {}
    /\ stopped = {}

(* Webos.Process.current() *)
Current == IF stack = <<>> THEN NoProcess ELSE Last(stack)

Enter(p, call) ==
    /\ Len(frames) < MaxDepth
    /\ stack' = Append(stack, p)
    /\ frames' = Append(frames, [process |-> p, call |-> call])

Run(p) ==
    /\ state[p] = "ready"
    /\ state' = [state EXCEPT ![p] = "running"]
    /\ Enter(p, "start")
    /\ UNCHANGED <<escaped, stopped>>

(* The observers of 'start' have been called, and main is. *)
Main ==
    LET f == Last(frames) IN
    /\ frames # <<>> /\ f.call = "start"
    /\ frames' = [frames EXCEPT ![Len(frames)] = [f EXCEPT !.call = "main"]]
    /\ UNCHANGED <<state, stack, escaped, stopped>>

(* A callback made in a process, which has to have run for that; it is fired *)
(* whatever has become of the process since.                                 *)
Fire(p) ==
    /\ state[p] # "ready"
    /\ Enter(p, "fire")
    /\ UNCHANGED <<state, escaped, stopped>>

(* Array.pop() *)
Popped == IF stack = <<>> THEN <<>> ELSE Front(stack)

(* Mutants: run() marks the process idle whatever became of it; only when it *)
(* is still the current one; the stack is not popped for a killed process.   *)
LeaveReviving ==
    LET f == Last(frames) IN
    /\ frames # <<>> /\ f.call # "start"
    /\ frames' = Front(frames)
    /\ stack' = Popped
    /\ state' = IF f.call = "main" THEN [state EXCEPT ![f.process] = "idle"] ELSE state

LeaveIfCurrent ==
    LET f == Last(frames) IN
    /\ frames # <<>> /\ f.call # "start"
    /\ frames' = Front(frames)
    /\ stack' = Popped
    /\ state' = IF f.call = "main" /\ state[f.process] # "killed" /\ Current = f.process
                THEN [state EXCEPT ![f.process] = "idle"] ELSE state

LeaveStacked ==
    LET f == Last(frames) IN
    /\ frames # <<>> /\ f.call # "start"
    /\ frames' = Front(frames)
    /\ stack' = IF state[f.process] = "killed" THEN stack ELSE Popped
    /\ state' = IF f.call = "main" /\ state[f.process] # "killed"
                THEN [state EXCEPT ![f.process] = "idle"] ELSE state

(* The innermost call ends: its code has returned, or has thrown and the    *)
(* exception has been caught.                                               *)
Leave ==
    LET f == Last(frames) IN
    /\ frames # <<>> /\ f.call # "start"
    /\ frames' = Front(frames)
    /\ stack' = Popped
    /\ state' = IF f.call = "main" /\ state[f.process] # "killed"
                THEN [state EXCEPT ![f.process] = "idle"] ELSE state

Return == Leave /\ UNCHANGED <<escaped, stopped>>

(* An exception leaves run(), which neither pops the stack nor marks the    *)
(* process: one thrown by an observer of 'start', or by catchError() for    *)
(* another that main has thrown.  It goes on in the code that called run(). *)
Escape ==
    LET f == Last(frames) IN
    /\ frames # <<>> /\ f.call \in {"start", "main"}
    /\ frames' = Front(frames)
    /\ escaped' = escaped \cup {f.process}
    /\ UNCHANGED <<state, stack, stopped>>

-----------------------------------------------------------------------------
(* stop() *)

(* The entries of the stack below a process, all of them when it is not     *)
(* there.                                                                   *)
Below(p) ==
    SubSeq(stack, 1, Cardinality({i \in DOMAIN stack : \A j \in 1 .. i : stack[j] # p}))

(* The first entry of another process above it: its subprocess. *)
Above(p) ==
    LET above == {i \in DOMAIN stack : stack[i] # p /\ \E j \in 1 .. i : stack[j] = p}
    IN IF above = {} THEN NoProcess
       ELSE stack[CHOOSE i \in above : \A j \in above : i <= j]

(* stop() calls stop() of the subprocess before it changes anything itself, *)
(* and so on up the stack: the processes it is called on in turn.           *)
StopCalls(p) ==
    LET called[n \in 0 .. Cardinality(Processes)] ==
          IF n = 0 THEN p
          ELSE LET q == called[n - 1] IN
               IF q = NoProcess THEN NoProcess
               ELSE IF Alive(q) THEN Above(q) ELSE NoProcess
    IN called

(* A process that comes back in that sequence comes back for ever.          *)
Recurses(p) == StopCalls(p)[Cardinality(Processes)] # NoProcess

Victims(p) ==
    {q \in Processes : Alive(q) /\ \E n \in DOMAIN StopCalls(p) : StopCalls(p)[n] = q}

(* All of them are stopped, or those from some q on: an observer of the      *)
(* 'stop' of q has thrown, and the calls of stop() that wait for it are      *)
(* abandoned.                                                               *)
Stop(p) ==
    /\ Alive(p)
    /\ ~Recurses(p)
    /\ \E q \in Victims(p) :
         /\ state' = [v \in Processes |-> IF v \in Victims(q) THEN "killed" ELSE state[v]]
         /\ stack' = Below(q)
    /\ stopped' = stopped \cup {p}
    /\ UNCHANGED <<frames, escaped>>

(* The recursion exhausts the call stack: nothing is stopped, and the       *)
(* exception is for the code that called stop().                            *)
StopOverflows(p) ==
    /\ Alive(p)
    /\ Recurses(p)
    /\ stopped' = stopped \cup {p}
    /\ UNCHANGED <<state, stack, frames, escaped>>

Next ==
    \/ \E p \in Processes : Run(p) \/ Fire(p) \/ Stop(p) \/ StopOverflows(p)
    \/ Main
    \/ Return
    \/ Escape

Spec == Init /\ [][Next]_vars

-----------------------------------------------------------------------------
(* Properties. *)

(* When the code started from the event loop has returned, the stack holds   *)
(* one entry at most for each run() that an exception has left, and none if  *)
(* there is no such run(), however many processes were stopped meanwhile:    *)
(* calls that end otherwise leave nothing behind for the next event.         *)
LeftByEscapesOnly == frames = <<>> => Len(stack) <= Cardinality(escaped)

(* A process is `running' only as long as its run() is in progress, or for   *)
(* ever when an exception has left it: stopping others, or being stopped and *)
(* popped by the wrong call, never leaves one running.                       *)
RunningInRun ==
    \A p \in Processes :
        state[p] = "running" =>
            \/ \E i \in DOMAIN frames : frames[i].process = p /\ frames[i].call # "fire"
            \/ p \in escaped

(* A killed process stays killed, even when its main is still on the call   *)
(* stack and returns after.                                                 *)
KilledForGood == [][\A p \in Processes : state[p] = "killed" => state'[p] = "killed"]_vars

(***************************************************************************)
(* What the sources say and the code does not do.                          *)
(***************************************************************************)
(* `Get the current process': between two events there is none, and what    *)
(* the next event runs is not done in the name of one that is over.         *)
NoneBetweenEvents == frames = <<>> => Current = NoProcess

(* As long as the process whose code is running is not killed, it is the     *)
(* current one.                                                              *)
CurrentRuns ==
    frames # <<>> /\ state[Last(frames).process] # "killed" => Current = Last(frames).process

(* `Stop this process': a process stop() was called on is killed. *)
StopKills == \A p \in stopped : state[p] = "killed"
=============================================================================
