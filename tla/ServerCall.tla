---------------------------- MODULE ServerCall ----------------------------
(***************************************************************************)
(* The client's remote procedure calls: Webos.ServerCall and               *)
(* Webos.ServerCall.Group of boot/lib/servercall.js.                       *)
(*                                                                         *)
(* A call is loaded by the application, waits in the load stack to be      *)
(* joined with the other calls of the same turn of the event loop, is sent *)
(* alone or in a group over the preferred transport, is retried when the   *)
(* transport fails, moves to the next transport when the retries are used  *)
(* up, and is completed with a response or an error.  Completing a call    *)
(* runs the application's callbacks, which may load further calls before   *)
(* the first one has left the "pending" status.                            *)
(*                                                                         *)
(* JavaScript runs one handler at a time.  `handler' is the stack of       *)
(* completions under way in the running handler; an event (an answer, a    *)
(* timer) is taken from the event loop only when it is empty.              *)
(***************************************************************************)
EXTENDS Naturals, Sequences, FiniteSets

CONSTANTS
  Calls,          \* the ServerCall objects the application constructs
  Transports,     \* the registered transports, each named by its priority
  GroupCapable,   \* transports with requestsOptions.groupRequests and doRequestGroup
  Steady,         \* transports whose supports() does not change while the page lives
  Accepts,        \* [Calls -> SUBSET Transports]: canTransport() minus options.transports.skip
  Sync,           \* calls with options.async === false
  Remote,         \* calls with options.host
  Lossy,          \* transports that may leave a request without an answer
  MaxAttempts     \* Webos.ServerCall.options.maxAttempts

None == 0         \* no transport name yet

ASSUME CallsAssumption ==
  /\ Sync \subseteq Calls
  /\ Remote \subseteq Calls
  /\ Accepts \in [Calls -> SUBSET Transports]

ASSUME TransportsAssumption ==
  /\ Transports \subseteq Nat \ {None}
  /\ GroupCapable \subseteq Transports
  /\ Steady \subseteq Transports
  /\ Lossy \subseteq Transports

ASSUME AttemptsAssumption == MaxAttempts \in Nat \ {0}

(***************************************************************************)
(* The priorities of the registered transports are distinct, so the sorted *)
(* object acceptedTransports() returns is a set here: its first key is the *)
(* highest one, and a request has a next transport when there is a lower   *)
(* one among those accepted when it was sent.                              *)
(***************************************************************************)
IsFirst(t, S) == t \in S /\ \A u \in S : u <= t

HasNext(j) == \E t \in j.accepted : t < j.via

VARIABLES
  status,       \* [Calls -> 0..2]: _status (0 not sent, 1 pending, 2 completed)
  attempts,     \* [Calls -> Nat]: _nbrAttempts
  listed,       \* the calls whose slot of Webos.ServerCall.list is not null
  result,       \* [Calls -> Results]: Operation._result
  completions,  \* [Calls -> Nat]: how often setCompleted() ran (history)
  issued,       \* the calls the application has loaded (history)
  loadStack,    \* Webos.ServerCall._loadStack
  flushTimers,  \* setTimeout(..., 0) handlers of _addToLoadStack not run yet
  jobs,         \* requests in flight and retries waiting for errorDelay
  handler,      \* completions under way in the running handler, innermost first
  disabled,     \* transports with _disabled
  supported,    \* transports whose supports() returns true
  lastUsed,     \* the global usedTransportName
  busy,         \* the last notification was 'start', not 'complete'
  shown         \* pending queries counted by the network indicator

callVars      == <<status, attempts, listed, result, completions, issued>>
queueVars     == <<loadStack, flushTimers, jobs, handler>>
transportVars == <<disabled, supported, lastUsed>>
noticeVars    == <<busy, shown>>
vars == <<callVars, queueVars, transportVars, noticeVars>>

Replies == {"response", "malformed", "unreachable", "no transport"}
Results == Replies \cup {"none"}

Frames == [call : Calls, result : Replies, phase : {"begin", "callbacks"}]

(***************************************************************************)
(* A job is one request handed to a transport (phase "sent") or one        *)
(* setTimeout(load, errorDelay) waiting to repeat it (phase "retry").      *)
(* `tries' is _nbrAttempts of a group; a single call keeps its own.        *)
(***************************************************************************)
Jobs == [group : BOOLEAN, members : Seq(Calls) \ {<<>>}, tries : Nat, via : Transports,
         accepted : SUBSET Transports, phase : {"sent", "retry"}]

Pending == {c \in Calls : status[c] = 1}

InSeq(c, s) == \E i \in DOMAIN s : s[i] = c

(* acceptedTransports() of a call, and of a group of calls. *)
Accepted(c, off) == {t \in Accepts[c] : t \in supported /\ t \notin off}

(* Mutant: the count of accepting calls is compared off by one. *)
AcceptedByAllButOne(ms, off) ==
  {t \in GroupCapable :
     Cardinality({i \in DOMAIN ms : t \in Accepted(ms[i], off)}) = Len(ms) - 1}

AcceptedByAll(ms, off) ==
  {t \in GroupCapable : \A i \in DOMAIN ms : t \in Accepted(ms[i], off)}

(***************************************************************************)
(* A synchronous request blocks the page until the transport answers it.   *)
(***************************************************************************)
IsSync(j) == j.phase = "sent" /\ \E i \in DOMAIN j.members : j.members[i] \in Sync

Blocked == \E j \in jobs : IsSync(j)

EventLoop == handler = <<>> /\ ~Blocked

(* Application code runs from the event loop or in a completion callback. *)
Application ==
  /\ ~Blocked
  /\ handler # <<>> => Head(handler).phase = "callbacks"

-----------------------------------------------------------------------------
(* The parts of a step that several handlers share. *)

(* Sending the calls of ms, alone or as a group; `js' is what jobs holds     *)
(* beside them.  Without an accepted transport they complete at once, unless *)
(* no call has set the global usedTransportName yet: reading it throws, and  *)
(* the calls go nowhere.                                                     *)
Sent(group, ms, tries, acc, via) ==
  [group |-> group, members |-> ms, tries |-> tries, via |-> via,
   accepted |-> acc, phase |-> "sent"]

Complete(ms, r) ==
  handler' = [i \in 1 .. Len(ms) |-> [call |-> ms[i], result |-> r, phase |-> "begin"]]
               \o handler

Dispatch(group, ms, tries, acc, js) ==
  \/ \E via \in Transports :
       /\ IsFirst(via, acc)
       /\ jobs' = js \cup {Sent(group, ms, tries, acc, via)}
       /\ lastUsed' = via
       /\ UNCHANGED handler
  \/ /\ acc = {}
     /\ IF lastUsed = None THEN UNCHANGED handler ELSE Complete(ms, "no transport")
     /\ jobs' = js
     /\ UNCHANGED lastUsed

DispatchCall(c, js) == Dispatch(FALSE, <<c>>, 0, Accepted(c, disabled), js)

DispatchGroup(ms, tries, off, js) ==
  Dispatch(TRUE, ms, tries, AcceptedByAll(ms, off), js)

(* setStarted() and callStart(): `before' is _nbrAttempts when it is called. *)
SetStarted(c, before) ==
  /\ status' = [status EXCEPT ![c] = 1]
  /\ attempts' = [attempts EXCEPT ![c] = before + 1]
  /\ IF before = 0
     THEN /\ busy' = (busy \/ Pending \cup {c} = {c})
          /\ shown' = shown + 1
     ELSE UNCHANGED noticeVars

AddToLoadStack(c) ==
  /\ loadStack' = Append(loadStack, c)
  /\ flushTimers' = IF Len(loadStack) = 0 THEN flushTimers + 1 ELSE flushTimers

(* ServerCall#load, once setStarted() is done: the call is grouped unless it *)
(* is synchronous, remote, or its preferred transport does not group.  The   *)
(* preferred transport is read from the global usedTransportName, which      *)
(* keeps its old value when no transport accepts the call.                   *)
Ungrouped(c, t) == c \in Sync \/ c \in Remote \/ t \notin GroupCapable

Route(c, off, js) ==
  LET acc == Accepted(c, off) IN
  \E t \in Transports \cup {None} :
    /\ IF acc = {} THEN t = lastUsed ELSE IsFirst(t, acc)
    /\ \/ /\ t # None /\ Ungrouped(c, t)
          /\ Dispatch(FALSE, <<c>>, 0, acc, js)
          /\ UNCHANGED <<loadStack, flushTimers>>
       \/ /\ t # None /\ ~Ungrouped(c, t)
          /\ AddToLoadStack(c)
          /\ lastUsed' = t
          /\ jobs' = js
          /\ UNCHANGED handler
       \/ /\ t = None
          /\ jobs' = js
          /\ UNCHANGED <<loadStack, flushTimers, lastUsed, handler>>

-----------------------------------------------------------------------------
(* The handlers. *)

Init ==
  /\ status = [c \in Calls |-> 0]
  /\ attempts = [c \in Calls |-> 0]
  /\ listed = Calls
  /\ result = [c \in Calls |-> "none"]
  /\ completions = [c \in Calls |-> 0]
  /\ issued = {}
  /\ loadStack = <<>>
  /\ flushTimers = 0
  /\ jobs = {}
  /\ handler = <<>>
  /\ disabled = {}
  /\ supported \in {S \in SUBSET Transports : Steady \subseteq S}
  /\ lastUsed = None
  /\ busy = FALSE
  /\ shown = 0

(* The application loads a call it has not loaded before. *)
Load(c) ==
  /\ Application
  /\ c \notin issued
  /\ issued' = issued \cup {c}
  /\ SetStarted(c, attempts[c])
  /\ Route(c, disabled, jobs)
  /\ UNCHANGED <<listed, result, completions, disabled, supported>>

(* ScriptFile.load: a group of fresh synchronous calls loaded directly.  A   *)
(* group of one sends its call without setStarted(); a larger one starts its *)
(* calls in doRequestGroup, when there is a transport.                       *)
LoadScripts(ms) ==
  /\ Application
  /\ ms # <<>>
  /\ \A i, k \in DOMAIN ms : ms[i] = ms[k] => i = k
  /\ \A i \in DOMAIN ms : ms[i] \in Sync \ issued
  /\ issued' = issued \cup {ms[i] : i \in DOMAIN ms}
  /\ \/ /\ Len(ms) = 1
        /\ DispatchCall(ms[1], jobs)
        /\ UNCHANGED <<status, attempts, busy, shown>>
     \/ /\ Len(ms) > 1
        /\ DispatchGroup(ms, 1, disabled, jobs)
        /\ IF AcceptedByAll(ms, disabled) = {}
           THEN UNCHANGED <<status, attempts, busy, shown>>
           ELSE /\ status' = [c \in Calls |-> IF InSeq(c, ms) THEN 1 ELSE status[c]]
                /\ attempts' = [c \in Calls |-> IF InSeq(c, ms) THEN 1 ELSE attempts[c]]
                /\ busy' = (busy \/ Pending = {})
                /\ shown' = shown + Len(ms)
  /\ UNCHANGED <<listed, result, completions, loadStack, flushTimers, disabled, supported>>

(* Mutant: only the first call of the stack leaves. *)
FlushHead ==
  /\ EventLoop
  /\ flushTimers > 0
  /\ flushTimers' = flushTimers - 1
  /\ loadStack' = <<>>
  /\ DispatchCall(loadStack[1], jobs)
  /\ UNCHANGED <<callVars, disabled, supported, noticeVars>>

(* Mutant: the stack is not emptied. *)
FlushKeepingStack ==
  /\ EventLoop
  /\ flushTimers > 0
  /\ flushTimers' = flushTimers - 1
  /\ DispatchGroup(loadStack, 0, disabled, jobs)
  /\ UNCHANGED <<callVars, loadStack, disabled, supported, noticeVars>>

(* The timer of _addToLoadStack: the calls of the stack leave in a group. *)
FlushLoadStack ==
  /\ EventLoop
  /\ flushTimers > 0
  /\ flushTimers' = flushTimers - 1
  /\ loadStack' = <<>>
  /\ IF Len(loadStack) = 1
     THEN DispatchCall(loadStack[1], jobs)
     ELSE DispatchGroup(loadStack, 0, disabled, jobs)
  /\ UNCHANGED <<callVars, disabled, supported, noticeVars>>

(* The transport answers in its own turn, or at once to a synchronous call. *)
CanAnswer(j) ==
  /\ j.phase = "sent"
  /\ IF Blocked THEN IsSync(j) ELSE handler = <<>>

(* Success callback of doRequest and doRequestGroup. *)
Respond(j) ==
  /\ CanAnswer(j)
  /\ jobs' = jobs \ {j}
  /\ \E r \in {"response", "malformed"} : Complete(j.members, r)
  /\ UNCHANGED <<callVars, loadStack, flushTimers, transportVars, noticeVars>>

Tries(j) == IF j.group THEN j.tries ELSE attempts[j.members[1]]

(* Mutant: the retry is armed and the request still counts as unanswered. *)
FailRetryUnsettled(j) ==
  /\ CanAnswer(j)
  /\ Tries(j) < MaxAttempts /\ j.via \notin disabled
  /\ jobs' = jobs \cup {[j EXCEPT !.phase = "retry"]}
  /\ UNCHANGED <<callVars, loadStack, flushTimers, handler, transportVars, noticeVars>>

(* Mutant: the timer is never armed. *)
FailRetryNoTimer(j) ==
  /\ CanAnswer(j)
  /\ Tries(j) < MaxAttempts /\ j.via \notin disabled
  /\ jobs' = jobs \ {j}
  /\ UNCHANGED <<callVars, loadStack, flushTimers, handler, transportVars, noticeVars>>

(* Error callback of doRequest and doRequestGroup: try again later, *)
FailRetry(j) ==
  /\ CanAnswer(j)
  /\ Tries(j) < MaxAttempts /\ j.via \notin disabled
  /\ jobs' = (jobs \ {j}) \cup {[j EXCEPT !.phase = "retry"]}
  /\ UNCHANGED <<callVars, loadStack, flushTimers, handler, transportVars, noticeVars>>

(* Mutant: the transport that comes next is disabled, not the one that failed. *)
FailOverDisablingNext(j) ==
  /\ CanAnswer(j)
  /\ Tries(j) >= MaxAttempts \/ j.via \in disabled
  /\ HasNext(j)
  /\ LET off == disabled \cup {t \in j.accepted : t < j.via} IN
     /\ disabled' = off
     /\ \/ /\ j.group
           /\ DispatchGroup(j.members, 1, off, jobs \ {j})
           /\ UNCHANGED <<status, attempts, loadStack, flushTimers, noticeVars>>
        \/ /\ ~j.group
           /\ SetStarted(j.members[1], 0)
           /\ Route(j.members[1], off, jobs \ {j})
  /\ UNCHANGED <<listed, result, completions, issued, supported>>

(* then with the next transport, which disables the one that failed, *)
FailOver(j) ==
  /\ CanAnswer(j)
  /\ Tries(j) >= MaxAttempts \/ j.via \in disabled
  /\ HasNext(j)
  /\ LET off == disabled \cup {j.via} IN
     /\ disabled' = off
     /\ \/ /\ j.group
           /\ DispatchGroup(j.members, 1, off, jobs \ {j})
           /\ UNCHANGED <<status, attempts, loadStack, flushTimers, noticeVars>>
        \/ /\ ~j.group
           /\ SetStarted(j.members[1], 0)
           /\ Route(j.members[1], off, jobs \ {j})
  /\ UNCHANGED <<listed, result, completions, issued, supported>>

(* and give up when there is none. *)
FailFinally(j) ==
  /\ CanAnswer(j)
  /\ Tries(j) >= MaxAttempts \/ j.via \in disabled
  /\ ~HasNext(j)
  /\ jobs' = jobs \ {j}
  /\ Complete(j.members, "unreachable")
  /\ UNCHANGED <<callVars, loadStack, flushTimers, transportVars, noticeVars>>

(* The errorDelay timer: load() again, on the call or on the group. *)
Retry(j) ==
  /\ EventLoop
  /\ j.phase = "retry"
  /\ \/ /\ j.group
        /\ DispatchGroup(j.members, j.tries + 1, disabled, jobs \ {j})
        /\ UNCHANGED <<status, attempts, loadStack, flushTimers, noticeVars>>
     \/ /\ ~j.group
        /\ SetStarted(j.members[1], attempts[j.members[1]])
        /\ Route(j.members[1], disabled, jobs \ {j})
  /\ UNCHANGED <<listed, result, completions, issued, disabled, supported>>

(* setCompleted(), up to the callbacks: Operation#setCompleted sets the      *)
(* result and triggers 'complete', 'success' or 'error' while the call still *)
(* has the status it had.                                                    *)
BeginCompletion ==
  /\ ~Blocked
  /\ handler # <<>> /\ Head(handler).phase = "begin"
  /\ LET f == Head(handler) IN
     /\ completions' = [completions EXCEPT ![f.call] = @ + 1]
     /\ result' = [result EXCEPT ![f.call] = f.result]
     /\ handler' = <<[f EXCEPT !.phase = "callbacks"]>> \o Tail(handler)
  /\ UNCHANGED <<status, attempts, listed, issued, loadStack, flushTimers, jobs,
                 transportVars, noticeVars>>

(* Mutant: 'complete' is notified while other calls are pending. *)
EndCompletionIdle ==
  /\ ~Blocked
  /\ handler # <<>> /\ Head(handler).phase = "callbacks"
  /\ LET c == Head(handler).call IN
     /\ status' = [status EXCEPT ![c] = 2]
     /\ shown' = IF shown > 0 THEN shown - 1 ELSE 0
     /\ listed' = listed \ {c}
  /\ busy' = FALSE
  /\ handler' = Tail(handler)
  /\ UNCHANGED <<attempts, result, completions, issued, loadStack, flushTimers, jobs,
                 transportVars>>

(* Mutant: the indicator counts down below zero. *)
EndCompletionUnclamped ==
  /\ ~Blocked
  /\ handler # <<>> /\ Head(handler).phase = "callbacks"
  /\ LET c == Head(handler).call IN
     /\ status' = [status EXCEPT ![c] = 2]
     /\ busy' = (busy /\ Pending \ {c} # {})
     /\ listed' = listed \ {c}
  /\ shown' = IF shown = 0 THEN 0 - 1 ELSE shown - 1
  /\ handler' = Tail(handler)
  /\ UNCHANGED <<attempts, result, completions, issued, loadStack, flushTimers, jobs,
                 transportVars>>

(* setCompleted(), after the callbacks: the status, callComplete(). *)
EndCompletion ==
  /\ ~Blocked
  /\ handler # <<>> /\ Head(handler).phase = "callbacks"
  /\ LET c == Head(handler).call IN
     /\ status' = [status EXCEPT ![c] = 2]
     /\ busy' = (busy /\ Pending \ {c} # {})
     /\ shown' = IF shown > 0 THEN shown - 1 ELSE 0
     /\ listed' = listed \ {c}
  /\ handler' = Tail(handler)
  /\ UNCHANGED <<attempts, result, completions, issued, loadStack, flushTimers, jobs,
                 transportVars>>

(* What the page learns about a transport that is not steady: the WebSocket  *)
(* server is up or down, its libraries are loading,                          *)
SupportChanges(t) ==
  /\ Application
  /\ t \in Transports \ Steady
  /\ supported' = IF t \in supported THEN supported \ {t} ELSE supported \cup {t}
  /\ UNCHANGED <<callVars, queueVars, disabled, lastUsed, noticeVars>>

(* or connect() finds the server not enabled, or not started, and disables it. *)
ConnectRefused(t) ==
  /\ Application
  /\ t \in Transports \ Steady
  /\ disabled' = disabled \cup {t}
  /\ UNCHANGED <<callVars, queueVars, supported, lastUsed, noticeVars>>

(* ScriptFile.load takes any number of paths; two show what a group does. *)
ScriptGroups == {<<c>> : c \in Sync} \cup {<<c, d>> : c, d \in Sync}

Answer(j) == Respond(j) \/ FailRetry(j) \/ FailOver(j) \/ FailFinally(j)

System ==
  \/ FlushLoadStack
  \/ \E j \in jobs : Retry(j)
  \/ BeginCompletion
  \/ EndCompletion

Environment ==
  \/ \E c \in Calls : Load(c)
  \/ \E ms \in ScriptGroups : LoadScripts(ms)
  \/ \E t \in Transports : SupportChanges(t) \/ ConnectRefused(t)

Next == System \/ Environment \/ \E j \in jobs : Answer(j)

Spec == Init /\ [][Next]_vars

(***************************************************************************)
(* The browser runs the timers and finishes the handlers it has started,   *)
(* and a transport outside Lossy answers every request: $.ajax calls       *)
(* success or error.  A WebSocket request has no such guarantee: onClose   *)
(* only writes to the console.                                             *)
(***************************************************************************)
Fairness ==
  /\ WF_vars(System)
  /\ WF_vars(\E j \in jobs : j.via \notin Lossy /\ Answer(j))

FairSpec == Spec /\ Fairness

-----------------------------------------------------------------------------
(* The promise this module keeps: asked are the issued calls, the reply of a *)
(* call is the result of its Operation, and withheld are the calls in a      *)
(* request over a transport that owes no answer.                             *)
Carried(j, c) == InSeq(c, j.members)
Kept(c) == \E j \in jobs : j.phase = "sent" /\ j.via \in Lossy /\ Carried(j, c)

RR == INSTANCE RequestReply
        WITH asked <- issued, reply <- result, withheld <- {c \in Calls : Kept(c)}

-----------------------------------------------------------------------------
(* Properties. *)

TypeOK ==
  /\ status \in [Calls -> 0 .. 2]
  /\ attempts \in [Calls -> Nat]
  /\ listed \subseteq Calls
  /\ result \in [Calls -> Results]
  /\ completions \in [Calls -> Nat]
  /\ issued \subseteq Calls
  /\ loadStack \in Seq(Calls)
  /\ flushTimers \in Nat
  /\ jobs \subseteq Jobs
  /\ handler \in Seq(Frames)
  /\ disabled \subseteq Transports
  /\ supported \subseteq Transports
  /\ lastUsed \in Transports \cup {None}
  /\ busy \in BOOLEAN
  /\ shown \in Nat

(* Where a call that is not completed can be waiting. *)
Completing(c) == \E i \in DOMAIN handler : handler[i].call = c
Owned(c) == InSeq(c, loadStack) \/ Completing(c) \/ \E j \in jobs : Carried(j, c)

Distinct(s) == \A i, k \in DOMAIN s : s[i] = s[k] => i = k

Exclusive(stack, js, frames) ==
  /\ Distinct(stack)
  /\ \A i, k \in DOMAIN frames : frames[i].call = frames[k].call => i = k
  /\ \A j \in js : Distinct(j.members)
  /\ \A j, k \in js : \A c \in Calls : Carried(j, c) /\ Carried(k, c) => j = k
  /\ \A i \in DOMAIN frames : ~InSeq(frames[i].call, stack)
  /\ \A j \in js : \A i \in DOMAIN frames : ~Carried(j, frames[i].call)
  /\ \A j \in js : \A c \in Calls : Carried(j, c) => ~InSeq(c, stack)

(***************************************************************************)
(* A loaded call waits in one place only: once in the load stack, in one   *)
(* request or retry, or in one completion.  Two places would answer it     *)
(* twice and send its command to the server twice.                         *)
(***************************************************************************)
OneOwner == Exclusive(loadStack, jobs, handler)

(* The application's callbacks run at most once for a call, whatever the    *)
(* retries, the fallbacks and the calls its callbacks load.                 *)
CompletedOnce == \A c \in Calls : completions[c] <= 1

(* The load stack is never left without a timer to flush it, and never with *)
(* two: _addToLoadStack arms one for the first call only.                   *)
FlushArmed == flushTimers = IF loadStack = <<>> THEN 0 ELSE 1

(***************************************************************************)
(* Why: the places are exclusive, what waits to be sent or answered has     *)
(* not been completed, and a completion under way runs exactly once.  The   *)
(* handlers move calls between the places, so this speaks of any content of *)
(* the places and any set of asked calls.                                   *)
(***************************************************************************)
Traced(stack, js, frames, asked) ==
  /\ Exclusive(stack, js, frames)
  /\ \A c \in Calls :
       InSeq(c, stack) \/ (\E j \in js : Carried(j, c)) => c \in asked /\ completions[c] = 0
  /\ \A i \in DOMAIN frames :
       /\ frames[i].call \in asked
       /\ completions[frames[i].call] = IF frames[i].phase = "begin" THEN 0 ELSE 1
  /\ \A c \in Calls \ asked : completions[c] = 0

(* The status of a call follows its attempts and its completion. *)
StatusFollows ==
  \A c \in Calls :
    /\ status[c] = 0 => attempts[c] = 0
    /\ status[c] = 2 => completions[c] = 1
    /\ result[c] = "none" <=> completions[c] = 0

(* The inductive invariant behind OneOwner, CompletedOnce and Promise. *)
Bookkeeping ==
  /\ Traced(loadStack, jobs, handler, issued)
  /\ StatusFollows
  /\ CompletedOnce

(* The transport of lowest priority, when it is always there (ajax). *)
LastResort(t) == t \in Steady /\ \A u \in Transports : t <= u

(* However many calls fail over, the last resort stays enabled: a transport *)
(* is disabled only to move to one below it.                                *)
LastResortEnabled == \A t \in Transports : LastResort(t) => t \notin disabled

(* A call the last resort can carry is never answered 'No transport          *)
(* available to send request', alone or in a group.                          *)
LastResortFound ==
  \A t \in GroupCapable, c \in Calls :
    LastResort(t) /\ t \in Accepts[c] => result[c] # "no transport"

(* No call is forgotten: one the last resort can carry is waiting somewhere *)
(* from the moment it is loaded until it is completed.                      *)
NoneForgotten ==
  \A t \in Transports, c \in issued :
    LastResort(t) /\ t \in Accepts[c] => Owned(c) \/ status[c] = 2

(* The page's 'start' and 'complete' notifications: the page shows activity *)
(* exactly while some call is pending, although a call stays pending during *)
(* its callbacks and these load other calls.                                *)
BusyWhilePending == busy <=> Pending # {}

(* A completed call is never sent or answered again. *)
NeverReopened ==
  [][\A c \in Calls : status[c] = 2 =>
       /\ status'[c] = 2
       /\ result'[c] = result[c]
       /\ ~\E j \in jobs' : Carried(j, c)]_vars

(* A request that the last resort can carry is answered `no working          *)
(* transport found' only once the last resort itself has failed it and the   *)
(* retries are used up: whatever fails beside it and whatever is disabled    *)
(* meanwhile, a call is not given up while a transport is left to try.       *)
UnreachableAtLast ==
  [][\A j \in jobs \ jobs', t \in GroupCapable :
       /\ handler' # handler /\ handler'[1].result = "unreachable"
       /\ LastResort(t) /\ \A i \in DOMAIN j.members : t \in Accepts[j.members[i]]
       => j.via = t /\ Tries(j) >= MaxAttempts]_vars

(* One reply per loaded call, and never another: the steps this module takes *)
(* are steps of RequestReply or leave its variables alone.                   *)
Promise == RR!RRSafety

(* Also: every loaded call gets its reply, unless it stays for ever in a     *)
(* request that its transport never answers.                                 *)
PromiseKept == RR!RRSpec

(***************************************************************************)
(* What the sources say and the code does not do.                          *)
(***************************************************************************)
(* `getCompletedCalls: Get the number of completed calls' (and user.js reads *)
(* the last of them): a completed call is still in the list.                 *)
CompletedCallsListed == \A c \in Calls : status[c] = 2 => c \in listed

(* `Queries being loaded : ${pending}': what the network indicator shows is *)
(* the number of pending calls, when no completion is under way.            *)
IndicatorCountsPending == handler = <<>> => shown = Cardinality(Pending)

(* `The number of attempts to execute this server calls group': a request in *)
(* flight has been counted.                                                  *)
AttemptsCounted == \A j \in jobs : j.phase = "sent" => Tries(j) >= 1
=============================================================================
