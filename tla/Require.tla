------------------------------ MODULE Require ------------------------------
(***************************************************************************)
(* Webos.require(): loading scripts that require other scripts.            *)
(*                                                                         *)
(* A script that is executed may require others.  The calls it makes while *)
(* its body runs are put on a stack of its own, and the script counts as   *)
(* loaded when all of them have succeeded.  Everything happens in one      *)
(* thread: `work' is the JavaScript stack, whose frames are run one by one *)
(* before the next answer or timer is looked at.                           *)
(***************************************************************************)
EXTENDS Integers, Sequences, FiniteSets, SequencesExt

CONSTANTS
  Files,     \* paths of scripts
  Deps,      \* [Files -> Seq(Files)]: what a script requires in its body
  Later,     \* [Files -> Seq(Files)]: what it requires in the callback of that
  Depth,     \* [Files -> Nat]: requires go down, there is no cycle
  Optional,  \* files that are required with the option `optionnal'
  Lists,     \* what the rest of the system requires
  MaxCalls,  \* bound: calls of require() that no script makes
  MaxFails   \* bound: reads that fail

None == "none"
Nested == "nested"   \* the owner of what a script requires in a callback

ASSUME DepsAssumption ==
  /\ Deps \in [Files -> Seq(Files)]
  /\ Later \in [Files -> Seq(Files)]
  /\ Depth \in [Files -> Nat]
  /\ \A f \in Files : \A g \in ToSet(Deps[f]) \cup ToSet(Later[f]) : Depth[g] < Depth[f]
  /\ \A f \in Files : Deps[f] = <<>> => Later[f] = <<>>

ASSUME ListsAssumption ==
  /\ Lists \subseteq Seq(Files) \ {<<>>}
  /\ Optional \subseteq Files
  /\ None \notin Files /\ Nested \notin Files
  /\ MaxCalls \in Nat /\ MaxFails \in Nat

VARIABLES
  calls,     \* Seq: the calls of require(), each with its loadOperation
  groups,    \* Seq: executed scripts that wait for the calls on their stack
  cache,     \* Webos.require._cache: the scripts that are loaded
  stacks,    \* Webos.require._stacks: calls, for some of the scripts
  current,   \* Webos.require._currentFile
  text,      \* files whose contents are there (File#_contents)
  waiters,   \* [Files -> Seq(<<call, index>>)]: who waits for the contents
  work,      \* Seq(frame): what the thread has still to do, first one first
  timers,    \* {<<group, call>>}: observers of calls that had succeeded before
  asked,     \* calls no script has made
  executed,  \* [Files -> Nat]: times the script has been executed (history)
  failed     \* [Files -> Nat]: times its contents could not be read (history)

vars == <<calls, groups, cache, stacks, current, text, waiters, work, timers, asked, executed, failed>>

Init ==
  /\ calls = <<>>
  /\ groups = <<>>
  /\ cache = {}
  /\ stacks = [f \in {} |-> {}]
  /\ current = None
  /\ text = {}
  /\ waiters = [f \in Files |-> <<>>]
  /\ work = <<>>
  /\ timers = {}
  /\ asked = 0
  /\ executed = [f \in Files |-> 0]
  /\ failed = [f \in Files |-> 0]

-----------------------------------------------------------------------------
(* Frames. *)

RequireFrame(list, owner) == [do |-> "require", list |-> list, owner |-> owner]
HandleFrame(c, i)   == [do |-> "handle", call |-> c, index |-> i]
ProcessFrame(c, i)  == [do |-> "process", call |-> c, index |-> i]
RanFrame(c, i, f)   == [do |-> "ran", call |-> c, index |-> i, previous |-> f]
LoadedFrame(c, i)   == [do |-> "loaded", call |-> c, index |-> i]
AttachFrame(c)      == [do |-> "attach", call |-> c]
CallbackFrame(c)    == [do |-> "callback", call |-> c]
CompleteFrame(c)    == [do |-> "complete", call |-> c]
NotifyFrame(g, c)   == [do |-> "notify", group |-> g, call |-> c]

Top == Head(work)
Running(do) == work # <<>> /\ Top.do = do
Proceed(frames) == work' = frames \o Tail(work)
File == calls[Top.call].files[Top.index]

-----------------------------------------------------------------------------
(* require() itself. *)

Begin ==
  /\ Running("require")
  /\ LET c == Len(calls) + 1 IN
     /\ calls' = Append(calls, [files |-> Top.list, owner |-> Top.owner, loadedFiles |-> 0,
                                succeeded |-> FALSE, erred |-> FALSE])
     /\ Proceed([i \in DOMAIN Top.list |-> HandleFrame(c, i)] \o <<AttachFrame(c)>>)
  /\ UNCHANGED <<groups, cache, stacks, current, text, waiters, timers, asked, executed, failed>>

(* handleFile(): a loaded script is not executed again; contents that are   *)
(* there come at once, and one request serves all who wait for the others.  *)
Handle ==
  /\ Running("handle")
  /\ \/ /\ File \in cache
        /\ Proceed(<<LoadedFrame(Top.call, Top.index)>>)
        /\ UNCHANGED waiters
     \/ /\ File \notin cache
        /\ File \in text
        /\ Proceed(<<ProcessFrame(Top.call, Top.index)>>)
        /\ UNCHANGED waiters
     \/ /\ File \notin cache
        /\ File \notin text
        /\ waiters' = [waiters EXCEPT ![File] = Append(@, <<Top.call, Top.index>>)]
        /\ Proceed(<<>>)
  /\ UNCHANGED <<calls, groups, cache, stacks, current, text, timers, asked, executed, failed>>

(* The end of require(): the call goes on the stack of the current script. *)
Attach ==
  /\ Running("attach")
  /\ stacks' = IF current = None THEN stacks
               ELSE [stacks EXCEPT ![current] = @ \cup {Top.call}]
  /\ Proceed(<<>>)
  /\ UNCHANGED <<calls, groups, cache, current, text, waiters, timers, asked, executed, failed>>

(* processFile(): the body runs, and makes its calls. *)
Process ==
  /\ Running("process")
  /\ \/ /\ File \in cache
        /\ Proceed(<<LoadedFrame(Top.call, Top.index)>>)
        /\ UNCHANGED <<stacks, current, executed>>
     \/ /\ File \notin cache
        /\ stacks' = [f \in DOMAIN stacks \cup {File} |-> IF f = File THEN {} ELSE stacks[f]]
        /\ current' = File
        /\ executed' = [executed EXCEPT ![File] = @ + 1]
        /\ Proceed((IF Deps[File] = <<>> THEN <<>> ELSE <<RequireFrame(Deps[File], File)>>)
                   \o <<RanFrame(Top.call, Top.index, current)>>)
  /\ UNCHANGED <<calls, groups, cache, text, waiters, timers, asked, failed>>

(* A mutant: the script does not wait for what it requires. *)
RanAtOnce ==
  /\ Running("ran")
  /\ current' = Top.previous
  /\ Proceed(<<LoadedFrame(Top.call, Top.index)>>)
  /\ UNCHANGED <<calls, groups, cache, stacks, text, waiters, timers, asked, executed, failed>>

(* The body has run: the script waits for the calls on its stack, unless    *)
(* they have all succeeded.  Those that have tell the group by a timer.     *)
Ran ==
  /\ Running("ran")
  /\ current' = Top.previous
  /\ LET stack == IF File \in DOMAIN stacks THEN stacks[File] ELSE {}
         over  == {c \in stack : calls[c].succeeded} IN
     \/ /\ File \in Optional \/ over = stack
        /\ Proceed(<<LoadedFrame(Top.call, Top.index)>>)
        /\ UNCHANGED <<groups, timers>>
     \/ /\ File \notin Optional /\ over # stack
        /\ groups' = Append(groups, [call |-> Top.call, index |-> Top.index, on |-> stack,
                                     nbrNotifications |-> 0])
        /\ timers' = timers \cup ({Len(groups) + 1} \X over)
        /\ Proceed(<<>>)
  /\ UNCHANGED <<calls, cache, stacks, text, waiters, asked, executed, failed>>

(* A mutant: all the stacks are dropped, not that of the script alone. *)
LoadedDropsAll ==
  /\ Running("loaded")
  /\ LET c == Top.call IN
     /\ cache' = cache \cup {File}
     /\ stacks' = Restrict(stacks, {})
     /\ calls' = [calls EXCEPT ![c].loadedFiles = @ + 1]
     /\ Proceed(IF calls[c].loadedFiles + 1 = Len(calls[c].files)
                THEN <<CallbackFrame(c), CompleteFrame(c)>> ELSE <<>>)
  /\ UNCHANGED <<groups, current, text, waiters, timers, asked, executed, failed>>

(* onLoadFn(). *)
Loaded ==
  /\ Running("loaded")
  /\ LET c == Top.call IN
     /\ cache' = cache \cup {File}
     /\ stacks' = Restrict(stacks, DOMAIN stacks \ {File})
     /\ calls' = [calls EXCEPT ![c].loadedFiles = @ + 1]
     /\ Proceed(IF calls[c].loadedFiles + 1 = Len(calls[c].files)
                THEN <<CallbackFrame(c), CompleteFrame(c)>> ELSE <<>>)
  /\ UNCHANGED <<groups, current, text, waiters, timers, asked, executed, failed>>

(* The caller's callback: a script may go on requiring, lower ones, and so  *)
(* may the rest of the system, whatever it wants.                           *)
CallBack ==
  /\ Running("callback")
  /\ LET owner == calls[Top.call].owner IN
     \/ /\ owner \in Files /\ Later[owner] # <<>>
        /\ Proceed(<<RequireFrame(Later[owner], Nested)>>)
        /\ UNCHANGED asked
     \/ /\ owner \in Files => Later[owner] = <<>>
        /\ Proceed(<<>>)
        /\ UNCHANGED asked
     \/ \E list \in Lists :
          /\ owner = None /\ asked < MaxCalls
          /\ Proceed(<<RequireFrame(list, None)>>)
          /\ asked' = asked + 1
  /\ UNCHANGED <<calls, groups, cache, stacks, current, text, waiters, timers, executed, failed>>

(* A mutant: every group is told, whatever it observes. *)
CompleteTellsAll ==
  /\ Running("complete")
  /\ calls' = [calls EXCEPT ![Top.call].succeeded = TRUE]
  /\ Proceed([g \in DOMAIN groups |-> NotifyFrame(g, Top.call)])
  /\ UNCHANGED <<groups, cache, stacks, current, text, waiters, timers, asked, executed, failed>>

(* loadOperation.setCompleted(true) tells the groups that observe it, the   *)
(* oldest one first.                                                        *)
Complete ==
  /\ Running("complete")
  /\ calls' = [calls EXCEPT ![Top.call].succeeded = TRUE]
  /\ LET observing == {g \in DOMAIN groups : Top.call \in groups[g].on} IN
     \E told \in [1 .. Cardinality(observing) -> observing] :
       /\ \A i, k \in DOMAIN told : i < k => told[i] < told[k]
       /\ Proceed([k \in DOMAIN told |-> NotifyFrame(told[k], Top.call)])
  /\ UNCHANGED <<groups, cache, stacks, current, text, waiters, timers, asked, executed, failed>>

(* A mutant: the group waits for one notification too many. *)
NotifyPast ==
  /\ Running("notify")
  /\ LET g == groups[Top.group] IN
     /\ groups' = [groups EXCEPT ![Top.group].nbrNotifications = @ + 1]
     /\ Proceed(IF g.nbrNotifications >= Cardinality(g.on) THEN <<LoadedFrame(g.call, g.index)>>
                ELSE <<>>)
  /\ UNCHANGED <<calls, cache, stacks, current, text, waiters, timers, asked, executed, failed>>

(* The group's observer of one call. *)
Notify ==
  /\ Running("notify")
  /\ LET g == groups[Top.group] IN
     /\ groups' = [groups EXCEPT ![Top.group].nbrNotifications = @ + 1]
     /\ Proceed(IF g.nbrNotifications + 1 >= Cardinality(g.on) THEN <<LoadedFrame(g.call, g.index)>>
                ELSE <<>>)
  /\ UNCHANGED <<calls, cache, stacks, current, text, waiters, timers, asked, executed, failed>>

-----------------------------------------------------------------------------
(* What the thread waits for. *)

Ask ==
  /\ work = <<>>
  /\ asked < MaxCalls
  /\ asked' = asked + 1
  /\ \E list \in Lists : work' = <<RequireFrame(list, None)>>
  /\ UNCHANGED <<calls, groups, cache, stacks, current, text, waiters, timers, executed, failed>>

(* The contents are there: everyone who waits for them goes on, in order. *)
Answer(f) ==
  /\ work = <<>>
  /\ waiters[f] # <<>>
  /\ text' = text \cup {f}
  /\ waiters' = [waiters EXCEPT ![f] = <<>>]
  /\ work' = [k \in DOMAIN waiters[f] |-> ProcessFrame(waiters[f][k][1], waiters[f][k][2])]
  /\ UNCHANGED <<calls, groups, cache, stacks, current, timers, asked, executed, failed>>

(* They cannot be read: everyone's callback is told, and nobody else. *)
Fail(f) ==
  /\ work = <<>>
  /\ waiters[f] # <<>>
  /\ FoldSet(LAMBDA g, n : failed[g] + n, 0, Files) < MaxFails
  /\ failed' = [failed EXCEPT ![f] = @ + 1]
  /\ waiters' = [waiters EXCEPT ![f] = <<>>]
  /\ calls' = [c \in DOMAIN calls |->
                 IF \E k \in DOMAIN waiters[f] : waiters[f][k][1] = c
                 THEN [calls[c] EXCEPT !.erred = TRUE] ELSE calls[c]]
  /\ UNCHANGED <<groups, cache, stacks, current, text, work, timers, asked, executed>>

Timer ==
  /\ work = <<>>
  /\ \E t \in timers :
       /\ timers' = timers \ {t}
       /\ work' = <<NotifyFrame(t[1], t[2])>>
  /\ UNCHANGED <<calls, groups, cache, stacks, current, text, waiters, asked, executed, failed>>

Thread ==
  \/ Begin \/ Handle \/ Attach \/ Process \/ Ran \/ Loaded \/ CallBack \/ Complete \/ Notify

Next == Thread \/ Ask \/ Timer \/ \E f \in Files : Answer(f) \/ Fail(f)

(* The browser runs its thread, fires its timers, and every read is         *)
(* answered some time, or fails (ServerCall's promise).                     *)
Fairness ==
  /\ WF_vars(Thread)
  /\ WF_vars(Timer)
  /\ \A f \in Files : WF_vars(Answer(f) \/ Fail(f))

Spec == Init /\ [][Next]_vars /\ Fairness

-----------------------------------------------------------------------------
(* Properties. *)

CallIds == DOMAIN calls
Owners == Files \cup {None, Nested}

Call == [files : Seq(Files) \ {<<>>}, owner : Owners, loadedFiles : Nat,
         succeeded : BOOLEAN, erred : BOOLEAN]
Group == [call : CallIds, index : Nat, on : SUBSET CallIds, nbrNotifications : Nat]
Frame ==
  [do : {"require"}, list : Seq(Files) \ {<<>>}, owner : Owners]
    \cup [do : {"handle", "process", "loaded"}, call : CallIds, index : Nat]
    \cup [do : {"ran"}, call : CallIds, index : Nat, previous : Files \cup {None}]
    \cup [do : {"attach", "callback", "complete"}, call : CallIds]
    \cup [do : {"notify"}, group : DOMAIN groups, call : CallIds]

(* The frames about one file of a call, and the files of the calls. *)
FileFrame(w) == w.do \in {"handle", "process", "ran", "loaded"}
IsSlot(c, i) == c \in CallIds /\ i \in DOMAIN calls[c].files

Types ==
  /\ calls \in Seq(Call)
  /\ groups \in Seq(Group)
  /\ \A g \in DOMAIN groups : IsSlot(groups[g].call, groups[g].index)
  /\ cache \subseteq Files /\ text \subseteq Files
  /\ DOMAIN stacks \subseteq Files /\ \A f \in DOMAIN stacks : stacks[f] \subseteq CallIds
  /\ current \in Files \cup {None}
  /\ waiters \in [Files -> Seq(CallIds \X Nat)]
  /\ \A f \in Files : \A k \in DOMAIN waiters[f] : IsSlot(waiters[f][k][1], waiters[f][k][2])
  /\ work \in Seq(Frame)
  /\ \A k \in DOMAIN work : FileFrame(work[k]) => IsSlot(work[k].call, work[k].index)
  /\ timers \subseteq ((DOMAIN groups) \X CallIds)
  /\ asked \in 0 .. MaxCalls
  /\ executed \in [Files -> Nat] /\ failed \in [Files -> Nat]

(* Types; and no file counts twice for a call, no call twice for a group. *)
TypeOK ==
  /\ Types
  /\ \A c \in CallIds : calls[c].loadedFiles <= Len(calls[c].files)
  /\ \A g \in DOMAIN groups : groups[g].nbrNotifications <= Cardinality(groups[g].on)

(* A set of files with all that the scripts in it wait for. *)
Closed(S) == \A f \in S \ Optional : ToSet(Deps[f]) \subseteq S

(***************************************************************************)
(* A call succeeds only when its scripts and everything they require in    *)
(* their bodies, directly or not, have been executed.                      *)
(***************************************************************************)
SuccessMeansLoaded ==
  \A c \in CallIds : calls[c].succeeded =>
    \E S \in SUBSET {f \in Files : executed[f] > 0} : ToSet(calls[c].files) \subseteq S /\ Closed(S)

(***************************************************************************)
(* require() finds the stack of the current script whenever it puts a call *)
(* there, although onLoadFn() of any execution of a script deletes the     *)
(* stack of all; and no script is left current when the thread is idle.    *)
(***************************************************************************)
StackFound ==
  /\ Running("attach") /\ current # None => current \in DOMAIN stacks
  /\ work = <<>> => current = None

(* What f may wait for, directly or not: a callback that runs within the    *)
(* body, because everything was there, adds its calls to the same stack.    *)
Needed == [f \in Files |->
             {g \in Files : \A S \in SUBSET Files :
                f \in S /\ (\A h \in S \ Optional : ToSet(Deps[h] \o Later[h]) \subseteq S) => g \in S}]

(***************************************************************************)
(* In the end every call has succeeded, has been told that one of its      *)
(* files could not be read, or needs, through others, one that could not:  *)
(* no script is waited for in vain.                                        *)
(***************************************************************************)
Reported(c) ==
  \/ calls[c].succeeded
  \/ calls[c].erred
  \/ \E f \in ToSet(calls[c].files) : \E g \in Needed[f] \ {f} : failed[g] > 0
AllReported == <>[](\A c \in CallIds : Reported(c))
=============================================================================
