----------------------------- MODULE Operation -----------------------------
(***************************************************************************)
(* Webos.Operation (boot/lib/operation.js) over Webos.Observable           *)
(* (boot/lib/observer.js): an asynchronous operation, its observers and    *)
(* the order in which they are called.                                     *)
(*                                                                         *)
(* trigger() calls the observers of a copy of the list, one after the      *)
(* other, and each may register, remove, complete or throw before the next *)
(* one is called.  setCompleted() triggers 'complete', then 'success' or   *)
(* 'error'.  An observer registered on a completed operation is also       *)
(* called by a timer.                                                      *)
(***************************************************************************)
EXTENDS Naturals, FiniteSets, SequencesExt

CONSTANTS
  Observers,       \* the functions the application registers, each once
  Event,           \* [Observers -> Events]: the event each one listens to
  Once,            \* those registered with once()
  Throwing,        \* those that may throw; addCallbacks() catches, so its own never do
  MaxCompletions   \* how often setCompleted() is called

Events == {"complete", "success", "error"}

ASSUME ObserversAssumption ==
  /\ Event \in [Observers -> Events]
  /\ Once \subseteq Observers
  /\ Throwing \subseteq Observers

ASSUME CompletionsAssumption == MaxCompletions \in Nat \ {0}

VARIABLES
  registered,    \* the functions registered so far, in the order of their ids
  observers,     \* those in _observers, which keeps that order
  completed,     \* _completed
  failed,        \* _failed
  timers,        \* observers with a setTimeout(..., 0) of Operation#on not run yet
  frames,        \* the triggers under way, the innermost last
  calls,         \* [Observers -> Nat]: how often each function was called (history)
  completions,   \* how often setCompleted() was called (history)
  late,          \* those registered while a 'complete' was being triggered (history)
  stopped,       \* those removed by off() when no trigger was going to call them (history)
  threw          \* an observer threw (history)

outcomeVars   == <<completed, failed, completions>>
observerVars  == <<registered, late, stopped>>
operationVars == <<outcomeVars, observerVars, observers, timers, frames, calls, threw>>

(***************************************************************************)
(* A trigger under way: the observers of its copy still to call, whether   *)
(* setCompleted() triggers the outcome after it, and the observer that is  *)
(* running, if one is.                                                     *)
(***************************************************************************)
Frames == [todo : SUBSET Observers, outcomeNext : BOOLEAN, running : SUBSET Observers]

(* Application code runs from the event loop or inside an observer. *)
Application == frames # <<>> => Last(frames).running # {}

Settled == frames = <<>> /\ timers = {}

Snapshot(event) == {o \in observers : Event[o] = event}

Outcome == IF failed THEN "error" ELSE "success"

Trigger(event, outcomeNext) ==
  [todo |-> Snapshot(event), outcomeNext |-> outcomeNext, running |-> {}]

(* The wrapper of once() removes itself before it calls the function. *)
Call(o) ==
  /\ calls' = [calls EXCEPT ![o] = @ + 1]
  /\ observers' = IF o \in Once THEN observers \ {o} ELSE observers

OperationInit ==
  /\ registered = <<>>
  /\ observers = {}
  /\ completed = FALSE
  /\ failed = FALSE
  /\ timers = {}
  /\ frames = <<>>
  /\ calls = [o \in Observers |-> 0]
  /\ completions = 0
  /\ late = {}
  /\ stopped = {}
  /\ threw = FALSE

InComplete == \E i \in DOMAIN frames : frames[i].outcomeNext

(* Observable#on. *)
Register(o) ==
  /\ Application
  /\ o \notin ToSet(registered)
  /\ registered' = Append(registered, o)
  /\ observers' = observers \cup {o}
  /\ late' = IF InComplete THEN late \cup {o} ELSE late
  /\ UNCHANGED <<outcomeVars, frames, calls, stopped, threw>>

(* Mutants: a timer is armed whether the operation is completed or not; a    *)
(* completed operation keeps the observer and arms none.                     *)
OnTimerAlways(o) == Register(o) /\ timers' = timers \cup {o}
OnNoTimer(o) == Register(o) /\ UNCHANGED timers

(* Operation#on, once. *)
On(o) == Register(o) /\ timers' = IF completed THEN timers \cup {o} ELSE timers

(* off(), called by the application or by the process that registered the  *)
(* observer when it stops.                                                 *)
Off(o) ==
  /\ Application
  /\ o \in observers
  /\ observers' = observers \ {o}
  /\ stopped' = IF \E i \in DOMAIN frames : o \in frames[i].todo THEN stopped ELSE stopped \cup {o}
  /\ UNCHANGED <<outcomeVars, registered, late, timers, frames, calls, threw>>

(* Nothing stops a second completion: the result is replaced and the       *)
(* observers are told again.                                               *)
SetCompleted(fail) ==
  /\ Application
  /\ completions < MaxCompletions
  /\ completions' = completions + 1
  /\ completed' = TRUE
  /\ failed' = fail
  /\ frames' = Append(frames, Trigger("complete", TRUE))
  /\ UNCHANGED <<observerVars, observers, timers, calls, threw>>

(* The next observer of the innermost trigger. *)
CallNext ==
  /\ frames # <<>>
  /\ LET f == Last(frames) IN
     \E i \in DOMAIN registered :
       /\ registered[i] \in f.todo
       /\ \A k \in 1 .. i - 1 : registered[k] \notin f.todo
       /\ Call(registered[i])
       /\ frames' = [frames EXCEPT ![Len(frames)] =
                       [f EXCEPT !.todo = @ \ {registered[i]}, !.running = {registered[i]}]]
  /\ UNCHANGED <<outcomeVars, observerVars, timers, threw>>

(* A trigger ends.  setCompleted() then reads _failed, which an observer may *)
(* have changed by completing the operation again, and triggers the outcome. *)
EndTrigger ==
  /\ frames # <<>>
  /\ Last(frames).todo = {}
  /\ frames' = IF Last(frames).outcomeNext
               THEN [frames EXCEPT ![Len(frames)] = Trigger(Outcome, FALSE)]
               ELSE Front(frames)
  /\ UNCHANGED <<outcomeVars, observerVars, observers, timers, calls, threw>>

(* An observer throws: its trigger is abandoned, with the outcome that       *)
(* setCompleted() had still to trigger.  The code that caused the trigger    *)
(* may catch the exception; if not, that code throws in its turn.            *)
Throw ==
  /\ frames # <<>>
  /\ Last(frames).running \cap Throwing # {}
  /\ frames' = Front(frames)
  /\ threw' = TRUE
  /\ UNCHANGED <<outcomeVars, observerVars, observers, timers, calls>>

(* The timer of an observer registered on a completed operation. *)
Deferred(o) ==
  /\ frames = <<>>
  /\ o \in timers
  /\ timers' = timers \ {o}
  /\ IF Event[o] \in {"complete", Outcome}
     THEN /\ Call(o)
          /\ frames' = <<[todo |-> {}, outcomeNext |-> FALSE, running |-> {o}]>>
     ELSE UNCHANGED <<observers, calls, frames>>
  /\ UNCHANGED <<outcomeVars, observerVars, threw>>

OperationNext ==
  \/ \E o \in Observers : On(o) \/ Off(o) \/ Deferred(o)
  \/ \E fail \in BOOLEAN : SetCompleted(fail)
  \/ CallNext
  \/ EndTrigger
  \/ Throw

OperationSpec == OperationInit /\ [][OperationNext]_operationVars

-----------------------------------------------------------------------------
(* Properties. *)

(* Types, and timers only after a completion. *)
OperationTypeOK ==
  /\ registered \in Seq(Observers)
  /\ observers \subseteq ToSet(registered)
  /\ completed \in BOOLEAN
  /\ failed \in BOOLEAN
  /\ timers \subseteq ToSet(registered)
  /\ frames \in Seq(Frames)
  /\ calls \in [Observers -> Nat]
  /\ completions \in 0 .. MaxCompletions
  /\ late \subseteq ToSet(registered)
  /\ stopped \subseteq ToSet(registered)
  /\ threw \in BOOLEAN
  /\ timers # {} => completed
  /\ \A i \in DOMAIN frames : \A p, q \in frames[i].running : p = q

(* An observer that is registered before the operation completes, or after, *)
(* hears of each completion once at most; only one registered while         *)
(* 'complete' is being triggered can hear of the same completion both from  *)
(* the trigger of the outcome and from its timer.                           *)
HeardOncePerCompletion ==
  \A o \in Observers \ late : calls[o] <= completions

(* Whenever it was registered, before, during or after the completion, an   *)
(* observer that was not removed has heard of the completion once nothing   *)
(* is left to run, unless an observer threw and starved the others.         *)
EveryoneTold ==
  Settled /\ completions = 1 /\ ~threw =>
    \A o \in ToSet(registered) :
      Event[o] \in {"complete", Outcome} /\ (o \in Once \/ o \in observers)
        => calls[o] >= 1 \/ o \in stopped

(***************************************************************************)
(* What the sources say and the code does not do.                          *)
(***************************************************************************)
(* `Listen once to an event': a function given to once() is called once.     *)
OnceCalledOnce == \A o \in Once : calls[o] <= 1

(* `Stop listening to an event': an observer that off() removed, with no     *)
(* trigger about to call it, is not called any more.                         *)
StoppedListening == [][\A o \in stopped : calls'[o] = calls[o]]_operationVars
=============================================================================
