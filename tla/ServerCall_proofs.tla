------------------------- MODULE ServerCall_proofs -------------------------
(***************************************************************************)
(* Theorems about ServerCall, for every set of calls and transports:       *)
(* types, the timer of the load stack, where each call is, the promise     *)
(* (RequestReply), and the transports that are left.                       *)
(***************************************************************************)
EXTENDS ServerCall, SequenceTheorems, TLAPS

(* TypeOK in three parts, by the handlers that change them together: what is   *)
(* loaded and sent, what is counted and shown, and the rest.  An empty load   *)
(* stack has no timer: flushing it would send a group without members.        *)
QueueType ==
  /\ loadStack \in Seq(Calls)
  /\ flushTimers \in Nat
  /\ jobs \subseteq Jobs
  /\ handler \in Seq(Frames)
  /\ lastUsed \in Transports \cup {None}
  /\ FlushArmed

CountType ==
  /\ status \in [Calls -> 0 .. 2]
  /\ attempts \in [Calls -> Nat]
  /\ busy \in BOOLEAN
  /\ shown \in Nat

RestType ==
  /\ listed \subseteq Calls
  /\ result \in [Calls -> Results]
  /\ completions \in [Calls -> Nat]
  /\ issued \subseteq Calls
  /\ disabled \subseteq Transports
  /\ supported \subseteq Transports

LEMMA TypeParts == QueueType /\ CountType /\ RestType => TypeOK /\ FlushArmed
<1> SUFFICES ASSUME QueueType, CountType, RestType PROVE TypeOK /\ FlushArmed
  OBVIOUS
<1> QED BY Zenon DEF TypeOK, QueueType, CountType, RestType

LEMMA CountUnchanged == CountType /\ UNCHANGED <<status, attempts, busy, shown>> => CountType'
BY Zenon DEF CountType

LEMMA RestUnchanged ==
  RestType /\ UNCHANGED <<listed, result, completions, issued, disabled, supported>> => RestType'
BY DEF RestType

-----------------------------------------------------------------------------
(* What the operators shared by the handlers keep of the types. *)

LEMMA CompleteType ==
  ASSUME QueueType, NEW ms \in Seq(Calls), NEW r \in Replies, Complete(ms, r)
  PROVE  handler' \in Seq(Frames)
<1> DEFINE new == [i \in 1 .. Len(ms) |-> [call |-> ms[i], result |-> r, phase |-> "begin"]]
<1>1. Len(ms) \in Nat
  OBVIOUS
<1>2. \A i \in 1 .. Len(ms) : ms[i] \in Calls
  OBVIOUS
<1>3. \A i \in 1 .. Len(ms) :
        [call |-> ms[i], result |-> r, phase |-> "begin"] \in Frames
  BY <1>2 DEF Frames
<1>4. new \in [1 .. Len(ms) -> Frames]
  BY <1>3
<1>5. new \in Seq(Frames)
  BY <1>1, <1>4
<1>6. handler \in Seq(Frames)
  BY DEF QueueType
<1>7. handler' = new \o handler
  BY DEF Complete
<1> HIDE DEF new
<1>8. new \o handler \in Seq(Frames)
  BY <1>5, <1>6
<1> QED BY <1>7, <1>8

LEMMA DispatchType ==
  ASSUME QueueType,
         NEW g \in BOOLEAN, NEW ms \in Seq(Calls) \ {<<>>}, NEW n \in Nat,
         NEW acc \in SUBSET Transports, NEW js \in SUBSET Jobs,
         Dispatch(g, ms, n, acc, js)
  PROVE  /\ jobs' \subseteq Jobs
         /\ lastUsed' \in Transports \cup {None}
         /\ handler' \in Seq(Frames)
<1>1. CASE \E via \in Transports :
             /\ IsFirst(via, acc)
             /\ jobs' = js \cup {Sent(g, ms, n, acc, via)}
             /\ lastUsed' = via
             /\ UNCHANGED handler
  <2>1. PICK via \in Transports :
             /\ jobs' = js \cup {Sent(g, ms, n, acc, via)}
             /\ lastUsed' = via
             /\ UNCHANGED handler
    BY <1>1
  <2>2. Sent(g, ms, n, acc, via) \in Jobs
    BY DEF Sent, Jobs
  <2> QED BY <2>1, <2>2 DEF QueueType
<1>2. CASE /\ IF lastUsed = None THEN UNCHANGED handler ELSE Complete(ms, "no transport")
           /\ jobs' = js
           /\ UNCHANGED lastUsed
  <2>1. handler' \in Seq(Frames)
    BY <1>2, CompleteType DEF QueueType, Replies
  <2> QED BY <1>2, <2>1 DEF QueueType
<1> QED BY <1>1, <1>2 DEF Dispatch

LEMMA AcceptedType ==
  \A off : \A c \in Calls : Accepted(c, off) \subseteq Transports
BY CallsAssumption DEF Accepted

LEMMA AcceptedByAllType ==
  \A ms, off : AcceptedByAll(ms, off) \subseteq Transports
BY TransportsAssumption DEF AcceptedByAll

LEMMA DispatchGroupType ==
  ASSUME QueueType, NEW ms \in Seq(Calls) \ {<<>>}, NEW n \in Nat, NEW off,
         NEW js \in SUBSET Jobs, DispatchGroup(ms, n, off, js)
  PROVE  /\ jobs' \subseteq Jobs
         /\ lastUsed' \in Transports \cup {None}
         /\ handler' \in Seq(Frames)
<1>1. AcceptedByAll(ms, off) \in SUBSET Transports
  BY AcceptedByAllType
<1>2. Dispatch(TRUE, ms, n, AcceptedByAll(ms, off), js)
  BY DEF DispatchGroup
<1> QED BY <1>1, <1>2, DispatchType, Zenon

LEMMA DispatchCallType ==
  ASSUME QueueType, NEW c \in Calls, NEW off, NEW js \in SUBSET Jobs,
         Dispatch(FALSE, <<c>>, 0, Accepted(c, off), js)
  PROVE  /\ jobs' \subseteq Jobs
         /\ lastUsed' \in Transports \cup {None}
         /\ handler' \in Seq(Frames)
<1>1. Accepted(c, off) \in SUBSET Transports
  BY AcceptedType
<1>2. <<c>> \in Seq(Calls) \ {<<>>}
  OBVIOUS
<1>3. FALSE \in BOOLEAN /\ 0 \in Nat
  OBVIOUS
<1> QED BY <1>1, <1>2, <1>3, DispatchType, Zenon

LEMMA SetStartedType ==
  ASSUME CountType, NEW c \in Calls, NEW n \in Nat, SetStarted(c, n)
  PROVE  CountType'
<1>1. status' \in [Calls -> 0 .. 2] /\ attempts' \in [Calls -> Nat]
  BY DEF CountType, SetStarted
<1>2. shown' \in Nat
  BY DEF CountType, SetStarted, noticeVars
<1>3. busy' \in BOOLEAN
  BY Zenon DEF CountType, SetStarted, noticeVars
<1> QED BY <1>1, <1>2, <1>3 DEF CountType

LEMMA AddToLoadStackType ==
  ASSUME QueueType, NEW c \in Calls, AddToLoadStack(c)
  PROVE  /\ loadStack' \in Seq(Calls)
         /\ flushTimers' \in Nat
         /\ FlushArmed'
<1>1. loadStack' \in Seq(Calls) /\ loadStack' # <<>>
  BY AppendProperties DEF AddToLoadStack, QueueType
<1>2. Len(loadStack) = 0 <=> loadStack = <<>>
  BY EmptySeq DEF QueueType
<1>3. flushTimers' = 1
  BY <1>2 DEF AddToLoadStack, QueueType, FlushArmed
<1> QED BY <1>1, <1>3 DEF FlushArmed

LEMMA RouteType ==
  ASSUME QueueType, NEW c \in Calls, NEW off, NEW js \in SUBSET Jobs, Route(c, off, js)
  PROVE  QueueType'
<1> DEFINE acc == Accepted(c, off)
<1>1. PICK t \in Transports \cup {None} :
        \/ /\ Dispatch(FALSE, <<c>>, 0, acc, js)
           /\ UNCHANGED <<loadStack, flushTimers>>
        \/ /\ AddToLoadStack(c)
           /\ lastUsed' = t
           /\ jobs' = js
           /\ UNCHANGED handler
        \/ /\ jobs' = js
           /\ UNCHANGED <<loadStack, flushTimers, lastUsed, handler>>
  BY DEF Route
<1>2. CASE /\ Dispatch(FALSE, <<c>>, 0, acc, js)
           /\ UNCHANGED <<loadStack, flushTimers>>
  BY <1>2, DispatchCallType DEF QueueType, FlushArmed
<1>3. CASE /\ AddToLoadStack(c)
           /\ lastUsed' = t
           /\ jobs' = js
           /\ UNCHANGED handler
  BY <1>3, AddToLoadStackType DEF QueueType
<1>4. CASE /\ jobs' = js
           /\ UNCHANGED <<loadStack, flushTimers, lastUsed, handler>>
  BY <1>4 DEF QueueType, FlushArmed
<1> QED BY <1>1, <1>2, <1>3, <1>4

(* A job carries at least one call. *)
LEMMA JobType ==
  ASSUME QueueType, NEW j \in jobs
  PROVE  /\ j \in Jobs
         /\ j.members \in Seq(Calls) \ {<<>>}
         /\ j.members[1] \in Calls
         /\ j.via \in Transports
         /\ j.accepted \subseteq Transports
         /\ j.tries \in Nat
         /\ jobs \ {j} \in SUBSET Jobs
<1>1. j \in Jobs
  BY DEF QueueType
<1>2. j.members \in Seq(Calls) \ {<<>>}
  BY <1>1 DEF Jobs
<1>3. j.members[1] \in Calls
  BY <1>2
<1> QED BY <1>1, <1>2, <1>3 DEF Jobs, QueueType

-----------------------------------------------------------------------------
(* Type correctness. *)

LEMMA InitType == Init => QueueType /\ CountType /\ RestType
<1> SUFFICES ASSUME Init PROVE QueueType /\ CountType /\ RestType
  OBVIOUS
<1>1. QueueType
  BY DEF Init, QueueType, FlushArmed, None
<1>2. CountType
  <2>1. status \in [Calls -> 0 .. 2] /\ attempts \in [Calls -> Nat] /\ shown \in Nat
    BY DEF Init
  <2>2. busy \in BOOLEAN
    BY Zenon DEF Init
  <2> QED BY <2>1, <2>2 DEF CountType
<1>3. RestType
  BY DEF Init, RestType, Results
<1> QED BY <1>1, <1>2, <1>3

LEMMA AnswerType ==
  ASSUME QueueType, CountType, RestType, NEW j \in jobs, Answer(j)
  PROVE  QueueType' /\ CountType' /\ RestType'
<1>1. CASE Respond(j)
  <2>1. PICK r \in {"response", "malformed"} : Complete(j.members, r)
    BY <1>1 DEF Respond
  <2>2. handler' \in Seq(Frames)
    BY <2>1, JobType, CompleteType DEF Replies
  <2>3. QueueType'
    BY <1>1, <2>2, JobType DEF Respond, QueueType, FlushArmed, transportVars
  <2> QED
    BY <1>1, <2>3, CountUnchanged, RestUnchanged
    DEF Respond, callVars, transportVars, noticeVars
<1>2. CASE FailRetry(j)
  <2>1. [j EXCEPT !.phase = "retry"] \in Jobs
    BY JobType DEF Jobs
  <2>2. QueueType'
    BY <1>2, <2>1 DEF FailRetry, QueueType, FlushArmed, transportVars
  <2> QED
    BY <1>2, <2>2, CountUnchanged, RestUnchanged
    DEF FailRetry, callVars, transportVars, noticeVars
<1>3. CASE FailOver(j)
  <2> DEFINE off == disabled \cup {j.via}
  <2>1. RestType'
    BY <1>3, JobType DEF FailOver, RestType
  <2>2. CASE /\ DispatchGroup(j.members, 1, off, jobs \ {j})
             /\ UNCHANGED <<status, attempts, loadStack, flushTimers, noticeVars>>
    <3>1. QueueType'
      BY <2>2, JobType, DispatchGroupType DEF QueueType, FlushArmed
    <3> QED BY <2>1, <2>2, <3>1, CountUnchanged DEF noticeVars
  <2>3. CASE /\ SetStarted(j.members[1], 0)
             /\ Route(j.members[1], off, jobs \ {j})
    BY <2>1, <2>3, JobType, SetStartedType, RouteType
  <2> QED BY <1>3, <2>2, <2>3 DEF FailOver
<1>4. CASE FailFinally(j)
  <2>1. handler' \in Seq(Frames)
    BY <1>4, JobType, CompleteType DEF FailFinally, Replies
  <2>2. QueueType'
    BY <1>4, <2>1, JobType DEF FailFinally, QueueType, FlushArmed, transportVars
  <2> QED
    BY <1>4, <2>2, CountUnchanged, RestUnchanged
    DEF FailFinally, callVars, transportVars, noticeVars
<1> QED BY <1>1, <1>2, <1>3, <1>4 DEF Answer

LEMMA SystemType ==
  ASSUME QueueType, CountType, RestType, System
  PROVE  QueueType' /\ CountType' /\ RestType'
<1>1. CASE FlushLoadStack
  <2>1. loadStack \in Seq(Calls) \ {<<>>} /\ flushTimers' = 0
    BY <1>1 DEF FlushLoadStack, QueueType, FlushArmed
  <2>2. /\ jobs' \subseteq Jobs
        /\ lastUsed' \in Transports \cup {None}
        /\ handler' \in Seq(Frames)
    <3>1. CASE Len(loadStack) = 1
      <4>1. loadStack[1] \in Calls
        BY <2>1
      <4>2. DispatchCall(loadStack[1], jobs)
        BY <1>1, <3>1 DEF FlushLoadStack
      <4> QED BY <4>1, <4>2, DispatchCallType DEF DispatchCall, QueueType
    <3>2. CASE DispatchGroup(loadStack, 0, disabled, jobs)
      BY <2>1, <3>2, DispatchGroupType DEF QueueType
    <3> QED BY <1>1, <3>1, <3>2 DEF FlushLoadStack
  <2>3. QueueType'
    BY <1>1, <2>1, <2>2 DEF FlushLoadStack, QueueType, FlushArmed
  <2> QED
    BY <1>1, <2>3, CountUnchanged, RestUnchanged DEF FlushLoadStack, callVars, noticeVars
<1>2. ASSUME NEW j \in jobs, Retry(j)
      PROVE  QueueType' /\ CountType' /\ RestType'
  <2>1. RestType'
    BY <1>2, RestUnchanged DEF Retry
  <2>2. CASE /\ DispatchGroup(j.members, j.tries + 1, disabled, jobs \ {j})
             /\ UNCHANGED <<status, attempts, loadStack, flushTimers, noticeVars>>
    <3>1. j.tries + 1 \in Nat
      BY JobType
    <3>2. QueueType'
      BY <2>2, <3>1, JobType, DispatchGroupType DEF QueueType, FlushArmed
    <3> QED BY <2>1, <2>2, <3>2, CountUnchanged DEF noticeVars
  <2>3. CASE /\ SetStarted(j.members[1], attempts[j.members[1]])
             /\ Route(j.members[1], disabled, jobs \ {j})
    <3>1. attempts[j.members[1]] \in Nat
      BY JobType DEF CountType
    <3> QED BY <2>1, <2>3, <3>1, JobType, SetStartedType, RouteType
  <2> QED BY <1>2, <2>2, <2>3 DEF Retry
<1>3. CASE BeginCompletion
  <2>1. Head(handler) \in Frames /\ Tail(handler) \in Seq(Frames)
    BY <1>3, HeadTailProperties DEF BeginCompletion, QueueType
  <2> DEFINE f == Head(handler)
             g == [f EXCEPT !.phase = "callbacks"]
  <2>2. f.call \in Calls /\ f.result \in Replies
    BY <2>1 DEF Frames
  <2>3. g \in Frames
    BY <2>1 DEF Frames
  <2>4. <<g>> \in Seq(Frames)
    BY <2>3
  <2>5. handler' = <<g>> \o Tail(handler)
    BY <1>3 DEF BeginCompletion
  <2>6. handler' \in Seq(Frames)
    BY <2>1, <2>4, <2>5, ConcatProperties
  <2>7. QueueType'
    BY <1>3, <2>6 DEF BeginCompletion, QueueType, FlushArmed, transportVars
  <2>8. RestType'
    BY <1>3, <2>2 DEF BeginCompletion, RestType, Results, transportVars
  <2> QED BY <1>3, <2>7, <2>8, CountUnchanged DEF BeginCompletion, noticeVars
<1>4. CASE EndCompletion
  <2>1. Head(handler) \in Frames /\ Tail(handler) \in Seq(Frames)
    BY <1>4, HeadTailProperties DEF EndCompletion, QueueType
  <2>2. QueueType'
    BY <1>4, <2>1 DEF EndCompletion, QueueType, FlushArmed, transportVars
  <2>3. RestType'
    BY <1>4 DEF EndCompletion, RestType, transportVars
  <2>4. status' \in [Calls -> 0 .. 2] /\ attempts' \in [Calls -> Nat] /\ shown' \in Nat
    <3>1. /\ status' = [status EXCEPT ![Head(handler).call] = 2]
          /\ attempts' = attempts
          /\ shown' = IF shown > 0 THEN shown - 1 ELSE 0
      BY <1>4, Zenon DEF EndCompletion
    <3>2. Head(handler).call \in Calls
      BY <2>1 DEF Frames
    <3>3. status' \in [Calls -> 0 .. 2]
      BY <3>1, <3>2 DEF CountType
    <3>4. shown' \in Nat
      BY <3>1 DEF CountType
    <3> QED BY <3>1, <3>3, <3>4 DEF CountType
  <2>5. busy' \in BOOLEAN
    BY <1>4, Zenon DEF EndCompletion
  <2> QED BY <2>2, <2>3, <2>4, <2>5 DEF CountType
<1> QED BY <1>1, <1>2, <1>3, <1>4 DEF System

LEMMA EnvironmentType ==
  ASSUME QueueType, CountType, RestType, Environment
  PROVE  QueueType' /\ CountType' /\ RestType'
<1>1. ASSUME NEW c \in Calls, Load(c)
      PROVE  QueueType' /\ CountType' /\ RestType'
  <2>1. RestType'
    BY <1>1 DEF Load, RestType
  <2>2. attempts[c] \in Nat /\ jobs \in SUBSET Jobs
    BY DEF CountType, QueueType
  <2> QED BY <1>1, <2>1, <2>2, SetStartedType, RouteType DEF Load
<1>2. ASSUME NEW ms \in ScriptGroups, LoadScripts(ms)
      PROVE  QueueType' /\ CountType' /\ RestType'
  <2>1. ms \in Seq(Calls) \ {<<>>}
    <3>1. CASE \E c \in Sync : ms = <<c>>
      BY <3>1, CallsAssumption
    <3>2. CASE \E c, d \in Sync : ms = <<c, d>>
      BY <3>2, CallsAssumption
    <3> QED BY <3>1, <3>2 DEF ScriptGroups
  <2>2. RestType'
    <3>1. \A i \in DOMAIN ms : ms[i] \in Calls
      BY <2>1
    <3> QED BY <1>2, <3>1 DEF LoadScripts, RestType
  <2>3. UNCHANGED <<loadStack, flushTimers>> /\ jobs \in SUBSET Jobs
    BY <1>2 DEF LoadScripts, QueueType
  <2>4. CASE /\ DispatchCall(ms[1], jobs)
             /\ UNCHANGED <<status, attempts, busy, shown>>
    <3>1. ms[1] \in Calls
      BY <2>1
    <3>2. QueueType'
      BY <2>3, <2>4, <3>1, DispatchCallType DEF DispatchCall, QueueType, FlushArmed
    <3> QED BY <2>2, <2>4, <3>2, CountUnchanged
  <2>5. CASE DispatchGroup(ms, 1, disabled, jobs)
    <3>1. QueueType'
      BY <2>1, <2>3, <2>5, DispatchGroupType DEF QueueType, FlushArmed
    <3>2. CASE UNCHANGED <<status, attempts, busy, shown>>
      BY <2>2, <3>1, <3>2, CountUnchanged
    <3>3. CASE /\ status' = [c \in Calls |-> IF InSeq(c, ms) THEN 1 ELSE status[c]]
               /\ attempts' = [c \in Calls |-> IF InSeq(c, ms) THEN 1 ELSE attempts[c]]
               /\ busy' = (busy \/ Pending = {})
               /\ shown' = shown + Len(ms)
      <4>1. status' \in [Calls -> 0 .. 2] /\ attempts' \in [Calls -> Nat] /\ shown' \in Nat
        BY <2>1, <3>3 DEF CountType
      <4>2. busy' \in BOOLEAN
        BY <3>3, Zenon
      <4> QED BY <2>2, <3>1, <4>1, <4>2 DEF CountType
    <3> QED
      <4>1. Len(ms) # 1
            => IF AcceptedByAll(ms, disabled) = {}
               THEN UNCHANGED <<status, attempts, busy, shown>>
               ELSE /\ status' = [c \in Calls |-> IF InSeq(c, ms) THEN 1 ELSE status[c]]
                    /\ attempts' = [c \in Calls |-> IF InSeq(c, ms) THEN 1 ELSE attempts[c]]
                    /\ busy' = (busy \/ Pending = {})
                    /\ shown' = shown + Len(ms)
        BY <1>2, Zenon DEF LoadScripts
      <4>2. CASE Len(ms) = 1
        BY <1>2, <2>4, <4>2 DEF LoadScripts
      <4>3. CASE Len(ms) # 1
        BY <3>2, <3>3, <4>1, <4>3
      <4> QED BY <1>2, <4>2, <4>3 DEF LoadScripts
  <2> QED BY <1>2, <2>4, <2>5 DEF LoadScripts
<1>3. ASSUME NEW t \in Transports, SupportChanges(t)
      PROVE  QueueType' /\ CountType' /\ RestType'
  <2>1. QueueType'
    BY <1>3 DEF SupportChanges, queueVars, QueueType, FlushArmed
  <2>2. RestType'
    BY <1>3 DEF SupportChanges, callVars, RestType
  <2> QED BY <1>3, <2>1, <2>2, CountUnchanged DEF SupportChanges, callVars, noticeVars
<1>4. ASSUME NEW t \in Transports, ConnectRefused(t)
      PROVE  QueueType' /\ CountType' /\ RestType'
  <2>1. QueueType'
    BY <1>4 DEF ConnectRefused, queueVars, QueueType, FlushArmed
  <2>2. RestType'
    BY <1>4 DEF ConnectRefused, callVars, RestType
  <2> QED BY <1>4, <2>1, <2>2, CountUnchanged DEF ConnectRefused, callVars, noticeVars
<1> QED BY <1>1, <1>2, <1>3, <1>4 DEF Environment

LEMMA NextType ==
  ASSUME QueueType, CountType, RestType, [Next]_vars
  PROVE  QueueType' /\ CountType' /\ RestType'
<1>1. CASE UNCHANGED vars
  <2>1. QueueType'
    BY <1>1 DEF vars, queueVars, transportVars, QueueType, FlushArmed
  <2> QED
    BY <1>1, <2>1, CountUnchanged, RestUnchanged
    DEF vars, callVars, transportVars, noticeVars
<1> QED BY <1>1, AnswerType, SystemType, EnvironmentType DEF Next

LEMMA TypeInvariant == Spec => [](QueueType /\ CountType /\ RestType)
<1> DEFINE Inv == QueueType /\ CountType /\ RestType
<1>1. Init => Inv
  BY InitType
<1>2. Inv /\ [Next]_vars => Inv'
  BY NextType
<1> QED BY <1>1, <1>2, PTL DEF Spec

(* Every handler leaves every variable in its range. *)
THEOREM TypeCorrect == Spec => []TypeOK
BY TypeInvariant, TypeParts, PTL

(* _addToLoadStack arms one timer for the load stack and never two: the calls *)
(* of one turn of the event loop leave together, in one group.                *)
THEOREM FlushArmedCorrect == Spec => []FlushArmed
BY TypeInvariant, TypeParts, PTL

-----------------------------------------------------------------------------
(***************************************************************************)
(* Every call waits in one place and is completed once: Bookkeeping is an  *)
(* inductive invariant.                                                    *)
(***************************************************************************)
(* The calls of ms can be put in any place: they wait in none.             *)
Ready(ms, stack, js, asked) ==
  /\ Distinct(ms)
  /\ \A i \in DOMAIN ms :
       /\ ms[i] \in asked
       /\ completions[ms[i]] = 0
       /\ ~InSeq(ms[i], stack)
       /\ \A k \in DOMAIN handler : handler[k].call # ms[i]
       /\ \A j \in js : ~Carried(j, ms[i])

-----------------------------------------------------------------------------
(* Moving ready calls to a place. *)

LEMMA CompleteTraced ==
  ASSUME handler \in Seq(Frames), NEW stack \in Seq(Calls), NEW js \in SUBSET Jobs, NEW asked,
         NEW ms \in Seq(Calls), NEW r \in Replies,
         Traced(stack, js, handler, asked), Ready(ms, stack, js, asked), Complete(ms, r)
  PROVE  Traced(stack, js, handler', asked)
<1> DEFINE new == [i \in 1 .. Len(ms) |-> [call |-> ms[i], result |-> r, phase |-> "begin"]]
           n == Len(ms)
           h == Len(handler)
<1>1. n \in Nat /\ h \in Nat /\ DOMAIN ms = 1 .. n /\ DOMAIN handler = 1 .. h
  OBVIOUS
<1>2. new \in Seq(Frames) /\ Len(new) = n
  <2>1. \A i \in 1 .. n : ms[i] \in Calls
    OBVIOUS
  <2>2. \A i \in 1 .. n : [call |-> ms[i], result |-> r, phase |-> "begin"] \in Frames
    BY <2>1 DEF Frames
  <2>3. new \in [1 .. n -> Frames]
    BY <2>2
  <2> QED BY <1>1, <2>3
<1>3. handler' = new \o handler
  BY DEF Complete
<1>4. /\ DOMAIN handler' = 1 .. n + h
      /\ \A i \in 1 .. n : handler'[i].call = ms[i] /\ handler'[i].phase = "begin"
      /\ \A i \in n + 1 .. n + h : i - n \in 1 .. h /\ handler'[i] = handler[i - n]
  <2>1. \A i \in 1 .. n : new[i].call = ms[i] /\ new[i].phase = "begin"
    OBVIOUS
  <2> HIDE DEF new
  <2>2. /\ Len(new \o handler) = Len(new) + Len(handler)
        /\ new \o handler \in Seq(Frames)
        /\ \A i \in 1 .. Len(new) + Len(handler) :
             (new \o handler)[i] = IF i <= Len(new) THEN new[i] ELSE handler[i - Len(new)]
    BY <1>2, ConcatProperties, Zenon
  <2>3. DOMAIN handler' = 1 .. n + h
    BY <1>2, <1>3, <2>2
  <2>4. \A i \in 1 .. n : handler'[i] = new[i]
    BY <1>1, <1>2, <1>3, <2>2
  <2>5. \A i \in n + 1 .. n + h : i - n \in 1 .. h /\ handler'[i] = handler[i - n]
    BY <1>1, <1>2, <1>3, <2>2
  <2> QED BY <2>1, <2>3, <2>4, <2>5
<1>5. \A i \in DOMAIN handler' : i \in 1 .. n \/ i \in n + 1 .. n + h
  BY <1>1, <1>4
<1>6. /\ \A i, k \in 1 .. n : ms[i] = ms[k] => i = k
      /\ \A i \in 1 .. n :
           /\ ms[i] \in asked
           /\ completions[ms[i]] = 0
           /\ ~InSeq(ms[i], stack)
           /\ \A k \in 1 .. h : handler[k].call # ms[i]
           /\ \A j \in js : ~Carried(j, ms[i])
  BY <1>1 DEF Ready, Distinct
<1>7. /\ \A i, k \in 1 .. h : handler[i].call = handler[k].call => i = k
      /\ \A i \in 1 .. h :
           /\ ~InSeq(handler[i].call, stack)
           /\ \A j \in js : ~Carried(j, handler[i].call)
           /\ handler[i].call \in asked
           /\ completions[handler[i].call] = IF handler[i].phase = "begin" THEN 0 ELSE 1
  BY <1>1 DEF Traced, Exclusive
<1> HIDE DEF new, n, h
<1>8. ASSUME NEW i \in DOMAIN handler', NEW k \in DOMAIN handler',
             handler'[i].call = handler'[k].call
      PROVE  i = k
  <2>1. CASE i \in 1 .. n /\ k \in 1 .. n
    BY <1>4, <1>6, <1>8, <2>1
  <2>2. CASE i \in 1 .. n /\ k \in n + 1 .. n + h
    BY <1>4, <1>6, <1>8, <2>2
  <2>3. CASE i \in n + 1 .. n + h /\ k \in 1 .. n
    BY <1>4, <1>6, <1>8, <2>3
  <2>4. CASE i \in n + 1 .. n + h /\ k \in n + 1 .. n + h
    <3>1. i - n = k - n
      BY <1>4, <1>7, <1>8, <2>4
    <3> QED BY <1>1, <2>4, <3>1
  <2> QED BY <1>5, <2>1, <2>2, <2>3, <2>4
<1>9. ASSUME NEW i \in DOMAIN handler'
      PROVE  /\ ~InSeq(handler'[i].call, stack)
             /\ \A j \in js : ~Carried(j, handler'[i].call)
             /\ handler'[i].call \in asked
             /\ completions[handler'[i].call] = IF handler'[i].phase = "begin" THEN 0 ELSE 1
  <2>1. CASE i \in 1 .. n
    BY <1>4, <1>6, <2>1
  <2>2. CASE i \in n + 1 .. n + h
    BY <1>4, <1>7, <2>2
  <2> QED BY <1>5, <2>1, <2>2
<1>10. Exclusive(stack, js, handler')
  BY <1>8, <1>9 DEF Traced, Exclusive
<1> QED BY <1>9, <1>10 DEF Traced

LEMMA AddJobTraced ==
  ASSUME NEW stack, NEW js, NEW asked, NEW job,
         Traced(stack, js, handler, asked), Ready(job.members, stack, js, asked)
  PROVE  Traced(stack, js \cup {job}, handler, asked)
<1>1. Exclusive(stack, js \cup {job}, handler)
  BY DEF Traced, Exclusive, Ready, Carried, InSeq
<1>2. ASSUME NEW c \in Calls, NEW j \in js \cup {job}, Carried(j, c)
      PROVE  c \in asked /\ completions[c] = 0
  BY <1>2 DEF Traced, Ready, Carried, InSeq
<1> QED BY <1>1, <1>2 DEF Traced

LEMMA PushTraced ==
  ASSUME NEW stack \in Seq(Calls), NEW js, NEW asked, NEW c \in Calls,
         Traced(stack, js, handler, asked), Ready(<<c>>, stack, js, asked)
  PROVE  Traced(Append(stack, c), js, handler, asked)
<1> DEFINE new == Append(stack, c)
<1>1. /\ DOMAIN new = 1 .. Len(stack) + 1
      /\ DOMAIN stack = 1 .. Len(stack)
      /\ Len(stack) \in Nat
      /\ \A i \in 1 .. Len(stack) : new[i] = stack[i]
      /\ new[Len(stack) + 1] = c
  BY AppendProperties
<1>2. /\ c \in asked
      /\ completions[c] = 0
      /\ ~InSeq(c, stack)
      /\ \A k \in DOMAIN handler : handler[k].call # c
      /\ \A j \in js : ~Carried(j, c)
  BY DEF Ready
<1>3. \A d : InSeq(d, new) <=> InSeq(d, stack) \/ d = c
  BY <1>1 DEF InSeq
<1>4. Distinct(new)
  <2>1. Distinct(stack)
    BY DEF Traced, Exclusive
  <2> QED BY <1>1, <1>2, <2>1 DEF Distinct, InSeq
<1> HIDE DEF new
<1>5. Exclusive(new, js, handler)
  BY <1>2, <1>3, <1>4 DEF Traced, Exclusive
<1>6. Traced(new, js, handler, asked)
  BY <1>2, <1>3, <1>5 DEF Traced
<1> QED BY <1>6 DEF new

(* Taking calls from a place makes them ready. *)
LEMMA TakeJobTraced ==
  ASSUME NEW stack, NEW asked, NEW j \in jobs, j.members \in Seq(Calls),
         Traced(stack, jobs, handler, asked)
  PROVE  /\ Traced(stack, jobs \ {j}, handler, asked)
         /\ Ready(j.members, stack, jobs \ {j}, asked)
<1>1. \A i \in DOMAIN j.members : j.members[i] \in Calls /\ Carried(j, j.members[i])
  BY DEF Carried, InSeq
<1>2. Ready(j.members, stack, jobs \ {j}, asked)
  BY <1>1 DEF Ready, Traced, Exclusive
<1> QED BY <1>2 DEF Traced, Exclusive

LEMMA TakeStackTraced ==
  ASSUME loadStack \in Seq(Calls), Traced(loadStack, jobs, handler, issued)
  PROVE  /\ Traced(<<>>, jobs, handler, issued)
         /\ Ready(loadStack, <<>>, jobs, issued)
<1>1. \A i \in DOMAIN loadStack : loadStack[i] \in Calls /\ InSeq(loadStack[i], loadStack)
  BY DEF InSeq
<1>2. \A c : ~InSeq(c, <<>>)
  BY DEF InSeq
<1>3. Ready(loadStack, <<>>, jobs, issued)
  BY <1>1, <1>2 DEF Ready, Traced, Exclusive
<1>4. Distinct(<<>>)
  BY DEF Distinct
<1> QED BY <1>2, <1>3, <1>4 DEF Traced, Exclusive

(* A call that is not issued is ready once it is. *)
LEMMA AskTraced ==
  ASSUME Traced(loadStack, jobs, handler, issued),
         NEW ms \in Seq(Calls), Distinct(ms), \A i \in DOMAIN ms : ms[i] \notin issued,
         NEW asked, asked = issued \cup {ms[i] : i \in DOMAIN ms}
  PROVE  /\ Traced(loadStack, jobs, handler, asked)
         /\ Ready(ms, loadStack, jobs, asked)
<1>1. Traced(loadStack, jobs, handler, asked)
  BY DEF Traced
<1>2. \A i \in DOMAIN ms : ms[i] \in Calls \ issued /\ ms[i] \in asked
  OBVIOUS
<1> QED BY <1>1, <1>2 DEF Ready, Traced

-----------------------------------------------------------------------------
(* The operators shared by the handlers. *)

LEMMA DispatchTraced ==
  ASSUME handler \in Seq(Frames), NEW stack \in Seq(Calls), NEW js \in SUBSET Jobs, NEW asked,
         NEW g, NEW ms \in Seq(Calls), NEW n, NEW acc,
         Traced(stack, js, handler, asked), Ready(ms, stack, js, asked),
         Dispatch(g, ms, n, acc, js)
  PROVE  Traced(stack, jobs', handler', asked)
<1>1. CASE \E via \in Transports :
             /\ IsFirst(via, acc)
             /\ jobs' = js \cup {Sent(g, ms, n, acc, via)}
             /\ lastUsed' = via
             /\ UNCHANGED handler
  <2>1. PICK via \in Transports :
          jobs' = js \cup {Sent(g, ms, n, acc, via)} /\ UNCHANGED handler
    BY <1>1
  <2> DEFINE job == Sent(g, ms, n, acc, via)
  <2>2. job.members = ms
    BY DEF Sent
  <2> HIDE DEF job
  <2>3. Traced(stack, js \cup {job}, handler, asked)
    BY <2>2, AddJobTraced
  <2> QED BY <2>1, <2>3 DEF job
<1>2. CASE /\ IF lastUsed = None THEN UNCHANGED handler ELSE Complete(ms, "no transport")
           /\ jobs' = js
           /\ UNCHANGED lastUsed
  <2>1. CASE UNCHANGED handler
    BY <1>2, <2>1
  <2>2. CASE Complete(ms, "no transport")
    <3>1. Traced(stack, js, handler', asked)
      BY <2>2, CompleteTraced DEF Replies
    <3> QED BY <1>2, <3>1
  <2> QED BY <1>2, <2>1, <2>2
<1> QED BY <1>1, <1>2 DEF Dispatch

LEMMA RouteTraced ==
  ASSUME QueueType, NEW js \in SUBSET Jobs, NEW asked, NEW c \in Calls, NEW off,
         Traced(loadStack, js, handler, asked), Ready(<<c>>, loadStack, js, asked),
         Route(c, off, js)
  PROVE  Traced(loadStack', jobs', handler', asked)
<1>1. PICK t \in Transports \cup {None} :
        \/ /\ Dispatch(FALSE, <<c>>, 0, Accepted(c, off), js)
           /\ UNCHANGED <<loadStack, flushTimers>>
        \/ /\ AddToLoadStack(c)
           /\ lastUsed' = t
           /\ jobs' = js
           /\ UNCHANGED handler
        \/ /\ jobs' = js
           /\ UNCHANGED <<loadStack, flushTimers, lastUsed, handler>>
  BY DEF Route
<1>2. CASE /\ Dispatch(FALSE, <<c>>, 0, Accepted(c, off), js)
           /\ UNCHANGED <<loadStack, flushTimers>>
  <2>1. <<c>> \in Seq(Calls) /\ handler \in Seq(Frames) /\ loadStack \in Seq(Calls)
    BY DEF QueueType
  <2>2. Traced(loadStack, jobs', handler', asked)
    BY <1>2, <2>1, DispatchTraced
  <2> QED BY <1>2, <2>2
<1>3. CASE /\ AddToLoadStack(c)
           /\ jobs' = js
           /\ UNCHANGED handler
  <2>1. loadStack' = Append(loadStack, c)
    BY <1>3 DEF AddToLoadStack
  <2>2. Traced(Append(loadStack, c), js, handler, asked)
    BY PushTraced DEF QueueType
  <2> QED BY <1>3, <2>1, <2>2
<1>4. CASE /\ jobs' = js
           /\ UNCHANGED <<loadStack, flushTimers, lastUsed, handler>>
  BY <1>4
<1> QED BY <1>1, <1>2, <1>3, <1>4

(* A call that is started again, or for the first time, is pending.          *)
LEMMA SetStartedFollows ==
  ASSUME CountType, StatusFollows, CompletedOnce, NEW c \in Calls, NEW n \in Nat,
         SetStarted(c, n), UNCHANGED <<result, completions>>
  PROVE  StatusFollows' /\ CompletedOnce'
<1>1. /\ status' = [status EXCEPT ![c] = 1]
      /\ attempts' = [attempts EXCEPT ![c] = n + 1]
  BY DEF SetStarted
<1>2. CompletedOnce'
  BY DEF CompletedOnce
<1>3. StatusFollows'
  BY <1>1 DEF StatusFollows, CountType
<1> QED BY <1>2, <1>3

LEMMA FollowsUnchanged ==
  StatusFollows /\ CompletedOnce /\ UNCHANGED <<status, attempts, result, completions>>
    => StatusFollows' /\ CompletedOnce'
BY DEF StatusFollows, CompletedOnce

(* Only a completion that begins changes what Traced says of completions.    *)
LEMMA TracedNext ==
  Traced(loadStack', jobs', handler', issued') /\ UNCHANGED completions
    => Traced(loadStack, jobs, handler, issued)'
BY DEF Traced

-----------------------------------------------------------------------------
(* The handlers. *)

LEMMA InitBookkeeping == Init => Bookkeeping
<1> SUFFICES ASSUME Init PROVE Bookkeeping
  OBVIOUS
<1>1. \A c : ~InSeq(c, loadStack)
  BY DEF Init, InSeq
<1>2. DOMAIN handler = {} /\ jobs = {} /\ DOMAIN loadStack = {}
  BY DEF Init
<1>3. Exclusive(loadStack, jobs, handler)
  BY <1>2 DEF Exclusive, Distinct
<1>4. \A c \in Calls : completions[c] = 0 /\ status[c] = 0 /\ attempts[c] = 0 /\ result[c] = "none"
  BY DEF Init
<1>5. Traced(loadStack, jobs, handler, issued)
  BY <1>1, <1>2, <1>3, <1>4 DEF Traced
<1>6. StatusFollows /\ CompletedOnce
  BY <1>4 DEF StatusFollows, CompletedOnce
<1> QED BY <1>5, <1>6 DEF Bookkeeping

LEMMA AnswerBookkeeping ==
  ASSUME QueueType, CountType, Bookkeeping, NEW j \in jobs, Answer(j)
  PROVE  Bookkeeping'
<1> DEFINE rest == jobs \ {j}
<1>1. /\ j.members \in Seq(Calls) /\ j.members[1] \in Calls
      /\ rest \in SUBSET Jobs
      /\ handler \in Seq(Frames) /\ loadStack \in Seq(Calls)
  BY JobType DEF QueueType
<1>2. /\ Traced(loadStack, rest, handler, issued)
      /\ Ready(j.members, loadStack, rest, issued)
  BY <1>1, TakeJobTraced DEF Bookkeeping
<1>3. UNCHANGED <<completions, result, issued>>
  BY DEF Answer, Respond, FailRetry, FailOver, FailFinally, callVars
<1> HIDE DEF rest
<1>4. CASE Respond(j)
  <2>1. PICK r \in {"response", "malformed"} : Complete(j.members, r)
    BY <1>4 DEF Respond
  <2>2. Traced(loadStack, rest, handler', issued)
    BY <1>1, <1>2, <2>1, CompleteTraced DEF Replies
  <2>3. jobs' = rest /\ UNCHANGED <<loadStack, status, attempts>>
    BY <1>4 DEF Respond, rest, callVars
  <2>4. Traced(loadStack, jobs, handler, issued)'
    BY <1>3, <2>2, <2>3, TracedNext
  <2> QED BY <1>3, <2>3, <2>4, FollowsUnchanged DEF Bookkeeping
<1>5. CASE FailRetry(j)
  <2> DEFINE job == [j EXCEPT !.phase = "retry"]
  <2>1. job.members = j.members
    BY JobType DEF Jobs
  <2>2. jobs' = rest \cup {job} /\ UNCHANGED <<loadStack, handler, status, attempts>>
    BY <1>5 DEF FailRetry, rest, callVars
  <2> HIDE DEF job
  <2>3. Traced(loadStack, rest \cup {job}, handler, issued)
    BY <1>2, <2>1, AddJobTraced
  <2>4. Traced(loadStack, jobs, handler, issued)'
    BY <1>3, <2>2, <2>3, TracedNext
  <2> QED BY <1>3, <2>2, <2>4, FollowsUnchanged DEF Bookkeeping
<1>6. CASE FailOver(j)
  <2> DEFINE off == disabled \cup {j.via}
  <2>1. CASE /\ DispatchGroup(j.members, 1, off, rest)
             /\ UNCHANGED <<status, attempts, loadStack, flushTimers, noticeVars>>
    <3>1. Traced(loadStack, jobs', handler', issued)
      BY <1>1, <1>2, <2>1, DispatchTraced DEF DispatchGroup
    <3>2. Traced(loadStack, jobs, handler, issued)'
      BY <1>3, <2>1, <3>1, TracedNext
    <3> QED BY <1>3, <2>1, <3>2, FollowsUnchanged DEF Bookkeeping
  <2>2. CASE /\ SetStarted(j.members[1], 0)
             /\ Route(j.members[1], off, rest)
    <3>1. Ready(<<j.members[1]>>, loadStack, rest, issued)
      <4>1. 1 \in DOMAIN j.members
        BY JobType
      <4> QED BY <1>2, <4>1 DEF Ready, Distinct
    <3>2. Traced(loadStack', jobs', handler', issued)
      BY <1>1, <1>2, <2>2, <3>1, RouteTraced
    <3>3. Traced(loadStack, jobs, handler, issued)'
      BY <1>3, <3>2, TracedNext
    <3> QED BY <1>1, <1>3, <2>2, <3>3, SetStartedFollows DEF Bookkeeping
  <2> QED BY <1>6, <2>1, <2>2 DEF FailOver, rest
<1>7. CASE FailFinally(j)
  <2>1. Traced(loadStack, rest, handler', issued)
    BY <1>1, <1>2, <1>7, CompleteTraced DEF FailFinally, Replies
  <2>2. jobs' = rest /\ UNCHANGED <<loadStack, status, attempts>>
    BY <1>7 DEF FailFinally, rest, callVars
  <2>3. Traced(loadStack, jobs, handler, issued)'
    BY <1>3, <2>1, <2>2, TracedNext
  <2> QED BY <1>3, <2>2, <2>3, FollowsUnchanged DEF Bookkeeping
<1> QED BY <1>4, <1>5, <1>6, <1>7 DEF Answer

LEMMA FlushBookkeeping ==
  ASSUME QueueType, Bookkeeping, FlushLoadStack
  PROVE  Bookkeeping'
<1>1. loadStack \in Seq(Calls) \ {<<>>} /\ handler \in Seq(Frames) /\ jobs \in SUBSET Jobs
  BY DEF FlushLoadStack, QueueType, FlushArmed
<1>2. Traced(<<>>, jobs, handler, issued) /\ Ready(loadStack, <<>>, jobs, issued)
  BY <1>1, TakeStackTraced DEF Bookkeeping
<1>3. <<>> \in Seq(Calls)
  OBVIOUS
<1>4. Traced(<<>>, jobs', handler', issued)
  <2>1. CASE Len(loadStack) = 1 /\ DispatchCall(loadStack[1], jobs)
    <3>1. <<loadStack[1]>> \in Seq(Calls)
      BY <1>1
    <3>2. Ready(<<loadStack[1]>>, <<>>, jobs, issued)
      <4>1. 1 \in DOMAIN loadStack
        BY <1>1
      <4> QED BY <1>2, <4>1 DEF Ready, Distinct
    <3> QED BY <1>1, <1>2, <1>3, <2>1, <3>1, <3>2, DispatchTraced DEF DispatchCall
  <2>2. CASE DispatchGroup(loadStack, 0, disabled, jobs)
    BY <1>1, <1>2, <1>3, <2>2, DispatchTraced DEF DispatchGroup
  <2> QED BY <2>1, <2>2 DEF FlushLoadStack
<1>5. loadStack' = <<>> /\ UNCHANGED <<status, attempts, result, completions, issued>>
  BY DEF FlushLoadStack, callVars
<1>6. Traced(loadStack, jobs, handler, issued)'
  BY <1>4, <1>5, TracedNext
<1> QED BY <1>5, <1>6, FollowsUnchanged DEF Bookkeeping

LEMMA RetryBookkeeping ==
  ASSUME QueueType, CountType, Bookkeeping, NEW j \in jobs, Retry(j)
  PROVE  Bookkeeping'
<1> DEFINE rest == jobs \ {j}
           c == j.members[1]
<1>1. /\ j.members \in Seq(Calls) /\ c \in Calls
      /\ rest \in SUBSET Jobs
      /\ handler \in Seq(Frames) /\ loadStack \in Seq(Calls)
      /\ attempts[c] \in Nat
  BY JobType DEF QueueType, CountType
<1>2. /\ Traced(loadStack, rest, handler, issued)
      /\ Ready(j.members, loadStack, rest, issued)
  BY <1>1, TakeJobTraced DEF Bookkeeping
<1>3. UNCHANGED <<completions, result, issued>>
  BY DEF Retry
<1> HIDE DEF rest
<1>4. CASE /\ DispatchGroup(j.members, j.tries + 1, disabled, rest)
           /\ UNCHANGED <<status, attempts, loadStack, flushTimers, noticeVars>>
  <2>1. Traced(loadStack, jobs', handler', issued)
    BY <1>1, <1>2, <1>4, DispatchTraced DEF DispatchGroup
  <2>2. Traced(loadStack, jobs, handler, issued)'
    BY <1>3, <1>4, <2>1, TracedNext
  <2> QED BY <1>3, <1>4, <2>2, FollowsUnchanged DEF Bookkeeping
<1>5. CASE SetStarted(c, attempts[c]) /\ Route(c, disabled, rest)
  <2>1. Ready(<<c>>, loadStack, rest, issued)
    <3>1. 1 \in DOMAIN j.members
      BY JobType
    <3> QED BY <1>2, <3>1 DEF Ready, Distinct
  <2> HIDE DEF c
  <2>2. Traced(loadStack', jobs', handler', issued)
    BY <1>1, <1>2, <1>5, <2>1, RouteTraced
  <2>3. Traced(loadStack, jobs, handler, issued)'
    BY <1>3, <2>2, TracedNext
  <2> QED BY <1>1, <1>3, <1>5, <2>3, SetStartedFollows DEF Bookkeeping
<1> QED BY <1>4, <1>5 DEF Retry, rest

(* A completion that begins is the only step that counts one.                *)
LEMMA BeginBookkeeping ==
  ASSUME QueueType, RestType, Bookkeeping, BeginCompletion
  PROVE  /\ Bookkeeping'
         /\ \E c \in issued : \E r \in Replies :
              /\ result[c] = "none"
              /\ status[c] # 2
              /\ result' = [result EXCEPT ![c] = r]
<1> DEFINE f == Head(handler)
           g == [f EXCEPT !.phase = "callbacks"]
           c == f.call
<1>1. /\ handler \in Seq(Frames) /\ handler # <<>>
      /\ f = handler[1] /\ f \in Frames /\ f.phase = "begin"
      /\ 1 \in DOMAIN handler
  BY HeadTailProperties DEF BeginCompletion, QueueType
<1>2. g.call = c /\ g.phase = "callbacks" /\ c \in Calls /\ f.result \in Replies
  BY <1>1 DEF Frames
<1>3. /\ completions' = [completions EXCEPT ![c] = @ + 1]
      /\ result' = [result EXCEPT ![c] = f.result]
      /\ handler' = <<g>> \o Tail(handler)
      /\ UNCHANGED <<status, attempts, issued, loadStack, jobs>>
  BY DEF BeginCompletion
<1>4. /\ DOMAIN handler' = DOMAIN handler
      /\ handler'[1] = g
      /\ \A i \in DOMAIN handler \ {1} : handler'[i] = handler[i]
  <2> HIDE DEF g
  <2> DEFINE n == Len(handler)
             tail == Tail(handler)
  <2>1. n \in Nat \ {0} /\ DOMAIN handler = 1 .. n
    BY <1>1
  <2>2. tail \in Seq(Frames) /\ Len(tail) = n - 1 /\ \A i \in 1 .. n - 1 : tail[i] = handler[i + 1]
    BY <1>1, HeadTailProperties
  <2>3. g \in Frames
    BY <1>1 DEF g, Frames
  <2>4. handler' = <<g>> \o tail
    BY <1>3
  <2> HIDE DEF n, tail
  <2>5. <<g>> \in Seq(Frames) /\ Len(<<g>>) = 1 /\ <<g>>[1] = g
    BY <2>3
  <2>6. /\ Len(handler') = 1 + Len(tail)
        /\ handler' \in Seq(Frames)
        /\ \A i \in 1 .. 1 + Len(tail) : handler'[i] = IF i <= 1 THEN g ELSE tail[i - 1]
    BY <2>2, <2>4, <2>5, ConcatProperties
  <2>7. DOMAIN handler' = 1 .. n
    BY <2>1, <2>2, <2>6
  <2>8. handler'[1] = g
    BY <2>1, <2>2, <2>6
  <2>9. ASSUME NEW i \in 2 .. n PROVE handler'[i] = handler[i]
    <3>1. i - 1 \in 1 .. n - 1 /\ (i - 1) + 1 = i /\ ~(i <= 1) /\ i \in 1 .. 1 + (n - 1)
      BY <2>1
    <3>2. tail[i - 1] = handler[i]
      BY <2>2, <3>1
    <3>3. handler'[i] = tail[i - 1]
      BY <2>2, <2>6, <3>1
    <3> QED BY <3>2, <3>3
  <2> QED BY <2>1, <2>7, <2>8, <2>9
<1> HIDE DEF f, g
<1>5. /\ c \in issued /\ completions[c] = 0
      /\ \A i \in DOMAIN handler \ {1} : handler[i].call # c
      /\ ~InSeq(c, loadStack)
      /\ \A j \in jobs : ~Carried(j, c)
  BY <1>1 DEF Bookkeeping, Traced, Exclusive
<1>6. \A i \in DOMAIN handler : handler'[i].call = handler[i].call
  BY <1>1, <1>2, <1>4
<1> HIDE DEF c
<1>7. Exclusive(loadStack, jobs, handler)'
  BY <1>3, <1>4, <1>6 DEF Bookkeeping, Traced, Exclusive
<1>8. completions'[c] = 1 /\ \A d \in Calls \ {c} : completions'[d] = completions[d]
  BY <1>2, <1>3, <1>5 DEF RestType
<1>9. ASSUME NEW i \in DOMAIN handler'
      PROVE  /\ handler'[i].call \in issued'
             /\ completions'[handler'[i].call] = IF handler'[i].phase = "begin" THEN 0 ELSE 1
  <2>1. CASE i = 1
    BY <1>2, <1>3, <1>4, <1>5, <1>8, <2>1
  <2>2. CASE i # 1
    <3>1. handler'[i] = handler[i] /\ handler[i].call # c
      BY <1>4, <1>5, <2>2
    <3>2. handler[i].call \in issued /\ issued \subseteq Calls
      BY <1>4 DEF Bookkeeping, Traced, RestType
    <3> QED BY <1>3, <1>4, <1>8, <3>1, <3>2 DEF Bookkeeping, Traced
  <2> QED BY <2>1, <2>2
<1>10. ASSUME NEW d \in Calls
       PROVE  /\ InSeq(d, loadStack') \/ (\E j \in jobs' : Carried(j, d))
                   => d \in issued' /\ completions'[d] = 0
              /\ d \notin issued' => completions'[d] = 0
  BY <1>3, <1>5, <1>8 DEF Bookkeeping, Traced
<1>11. Traced(loadStack, jobs, handler, issued)'
  BY <1>7, <1>9, <1>10 DEF Traced
<1>12. result'[c] # "none" /\ \A d \in Calls \ {c} : result'[d] = result[d]
  BY <1>2, <1>3 DEF RestType, Replies
<1>13. StatusFollows'
  BY <1>3, <1>5, <1>8, <1>12 DEF Bookkeeping, StatusFollows
<1>14. CompletedOnce'
  BY <1>8 DEF Bookkeeping, CompletedOnce
<1>15. result[c] = "none" /\ status[c] # 2
  BY <1>2, <1>5 DEF Bookkeeping, StatusFollows
<1> QED BY <1>2, <1>3, <1>5, <1>11, <1>13, <1>14, <1>15 DEF Bookkeeping

LEMMA EndBookkeeping ==
  ASSUME QueueType, CountType, Bookkeeping, EndCompletion
  PROVE  Bookkeeping'
<1> DEFINE c == Head(handler).call
<1>1. /\ handler \in Seq(Frames) /\ handler # <<>>
      /\ Head(handler) = handler[1] /\ Head(handler) \in Frames
      /\ Head(handler).phase = "callbacks"
      /\ 1 \in DOMAIN handler
  BY HeadTailProperties DEF EndCompletion, QueueType
<1>2. /\ handler' = Tail(handler)
      /\ status' = [status EXCEPT ![c] = 2]
      /\ UNCHANGED <<attempts, result, completions, issued, loadStack, jobs>>
  BY Zenon DEF EndCompletion
<1>3. \A i \in DOMAIN handler' : i + 1 \in DOMAIN handler /\ handler'[i] = handler[i + 1]
  BY <1>1, <1>2, HeadTailProperties
<1>4. c \in Calls /\ completions[c] = 1
  BY <1>1 DEF Bookkeeping, Traced, Frames
<1>5. ASSUME NEW i \in DOMAIN handler', NEW k \in DOMAIN handler',
             handler'[i].call = handler'[k].call
      PROVE  i = k
  <2>1. i + 1 = k + 1
    BY <1>3, <1>5 DEF Bookkeeping, Traced, Exclusive
  <2>2. i \in Nat /\ k \in Nat
    BY <1>1, <1>2, HeadTailProperties
  <2> QED BY <2>1, <2>2
<1>6. Exclusive(loadStack', jobs', handler')
  BY <1>2, <1>3, <1>5 DEF Bookkeeping, Traced, Exclusive
<1>7. Traced(loadStack', jobs', handler', issued')
  BY <1>2, <1>3, <1>6 DEF Bookkeeping, Traced
<1>8. Traced(loadStack, jobs, handler, issued)'
  BY <1>2, <1>7, TracedNext
<1> HIDE DEF c
<1>9. StatusFollows'
  BY <1>2, <1>4 DEF Bookkeeping, StatusFollows, CountType
<1>10. CompletedOnce'
  BY <1>2 DEF Bookkeeping, CompletedOnce
<1> QED BY <1>8, <1>9, <1>10 DEF Bookkeeping

LEMMA LoadBookkeeping ==
  ASSUME QueueType, CountType, Bookkeeping, NEW c \in Calls, Load(c)
  PROVE  Bookkeeping'
<1>1. <<c>> \in Seq(Calls) /\ Distinct(<<c>>) /\ \A i \in DOMAIN <<c>> : <<c>>[i] \notin issued
  BY DEF Load, Distinct
<1>2. issued' = issued \cup {<<c>>[i] : i \in DOMAIN <<c>>}
  BY DEF Load
<1>3. Traced(loadStack, jobs, handler, issued') /\ Ready(<<c>>, loadStack, jobs, issued')
  BY <1>1, <1>2, AskTraced DEF Bookkeeping
<1>4. jobs \in SUBSET Jobs /\ attempts[c] \in Nat
  BY DEF QueueType, CountType
<1>5. /\ SetStarted(c, attempts[c])
      /\ Route(c, disabled, jobs)
      /\ UNCHANGED <<result, completions>>
  BY DEF Load
<1>6. Traced(loadStack', jobs', handler', issued')
  BY <1>3, <1>4, <1>5, RouteTraced
<1>7. Traced(loadStack, jobs, handler, issued)'
  BY <1>5, <1>6, TracedNext
<1> QED BY <1>4, <1>5, <1>7, SetStartedFollows DEF Bookkeeping

LEMMA ScriptGroupType ==
  ASSUME NEW ms \in ScriptGroups
  PROVE  ms \in Seq(Calls) \ {<<>>}
<1>1. CASE \E c \in Sync : ms = <<c>>
  BY <1>1, CallsAssumption
<1>2. CASE \E c, d \in Sync : ms = <<c, d>>
  BY <1>2, CallsAssumption
<1> QED BY <1>1, <1>2 DEF ScriptGroups

LEMMA LoadScriptsBookkeeping ==
  ASSUME QueueType, CountType, Bookkeeping, NEW ms \in ScriptGroups, LoadScripts(ms)
  PROVE  Bookkeeping'
<1>1. ms \in Seq(Calls) \ {<<>>}
  BY ScriptGroupType
<1>2. /\ Distinct(ms)
      /\ \A i \in DOMAIN ms : ms[i] \notin issued
      /\ issued' = issued \cup {ms[i] : i \in DOMAIN ms}
      /\ UNCHANGED <<result, completions, loadStack>>
  BY DEF LoadScripts, Distinct
<1>3. Traced(loadStack, jobs, handler, issued') /\ Ready(ms, loadStack, jobs, issued')
  BY <1>1, <1>2, AskTraced DEF Bookkeeping
<1>4. jobs \in SUBSET Jobs /\ handler \in Seq(Frames) /\ loadStack \in Seq(Calls)
  BY DEF QueueType
<1>5. Traced(loadStack, jobs', handler', issued')
  <2>1. CASE Len(ms) = 1 /\ DispatchCall(ms[1], jobs)
    <3>1. ms = <<ms[1]>>
      BY <1>1, <2>1
    <3>2. Dispatch(FALSE, ms, 0, Accepted(ms[1], disabled), jobs)
      BY <2>1, <3>1 DEF DispatchCall
    <3> QED BY <1>1, <1>3, <1>4, <3>2, DispatchTraced
  <2>2. CASE DispatchGroup(ms, 1, disabled, jobs)
    BY <1>1, <1>3, <1>4, <2>2, DispatchTraced DEF DispatchGroup
  <2> QED BY <2>1, <2>2 DEF LoadScripts
<1>6. Traced(loadStack, jobs, handler, issued)'
  BY <1>2, <1>5, TracedNext
<1>7. StatusFollows' /\ CompletedOnce'
  <2>1. CASE UNCHANGED <<status, attempts>>
    BY <1>2, <2>1, FollowsUnchanged DEF Bookkeeping
  <2>2. CASE /\ status' = [c \in Calls |-> IF InSeq(c, ms) THEN 1 ELSE status[c]]
             /\ attempts' = [c \in Calls |-> IF InSeq(c, ms) THEN 1 ELSE attempts[c]]
    <3>1. CompletedOnce'
      BY <1>2 DEF Bookkeeping, CompletedOnce
    <3>2. StatusFollows'
      BY <1>2, <2>2 DEF Bookkeeping, StatusFollows
    <3> QED BY <3>1, <3>2
  <2> QED BY <2>1, <2>2, Zenon DEF LoadScripts
<1> QED BY <1>6, <1>7 DEF Bookkeeping

LEMMA NextBookkeeping ==
  ASSUME QueueType, CountType, RestType, Bookkeeping, [Next]_vars
  PROVE  Bookkeeping'
<1>1. ASSUME UNCHANGED <<loadStack, jobs, handler, issued, completions, status, attempts, result>>
      PROVE  Bookkeeping'
  <2>1. Traced(loadStack, jobs, handler, issued)'
    BY <1>1, TracedNext DEF Bookkeeping
  <2> QED BY <1>1, <2>1, FollowsUnchanged DEF Bookkeeping
<1>2. CASE UNCHANGED vars
  BY <1>1, <1>2 DEF vars, callVars, queueVars
<1>3. CASE System
  BY <1>3, FlushBookkeeping, RetryBookkeeping, BeginBookkeeping, EndBookkeeping DEF System
<1>4. CASE Environment
  <2>1. ASSUME NEW t \in Transports, SupportChanges(t) \/ ConnectRefused(t)
        PROVE  Bookkeeping'
    BY <1>1, <2>1 DEF SupportChanges, ConnectRefused, callVars, queueVars
  <2> QED BY <1>4, <2>1, LoadBookkeeping, LoadScriptsBookkeeping DEF Environment
<1>5. CASE \E j \in jobs : Answer(j)
  BY <1>5, AnswerBookkeeping
<1> QED BY <1>2, <1>3, <1>4, <1>5 DEF Next

-----------------------------------------------------------------------------
(* The theorems. *)

(* The places stay exclusive, what waits is not completed, and a completion  *)
(* under way runs once: Bookkeeping is inductive, with the types.            *)
THEOREM BookkeepingCorrect == Spec => []Bookkeeping
<1>1. Init => Bookkeeping
  BY InitBookkeeping
<1>2. QueueType /\ CountType /\ RestType /\ Bookkeeping /\ [Next]_vars => Bookkeeping'
  BY NextBookkeeping
<1> QED BY <1>1, <1>2, TypeInvariant, PTL DEF Spec

(* _loadStack, the requests, the retries and the completions never share a   *)
(* call, so its command is never on its way to the server twice at a time.   *)
THEOREM OneOwnerCorrect == Spec => []OneOwner
<1>1. Bookkeeping => OneOwner
  BY DEF Bookkeeping, Traced, OneOwner
<1> QED BY <1>1, BookkeepingCorrect, PTL

(* setCompleted runs at most once for a call, through retries and fallbacks. *)
THEOREM CompletedOnceCorrect == Spec => []CompletedOnce
<1>1. Bookkeeping => CompletedOnce
  BY DEF Bookkeeping
<1> QED BY <1>1, BookkeepingCorrect, PTL

(***************************************************************************)
(* What the application sees of its calls, proved from Bookkeeping: one    *)
(* reply for a call and never another, a status that never goes back, an   *)
(* activity notice that follows the pending calls, a last transport that   *)
(* is never given up and, where that transport carries everything, no call *)
(* that is forgotten or completed for lack of a transport.                 *)
(***************************************************************************)

LEMMA AllInvariant == Spec => [](QueueType /\ CountType /\ RestType /\ Bookkeeping)
BY TypeInvariant, BookkeepingCorrect, PTL

-----------------------------------------------------------------------------
(* ServerCall implements RequestReply. *)

LEMMA PromiseInit == Init => RR!RRInit
BY DEF Init, RR!RRInit, RR!Unanswered

LEMMA PromiseNext ==
  ASSUME QueueType, RestType, Bookkeeping, [Next]_vars
  PROVE  [RR!RRNext]_(RR!rrVars)
<1>1. CASE UNCHANGED <<issued, result>>
  BY <1>1 DEF RR!rrVars
<1>2. ASSUME NEW c \in Calls, Load(c)
      PROVE  RR!RRNext
  <2>1. RR!Ask({c})
    BY <1>2 DEF Load, RR!Ask
  <2> QED BY <2>1 DEF RR!RRNext
<1>3. ASSUME NEW ms \in ScriptGroups, LoadScripts(ms)
      PROVE  RR!RRNext
  <2> DEFINE S == {ms[i] : i \in DOMAIN ms}
  <2>1. ms \in Seq(Calls) \ {<<>>}
    BY <1>3, ScriptGroupType
  <2>2. S # {} /\ S \subseteq Calls
    <3>1. 1 \in DOMAIN ms
      BY <2>1
    <3> QED BY <2>1, <3>1
  <2>3. RR!Ask(S)
    BY <1>3, <2>2 DEF LoadScripts, RR!Ask
  <2> QED BY <2>2, <2>3 DEF RR!RRNext
<1>4. CASE BeginCompletion
  <2>1. PICK c \in issued : \E r \in Replies :
          result[c] = "none" /\ result' = [result EXCEPT ![c] = r]
    BY <1>4, BeginBookkeeping
  <2>2. c \in Calls /\ UNCHANGED issued
    BY <1>4 DEF RestType, BeginCompletion
  <2>3. RR!Reply(c)
    BY <2>1, <2>2 DEF RR!Reply, RR!Unanswered
  <2> QED BY <2>2, <2>3 DEF RR!RRNext
<1>5. CASE System
  <2>1. CASE FlushLoadStack
    BY <1>1, <2>1 DEF FlushLoadStack, callVars
  <2>2. CASE \E j \in jobs : Retry(j)
    BY <1>1, <2>2 DEF Retry
  <2>3. CASE EndCompletion
    <3>1. UNCHANGED <<issued, result>>
      BY <2>3, Zenon DEF EndCompletion
    <3> QED BY <1>1, <3>1
  <2> QED BY <1>4, <1>5, <2>1, <2>2, <2>3 DEF System
<1>6. CASE Environment
  <2>1. ASSUME NEW t \in Transports, SupportChanges(t) \/ ConnectRefused(t)
        PROVE  UNCHANGED <<issued, result>>
    BY <2>1 DEF SupportChanges, ConnectRefused, callVars
  <2> QED BY <1>1, <1>2, <1>3, <1>6, <2>1 DEF Environment
<1>7. CASE \E j \in jobs : Answer(j)
  BY <1>1, <1>7 DEF Answer, Respond, FailRetry, FailOver, FailFinally, callVars
<1>8. CASE UNCHANGED vars
  BY <1>1, <1>8 DEF vars, callVars
<1> QED BY <1>5, <1>6, <1>7, <1>8 DEF Next

(* Whatever the transports, the retries and the groups do, a loaded call is  *)
(* given at most one reply, which never changes, and no other call is.       *)
THEOREM PromiseCorrect == Spec => Promise
<1>1. Init => RR!RRInit
  BY PromiseInit
<1>2. QueueType /\ CountType /\ RestType /\ Bookkeeping /\ [Next]_vars => [RR!RRNext]_(RR!rrVars)
  BY PromiseNext
<1> QED BY <1>1, <1>2, AllInvariant, PTL DEF Spec, Promise, RR!RRSafety

-----------------------------------------------------------------------------
(* How a step changes the status of the calls. *)

(* The calls of S are sent at once by doRequestGroup.                        *)
StartedTogether(S) ==
  /\ S \subseteq Calls
  /\ S # {}
  /\ status' = [c \in Calls |-> IF c \in S THEN 1 ELSE status[c]]
  /\ busy' = (busy \/ Pending = {})

LEMMA StatusStep ==
  ASSUME QueueType, CountType, RestType, Bookkeeping, [Next]_vars
  PROVE  \/ UNCHANGED <<status, busy>>
         \/ \E c \in Calls : /\ completions[c] = 0
                             /\ \/ SetStarted(c, 0)
                                \/ SetStarted(c, attempts[c])
         \/ \E S : StartedTogether(S) /\ \A c \in S : completions[c] = 0
         \/ EndCompletion
<1>1. CASE UNCHANGED vars
  BY <1>1 DEF vars, callVars, noticeVars
<1>2. ASSUME NEW j \in jobs
      PROVE  j.members[1] \in Calls /\ completions[j.members[1]] = 0
  <2>1. j.members[1] \in Calls
    BY JobType
  <2>2. Carried(j, j.members[1])
    <3>1. 1 \in DOMAIN j.members
      BY JobType
    <3> QED BY <3>1 DEF Carried, InSeq
  <2> QED BY <2>1, <2>2 DEF Bookkeeping, Traced
<1>3. ASSUME NEW j \in jobs, Answer(j)
      PROVE  UNCHANGED <<status, busy>> \/ SetStarted(j.members[1], 0)
  BY <1>3 DEF Answer, Respond, FailRetry, FailOver, FailFinally, callVars, noticeVars
<1>4. CASE System
  <2>1. CASE FlushLoadStack
    BY <2>1 DEF FlushLoadStack, callVars, noticeVars
  <2>2. ASSUME NEW j \in jobs, Retry(j)
        PROVE  UNCHANGED <<status, busy>> \/ SetStarted(j.members[1], attempts[j.members[1]])
    BY <2>2 DEF Retry, noticeVars
  <2>3. CASE BeginCompletion
    BY <2>3 DEF BeginCompletion, noticeVars
  <2> QED BY <1>2, <1>4, <2>1, <2>2, <2>3 DEF System
<1>5. CASE Environment
  <2>1. ASSUME NEW c \in Calls, Load(c)
        PROVE  completions[c] = 0 /\ SetStarted(c, attempts[c])
    BY <2>1 DEF Load, Bookkeeping, Traced
  <2>2. ASSUME NEW ms \in ScriptGroups, LoadScripts(ms)
        PROVE  \/ UNCHANGED <<status, busy>>
               \/ \E S : StartedTogether(S) /\ \A c \in S : completions[c] = 0
    <3> DEFINE S == {c \in Calls : InSeq(c, ms)}
    <3>1. ms \in Seq(Calls) \ {<<>>}
      BY <2>2, ScriptGroupType
    <3>2. 1 \in DOMAIN ms /\ ms[1] \in S
      <4>1. 1 \in DOMAIN ms /\ ms[1] \in Calls
        BY <3>1
      <4> QED BY <4>1 DEF InSeq
    <3>3. \A c \in S : completions[c] = 0
      BY <2>2 DEF LoadScripts, InSeq, Bookkeeping, Traced
    <3>4. CASE /\ status' = [c \in Calls |-> IF InSeq(c, ms) THEN 1 ELSE status[c]]
               /\ busy' = (busy \/ Pending = {})
      <4>1. StartedTogether(S)
        BY <3>2, <3>4, Zenon DEF StartedTogether
      <4> QED BY <3>3, <4>1
    <3>5. UNCHANGED <<status, busy>>
            \/ /\ status' = [c \in Calls |-> IF InSeq(c, ms) THEN 1 ELSE status[c]]
               /\ busy' = (busy \/ Pending = {})
      BY <2>2, Zenon DEF LoadScripts
    <3> QED BY <3>4, <3>5
  <2>3. ASSUME NEW t \in Transports, SupportChanges(t) \/ ConnectRefused(t)
        PROVE  UNCHANGED <<status, busy>>
    BY <2>3 DEF SupportChanges, ConnectRefused, callVars, noticeVars
  <2> QED BY <1>5, <2>1, <2>2, <2>3 DEF Environment
<1> QED BY <1>1, <1>2, <1>3, <1>4, <1>5 DEF Next

-----------------------------------------------------------------------------
(* A completed call stays completed. *)

LEMMA CompletedStays ==
  ASSUME QueueType, CountType, RestType, Bookkeeping, Bookkeeping', [Next]_vars,
         NEW c \in Calls, status[c] = 2
  PROVE  /\ status'[c] = 2
         /\ result'[c] = result[c]
         /\ ~\E j \in jobs' : Carried(j, c)
<1>1. completions[c] = 1
  BY DEF Bookkeeping, StatusFollows
<1>2. status'[c] = 2
  <2>1. ASSUME NEW d \in Calls, NEW n, SetStarted(d, n), completions[d] = 0
        PROVE  status'[c] = 2
    BY <1>1, <2>1 DEF SetStarted, CountType
  <2>2. ASSUME NEW S, StartedTogether(S), \A d \in S : completions[d] = 0
        PROVE  status'[c] = 2
    BY <1>1, <2>2 DEF StartedTogether
  <2>3. CASE EndCompletion
    <3>1. status' = [status EXCEPT ![Head(handler).call] = 2]
      BY <2>3, Zenon DEF EndCompletion
    <3> QED BY <3>1 DEF CountType
  <2> QED BY <2>1, <2>2, <2>3, StatusStep
<1>3. result'[c] = result[c]
  <2>1. result[c] # "none"
    BY <1>1 DEF Bookkeeping, StatusFollows
  <2>2. CASE UNCHANGED <<issued, result>>
    BY <2>2
  <2>3. CASE \E S \in SUBSET Calls : RR!Ask(S)
    BY <2>3 DEF RR!Ask
  <2>4. ASSUME NEW d \in Calls, RR!Reply(d)
        PROVE  result'[c] = result[c]
    BY <2>1, <2>4 DEF RR!Reply, RR!Unanswered, RestType
  <2> QED BY <2>2, <2>3, <2>4, PromiseNext DEF RR!RRNext, RR!rrVars
<1>4. completions'[c] = 1
  BY <1>2 DEF Bookkeeping, StatusFollows
<1> QED BY <1>2, <1>3, <1>4 DEF Bookkeeping, Traced

(* A completed call is never sent, retried or answered again, and keeps its  *)
(* result, although its fallbacks call load() again on the same object.      *)
THEOREM NeverReopenedCorrect == Spec => NeverReopened
<1> DEFINE Kind == \A c \in Calls : status[c] = 2 =>
                     /\ status'[c] = 2
                     /\ result'[c] = result[c]
                     /\ ~\E j \in jobs' : Carried(j, c)
           Inv == QueueType /\ CountType /\ RestType /\ Bookkeeping
<1>1. Inv /\ Inv' /\ [Next]_vars => [Kind]_vars
  BY CompletedStays
<1>2. Spec => []Inv
  BY AllInvariant
<1>3. [][Kind]_vars <=> NeverReopened
  BY DEF NeverReopened
<1> HIDE DEF Kind, Inv
<1>4. Spec => [][Kind]_vars
  BY <1>1, <1>2, PTL DEF Spec
<1> QED BY <1>3, <1>4, PTL

-----------------------------------------------------------------------------
(* The activity notice. *)

LEMMA BusyNext ==
  ASSUME QueueType, CountType, RestType, Bookkeeping, BusyWhilePending, [Next]_vars
  PROVE  BusyWhilePending'
<1>1. CASE UNCHANGED <<status, busy>>
  BY <1>1, Zenon DEF BusyWhilePending, Pending
<1>2. ASSUME NEW c \in Calls, completions[c] = 0, SetStarted(c, 0)
      PROVE  BusyWhilePending'
  <2>1. Pending' # {}
    <3>1. c \in Pending'
      BY <1>2 DEF SetStarted, Pending, CountType
    <3> QED BY <3>1
  <2>2. busy' = (busy \/ Pending \cup {c} = {c})
    BY <1>2, Zenon DEF SetStarted
  <2>3. Pending = {} => Pending \cup {c} = {c}
    OBVIOUS
  <2> QED BY <2>1, <2>2, <2>3, Zenon DEF BusyWhilePending
<1>3. ASSUME NEW c \in Calls, completions[c] = 0, attempts[c] # 0, SetStarted(c, attempts[c])
      PROVE  BusyWhilePending'
  <2>1. c \in Pending
    BY <1>3 DEF Bookkeeping, StatusFollows, Pending, CountType
  <2>2. c \in Pending'
    BY <1>3 DEF SetStarted, Pending, CountType
  <2>3. busy' = busy
    BY <1>3, Zenon DEF SetStarted, noticeVars
  <2> QED BY <2>1, <2>2, <2>3, Zenon DEF BusyWhilePending
<1>4. ASSUME NEW S, StartedTogether(S)
      PROVE  BusyWhilePending'
  <2>1. Pending' # {}
    BY <1>4 DEF StartedTogether, Pending
  <2>2. busy' = (busy \/ Pending = {})
    BY <1>4, Zenon DEF StartedTogether
  <2> QED BY <2>1, <2>2, Zenon DEF BusyWhilePending
<1>5. CASE EndCompletion
  <2> DEFINE c == Head(handler).call
  <2>1. status' = [status EXCEPT ![c] = 2] /\ busy' = (busy /\ Pending \ {c} # {})
    BY <1>5, Zenon DEF EndCompletion
  <2> HIDE DEF c
  <2>2. Pending' = Pending \ {c}
    BY <2>1 DEF Pending, CountType
  <2>3. Pending \ {c} # {} => Pending # {}
    OBVIOUS
  <2> QED BY <2>1, <2>2, <2>3, Zenon DEF BusyWhilePending
<1>6. ASSUME NEW c \in Calls, completions[c] = 0, SetStarted(c, attempts[c])
      PROVE  BusyWhilePending'
  <2>1. CASE attempts[c] = 0
    BY <1>2, <1>6, <2>1
  <2> QED BY <1>3, <1>6, <2>1
<1> QED BY <1>1, <1>2, <1>4, <1>5, <1>6, StatusStep

(* The page is told 'start' and 'complete' so that it shows activity exactly *)
(* while some call is pending.                                               *)
THEOREM BusyWhilePendingCorrect == Spec => []BusyWhilePending
<1>1. Init => BusyWhilePending
  <2> SUFFICES ASSUME Init PROVE BusyWhilePending
    OBVIOUS
  <2>1. Pending = {}
    BY DEF Init, Pending
  <2>2. busy = FALSE
    BY DEF Init
  <2> QED BY <2>1, <2>2, Zenon DEF BusyWhilePending
<1>2. QueueType /\ CountType /\ RestType /\ Bookkeeping /\ BusyWhilePending /\ [Next]_vars
        => BusyWhilePending'
  BY BusyNext
<1> QED BY <1>1, <1>2, AllInvariant, PTL DEF Spec

-----------------------------------------------------------------------------
(* The last resort. *)

LEMMA LastResortNext ==
  ASSUME QueueType, RestType, LastResortEnabled, [Next]_vars
  PROVE  LastResortEnabled'
<1>1. CASE UNCHANGED disabled
  BY <1>1 DEF LastResortEnabled, LastResort
<1>2. ASSUME NEW j \in jobs, FailOver(j)
      PROVE  LastResortEnabled'
  <2>1. PICK t \in j.accepted : t < j.via
    BY <1>2 DEF FailOver, HasNext
  <2>2. t < j.via /\ t \in Transports /\ t \in Nat /\ j.via \in Nat
    BY <2>1, JobType, TransportsAssumption
  <2>3. ~LastResort(j.via)
    BY <2>2 DEF LastResort
  <2>4. disabled' = disabled \cup {j.via}
    BY <1>2 DEF FailOver
  <2> QED BY <2>3, <2>4 DEF LastResortEnabled, LastResort
<1>3. ASSUME NEW t \in Transports, ConnectRefused(t)
      PROVE  LastResortEnabled'
  BY <1>3 DEF ConnectRefused, LastResortEnabled, LastResort
<1>4. CASE UNCHANGED vars
  BY <1>1, <1>4 DEF vars, transportVars
<1>5. ASSUME NEW j \in jobs, Answer(j)
      PROVE  LastResortEnabled'
  BY <1>1, <1>2, <1>5 DEF Answer, Respond, FailRetry, FailFinally, transportVars
<1>6. CASE System
  <2>1. CASE EndCompletion
    <3>1. UNCHANGED disabled
      BY <2>1, Zenon DEF EndCompletion, transportVars
    <3> QED BY <1>1, <3>1
  <2>2. CASE FlushLoadStack \/ (\E j \in jobs : Retry(j)) \/ BeginCompletion
    BY <1>1, <2>2 DEF FlushLoadStack, Retry, BeginCompletion, transportVars
  <2> QED BY <1>6, <2>1, <2>2 DEF System
<1>7. CASE Environment
  <2>1. ASSUME NEW t \in Transports, SupportChanges(t)
        PROVE  LastResortEnabled'
    BY <1>1, <2>1 DEF SupportChanges
  <2>2. ASSUME NEW c \in Calls, Load(c)
        PROVE  LastResortEnabled'
    BY <1>1, <2>2 DEF Load
  <2>3. ASSUME NEW ms \in ScriptGroups, LoadScripts(ms)
        PROVE  LastResortEnabled'
    <3>1. UNCHANGED disabled
      BY <2>3, Zenon DEF LoadScripts
    <3> QED BY <1>1, <3>1
  <2> QED BY <1>3, <1>7, <2>1, <2>2, <2>3 DEF Environment
<1> QED BY <1>4, <1>5, <1>6, <1>7 DEF Next

(* However many calls fail over, the steady transport of lowest priority     *)
(* (ajax) is never disabled.                                                 *)
THEOREM LastResortEnabledCorrect == Spec => []LastResortEnabled
<1>1. Init => LastResortEnabled
  BY DEF Init, LastResortEnabled
<1>2. QueueType /\ RestType /\ LastResortEnabled /\ [Next]_vars => LastResortEnabled'
  BY LastResortNext
<1> QED BY <1>1, <1>2, AllInvariant, PTL DEF Spec

-----------------------------------------------------------------------------
(* No call is forgotten, and none that ajax can carry lacks a transport. *)

(* What ajax is: always there, for any call and for any group of calls.      *)
CarriesAll(t) == LastResort(t) /\ t \in GroupCapable /\ \A c \in Calls : t \in Accepts[c]

SteadySupported == Steady \subseteq supported
Available == LastResortEnabled /\ SteadySupported

LEMMA AvailableInvariant == Spec => []Available
<1>1. Init => SteadySupported
  BY DEF Init, SteadySupported
<1>2. SteadySupported /\ [Next]_vars => SteadySupported'
  <2> SUFFICES ASSUME SteadySupported, [Next]_vars PROVE SteadySupported'
    OBVIOUS
  <2>1. UNCHANGED supported \/ \E t \in Transports : SupportChanges(t)
    <3>1. CASE UNCHANGED vars
      BY <3>1 DEF vars, transportVars
    <3>2. ASSUME NEW j \in jobs, Answer(j) PROVE UNCHANGED supported
      BY <3>2 DEF Answer, Respond, FailRetry, FailOver, FailFinally, transportVars
    <3>3. CASE FlushLoadStack \/ (\E j \in jobs : Retry(j)) \/ BeginCompletion
      BY <3>3 DEF FlushLoadStack, Retry, BeginCompletion, transportVars
    <3>4. CASE EndCompletion
      BY <3>4, Zenon DEF EndCompletion, transportVars
    <3>5. CASE Environment
      <4>1. ASSUME NEW ms \in ScriptGroups, LoadScripts(ms) PROVE UNCHANGED supported
        BY <4>1, Zenon DEF LoadScripts
      <4>2. ASSUME NEW c \in Calls, Load(c) PROVE UNCHANGED supported
        BY <4>2 DEF Load
      <4>3. ASSUME NEW t \in Transports, ConnectRefused(t) PROVE UNCHANGED supported
        BY <4>3 DEF ConnectRefused
      <4> QED BY <3>5, <4>1, <4>2, <4>3 DEF Environment
    <3> QED BY <3>1, <3>2, <3>3, <3>4, <3>5 DEF Next, System
  <2> QED BY <2>1 DEF SupportChanges, SteadySupported
<1> QED BY <1>1, <1>2, LastResortEnabledCorrect, PTL DEF Spec, Available

(* With such a transport whatever is sent gets a request.                    *)
LEMMA CarriedByIt ==
  ASSUME NEW t \in Transports, CarriesAll(t), NEW off, t \notin off, t \in supported
  PROVE  /\ \A c \in Calls : t \in Accepted(c, off)
         /\ \A ms \in Seq(Calls) : t \in AcceptedByAll(ms, off)
BY DEF CarriesAll, Accepted, AcceptedByAll

LEMMA Dispatched ==
  ASSUME NEW g, NEW ms, NEW n, NEW acc, acc # {}, NEW js, Dispatch(g, ms, n, acc, js)
  PROVE  UNCHANGED handler /\ \E via : jobs' = js \cup {Sent(g, ms, n, acc, via)}
BY DEF Dispatch

LEMMA Routed ==
  ASSUME NEW c \in Calls, NEW off, Accepted(c, off) # {}, NEW js, Route(c, off, js)
  PROVE  /\ UNCHANGED handler
         /\ \/ /\ UNCHANGED loadStack
               /\ \E acc, via : jobs' = js \cup {Sent(FALSE, <<c>>, 0, acc, via)}
            \/ loadStack' = Append(loadStack, c) /\ jobs' = js
<1>1. PICK t \in Transports \cup {None} :
        /\ IsFirst(t, Accepted(c, off))
        /\ \/ /\ Dispatch(FALSE, <<c>>, 0, Accepted(c, off), js)
              /\ UNCHANGED loadStack
           \/ /\ AddToLoadStack(c)
              /\ jobs' = js
              /\ UNCHANGED handler
           \/ t = None
  BY DEF Route
<1>2. t # None
  BY <1>1, AcceptedType, TransportsAssumption DEF IsFirst
<1>3. CASE Dispatch(FALSE, <<c>>, 0, Accepted(c, off), js) /\ UNCHANGED loadStack
  <2>1. UNCHANGED handler /\ \E via : jobs' = js \cup {Sent(FALSE, <<c>>, 0, Accepted(c, off), via)}
    BY <1>3, Zenon DEF Dispatch
  <2> QED BY <1>3, <2>1, Zenon
<1>4. CASE AddToLoadStack(c) /\ jobs' = js /\ UNCHANGED handler
  BY <1>4 DEF AddToLoadStack
<1>5. \/ Dispatch(FALSE, <<c>>, 0, Accepted(c, off), js) /\ UNCHANGED loadStack
      \/ AddToLoadStack(c) /\ jobs' = js /\ UNCHANGED handler
  BY <1>1, <1>2, Zenon
<1> QED BY <1>3, <1>4, <1>5, Zenon

(* The inductive invariant: a single request carries one call, a loaded call *)
(* is somewhere until it is completed, and no completion lacks a transport.  *)
Singles == \A j \in jobs : ~j.group => Len(j.members) = 1
Tended == \A c \in issued : Owned(c) \/ status[c] = 2
NeverLacking ==
  /\ \A c \in Calls : result[c] # "no transport"
  /\ \A i \in DOMAIN handler : handler[i].result # "no transport"

Seen == QueueType /\ CountType /\ RestType /\ Bookkeeping /\ Available

(* A step that sends the calls of ms, taken from wherever they were.         *)
SendsAll(g, ms, js) ==
  /\ UNCHANGED handler
  /\ \E n, acc, via : jobs' = js \cup {Sent(g, ms, n, acc, via)}

LEMMA SentTended ==
  ASSUME NEW g, NEW ms, NEW js, SendsAll(g, ms, js), js \subseteq jobs,
         \A j \in jobs \ js : j.members = ms,
         \A c : InSeq(c, loadStack) => InSeq(c, loadStack') \/ InSeq(c, ms)
  PROVE  /\ \A c : Owned(c) => Owned(c)'
         /\ \A c : InSeq(c, ms) => Owned(c)'
<1>1. PICK n, acc, via : jobs' = js \cup {Sent(g, ms, n, acc, via)}
  BY DEF SendsAll
<1> DEFINE job == Sent(g, ms, n, acc, via)
<1>2. job \in jobs' /\ job.members = ms
  BY <1>1 DEF Sent
<1> HIDE DEF job
<1>3. \A c : InSeq(c, ms) => \E j \in jobs' : Carried(j, c)
  BY <1>2 DEF Carried
<1>4. \A c : (\E j \in jobs : Carried(j, c)) => \E j \in jobs' : Carried(j, c)
  BY <1>1, <1>3 DEF Carried
<1>5. \A c : Completing(c) => Completing(c)'
  BY DEF SendsAll, Completing
<1> QED BY <1>3, <1>4, <1>5 DEF Owned

LEMMA SentSingles ==
  ASSUME Singles, NEW g, NEW ms, NEW js, SendsAll(g, ms, js), js \subseteq jobs, g \/ Len(ms) = 1
  PROVE  Singles'
<1>1. PICK n, acc, via : jobs' = js \cup {Sent(g, ms, n, acc, via)}
  BY DEF SendsAll
<1> QED BY <1>1 DEF Singles, Sent

LEMMA RouteTended ==
  ASSUME QueueType, Singles, NEW c \in Calls, NEW off, Accepted(c, off) # {},
         NEW js \in SUBSET jobs, \A j \in jobs \ js : j.members = <<c>>, Route(c, off, js)
  PROVE  UNCHANGED handler /\ Singles' /\ Owned(c)' /\ \A d : Owned(d) => Owned(d)'
<1>1. UNCHANGED handler
  BY Routed
<1>2. InSeq(c, <<c>>) /\ \A d : InSeq(d, <<c>>) => d = c
  BY DEF InSeq
<1>3. CASE UNCHANGED loadStack /\ \E acc, via : jobs' = js \cup {Sent(FALSE, <<c>>, 0, acc, via)}
  <2>1. SendsAll(FALSE, <<c>>, js)
    BY <1>1, <1>3 DEF SendsAll
  <2>2. Len(<<c>>) = 1
    OBVIOUS
  <2>3. Singles'
    BY <2>1, <2>2, SentSingles
  <2>4. \A d : InSeq(d, loadStack) => InSeq(d, loadStack') \/ InSeq(d, <<c>>)
    BY <1>3
  <2>5. (\A d : Owned(d) => Owned(d)') /\ \A d : InSeq(d, <<c>>) => Owned(d)'
    BY <2>1, <2>4, SentTended
  <2> QED BY <1>1, <1>2, <2>3, <2>5
<1>4. CASE loadStack' = Append(loadStack, c) /\ jobs' = js
  <2>1. loadStack \in Seq(Calls)
    BY DEF QueueType
  <2>2. InSeq(c, loadStack') /\ \A d : InSeq(d, loadStack) => InSeq(d, loadStack')
    <3>1. /\ loadStack' \in Seq(Calls) /\ Len(loadStack') = Len(loadStack) + 1
          /\ \A i \in 1 .. Len(loadStack) : loadStack'[i] = loadStack[i]
          /\ loadStack'[Len(loadStack) + 1] = c
      BY <1>4, <2>1, AppendProperties
    <3>2. DOMAIN loadStack = 1 .. Len(loadStack) /\ DOMAIN loadStack' = 1 .. Len(loadStack) + 1
          /\ Len(loadStack) \in Nat
      BY <2>1, <3>1
    <3> QED BY <3>1, <3>2 DEF InSeq
  <2>3. \A d : (\E j \in jobs : Carried(j, d)) => (\E j \in jobs' : Carried(j, d)) \/ d = c
    BY <1>2, <1>4 DEF Carried
  <2>4. \A d : Completing(d) => Completing(d)'
    BY <1>1 DEF Completing
  <2>5. Singles'
    BY <1>4 DEF Singles
  <2> QED BY <1>1, <2>2, <2>3, <2>4, <2>5 DEF Owned
<1>5. \/ UNCHANGED loadStack /\ \E acc, via : jobs' = js \cup {Sent(FALSE, <<c>>, 0, acc, via)}
      \/ loadStack' = Append(loadStack, c) /\ jobs' = js
  BY Routed, Zenon
<1> QED BY <1>3, <1>4, <1>5, Zenon

(* The calls of ms begin to be completed, with r.                            *)
LEMMA Completes ==
  ASSUME QueueType, NEW ms \in Seq(Calls), NEW r, Complete(ms, r)
  PROVE  /\ \A c : InSeq(c, ms) \/ Completing(c) => Completing(c)'
         /\ r # "no transport" /\ (\A i \in DOMAIN handler : handler[i].result # "no transport")
              => \A i \in DOMAIN handler' : handler'[i].result # "no transport"
<1> DEFINE new == [i \in 1 .. Len(ms) |-> [call |-> ms[i], result |-> r, phase |-> "begin"]]
           F == [call : Calls, result : {r}, phase : {"begin"}] \cup Frames
<1>1. Len(ms) \in Nat /\ Len(handler) \in Nat /\ DOMAIN ms = 1 .. Len(ms) /\ handler \in Seq(F)
  <2>1. handler \in Seq(Frames)
    BY DEF QueueType
  <2>2. Frames \subseteq F
    OBVIOUS
  <2>3. handler \in Seq(F)
    BY <2>1, <2>2, SeqMonotonic
  <2> QED BY <2>1, <2>3
<1>2. new \in Seq(F) /\ Len(new) = Len(ms)
  <2>1. \A i \in 1 .. Len(ms) : ms[i] \in Calls
    OBVIOUS
  <2>2. \A i \in 1 .. Len(ms) : [call |-> ms[i], result |-> r, phase |-> "begin"] \in F
    BY <2>1
  <2> HIDE DEF F
  <2>3. new \in [1 .. Len(ms) -> F]
    BY <2>2
  <2> QED BY <1>1, <2>3
<1>3. \A i \in 1 .. Len(ms) : new[i].call = ms[i] /\ new[i].result = r
  OBVIOUS
<1>4. handler' = new \o handler
  BY DEF Complete
<1> HIDE DEF new, F
<1>5. /\ Len(handler') = Len(ms) + Len(handler) /\ handler' \in Seq(F)
      /\ \A i \in 1 .. Len(ms) + Len(handler) :
           handler'[i] = IF i <= Len(ms) THEN new[i] ELSE handler[i - Len(ms)]
  <2>1. /\ Len(new \o handler) = Len(new) + Len(handler)
        /\ new \o handler \in Seq(F)
        /\ \A i \in 1 .. Len(new) + Len(handler) :
             (new \o handler)[i] = IF i <= Len(new) THEN new[i] ELSE handler[i - Len(new)]
    BY <1>1, <1>2, ConcatProperties, Zenon
  <2> QED BY <1>2, <1>4, <2>1
<1>6. /\ DOMAIN handler' = 1 .. Len(ms) + Len(handler) /\ DOMAIN handler = 1 .. Len(handler)
      /\ \A i \in 1 .. Len(ms) : handler'[i] = new[i]
      /\ \A i \in 1 .. Len(handler) :
           i + Len(ms) \in 1 .. Len(ms) + Len(handler) /\ handler'[i + Len(ms)] = handler[i]
      /\ \A i \in 1 .. Len(ms) + Len(handler) :
           i \in 1 .. Len(ms) \/ (i - Len(ms) \in 1 .. Len(handler) /\ handler'[i] = handler[i - Len(ms)])
  <2>1. ASSUME NEW i \in 1 .. Len(handler)
        PROVE  i + Len(ms) \in 1 .. Len(ms) + Len(handler) /\ handler'[i + Len(ms)] = handler[i]
    <3>1. i + Len(ms) \in 1 .. Len(ms) + Len(handler) /\ ~(i + Len(ms) <= Len(ms)) /\ i + Len(ms) - Len(ms) = i
      BY <1>1
    <3> QED BY <1>5, <3>1
  <2> QED BY <1>1, <1>5, <2>1
<1>7. \A c : InSeq(c, ms) => Completing(c)'
  <2> SUFFICES ASSUME NEW k \in 1 .. Len(ms) PROVE Completing(ms[k])'
    BY <1>1 DEF InSeq
  <2>1. k \in DOMAIN handler' /\ handler'[k].call = ms[k]
    BY <1>1, <1>3, <1>6
  <2> QED BY <2>1 DEF Completing
<1>8. \A c : Completing(c) => Completing(c)'
  <2> SUFFICES ASSUME NEW c, NEW k \in 1 .. Len(handler), handler[k].call = c
               PROVE  Completing(c)'
    BY <1>6 DEF Completing
  <2>1. k + Len(ms) \in DOMAIN handler' /\ handler'[k + Len(ms)].call = c
    BY <1>6
  <2> QED BY <2>1 DEF Completing
<1>9. ASSUME r # "no transport", \A i \in DOMAIN handler : handler[i].result # "no transport",
             NEW i \in DOMAIN handler'
      PROVE  handler'[i].result # "no transport"
  <2>1. CASE i \in 1 .. Len(ms)
    BY <1>3, <1>6, <1>9, <2>1
  <2>2. CASE i - Len(ms) \in 1 .. Len(handler) /\ handler'[i] = handler[i - Len(ms)]
    BY <1>6, <1>9, <2>2
  <2> QED BY <1>6, <2>1, <2>2
<1> QED BY <1>7, <1>8, <1>9

(* A job is taken by the completions of its calls.                           *)
LEMMA JobCompletes ==
  ASSUME QueueType, Singles, NEW j \in jobs, NEW r, Complete(j.members, r), jobs' = jobs \ {j},
         UNCHANGED loadStack
  PROVE  Singles' /\ \A c : Owned(c) => Owned(c)'
<1>1. j.members \in Seq(Calls)
  BY JobType
<1>2. \A c : InSeq(c, j.members) \/ Completing(c) => Completing(c)'
  BY <1>1, Completes
<1>3. \A c : (\E k \in jobs : Carried(k, c)) => (\E k \in jobs' : Carried(k, c)) \/ InSeq(c, j.members)
  BY DEF Carried
<1> QED BY <1>2, <1>3 DEF Owned, Singles

-----------------------------------------------------------------------------
(* One handler after the other. *)

(* What every handler but the completions keeps.                             *)
Keeps ==
  /\ Singles'
  /\ \A c : Owned(c) => Owned(c)'
  /\ \A c \in issued' \ issued : Owned(c)'
  /\ UNCHANGED result
  /\ (\A i \in DOMAIN handler : handler[i].result # "no transport")
       => \A i \in DOMAIN handler' : handler'[i].result # "no transport"

LEMMA LoadKeeps ==
  ASSUME QueueType, Singles, NEW c \in Calls, Accepted(c, disabled) # {}, Load(c)
  PROVE  Keeps
<1>1. Route(c, disabled, jobs) /\ issued' = issued \cup {c} /\ UNCHANGED result
  BY DEF Load
<1>2. UNCHANGED handler /\ Singles' /\ Owned(c)' /\ \A d : Owned(d) => Owned(d)'
  <2>1. jobs \in SUBSET jobs /\ \A j \in jobs \ jobs : j.members = <<c>>
    OBVIOUS
  <2> QED BY <1>1, <2>1, RouteTended
<1> QED BY <1>1, <1>2 DEF Keeps

LEMMA LoadScriptsKeeps ==
  ASSUME QueueType, Singles, NEW ms \in Seq(Calls), LoadScripts(ms),
         \A c \in Calls : Accepted(c, disabled) # {}, AcceptedByAll(ms, disabled) # {}
  PROVE  Keeps
<1>1. /\ ms # <<>> /\ issued' = issued \cup {ms[i] : i \in DOMAIN ms}
      /\ UNCHANGED <<loadStack, result>>
      /\ \/ Len(ms) = 1 /\ DispatchCall(ms[1], jobs)
         \/ Len(ms) > 1 /\ DispatchGroup(ms, 1, disabled, jobs)
  BY Zenon DEF LoadScripts
<1>2. \E g : SendsAll(g, ms, jobs) /\ (g \/ Len(ms) = 1)
  <2>1. CASE Len(ms) = 1 /\ DispatchCall(ms[1], jobs)
    <3>1. ms = <<ms[1]>> /\ ms[1] \in Calls
      BY <2>1
    <3>2. Dispatch(FALSE, ms, 0, Accepted(ms[1], disabled), jobs)
      BY <2>1, <3>1 DEF DispatchCall
    <3>3. SendsAll(FALSE, ms, jobs)
      BY <3>1, <3>2, Zenon DEF Dispatch, SendsAll
    <3> QED BY <2>1, <3>3
  <2>2. CASE DispatchGroup(ms, 1, disabled, jobs)
    BY <2>2, Zenon DEF DispatchGroup, Dispatch, SendsAll
  <2> QED BY <1>1, <2>1, <2>2
<1>3. PICK g : SendsAll(g, ms, jobs) /\ (g \/ Len(ms) = 1)
  BY <1>2
<1>4. Singles' /\ UNCHANGED handler
  BY <1>3, SentSingles DEF SendsAll
<1>5. (\A c : Owned(c) => Owned(c)') /\ \A c : InSeq(c, ms) => Owned(c)'
  BY <1>1, <1>3, SentTended
<1>6. \A c \in issued' \ issued : InSeq(c, ms)
  BY <1>1 DEF InSeq
<1> QED BY <1>1, <1>4, <1>5, <1>6 DEF Keeps

LEMMA FlushKeeps ==
  ASSUME QueueType, Singles, FlushLoadStack,
         \A c \in Calls : Accepted(c, disabled) # {},
         \A ms \in Seq(Calls) : AcceptedByAll(ms, disabled) # {}
  PROVE  Keeps
<1>1. /\ UNCHANGED <<issued, result>>
      /\ \/ Len(loadStack) = 1 /\ DispatchCall(loadStack[1], jobs)
         \/ DispatchGroup(loadStack, 0, disabled, jobs)
  BY DEF FlushLoadStack, callVars
<1>2. loadStack \in Seq(Calls)
  BY DEF QueueType
<1>3. \E g : SendsAll(g, loadStack, jobs) /\ (g \/ Len(loadStack) = 1)
  <2>1. CASE Len(loadStack) = 1 /\ DispatchCall(loadStack[1], jobs)
    <3>1. loadStack = <<loadStack[1]>> /\ loadStack[1] \in Calls
      BY <1>2, <2>1
    <3>2. Dispatch(FALSE, loadStack, 0, Accepted(loadStack[1], disabled), jobs)
      BY <2>1, <3>1 DEF DispatchCall
    <3>3. SendsAll(FALSE, loadStack, jobs)
      BY <3>1, <3>2, Zenon DEF Dispatch, SendsAll
    <3> QED BY <2>1, <3>3
  <2>2. CASE DispatchGroup(loadStack, 0, disabled, jobs)
    BY <1>2, <2>2, Zenon DEF DispatchGroup, Dispatch, SendsAll
  <2> QED BY <1>1, <2>1, <2>2
<1>4. PICK g : SendsAll(g, loadStack, jobs) /\ (g \/ Len(loadStack) = 1)
  BY <1>3
<1>5. Singles' /\ UNCHANGED handler
  BY <1>4, SentSingles DEF SendsAll
<1>6. \A c : Owned(c) => Owned(c)'
  BY <1>4, SentTended
<1> QED BY <1>1, <1>5, <1>6 DEF Keeps

(* A job is sent again, over any transport but those of off.                 *)
LEMMA AgainKeeps ==
  ASSUME QueueType, Singles, NEW j \in jobs, NEW n, NEW off,
         \A c \in Calls : Accepted(c, off) # {},
         \A ms \in Seq(Calls) : AcceptedByAll(ms, off) # {},
         UNCHANGED <<issued, result>>,
         \/ j.group /\ DispatchGroup(j.members, n, off, jobs \ {j}) /\ UNCHANGED loadStack
         \/ ~j.group /\ Route(j.members[1], off, jobs \ {j})
  PROVE  Keeps
<1>1. j.members \in Seq(Calls) /\ j.members[1] \in Calls
  BY JobType
<1>2. jobs \ {j} \in SUBSET jobs /\ \A k \in jobs \ (jobs \ {j}) : k.members = j.members
  OBVIOUS
<1>3. CASE j.group /\ DispatchGroup(j.members, n, off, jobs \ {j}) /\ UNCHANGED loadStack
  <2>1. SendsAll(TRUE, j.members, jobs \ {j})
    BY <1>1, <1>3, Zenon DEF DispatchGroup, Dispatch, SendsAll
  <2>2. Singles' /\ UNCHANGED handler
    BY <1>2, <2>1, SentSingles DEF SendsAll
  <2>3. \A c : Owned(c) => Owned(c)'
    BY <1>2, <1>3, <2>1, SentTended
  <2> QED BY <2>2, <2>3 DEF Keeps
<1>4. CASE ~j.group /\ Route(j.members[1], off, jobs \ {j})
  <2>1. j.members = <<j.members[1]>>
    BY <1>1, <1>4 DEF Singles
  <2>2. \A k \in jobs \ (jobs \ {j}) : k.members = <<j.members[1]>>
    BY <1>2, <2>1
  <2>3. UNCHANGED handler /\ Singles' /\ \A d : Owned(d) => Owned(d)'
    <3> DEFINE c  == j.members[1]
               js == jobs \ {j}
    <3>1. c \in Calls /\ js \in SUBSET jobs /\ \A k \in jobs \ js : k.members = <<c>>
      BY <1>1, <2>2
    <3>2. Route(c, off, js) /\ Accepted(c, off) # {}
      BY <1>4, <3>1
    <3> HIDE DEF c, js
    <3> QED BY <3>1, <3>2, RouteTended
  <2> QED BY <2>3 DEF Keeps
<1> QED BY <1>3, <1>4

LEMMA AnswerKeeps ==
  ASSUME QueueType, RestType, Singles, Available, NEW t \in Transports, CarriesAll(t),
         NEW j \in jobs, Answer(j)
  PROVE  Keeps
<1>1. t \notin disabled /\ t \in supported
  BY DEF Available, SteadySupported, LastResortEnabled, CarriesAll, LastResort
<1>2. j.members \in Seq(Calls)
  BY JobType
<1>3. ASSUME NEW r, r # "no transport", Complete(j.members, r), jobs' = jobs \ {j},
             UNCHANGED <<loadStack, issued, result>>
      PROVE  Keeps
  BY <1>2, <1>3, JobCompletes, Completes DEF Keeps
<1>4. CASE Respond(j)
  BY <1>3, <1>4 DEF Respond, callVars
<1>5. CASE FailFinally(j)
  BY <1>3, <1>5 DEF FailFinally, callVars
<1>6. CASE FailRetry(j)
  <2> DEFINE k == [j EXCEPT !.phase = "retry"]
  <2>1. jobs' = (jobs \ {j}) \cup {k} /\ UNCHANGED <<loadStack, handler, issued, result>>
    BY <1>6 DEF FailRetry, callVars
  <2>2. k.members = j.members /\ k.group = j.group
    BY JobType DEF Jobs
  <2> HIDE DEF k
  <2>3. Singles'
    BY <2>1, <2>2 DEF Singles
  <2>4. \A c : (\E i \in jobs : Carried(i, c)) => \E i \in jobs' : Carried(i, c)
    BY <2>1, <2>2 DEF Carried
  <2>5. \A c : Owned(c) => Owned(c)'
    BY <2>1, <2>4 DEF Owned, Completing
  <2> QED BY <2>1, <2>3, <2>5 DEF Keeps
<1>7. CASE FailOver(j)
  <2> DEFINE off == disabled \cup {j.via}
  <2>1. PICK u \in j.accepted : u < j.via
    BY <1>7 DEF FailOver, HasNext
  <2>2. t # j.via
    <3>1. u \in Transports /\ u < j.via /\ j.via \in Nat /\ u \in Nat
      BY <2>1, JobType, TransportsAssumption
    <3> QED BY <3>1 DEF CarriesAll, LastResort
  <2>3. t \notin off
    BY <1>1, <2>2
  <2>4. /\ UNCHANGED <<issued, result>>
        /\ \/ j.group /\ DispatchGroup(j.members, 1, off, jobs \ {j}) /\ UNCHANGED loadStack
           \/ ~j.group /\ Route(j.members[1], off, jobs \ {j})
    BY <1>7 DEF FailOver
  <2> HIDE DEF off
  <2>5. /\ \A c \in Calls : Accepted(c, off) # {}
        /\ \A ms \in Seq(Calls) : AcceptedByAll(ms, off) # {}
    BY <1>1, <2>3, CarriedByIt
  <2> QED BY <2>4, <2>5, AgainKeeps
<1> QED BY <1>4, <1>5, <1>6, <1>7 DEF Answer

LEMMA BeginKeeps ==
  ASSUME QueueType, RestType, Singles, NeverLacking, BeginCompletion
  PROVE  /\ Singles' /\ NeverLacking' /\ UNCHANGED <<issued, status>>
         /\ \A c : Owned(c) => Owned(c)'
<1> DEFINE f == Head(handler)
           g == [f EXCEPT !.phase = "callbacks"]
           rest == Tail(handler)
           n == Len(handler)
<1>1. /\ handler \in Seq(Frames) /\ handler # <<>> /\ f = handler[1] /\ f \in Frames
      /\ rest \in Seq(Frames) /\ Len(rest) = n - 1 /\ n \in Nat \ {0}
      /\ \A i \in 1 .. n - 1 : rest[i] = handler[i + 1]
      /\ DOMAIN handler = 1 .. n
  BY HeadTailProperties DEF BeginCompletion, QueueType
<1>2. g \in Frames /\ g.call = f.call /\ g.result = f.result
  BY <1>1 DEF Frames
<1>3. /\ handler' = <<g>> \o rest
      /\ result' = [result EXCEPT ![f.call] = f.result]
      /\ UNCHANGED <<issued, status, loadStack, jobs>>
  BY DEF BeginCompletion
<1> HIDE DEF g, rest
<1>4. DOMAIN handler' = 1 .. n
      /\ \A i \in 1 .. n : handler'[i].call = handler[i].call /\ handler'[i].result = handler[i].result
  <2>1. <<g>> \in Seq(Frames) /\ Len(<<g>>) = 1 /\ <<g>>[1] = g
    BY <1>2
  <2>2. /\ Len(handler') = 1 + Len(rest)
        /\ handler' \in Seq(Frames)
        /\ \A i \in 1 .. 1 + Len(rest) : handler'[i] = IF i <= 1 THEN g ELSE rest[i - 1]
    BY <1>1, <1>3, <2>1, ConcatProperties
  <2> HIDE DEF f, n
  <2>3. ASSUME NEW i \in 1 .. n PROVE handler'[i] = IF i = 1 THEN g ELSE handler[i]
    <3>1. CASE i = 1
      BY <1>1, <2>2, <3>1
    <3>2. CASE i # 1
      <4>1. i - 1 \in 1 .. n - 1 /\ (i - 1) + 1 = i /\ ~(i <= 1) /\ i \in 1 .. 1 + (n - 1)
        BY <1>1, <3>2
      <4>2. rest[i - 1] = handler[i]
        BY <1>1, <4>1
      <4>3. handler'[i] = rest[i - 1]
        BY <1>1, <2>2, <4>1
      <4> QED BY <3>2, <4>2, <4>3
    <3> QED BY <3>1, <3>2
  <2>4. DOMAIN handler' = 1 .. n
    BY <1>1, <2>2
  <2> QED BY <1>1, <1>2, <2>3, <2>4
<1>5. \A i \in DOMAIN handler' : handler'[i].result # "no transport"
  BY <1>1, <1>4 DEF NeverLacking
<1>6. f.result # "no transport" /\ f.call \in Calls
  <2> HIDE DEF f, n
  <2>1. 1 \in DOMAIN handler /\ handler[1].result # "no transport"
    <3>1. 1 \in 1 .. n
      BY <1>1
    <3>2. 1 \in DOMAIN handler
      BY <1>1, <3>1
    <3> QED BY <3>2 DEF NeverLacking
  <2>2. f.call \in Calls
    BY <1>1 DEF Frames
  <2> QED BY <1>1, <2>1, <2>2
<1>7. \A c \in Calls : result'[c] # "no transport"
  BY <1>3, <1>6 DEF NeverLacking, RestType
<1>8. \A c : Completing(c) => Completing(c)'
  BY <1>1, <1>4 DEF Completing
<1>9. \A c : Owned(c) => Owned(c)'
  BY <1>3, <1>8 DEF Owned, Carried
<1> QED BY <1>3, <1>5, <1>7, <1>9 DEF Singles, NeverLacking

LEMMA EndKeeps ==
  ASSUME QueueType, CountType, Singles, NeverLacking, EndCompletion
  PROVE  /\ Singles' /\ NeverLacking' /\ UNCHANGED issued
         /\ \A c \in Calls : Owned(c) => Owned(c)' \/ status'[c] = 2
<1> DEFINE f == Head(handler)
           n == Len(handler)
<1>1. /\ handler \in Seq(Frames) /\ f = handler[1] /\ f \in Frames /\ n \in Nat \ {0}
      /\ Len(Tail(handler)) = n - 1 /\ Tail(handler) \in Seq(Frames)
      /\ \A i \in 1 .. n - 1 : Tail(handler)[i] = handler[i + 1]
      /\ DOMAIN handler = 1 .. n
  <2>1. handler \in Seq(Frames) /\ handler # <<>>
    BY Zenon DEF EndCompletion, QueueType
  <2> QED BY <2>1, HeadTailProperties
<1>2. /\ handler' = Tail(handler) /\ status' = [status EXCEPT ![f.call] = 2]
      /\ UNCHANGED <<issued, result, loadStack, jobs>>
  BY Zenon DEF EndCompletion
<1>3. f.call \in Calls /\ status'[f.call] = 2
  BY <1>1, <1>2 DEF Frames, CountType
<1> HIDE DEF f, n
<1>4. DOMAIN handler' = 1 .. n - 1 /\ \A i \in 1 .. n - 1 : handler'[i] = handler[i + 1] /\ i + 1 \in 1 .. n
  BY <1>1, <1>2
<1>5. NeverLacking'
  BY <1>1, <1>2, <1>4 DEF NeverLacking
<1>6. ASSUME NEW c, Completing(c) PROVE Completing(c)' \/ c = f.call
  <2>1. PICK i \in 1 .. n : handler[i].call = c
    BY <1>1, <1>6 DEF Completing
  <2>2. CASE i = 1
    BY <1>1, <2>1, <2>2
  <2>3. CASE i # 1
    <3>1. i - 1 \in 1 .. n - 1 /\ (i - 1) + 1 = i
      BY <1>1, <2>3
    <3>2. handler'[i - 1] = handler[i] /\ i - 1 \in DOMAIN handler'
      BY <1>4, <3>1
    <3> QED BY <2>1, <3>2 DEF Completing
  <2> QED BY <2>2, <2>3
<1>7. \A c \in Calls : Owned(c) => Owned(c)' \/ status'[c] = 2
  BY <1>2, <1>3, <1>6 DEF Owned, Carried
<1> QED BY <1>2, <1>5, <1>7 DEF Singles

LEMMA TendedNext ==
  ASSUME NEW t \in Transports, CarriesAll(t), Seen, Seen', Singles, Tended, NeverLacking, [Next]_vars
  PROVE  Singles' /\ Tended' /\ NeverLacking'
<1>1. /\ QueueType /\ CountType /\ RestType /\ Bookkeeping /\ Available /\ Bookkeeping'
      /\ issued \subseteq Calls /\ issued' \subseteq Calls
  BY DEF Seen, RestType
<1>2. /\ \A c \in Calls : Accepted(c, disabled) # {}
      /\ \A ms \in Seq(Calls) : AcceptedByAll(ms, disabled) # {}
  <2>1. t \notin disabled /\ t \in supported
    BY <1>1 DEF Available, SteadySupported, LastResortEnabled, CarriesAll, LastResort
  <2> QED BY <2>1, CarriedByIt
<1>3. \A c \in Calls : status[c] = 2 => status'[c] = 2
  BY <1>1, CompletedStays
<1>4. ASSUME \A c \in Calls : Owned(c) => Owned(c)' \/ status'[c] = 2,
             \A c \in issued' \ issued : Owned(c)'
      PROVE  Tended'
  BY <1>1, <1>3, <1>4 DEF Tended
<1>5. ASSUME Keeps PROVE Singles' /\ Tended' /\ NeverLacking'
  BY <1>4, <1>5 DEF Keeps, NeverLacking
<1>6. CASE UNCHANGED vars
  <2>1. UNCHANGED <<result, handler, issued, status, loadStack, jobs>>
    BY <1>6 DEF vars, callVars, queueVars
  <2>2. \A c : Owned(c) => Owned(c)'
    BY <2>1 DEF Owned, Completing, Carried
  <2> QED BY <1>4, <2>1, <2>2 DEF Singles, NeverLacking
<1>7. ASSUME NEW j \in jobs, Answer(j) PROVE Keeps
  BY <1>1, <1>7, AnswerKeeps
<1>8. CASE System
  <2>1. CASE FlushLoadStack
    BY <1>1, <1>2, <1>5, <2>1, FlushKeeps
  <2>2. ASSUME NEW j \in jobs, Retry(j) PROVE Keeps
    <3>1. /\ UNCHANGED <<issued, result>>
          /\ \/ j.group /\ DispatchGroup(j.members, j.tries + 1, disabled, jobs \ {j}) /\ UNCHANGED loadStack
             \/ ~j.group /\ Route(j.members[1], disabled, jobs \ {j})
      BY <2>2 DEF Retry
    <3> QED BY <1>1, <1>2, <3>1, AgainKeeps
  <2>3. CASE BeginCompletion
    BY <1>1, <1>4, <2>3, BeginKeeps
  <2>4. CASE EndCompletion
    BY <1>1, <1>4, <2>4, EndKeeps
  <2> QED BY <1>5, <1>8, <2>1, <2>2, <2>3, <2>4 DEF System
<1>9. CASE Environment
  <2>1. ASSUME NEW c \in Calls, Load(c) PROVE Keeps
    BY <1>1, <1>2, <2>1, LoadKeeps
  <2>2. ASSUME NEW ms \in ScriptGroups, LoadScripts(ms) PROVE Keeps
    BY <1>1, <1>2, <2>2, ScriptGroupType, LoadScriptsKeeps
  <2>3. ASSUME NEW u \in Transports, SupportChanges(u) \/ ConnectRefused(u) PROVE Keeps
    <3>1. UNCHANGED <<result, handler, issued, loadStack, jobs>>
      BY <2>3 DEF SupportChanges, ConnectRefused, callVars, queueVars
    <3>2. \A c : Owned(c) => Owned(c)'
      BY <3>1 DEF Owned, Completing, Carried
    <3> QED BY <3>1, <3>2 DEF Keeps, Singles
  <2> QED BY <1>5, <1>9, <2>1, <2>2, <2>3 DEF Environment
<1> QED BY <1>5, <1>6, <1>7, <1>8, <1>9 DEF Next

LEMMA TendedInvariant ==
  ASSUME NEW t \in Transports, CarriesAll(t)
  PROVE  Spec => [](Tended /\ NeverLacking)
<1>1. Init => Singles /\ Tended /\ NeverLacking
  BY DEF Init, Singles, Tended, NeverLacking
<1>2. Seen /\ Seen' /\ Singles /\ Tended /\ NeverLacking /\ [Next]_vars
        => Singles' /\ Tended' /\ NeverLacking'
  BY TendedNext
<1>3. Spec => []Seen
  BY AllInvariant, AvailableInvariant, PTL DEF Seen
<1> QED BY <1>1, <1>2, <1>3, PTL DEF Spec

(* In a page whose last resort carries everything (ajax, in all pages but    *)
(* the standalone ones), no call is ever completed for lack of a transport,  *)
(* whatever fails, is disabled or goes away.                                 *)
THEOREM LastResortFoundCorrect ==
  ASSUME \A t \in Transports : LastResort(t) => CarriesAll(t)
  PROVE  Spec => []LastResortFound
<1>1. CASE \E t \in Transports : LastResort(t)
  <2>1. PICK t \in Transports : CarriesAll(t)
    BY <1>1
  <2>2. Spec => [](Tended /\ NeverLacking)
    BY <2>1, TendedInvariant
  <2>3. NeverLacking => LastResortFound
    BY DEF NeverLacking, LastResortFound
  <2> QED BY <2>2, <2>3, PTL
<1>2. CASE ~\E t \in Transports : LastResort(t)
  <2>1. LastResortFound
    BY <1>2, TransportsAssumption DEF LastResortFound
  <2> QED BY <2>1, PTL
<1> QED BY <1>1, <1>2

(* In such a page every loaded call is in the load stack, in a request, in a *)
(* retry or in a completion until it is completed.                           *)
THEOREM NoneForgottenCorrect ==
  ASSUME \A t \in Transports : LastResort(t) => CarriesAll(t)
  PROVE  Spec => []NoneForgotten
<1>1. CASE \E t \in Transports : LastResort(t)
  <2>1. PICK t \in Transports : CarriesAll(t)
    BY <1>1
  <2>2. Spec => [](Tended /\ NeverLacking)
    BY <2>1, TendedInvariant
  <2>3. Tended => NoneForgotten
    BY DEF Tended, NoneForgotten
  <2> QED BY <2>2, <2>3, PTL
<1>2. CASE ~\E t \in Transports : LastResort(t)
  <2>1. NoneForgotten
    BY <1>2 DEF NoneForgotten
  <2> QED BY <2>1, PTL
<1> QED BY <1>1, <1>2

-----------------------------------------------------------------------------
(* When a request is given up. *)

CarriesJob(t, j) ==
  LastResort(t) /\ t \in GroupCapable /\ \A i \in DOMAIN j.members : t \in Accepts[j.members[i]]

(* What was accepted when a request was sent holds the last resort. *)
LastResortAccepted == \A j \in jobs, t \in Transports : CarriesJob(t, j) => t \in j.accepted

LEMMA SentAccepts ==
  ASSUME Available, NEW group, NEW ms, NEW tries, NEW acc, NEW via, NEW off,
         \A t \in Transports : LastResort(t) => t \notin off,
         \/ acc = AcceptedByAll(ms, off)
         \/ DOMAIN ms # {} /\ \A i \in DOMAIN ms : acc = Accepted(ms[i], off),
         NEW t \in Transports, CarriesJob(t, Sent(group, ms, tries, acc, via))
  PROVE  t \in Sent(group, ms, tries, acc, via).accepted
<1>1. /\ LastResort(t) /\ t \in GroupCapable /\ t \notin off /\ t \in supported
      /\ \A i \in DOMAIN ms : t \in Accepts[ms[i]]
  BY DEF CarriesJob, Sent, Available, SteadySupported, LastResort
<1>2. \A i \in DOMAIN ms : t \in Accepted(ms[i], off)
  BY <1>1 DEF Accepted
<1>3. t \in acc
  BY <1>1, <1>2 DEF AcceptedByAll
<1> QED BY <1>3 DEF Sent

(* Whatever is dispatched, alone or in a group, was accepted by the last resort. *)
LEMMA DispatchAccepts ==
  ASSUME Available, LastResortAccepted, NEW js \in SUBSET jobs, NEW off,
         \A t \in Transports : LastResort(t) => t \notin off,
         NEW group, NEW ms, NEW tries, NEW acc,
         \/ acc = AcceptedByAll(ms, off)
         \/ DOMAIN ms # {} /\ \A i \in DOMAIN ms : acc = Accepted(ms[i], off),
         Dispatch(group, ms, tries, acc, js)
  PROVE  LastResortAccepted'
<1>1. CASE jobs' = js
  BY <1>1 DEF LastResortAccepted, CarriesJob, LastResort
<1>2. ASSUME NEW via \in Transports, jobs' = js \cup {Sent(group, ms, tries, acc, via)}
      PROVE  LastResortAccepted'
  <2>1. \A t \in Transports : CarriesJob(t, Sent(group, ms, tries, acc, via))
          => t \in Sent(group, ms, tries, acc, via).accepted
    BY SentAccepts
  <2> QED BY <1>2, <2>1 DEF LastResortAccepted, CarriesJob, LastResort
<1> QED BY <1>1, <1>2 DEF Dispatch

LEMMA CallAccepts ==
  ASSUME Available, LastResortAccepted, NEW js \in SUBSET jobs, NEW off,
         \A t \in Transports : LastResort(t) => t \notin off,
         NEW c \in Calls,
         Dispatch(FALSE, <<c>>, 0, Accepted(c, off), js) \/ Route(c, off, js)
  PROVE  LastResortAccepted'
<1>1. DOMAIN <<c>> # {} /\ \A i \in DOMAIN <<c>> : Accepted(c, off) = Accepted(<<c>>[i], off)
  OBVIOUS
<1>2. CASE Dispatch(FALSE, <<c>>, 0, Accepted(c, off), js)
  BY <1>1, <1>2, DispatchAccepts
<1>3. CASE jobs' = js
  BY <1>3 DEF LastResortAccepted, CarriesJob, LastResort
<1> QED BY <1>2, <1>3 DEF Route

LEMMA LastResortAcceptedNext ==
  ASSUME QueueType, RestType, Available, LastResortAccepted, [Next]_vars
  PROVE  LastResortAccepted'
<1>1. \A t \in Transports : LastResort(t) => t \notin disabled
  BY DEF Available, LastResortEnabled
<1>2. CASE jobs' \subseteq jobs
  BY <1>2 DEF LastResortAccepted, CarriesJob, LastResort
<1>3. ASSUME NEW j \in jobs, Answer(j)
      PROVE  LastResortAccepted'
  <2>1. CASE Respond(j) \/ FailFinally(j)
    BY <1>2, <2>1 DEF Respond, FailFinally
  <2>2. CASE FailRetry(j)
    <3> DEFINE k == [j EXCEPT !.phase = "retry"]
    <3>1. jobs' = (jobs \ {j}) \cup {k}
      BY <2>2 DEF FailRetry
    <3>2. k.members = j.members /\ k.accepted = j.accepted
      BY JobType DEF Jobs
    <3> HIDE DEF k
    <3> QED BY <3>1, <3>2 DEF LastResortAccepted, CarriesJob, LastResort
  <2>3. CASE FailOver(j)
    <3> DEFINE off == disabled \cup {j.via}
    <3>1. PICK u \in j.accepted : u < j.via
      BY <2>3 DEF FailOver, HasNext
    <3>2. ~LastResort(j.via)
      <4>1. u \in Transports /\ u < j.via /\ j.via \in Nat /\ u \in Nat
        BY <3>1, JobType, TransportsAssumption
      <4> QED BY <4>1 DEF LastResort
    <3>3. \A t \in Transports : LastResort(t) => t \notin off
      BY <1>1, <3>2
    <3>4. \/ DispatchGroup(j.members, 1, off, jobs \ {j})
          \/ ~j.group /\ Route(j.members[1], off, jobs \ {j})
      BY <2>3 DEF FailOver
    <3>5. j.members[1] \in Calls
      BY JobType
    <3> HIDE DEF off
    <3> QED BY <3>3, <3>4, <3>5, CallAccepts, DispatchAccepts DEF DispatchGroup
  <2> QED BY <1>3, <2>1, <2>2, <2>3 DEF Answer
<1>4. CASE FlushLoadStack
  <2>1. loadStack[1] \in Calls \/ Len(loadStack) # 1
    BY DEF QueueType
  <2>2. \/ Len(loadStack) = 1 /\ DispatchCall(loadStack[1], jobs)
        \/ DispatchGroup(loadStack, 0, disabled, jobs)
    BY <1>4 DEF FlushLoadStack
  <2> QED BY <1>1, <2>1, <2>2, CallAccepts, DispatchAccepts DEF DispatchGroup, DispatchCall
<1>5. ASSUME NEW j \in jobs, Retry(j)
      PROVE  LastResortAccepted'
  <2>1. \/ DispatchGroup(j.members, j.tries + 1, disabled, jobs \ {j})
        \/ Route(j.members[1], disabled, jobs \ {j})
    BY <1>5 DEF Retry
  <2>2. j.members[1] \in Calls
    BY JobType
  <2> QED BY <1>1, <2>1, <2>2, CallAccepts, DispatchAccepts DEF DispatchGroup
<1>6. ASSUME NEW c \in Calls, Load(c)
      PROVE  LastResortAccepted'
  BY <1>1, <1>6, CallAccepts DEF Load
<1>7. ASSUME NEW ms \in ScriptGroups, LoadScripts(ms)
      PROVE  LastResortAccepted'
  <2>1. ms[1] \in Calls
    BY CallsAssumption DEF ScriptGroups
  <2>2. DispatchCall(ms[1], jobs) \/ DispatchGroup(ms, 1, disabled, jobs)
    BY <1>7 DEF LoadScripts
  <2> QED BY <1>1, <2>1, <2>2, CallAccepts, DispatchAccepts DEF DispatchGroup, DispatchCall
<1>8. CASE BeginCompletion \/ EndCompletion \/ UNCHANGED vars
  BY <1>2, <1>8 DEF BeginCompletion, EndCompletion, vars, queueVars
<1>9. ASSUME NEW t \in Transports, SupportChanges(t) \/ ConnectRefused(t)
      PROVE  LastResortAccepted'
  BY <1>2, <1>9 DEF SupportChanges, ConnectRefused, queueVars
<1> QED BY <1>3, <1>4, <1>5, <1>6, <1>7, <1>8, <1>9 DEF Next, System, Environment

(* Only FailFinally answers the calls of a request `unreachable'. *)
LEMMA GivenUpByFailure ==
  ASSUME QueueType, RestType, [Next]_vars, NEW j \in jobs \ jobs',
         handler' # handler, handler'[1].result = "unreachable"
  PROVE  FailFinally(j)
<1>1. ASSUME NEW ms \in Seq(Calls) \ {<<>>}, NEW r, Complete(ms, r)
      PROVE  r = "unreachable"
  <2> DEFINE new == [i \in 1 .. Len(ms) |-> [call |-> ms[i], result |-> r, phase |-> "begin"]]
  <2>1. new \in Seq([call : Calls, result : {r}, phase : {"begin"}]) /\ Len(new) = Len(ms)
    OBVIOUS
  <2>2. handler' = new \o handler
    BY <1>1 DEF Complete
  <2>3. handler \in Seq(Frames) /\ Len(ms) \in Nat \ {0}
    BY DEF QueueType
  <2>4. handler'[1] = new[1]
    BY <2>1, <2>2, <2>3
  <2> QED BY <2>3, <2>4
<1>2. ASSUME NEW group, NEW ms \in Seq(Calls) \ {<<>>}, NEW tries, NEW acc, NEW js,
             Dispatch(group, ms, tries, acc, js)
      PROVE  FALSE
  BY <1>1, <1>2 DEF Dispatch
<1>3. ASSUME NEW c \in Calls, NEW off, NEW js, Route(c, off, js)
      PROVE  FALSE
  <2>1. <<c>> \in Seq(Calls) \ {<<>>}
    OBVIOUS
  <2> QED BY <1>2, <1>3, <2>1 DEF Route
<1>4. ASSUME NEW k \in jobs, FailFinally(k)
      PROVE  FailFinally(j)
  BY <1>4 DEF FailFinally
<1>5. ASSUME NEW k \in jobs, Answer(k), ~FailFinally(k)
      PROVE  FALSE
  <2>1. k.members \in Seq(Calls) \ {<<>>} /\ k.members[1] \in Calls
    BY JobType
  <2>2. CASE Respond(k)
    BY <1>1, <2>1, <2>2 DEF Respond
  <2>3. CASE FailRetry(k)
    BY <2>3 DEF FailRetry
  <2>4. CASE FailOver(k)
    BY <1>2, <1>3, <2>1, <2>4 DEF FailOver, DispatchGroup
  <2> QED BY <1>5, <2>2, <2>3, <2>4 DEF Answer
<1>6. ASSUME NEW k \in jobs, Retry(k)
      PROVE  FALSE
  <2>1. k.members \in Seq(Calls) \ {<<>>} /\ k.members[1] \in Calls
    BY JobType
  <2> QED BY <1>2, <1>3, <1>6, <2>1 DEF Retry, DispatchGroup
<1>7. jobs' # jobs
  OBVIOUS
<1>8. CASE FlushLoadStack
  <2>1. ~(jobs \subseteq jobs')
    OBVIOUS
  <2> QED BY <1>8, <2>1 DEF FlushLoadStack, DispatchCall, DispatchGroup, Dispatch
<1>9. CASE BeginCompletion \/ EndCompletion \/ UNCHANGED vars
  BY <1>7, <1>9 DEF BeginCompletion, EndCompletion, vars, queueVars
<1>10. ASSUME NEW c \in Calls, Load(c)
       PROVE  FALSE
  BY <1>3, <1>10 DEF Load
<1>11. ASSUME NEW ms \in ScriptGroups, LoadScripts(ms)
       PROVE  FALSE
  <2>1. ~(jobs \subseteq jobs')
    OBVIOUS
  <2> QED BY <1>11, <2>1 DEF LoadScripts, DispatchCall, DispatchGroup, Dispatch
<1>12. ASSUME NEW t \in Transports, SupportChanges(t) \/ ConnectRefused(t)
       PROVE  FALSE
  BY <1>7, <1>12 DEF SupportChanges, ConnectRefused, queueVars
<1> QED BY <1>4, <1>5, <1>6, <1>8, <1>9, <1>10, <1>11, <1>12 DEF Next, System, Environment

LEMMA GivenUpAtLast ==
  ASSUME QueueType, RestType, Available, LastResortAccepted, [Next]_vars,
         NEW j \in jobs \ jobs', NEW t \in GroupCapable,
         handler' # handler, handler'[1].result = "unreachable",
         LastResort(t), \A i \in DOMAIN j.members : t \in Accepts[j.members[i]]
  PROVE  j.via = t /\ Tries(j) >= MaxAttempts
<1>1. FailFinally(j)
  BY GivenUpByFailure
<1>2. t \in Transports /\ t \in j.accepted
  BY TransportsAssumption DEF LastResortAccepted, CarriesJob
<1>3. t \in Nat /\ j.via \in Nat /\ t <= j.via
  BY <1>2, JobType, TransportsAssumption DEF LastResort
<1>4. ~(t < j.via)
  BY <1>1, <1>2 DEF FailFinally, HasNext
<1>5. j.via = t
  BY <1>3, <1>4
<1>6. j.via \notin disabled
  BY <1>2, <1>5 DEF Available, LastResortEnabled
<1> QED BY <1>1, <1>5, <1>6 DEF FailFinally

(* A request that the last resort can carry is given up only once the last   *)
(* resort itself has failed it as often as the retries allow, whatever fails *)
(* and is disabled beside it.                                                *)
THEOREM UnreachableAtLastCorrect == Spec => UnreachableAtLast
<1>1. Init => LastResortAccepted
  BY DEF Init, LastResortAccepted
<1>2. QueueType /\ RestType /\ Available /\ LastResortAccepted /\ [Next]_vars
        => LastResortAccepted'
  BY LastResortAcceptedNext
<1>3. QueueType /\ RestType /\ Available /\ LastResortAccepted /\ [Next]_vars =>
        [\A j \in jobs \ jobs', t \in GroupCapable :
           /\ handler' # handler /\ handler'[1].result = "unreachable"
           /\ LastResort(t) /\ \A i \in DOMAIN j.members : t \in Accepts[j.members[i]]
           => j.via = t /\ Tries(j) >= MaxAttempts]_vars
  BY GivenUpAtLast
<1> QED BY <1>1, <1>2, <1>3, AllInvariant, AvailableInvariant, PTL DEF Spec, UnreachableAtLast
=============================================================================
