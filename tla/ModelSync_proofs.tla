-------------------------- MODULE ModelSync_proofs --------------------------
(* What ModelSync promises for any keys, values, edits and requests.        *)
EXTENDS ModelSync, FiniteSetTheorems, SequenceTheorems, TLAPS

(* A step of the server changes none of what the caller sees. *)
LEMMA ServeKeepsViews ==
    ASSUME NEW i \in DOMAIN calls, Serve(i)
    PROVE  \A k \in Keys : View(k)' = View(k)
BY DEF Serve, Execute, Fail, View

(* Keys moved with their pending values are seen as before, if each had an  *)
(* entry.                                                                    *)
LEMMA MovingKeepsViews ==
    ASSUME NEW keys, \A k \in keys : mark[k] # "none",
           data' = Propagated(keys), mark' = Marked(keys, "none"), value' = value
    PROVE  \A k \in Keys : View(k)' = View(k)
BY DEF Propagated, Marked, View

(* So are keys marked otherwise. *)
LEMMA MarkingKeepsViews ==
    ASSUME NEW keys, NEW m, m # "none", \A k \in keys : mark[k] # "none",
           mark' = Marked(keys, m), data' = data, value' = value
    PROVE  \A k \in Keys : View(k)' = View(k)
BY DEF Marked, View

(* The keys gone through by a handler that throws all had an entry. *)
LEMMA GoneThroughHadEntry ==
    ASSUME NEW i \in DOMAIN calls, NEW done \in GoneThrough(Moved(i)), NEW k \in done
    PROVE  mark[k] # "none"
<1> DEFINE all == Moved(i)
<1>1. CASE kind = "user"
  <2>1. \A j \in all : mark[j] = "staged"
    BY <1>1 DEF Moved
  <2>2. PICK d \in SUBSET (all \ Throwing(all)), odd \in {{j} : j \in Throwing(all)} :
          done = d \cup odd
    BY <1>1 DEF GoneThrough
  <2>3. k \in all
    BY <2>2 DEF Throwing
  <2> QED BY <2>1, <2>3
<1>2. CASE kind # "user"
  <2>1. PICK d \in SUBSET (all \ Throwing(all)), odd \in {{}} : done = d \cup odd
    BY <1>2 DEF GoneThrough
  <2>2. k \in all \ Throwing(all)
    BY <2>1
  <2> QED BY <2>2 DEF Throwing
<1> QED BY <1>1, <1>2

(* No answer changes what the caller sees, whatever became of its request,  *)
(* except a WebosFile's, which carries data of its own.                     *)
LEMMA AnswerKeepsViews ==
    ASSUME kind # "file", NEW i \in DOMAIN calls, Answer(i)
    PROVE  \A k \in Keys : View(k)' = View(k)
<1>1. CASE Success(i)
  <2>1. /\ data' = Propagated(Moved(i))
        /\ mark' = Marked(Moved(i), "none")
        /\ value' = value
    BY <1>1 DEF Success, Hydrated
  <2>2. \A k \in Moved(i) : mark[k] # "none"
    BY <1>1 DEF Success, Throwing
  <2> QED BY <2>1, <2>2, MovingKeepsViews
<1>2. CASE SuccessThrows(i)
  <2>1. PICK done \in GoneThrough(Moved(i)) :
          data' = Propagated(done) /\ mark' = Marked(done, "none")
    BY <1>2 DEF SuccessThrows
  <2>2. value' = value
    BY <1>2 DEF SuccessThrows
  <2>3. \A k \in done : mark[k] # "none"
    BY GoneThroughHadEntry
  <2> QED BY <2>1, <2>2, <2>3, MovingKeepsViews
<1>3. CASE Failure(i)
  <2>1. /\ \A k \in Unstaged(i) : mark[k] # "none"
        /\ mark' = Marked(Unstaged(i), "changed")
        /\ data' = data
        /\ value' = value
    BY <1>3 DEF Failure
  <2> QED BY <2>1, MarkingKeepsViews
<1>4. CASE LocalSync(i)
  <2> DEFINE local == ChangedKeys \cup Unstaged(i)
  <2>1. /\ \A k \in Unstaged(i) : mark[k] # "none"
        /\ data' = Propagated(local)
        /\ mark' = Marked(local, "none")
        /\ value' = value
    BY <1>4 DEF LocalSync
  <2>2. \A k \in local : mark[k] # "none"
    BY <2>1 DEF ChangedKeys
  <2> HIDE DEF local
  <2> QED BY <2>1, <2>2, MovingKeepsViews
<1>5. CASE FailureThrows(i)
  <2>1. PICK done \in SUBSET {k \in Unstaged(i) : mark[k] # "none"} :
          mark' = Marked(done, "changed")
    BY <1>5 DEF FailureThrows
  <2>2. data' = data /\ value' = value
    BY <1>5 DEF FailureThrows
  <2> QED BY <2>1, <2>2, MarkingKeepsViews
<1> QED BY <1>1, <1>2, <1>3, <1>4, <1>5 DEF Answer

(* Saving is not editing: for every model but WebosFile, whatever is sent,   *)
(* answered, refused or lost, in whichever order and with any number of      *)
(* syncs in flight, a key is seen to hold the same value until the caller    *)
(* edits it.                                                                 *)
THEOREM ViewCorrect == Spec => OnlyEditsChangeTheView
<1>1. ASSUME [Next]_vars, kind # "file", edits' = edits, edits \in Nat
      PROVE  \A k \in Keys : View(k)' = View(k)
  <2>1. ASSUME NEW k \in Keys, NEW v \in Contents, Edit(k, v) PROVE FALSE
    BY <1>1, <2>1 DEF Edit
  <2>2. ASSUME NEW local \in BOOLEAN, Sync(local) PROVE \A k \in Keys : View(k)' = View(k)
    <3>1. \A k \in Keys : mark'[k] = IF k \in ChangedKeys THEN "staged" ELSE mark[k]
      BY <2>2 DEF Sync
    <3>2. data' = data /\ value' = value
      BY <2>2 DEF Sync
    <3> QED BY <3>1, <3>2 DEF ChangedKeys, View
  <2>3. CASE \E i \in DOMAIN calls : Serve(i)
    BY <2>3, ServeKeepsViews
  <2>4. CASE \E i \in DOMAIN calls : Answer(i)
    BY <1>1, <2>4, AnswerKeepsViews
  <2>5. CASE UNCHANGED vars
    BY <2>5 DEF vars, View
  <2> QED BY <1>1, <2>1, <2>2, <2>3, <2>4, <2>5 DEF Next
<1>2. Init => edits \in Nat
  BY BoundAssumption DEF Init
<1>3. edits \in Nat /\ [Next]_vars => (edits \in Nat)'
  <2> SUFFICES ASSUME edits \in Nat, [Next]_vars PROVE edits' \in Nat
    OBVIOUS
  <2>1. ASSUME NEW k \in Keys, NEW v \in Contents, Edit(k, v) PROVE edits' \in Nat
    BY <2>1 DEF Edit
  <2>2. ASSUME NEW local \in BOOLEAN, Sync(local) PROVE edits' \in Nat
    BY <2>2 DEF Sync
  <2>3. CASE \E i \in DOMAIN calls : Serve(i)
    BY <2>3 DEF Serve, Execute, Fail
  <2>4. CASE \E i \in DOMAIN calls : Answer(i)
    BY <2>4 DEF Answer, Success, SuccessThrows, Failure, LocalSync, FailureThrows
  <2>5. CASE UNCHANGED vars
    BY <2>5 DEF vars
  <2> QED BY <2>1, <2>2, <2>3, <2>4, <2>5 DEF Next
<1>4. edits \in Nat /\ [Next]_vars =>
        [kind # "file" /\ edits' = edits => \A k \in Keys : View(k)' = View(k)]_vars
  BY <1>1
<1> QED BY <1>2, <1>3, <1>4, PTL DEF Spec, OnlyEditsChangeTheView

-----------------------------------------------------------------------------
(* Types. *)

(* What a request carries is typed. *)
LEMMA PayloadType ==
    ASSUME TypeOK
    PROVE  Payload \in UNION {[S -> Contents] : S \in SUBSET Keys}
<1> DEFINE Partial == UNION {[S -> Contents] : S \in SUBSET Keys}
<1>1. ASSUME NEW S \in SUBSET Keys, NEW f \in [S -> Contents] PROVE f \in Partial
  OBVIOUS
<1>2. Defined(NewValues) \in [{k \in ChangedKeys : value[k] # Undefined} -> Contents]
  BY DEF Defined, NewValues, ChangedKeys, TypeOK
<1>3. [k \in Sent |-> value[k]] \in [Sent -> Contents] /\ Sent \subseteq Keys
  BY DEF Sent, ChangedKeys, TypeOK
<1>4. Over(Defined(NewValues), data) \in [Keys -> Contents]
  BY <1>2 DEF Over, ChangedKeys, TypeOK
<1>5. {k \in ChangedKeys : value[k] # Undefined} \in SUBSET Keys
  BY DEF ChangedKeys
<1> HIDE DEF Partial
<1>6. CASE kind \in {"user", "file"}
  <2>1. Payload = Defined(NewValues)
    BY <1>6 DEF Payload
  <2> QED BY <1>1, <1>2, <1>5, <2>1
<1>7. CASE kind \in {"config", "app"}
  <2>1. Payload = [k \in Sent |-> value[k]]
    BY <1>7 DEF Payload
  <2> QED BY <1>1, <1>3, <2>1
<1>8. CASE kind = "data"
  <2>1. Payload = Over(Defined(NewValues), data)
    BY <1>8 DEF Payload
  <2> QED BY <1>1, <1>4, <2>1
<1> QED BY <1>6, <1>7, <1>8, KindsAssumption DEF Partial, TypeOK

(* Moving typed pending values keeps the data and the marks typed. *)
LEMMA MoveType ==
    ASSUME TypeOK, NEW keys, NEW m \in {"none", "changed", "staged"}
    PROVE  /\ Propagated(keys) \in [Keys -> Contents]
           /\ Marked(keys, m) \in [Keys -> {"none", "changed", "staged"}]
BY DEF TypeOK, Propagated, Marked

(* A request that changes phase is still a request. *)
LEMMA PhaseType ==
    ASSUME TypeOK, NEW i \in DOMAIN calls,
           NEW phase \in InFlight \cup Ended,
           calls' = [calls EXCEPT ![i].phase = phase]
    PROVE  calls' \in Seq(Requests) /\ Len(calls') = Len(calls)
<1>1. calls \in Seq(Requests) /\ calls[i] \in Requests
  BY DEF TypeOK
<1> DEFINE r == [calls[i] EXCEPT !.phase = phase]
<1>2. r \in Requests
  BY <1>1 DEF Requests
<1>3. calls' = [calls EXCEPT ![i] = r]
  OBVIOUS
<1> HIDE DEF r
<1> QED BY <1>1, <1>2, <1>3

(* Every step of a model keeps its state typed. *)
LEMMA TypeStep == TypeOK /\ [Next]_vars => TypeOK'
<1> SUFFICES ASSUME TypeOK, [Next]_vars PROVE TypeOK'
  OBVIOUS
<1> USE BoundAssumption
<1>0. kind' = kind
  BY DEF Next, vars, Edit, Sync, Serve, Execute, Fail, Answer, Success, SuccessThrows,
         Failure, LocalSync, FailureThrows
<1>1. ASSUME NEW k \in Keys, NEW v \in Contents, Edit(k, v) PROVE TypeOK'
  <2>1. v \in Contents
    OBVIOUS
  <2>2. edits' \in 0 .. MaxEdits
    BY <1>1 DEF Edit, TypeOK
  <2>3. /\ mark' \in [Keys -> {"none", "changed", "staged"}]
        /\ value' \in [Keys -> Contents]
    BY <1>1, <2>1 DEF Edit, TypeOK
  <2> QED BY <1>1, <2>2, <2>3 DEF Edit, TypeOK
<1>2. ASSUME NEW local \in BOOLEAN, Sync(local) PROVE TypeOK'
  <2> DEFINE r == Call(Sent, Payload, local)
  <2>1. r \in Requests
    <3>1. Sent \in SUBSET Keys
      BY DEF Sent, ChangedKeys, TypeOK
    <3> QED BY <3>1, PayloadType DEF Call, Requests, InFlight, TypeOK
  <2>2. /\ Len(calls) < MaxSyncs
        /\ calls' = Append(calls, r)
        /\ mark' = [k \in Keys |-> IF k \in ChangedKeys THEN "staged" ELSE mark[k]]
        /\ UNCHANGED <<data, value, server, edits>>
    BY <1>2 DEF Sync
  <2> HIDE DEF r
  <2>3. calls' \in Seq(Requests) /\ Len(calls') <= MaxSyncs
    BY <2>1, <2>2 DEF TypeOK
  <2>4. mark' \in [Keys -> {"none", "changed", "staged"}]
    BY <2>2 DEF TypeOK
  <2> QED BY <1>0, <2>2, <2>3, <2>4 DEF TypeOK
<1>3. ASSUME NEW i \in DOMAIN calls, Execute(i) PROVE TypeOK'
  <2>1. server' = Over(calls[i].payload, server) /\ UNCHANGED <<data, mark, value, edits>>
    BY <1>3 DEF Execute
  <2>2. calls' = [calls EXCEPT ![i].phase = "executed", ![i].stored = server']
    BY <1>3 DEF Execute
  <2>3. calls[i] \in Requests
    BY DEF TypeOK
  <2>4. \A k \in DOMAIN calls[i].payload : calls[i].payload[k] \in Contents
    <3>1. PICK S \in SUBSET Keys : calls[i].payload \in [S -> Contents]
      BY <2>3 DEF Requests
    <3> QED BY <3>1
  <2>5. server' \in [Keys -> Contents]
    BY <2>1, <2>4 DEF Over, TypeOK
  <2> DEFINE r == [calls[i] EXCEPT !.phase = "executed", !.stored = server']
  <2>6. r \in Requests
    BY <2>3, <2>5 DEF Requests, InFlight
  <2>7. calls' = [calls EXCEPT ![i] = r]
    BY <2>2
  <2> HIDE DEF r
  <2>8. calls' \in Seq(Requests) /\ Len(calls') = Len(calls)
    BY <2>6, <2>7 DEF TypeOK
  <2> QED BY <1>0, <2>1, <2>5, <2>8 DEF TypeOK
<1>4. ASSUME NEW i \in DOMAIN calls, NEW outcome \in Outcomes, Fail(i, outcome) PROVE TypeOK'
  <2>1. /\ outcome \in {"refused", "failed"}
        /\ calls' = [calls EXCEPT ![i].phase = outcome]
        /\ UNCHANGED <<data, mark, value, server, edits>>
    BY <1>4 DEF Fail, Outcomes
  <2>2. calls' \in Seq(Requests) /\ Len(calls') = Len(calls)
    BY <2>1, PhaseType DEF InFlight
  <2> QED BY <1>0, <2>1, <2>2 DEF TypeOK
<1>5. ASSUME NEW i \in DOMAIN calls, Answer(i) PROVE TypeOK'
  <2>1. value' = value /\ server' = server /\ edits' = edits
    BY <1>5 DEF Answer, Success, SuccessThrows, Failure, LocalSync, FailureThrows
  <2>2. PICK phase \in Ended : calls' = [calls EXCEPT ![i].phase = phase]
    BY <1>5 DEF Answer, Success, SuccessThrows, Failure, LocalSync, FailureThrows, Phase, Ended
  <2>3. calls' \in Seq(Requests) /\ Len(calls') = Len(calls)
    BY <2>2, PhaseType
  <2>4. mark' \in [Keys -> {"none", "changed", "staged"}]
    BY <1>5, MoveType DEF Answer, Success, SuccessThrows, Failure, LocalSync, FailureThrows
  <2>5. data' \in [Keys -> Contents]
    <3>1. CASE Success(i)
      <4>1. calls[i].stored \in [Keys -> Contents]
        <5>1. calls[i] \in Requests
          BY DEF TypeOK
        <5> QED BY <5>1 DEF Requests
      <4>2. Hydrated(i, Propagated(Moved(i))) \in [Keys -> Contents]
        BY <4>1, MoveType DEF Hydrated
      <4> QED BY <3>1, <4>2 DEF Success
    <3>2. CASE SuccessThrows(i) \/ Failure(i) \/ LocalSync(i) \/ FailureThrows(i)
      BY <3>2, MoveType DEF SuccessThrows, Failure, LocalSync, FailureThrows, TypeOK
    <3> QED BY <1>5, <3>1, <3>2 DEF Answer
  <2> QED BY <1>0, <2>1, <2>3, <2>4, <2>5 DEF TypeOK
<1>6. CASE UNCHANGED vars
  BY <1>6 DEF vars, TypeOK
<1> QED BY <1>1, <1>2, <1>3, <1>4, <1>5, <1>6 DEF Next, Serve

LEMMA TypeInit == Init => TypeOK
BY BoundAssumption DEF Init, TypeOK, Contents

(* The state of a model is typed, whichever sync() it has and however its   *)
(* requests end.                                                            *)
THEOREM SyncTypeCorrect == Spec => []TypeOK
BY TypeInit, TypeStep, PTL DEF Spec

-----------------------------------------------------------------------------
(* What a model takes for saved. *)

(* Saving one request at a time: the keys of the one in flight still have    *)
(* their entries when its answer comes.                                      *)
EntriesKept ==
    Alone =>
      /\ \A i, j \in Pending : i = j
      /\ \A i \in Pending : \A k \in calls[i].keys : mark[k] # "none"

LocalIsApp == \A i \in DOMAIN calls : calls[i].local => kind = "app"

(* A WebosFile's edits are values, so its request carries each of its keys,  *)
(* and the metadata in its answer, which nobody has changed since, has them. *)
FileCarries ==
    kind = "file" =>
      /\ \A k \in Keys : mark[k] # "none" => value[k] # Undefined
      /\ Alone => \A i \in Pending :
           /\ DOMAIN calls[i].payload = calls[i].keys
           /\ \A k \in calls[i].keys : calls[i].payload[k] # Undefined
           /\ calls[i].phase = "executed" =>
                /\ calls[i].stored = server
                /\ \A k \in calls[i].keys : server[k] # Undefined

SyncInv ==
    /\ TypeOK
    /\ EntriesKept
    /\ LocalIsApp
    /\ StagedMeansInFlight
    /\ CallersCalledBack
    /\ InFlightBookkeeping
    /\ FileCarries
    /\ SavedMeansReceived

(* What the list of requests holds. *)
LEMMA RequestType ==
    ASSUME TypeOK, NEW i \in DOMAIN calls
    PROVE  /\ calls[i] \in Requests
           /\ calls[i].keys \subseteq Keys
           /\ i \in Pending <=> calls[i].phase \in InFlight
<1>1. calls[i] \in Requests
  BY DEF TypeOK
<1> QED BY <1>1 DEF Requests, Pending

(* An edit gives a key an entry that is not staged. *)
LEMMA EditStep ==
    ASSUME SyncInv, TypeOK', NEW k \in Keys, NEW v \in Contents, Edit(k, v)
    PROVE  SyncInv'
<1>1. /\ UNCHANGED <<kind, data, server, calls>>
      /\ \/ UNCHANGED <<mark, value>>
         \/ /\ mark' = [mark EXCEPT ![k] = "changed"]
            /\ value' = [value EXCEPT ![k] = v]
      /\ kind \in {"file", "data"} => v # Undefined
  BY DEF Edit
<1>2. \A j \in Keys : mark'[j] # mark[j] \/ value'[j] # value[j] => mark'[j] = "changed"
  BY <1>1 DEF SyncInv, TypeOK
<1>3. Pending' = Pending /\ Alone' = Alone /\ Unfailing' = Unfailing
  BY <1>1 DEF Pending, Alone, Unfailing
<1>4. \A i \in Pending : i \in DOMAIN calls /\ calls[i].keys \subseteq Keys
  BY RequestType DEF Pending, SyncInv
<1>5. EntriesKept'
  BY <1>1, <1>2, <1>3, <1>4 DEF EntriesKept, SyncInv
<1>6. LocalIsApp' /\ CallersCalledBack'
  BY <1>1, <1>3 DEF LocalIsApp, CallersCalledBack, SyncInv
<1>7. StagedMeansInFlight'
  BY <1>1, <1>2, <1>3 DEF StagedMeansInFlight, StagedIsCarried, SyncInv
<1>8. InFlightBookkeeping'
  BY <1>1, <1>2, <1>3, <1>4 DEF InFlightBookkeeping, SyncInv
<1>9. FileCarries'
  <2>1. kind = "file" => \A j \in Keys : mark'[j] # "none" => value'[j] # Undefined
    BY <1>1 DEF FileCarries, SyncInv, TypeOK
  <2> QED BY <1>1, <1>3, <2>1 DEF FileCarries, SyncInv
<1>10. SavedMeansReceived'
  <2>1. SavedIsStored => SavedIsStored'
    BY <1>1, <1>2 DEF SavedIsStored
  <2> QED BY <1>1, <1>3, <2>1 DEF SavedMeansReceived, SyncInv
<1> QED BY <1>5, <1>6, <1>7, <1>8, <1>9, <1>10 DEF SyncInv

(* A request that leaves alone is the only one, and carries what is staged. *)
LEMMA SyncStep ==
    ASSUME SyncInv, TypeOK', NEW local \in BOOLEAN, Sync(local)
    PROVE  SyncInv'
<1> DEFINE n == Len(calls) + 1
           r == Call(Sent, Payload, local)
<1>1. /\ local => kind = "app"
      /\ calls' = Append(calls, r)
      /\ mark' = [k \in Keys |-> IF k \in ChangedKeys THEN "staged" ELSE mark[k]]
      /\ UNCHANGED <<kind, data, value, server>>
  BY DEF Sync
<1>2. /\ r.keys = Sent
      /\ r.payload = Payload
      /\ r.phase = "sent"
      /\ r.local = local
      /\ r.alone = (Pending = {})
  BY DEF Call
<1> HIDE DEF r
<1>3. /\ DOMAIN calls = 1 .. Len(calls)
      /\ DOMAIN calls' = 1 .. n
      /\ Len(calls) \in Nat
      /\ calls'[n] = r
      /\ \A i \in DOMAIN calls : calls'[i] = calls[i] /\ i # n
  BY <1>1 DEF SyncInv, TypeOK
<1>4. DOMAIN calls' = DOMAIN calls \cup {n} /\ n \notin DOMAIN calls
  BY <1>3
<1> HIDE DEF n
<1>5. Pending' = Pending \cup {n}
  BY <1>2, <1>3, <1>4 DEF Pending, InFlight
<1>6. /\ Alone' <=> Alone /\ Pending = {}
      /\ Unfailing' <=> Unfailing
  <2>1. Alone' <=> Alone /\ Pending = {}
    BY <1>2, <1>3, <1>4 DEF Alone
  <2>2. Unfailing' <=> Unfailing
    BY <1>2, <1>3, <1>4 DEF Unfailing
  <2> QED BY <2>1, <2>2
<1>7. \A k \in Keys : mark'[k] = IF k \in ChangedKeys THEN "staged" ELSE mark[k]
  BY <1>1
<1>8. Sent \subseteq ChangedKeys /\ ChangedKeys \subseteq Keys /\ (kind # "app" => Sent = ChangedKeys)
  BY DEF Sent, ChangedKeys
<1>9. EntriesKept'
  <2> SUFFICES ASSUME Alone' PROVE EntriesKept'
    BY DEF EntriesKept
  <2>1. Pending' = {n}
    BY <1>5, <1>6
  <2>2. \A k \in r.keys : mark'[k] # "none"
    BY <1>2, <1>7, <1>8
  <2> QED BY <1>3, <2>1, <2>2 DEF EntriesKept
<1>10. LocalIsApp'
  BY <1>1, <1>2, <1>3, <1>4 DEF LocalIsApp, SyncInv
<1>11. CallersCalledBack'
  BY <1>1, <1>2, <1>3, <1>4, <1>6 DEF CallersCalledBack, SyncInv
<1>12. StagedMeansInFlight'
  <2> SUFFICES ASSUME kind = "config", Unfailing, NEW k \in Keys, mark'[k] = "staged"
               PROVE  \E i \in Pending' : k \in calls'[i].keys
    BY <1>1, <1>6 DEF StagedMeansInFlight, StagedIsCarried
  <2>1. CASE k \in ChangedKeys
    BY <1>2, <1>3, <1>5, <1>8, <2>1
  <2>2. CASE k \notin ChangedKeys
    <3>1. PICK i \in Pending : k \in calls[i].keys
      BY <1>7, <2>2 DEF StagedMeansInFlight, StagedIsCarried, SyncInv
    <3>2. i \in DOMAIN calls
      BY DEF Pending
    <3> QED BY <1>3, <1>5, <3>1, <3>2
  <2> QED BY <2>1, <2>2
<1>13. InFlightBookkeeping'
  <2> SUFFICES ASSUME kind = "config", Alone', Unfailing' PROVE InFlightBookkeeping'
    BY <1>1 DEF InFlightBookkeeping
  <2>1. Pending' = {n}
    BY <1>5, <1>6
  <2>2. r.payload = [k \in ChangedKeys |-> value[k]] /\ r.keys = ChangedKeys
    BY <1>2, <1>8 DEF Payload
  <2>3. /\ DOMAIN r.payload = r.keys
        /\ \A k \in r.keys : mark'[k] # "none"
        /\ \A k \in r.keys : r.payload[k] = value'[k]
        /\ r.phase # "executed"
    BY <1>1, <1>2, <1>7, <1>8, <2>2
  <2> QED BY <1>3, <2>1, <2>3 DEF InFlightBookkeeping
<1>14. FileCarries'
  <2> SUFFICES ASSUME kind = "file" PROVE FileCarries'
    BY <1>1 DEF FileCarries
  <2>1. \A k \in Keys : mark'[k] # "none" => value'[k] # Undefined
    BY <1>1, <1>7 DEF FileCarries, SyncInv, ChangedKeys
  <2>2. ASSUME Alone'
        PROVE  /\ DOMAIN r.payload = r.keys
               /\ \A k \in r.keys : r.payload[k] # Undefined
    <3>1. r.payload = Defined(NewValues) /\ r.keys = ChangedKeys
      BY <1>2, <1>8 DEF Payload
    <3>2. \A k \in ChangedKeys : value[k] # Undefined
      BY DEF ChangedKeys, FileCarries, SyncInv
    <3>3. Defined(NewValues) = [k \in ChangedKeys |-> value[k]]
      BY <3>2 DEF Defined, NewValues
    <3> QED BY <3>1, <3>2, <3>3
  <2>3. Alone' => Pending' = {n}
    BY <1>5, <1>6
  <2> QED BY <1>2, <1>3, <2>1, <2>2, <2>3 DEF FileCarries
<1>15. SavedMeansReceived'
  <2>1. SavedIsStored => SavedIsStored'
    BY <1>1, <1>7 DEF SavedIsStored
  <2> QED BY <1>1, <1>6, <2>1 DEF SavedMeansReceived, SyncInv
<1> QED BY <1>9, <1>10, <1>11, <1>12, <1>13, <1>14, <1>15 DEF SyncInv

(* Handling a request changes nothing of it but its phase and `stored'. *)
SameRequests(i) ==
    /\ DOMAIN calls' = DOMAIN calls
    /\ \A j \in DOMAIN calls : j # i => calls'[j] = calls[j]
    /\ calls'[i].keys = calls[i].keys
    /\ calls'[i].payload = calls[i].payload
    /\ calls'[i].local = calls[i].local
    /\ calls'[i].alone = calls[i].alone

LEMMA PhaseChange ==
    ASSUME TypeOK, NEW i \in DOMAIN calls, NEW phase,
           calls' = [calls EXCEPT ![i].phase = phase]
    PROVE  SameRequests(i) /\ calls'[i].phase = phase /\ calls'[i].stored = calls[i].stored
BY RequestType DEF SameRequests, Requests

LEMMA AloneStays ==
    ASSUME NEW i \in DOMAIN calls, SameRequests(i)
    PROVE  Alone' <=> Alone
BY DEF SameRequests, Alone

LEMMA ExecuteStep ==
    ASSUME SyncInv, TypeOK', NEW i \in DOMAIN calls, Execute(i)
    PROVE  SyncInv'
<1>1. /\ calls[i].phase = "sent"
      /\ server' = Over(calls[i].payload, server)
      /\ calls' = [calls EXCEPT ![i].phase = "executed", ![i].stored = server']
      /\ UNCHANGED <<kind, data, mark, value>>
  BY DEF Execute
<1>2. SameRequests(i) /\ calls'[i].phase = "executed" /\ calls'[i].stored = server'
  <2>1. calls[i] \in Requests
    BY RequestType DEF SyncInv
  <2> QED BY <1>1, <2>1 DEF SameRequests, Requests
<1>3. Pending' = Pending /\ i \in Pending
  BY <1>1, <1>2 DEF Pending, SameRequests, InFlight
<1>4. (Alone' <=> Alone) /\ (Unfailing' <=> Unfailing)
  BY <1>1, <1>2, AloneStays DEF SameRequests, Unfailing
<1>5. Alone => /\ \A j \in Pending : j = i
               /\ \A k \in calls[i].keys : mark[k] # "none"
  BY <1>3 DEF EntriesKept, SyncInv
<1>6. \A k \in Keys : server'[k] =
        IF k \in DOMAIN calls[i].payload THEN calls[i].payload[k] ELSE server[k]
  BY <1>1 DEF Over
<1>7. \A j \in DOMAIN calls : calls'[j].keys = calls[j].keys
  BY <1>2 DEF SameRequests
<1>8. EntriesKept'
  BY <1>1, <1>3, <1>4, <1>7 DEF EntriesKept, SyncInv, Pending
<1>9. LocalIsApp' /\ CallersCalledBack'
  BY <1>1, <1>2, <1>4 DEF LocalIsApp, CallersCalledBack, SameRequests, SyncInv
<1>10. StagedMeansInFlight'
  BY <1>1, <1>3, <1>4, <1>7 DEF StagedMeansInFlight, StagedIsCarried, SyncInv, Pending
<1>11. InFlightBookkeeping'
  <2> SUFFICES ASSUME kind = "config", Alone, Unfailing PROVE InFlightBookkeeping'
    BY <1>1, <1>4 DEF InFlightBookkeeping
  <2>1. /\ DOMAIN calls[i].payload = calls[i].keys
        /\ \A k \in calls[i].keys : mark[k] = "staged" => calls[i].payload[k] = value[k]
    BY <1>3 DEF InFlightBookkeeping, SyncInv
  <2>2. calls[i].keys \subseteq Keys
    BY RequestType DEF SyncInv
  <2>3. \A k \in calls[i].keys : mark[k] = "staged" => server'[k] = value[k]
    BY <1>6, <2>1, <2>2
  <2> QED BY <1>1, <1>2, <1>3, <1>5, <2>1, <2>3 DEF InFlightBookkeeping, SameRequests
<1>12. FileCarries'
  <2> SUFFICES ASSUME kind = "file" PROVE FileCarries'
    BY <1>1 DEF FileCarries
  <2>1. ASSUME Alone
        PROVE  /\ DOMAIN calls[i].payload = calls[i].keys
               /\ \A k \in calls[i].keys : calls[i].payload[k] # Undefined
               /\ \A k \in calls[i].keys : server'[k] # Undefined
    <3>1. calls[i].keys \subseteq Keys
      BY RequestType DEF SyncInv
    <3> QED BY <1>3, <1>6, <2>1, <3>1 DEF FileCarries, SyncInv
  <2> QED BY <1>1, <1>2, <1>3, <1>4, <1>5, <2>1 DEF FileCarries, SameRequests, SyncInv
<1>13. SavedMeansReceived'
  <2> SUFFICES ASSUME Alone, (kind = "config" /\ Unfailing) \/ kind = "file"
               PROVE  SavedIsStored'
    BY <1>1, <1>4 DEF SavedMeansReceived
  <2>1. DOMAIN calls[i].payload = calls[i].keys
    BY <1>3 DEF InFlightBookkeeping, FileCarries, SyncInv
  <2>2. SavedIsStored
    BY DEF SavedMeansReceived, SyncInv
  <2> QED BY <1>1, <1>5, <1>6, <2>1, <2>2 DEF SavedIsStored
<1> QED BY <1>8, <1>9, <1>10, <1>11, <1>12, <1>13 DEF SyncInv

LEMMA FailStep ==
    ASSUME SyncInv, TypeOK', NEW i \in DOMAIN calls, NEW outcome \in Outcomes, Fail(i, outcome)
    PROVE  SyncInv'
<1>1. /\ calls[i].phase \in {"sent", "executed"}
      /\ calls' = [calls EXCEPT ![i].phase = outcome]
      /\ outcome \in {"refused", "failed"}
      /\ UNCHANGED <<kind, data, mark, value, server>>
  BY DEF Fail, Outcomes
<1>2. SameRequests(i) /\ calls'[i].phase = outcome
  BY <1>1, PhaseChange DEF SyncInv
<1>3. Pending' = Pending
  BY <1>1, <1>2 DEF Pending, SameRequests, InFlight
<1>4. (Alone' <=> Alone) /\ ~Unfailing'
  BY <1>1, <1>2, AloneStays DEF Unfailing, SameRequests
<1>5. \A j \in DOMAIN calls : calls'[j].keys = calls[j].keys
  BY <1>2 DEF SameRequests
<1>6. EntriesKept'
  BY <1>1, <1>3, <1>4, <1>5 DEF EntriesKept, SyncInv, Pending
<1>7. LocalIsApp' /\ CallersCalledBack'
  BY <1>1, <1>2, <1>4 DEF LocalIsApp, CallersCalledBack, SameRequests, SyncInv
<1>8. StagedMeansInFlight' /\ InFlightBookkeeping'
  BY <1>4 DEF StagedMeansInFlight, InFlightBookkeeping
<1>9. FileCarries'
  <2> SUFFICES ASSUME kind = "file" PROVE FileCarries'
    BY <1>1 DEF FileCarries
  <2>1. \A k \in Keys : mark[k] # "none" => value[k] # Undefined
    BY DEF FileCarries, SyncInv
  <2>2. \A j \in Pending : Alone =>
          /\ DOMAIN calls[j].payload = calls[j].keys
          /\ \A k \in calls[j].keys : calls[j].payload[k] # Undefined
          /\ calls[j].phase = "executed" =>
               calls[j].stored = server /\ \A k \in calls[j].keys : server[k] # Undefined
    BY DEF FileCarries, SyncInv
  <2>3. \A j \in Pending : j # i => calls'[j] = calls[j]
    BY <1>2 DEF SameRequests, Pending
  <2> QED BY <1>1, <1>2, <1>3, <1>4, <2>1, <2>2, <2>3 DEF FileCarries, SameRequests
<1>10. SavedMeansReceived'
  <2>1. SavedIsStored => SavedIsStored'
    BY <1>1 DEF SavedIsStored
  <2> QED BY <1>1, <1>4, <2>1 DEF SavedMeansReceived, SyncInv
<1> QED BY <1>6, <1>7, <1>8, <1>9, <1>10 DEF SyncInv

(* No handler of a model saved one request at a time throws, a User's aside, *)
(* nor any handler of a ConfigFile.                                          *)
LEMMA HandlersReturn ==
    ASSUME SyncInv, NEW i \in DOMAIN calls, i \in Pending,
           kind = "config" \/ (kind # "user" /\ Alone)
    PROVE  ~SuccessThrows(i) /\ ~FailureThrows(i)
<1>1. \A k \in Moved(i) : mark[k] # "none"
  BY DEF Moved, EntriesKept, SyncInv
<1>2. Throwing(Moved(i)) = {}
  BY <1>1 DEF Throwing
<1>3. \A k \in Unstaged(i) : mark[k] # "none"
  BY DEF Unstaged, EntriesKept, SyncInv
<1> QED BY <1>2, <1>3 DEF SuccessThrows, FailureThrows

LEMMA AnswerStep ==
    ASSUME SyncInv, TypeOK', NEW i \in DOMAIN calls, Answer(i)
    PROVE  SyncInv'
<1>1. /\ calls[i].phase \in {"executed", "refused", "failed"}
      /\ UNCHANGED <<kind, value, server>>
  BY DEF Answer, Success, SuccessThrows, Failure, LocalSync, FailureThrows
<1>2. PICK phase \in Ended : calls' = [calls EXCEPT ![i].phase = phase]
  BY DEF Answer, Success, SuccessThrows, Failure, LocalSync, FailureThrows, Phase, Ended
<1>3. SameRequests(i) /\ calls'[i].phase = phase
  BY <1>2, PhaseChange DEF SyncInv
<1>3a. ASSUME NEW ph, Phase(i, ph) PROVE ph = phase
  BY <1>3, <1>3a, PhaseChange DEF Phase, SyncInv
<1>4. i \in Pending /\ Pending' = Pending \ {i}
  BY <1>1, <1>3 DEF Pending, SameRequests, InFlight, Ended
<1>5. Alone' <=> Alone
  BY <1>3, AloneStays
<1>6. Alone => Pending = {i} /\ Pending' = {}
  BY <1>4 DEF EntriesKept, SyncInv
<1>7. Unfailing' => Unfailing /\ Success(i)
  <2> SUFFICES ASSUME Unfailing' PROVE Unfailing /\ Success(i)
    OBVIOUS
  <2>1. phase = "saved"
    BY <1>3 DEF Unfailing, SameRequests, Ended
  <2>2. Success(i)
    BY <1>3a, <2>1 DEF Answer, SuccessThrows, Failure, LocalSync, FailureThrows
  <2>3. calls[i].phase = "executed"
    BY <2>2 DEF Success
  <2> QED BY <1>3, <2>2, <2>3 DEF Unfailing, SameRequests
<1>8. EntriesKept'
  BY <1>5, <1>6 DEF EntriesKept
<1>9. LocalIsApp'
  BY <1>1, <1>3 DEF LocalIsApp, SameRequests, SyncInv
<1>10. CallersCalledBack'
  <2> SUFFICES ASSUME kind = "config" \/ (kind # "user" /\ Alone) PROVE phase # "dead"
    BY <1>1, <1>3, <1>5 DEF CallersCalledBack, SameRequests, SyncInv
  <2>1. ~SuccessThrows(i) /\ ~FailureThrows(i)
    BY <1>4, HandlersReturn
  <2> QED BY <1>3a, <2>1 DEF Answer, Success, Failure, LocalSync
<1>11. StagedMeansInFlight'
  <2> SUFFICES ASSUME kind = "config", Unfailing' PROVE StagedIsCarried'
    BY <1>1 DEF StagedMeansInFlight
  <2>1. \A k \in Keys : mark'[k] = IF mark[k] = "staged" THEN "none" ELSE mark[k]
    BY <1>7 DEF Success, Marked, Moved
  <2> QED BY <2>1 DEF StagedIsCarried
<1>12. InFlightBookkeeping'
  BY <1>5, <1>6 DEF InFlightBookkeeping
<1>13. FileCarries'
  <2>1. \A k \in Keys : mark'[k] # "none" => mark[k] # "none"
    <3>1. CASE Success(i)
      BY <3>1 DEF Success, Marked
    <3>2. CASE SuccessThrows(i)
      BY <3>2 DEF SuccessThrows, Marked
    <3>3. CASE Failure(i)
      BY <3>3 DEF Failure, Marked
    <3>4. CASE LocalSync(i)
      BY <3>4 DEF LocalSync, Marked
    <3>5. CASE FailureThrows(i)
      BY <3>5 DEF FailureThrows, Marked
    <3> QED BY <3>1, <3>2, <3>3, <3>4, <3>5 DEF Answer
  <2> QED BY <1>1, <1>5, <1>6, <2>1 DEF FileCarries, SyncInv
<1>14. ASSUME kind = "config", Alone, Unfailing' PROVE SavedMeansReceived'
  <2>1. Success(i) /\ Unfailing
    BY <1>7, <1>14
  <2>2. \A k \in Keys :
          /\ data'[k] = IF mark[k] = "staged" THEN value[k] ELSE data[k]
          /\ mark'[k] = IF mark[k] = "staged" THEN "none" ELSE mark[k]
    BY <1>14, <2>1 DEF Success, Hydrated, Propagated, Marked, Moved
  <2>3. \A k \in Keys : mark[k] = "staged" => server[k] = value[k]
    <3>1. calls[i].phase = "executed"
      BY <2>1 DEF Success
    <3>2. \A k \in Keys : mark[k] = "staged" => k \in calls[i].keys
      BY <1>6, <1>14, <2>1 DEF StagedMeansInFlight, StagedIsCarried, SyncInv
    <3> QED BY <1>4, <1>14, <2>1, <3>1, <3>2 DEF InFlightBookkeeping, SyncInv
  <2>4. SavedIsStored'
    BY <1>1, <1>14, <2>1, <2>2, <2>3 DEF SavedIsStored, SavedMeansReceived, SyncInv
  <2> QED BY <2>4 DEF SavedMeansReceived
<1>15. ASSUME kind = "file", Alone PROVE SavedMeansReceived'
  <2>1. SavedIsStored
    BY <1>15 DEF SavedMeansReceived, SyncInv
  <2>2. Success(i) \/ (Failure(i) /\ data' = data /\ mark' = Marked({}, "changed"))
    <3>1. ~calls[i].local
      BY <1>15 DEF LocalIsApp, SyncInv
    <3>2. ~SuccessThrows(i) /\ ~FailureThrows(i)
      BY <1>4, <1>15, HandlersReturn
    <3>3. Unstaged(i) = {}
      BY <1>15 DEF Unstaged
    <3> QED BY <3>1, <3>2, <3>3 DEF Answer, LocalSync, Failure
  <2>3. CASE Success(i)
    <3>1. /\ calls[i].phase = "executed"
          /\ \A k \in Keys :
               /\ data'[k] = IF calls[i].stored[k] # Undefined THEN calls[i].stored[k]
                             ELSE IF k \in calls[i].keys THEN value[k] ELSE data[k]
               /\ mark'[k] = IF k \in calls[i].keys THEN "none" ELSE mark[k]
      BY <1>15, <2>3 DEF Success, Hydrated, Propagated, Marked, Moved
    <3>2. /\ calls[i].stored = server
          /\ \A k \in calls[i].keys : server[k] # Undefined
      BY <1>4, <1>15, <3>1 DEF FileCarries, SyncInv
    <3>3. SavedIsStored'
      BY <1>1, <2>1, <3>1, <3>2 DEF SavedIsStored
    <3> QED BY <3>3 DEF SavedMeansReceived
  <2>4. CASE Failure(i) /\ data' = data /\ mark' = Marked({}, "changed")
    <3>1. SavedIsStored'
      BY <1>1, <2>1, <2>4 DEF SavedIsStored, Marked
    <3> QED BY <3>1 DEF SavedMeansReceived
  <2> QED BY <2>2, <2>3, <2>4
<1>16. SavedMeansReceived'
  BY <1>1, <1>5, <1>14, <1>15 DEF SavedMeansReceived
<1> QED BY <1>8, <1>9, <1>10, <1>11, <1>12, <1>13, <1>16 DEF SyncInv

LEMMA InvInit == Init => SyncInv
<1> SUFFICES ASSUME Init PROVE SyncInv
  OBVIOUS
<1>1. DOMAIN calls = {} /\ Pending = {}
  BY DEF Init, Pending
<1>2. SavedIsStored /\ StagedIsCarried
  BY DEF Init, SavedIsStored, StagedIsCarried
<1>3. \A k \in Keys : mark[k] = "none"
  BY DEF Init
<1> QED BY <1>1, <1>2, <1>3, TypeInit DEF SyncInv, EntriesKept, LocalIsApp, FileCarries,
           StagedMeansInFlight, CallersCalledBack, InFlightBookkeeping, SavedMeansReceived

LEMMA InvStep == SyncInv /\ [Next]_vars => SyncInv'
<1> SUFFICES ASSUME SyncInv, [Next]_vars PROVE SyncInv'
  OBVIOUS
<1>0. TypeOK'
  BY TypeStep DEF SyncInv
<1>1. ASSUME NEW k \in Keys, NEW v \in Contents, Edit(k, v) PROVE SyncInv'
  BY <1>0, <1>1, EditStep
<1>2. ASSUME NEW local \in BOOLEAN, Sync(local) PROVE SyncInv'
  BY <1>0, <1>2, SyncStep
<1>3. ASSUME NEW i \in DOMAIN calls, Execute(i) PROVE SyncInv'
  BY <1>0, <1>3, ExecuteStep
<1>4. ASSUME NEW i \in DOMAIN calls, NEW outcome \in Outcomes, Fail(i, outcome) PROVE SyncInv'
  BY <1>0, <1>4, FailStep
<1>5. ASSUME NEW i \in DOMAIN calls, Answer(i) PROVE SyncInv'
  BY <1>0, <1>5, AnswerStep
<1>6. CASE UNCHANGED vars
  <2>1. Pending' = Pending /\ Alone' = Alone /\ Unfailing' = Unfailing
    BY <1>6 DEF vars, Pending, Alone, Unfailing
  <2> QED BY <1>0, <1>6, <2>1 DEF vars, SyncInv, EntriesKept, LocalIsApp, FileCarries,
             StagedMeansInFlight, StagedIsCarried, CallersCalledBack, InFlightBookkeeping,
             SavedMeansReceived, SavedIsStored
<1> QED BY <1>1, <1>2, <1>3, <1>4, <1>5, <1>6 DEF Next, Serve

LEMMA Invariant == Spec => []SyncInv
BY InvInit, InvStep, PTL DEF Spec

(* A ConfigFile saved one sync at a time, no request of which has failed,    *)
(* and a WebosFile saved one sync at a time, never take a value for saved    *)
(* that the server does not hold, however they are edited meanwhile.         *)
THEOREM SavedCorrect == Spec => []SavedMeansReceived
BY Invariant, PTL DEF SyncInv

(* An answer of a ConfigFile that takes the keys of another request with its *)
(* own leaves no key staged that no pending request carries.                 *)
THEOREM StagedCorrect == Spec => []StagedMeansInFlight
BY Invariant, PTL DEF SyncInv

(* What is in flight agrees with what is staged.                             *)
THEOREM InFlightCorrect == Spec => []InFlightBookkeeping
BY Invariant, PTL DEF SyncInv

(* The handlers of a ConfigFile, and those of any model but a User saved one *)
(* sync at a time, always call back.                                         *)
THEOREM CalledBackCorrect == Spec => []CallersCalledBack
BY Invariant, PTL DEF SyncInv

(* syncIfAllowed() keeps locally every key of the request that was refused,  *)
(* with its last edit.                                                       *)
THEOREM FallbackCorrect == Spec => LocalFallbackSaves
<1>1. ASSUME SyncInv, [Next]_vars, NEW i \in DOMAIN calls,
             Alone, calls[i].local, calls[i].phase = "refused", calls'[i].phase \in Ended
      PROVE  \A k \in calls[i].keys : mark'[k] = "none" /\ data'[k] = View(k)
  <2>1. kind = "app"
    BY <1>1 DEF LocalIsApp, SyncInv
  <2>2. i \in Pending
    BY <1>1 DEF Pending, InFlight
  <2>3. ASSUME calls'[i] = calls[i] PROVE FALSE
    BY <1>1, <2>3 DEF Ended
  <2>4. Answer(i)
    <3>1. ASSUME NEW k \in Keys, NEW v \in Contents, Edit(k, v) PROVE FALSE
      BY <2>3, <3>1 DEF Edit
    <3>2. ASSUME NEW local \in BOOLEAN, Sync(local) PROVE FALSE
      <4>1. calls' = Append(calls, Call(Sent, Payload, local))
        BY <3>2 DEF Sync
      <4>2. DOMAIN calls = 1 .. Len(calls) /\ Len(calls) \in Nat
        BY <1>1 DEF SyncInv, TypeOK
      <4> QED BY <2>3, <4>1, <4>2
    <3>3. ASSUME NEW j \in DOMAIN calls, Serve(j) PROVE FALSE
      <4>1. j # i
        BY <1>1, <3>3 DEF Serve, Execute, Fail
      <4> QED BY <2>3, <3>3, <4>1 DEF Serve, Execute, Fail
    <3>4. ASSUME NEW j \in DOMAIN calls, Answer(j), j # i PROVE FALSE
      BY <2>3, <3>4 DEF Answer, Success, SuccessThrows, Failure, LocalSync, FailureThrows, Phase
    <3>5. ~UNCHANGED vars
      BY <2>3 DEF vars
    <3> QED BY <1>1, <3>1, <3>2, <3>3, <3>4, <3>5 DEF Next
  <2>5. LocalSync(i)
    <3>1. ~FailureThrows(i)
      BY <1>1, <2>1, <2>2, HandlersReturn
    <3> QED BY <1>1, <2>4, <3>1 DEF Answer, Success, SuccessThrows, Failure
  <2>6. calls[i].keys \subseteq Keys /\ Unstaged(i) = calls[i].keys
    BY <1>1, <2>1, RequestType DEF Unstaged, SyncInv
  <2>7. \A k \in calls[i].keys : mark[k] # "none"
    BY <1>1, <2>2 DEF EntriesKept, SyncInv
  <2>8. \A k \in calls[i].keys : mark'[k] = "none" /\ data'[k] = value[k]
    BY <2>5, <2>6 DEF LocalSync, Propagated, Marked
  <2> QED BY <2>7, <2>8 DEF View
<1>2. SyncInv /\ [Next]_vars =>
        [\A i \in DOMAIN calls :
           Alone /\ calls[i].local /\ calls[i].phase = "refused" /\ calls'[i].phase \in Ended =>
             \A k \in calls[i].keys : mark'[k] = "none" /\ data'[k] = View(k)]_vars
  BY <1>1
<1> QED BY Invariant, <1>2, PTL DEF Spec, LocalFallbackSaves
=============================================================================
