------------------------------ MODULE ModelSync ------------------------------
(***************************************************************************)
(* Webos.Model keeps the last data known to be on the server (`_data`) and  *)
(* the edits not saved yet (`_unsynced`); sync() sends the edits in a       *)
(* ServerCall and, when the answer comes, moves them to `_data`.  Five      *)
(* models redefine sync(), each with its own bookkeeping; `kind' says which *)
(* of them the model is:                                                    *)
(*                                                                          *)
(*   "user"    Webos.User         boot/lib/user.js                          *)
(*   "config"  Webos.ConfigFile   usr/lib/webos/config.js                   *)
(*   "file"    Webos.WebosFile    boot/lib/file.js (its tags)               *)
(*   "data"    Webos.DataFile     usr/lib/webos/data.js                     *)
(*   "app"     Webos.Application  usr/lib/webos/applications.js             *)
(*                                                                          *)
(* The caller may edit, and call sync() again, at any time between the      *)
(* request and its answer; requests reach the server in any order.          *)
(***************************************************************************)
EXTENDS Naturals, Sequences, FiniteSets, TLC

CONSTANTS
    Keys,         \* the model's keys
    Favorite,     \* the key Application.sync saves by a call of its own
    Values,       \* values a key can have
    Undefined,    \* JavaScript's undefined: no such key
    Kinds,        \* the kinds of model a run is about
    MaxInFlight,  \* bound: syncs pending at a time
    MaxEdits,     \* bound: calls to set() and unset()
    MaxSyncs      \* bound: requests sent

ASSUME KindsAssumption == Kinds \subseteq {"user", "config", "file", "data", "app"}
ASSUME UndefinedAssumption == Undefined \notin Values
ASSUME BoundAssumption == MaxInFlight \in Nat /\ MaxEdits \in Nat /\ MaxSyncs \in Nat

VARIABLES
    kind,     \* which class the model is of: which sync() it has
    data,     \* _data: the values the model takes for saved
    mark,     \* _unsynced[key].state: "none" (no entry), "changed" (1), "staged" (2)
    value,    \* _unsynced[key].value
    server,   \* the values the server has stored
    calls,    \* the ServerCalls sync() made, in the order it made them
    edits     \* number of calls to set() and unset()

vars == <<kind, data, mark, value, server, calls, edits>>

Contents == Values \cup {Undefined}

Outcomes == {"refused", "failed"}

(* What the callbacks of a call close over, and what became of it: "sent";    *)
(* the server's part done, "executed", "refused" or "failed"; the callbacks   *)
(* run, which took the changes for "saved", "kept" them locally or "reported" *)
(* the failure, or "dead" when a handler threw before it called back.         *)
(* `local': the caller used syncIfAllowed(); `alone': nothing was pending.    *)
InFlight == {"sent", "executed", "refused", "failed"}
Ended == {"saved", "kept", "reported", "dead"}

Pending == {i \in DOMAIN calls : calls[i].phase \in InFlight}

Call(keys, payload, local) ==
    [keys |-> keys, payload |-> payload, phase |-> "sent", stored |-> server,
     local |-> local, alone |-> Pending = {}]

Requests ==
    [keys : SUBSET Keys,
     payload : UNION {[S -> Contents] : S \in SUBSET Keys},
     phase : InFlight \cup Ended,
     stored : [Keys -> Contents],
     local : BOOLEAN,
     alone : BOOLEAN]

TypeOK ==
    /\ kind \in Kinds
    /\ data \in [Keys -> Contents]
    /\ mark \in [Keys -> {"none", "changed", "staged"}]
    /\ value \in [Keys -> Contents]
    /\ server \in [Keys -> Contents]
    /\ edits \in 0 .. MaxEdits
    /\ calls \in Seq(Requests)
    /\ Len(calls) <= MaxSyncs

Init ==
    /\ kind \in Kinds
    /\ data \in [Keys -> Contents]
    /\ mark = [k \in Keys |-> "none"]
    /\ value = [k \in Keys |-> Undefined]
    /\ server = data
    /\ calls = <<>>
    /\ edits = 0

-----------------------------------------------------------------------------
(* The caller's edits. *)

(* What set() leaves alone: a key that already has the value in `_data`,    *)
(* whatever edit of it is waiting; unset() leaves alone a key not there.    *)
Unneeded(k, v) == IF v = Undefined THEN data[k] = Undefined ELSE data[k] = v

(* Mutant: an entry that exists takes the value and keeps its state. *)
EditKeepingState(k, v) ==
    /\ edits < MaxEdits
    /\ kind \in {"file", "data"} => v # Undefined
    /\ edits' = edits + 1
    /\ IF Unneeded(k, v)
         THEN UNCHANGED <<mark, value>>
         ELSE /\ mark' = [mark EXCEPT ![k] = IF @ = "none" THEN "changed" ELSE @]
              /\ value' = [value EXCEPT ![k] = v]
    /\ UNCHANGED <<kind, data, server, calls>>

(* set(key, v), and unset(key) when v is Undefined, which no caller does to  *)
(* a file or a document.                                                     *)
Edit(k, v) ==
    /\ edits < MaxEdits
    /\ kind \in {"file", "data"} => v # Undefined
    /\ edits' = edits + 1
    /\ IF Unneeded(k, v)
         THEN UNCHANGED <<mark, value>>
         ELSE /\ mark' = [mark EXCEPT ![k] = "changed"]
              /\ value' = [value EXCEPT ![k] = v]
    /\ UNCHANGED <<kind, data, server, calls>>

-----------------------------------------------------------------------------
(* sync() *)

ChangedKeys == {k \in Keys : mark[k] = "changed"}

(* JSON and jQuery.extend() drop the keys whose value is undefined. *)
Defined(f) == [k \in {j \in DOMAIN f : f[j] # Undefined} |-> f[k]]

NewValues == [k \in ChangedKeys |-> value[k]]

(* Application.sync() saves a new position among the favourites, or, when   *)
(* there is none, everything else, in the user's prefered-openers.xml (taken *)
(* to be loaded already).                                                   *)
Sent == IF kind = "app" /\ Favorite \in ChangedKeys THEN {Favorite} ELSE ChangedKeys

(* The values of `new' over the old ones. *)
Over(new, old) == [k \in Keys |-> IF k \in DOMAIN new THEN new[k] ELSE old[k]]

(* What the server is asked to store: only ConfigFile and Application       *)
(* have a request for a removed key; DataFile writes its whole document.    *)
Payload ==
    CASE kind \in {"user", "file"} -> Defined(NewValues)
      [] kind \in {"config", "app"} -> [k \in Sent |-> value[k]]
      [] kind = "data" -> Over(Defined(NewValues), data)

(* Nothing to send: the caller is answered at once and nothing changes.     *)
(* DataFile asks hasChanged(), which counts the edits already staged.       *)
NothingToSync ==
    IF kind = "data" THEN \A k \in Keys : mark[k] = "none" ELSE ChangedKeys = {}

(* sync(), or syncIfAllowed(), which only the code that moves the            *)
(* favourites uses.                                                          *)
Sync(local) ==
    /\ Len(calls) < MaxSyncs
    /\ Cardinality(Pending) < MaxInFlight
    /\ ~NothingToSync
    /\ local => kind = "app"
    /\ calls' = Append(calls, Call(Sent, Payload, local))
    /\ mark' = [k \in Keys |-> IF k \in ChangedKeys THEN "staged" ELSE mark[k]]
    /\ UNCHANGED <<kind, data, value, server, edits>>

-----------------------------------------------------------------------------
(* The server. *)

(* The controller stores the values, or refuses (403), or the request is    *)
(* lost; an executed one's answer may be lost too.                          *)
Execute(i) ==
    /\ calls[i].phase = "sent"
    /\ server' = Over(calls[i].payload, server)
    /\ calls' = [calls EXCEPT ![i].phase = "executed", ![i].stored = server']
    /\ UNCHANGED <<kind, data, mark, value, edits>>

Fail(i, outcome) ==
    /\ calls[i].phase = "sent" \/ (calls[i].phase = "executed" /\ outcome = "failed")
    /\ calls' = [calls EXCEPT ![i].phase = outcome]
    /\ UNCHANGED <<kind, data, mark, value, server, edits>>

-----------------------------------------------------------------------------
(* The answer. *)

Phase(i, phase) == calls' = [calls EXCEPT ![i].phase = phase]

(* Mutant: the values moved are the ones the request was made with. *)
PropagatedSent(keys) ==
    LET sent(k) == {calls[i].payload[k] : i \in {j \in Pending : k \in DOMAIN calls[j].payload}}
    IN [k \in Keys |-> IF k \in keys /\ sent(k) # {} THEN CHOOSE v \in sent(k) : TRUE ELSE data[k]]

(* Mutant: the changes replace the data instead of joining it. *)
PropagatedAlone(keys) == [k \in keys |-> value[k]]

(* _propagateChanges(): the keys' pending values are the saved ones now. *)
Propagated(keys) == [k \in Keys |-> IF k \in keys THEN value[k] ELSE data[k]]

(* Mutant: the entries of the keys that are saved are not deleted. *)
MarkedUndeleted(keys, m) == [k \in Keys |-> IF k \in keys /\ m # "none" THEN m ELSE mark[k]]

(* Their entries are deleted, or take another state. *)
Marked(keys, m) == [k \in Keys |-> IF k \in keys THEN m ELSE mark[k]]

(* Mutants: it moves every pending key, sent or not; the keys of its request. *)
MovedUnsent(i) == {k \in Keys : mark[k] # "none"}
MovedSent(i) == calls[i].keys

(* The keys a success handler moves: User and ConfigFile take every staged  *)
(* key of the moment, the others the keys their request was made with.      *)
Moved(i) ==
    IF kind \in {"user", "config"} THEN {k \in Keys : mark[k] = "staged"} ELSE calls[i].keys

(* A handler throws on a key whose entry another answer has deleted, and    *)
(* User.sync() when it reads the `value` of a removed key.                  *)
Throwing(keys) ==
    {k \in keys : mark[k] = "none" \/ (kind = "user" /\ value[k] = Undefined)}

(* The keys a handler that throws has gone through: any of the sound ones,  *)
(* and in User.sync() the removed key itself, moved before it is read.      *)
GoneThrough(keys) ==
    {done \cup odd : done \in SUBSET (keys \ Throwing(keys)),
                     odd \in IF kind = "user" THEN {{k} : k \in Throwing(keys)} ELSE {{}}}

(* WebosFile takes the metadata in the answer for its data, over the rest. *)
Hydrated(i, new) ==
    IF kind = "file"
      THEN [k \in Keys |-> IF calls[i].stored[k] # Undefined THEN calls[i].stored[k] ELSE new[k]]
      ELSE new

Success(i) ==
    /\ calls[i].phase = "executed"
    /\ Throwing(Moved(i)) = {}
    /\ data' = Hydrated(i, Propagated(Moved(i)))
    /\ mark' = Marked(Moved(i), "none")
    /\ Phase(i, "saved")
    /\ UNCHANGED <<kind, value, server, edits>>

SuccessThrows(i) ==
    /\ calls[i].phase = "executed"
    /\ Throwing(Moved(i)) # {}
    /\ \E done \in GoneThrough(Moved(i)) :
         /\ data' = Propagated(done)
         /\ mark' = Marked(done, "none")
    /\ Phase(i, "dead")
    /\ UNCHANGED <<kind, value, server, edits>>

(* Mutant: the failure handler leaves the keys of its request staged. *)
UnstagedNone(i) == {}

(* Only Application makes its keys changed again when its request fails. *)
Unstaged(i) == IF kind = "app" THEN calls[i].keys ELSE {}

Failure(i) ==
    /\ calls[i].phase = "failed" \/ (calls[i].phase = "refused" /\ ~calls[i].local)
    /\ \A k \in Unstaged(i) : mark[k] # "none"
    /\ mark' = Marked(Unstaged(i), "changed")
    /\ Phase(i, "reported")
    /\ UNCHANGED <<kind, data, value, server, edits>>

(* syncIfAllowed(): refused with 403, the changed keys are saved locally. *)
LocalSync(i) ==
    LET local == ChangedKeys \cup Unstaged(i) IN
    /\ calls[i].phase = "refused"
    /\ calls[i].local
    /\ \A k \in Unstaged(i) : mark[k] # "none"
    /\ data' = Propagated(local)
    /\ mark' = Marked(local, "none")
    /\ Phase(i, "kept")
    /\ UNCHANGED <<kind, value, server, edits>>

(* _unstageChanges() throws on the first key whose entry is gone. *)
FailureThrows(i) ==
    /\ calls[i].phase \in {"failed", "refused"}
    /\ \E k \in Unstaged(i) : mark[k] = "none"
    /\ \E done \in SUBSET {k \in Unstaged(i) : mark[k] # "none"} :
         mark' = Marked(done, "changed")
    /\ Phase(i, "dead")
    /\ UNCHANGED <<kind, data, value, server, edits>>

Answer(i) ==
    Success(i) \/ SuccessThrows(i) \/ Failure(i) \/ LocalSync(i) \/ FailureThrows(i)

Serve(i) == Execute(i) \/ \E outcome \in Outcomes : Fail(i, outcome)

Next ==
    \/ \E k \in Keys, v \in Contents : Edit(k, v)
    \/ \E local \in BOOLEAN : Sync(local)
    \/ \E i \in DOMAIN calls : Serve(i)
    \/ \E i \in DOMAIN calls : Answer(i)

Spec == Init /\ [][Next]_vars

-----------------------------------------------------------------------------
(* What a key holds for the caller: getChanged() while hasChanged(), get()   *)
(* otherwise.                                                                *)
View(k) == IF mark[k] = "none" THEN data[k] ELSE value[k]

(* The caller waited for each answer before it saved again; no request was   *)
(* refused or failed.                                                        *)
Alone == \A i \in DOMAIN calls : calls[i].alone
Unfailing == \A i \in DOMAIN calls : calls[i].phase \in {"sent", "executed", "saved"}

(* Saving is not editing: whatever is sent, answered, refused or lost, and   *)
(* in whichever order, only set() and unset() change what a key is seen to   *)
(* hold, except in a WebosFile, whose answers carry data.                    *)
OnlyEditsChangeTheView ==
    [][kind # "file" /\ edits' = edits => \A k \in Keys : View(k)' = View(k)]_vars

(* `Save modifications on this model': a key the model takes for saved (no   *)
(* entry in `_unsynced') holds what the server has stored.                   *)
SavedIsStored == \A k \in Keys : mark[k] = "none" => server[k] = data[k]

(* So it is for a ConfigFile saved one sync at a time as long as no request  *)
(* fails, edits in flight or not, and for a WebosFile whatever fails, since  *)
(* its answers say what is stored.                                           *)
SavedMeansReceived ==
    Alone /\ ((kind = "config" /\ Unfailing) \/ kind = "file") => SavedIsStored

(* `_stageChanges: Mark changed data as going to be saved': a staged key is  *)
(* in a request whose answer has not come, so it will be saved or offered    *)
(* for saving again, not left behind.                                        *)
StagedIsCarried ==
    \A k \in Keys : mark[k] = "staged" => \E i \in Pending : k \in calls[i].keys

(* So it is for a ConfigFile whose requests do not fail, any number of which *)
(* are pending and answered in any order: an answer that takes another's     *)
(* keys with its own leaves none behind.                                     *)
StagedMeansInFlight == kind = "config" /\ Unfailing => StagedIsCarried

(* Why a ConfigFile's values are received: the staged keys are those of the  *)
(* one request in flight that were not edited since, with the values it      *)
(* carries.                                                                  *)
InFlightBookkeeping ==
    kind = "config" /\ Alone /\ Unfailing =>
    /\ \A i, j \in Pending : i = j
    /\ \A i \in Pending :
         /\ DOMAIN calls[i].payload = calls[i].keys
         /\ \A k \in calls[i].keys : mark[k] # "none"
         /\ \A k \in calls[i].keys :
              mark[k] = "staged" =>
                /\ calls[i].payload[k] = value[k]
                /\ calls[i].phase = "executed" => server[k] = value[k]

(* syncIfAllowed(): `If he hasn't the required permission, only save changes *)
(* locally': once a refusal is handled, no key of the request is still       *)
(* unsaved, and its last edit is what is kept.                               *)
LocalFallbackSaves ==
    [][\A i \in DOMAIN calls :
         Alone /\ calls[i].local /\ calls[i].phase = "refused" /\ calls'[i].phase \in Ended =>
           \A k \in calls[i].keys : mark'[k] = "none" /\ data'[k] = View(k)]_vars

(* The caller is called back: no handler dies on an entry another answer has *)
(* deleted, neither in a ConfigFile whose answers overlap nor in a model     *)
(* saved one sync at a time; a User may die on a removed key all the same.   *)
CallersCalledBack ==
    kind = "config" \/ (kind # "user" /\ Alone) =>
      \A i \in DOMAIN calls : calls[i].phase # "dead"

(***************************************************************************)
(* What the sources say and the code does not do.                          *)
(***************************************************************************)
(* `Set a value associated with a key in the model's data': what a key is    *)
(* seen to hold is what it has just been set to.                             *)
LastSetWins == [][\A k \in Keys, v \in Values : Edit(k, v) => View(k)' = v]_vars
=============================================================================
