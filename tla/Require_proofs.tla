--------------------------- MODULE Require_proofs ---------------------------
(***************************************************************************)
(* What Require promises for any scripts, whatever they require, as long   *)
(* as requires go down.  The liveness of the module is left to TLC.        *)
(***************************************************************************)
EXTENDS Require, SequenceTheorems, FiniteSetTheorems, TLAPS

-----------------------------------------------------------------------------
(* The thread's work. *)

(* Replacing the first frame of some work by others. *)
LEMMA ReplaceHead ==
  ASSUME NEW S, NEW s \in Seq(S), s # <<>>, NEW new \in Seq(S), NEW r, r = new \o Tail(s)
  PROVE  /\ r \in Seq(S)
         /\ Len(r) = Len(new) + Len(s) - 1
         /\ \A k \in 1 .. Len(new) : r[k] = new[k]
         /\ \A k \in Len(new) + 1 .. Len(r) :
              k - Len(new) + 1 \in 2 .. Len(s) /\ r[k] = s[k - Len(new) + 1]
<1>1. /\ Tail(s) \in Seq(S)
      /\ Len(Tail(s)) = Len(s) - 1
      /\ \A i \in 1 .. Len(Tail(s)) : Tail(s)[i] = s[i + 1]
  BY HeadTailProperties
<1>2. Len(s) \in Nat \ {0} /\ Len(new) \in Nat
  BY EmptySeq, LenProperties
<1>3. /\ r \in Seq(S)
      /\ Len(r) = Len(new) + Len(Tail(s))
      /\ \A i \in 1 .. Len(new) + Len(Tail(s)) :
           r[i] = IF i <= Len(new) THEN new[i] ELSE Tail(s)[i - Len(new)]
  BY <1>1, ConcatProperties
<1>4. ASSUME NEW k \in Len(new) + 1 .. Len(r)
      PROVE  k - Len(new) + 1 \in 2 .. Len(s) /\ r[k] = s[k - Len(new) + 1]
  <2>1. k - Len(new) \in 1 .. Len(Tail(s)) /\ ~(k <= Len(new))
    BY <1>1, <1>2, <1>3
  <2>2. r[k] = Tail(s)[k - Len(new)]
    BY <1>1, <1>2, <1>3, <2>1
  <2> QED BY <1>1, <1>2, <2>1, <2>2
<1>5. \A k \in 1 .. Len(new) : r[k] = new[k]
  BY <1>1, <1>2, <1>3
<1> QED BY <1>1, <1>2, <1>3, <1>4, <1>5

LEMMA ProceedWork ==
  ASSUME NEW S, work \in Seq(S), work # <<>>, NEW new \in Seq(S), Proceed(new)
  PROVE  /\ work' \in Seq(S)
         /\ Len(work') = Len(new) + Len(work) - 1
         /\ \A k \in 1 .. Len(new) : work'[k] = new[k]
         /\ \A k \in Len(new) + 1 .. Len(work') :
              k - Len(new) + 1 \in 2 .. Len(work) /\ work'[k] = work[k - Len(new) + 1]
<1>1. work' = new \o Tail(work)
  BY DEF Proceed
<1> QED BY <1>1, ReplaceHead

-----------------------------------------------------------------------------
(* Types. *)

(* What a frame is about stays so: files and owners of calls, groups.       *)
Grows ==
  /\ CallIds \subseteq CallIds'
  /\ \A c \in CallIds : calls'[c].files = calls[c].files /\ calls'[c].owner = calls[c].owner
  /\ DOMAIN groups \subseteq DOMAIN groups'
  /\ \A g \in DOMAIN groups : /\ groups'[g].call = groups[g].call
                              /\ groups'[g].index = groups[g].index
                              /\ groups'[g].on = groups[g].on

LEMMA FrameGrows ==
  ASSUME Grows
  PROVE  /\ Frame \subseteq Frame'
         /\ \A c, i : IsSlot(c, i) => IsSlot(c, i)'
<1>1. CallIds \subseteq CallIds' /\ DOMAIN groups \subseteq DOMAIN groups'
  BY DEF Grows
<1>2. Frame \subseteq Frame'
  BY <1>1 DEF Frame
<1>3. ASSUME NEW c, NEW i, IsSlot(c, i)
      PROVE  IsSlot(c, i)'
  BY <1>3 DEF Grows, IsSlot
<1> QED BY <1>2, <1>3

(* The fields of a frame. *)
LEMMA FrameFields ==
  ASSUME NEW w \in Frame
  PROVE  /\ w.do \in {"require", "handle", "process", "ran", "loaded", "attach", "callback",
                      "complete", "notify"}
         /\ w.do = "require" => w.list \in Seq(Files) \ {<<>>} /\ w.owner \in Owners
                                /\ w = RequireFrame(w.list, w.owner)
         /\ w.do # "require" => w.call \in CallIds
         /\ FileFrame(w) => w.index \in Nat
         /\ w.do = "ran" => w.previous \in Files \cup {None}
         /\ w.do = "notify" => w.group \in DOMAIN groups
<1> DEFINE kinds == {"require", "handle", "process", "ran", "loaded", "attach", "callback",
                     "complete", "notify"}
<1>1. CASE w \in [do : {"require"}, list : Seq(Files) \ {<<>>}, owner : Owners]
  <2>1. w = [do |-> w.do, list |-> w.list, owner |-> w.owner] /\ w.do = "require"
    BY <1>1
  <2> QED BY <1>1, <2>1 DEF FileFrame, RequireFrame
<1>2. CASE w \in [do : {"handle", "process", "loaded"}, call : CallIds, index : Nat]
  BY <1>2 DEF FileFrame
<1>3. CASE w \in [do : {"ran"}, call : CallIds, index : Nat, previous : Files \cup {None}]
  BY <1>3 DEF FileFrame
<1>4. CASE w \in [do : {"attach", "callback", "complete"}, call : CallIds]
  BY <1>4 DEF FileFrame
<1>5. CASE w \in [do : {"notify"}, group : DOMAIN groups, call : CallIds]
  BY <1>5 DEF FileFrame
<1> QED BY <1>1, <1>2, <1>3, <1>4, <1>5 DEF Frame

LEMMA TopFacts ==
  ASSUME Types, work # <<>>
  PROVE  /\ 1 \in DOMAIN work /\ Top = work[1] /\ Top \in Frame
         /\ FileFrame(Top) => IsSlot(Top.call, Top.index) /\ File \in Files
         /\ Len(work) \in Nat \ {0} /\ DOMAIN work = 1 .. Len(work)
<1>1. work \in Seq(Frame)
  BY DEF Types
<1>2. Len(work) \in Nat \ {0} /\ DOMAIN work = 1 .. Len(work)
  BY <1>1, EmptySeq, LenProperties
<1>3. Top = work[1] /\ Top \in Frame
  BY <1>1, <1>2, HeadTailProperties, ElementOfSeq DEF Top
<1>4. ASSUME FileFrame(Top)
      PROVE  IsSlot(Top.call, Top.index) /\ File \in Files
  <2>0. \A k \in DOMAIN work : FileFrame(work[k]) => IsSlot(work[k].call, work[k].index)
    BY DEF Types
  <2>1. IsSlot(Top.call, Top.index)
    BY <2>0, <1>2, <1>3, <1>4 DEF FileFrame
  <2>2. calls[Top.call] \in Call
    BY <2>1, ElementOfSeq, LenProperties DEF Types, IsSlot, CallIds
  <2>3. calls[Top.call].files \in Seq(Files)
    BY <2>2 DEF Call
  <2>4. Top.index \in 1 .. Len(calls[Top.call].files)
    BY <2>1, <2>3, LenProperties DEF IsSlot
  <2> QED BY <2>1, <2>3, <2>4, ElementOfSeq DEF File
<1> QED BY <1>2, <1>3, <1>4

(* The thread's work stays well-formed when its first frame is replaced.    *)
WorkType ==
  /\ work \in Seq(Frame)
  /\ \A k \in DOMAIN work : FileFrame(work[k]) => IsSlot(work[k].call, work[k].index)

LEMMA ProceedTypes ==
  ASSUME Types, Grows, work # <<>>, NEW new, new \in Seq(Frame'),
         \A k \in DOMAIN new : FileFrame(new[k]) => IsSlot(new[k].call, new[k].index)',
         Proceed(new)
  PROVE  WorkType'
<1>1. work \in Seq(Frame')
  BY FrameGrows, SeqMonotonic DEF Types
<1>2. /\ work' \in Seq(Frame')
      /\ Len(work') = Len(new) + Len(work) - 1
      /\ \A k \in 1 .. Len(new) : work'[k] = new[k]
      /\ \A k \in Len(new) + 1 .. Len(work') :
           k - Len(new) + 1 \in 2 .. Len(work) /\ work'[k] = work[k - Len(new) + 1]
  BY <1>1, ProceedWork
<1>3. Len(new) \in Nat /\ DOMAIN new = 1 .. Len(new) /\ Len(work) \in Nat /\ DOMAIN work = 1 .. Len(work)
      /\ DOMAIN work' = 1 .. Len(work') /\ Len(work') \in Nat
  BY <1>1, <1>2, LenProperties
<1>4. ASSUME NEW k \in DOMAIN work', NEW w, w = work'[k], FileFrame(w)
      PROVE  IsSlot(w.call, w.index)'
  <2>1. CASE k <= Len(new)
    <3>1. k \in DOMAIN new /\ w = new[k]
      BY <1>2, <1>3, <1>4, <2>1
    <3> QED BY <1>4, <3>1
  <2>2. CASE ~(k <= Len(new))
    <3>1. k - Len(new) + 1 \in DOMAIN work /\ w = work[k - Len(new) + 1]
      BY <1>2, <1>3, <1>4, <2>2
    <3>2. IsSlot(w.call, w.index)
      BY <1>4, <3>1 DEF Types
    <3> QED BY <3>2, FrameGrows
  <2> QED BY <2>1, <2>2
<1>5. \A k \in DOMAIN work' :
        FileFrame(work'[k]) =>
          work'[k].call \in DOMAIN calls' /\ work'[k].index \in DOMAIN calls'[work'[k].call].files
  BY <1>4 DEF IsSlot, CallIds
<1> QED BY <1>2, <1>5 DEF WorkType, IsSlot, CallIds

-----------------------------------------------------------------------------
(* What is asked stays: the files and the owner of a call, what a group     *)
(* waits for.                                                               *)

LEMMA CallFields ==
  ASSUME Types, NEW c \in CallIds
  PROVE  /\ calls[c] \in Call
         /\ calls[c].files \in Seq(Files) /\ calls[c].files # <<>>
         /\ Len(calls[c].files) \in Nat /\ DOMAIN calls[c].files = 1 .. Len(calls[c].files)
         /\ calls[c].owner \in Owners
         /\ calls[c].loadedFiles \in Nat
         /\ calls[c] = [files |-> calls[c].files, owner |-> calls[c].owner,
                        loadedFiles |-> calls[c].loadedFiles,
                        succeeded |-> calls[c].succeeded, erred |-> calls[c].erred]
<1>1. calls[c] \in Call
  BY ElementOfSeq, LenProperties DEF Types, CallIds
<1>2. calls[c].files \in Seq(Files) /\ calls[c].files # <<>>
  BY <1>1 DEF Call
<1>3. Len(calls[c].files) \in Nat /\ DOMAIN calls[c].files = 1 .. Len(calls[c].files)
  BY <1>2, LenProperties
<1> QED BY <1>1, <1>2, <1>3 DEF Call

LEMMA CallIdsNat == Types => CallIds = 1 .. Len(calls) /\ Len(calls) \in Nat
BY LenProperties DEF Types, CallIds

LEMMA GroupFields ==
  ASSUME Types, NEW g \in DOMAIN groups
  PROVE  /\ groups[g] \in Group
         /\ IsSlot(groups[g].call, groups[g].index)
         /\ groups[g].on \subseteq CallIds /\ IsFiniteSet(groups[g].on)
         /\ Cardinality(groups[g].on) \in Nat
         /\ groups[g].nbrNotifications \in Nat
<1>1. groups[g] \in Group
  BY ElementOfSeq, LenProperties DEF Types
<1>2. groups[g].on \subseteq CallIds
  BY <1>1 DEF Group
<1>3. IsFiniteSet(groups[g].on)
  <2>1. IsFiniteSet(1 .. Len(calls))
    BY CallIdsNat, FS_Interval
  <2> QED BY <1>2, <2>1, CallIdsNat, FS_Subset
<1> QED BY <1>1, <1>2, <1>3, FS_CardinalityType DEF Types, Group

LEMMA Unchanging ==
  ASSUME UNCHANGED <<calls, groups>>
  PROVE  Grows
BY DEF Grows, CallIds

(* A call whose progress alone changes. *)
LEMMA CallChanges ==
  ASSUME Types, DOMAIN calls' = CallIds, groups' = groups,
         \A c \in CallIds : calls'[c].files = calls[c].files /\ calls'[c].owner = calls[c].owner
  PROVE  Grows
BY DEF Grows, CallIds

LEMMA BeginCalls ==
  ASSUME Types, Begin
  PROVE  /\ Grows
         /\ calls' \in Seq(Call)
         /\ Len(calls') = Len(calls) + 1
         /\ \A c \in CallIds : calls'[c] = calls[c]
         /\ calls'[Len(calls) + 1] = [files |-> Top.list, owner |-> Top.owner, loadedFiles |-> 0,
                                      succeeded |-> FALSE, erred |-> FALSE]
         /\ CallIds' = 1 .. Len(calls) + 1
<1> DEFINE new == [files |-> Top.list, owner |-> Top.owner, loadedFiles |-> 0,
                   succeeded |-> FALSE, erred |-> FALSE]
<1>1. Top \in Frame /\ Top.do = "require"
  BY TopFacts DEF Begin, Running
<1>2. new \in Call
  BY <1>1, FrameFields DEF Call
<1>3. calls \in Seq(Call) /\ calls' = Append(calls, new) /\ groups' = groups
  BY DEF Begin, Types
<1> HIDE DEF new
<1>4. /\ calls' \in Seq(Call)
      /\ Len(calls') = Len(calls) + 1
      /\ \A i \in 1 .. Len(calls) : calls'[i] = calls[i]
      /\ calls'[Len(calls) + 1] = new
  BY <1>2, <1>3, AppendProperties
<1>5. CallIds' = 1 .. Len(calls) + 1
  BY <1>4, LenProperties DEF CallIds
<1>6. Grows
  BY <1>3, <1>4, <1>5, CallIdsNat DEF Grows
<1> QED BY <1>4, <1>5, <1>6, CallIdsNat DEF new

LEMMA LoadedCalls ==
  ASSUME Types, Loaded
  PROVE  /\ Grows
         /\ calls' \in Seq(Call) /\ CallIds' = CallIds
         /\ calls' = [calls EXCEPT ![Top.call].loadedFiles = @ + 1]
<1>1. Top \in Frame /\ FileFrame(Top)
  BY TopFacts DEF Loaded, Running, FileFrame
<1>2. Top.call \in CallIds /\ IsSlot(Top.call, Top.index)
  BY <1>1, TopFacts DEF IsSlot, Loaded, Running
<1>3. calls \in Seq(Call) /\ DOMAIN calls = 1 .. Len(calls)
  BY LenProperties DEF Types
<1>4. calls' = [calls EXCEPT ![Top.call].loadedFiles = @ + 1] /\ groups' = groups
  BY DEF Loaded
<1>5. calls[Top.call].loadedFiles + 1 \in Nat
  <2>1. calls[Top.call].loadedFiles \in Nat
    BY <1>2, CallFields
  <2> QED BY <2>1
<1>6. [calls[Top.call] EXCEPT !.loadedFiles = @ + 1] \in Call
  BY <1>2, <1>5, CallFields DEF Call
<1>7. calls' = [calls EXCEPT ![Top.call] = [calls[Top.call] EXCEPT !.loadedFiles = @ + 1]]
  BY <1>4
<1>8. calls' \in Seq(Call) /\ CallIds' = CallIds
  BY <1>2, <1>3, <1>6, <1>7, ExceptSeq, LenProperties DEF CallIds
<1>9. \A c \in CallIds : calls'[c].files = calls[c].files /\ calls'[c].owner = calls[c].owner
  <2> SUFFICES ASSUME NEW c \in CallIds
               PROVE  calls'[c].files = calls[c].files /\ calls'[c].owner = calls[c].owner
    OBVIOUS
  <2>1. calls'[c] = IF c = Top.call THEN [calls[c] EXCEPT !.loadedFiles = @ + 1] ELSE calls[c]
    BY <1>7 DEF CallIds
  <2>2. calls[c] \in Call
    BY CallFields
  <2> QED BY <2>1, <2>2 DEF Call
<1> QED BY <1>4, <1>8, <1>9, CallChanges DEF CallIds

LEMMA CompleteCalls ==
  ASSUME Types, Complete
  PROVE  /\ Grows
         /\ calls' \in Seq(Call) /\ CallIds' = CallIds
         /\ calls' = [calls EXCEPT ![Top.call].succeeded = TRUE]
<1>1. Top \in Frame /\ Top.do = "complete"
  BY TopFacts DEF Complete, Running
<1>2. Top.call \in CallIds
  BY <1>1, FrameFields
<1>3. calls \in Seq(Call) /\ DOMAIN calls = 1 .. Len(calls)
  BY LenProperties DEF Types
<1>4. calls' = [calls EXCEPT ![Top.call].succeeded = TRUE] /\ groups' = groups
  BY DEF Complete
<1>6. [calls[Top.call] EXCEPT !.succeeded = TRUE] \in Call
  BY <1>2, CallFields DEF Call
<1>7. calls' = [calls EXCEPT ![Top.call] = [calls[Top.call] EXCEPT !.succeeded = TRUE]]
  BY <1>4
<1>8. calls' \in Seq(Call) /\ CallIds' = CallIds
  BY <1>2, <1>3, <1>6, <1>7, ExceptSeq, LenProperties DEF CallIds
<1>9. \A c \in CallIds : calls'[c].files = calls[c].files /\ calls'[c].owner = calls[c].owner
  <2> SUFFICES ASSUME NEW c \in CallIds
               PROVE  calls'[c].files = calls[c].files /\ calls'[c].owner = calls[c].owner
    OBVIOUS
  <2>1. calls'[c] = IF c = Top.call THEN [calls[c] EXCEPT !.succeeded = TRUE] ELSE calls[c]
    BY <1>7 DEF CallIds
  <2>2. calls[c] \in Call
    BY CallFields
  <2> QED BY <2>1, <2>2 DEF Call
<1> QED BY <1>4, <1>8, <1>9, CallChanges DEF CallIds

LEMMA FailCalls ==
  ASSUME Types, NEW f \in Files, Fail(f)
  PROVE  /\ Grows
         /\ calls' \in Seq(Call) /\ CallIds' = CallIds
         /\ \A c \in CallIds : /\ calls'[c].loadedFiles = calls[c].loadedFiles
                               /\ calls'[c].succeeded = calls[c].succeeded
<1>1. calls \in Seq(Call) /\ DOMAIN calls = 1 .. Len(calls) /\ Len(calls) \in Nat
  BY LenProperties DEF Types
<1>2. calls' = [c \in 1 .. Len(calls) |->
                  IF \E k \in DOMAIN waiters[f] : waiters[f][k][1] = c
                  THEN [calls[c] EXCEPT !.erred = TRUE] ELSE calls[c]]
      /\ groups' = groups
  BY <1>1 DEF Fail
<1>3. \A c \in 1 .. Len(calls) : calls[c] \in Call
  BY <1>1, ElementOfSeq
<1>4. ASSUME NEW c \in 1 .. Len(calls)
      PROVE  /\ calls'[c] \in Call
             /\ calls'[c].files = calls[c].files /\ calls'[c].owner = calls[c].owner
             /\ calls'[c].loadedFiles = calls[c].loadedFiles
             /\ calls'[c].succeeded = calls[c].succeeded
  <2>1. calls'[c] = calls[c] \/ calls'[c] = [calls[c] EXCEPT !.erred = TRUE]
    BY <1>2
  <2>2. calls[c] \in Call
    BY <1>3
  <2> QED BY <2>1, <2>2 DEF Call
<1>5. calls' \in [1 .. Len(calls) -> Call]
  <2>1. DOMAIN calls' = 1 .. Len(calls) /\ calls' = [c \in 1 .. Len(calls) |-> calls'[c]]
    BY <1>2
  <2> QED BY <2>1, <1>4
<1>6. calls' \in Seq(Call)
  BY <1>1, <1>5, SeqDef
<1>7. CallIds' = CallIds /\ CallIds = 1 .. Len(calls)
  BY <1>1, <1>5 DEF CallIds
<1> QED BY <1>2, <1>4, <1>5, <1>6, <1>7, CallChanges DEF CallIds

(* The group of a script whose requires have not all succeeded.             *)
StackOf(f) == IF f \in DOMAIN stacks THEN stacks[f] ELSE {}
OverOf(f) == {c \in StackOf(f) : calls[c].succeeded}
RanGroup == [call |-> Top.call, index |-> Top.index, on |-> StackOf(File), nbrNotifications |-> 0]

LEMMA RanCases ==
  ASSUME Ran
  PROVE  /\ work # <<>> /\ Top.do = "ran" /\ current' = Top.previous
         /\ UNCHANGED <<calls, cache, stacks, text, waiters, asked, executed, failed>>
         /\ \/ /\ File \in Optional \/ OverOf(File) = StackOf(File)
               /\ Proceed(<<LoadedFrame(Top.call, Top.index)>>)
               /\ UNCHANGED <<groups, timers>>
            \/ /\ File \notin Optional /\ OverOf(File) # StackOf(File)
               /\ groups' = Append(groups, RanGroup)
               /\ timers' = timers \cup ({Len(groups) + 1} \X OverOf(File))
               /\ Proceed(<<>>)
BY DEF Ran, Running, StackOf, OverOf, RanGroup

LEMMA RanGroups ==
  ASSUME Types, Ran, groups' = Append(groups, RanGroup)
  PROVE  /\ Grows
         /\ groups' \in Seq(Group)
         /\ DOMAIN groups' = 1 .. Len(groups) + 1 /\ DOMAIN groups = 1 .. Len(groups)
         /\ Len(groups) \in Nat
         /\ \A g \in DOMAIN groups : groups'[g] = groups[g]
         /\ groups'[Len(groups) + 1] = RanGroup
         /\ StackOf(File) \subseteq CallIds
<1>1. Top \in Frame /\ FileFrame(Top) /\ IsSlot(Top.call, Top.index) /\ File \in Files
  BY RanCases, TopFacts DEF FileFrame
<1>2. StackOf(File) \subseteq CallIds
  BY <1>1 DEF StackOf, Types
<1>3. RanGroup \in Group
  BY <1>1, <1>2, FrameFields DEF RanGroup, Group, IsSlot
<1>4. groups \in Seq(Group) /\ Len(groups) \in Nat /\ DOMAIN groups = 1 .. Len(groups)
  BY LenProperties DEF Types
<1>5. /\ groups' \in Seq(Group)
      /\ Len(groups') = Len(groups) + 1
      /\ \A i \in 1 .. Len(groups) : groups'[i] = groups[i]
      /\ groups'[Len(groups) + 1] = RanGroup
  BY <1>3, <1>4, AppendProperties
<1>6. DOMAIN groups' = 1 .. Len(groups) + 1
  BY <1>5, LenProperties
<1>7. calls' = calls
  BY RanCases
<1>8. \A g \in DOMAIN groups : g \in DOMAIN groups' /\ groups'[g] = groups[g]
  BY <1>4, <1>5, <1>6
<1>9. Grows
  BY <1>7, <1>8 DEF Grows, CallIds
<1> QED BY <1>2, <1>4, <1>5, <1>6, <1>9

LEMMA NotifyGroups ==
  ASSUME Types, Notify
  PROVE  /\ Grows
         /\ Top.group \in DOMAIN groups
         /\ groups' \in Seq(Group)
         /\ DOMAIN groups' = DOMAIN groups
         /\ \A g \in DOMAIN groups :
              groups'[g].nbrNotifications =
                IF g = Top.group THEN groups[g].nbrNotifications + 1 ELSE groups[g].nbrNotifications
<1>1. Top \in Frame /\ Top.do = "notify"
  BY TopFacts DEF Notify, Running
<1>2. Top.group \in DOMAIN groups
  BY <1>1, FrameFields
<1>3. groups \in Seq(Group) /\ DOMAIN groups = 1 .. Len(groups)
  BY LenProperties DEF Types
<1>4. groups' = [groups EXCEPT ![Top.group] = [groups[Top.group] EXCEPT !.nbrNotifications = @ + 1]]
      /\ calls' = calls
  BY DEF Notify
<1>5. \A g \in DOMAIN groups : groups[g] \in Group /\ groups[g].nbrNotifications \in Nat
  BY GroupFields
<1>6. groups[Top.group].nbrNotifications + 1 \in Nat
  BY <1>2, <1>5
<1>7. [groups[Top.group] EXCEPT !.nbrNotifications = @ + 1] \in Group
  BY <1>2, <1>5, <1>6 DEF Group
<1>8. groups' \in Seq(Group) /\ DOMAIN groups' = DOMAIN groups
  BY <1>2, <1>3, <1>4, <1>7, ExceptSeq, LenProperties
<1>9. ASSUME NEW g \in DOMAIN groups
      PROVE  /\ groups'[g].call = groups[g].call /\ groups'[g].index = groups[g].index
             /\ groups'[g].on = groups[g].on
             /\ groups'[g].nbrNotifications =
                  IF g = Top.group THEN groups[g].nbrNotifications + 1
                                   ELSE groups[g].nbrNotifications
  <2>1. groups'[g] = IF g = Top.group THEN [groups[g] EXCEPT !.nbrNotifications = @ + 1] ELSE groups[g]
    BY <1>2, <1>4
  <2> QED BY <1>5, <2>1 DEF Group
<1>10. Grows
  BY <1>4, <1>8, <1>9 DEF Grows, CallIds
<1> QED BY <1>2, <1>8, <1>9, <1>10

LEMMA StepGrows ==
  ASSUME Types, Next
  PROVE  Grows
<1>1. CASE Begin
  BY <1>1, BeginCalls
<1>2. CASE Handle
  BY <1>2, Unchanging DEF Handle
<1>3. CASE Attach
  BY <1>3, Unchanging DEF Attach
<1>4. CASE Process
  BY <1>4, Unchanging DEF Process
<1>5. CASE Ran
  <2>1. CASE groups' = groups
    BY <1>5, <2>1, RanCases, Unchanging
  <2>2. CASE groups' = Append(groups, RanGroup)
    BY <1>5, <2>2, RanGroups
  <2> QED BY <1>5, <2>1, <2>2, RanCases
<1>6. CASE Loaded
  BY <1>6, LoadedCalls
<1>7. CASE CallBack
  BY <1>7, Unchanging DEF CallBack
<1>8. CASE Complete
  BY <1>8, CompleteCalls
<1>9. CASE Notify
  BY <1>9, NotifyGroups
<1>10. CASE Ask
  BY <1>10, Unchanging DEF Ask
<1>11. CASE Timer
  BY <1>11, Unchanging DEF Timer
<1>12. ASSUME NEW f \in Files, Answer(f)
       PROVE  Grows
  BY <1>12, Unchanging DEF Answer
<1>13. ASSUME NEW f \in Files, Fail(f)
       PROVE  Grows
  BY <1>13, FailCalls
<1> QED
  BY <1>1, <1>2, <1>3, <1>4, <1>5, <1>6, <1>7, <1>8, <1>9, <1>10, <1>11, <1>12, <1>13
     DEF Next, Thread

-----------------------------------------------------------------------------
(* Types are invariant, part by part. *)

GroupType ==
  /\ groups \in Seq(Group)
  /\ \A g \in DOMAIN groups : IsSlot(groups[g].call, groups[g].index)

StackType == DOMAIN stacks \subseteq Files /\ \A f \in DOMAIN stacks : stacks[f] \subseteq CallIds

WaitType ==
  /\ waiters \in [Files -> Seq(CallIds \X Nat)]
  /\ \A f \in Files : \A k \in DOMAIN waiters[f] : IsSlot(waiters[f][k][1], waiters[f][k][2])

TimerType == timers \subseteq ((DOMAIN groups) \X CallIds)

PlainType ==
  /\ cache \subseteq Files /\ text \subseteq Files
  /\ current \in Files \cup {None}
  /\ asked \in 0 .. MaxCalls
  /\ executed \in [Files -> Nat] /\ failed \in [Files -> Nat]

LEMMA TypeParts ==
  Types <=> /\ calls \in Seq(Call)
            /\ GroupType /\ StackType /\ WaitType /\ WorkType /\ TimerType /\ PlainType
BY Zenon DEF Types, GroupType, StackType, WaitType, WorkType, TimerType, PlainType

LEMMA Unmoved ==
  ASSUME Types, Grows
  PROVE  /\ groups' = groups => GroupType'
         /\ stacks' = stacks => StackType'
         /\ waiters' = waiters => WaitType'
         /\ work' = work => WorkType'
         /\ timers \subseteq ((DOMAIN groups') \X CallIds')
<1>1. /\ Frame \subseteq Frame' /\ CallIds \subseteq CallIds' /\ DOMAIN groups \subseteq DOMAIN groups'
      /\ \A c, i : c \in CallIds /\ i \in DOMAIN calls[c].files =>
                     c \in CallIds' /\ i \in DOMAIN calls'[c].files
  BY FrameGrows DEF Grows, IsSlot
<1>2. Group \subseteq Group'
  BY <1>1 DEF Group
<1>3. ASSUME groups' = groups
      PROVE  GroupType'
  <2>1. groups' \in Seq(Group')
    BY <1>2, <1>3, SeqMonotonic DEF Types
  <2> QED BY <1>1, <1>3, <2>1 DEF GroupType, Types, IsSlot
<1>4. ASSUME stacks' = stacks
      PROVE  StackType'
  BY <1>1, <1>4 DEF StackType, Types
<1>5. ASSUME waiters' = waiters
      PROVE  WaitType'
  <2>1. \A f \in Files : waiters[f] \in Seq(CallIds' \X Nat)
    <3> SUFFICES ASSUME NEW f \in Files PROVE waiters[f] \in Seq(CallIds' \X Nat)
      OBVIOUS
    <3>1. waiters[f] \in Seq(CallIds \X Nat) /\ CallIds \X Nat \subseteq CallIds' \X Nat
      BY <1>1 DEF Types
    <3> QED BY <3>1, SeqMonotonic
  <2>2. waiters' \in [Files -> Seq(CallIds' \X Nat)]
    BY <1>5, <2>1 DEF Types
  <2> QED BY <1>1, <1>5, <2>2 DEF WaitType, Types, IsSlot
<1>6. ASSUME work' = work
      PROVE  WorkType'
  <2>1. work' \in Seq(Frame')
    BY <1>1, <1>6, SeqMonotonic DEF Types
  <2> QED BY <1>1, <1>6, <2>1 DEF WorkType, Types, IsSlot, FileFrame
<1>7. timers \subseteq ((DOMAIN groups') \X CallIds')
  BY <1>1 DEF Types
<1> QED BY <1>3, <1>4, <1>5, <1>6, <1>7

(* The next two are about the frames that are put on the thread's work. *)

LEMMA NoFrame == \A S : <<>> \in Seq(S) /\ Len(<<>>) = 0 /\ DOMAIN <<>> = {}
OBVIOUS

LEMMA OneFrame ==
  \A S : \A w \in S : <<w>> \in Seq(S) /\ Len(<<w>>) = 1 /\ DOMAIN <<w>> = {1} /\ <<w>>[1] = w
OBVIOUS

LEMMA TwoFrames ==
  \A S : \A v, w \in S :
    /\ <<v, w>> \in Seq(S) /\ Len(<<v, w>>) = 2 /\ DOMAIN <<v, w>> = {1, 2}
    /\ <<v, w>>[1] = v /\ <<v, w>>[2] = w
OBVIOUS

LEMMA NewFrames ==
  /\ \A c \in CallIds : AttachFrame(c) \in Frame /\ CallbackFrame(c) \in Frame /\ CompleteFrame(c) \in Frame
  /\ \A c \in CallIds, i \in Nat :
       HandleFrame(c, i) \in Frame /\ ProcessFrame(c, i) \in Frame /\ LoadedFrame(c, i) \in Frame
  /\ \A c \in CallIds, i \in Nat, f \in Files \cup {None} : RanFrame(c, i, f) \in Frame
  /\ \A g \in DOMAIN groups, c \in CallIds : NotifyFrame(g, c) \in Frame
  /\ \A list \in Seq(Files) \ {<<>>}, o \in Owners : RequireFrame(list, o) \in Frame
<1>1. \A c \in CallIds : AttachFrame(c) \in Frame /\ CallbackFrame(c) \in Frame /\ CompleteFrame(c) \in Frame
  BY DEF Frame, AttachFrame, CallbackFrame, CompleteFrame
<1>2. \A c \in CallIds, i \in Nat :
        HandleFrame(c, i) \in Frame /\ ProcessFrame(c, i) \in Frame /\ LoadedFrame(c, i) \in Frame
  BY DEF Frame, HandleFrame, ProcessFrame, LoadedFrame
<1>3. \A c \in CallIds, i \in Nat, f \in Files \cup {None} : RanFrame(c, i, f) \in Frame
  BY DEF Frame, RanFrame
<1>4. \A g \in DOMAIN groups, c \in CallIds : NotifyFrame(g, c) \in Frame
  BY DEF Frame, NotifyFrame
<1>5. \A list \in Seq(Files) \ {<<>>}, o \in Owners : RequireFrame(list, o) \in Frame
  BY DEF Frame, RequireFrame
<1> QED BY <1>1, <1>2, <1>3, <1>4, <1>5

SlotFrames(new) == \A k \in DOMAIN new : FileFrame(new[k]) => IsSlot(new[k].call, new[k].index)

(* The frames an action puts instead of the first one. *)
Puts(new) == work # <<>> /\ new \in Seq(Frame') /\ SlotFrames(new)' /\ Proceed(new)

LEMMA PutsTypes ==
  ASSUME Types, Grows, NEW new, work # <<>>, new \in Seq(Frame'), SlotFrames(new)', Proceed(new)
  PROVE  WorkType'
<1>1. \A k \in DOMAIN new : FileFrame(new[k]) => IsSlot(new[k].call, new[k].index)'
  BY DEF SlotFrames, FileFrame
<1> QED BY <1>1, ProceedTypes

LEMMA FramesAndOne ==
  ASSUME NEW S, NEW s \in Seq(S), NEW w \in S, NEW r, r = s \o <<w>>
  PROVE  /\ r \in Seq(S) /\ Len(r) = Len(s) + 1 /\ Len(s) \in Nat
         /\ \A i \in 1 .. Len(s) : r[i] = s[i]
         /\ r[Len(s) + 1] = w
<1>1. <<w>> \in Seq(S) /\ r = Append(s, w)
  BY AppendIsConcat
<1> QED BY <1>1, AppendProperties, LenProperties

LEMMA BeginPuts ==
  ASSUME Types, Begin
  PROVE  \E new :
           /\ Puts(new)
           /\ Len(new) = Len(Top.list) + 1 /\ Len(Top.list) \in Nat
           /\ \A i \in 1 .. Len(Top.list) : new[i] = HandleFrame(Len(calls) + 1, i)
           /\ new[Len(Top.list) + 1] = AttachFrame(Len(calls) + 1)
<1> DEFINE c == Len(calls) + 1
           n == Len(Top.list)
           handles == [i \in DOMAIN Top.list |-> HandleFrame(c, i)]
<1>1. Top \in Frame /\ Top.do = "require" /\ work # <<>>
  BY TopFacts DEF Begin, Running
<1>2. Top.list \in Seq(Files) /\ n \in Nat /\ DOMAIN Top.list = 1 .. n
  BY <1>1, FrameFields, LenProperties
<1>3. c \in CallIds' /\ calls'[c].files = Top.list /\ c \in Nat
  BY BeginCalls, CallIdsNat
<1>4. AttachFrame(c) \in Frame' /\ \A i \in 1 .. n : HandleFrame(c, i) \in Frame'
  <2>1. \A k \in CallIds' : AttachFrame(k) \in Frame'
    BY DEF Frame, AttachFrame
  <2>2. \A k \in CallIds' : \A i \in Nat : HandleFrame(k, i) \in Frame'
    BY DEF Frame, HandleFrame
  <2> QED BY <1>2, <1>3, <2>1, <2>2
<1>5. handles \in [1 .. n -> Frame']
  BY <1>2, <1>4
<1>6. handles \in Seq(Frame') /\ Len(handles) = n
  BY <1>2, <1>5, SeqDef
<1>7. PICK new : new = handles \o <<AttachFrame(c)>>
  OBVIOUS
<1>8. PICK s : s = handles
  OBVIOUS
<1>9. /\ new \in Seq(Frame') /\ Len(new) = n + 1
      /\ \A i \in 1 .. n : new[i] = s[i]
      /\ new[n + 1] = AttachFrame(c)
  <2>1. s \in Seq(Frame') /\ Len(s) = n /\ new = s \o <<AttachFrame(c)>>
    BY <1>6, <1>7, <1>8
  <2>2. AttachFrame(c) \in Frame'
    BY <1>4
  <2> HIDE DEF c, n, handles
  <2> QED BY <2>1, <2>2, FramesAndOne
<1>10. \A i \in 1 .. n : new[i] = HandleFrame(c, i)
  BY <1>2, <1>8, <1>9
<1>11. DOMAIN new = 1 .. n + 1
  BY <1>9, LenProperties
<1>12. SlotFrames(new)'
  <2> SUFFICES ASSUME NEW k \in 1 .. n + 1, FileFrame(new[k])
               PROVE  new[k].call \in DOMAIN calls' /\ new[k].index \in DOMAIN calls'[new[k].call].files
    BY <1>11 DEF SlotFrames, IsSlot, CallIds, FileFrame
  <2>1. k # n + 1
    BY <1>9 DEF AttachFrame, FileFrame
  <2>2. k \in 1 .. n
    BY <1>2, <2>1
  <2>3. new[k].call = c /\ new[k].index = k
    <3>1. new[k] = HandleFrame(c, k)
      BY <1>10, <2>2
    <3> QED BY <3>1 DEF HandleFrame
  <2> QED BY <1>2, <1>3, <2>2, <2>3 DEF CallIds
<1>13. Proceed(new)
  BY <1>7 DEF Begin
<1> QED BY <1>1, <1>2, <1>9, <1>10, <1>12, <1>13 DEF Puts, c, n

(* One frame about the file the first frame is about. *)
LEMMA FilePuts ==
  ASSUME Types, Grows, work # <<>>, FileFrame(Top),
         NEW w, w \in {LoadedFrame(Top.call, Top.index), ProcessFrame(Top.call, Top.index)},
         Proceed(<<w>>)
  PROVE  Puts(<<w>>)
<1>1. IsSlot(Top.call, Top.index) /\ Top.call \in CallIds /\ Top.index \in Nat
  BY TopFacts, FrameFields DEF IsSlot
<1>2. w \in Frame
  BY <1>1, NewFrames
<1>3. w \in Frame'
  BY <1>2, FrameGrows
<1>4. <<w>> \in Seq(Frame') /\ DOMAIN <<w>> = {1} /\ <<w>>[1] = w
  BY <1>3, OneFrame
<1>5. w.call = Top.call /\ w.index = Top.index
  BY DEF LoadedFrame, ProcessFrame
<1>6. w.call \in DOMAIN calls' /\ w.index \in DOMAIN calls'[w.call].files
  BY <1>1, <1>5 DEF Grows, IsSlot, CallIds
<1>7. SlotFrames(<<w>>)'
  BY <1>4, <1>6 DEF SlotFrames, IsSlot, CallIds
<1> QED BY <1>4, <1>7 DEF Puts

LEMMA EmptyPuts ==
  ASSUME work # <<>>, Proceed(<<>>)
  PROVE  Puts(<<>>)
BY NoFrame DEF Puts, SlotFrames

LEMMA HandlePuts ==
  ASSUME Types, Handle
  PROVE  /\ work # <<>> /\ Top.do = "handle"
         /\ \/ File \in cache /\ waiters' = waiters /\ Puts(<<LoadedFrame(Top.call, Top.index)>>)
            \/ File \in text /\ waiters' = waiters /\ Puts(<<ProcessFrame(Top.call, Top.index)>>)
            \/ /\ waiters' = [waiters EXCEPT ![File] = Append(@, <<Top.call, Top.index>>)]
               /\ Puts(<<>>)
<1>1. work # <<>> /\ Top.do = "handle" /\ FileFrame(Top) /\ Grows
  BY Unchanging DEF Handle, Running, FileFrame
<1>2. CASE File \in cache /\ waiters' = waiters /\ Proceed(<<LoadedFrame(Top.call, Top.index)>>)
  <2>1. PICK w : w = LoadedFrame(Top.call, Top.index)
    OBVIOUS
  <2>2. Puts(<<w>>)
    BY <1>1, <1>2, <2>1, FilePuts
  <2> QED BY <1>1, <1>2, <2>1, <2>2
<1>3. CASE File \in text /\ waiters' = waiters /\ Proceed(<<ProcessFrame(Top.call, Top.index)>>)
  <2>1. PICK w : w = ProcessFrame(Top.call, Top.index)
    OBVIOUS
  <2>2. Puts(<<w>>)
    BY <1>1, <1>3, <2>1, FilePuts
  <2> QED BY <1>1, <1>3, <2>1, <2>2
<1>4. CASE /\ waiters' = [waiters EXCEPT ![File] = Append(@, <<Top.call, Top.index>>)]
           /\ Proceed(<<>>)
  BY <1>1, <1>4, EmptyPuts
<1> QED BY <1>1, <1>2, <1>3, <1>4 DEF Handle

LEMMA PairOfFrames ==
  ASSUME NEW S, NEW v \in S, NEW w \in S
  PROVE  <<v>> \o <<w>> = <<v, w>>
<1>1. <<v>> \in Seq(S) /\ <<w>> \in Seq(S) /\ <<v, w>> \in Seq(S)
  OBVIOUS
<1>2. PICK a, b, c : a = <<v>> /\ b = <<w>> /\ c = <<v, w>>
  OBVIOUS
<1>3. Len(a) = 1 /\ Len(b) = 1 /\ Len(c) = 2 /\ a[1] = v /\ b[1] = w /\ c[1] = v /\ c[2] = w
  BY <1>2
<1>4. /\ a \o b \in Seq(S) /\ Len(a \o b) = 2
      /\ \A i \in 1 .. 2 : (a \o b)[i] = IF i <= 1 THEN a[i] ELSE b[i - 1]
  BY <1>1, <1>2, <1>3, ConcatProperties
<1>5. (a \o b)[1] = v /\ (a \o b)[2] = w
  BY <1>3, <1>4
<1>6. PICK d : d = a \o b
  OBVIOUS
<1>7. d = c
  <2>1. \A i \in 1 .. Len(d) : d[i] = c[i]
    BY <1>3, <1>4, <1>5, <1>6
  <2> QED BY <1>1, <1>2, <1>3, <1>4, <1>6, <2>1, SeqEqual
<1> QED BY <1>2, <1>6, <1>7

LEMMA ProcessPuts ==
  ASSUME Types, Process
  PROVE  /\ work # <<>> /\ Top.do = "process" /\ File \in Files
         /\ \/ /\ File \in cache /\ UNCHANGED <<stacks, current, executed>>
               /\ Puts(<<LoadedFrame(Top.call, Top.index)>>)
            \/ /\ File \notin cache
               /\ stacks' = [f \in DOMAIN stacks \cup {File} |-> IF f = File THEN {} ELSE stacks[f]]
               /\ current' = File
               /\ executed' = [executed EXCEPT ![File] = @ + 1]
               /\ \/ Deps[File] = <<>> /\ Puts(<<RanFrame(Top.call, Top.index, current)>>)
                  \/ /\ Deps[File] # <<>>
                     /\ Puts(<<RequireFrame(Deps[File], File), RanFrame(Top.call, Top.index, current)>>)
<1>1. work # <<>> /\ Top.do = "process" /\ FileFrame(Top) /\ Grows
  BY Unchanging DEF Process, Running, FileFrame
<1>2. IsSlot(Top.call, Top.index) /\ Top.call \in CallIds /\ Top.index \in Nat /\ File \in Files
  BY <1>1, TopFacts, FrameFields DEF IsSlot
<1>3. CASE /\ File \in cache /\ UNCHANGED <<stacks, current, executed>>
           /\ Proceed(<<LoadedFrame(Top.call, Top.index)>>)
  <2>1. PICK w : w = LoadedFrame(Top.call, Top.index)
    OBVIOUS
  <2>2. Puts(<<w>>)
    BY <1>1, <1>3, <2>1, FilePuts
  <2> QED BY <1>1, <1>2, <1>3, <2>1, <2>2
<1>4. CASE /\ File \notin cache
           /\ Proceed((IF Deps[File] = <<>> THEN <<>> ELSE <<RequireFrame(Deps[File], File)>>)
                      \o <<RanFrame(Top.call, Top.index, current)>>)
  <2>1. PICK r : r = RanFrame(Top.call, Top.index, current)
    OBVIOUS
  <2>2. r \in Frame'
    <3>1. r \in Frame
      BY <1>2, <2>1, NewFrames DEF Types
    <3> QED BY <1>1, <3>1, FrameGrows
  <2>3. r.call = Top.call /\ r.index = Top.index /\ r.do = "ran"
    BY <2>1 DEF RanFrame
  <2>4. r.call \in DOMAIN calls' /\ r.index \in DOMAIN calls'[r.call].files
    BY <1>1, <1>2, <2>3 DEF Grows, IsSlot, CallIds
  <2>5. CASE Deps[File] = <<>>
    <3>1. Proceed(<<r>>)
      BY <1>4, <2>1, <2>2, <2>5, OneFrame, ConcatEmptySeq DEF Proceed
    <3>2. <<r>> \in Seq(Frame') /\ DOMAIN <<r>> = {1} /\ <<r>>[1] = r
      BY <2>2, OneFrame
    <3>3. SlotFrames(<<r>>)'
      BY <2>4, <3>2 DEF SlotFrames, IsSlot, CallIds
    <3>4. Puts(<<r>>)
      BY <1>1, <3>1, <3>2, <3>3 DEF Puts
    <3> QED BY <1>1, <1>2, <1>4, <2>1, <2>5, <3>4 DEF Process
  <2>6. CASE Deps[File] # <<>>
    <3>1. PICK q : q = RequireFrame(Deps[File], File)
      OBVIOUS
    <3>2. q \in Frame' /\ q.do = "require"
      BY <1>2, <2>6, <3>1, DepsAssumption, NewFrames DEF Frame, RequireFrame, Owners
    <3>3. /\ <<q, r>> \in Seq(Frame') /\ DOMAIN <<q, r>> = {1, 2}
          /\ <<q, r>>[1] = q /\ <<q, r>>[2] = r
      BY <2>2, <3>2, TwoFrames
    <3>4. Proceed(<<q>> \o <<r>>)
      BY <1>4, <2>1, <2>6, <3>1
    <3>5. <<q>> \o <<r>> = <<q, r>>
      BY <2>2, <3>2, PairOfFrames
    <3>6. Proceed(<<q, r>>)
      BY <3>4, <3>5
    <3>7. SlotFrames(<<q, r>>)'
      BY <2>4, <3>2, <3>3 DEF SlotFrames, IsSlot, CallIds, FileFrame
    <3>8. Puts(<<q, r>>)
      BY <1>1, <3>3, <3>6, <3>7 DEF Puts
    <3> QED BY <1>1, <1>2, <1>4, <2>1, <2>6, <3>1, <3>8 DEF Process
  <2> QED BY <2>5, <2>6
<1> QED BY <1>3, <1>4 DEF Process

LEMMA RanPuts ==
  ASSUME Types, Ran
  PROVE  Grows /\ (Puts(<<LoadedFrame(Top.call, Top.index)>>) \/ Puts(<<>>))
<1>1. work # <<>> /\ FileFrame(Top) /\ Grows
  BY RanCases, StepGrows DEF FileFrame, Next, Thread
<1>2. CASE Proceed(<<LoadedFrame(Top.call, Top.index)>>)
  <2>1. PICK w : w = LoadedFrame(Top.call, Top.index)
    OBVIOUS
  <2>2. Puts(<<w>>)
    BY <1>1, <1>2, <2>1, FilePuts
  <2> QED BY <1>1, <2>1, <2>2
<1>3. CASE Proceed(<<>>)
  BY <1>1, <1>3, EmptyPuts
<1> QED BY <1>2, <1>3, RanCases

LEMMA LoadedPuts ==
  ASSUME Types, Loaded
  PROVE  /\ work # <<>> /\ Top.do = "loaded" /\ File \in Files /\ IsSlot(Top.call, Top.index)
         /\ Grows
         /\ \/ /\ calls[Top.call].loadedFiles + 1 = Len(calls[Top.call].files)
               /\ Puts(<<CallbackFrame(Top.call), CompleteFrame(Top.call)>>)
            \/ /\ calls[Top.call].loadedFiles + 1 # Len(calls[Top.call].files)
               /\ Puts(<<>>)
<1>1. work # <<>> /\ Top.do = "loaded" /\ FileFrame(Top) /\ Grows
  BY LoadedCalls DEF Loaded, Running, FileFrame
<1>2. IsSlot(Top.call, Top.index) /\ Top.call \in CallIds /\ File \in Files
  BY <1>1, TopFacts DEF IsSlot
<1>3. CASE /\ calls[Top.call].loadedFiles + 1 = Len(calls[Top.call].files)
           /\ Proceed(<<CallbackFrame(Top.call), CompleteFrame(Top.call)>>)
  <2>1. PICK b, e : b = CallbackFrame(Top.call) /\ e = CompleteFrame(Top.call)
    OBVIOUS
  <2>2. b \in Frame' /\ e \in Frame'
    <3>1. b \in Frame /\ e \in Frame
      BY <1>2, <2>1, NewFrames
    <3> QED BY <1>1, <3>1, FrameGrows
  <2>3. b.do = "callback" /\ e.do = "complete"
    BY <2>1 DEF CallbackFrame, CompleteFrame
  <2>4. <<b, e>> \in Seq(Frame') /\ DOMAIN <<b, e>> = {1, 2} /\ <<b, e>>[1] = b /\ <<b, e>>[2] = e
    BY <2>2, TwoFrames
  <2>5. SlotFrames(<<b, e>>)'
    BY <2>3, <2>4 DEF SlotFrames, FileFrame
  <2>6. Puts(<<b, e>>)
    BY <1>1, <1>3, <2>1, <2>4, <2>5 DEF Puts
  <2> QED BY <1>1, <1>2, <1>3, <2>1, <2>6
<1>4. CASE calls[Top.call].loadedFiles + 1 # Len(calls[Top.call].files) /\ Proceed(<<>>)
  BY <1>1, <1>2, <1>4, EmptyPuts
<1> QED BY <1>3, <1>4 DEF Loaded

LEMMA RequirePuts ==
  ASSUME Types, work # <<>>, NEW list \in Seq(Files) \ {<<>>}, NEW o \in Owners,
         Proceed(<<RequireFrame(list, o)>>)
  PROVE  Puts(<<RequireFrame(list, o)>>)
<1>1. PICK q : q = RequireFrame(list, o)
  OBVIOUS
<1>2. q \in Frame' /\ q.do = "require"
  BY <1>1 DEF Frame, RequireFrame, Owners
<1>3. <<q>> \in Seq(Frame') /\ DOMAIN <<q>> = {1} /\ <<q>>[1] = q
  BY <1>2, OneFrame
<1>4. SlotFrames(<<q>>)'
  BY <1>2, <1>3 DEF SlotFrames, FileFrame
<1> QED BY <1>1, <1>3, <1>4 DEF Puts

LEMMA CallBackPuts ==
  ASSUME Types, CallBack
  PROVE  /\ work # <<>> /\ Top.do = "callback" /\ Top.call \in CallIds
         /\ LET owner == calls[Top.call].owner IN
            \/ /\ owner \in Files /\ Later[owner] # <<>> /\ asked' = asked
               /\ Puts(<<RequireFrame(Later[owner], Nested)>>)
            \/ Puts(<<>>) /\ asked' = asked
            \/ \E list \in Lists :
                 /\ owner = None /\ asked < MaxCalls /\ asked' = asked + 1
                 /\ Puts(<<RequireFrame(list, None)>>)
<1>1. work # <<>> /\ Top.do = "callback"
  BY DEF CallBack, Running
<1>2. Top.call \in CallIds
  BY <1>1, TopFacts, FrameFields
<1> DEFINE owner == calls[Top.call].owner
<1>3. CASE /\ owner \in Files /\ Later[owner] # <<>> /\ asked' = asked
           /\ Proceed(<<RequireFrame(Later[owner], Nested)>>)
  <2>1. Later[owner] \in Seq(Files) \ {<<>>}
    BY <1>3, DepsAssumption
  <2>2. Nested \in Owners
    BY DEF Owners
  <2>3. Puts(<<RequireFrame(Later[owner], Nested)>>)
    BY <1>1, <1>3, <2>1, <2>2, RequirePuts
  <2> QED BY <1>1, <1>2, <1>3, <2>3
<1>4. CASE Proceed(<<>>) /\ asked' = asked
  BY <1>1, <1>2, <1>4, EmptyPuts
<1>5. ASSUME NEW list \in Lists, owner = None, asked < MaxCalls, asked' = asked + 1,
             Proceed(<<RequireFrame(list, None)>>)
      PROVE  Puts(<<RequireFrame(list, None)>>)
  <2>1. list \in Seq(Files) \ {<<>>} /\ None \in Owners
    BY ListsAssumption DEF Owners
  <2> QED BY <1>1, <1>5, <2>1, RequirePuts
<1>6. CASE \E list \in Lists : /\ owner = None /\ asked < MaxCalls /\ asked' = asked + 1
                               /\ Proceed(<<RequireFrame(list, None)>>)
  BY <1>1, <1>2, <1>5, <1>6
<1> QED BY <1>3, <1>4, <1>6 DEF CallBack

(* The groups that a call tells, in order. *)
Observing(c) == {g \in DOMAIN groups : c \in groups[g].on}
NotifyFrames(told, c) == [k \in DOMAIN told |-> NotifyFrame(told[k], c)]

LEMMA CompletePuts ==
  ASSUME Types, Complete
  PROVE  /\ work # <<>> /\ Top.do = "complete" /\ Top.call \in CallIds /\ Grows
         /\ calls' = [calls EXCEPT ![Top.call].succeeded = TRUE]
         /\ \E told \in [1 .. Cardinality(Observing(Top.call)) -> Observing(Top.call)] :
              /\ \A i, k \in DOMAIN told : i < k => told[i] < told[k]
              /\ Cardinality(Observing(Top.call)) \in Nat
              /\ Puts(NotifyFrames(told, Top.call))
              /\ Len(NotifyFrames(told, Top.call)) = Cardinality(Observing(Top.call))
<1>1. work # <<>> /\ Top.do = "complete" /\ Grows
      /\ calls' = [calls EXCEPT ![Top.call].succeeded = TRUE]
  BY CompleteCalls DEF Complete, Running
<1>2. Top.call \in CallIds
  BY <1>1, TopFacts, FrameFields
<1> DEFINE n == Cardinality(Observing(Top.call))
<1>3. n \in Nat
  <2>1. DOMAIN groups = 1 .. Len(groups) /\ Len(groups) \in Nat
    BY LenProperties DEF Types
  <2>2. IsFiniteSet(DOMAIN groups)
    BY <2>1, FS_Interval
  <2>3. Observing(Top.call) \in SUBSET DOMAIN groups
    BY DEF Observing
  <2>4. IsFiniteSet(Observing(Top.call))
    BY <2>2, <2>3, FS_Subset
  <2> QED BY <2>4, FS_CardinalityType
<1>4. PICK told \in [1 .. n -> Observing(Top.call)] :
        /\ \A i, k \in DOMAIN told : i < k => told[i] < told[k]
        /\ Proceed(NotifyFrames(told, Top.call))
  BY DEF Complete, Observing, NotifyFrames
<1>5. PICK c : c = Top.call
  OBVIOUS
<1>6. PICK new : new = NotifyFrames(told, c)
  OBVIOUS
<1>7. \A k \in 1 .. n : new[k] = NotifyFrame(told[k], c) /\ new[k] \in Frame' /\ new[k].do = "notify"
  <2> SUFFICES ASSUME NEW k \in 1 .. n
               PROVE  new[k] = NotifyFrame(told[k], c) /\ new[k] \in Frame' /\ new[k].do = "notify"
    OBVIOUS
  <2>1. new[k] = NotifyFrame(told[k], c)
    BY <1>4, <1>6 DEF NotifyFrames
  <2>2. told[k] \in DOMAIN groups
    BY <1>4 DEF Observing
  <2>3. new[k] \in Frame
    BY <1>2, <1>5, <2>1, <2>2, NewFrames
  <2> QED BY <1>1, <2>1, <2>3, FrameGrows DEF NotifyFrame
<1>8. new \in [1 .. n -> Frame'] /\ DOMAIN new = 1 .. n
  BY <1>6, <1>7 DEF NotifyFrames
<1>9. new \in Seq(Frame') /\ Len(new) = n
  BY <1>3, <1>8, SeqDef
<1>10. SlotFrames(new)'
  BY <1>7, <1>8 DEF SlotFrames, FileFrame
<1>11. Puts(new)
  BY <1>1, <1>4, <1>5, <1>6, <1>9, <1>10 DEF Puts
<1> QED BY <1>1, <1>2, <1>3, <1>4, <1>5, <1>6, <1>9, <1>11

LEMMA NotifyPuts ==
  ASSUME Types, Notify
  PROVE  /\ work # <<>> /\ Top.do = "notify" /\ Top.group \in DOMAIN groups /\ Top.call \in CallIds
         /\ Grows
         /\ LET g == groups[Top.group] IN
            \/ /\ g.nbrNotifications + 1 >= Cardinality(g.on)
               /\ Puts(<<LoadedFrame(g.call, g.index)>>)
            \/ ~(g.nbrNotifications + 1 >= Cardinality(g.on)) /\ Puts(<<>>)
<1>1. work # <<>> /\ Top.do = "notify" /\ Grows /\ Top.group \in DOMAIN groups
  BY NotifyGroups DEF Notify, Running
<1>2. Top.call \in CallIds
  BY <1>1, TopFacts, FrameFields
<1> DEFINE g == groups[Top.group]
<1>3. CASE /\ g.nbrNotifications + 1 >= Cardinality(g.on)
           /\ Proceed(<<LoadedFrame(g.call, g.index)>>)
  <2>1. PICK w : w = LoadedFrame(g.call, g.index)
    OBVIOUS
  <2>2. IsSlot(g.call, g.index) /\ g.call \in CallIds /\ g.index \in Nat
    BY <1>1, GroupFields DEF IsSlot, Group
  <2>3. w \in Frame'
    <3>1. w \in Frame
      BY <2>1, <2>2, NewFrames
    <3> QED BY <1>1, <3>1, FrameGrows
  <2>4. w.call = g.call /\ w.index = g.index
    BY <2>1 DEF LoadedFrame
  <2>5. w.call \in DOMAIN calls' /\ w.index \in DOMAIN calls'[w.call].files
    BY <1>1, <2>2, <2>4 DEF Grows, IsSlot, CallIds
  <2>6. <<w>> \in Seq(Frame') /\ DOMAIN <<w>> = {1} /\ <<w>>[1] = w
    BY <2>3, OneFrame
  <2>7. SlotFrames(<<w>>)'
    BY <2>5, <2>6 DEF SlotFrames, IsSlot, CallIds
  <2>8. Puts(<<w>>)
    BY <1>1, <1>3, <2>1, <2>6, <2>7 DEF Puts
  <2> QED BY <1>1, <1>2, <1>3, <2>1, <2>8
<1>4. CASE ~(g.nbrNotifications + 1 >= Cardinality(g.on)) /\ Proceed(<<>>)
  BY <1>1, <1>2, <1>4, EmptyPuts
<1> QED BY <1>3, <1>4 DEF Notify

LEMMA AttachPuts ==
  ASSUME Types, Attach
  PROVE  /\ work # <<>> /\ Top.do = "attach" /\ Top.call \in CallIds /\ Puts(<<>>) /\ Grows
         /\ UNCHANGED <<calls, groups, cache, current, text, waiters, timers, asked, executed, failed>>
         /\ stacks' = IF current = None THEN stacks
                      ELSE [stacks EXCEPT ![current] = @ \cup {Top.call}]
<1>1. work # <<>> /\ Top.do = "attach" /\ Grows
  BY Unchanging DEF Attach, Running
<1>2. Top.call \in CallIds
  BY <1>1, TopFacts, FrameFields
<1> QED BY <1>1, <1>2, EmptyPuts DEF Attach

LEMMA AnswerWork ==
  ASSUME Types, NEW f \in Files, Answer(f)
  PROVE  /\ work = <<>> /\ Grows
         /\ waiters[f] \in Seq(CallIds \X Nat) /\ Len(waiters[f]) \in Nat
         /\ DOMAIN waiters[f] = 1 .. Len(waiters[f])
         /\ Len(work') = Len(waiters[f])
         /\ \A k \in 1 .. Len(waiters[f]) :
              work'[k] = ProcessFrame(waiters[f][k][1], waiters[f][k][2])
         /\ WorkType'
<1>1. Grows /\ work = <<>>
  BY Unchanging DEF Answer
<1> DEFINE n == Len(waiters[f])
<1>2. waiters[f] \in Seq(CallIds \X Nat) /\ n \in Nat /\ DOMAIN waiters[f] = 1 .. n
  BY LenProperties DEF Types
<1>3. work' = [k \in 1 .. n |-> ProcessFrame(waiters[f][k][1], waiters[f][k][2])]
  BY <1>2 DEF Answer
<1>4. PICK new : new = work'
  OBVIOUS
<1>5. \A k \in 1 .. n : /\ new[k] = ProcessFrame(waiters[f][k][1], waiters[f][k][2])
                        /\ IsSlot(waiters[f][k][1], waiters[f][k][2])
                        /\ waiters[f][k][2] \in Nat /\ waiters[f][k][1] \in CallIds
  <2>1. \A k \in 1 .. n : waiters[f][k] \in CallIds \X Nat
    BY <1>2, ElementOfSeq
  <2> QED BY <1>2, <1>3, <1>4, <2>1 DEF Types
<1>6. \A k \in 1 .. n : new[k] \in Frame
  BY <1>5, NewFrames
<1>7. new \in [1 .. n -> Frame']
  BY <1>1, <1>3, <1>4, <1>6, FrameGrows
<1>8. new \in Seq(Frame') /\ Len(new) = n /\ DOMAIN new = 1 .. n
  <2> HIDE DEF n
  <2>1. new \in Seq(Frame') /\ DOMAIN new = 1 .. n
    BY <1>2, <1>7, SeqDef
  <2>2. Len(new) \in Nat /\ DOMAIN new = 1 .. Len(new)
    BY <2>1, LenProperties
  <2> QED BY <1>2, <2>1, <2>2
<1>9. \A k \in 1 .. n : new[k].call \in CallIds' /\ new[k].index \in DOMAIN calls'[new[k].call].files
  <2> SUFFICES ASSUME NEW k \in 1 .. n
               PROVE  new[k].call \in CallIds' /\ new[k].index \in DOMAIN calls'[new[k].call].files
    OBVIOUS
  <2>1. new[k].call = waiters[f][k][1] /\ new[k].index = waiters[f][k][2]
    <3>1. new[k] = ProcessFrame(waiters[f][k][1], waiters[f][k][2])
      BY <1>5
    <3> QED BY <3>1 DEF ProcessFrame
  <2>2. IsSlot(new[k].call, new[k].index)
    BY <1>5, <2>1
  <2> QED BY <1>1, <2>2 DEF Grows, IsSlot
<1>10. WorkType'
  BY <1>4, <1>8, <1>9 DEF WorkType, IsSlot, CallIds
<1> QED BY <1>1, <1>2, <1>3, <1>4, <1>8, <1>10

(* One frame on an empty thread. *)
LEMMA OneWork ==
  ASSUME NEW w \in Frame', work' = <<w>>, ~FileFrame(w)
  PROVE  WorkType'
<1>1. <<w>> \in Seq(Frame') /\ DOMAIN <<w>> = {1} /\ <<w>>[1] = w
  BY OneFrame
<1> QED BY <1>1 DEF WorkType, FileFrame

LEMMA WorkTypes ==
  ASSUME Types, Next
  PROVE  WorkType'
<1>0. Grows
  BY StepGrows
<1>1. ASSUME NEW new, Puts(new)
      PROVE  WorkType'
  BY <1>0, <1>1, PutsTypes DEF Puts
<1>2. CASE Begin
  BY <1>1, <1>2, BeginPuts
<1>3. CASE Handle
  BY <1>1, <1>3, HandlePuts
<1>4. CASE Attach
  BY <1>1, <1>4, AttachPuts
<1>5. CASE Process
  BY <1>1, <1>5, ProcessPuts
<1>6. CASE Ran
  BY <1>1, <1>6, RanPuts
<1>7. CASE Loaded
  BY <1>1, <1>7, LoadedPuts
<1>8. CASE CallBack
  BY <1>1, <1>8, CallBackPuts
<1>9. CASE Complete
  BY <1>1, <1>9, CompletePuts
<1>10. CASE Notify
  BY <1>1, <1>10, NotifyPuts
<1>11. CASE Ask
  <2>1. PICK list \in Lists : work' = <<RequireFrame(list, None)>>
    BY <1>11 DEF Ask
  <2>2. PICK w : w = RequireFrame(list, None)
    OBVIOUS
  <2>3. list \in Seq(Files) \ {<<>>} /\ None \in Owners
    BY ListsAssumption DEF Owners
  <2>4. w \in Frame /\ ~FileFrame(w)
    BY <2>2, <2>3, NewFrames DEF RequireFrame, FileFrame
  <2>5. w \in Frame'
    BY <1>0, <2>4, FrameGrows
  <2> QED BY <2>1, <2>2, <2>4, <2>5, OneWork
<1>12. CASE Timer
  <2>1. PICK t \in timers : work' = <<NotifyFrame(t[1], t[2])>>
    BY <1>12 DEF Timer
  <2>2. PICK w : w = NotifyFrame(t[1], t[2])
    OBVIOUS
  <2>3. t[1] \in DOMAIN groups /\ t[2] \in CallIds
    BY DEF Types
  <2>4. w \in Frame /\ ~FileFrame(w)
    BY <2>2, <2>3, NewFrames DEF NotifyFrame, FileFrame
  <2>5. w \in Frame'
    BY <1>0, <2>4, FrameGrows
  <2> QED BY <2>1, <2>2, <2>4, <2>5, OneWork
<1>13. ASSUME NEW f \in Files, Answer(f)
       PROVE  WorkType'
  BY <1>13, AnswerWork
<1>14. ASSUME NEW f \in Files, Fail(f)
       PROVE  WorkType'
  BY <1>0, <1>14, Unmoved DEF Fail
<1> QED BY <1>2, <1>3, <1>4, <1>5, <1>6, <1>7, <1>8, <1>9, <1>10, <1>11, <1>12, <1>13, <1>14
        DEF Next, Thread

LEMMA CallsType ==
  ASSUME Types, Next
  PROVE  calls' \in Seq(Call)
<1>1. CASE calls' = calls
  BY <1>1 DEF Types
<1>2. CASE Begin
  BY <1>2, BeginCalls
<1>3. CASE Loaded
  BY <1>3, LoadedCalls
<1>4. CASE Complete
  BY <1>4, CompleteCalls
<1>5. ASSUME NEW f \in Files, Fail(f)
      PROVE  calls' \in Seq(Call)
  BY <1>5, FailCalls
<1>6. CASE Handle \/ Attach \/ Process \/ CallBack \/ Notify
  BY <1>1, <1>6 DEF Handle, Attach, Process, CallBack, Notify
<1>7. CASE Ran
  BY <1>1, <1>7, RanCases
<1>8. CASE Ask \/ Timer \/ \E f \in Files : Answer(f)
  BY <1>1, <1>8 DEF Ask, Timer, Answer
<1> QED BY <1>2, <1>3, <1>4, <1>5, <1>6, <1>7, <1>8 DEF Next, Thread

LEMMA GroupsType ==
  ASSUME Types, Next
  PROVE  GroupType'
<1>0. Grows
  BY StepGrows
<1>1. CASE groups' = groups
  BY <1>0, <1>1, Unmoved
<1>2. ASSUME groups' \in Seq(Group), calls' = calls,
             \A g \in DOMAIN groups' :
               groups'[g].call \in DOMAIN calls /\ groups'[g].index \in DOMAIN calls[groups'[g].call].files
      PROVE  GroupType'
  <2>1. Group = Group'
    BY <1>2 DEF Group, CallIds
  <2>2. groups' \in Seq(Group')
    BY <1>2, <2>1
  <2> QED BY <1>2, <2>2 DEF GroupType, IsSlot, CallIds
<1>3. CASE Ran
  <2>1. CASE groups' = Append(groups, RanGroup)
    <3>1. /\ groups' \in Seq(Group) /\ calls' = calls
          /\ DOMAIN groups' = 1 .. Len(groups) + 1 /\ DOMAIN groups = 1 .. Len(groups)
          /\ Len(groups) \in Nat
          /\ \A g \in DOMAIN groups : groups'[g] = groups[g]
          /\ groups'[Len(groups) + 1] = RanGroup
      BY <1>3, <2>1, RanGroups, RanCases
    <3>2. IsSlot(Top.call, Top.index)
      BY <1>3, RanCases, TopFacts DEF FileFrame
    <3>3. ASSUME NEW g \in DOMAIN groups'
          PROVE  groups'[g].call \in DOMAIN calls /\ groups'[g].index \in DOMAIN calls[groups'[g].call].files
      <4>1. CASE g \in DOMAIN groups
        <5>1. IsSlot(groups[g].call, groups[g].index) /\ groups'[g] = groups[g]
          BY <3>1, <4>1, GroupFields
        <5> QED BY <5>1 DEF IsSlot, CallIds
      <4>2. CASE g \notin DOMAIN groups
        <5>1. g = Len(groups) + 1
          BY <3>1, <3>3, <4>2
        <5>2. groups'[g].call = Top.call /\ groups'[g].index = Top.index
          BY <3>1, <5>1 DEF RanGroup
        <5> QED BY <3>2, <5>2 DEF IsSlot, CallIds
      <4> QED BY <4>1, <4>2
    <3> QED BY <1>2, <3>1, <3>3
  <2> QED BY <1>1, <1>3, <2>1, RanCases
<1>4. CASE Notify
  <2>1. groups' \in Seq(Group) /\ DOMAIN groups' = DOMAIN groups /\ calls' = calls
    BY <1>4, NotifyGroups DEF Notify
  <2>2. ASSUME NEW g \in DOMAIN groups
        PROVE  groups'[g].call \in DOMAIN calls /\ groups'[g].index \in DOMAIN calls[groups'[g].call].files
    <3>1. groups'[g].call = groups[g].call /\ groups'[g].index = groups[g].index
      BY <1>0 DEF Grows
    <3> QED BY <3>1, GroupFields DEF IsSlot, CallIds
  <2> QED BY <1>2, <2>1, <2>2
<1>5. CASE Begin \/ Handle \/ Attach \/ Process \/ CallBack \/ Loaded \/ Complete
  BY <1>1, <1>5 DEF Begin, Handle, Attach, Process, CallBack, Loaded, Complete
<1>6. CASE Ask \/ Timer \/ \E f \in Files : Answer(f) \/ Fail(f)
  BY <1>1, <1>6 DEF Ask, Timer, Answer, Fail
<1> QED BY <1>3, <1>4, <1>5, <1>6 DEF Next, Thread

LEMMA StacksType ==
  ASSUME Types, Next
  PROVE  StackType'
<1>0. Grows /\ CallIds \subseteq CallIds' /\ DOMAIN stacks \subseteq Files
      /\ \A f \in DOMAIN stacks : stacks[f] \subseteq CallIds
  BY StepGrows DEF Grows, Types
<1>1. CASE stacks' = stacks
  BY <1>0, <1>1, Unmoved
<1>2. CASE Attach
  <2>1. Top.call \in CallIds' /\ stacks' = IF current = None THEN stacks
                                           ELSE [stacks EXCEPT ![current] = @ \cup {Top.call}]
    BY <1>0, <1>2, AttachPuts
  <2>2. DOMAIN stacks' = DOMAIN stacks
    BY <2>1
  <2>3. \A f \in DOMAIN stacks : stacks'[f] \subseteq stacks[f] \cup {Top.call}
    BY <2>1
  <2> QED BY <1>0, <2>1, <2>2, <2>3 DEF StackType
<1>3. CASE Process
  BY <1>0, <1>1, <1>3, ProcessPuts DEF StackType
<1>4. CASE Loaded
  <2>1. stacks' = [f \in DOMAIN stacks \cap (DOMAIN stacks \ {File}) |-> stacks[f]]
    BY <1>4 DEF Loaded, Restrict
  <2>2. DOMAIN stacks' \subseteq DOMAIN stacks /\ \A f \in DOMAIN stacks' : stacks'[f] = stacks[f]
    BY <2>1
  <2> QED BY <1>0, <2>2 DEF StackType
<1>5. CASE Ran
  BY <1>1, <1>5, RanCases
<1>6. CASE Begin \/ Handle \/ CallBack \/ Complete \/ Notify
  BY <1>1, <1>6 DEF Begin, Handle, CallBack, Complete, Notify
<1>7. CASE Ask \/ Timer \/ \E f \in Files : Answer(f) \/ Fail(f)
  BY <1>1, <1>7 DEF Ask, Timer, Answer, Fail
<1> QED BY <1>2, <1>3, <1>4, <1>5, <1>6, <1>7 DEF Next, Thread

LEMMA WaitersType ==
  ASSUME Types, Next
  PROVE  WaitType'
<1>0. Grows
  BY StepGrows
<1>1. CASE waiters' = waiters
  BY <1>0, <1>1, Unmoved
<1>2. \A c, i : IsSlot(c, i) => c \in CallIds' /\ i \in DOMAIN calls'[c].files
  BY <1>0 DEF Grows, IsSlot
<1>3. \A f \in Files : /\ waiters[f] \in Seq(CallIds \X Nat) /\ waiters[f] \in Seq(CallIds' \X Nat)
                       /\ DOMAIN waiters[f] = 1 .. Len(waiters[f]) /\ Len(waiters[f]) \in Nat
                       /\ \A k \in DOMAIN waiters[f] : IsSlot(waiters[f][k][1], waiters[f][k][2])
  <2> SUFFICES ASSUME NEW f \in Files
               PROVE  /\ waiters[f] \in Seq(CallIds \X Nat) /\ waiters[f] \in Seq(CallIds' \X Nat)
                      /\ DOMAIN waiters[f] = 1 .. Len(waiters[f]) /\ Len(waiters[f]) \in Nat
                      /\ \A k \in DOMAIN waiters[f] : IsSlot(waiters[f][k][1], waiters[f][k][2])
    OBVIOUS
  <2>1. waiters[f] \in Seq(CallIds \X Nat) /\ CallIds \X Nat \subseteq CallIds' \X Nat
    BY <1>0 DEF Types, Grows
  <2> QED BY <2>1, SeqMonotonic, LenProperties DEF Types
<1>4. ASSUME NEW h \in Files, NEW c, NEW i, IsSlot(c, i), i \in Nat,
             waiters' = [waiters EXCEPT ![h] = Append(@, <<c, i>>)]
      PROVE  WaitType'
  <2>0. waiters \in [Files -> Seq(CallIds \X Nat)] /\ DOMAIN waiters' = Files
    BY <1>4 DEF Types
  <2>1. <<c, i>> \in CallIds' \X Nat
    BY <1>2, <1>4
  <2>2. PICK p : p = <<c, i>>
    OBVIOUS
  <2>3. PICK w : w = waiters[h]
    OBVIOUS
  <2>4. PICK v : v = Append(w, p)
    OBVIOUS
  <2>5. /\ v \in Seq(CallIds' \X Nat) /\ Len(v) = Len(w) + 1
        /\ \A k \in 1 .. Len(w) : v[k] = w[k]
        /\ v[Len(w) + 1] = p
    BY <1>3, <1>4, <2>1, <2>2, <2>3, <2>4, AppendProperties
  <2>6. DOMAIN v = 1 .. Len(w) + 1
    BY <2>5, LenProperties
  <2>7. \A k \in DOMAIN v : v[k][1] \in CallIds' /\ v[k][2] \in DOMAIN calls'[v[k][1]].files
    <3> SUFFICES ASSUME NEW k \in 1 .. Len(w) + 1
                 PROVE  v[k][1] \in CallIds' /\ v[k][2] \in DOMAIN calls'[v[k][1]].files
      BY <2>6
    <3>1. CASE k \in 1 .. Len(w)
      BY <1>2, <1>3, <2>3, <2>5, <3>1
    <3>2. CASE k \notin 1 .. Len(w)
      <4>1. k = Len(w) + 1
        BY <1>3, <2>3, <3>2
      <4> QED BY <1>2, <1>4, <2>2, <2>5, <4>1
    <3> QED BY <3>1, <3>2
  <2>8. waiters' = [waiters EXCEPT ![h] = v]
    BY <1>4, <2>2, <2>3, <2>4
  <2>9. \A f \in Files : waiters'[f] = IF f = h THEN v ELSE waiters[f]
    BY <2>0, <2>8
  <2>10. waiters' \in [Files -> Seq(CallIds' \X Nat)]
    BY <1>3, <2>0, <2>5, <2>8, <2>9
  <2>11. \A f \in Files : \A k \in DOMAIN waiters'[f] :
           waiters'[f][k][1] \in CallIds' /\ waiters'[f][k][2] \in DOMAIN calls'[waiters'[f][k][1]].files
    BY <1>2, <1>3, <2>7, <2>9
  <2> QED BY <2>10, <2>11 DEF WaitType, IsSlot, CallIds
<1>5. ASSUME NEW h \in Files, waiters' = [waiters EXCEPT ![h] = <<>>]
      PROVE  WaitType'
  <2>0. waiters \in [Files -> Seq(CallIds \X Nat)] /\ DOMAIN waiters' = Files
    BY <1>5 DEF Types
  <2>1. \A f \in Files : waiters'[f] = IF f = h THEN <<>> ELSE waiters[f]
    BY <1>5, <2>0
  <2>2. <<>> \in Seq(CallIds' \X Nat) /\ DOMAIN <<>> = {}
    BY NoFrame
  <2>3. waiters' \in [Files -> Seq(CallIds' \X Nat)]
    BY <1>3, <1>5, <2>0, <2>1, <2>2
  <2>4. \A f \in Files : \A k \in DOMAIN waiters'[f] :
           waiters'[f][k][1] \in CallIds' /\ waiters'[f][k][2] \in DOMAIN calls'[waiters'[f][k][1]].files
    BY <1>2, <1>3, <2>1, <2>2
  <2> QED BY <2>3, <2>4 DEF WaitType, IsSlot, CallIds
<1>6. CASE Handle
  <2>1. work # <<>> /\ FileFrame(Top)
    BY <1>6, HandlePuts DEF FileFrame
  <2>2. File \in Files /\ IsSlot(Top.call, Top.index) /\ Top.index \in Nat
    BY <2>1, TopFacts, FrameFields
  <2> QED BY <1>1, <1>4, <1>6, <2>2, HandlePuts
<1>7. ASSUME NEW f \in Files, Answer(f) \/ Fail(f)
      PROVE  WaitType'
  BY <1>5, <1>7 DEF Answer, Fail
<1>8. CASE Ran
  BY <1>1, <1>8, RanCases
<1>9. CASE Begin \/ Attach \/ Process \/ Loaded \/ CallBack \/ Complete \/ Notify
  BY <1>1, <1>9 DEF Begin, Attach, Process, Loaded, CallBack, Complete, Notify
<1>10. CASE Ask \/ Timer
  BY <1>1, <1>10 DEF Ask, Timer
<1> QED BY <1>6, <1>7, <1>8, <1>9, <1>10 DEF Next, Thread

LEMMA TimersType ==
  ASSUME Types, Next
  PROVE  TimerType'
<1>0. Grows /\ timers \subseteq ((DOMAIN groups') \X CallIds')
  BY StepGrows, Unmoved
<1>1. CASE timers' \subseteq timers
  BY <1>0, <1>1 DEF TimerType
<1>2. CASE Ran
  <2>1. CASE /\ groups' = Append(groups, RanGroup)
             /\ timers' = timers \cup ({Len(groups) + 1} \X OverOf(File))
    <3>1. StackOf(File) \subseteq CallIds /\ Len(groups) + 1 \in DOMAIN groups'
      BY <1>2, <2>1, RanGroups
    <3>2. OverOf(File) \subseteq CallIds'
      BY <1>0, <3>1 DEF OverOf, Grows
    <3> QED BY <1>0, <2>1, <3>1, <3>2 DEF TimerType
  <2> QED BY <1>1, <1>2, <2>1, RanCases
<1>3. CASE Begin \/ Handle \/ Attach \/ Process \/ Loaded \/ CallBack \/ Complete \/ Notify
  BY <1>1, <1>3 DEF Begin, Handle, Attach, Process, Loaded, CallBack, Complete, Notify
<1>4. CASE Ask \/ Timer \/ \E f \in Files : Answer(f) \/ Fail(f)
  BY <1>1, <1>4 DEF Ask, Timer, Answer, Fail
<1> QED BY <1>2, <1>3, <1>4 DEF Next, Thread

LEMMA PlainTypes ==
  ASSUME Types, Next
  PROVE  PlainType'
<1>0. PlainType
  BY DEF Types, PlainType
<1>1. CASE Process
  <2>1. /\ File \in Files /\ UNCHANGED <<cache, text, asked, failed>>
        /\ \/ UNCHANGED <<current, executed>>
           \/ current' = File /\ executed' = [executed EXCEPT ![File] = @ + 1]
    BY <1>1, ProcessPuts DEF Process
  <2> QED BY <1>0, <2>1 DEF PlainType
<1>2. CASE Ran
  <2>1. current' \in Files \cup {None}
    BY <1>2, RanCases, TopFacts, FrameFields
  <2> QED BY <1>0, <1>2, <2>1, RanCases DEF PlainType
<1>3. CASE Loaded
  <2>1. File \in Files
    BY <1>3, LoadedPuts
  <2> QED BY <1>0, <1>3, <2>1 DEF PlainType, Loaded
<1>4. CASE CallBack \/ Ask
  <2>1. MaxCalls \in Nat
    BY ListsAssumption
  <2>2. /\ UNCHANGED <<cache, text, current, executed, failed>>
        /\ asked' = asked \/ (asked < MaxCalls /\ asked' = asked + 1)
    BY <1>4 DEF CallBack, Ask
  <2>3. asked' \in 0 .. MaxCalls
    BY <1>0, <2>1, <2>2 DEF PlainType
  <2> QED BY <1>0, <2>2, <2>3 DEF PlainType
<1>5. ASSUME NEW f \in Files, Answer(f)
      PROVE  PlainType'
  BY <1>0, <1>5 DEF PlainType, Answer
<1>6. ASSUME NEW f \in Files, Fail(f)
      PROVE  PlainType'
  <2>1. /\ UNCHANGED <<cache, text, current, asked, executed>>
        /\ failed' = [failed EXCEPT ![f] = @ + 1]
    BY <1>6 DEF Fail
  <2> QED BY <1>0, <2>1 DEF PlainType
<1>7. CASE Begin \/ Handle \/ Attach \/ Complete \/ Notify \/ Timer
  BY <1>0, <1>7 DEF PlainType, Begin, Handle, Attach, Complete, Notify, Timer
<1> QED BY <1>1, <1>2, <1>3, <1>4, <1>5, <1>6, <1>7 DEF Next, Thread

LEMMA TypesPreserved == Types /\ [Next]_vars => Types'
<1>1. ASSUME Types, Next
      PROVE  Types'
  <2>1. /\ calls' \in Seq(Call)
        /\ GroupType' /\ StackType' /\ WaitType' /\ WorkType' /\ TimerType' /\ PlainType'
    BY <1>1, CallsType, GroupsType, StacksType, WaitersType, WorkTypes, TimersType, PlainTypes
  <2> QED BY Zenon, <2>1 DEF Types, GroupType, StackType, WaitType, WorkType, TimerType, PlainType
<1>2. ASSUME Types, UNCHANGED vars
      PROVE  Types'
  <2>1. Grows /\ calls' = calls /\ timers' = timers
    BY <1>2, Unchanging DEF vars
  <2>2. GroupType' /\ StackType' /\ WaitType' /\ WorkType' /\ TimerType'
    BY <1>2, <2>1, Unmoved DEF vars, TimerType
  <2>3. calls' \in Seq(Call) /\ PlainType'
    BY <1>2 DEF Types, vars, PlainType
  <2> QED BY Zenon, <2>2, <2>3 DEF Types, GroupType, StackType, WaitType, WorkType, TimerType, PlainType
<1> QED BY <1>1, <1>2

LEMMA InitTypes == Init => Types
<1> SUFFICES ASSUME Init PROVE Types
  OBVIOUS
<1>1. calls = <<>> /\ groups = <<>> /\ work = <<>> /\ timers = {} /\ cache = {} /\ text = {}
      /\ stacks = [f \in {} |-> {}] /\ current = None /\ asked = 0
      /\ waiters = [f \in Files |-> <<>>]
      /\ executed = [f \in Files |-> 0] /\ failed = [f \in Files |-> 0]
  BY DEF Init
<1>2. calls \in Seq(Call) /\ groups \in Seq(Group) /\ DOMAIN groups = {}
      /\ work \in Seq(Frame) /\ DOMAIN work = {}
  BY <1>1
<1>3. StackType
  BY <1>1 DEF StackType
<1>4. WaitType
  <2>1. <<>> \in Seq(CallIds \X Nat) /\ DOMAIN <<>> = {}
    BY NoFrame
  <2> QED BY <1>1, <2>1 DEF WaitType
<1>5. PlainType
  BY <1>1, ListsAssumption DEF PlainType
<1>6. GroupType /\ WorkType /\ TimerType
  BY <1>1, <1>2 DEF GroupType, WorkType, TimerType
<1> QED BY <1>2, <1>3, <1>4, <1>5, <1>6, TypeParts

(***************************************************************************)
(* Whatever is required, in whatever order contents come and are missing,  *)
(* every frame of the thread, every group, stack, waiter and timer is      *)
(* about a call of require() that was made and a file that it has.         *)
(***************************************************************************)
THEOREM AlwaysTyped == Spec => []Types
<1>1. Init => Types
  BY InitTypes
<1>2. Types /\ [Next]_vars => Types'
  BY TypesPreserved
<1> QED BY <1>1, <1>2, PTL DEF Spec

-----------------------------------------------------------------------------
(* What a file frame is about. *)
FileOf(w) == calls[w.call].files[w.index]

(* Contexts: the script that is current when a frame runs. *)

Unattached(c) ==
  /\ \A f \in DOMAIN stacks : c \notin stacks[f]
  /\ \A g \in DOMAIN groups : c \notin groups[g].on

Below(c, x) == calls[c].owner # None /\ (calls[c].owner \in Files => Depth[calls[c].owner] <= Depth[x])

(* What may run while the body of x does: requires of lower files, that     *)
(* nobody waits for yet.                                                    *)
Suits(w, x) ==
  x # None =>
    /\ w.do # "notify"
    /\ FileFrame(w) => Depth[FileOf(w)] < Depth[x]
    /\ w.do = "require" =>
         /\ \A f \in ToSet(w.list) : Depth[f] < Depth[x]
         /\ w.owner # None /\ (w.owner \in Files => Depth[w.owner] <= Depth[x])
    /\ w.do # "require" => Unattached(w.call) /\ Below(w.call, x)

Turn(w, before, after) ==
  IF w.do = "ran" THEN before = FileOf(w) /\ after = w.previous ELSE after = before

(* The body of f has required what it requires. *)
Requested(f, w, x) ==
  /\ x = f
  /\ \/ w.do = "require" /\ w.list = Deps[f]
     \/ w.do = "attach" /\ calls[w.call].files = Deps[f]

Required(f) == \E c \in stacks[f] : calls[c].files = Deps[f]

Contexts(ctx) ==
  /\ ctx \in [1 .. Len(work) + 1 -> Files \cup {None}]
  /\ ctx[1] = current
  /\ ctx[Len(work) + 1] = None
  /\ \A k \in DOMAIN work : Turn(work[k], ctx[k], ctx[k + 1]) /\ Suits(work[k], ctx[k + 1])
  /\ \A j, k \in DOMAIN ctx : j <= k /\ ctx[k] # None => ctx[j] # None /\ Depth[ctx[j]] <= Depth[ctx[k]]
  /\ \A k \in DOMAIN ctx : ctx[k] # None => ctx[k] \in DOMAIN stacks
  /\ \A k \in DOMAIN work : work[k].do = "ran" /\ Deps[ctx[k]] # <<>> =>
       Required(ctx[k]) \/ \E j \in 1 .. k - 1 : Requested(ctx[k], work[j], ctx[j])

(* A call is attached when nothing more is to be done for it at once. *)
AttachedLast ==
  \A j, k \in DOMAIN work :
    j < k /\ work[j].do = "attach" /\ work[k].do # "require" => work[k].call # work[j].call

(* What suits a context goes on doing so unless the call is attached.       *)
LEMMA SuitsStays ==
  ASSUME Types, Grows, NEW w \in Frame, NEW x, Suits(w, x),
         FileFrame(w) => IsSlot(w.call, w.index),
         x # None /\ w.do # "require" => Unattached(w.call)'
  PROVE  Suits(w, x)'
<1>1. FileFrame(w) => FileOf(w)' = FileOf(w)
  BY DEF FileOf, IsSlot, Grows
<1>2. w.do # "require" => Below(w.call, x)' = Below(w.call, x)
  <2>1. w.do # "require" => w.call \in CallIds
    BY FrameFields
  <2> QED BY <2>1 DEF Below, Grows
<1> QED BY <1>1, <1>2 DEF Suits, FileFrame

LEMMA TurnStays ==
  ASSUME Grows, NEW w, NEW x, NEW y, FileFrame(w) => IsSlot(w.call, w.index), Turn(w, x, y)
  PROVE  Turn(w, x, y)'
<1>1. FileFrame(w) => FileOf(w)' = FileOf(w)
  BY DEF FileOf, IsSlot, Grows
<1> QED BY <1>1 DEF Turn, FileFrame

LEMMA RequestedStays ==
  ASSUME Types, Grows, NEW w \in Frame, NEW f, NEW x, Requested(f, w, x)
  PROVE  Requested(f, w, x)'
<1>1. w.do # "require" => w.call \in CallIds
  BY FrameFields
<1> QED BY <1>1 DEF Requested, Grows

(* When the first frame gives way to others, whose contexts lead to the one *)
(* it led to.                                                               *)
LEMMA ContextStep ==
  ASSUME Types, Grows, NEW ctx, Contexts(ctx), NEW old, old = work, NEW new, Puts(new),
         NEW n, n = Len(new), NEW cnew \in [1 .. n + 1 -> Files \cup {None}],
         cnew[1] = current', cnew[n + 1] = ctx[2],
         \A k \in 1 .. n : Turn(new[k], cnew[k], cnew[k + 1])',
         \A k \in 1 .. n : Suits(new[k], cnew[k + 1])',
         \A k \in 2 .. Len(old) : Suits(old[k], ctx[k + 1])',
         \A j, k \in 1 .. n + 1 : j <= k /\ cnew[k] # None =>
            cnew[j] # None /\ Depth[cnew[j]] <= Depth[cnew[k]],
         \A k \in 1 .. n + 1 : cnew[k] # None => cnew[k] \in DOMAIN stacks',
         \A k \in 2 .. Len(old) + 1 : ctx[k] # None => ctx[k] \in DOMAIN stacks',
         \A k \in 1 .. n : new[k].do = "ran" /\ Deps[cnew[k]] # <<>> =>
            Required(cnew[k])' \/ \E j \in 1 .. k - 1 : Requested(cnew[k], new[j], cnew[j])',
         \A k \in 2 .. Len(old) : old[k].do = "ran" /\ Deps[ctx[k]] # <<>> =>
            \/ Required(ctx[k])'
            \/ \E j \in 1 .. n : Requested(ctx[k], new[j], cnew[j])'
            \/ \E j \in 2 .. k - 1 : Requested(ctx[k], old[j], ctx[j])
  PROVE  \E c : Contexts(c)'
<1>1. /\ n \in Nat /\ Len(old) \in Nat \ {0} /\ DOMAIN old = 1 .. Len(old)
      /\ work # <<>> /\ \A k \in 1 .. Len(old) : old[k] \in Frame /\ (FileFrame(old[k]) => IsSlot(old[k].call, old[k].index))
  <2>1. old \in Seq(Frame) /\ new \in Seq(Frame') /\ work # <<>>
    BY DEF Puts, Types
  <2>2. n \in Nat /\ Len(old) \in Nat \ {0} /\ DOMAIN old = 1 .. Len(old)
    BY <2>1, LenProperties, EmptySeq
  <2>3. \A k \in 1 .. Len(old) : old[k] \in Frame
    BY <2>1, ElementOfSeq
  <2>4. \A k \in 1 .. Len(old) : FileFrame(old[k]) => IsSlot(old[k].call, old[k].index)
    BY <2>2 DEF Types, FileFrame
  <2> QED BY <2>1, <2>2, <2>3, <2>4
<1>2. /\ ctx \in [1 .. Len(old) + 1 -> Files \cup {None}] /\ ctx[Len(old) + 1] = None
      /\ \A k \in 1 .. Len(old) : Turn(old[k], ctx[k], ctx[k + 1])
      /\ \A j, k \in 1 .. Len(old) + 1 : j <= k /\ ctx[k] # None =>
            ctx[j] # None /\ Depth[ctx[j]] <= Depth[ctx[k]]
  <2>1. ctx \in [1 .. Len(old) + 1 -> Files \cup {None}] /\ ctx[Len(old) + 1] = None
    BY DEF Contexts
  <2>2. DOMAIN ctx = 1 .. Len(old) + 1
    BY <2>1
  <2>3. \A k \in 1 .. Len(old) : Turn(old[k], ctx[k], ctx[k + 1])
    BY <1>1 DEF Contexts
  <2>4. \A j, k \in 1 .. Len(old) + 1 : j <= k /\ ctx[k] # None =>
            ctx[j] # None /\ Depth[ctx[j]] <= Depth[ctx[k]]
    BY <2>2 DEF Contexts
  <2> QED BY <2>1, <2>3, <2>4
<1>3. PICK w : w = work'
  OBVIOUS
<1>4. /\ w \in Seq(Frame')
      /\ Len(w) = n + Len(old) - 1
      /\ \A k \in 1 .. n : w[k] = new[k]
      /\ \A k \in n + 1 .. Len(w) : k - n + 1 \in 2 .. Len(old) /\ w[k] = old[k - n + 1]
  <2>1. work \in Seq(Frame')
    BY FrameGrows, SeqMonotonic DEF Types
  <2> QED BY <1>1, <1>3, <2>1, ProceedWork DEF Puts
<1>5. DOMAIN w = 1 .. n + Len(old) - 1
  BY <1>4, LenProperties
<1> DEFINE N == n + Len(old) - 1
           at(k) == k - n + 1
<1>6. N \in Nat /\ N >= n
  BY <1>1
<1>7. PICK c : c = [k \in 1 .. N + 1 |-> IF k <= n THEN cnew[k] ELSE ctx[at(k)]]
  OBVIOUS
<1>8. \A k \in 1 .. N + 1 : /\ k <= n + 1 => k \in 1 .. n + 1 /\ c[k] = cnew[k]
                            /\ k > n => at(k) \in 2 .. Len(old) + 1 /\ c[k] = ctx[at(k)]
                            /\ at(k + 1) = at(k) + 1
  BY <1>1, <1>7
<1>9. \A k \in 1 .. N : k <= n => k \in 1 .. n /\ w[k] = new[k] /\ c[k] = cnew[k] /\ c[k + 1] = cnew[k + 1]
  <2> SUFFICES ASSUME NEW k \in 1 .. N, k <= n
               PROVE  k \in 1 .. n /\ w[k] = new[k] /\ c[k] = cnew[k] /\ c[k + 1] = cnew[k + 1]
    OBVIOUS
  <2>1. k \in 1 .. n /\ k \in 1 .. N + 1 /\ k + 1 \in 1 .. N + 1 /\ k <= n + 1 /\ k + 1 <= n + 1
    BY <1>1, <1>6
  <2> QED BY <1>4, <1>8, <2>1
<1>10. \A k \in 1 .. N : k > n =>
         /\ at(k) \in 2 .. Len(old) /\ w[k] = old[at(k)]
         /\ c[k] = ctx[at(k)] /\ c[k + 1] = ctx[at(k) + 1]
  <2> SUFFICES ASSUME NEW k \in 1 .. N, k > n
               PROVE  /\ at(k) \in 2 .. Len(old) /\ w[k] = old[at(k)]
                      /\ c[k] = ctx[at(k)] /\ c[k + 1] = ctx[at(k) + 1]
    OBVIOUS
  <2>1. k \in n + 1 .. Len(w) /\ k \in 1 .. N + 1 /\ k + 1 \in 1 .. N + 1 /\ k + 1 > n
    BY <1>1, <1>4, <1>6
  <2> QED BY <1>4, <1>8, <2>1
<1>11. \A k \in 1 .. N : k > n => c[k + 1] = ctx[at(k) + 1]
  BY <1>10
<1> HIDE DEF N, at
<1>12. c \in [1 .. N + 1 -> Files \cup {None}]
  <2>1. \A k \in 1 .. N + 1 : c[k] \in Files \cup {None}
    <3> SUFFICES ASSUME NEW k \in 1 .. N + 1 PROVE c[k] \in Files \cup {None}
      OBVIOUS
    <3>1. k <= n + 1 \/ k > n
      BY <1>1, <1>6
    <3>2. \A j \in 2 .. Len(old) + 1 : ctx[j] \in Files \cup {None}
      <4>1. \A j \in 2 .. Len(old) + 1 : j \in 1 .. Len(old) + 1
        OBVIOUS
      <4> QED BY <1>2, <4>1
    <3> QED BY <1>8, <3>1, <3>2
  <2> QED BY <1>7, <2>1
<1>13. c[1] = current'
  <2>1. 1 \in 1 .. N + 1 /\ 1 <= n + 1
    BY <1>1, <1>6
  <2> QED BY <1>8, <2>1
<1>14. c[N + 1] = None
  <2>1. N + 1 \in 1 .. N + 1 /\ N + 1 > n
    BY <1>1, <1>6
  <2>2. at(N + 1) = Len(old) + 1
    BY <1>1 DEF N, at
  <2> QED BY <1>2, <1>8, <2>1, <2>2
<1>15. ASSUME NEW k \in 1 .. N
       PROVE  Turn(w[k], c[k], c[k + 1])' /\ Suits(w[k], c[k + 1])'
  <2>1. CASE k <= n
    BY <1>9, <2>1
  <2>2. CASE k > n
    <3>1. PICK j : j = at(k)
      OBVIOUS
    <3>2. /\ j \in 2 .. Len(old) /\ j \in 1 .. Len(old) /\ w[k] = old[j]
          /\ c[k] = ctx[j] /\ c[k + 1] = ctx[j + 1]
      BY <1>10, <2>2, <3>1
    <3>3. PICK v : v = old[j]
      OBVIOUS
    <3>4. Turn(v, ctx[j], ctx[j + 1]) /\ (FileFrame(v) => IsSlot(v.call, v.index))
      BY <1>1, <1>2, <3>2, <3>3
    <3>5. Turn(v, ctx[j], ctx[j + 1])'
      BY <3>4, TurnStays
    <3>6. Suits(v, ctx[j + 1])'
      BY <3>2, <3>3
    <3> QED BY <3>2, <3>3, <3>5, <3>6
  <2> QED BY <1>1, <1>6, <2>1, <2>2
<1>16. ASSUME NEW j \in 1 .. N + 1, NEW k \in 1 .. N + 1, j <= k, c[k] # None
       PROVE  c[j] # None /\ Depth[c[j]] <= Depth[c[k]]
  <2>1. CASE k <= n + 1
    <3>1. j <= n + 1
      BY <1>1, <1>6, <1>16, <2>1
    <3> QED BY <1>8, <1>16, <2>1, <3>1
  <2>2. CASE j > n
    <3>1. k > n
      BY <1>1, <1>6, <1>16, <2>2
    <3>2. at(j) \in 1 .. Len(old) + 1 /\ at(k) \in 1 .. Len(old) + 1 /\ at(j) <= at(k)
      <4>1. at(j) \in 2 .. Len(old) + 1 /\ at(k) \in 2 .. Len(old) + 1
        BY <1>8, <2>2, <3>1
      <4>2. at(j) <= at(k)
        BY <1>1, <1>6, <1>16 DEF at
      <4> QED BY <4>1, <4>2
    <3> QED BY <1>2, <1>8, <1>16, <2>2, <3>1, <3>2
  <2>3. CASE j <= n /\ k > n + 1
    <3>1. n + 1 \in 1 .. N + 1 /\ n + 1 <= n + 1 /\ k > n /\ j <= n + 1 /\ n + 1 > n
      BY <1>1, <1>6, <2>3
    <3>2. c[n + 1] = cnew[n + 1] /\ c[j] = cnew[j] /\ c[k] = ctx[at(k)] /\ j \in 1 .. n + 1
          /\ n + 1 \in 1 .. n + 1
      BY <1>8, <3>1
    <3>3. at(k) \in 2 .. Len(old) + 1
      BY <1>8, <3>1
    <3>4. ctx[2] # None /\ Depth[ctx[2]] <= Depth[ctx[at(k)]]
      <4>1. at(k) \in 1 .. Len(old) + 1 /\ 2 \in 1 .. Len(old) + 1 /\ 2 <= at(k)
        BY <3>3
      <4> QED BY <1>2, <1>16, <3>2, <4>1
    <3>5. cnew[j] # None /\ Depth[cnew[j]] <= Depth[ctx[2]]
      BY <3>1, <3>2, <3>4
    <3>6. Depth[cnew[j]] \in Nat /\ Depth[ctx[2]] \in Nat /\ Depth[ctx[at(k)]] \in Nat
      <4>1. cnew[j] \in Files /\ ctx[2] \in Files /\ ctx[at(k)] \in Files
        <5>1. at(k) \in 1 .. Len(old) + 1 /\ 2 \in 1 .. Len(old) + 1
          BY <3>3
        <5> QED BY <1>2, <1>16, <3>2, <3>4, <3>5, <5>1
      <4> QED BY <4>1, DepsAssumption
    <3> QED BY <3>2, <3>4, <3>5, <3>6
  <2> QED BY <1>1, <1>6, <2>1, <2>2, <2>3
<1>17. ASSUME NEW k \in 1 .. N + 1, c[k] # None
       PROVE  c[k] \in DOMAIN stacks'
  <2>1. CASE k <= n + 1
    BY <1>8, <1>17, <2>1
  <2>2. CASE k > n
    BY <1>8, <1>17, <2>2
  <2> QED BY <1>1, <1>6, <2>1, <2>2
<1>18. ASSUME NEW k \in 1 .. N, w[k].do = "ran", Deps[c[k]] # <<>>
       PROVE  Required(c[k])' \/ \E j \in 1 .. k - 1 : Requested(c[k], w[j], c[j])'
  <2>1. CASE k <= n
    <3>1. w[k] = new[k] /\ c[k] = cnew[k] /\ k \in 1 .. n
      BY <1>9, <2>1
    <3>2. \A j \in 1 .. k - 1 : w[j] = new[j] /\ c[j] = cnew[j]
      <4>1. \A j \in 1 .. k - 1 : j \in 1 .. N /\ j <= n
        BY <1>1, <1>6, <2>1
      <4> QED BY <1>9, <4>1
    <3>3. ASSUME NEW j \in 1 .. k - 1, Requested(cnew[k], new[j], cnew[j])'
          PROVE  Requested(c[k], w[j], c[j])'
      BY <3>1, <3>2, <3>3
    <3>4. Required(cnew[k])' \/ \E j \in 1 .. k - 1 : Requested(cnew[k], new[j], cnew[j])'
      BY <1>18, <3>1
    <3>5. Required(cnew[k])' => Required(c[k])'
      BY <3>1
    <3> QED BY <3>3, <3>4, <3>5
  <2>2. CASE k > n
    <3>1. PICK i : i = at(k)
      OBVIOUS
    <3>2. i \in 2 .. Len(old) /\ w[k] = old[i] /\ c[k] = ctx[i]
      BY <1>10, <2>2, <3>1
    <3>3. \/ Required(ctx[i])'
          \/ \E j \in 1 .. n : Requested(ctx[i], new[j], cnew[j])'
          \/ \E j \in 2 .. i - 1 : Requested(ctx[i], old[j], ctx[j])
      BY <1>18, <3>2
    <3>4. CASE Required(ctx[i])'
      BY <3>2, <3>4
    <3>5. ASSUME NEW j \in 1 .. n, Requested(ctx[i], new[j], cnew[j])'
          PROVE  j \in 1 .. k - 1 /\ Requested(c[k], w[j], c[j])'
      <4>1. j \in 1 .. k - 1 /\ j \in 1 .. N /\ j <= n
        BY <1>1, <1>6, <2>2
      <4>2. w[j] = new[j] /\ c[j] = cnew[j]
        BY <1>9, <4>1
      <4> QED BY <3>2, <3>5, <4>1, <4>2
    <3>6. ASSUME NEW j \in 2 .. i - 1, Requested(ctx[i], old[j], ctx[j])
          PROVE  \E l \in 1 .. k - 1 : Requested(c[k], w[l], c[l])'
      <4>1. PICK l : l = j + n - 1
        OBVIOUS
      <4>2. l \in 1 .. k - 1 /\ l \in 1 .. N /\ l > n /\ at(l) = j
        BY <1>1, <1>6, <3>1, <3>2, <4>1 DEF at
      <4>3. w[l] = old[j] /\ c[l] = ctx[j]
        BY <1>10, <4>2
      <4>4. PICK v : v = old[j]
        OBVIOUS
      <4>5. v \in Frame
        <5>1. j \in 1 .. Len(old)
          BY <1>1, <3>2
        <5> QED BY <1>1, <4>4, <5>1
      <4>6. Requested(ctx[i], v, ctx[j])'
        BY <3>6, <4>4, <4>5, RequestedStays
      <4>7. w[l] = v
        BY <4>3, <4>4
      <4> QED BY <3>2, <4>2, <4>3, <4>6, <4>7
    <3> QED BY <3>3, <3>4, <3>5, <3>6
  <2> QED BY <1>1, <1>6, <2>1, <2>2
<1>19. DOMAIN c = 1 .. N + 1 /\ DOMAIN w = 1 .. N /\ Len(w) = N
  BY <1>4, <1>5, <1>12 DEF N
<1>20. /\ c \in [1 .. Len(w) + 1 -> Files \cup {None}] /\ c[1] = current' /\ c[Len(w) + 1] = None
       /\ \A j, k \in DOMAIN c : j <= k /\ c[k] # None => c[j] # None /\ Depth[c[j]] <= Depth[c[k]]
       /\ \A k \in DOMAIN c : c[k] # None => c[k] \in DOMAIN stacks'
  BY <1>12, <1>13, <1>14, <1>16, <1>17, <1>19
<1>21. \A k \in DOMAIN work' :
         (Turn(work[k], c[k], c[k + 1]) /\ Suits(work[k], c[k + 1]))'
  BY <1>3, <1>15, <1>19 DEF Turn, Suits, FileFrame, FileOf, Unattached, Below
<1>22. \A k \in DOMAIN work' : work'[k].do = "ran" /\ Deps[c[k]] # <<>> =>
         (Required(c[k]) \/ \E j \in 1 .. k - 1 : Requested(c[k], work[j], c[j]))'
  <2> SUFFICES ASSUME NEW k \in DOMAIN work', work'[k].do = "ran", Deps[c[k]] # <<>>
               PROVE  (Required(c[k]) \/ \E j \in 1 .. k - 1 : Requested(c[k], work[j], c[j]))'
    OBVIOUS
  <2>1. Required(c[k])' \/ \E j \in 1 .. k - 1 : Requested(c[k], w[j], c[j])'
    BY <1>3, <1>18, <1>19
  <2> QED BY <1>3, <2>1 DEF Requested
<1> QED BY <1>3, <1>20, <1>21, <1>22 DEF Contexts

(* The contexts of the thread's frames, without the function's domain.      *)
LEMMA ContextFacts ==
  ASSUME Types, NEW ctx, Contexts(ctx), NEW old, old = work, work # <<>>
  PROVE  /\ Len(old) \in Nat \ {0} /\ DOMAIN old = 1 .. Len(old) /\ Top = old[1]
         /\ \A k \in 1 .. Len(old) : /\ old[k] \in Frame
                                     /\ FileFrame(old[k]) => IsSlot(old[k].call, old[k].index)
                                     /\ Turn(old[k], ctx[k], ctx[k + 1]) /\ Suits(old[k], ctx[k + 1])
         /\ \A k \in 1 .. Len(old) + 1 : ctx[k] \in Files \cup {None}
         /\ \A k \in 1 .. Len(old) + 1 : ctx[k] # None => ctx[k] \in DOMAIN stacks
         /\ \A k \in 2 .. Len(old) + 1 : ctx[k] # None =>
              ctx[2] # None /\ Depth[ctx[2]] <= Depth[ctx[k]] /\ ctx[k] \in Files
         /\ ctx[1] = current
         /\ Top.do # "ran" => ctx[2] = current
         /\ Top.do = "ran" => ctx[2] = Top.previous /\ ctx[1] = FileOf(Top)
         /\ Turn(Top, ctx[1], ctx[2]) /\ Suits(Top, ctx[2])
         /\ \A k \in 2 .. Len(old) : old[k].do = "ran" => ctx[k] = FileOf(old[k]) /\ ctx[k] \in Files
         /\ \A k \in 2 .. Len(old) : old[k].do = "ran" /\ Deps[ctx[k]] # <<>> =>
              Required(ctx[k]) \/ \E j \in 1 .. k - 1 : Requested(ctx[k], old[j], ctx[j])
<1>1. Len(old) \in Nat \ {0} /\ DOMAIN old = 1 .. Len(old) /\ Top = old[1]
  BY TopFacts
<1>2. \A k \in 1 .. Len(old) : old[k] \in Frame /\ (FileFrame(old[k]) => IsSlot(old[k].call, old[k].index))
  <2>1. \A k \in 1 .. Len(old) : old[k] \in Frame
    BY ElementOfSeq DEF Types
  <2>2. \A k \in 1 .. Len(old) : FileFrame(old[k]) => IsSlot(old[k].call, old[k].index)
    BY <1>1 DEF Types, FileFrame
  <2> QED BY <2>1, <2>2
<1>3. \A k \in 1 .. Len(old) : Turn(old[k], ctx[k], ctx[k + 1]) /\ Suits(old[k], ctx[k + 1])
  BY <1>1 DEF Contexts
<1>4. DOMAIN ctx = 1 .. Len(old) + 1 /\ \A k \in 1 .. Len(old) + 1 : ctx[k] \in Files \cup {None}
  BY DEF Contexts
<1>5. \A k \in 1 .. Len(old) + 1 : ctx[k] # None => ctx[k] \in DOMAIN stacks
  BY <1>4 DEF Contexts
<1>6. \A k \in 2 .. Len(old) + 1 : ctx[k] # None =>
              ctx[2] # None /\ Depth[ctx[2]] <= Depth[ctx[k]] /\ ctx[k] \in Files
  <2> SUFFICES ASSUME NEW k \in 2 .. Len(old) + 1, ctx[k] # None
               PROVE  ctx[2] # None /\ Depth[ctx[2]] <= Depth[ctx[k]] /\ ctx[k] \in Files
    OBVIOUS
  <2>1. 2 \in DOMAIN ctx /\ k \in DOMAIN ctx /\ 2 <= k /\ k \in 1 .. Len(old) + 1
    BY <1>1, <1>4
  <2>2. ctx[2] # None /\ Depth[ctx[2]] <= Depth[ctx[k]]
    BY <2>1 DEF Contexts
  <2> QED BY <1>4, <2>1, <2>2
<1>7. ctx[1] = current
  BY DEF Contexts
<1>8. Turn(Top, ctx[1], ctx[2]) /\ Suits(Top, ctx[2])
  <2>1. 1 \in 1 .. Len(old) /\ 1 + 1 = 2
    BY <1>1
  <2> QED BY <1>1, <1>3, <2>1
<1>9. /\ Top.do # "ran" => ctx[2] = current
      /\ Top.do = "ran" => ctx[2] = Top.previous /\ ctx[1] = FileOf(Top)
  BY <1>7, <1>8 DEF Turn
<1>10. \A k \in 2 .. Len(old) : old[k].do = "ran" => ctx[k] = FileOf(old[k]) /\ ctx[k] \in Files
  <2> SUFFICES ASSUME NEW k \in 2 .. Len(old), old[k].do = "ran"
               PROVE  ctx[k] = FileOf(old[k]) /\ ctx[k] \in Files
    OBVIOUS
  <2>1. k \in 1 .. Len(old)
    BY <1>1
  <2>2. ctx[k] = FileOf(old[k])
    BY <1>3, <2>1 DEF Turn
  <2>3. IsSlot(old[k].call, old[k].index)
    BY <1>2, <2>1 DEF FileFrame
  <2>4. FileOf(old[k]) \in Files
    <3>1. old[k].call \in CallIds /\ old[k].index \in DOMAIN calls[old[k].call].files
      BY <2>3 DEF IsSlot
    <3>2. calls[old[k].call].files \in Seq(Files)
      BY <3>1, CallFields
    <3> QED BY <3>1, <3>2, ElementOfSeq, LenProperties DEF FileOf
  <2> QED BY <2>2, <2>4
<1>11. \A k \in 2 .. Len(old) : old[k].do = "ran" /\ Deps[ctx[k]] # <<>> =>
              Required(ctx[k]) \/ \E j \in 1 .. k - 1 : Requested(ctx[k], old[j], ctx[j])
  <2>1. \A k \in 2 .. Len(old) : k \in DOMAIN work
    BY <1>1
  <2>2. \A k \in DOMAIN work : work[k].do = "ran" /\ Deps[ctx[k]] # <<>> =>
         Required(ctx[k]) \/ \E j \in 1 .. k - 1 : Requested(ctx[k], work[j], ctx[j])
    BY DEF Contexts
  <2> QED BY <2>1, <2>2
<1> QED BY <1>1, <1>2, <1>3, <1>4, <1>5, <1>6, <1>7, <1>8, <1>9, <1>10, <1>11

(* A step that leaves the current script alone.                             *)
LEMMA FlatStep ==
  ASSUME Types, Grows, NEW ctx, Contexts(ctx), NEW old, old = work, NEW new, Puts(new),
         NEW x, x = current, current' = current, Top.do # "ran",
         \A k \in 1 .. Len(new) : new[k].do # "ran" /\ Suits(new[k], x)',
         \A k \in 2 .. Len(old) :
            ctx[k + 1] # None /\ old[k].do # "require" => Unattached(old[k].call)',
         \A k \in 1 .. Len(old) + 1 : ctx[k] # None => ctx[k] \in DOMAIN stacks',
         \A k \in 2 .. Len(old) : old[k].do = "ran" /\ Required(ctx[k]) => Required(ctx[k])',
         \A k \in 2 .. Len(old) : old[k].do = "ran" /\ Requested(ctx[k], old[1], x) =>
            Required(ctx[k])' \/ \E j \in 1 .. Len(new) : Requested(ctx[k], new[j], x)'
  PROVE  \E c : Contexts(c)'
<1> DEFINE n == Len(new)
<1>0. work # <<>> /\ n \in Nat
  BY LenProperties DEF Puts
<1>1. /\ Len(old) \in Nat \ {0} /\ ctx[1] = x /\ ctx[2] = x /\ x \in Files \cup {None}
      /\ \A k \in 1 .. Len(old) : /\ old[k] \in Frame
                                  /\ FileFrame(old[k]) => IsSlot(old[k].call, old[k].index)
                                  /\ Suits(old[k], ctx[k + 1])
      /\ \A k \in 2 .. Len(old) : old[k].do = "ran" /\ Deps[ctx[k]] # <<>> =>
            Required(ctx[k]) \/ \E j \in 1 .. k - 1 : Requested(ctx[k], old[j], ctx[j])
  BY <1>0, ContextFacts DEF Types
<1>2. PICK cnew : cnew = [k \in 1 .. n + 1 |-> x]
  OBVIOUS
<1>3. cnew \in [1 .. n + 1 -> Files \cup {None}] /\ \A k \in 1 .. n + 1 : cnew[k] = x
  BY <1>1, <1>2
<1>4. cnew[1] = current' /\ cnew[n + 1] = ctx[2]
  <2>1. 1 \in 1 .. n + 1 /\ n + 1 \in 1 .. n + 1
    BY <1>0
  <2> QED BY <1>1, <1>3, <2>1
<1>5. \A k \in 1 .. n : cnew[k] = x /\ cnew[k + 1] = x
  <2>1. \A k \in 1 .. n : k \in 1 .. n + 1 /\ k + 1 \in 1 .. n + 1
    BY <1>0
  <2> QED BY <1>3, <2>1
<1>6. \A k \in 1 .. n : Turn(new[k], cnew[k], cnew[k + 1])'
  BY <1>5 DEF Turn
<1>7. \A k \in 1 .. n : Suits(new[k], cnew[k + 1])'
  BY <1>5
<1>8. \A k \in 2 .. Len(old) : Suits(old[k], ctx[k + 1])'
  <2> SUFFICES ASSUME NEW k \in 2 .. Len(old)
               PROVE  Suits(old[k], ctx[k + 1])'
    OBVIOUS
  <2>1. k \in 1 .. Len(old)
    BY <1>1
  <2>2. PICK w : w = old[k]
    OBVIOUS
  <2>3. Suits(w, ctx[k + 1])'
    BY <1>1, <2>1, <2>2, SuitsStays
  <2> QED BY <2>2, <2>3
<1>9. \A j, k \in 1 .. n + 1 : j <= k /\ cnew[k] # None =>
         cnew[j] # None /\ Depth[cnew[j]] <= Depth[cnew[k]]
  <2>1. x # None => Depth[x] \in Nat
    BY <1>1, DepsAssumption
  <2>2. x # None => Depth[x] <= Depth[x]
    BY <2>1
  <2> QED BY <1>3, <2>2
<1>10. \A k \in 1 .. n + 1 : cnew[k] # None => cnew[k] \in DOMAIN stacks'
  <2>1. 1 \in 1 .. Len(old) + 1
    BY <1>1
  <2> QED BY <1>1, <1>3, <2>1
<1>11. \A k \in 2 .. Len(old) + 1 : ctx[k] # None => ctx[k] \in DOMAIN stacks'
  <2>1. \A k \in 2 .. Len(old) + 1 : k \in 1 .. Len(old) + 1
    BY <1>1
  <2> QED BY <2>1
<1>12. \A k \in 1 .. n : new[k].do = "ran" /\ Deps[cnew[k]] # <<>> =>
         Required(cnew[k])' \/ \E j \in 1 .. k - 1 : Requested(cnew[k], new[j], cnew[j])'
  OBVIOUS
<1>13. \A k \in 2 .. Len(old) : old[k].do = "ran" /\ Deps[ctx[k]] # <<>> =>
            \/ Required(ctx[k])'
            \/ \E j \in 1 .. n : Requested(ctx[k], new[j], cnew[j])'
            \/ \E j \in 2 .. k - 1 : Requested(ctx[k], old[j], ctx[j])
  <2> SUFFICES ASSUME NEW k \in 2 .. Len(old), old[k].do = "ran", Deps[ctx[k]] # <<>>
               PROVE  \/ Required(ctx[k])'
                      \/ \E j \in 1 .. n : Requested(ctx[k], new[j], cnew[j])'
                      \/ \E j \in 2 .. k - 1 : Requested(ctx[k], old[j], ctx[j])
    OBVIOUS
  <2>1. CASE Required(ctx[k])
    BY <2>1
  <2>2. ASSUME NEW j \in 1 .. k - 1, Requested(ctx[k], old[j], ctx[j]), j # 1
        PROVE  j \in 2 .. k - 1
    BY <1>1, <2>2
  <2>3. CASE Requested(ctx[k], old[1], ctx[1])
    <3>1. Requested(ctx[k], old[1], x)
      BY <1>1, <2>3
    <3>2. Required(ctx[k])' \/ \E j \in 1 .. n : Requested(ctx[k], new[j], x)'
      BY <3>1
    <3>3. ASSUME NEW j \in 1 .. n, Requested(ctx[k], new[j], x)'
          PROVE  Requested(ctx[k], new[j], cnew[j])'
      BY <1>5, <3>3
    <3> QED BY <3>2, <3>3
  <2> QED BY <1>1, <2>1, <2>2, <2>3
<1>14. PICK m : m = n
  OBVIOUS
<1> HIDE DEF n
<1>15. n = Len(new)
  BY DEF n
<1> QED BY <1>3, <1>4, <1>6, <1>7, <1>8, <1>9, <1>10, <1>11, <1>12, <1>13, <1>15, ContextStep

(* When no call is attached and no script loses its stack.                  *)
LEMMA SameStacks ==
  ASSUME Types, Grows, NEW ctx, Contexts(ctx), NEW old, old = work, NEW new, Puts(new),
         NEW x, x = current, current' = current, Top.do \notin {"ran", "require", "attach"},
         \A k \in 1 .. Len(new) : new[k].do # "ran" /\ Suits(new[k], x)',
         stacks' = stacks, DOMAIN groups' = DOMAIN groups
  PROVE  \E c : Contexts(c)'
<1>1. \A c : Unattached(c) => Unattached(c)'
  BY DEF Unattached, Grows
<1>2. \A f : f \in DOMAIN stacks => (Required(f) => Required(f)')
  BY DEF Required, Grows, Types
<1>3. work # <<>>
  BY DEF Puts
<1>4. /\ Len(old) \in Nat \ {0} /\ Top = old[1]
      /\ \A k \in 1 .. Len(old) : Suits(old[k], ctx[k + 1])
      /\ \A k \in 1 .. Len(old) + 1 : ctx[k] # None => ctx[k] \in DOMAIN stacks
      /\ \A k \in 2 .. Len(old) : old[k].do = "ran" => ctx[k] \in Files
  BY <1>3, ContextFacts
<1>5. \A k \in 2 .. Len(old) : old[k].do = "ran" => ctx[k] \in DOMAIN stacks
  <2>1. \A k \in 2 .. Len(old) : k \in 1 .. Len(old) + 1
    BY <1>4
  <2>2. None \notin Files
    BY ListsAssumption
  <2> QED BY <1>4, <2>1, <2>2
<1>6. \A k \in 2 .. Len(old) :
            ctx[k + 1] # None /\ old[k].do # "require" => Unattached(old[k].call)'
  <2>1. \A k \in 2 .. Len(old) : k \in 1 .. Len(old)
    BY <1>4
  <2>2. \A k \in 2 .. Len(old) :
            ctx[k + 1] # None /\ old[k].do # "require" => Unattached(old[k].call)
    BY <1>4, <2>1 DEF Suits
  <2> SUFFICES ASSUME NEW k \in 2 .. Len(old), ctx[k + 1] # None, old[k].do # "require"
               PROVE  Unattached(old[k].call)'
    OBVIOUS
  <2>3. PICK c : c = old[k].call
    OBVIOUS
  <2>4. Unattached(c)'
    BY <1>1, <2>2, <2>3
  <2> QED BY <2>3, <2>4
<1>7. \A k \in 2 .. Len(old) : ~Requested(ctx[k], old[1], x)
  BY <1>4 DEF Requested
<1> QED BY <1>2, <1>4, <1>5, <1>6, <1>7, FlatStep

(* Another frame about the same file suits where the first one did.         *)
LEMMA SameFileSuits ==
  ASSUME Types, Grows, work # <<>>, NEW v, v = Top, FileFrame(v), NEW x, Suits(v, x),
         x # None => Unattached(v.call)',
         NEW w, w.do \in {"process", "ran", "loaded"}, w.call = v.call, w.index = v.index
  PROVE  Suits(w, x)'
<1>2. v \in Frame /\ IsSlot(v.call, v.index) /\ FileFrame(v) /\ v.do # "require"
  BY TopFacts DEF FileFrame
<1>3. Suits(v, x)'
  BY <1>2, SuitsStays
<1>4. FileOf(v)' = FileOf(w)'
  BY DEF FileOf
<1> QED BY <1>2, <1>3, <1>4 DEF Suits, FileFrame

LEMMA SameStacksAtMostOne ==
  ASSUME Types, Grows, NEW ctx, Contexts(ctx),
         NEW x, x = current, current' = current, Top.do \notin {"ran", "require", "attach"},
         stacks' = stacks, DOMAIN groups' = DOMAIN groups,
         Puts(<<>>) \/ \E w : w.do # "ran" /\ Suits(w, x)' /\ Puts(<<w>>)
  PROVE  \E c : Contexts(c)'
<1>1. PICK old : old = work
  OBVIOUS
<1>2. CASE Puts(<<>>)
  <2>1. PICK new : new = <<>>
    OBVIOUS
  <2>2. Len(new) = 0
    BY <2>1
  <2> QED BY <1>1, <1>2, <2>1, <2>2, SameStacks
<1>3. ASSUME NEW w, w.do # "ran", Suits(w, x)', Puts(<<w>>)
      PROVE  \E c : Contexts(c)'
  <2>1. PICK new : new = <<w>>
    OBVIOUS
  <2>2. Len(new) = 1 /\ new[1] = w
    BY <2>1
  <2>3. \A k \in 1 .. Len(new) : new[k].do # "ran" /\ Suits(new[k], x)'
    <3> SUFFICES ASSUME NEW k \in 1 .. Len(new) PROVE new[k].do # "ran" /\ Suits(new[k], x)'
      OBVIOUS
    <3>1. new[k] = w
      BY <2>2
    <3> QED BY <1>3, <3>1
  <2> QED BY <1>1, <1>3, <2>1, <2>3, SameStacks
<1> QED BY <1>2, <1>3

LEMMA HandleContexts ==
  ASSUME Types, Handle, NEW ctx, Contexts(ctx)
  PROVE  \E c : Contexts(c)'
<1>1. work # <<>> /\ Top.do = "handle" /\ FileFrame(Top) /\ Grows
      /\ UNCHANGED <<calls, groups, stacks, current>>
  BY Unchanging DEF Handle, Running, FileFrame
<1>2. PICK old, x, top : old = work /\ x = current /\ top = Top
  OBVIOUS
<1>3. Suits(top, x) /\ top.do = "handle" /\ FileFrame(top)
  BY <1>1, <1>2, ContextFacts
<1>4. x # None => Unattached(top.call)'
  BY <1>1, <1>3 DEF Suits, Unattached
<1>5. ASSUME NEW w, w.do \in {"process", "loaded"}, w.call = top.call, w.index = top.index, Puts(<<w>>)
      PROVE  \E c : Contexts(c)'
  <2>1. Suits(w, x)' /\ w.do # "ran"
    BY <1>1, <1>2, <1>3, <1>4, <1>5, SameFileSuits
  <2>2. DOMAIN groups' = DOMAIN groups
    BY <1>1
  <2> QED BY <1>1, <1>2, <1>5, <2>1, <2>2, SameStacksAtMostOne
<1>6. ASSUME Puts(<<>>)
      PROVE  \E c : Contexts(c)'
  <2>2. DOMAIN groups' = DOMAIN groups
    BY <1>1
  <2> QED BY <1>1, <1>2, <1>6, <2>2, SameStacksAtMostOne
<1>7. PICK w, v : w = LoadedFrame(Top.call, Top.index) /\ v = ProcessFrame(Top.call, Top.index)
  OBVIOUS
<1>8. /\ w.do = "loaded" /\ w.call = Top.call /\ w.index = Top.index
      /\ v.do = "process" /\ v.call = Top.call /\ v.index = Top.index
  BY <1>7 DEF LoadedFrame, ProcessFrame
<1>9. Puts(<<w>>) \/ Puts(<<v>>) \/ Puts(<<>>)
  BY <1>7, HandlePuts
<1> QED BY <1>2, <1>5, <1>6, <1>8, <1>9

LEMMA NotifyContexts ==
  ASSUME Types, Notify, NEW ctx, Contexts(ctx)
  PROVE  \E c : Contexts(c)'
<1>1. work # <<>> /\ Top.do = "notify" /\ Grows /\ DOMAIN groups' = DOMAIN groups
      /\ UNCHANGED <<stacks, current>>
  BY NotifyPuts, NotifyGroups DEF Notify
<1>2. PICK old, x : old = work /\ x = current
  OBVIOUS
<1>3. x = None
  <2>1. Suits(Top, x)
    BY <1>1, <1>2, ContextFacts
  <2> QED BY <1>1, <2>1 DEF Suits
<1>4. ASSUME NEW w, w.do # "ran"
      PROVE  Suits(w, x)'
  BY <1>3 DEF Suits
<1>5. \A c, i : LoadedFrame(c, i).do # "ran"
  BY DEF LoadedFrame
<1>6. Puts(<<>>) \/ \E w : w.do # "ran" /\ Suits(w, x)' /\ Puts(<<w>>)
  BY <1>4, <1>5, NotifyPuts
<1> QED BY <1>1, <1>2, <1>6, SameStacksAtMostOne

LEMMA CallBackContexts ==
  ASSUME Types, CallBack, NEW ctx, Contexts(ctx)
  PROVE  \E c : Contexts(c)'
<1>1. work # <<>> /\ Top.do = "callback" /\ Grows /\ Top.call \in CallIds
      /\ UNCHANGED <<calls, groups, stacks, current>>
  BY CallBackPuts, Unchanging DEF CallBack
<1>2. PICK old, x : old = work /\ x = current
  OBVIOUS
<1>3. Suits(Top, x)
  BY <1>1, <1>2, ContextFacts
<1>4. x # None => Below(Top.call, x)
  BY <1>1, <1>3 DEF Suits
<1> DEFINE owner == calls[Top.call].owner
<1>5. ASSUME owner \in Files, Later[owner] # <<>>, NEW w, w = RequireFrame(Later[owner], Nested)
      PROVE  w.do # "ran" /\ Suits(w, x)'
  <2>1. w.do = "require" /\ w.list = Later[owner] /\ w.owner = Nested
    BY <1>5 DEF RequireFrame
  <2>2. Nested # None /\ Nested \notin Files
    BY ListsAssumption DEF Nested, None
  <2>3. x # None => \A f \in ToSet(w.list) : Depth[f] < Depth[x]
    <3> SUFFICES ASSUME x # None, NEW f \in ToSet(w.list) PROVE Depth[f] < Depth[x]
      OBVIOUS
    <3>1. Depth[owner] <= Depth[x]
      BY <1>4, <1>5 DEF Below
    <3>2. Depth[f] < Depth[owner]
      BY <1>5, <2>1, DepsAssumption
    <3>3. f \in Files
      <4>1. w.list \in Seq(Files)
        BY <1>5, <2>1, DepsAssumption
      <4>2. PICK i \in DOMAIN w.list : f = w.list[i]
        BY DEF ToSet
      <4> QED BY <4>1, <4>2, LenProperties
    <3>4. x \in Files
      BY <1>2 DEF Types
    <3>5. Depth[f] \in Nat /\ Depth[owner] \in Nat /\ Depth[x] \in Nat
      BY <1>5, <3>3, <3>4, DepsAssumption
    <3> QED BY <3>1, <3>2, <3>5
  <2> QED BY <2>1, <2>2, <2>3 DEF Suits, FileFrame
<1>6. ASSUME owner = None, NEW list, NEW w, w = RequireFrame(list, None)
      PROVE  w.do # "ran" /\ Suits(w, x)'
  <2>1. x = None
    BY <1>4, <1>6 DEF Below
  <2> QED BY <1>6, <2>1 DEF Suits, RequireFrame
<1>7. Puts(<<>>) \/ \E w : w.do # "ran" /\ Suits(w, x)' /\ Puts(<<w>>)
  BY <1>5, <1>6, CallBackPuts
<1>8. DOMAIN groups' = DOMAIN groups
  BY <1>1
<1> QED BY <1>1, <1>2, <1>7, <1>8, SameStacksAtMostOne

LEMMA CompleteContexts ==
  ASSUME Types, Complete, NEW ctx, Contexts(ctx)
  PROVE  \E c : Contexts(c)'
<1>1. work # <<>> /\ Top.do = "complete" /\ Grows /\ DOMAIN groups' = DOMAIN groups
      /\ UNCHANGED <<groups, stacks, current>>
  BY CompletePuts DEF Complete
<1>2. PICK old, x : old = work /\ x = current
  OBVIOUS
<1>3. Suits(Top, x)
  BY <1>1, <1>2, ContextFacts
<1>4. PICK told \in [1 .. Cardinality(Observing(Top.call)) -> Observing(Top.call)] :
        /\ Cardinality(Observing(Top.call)) \in Nat
        /\ Puts(NotifyFrames(told, Top.call))
        /\ Len(NotifyFrames(told, Top.call)) = Cardinality(Observing(Top.call))
  BY CompletePuts
<1>5. PICK new : new = NotifyFrames(told, Top.call)
  OBVIOUS
<1>6. x # None => Len(new) = 0
  <2>1. x # None => Observing(Top.call) = {}
    BY <1>1, <1>3 DEF Suits, Unattached, Observing
  <2>2. Cardinality({}) = 0
    BY FS_EmptySet
  <2> QED BY <1>4, <1>5, <2>1, <2>2
<1>7. \A k \in 1 .. Len(new) : new[k].do # "ran" /\ Suits(new[k], x)'
  <2> SUFFICES ASSUME NEW k \in 1 .. Len(new)
               PROVE  new[k].do # "ran" /\ Suits(new[k], x)'
    OBVIOUS
  <2>1. k \in DOMAIN told
    BY <1>4, <1>5
  <2>2. new[k].do = "notify"
    BY <1>5, <2>1 DEF NotifyFrames, NotifyFrame
  <2>3. x = None
    BY <1>6
  <2> QED BY <2>2, <2>3 DEF Suits
<1> QED BY <1>1, <1>2, <1>4, <1>5, <1>7, SameStacks

(* The call in the context x \in Files is attached to nothing.              *)
LEMMA LoadedContexts ==
  ASSUME Types, Loaded, NEW ctx, Contexts(ctx)
  PROVE  \E c : Contexts(c)'
<1>1. /\ work # <<>> /\ Top.do = "loaded" /\ File \in Files /\ IsSlot(Top.call, Top.index)
      /\ Grows /\ FileFrame(Top) /\ Top.call \in CallIds
      /\ UNCHANGED <<groups, current>>
  BY LoadedPuts DEF Loaded, FileFrame, IsSlot
<1>2. PICK old, x, top, f : old = work /\ x = current /\ top = Top /\ f = File
  OBVIOUS
<1>3. /\ Len(old) \in Nat \ {0} /\ DOMAIN old = 1 .. Len(old) /\ top = old[1]
      /\ \A k \in 1 .. Len(old) : Suits(old[k], ctx[k + 1])
      /\ \A k \in 1 .. Len(old) + 1 : ctx[k] # None => ctx[k] \in DOMAIN stacks
      /\ \A k \in 2 .. Len(old) + 1 : ctx[k] # None =>
           x # None /\ Depth[x] <= Depth[ctx[k]] /\ ctx[k] \in Files
      /\ ctx[1] = x /\ ctx[2] = x /\ Suits(top, x) /\ (x # None => x \in Files)
      /\ \A k \in 2 .. Len(old) : old[k].do = "ran" => ctx[k] \in Files
  BY <1>1, <1>2, ContextFacts DEF Types
<1>4. stacks' = [h \in DOMAIN stacks \ {f} |-> stacks[h]]
  <2>1. stacks' = [h \in DOMAIN stacks \cap (DOMAIN stacks \ {f}) |-> stacks[h]]
    BY <1>2 DEF Loaded, Restrict
  <2>2. DOMAIN stacks \cap (DOMAIN stacks \ {f}) = DOMAIN stacks \ {f}
    OBVIOUS
  <2> QED BY <2>1, <2>2
<1>5. x # None => Depth[f] < Depth[x]
  BY <1>1, <1>2, <1>3 DEF Suits, FileOf, File
<1>6. \A k \in 1 .. Len(old) + 1 : ctx[k] # None => ctx[k] # f
  <2> SUFFICES ASSUME NEW k \in 1 .. Len(old) + 1, ctx[k] # None PROVE ctx[k] # f
    OBVIOUS
  <2>1. x # None /\ Depth[x] <= Depth[ctx[k]] /\ ctx[k] \in Files
    <3>1. CASE k = 1
      <4>1. x \in Files /\ x # None /\ ctx[k] = x
        BY <1>3, <3>1
      <4>2. Depth[x] \in Nat
        BY <4>1, DepsAssumption
      <4> QED BY <4>1, <4>2
    <3>2. CASE k # 1
      <4>1. k \in 2 .. Len(old) + 1
        BY <1>3, <3>2
      <4> QED BY <1>3, <4>1
    <3> QED BY <3>1, <3>2
  <2>2. Depth[f] \in Nat /\ Depth[x] \in Nat /\ Depth[ctx[k]] \in Nat
    BY <1>1, <1>2, <1>3, <2>1, DepsAssumption
  <2> QED BY <1>5, <2>1, <2>2
<1>7. \A c : Unattached(c) => Unattached(c)'
  BY <1>1, <1>4 DEF Unattached
<1>8. \A h \in DOMAIN stacks \ {f} : Required(h) => Required(h)'
  BY <1>1, <1>4 DEF Required, Grows, Types
<1>9. \A k \in 1 .. Len(old) + 1 : ctx[k] # None => ctx[k] \in DOMAIN stacks'
  BY <1>3, <1>4, <1>6
<1>10. \A k \in 2 .. Len(old) :
            ctx[k + 1] # None /\ old[k].do # "require" => Unattached(old[k].call)'
  <2> SUFFICES ASSUME NEW k \in 2 .. Len(old), ctx[k + 1] # None, old[k].do # "require"
               PROVE  Unattached(old[k].call)'
    OBVIOUS
  <2>1. k \in 1 .. Len(old)
    BY <1>3
  <2>2. PICK c : c = old[k].call
    OBVIOUS
  <2>3. Unattached(c)
    BY <1>3, <2>1, <2>2 DEF Suits
  <2>4. Unattached(c)'
    BY <1>7, <2>3
  <2> QED BY <2>2, <2>4
<1>11. \A k \in 2 .. Len(old) : old[k].do = "ran" /\ Required(ctx[k]) => Required(ctx[k])'
  <2> SUFFICES ASSUME NEW k \in 2 .. Len(old), old[k].do = "ran", Required(ctx[k])
               PROVE  Required(ctx[k])'
    OBVIOUS
  <2>1. k \in 1 .. Len(old) + 1 /\ ctx[k] \in Files /\ None \notin Files
    BY <1>3, ListsAssumption
  <2>2. ctx[k] \in DOMAIN stacks \ {f}
    BY <1>3, <1>6, <2>1
  <2> QED BY <1>8, <2>2
<1>12. \A k \in 2 .. Len(old) : ~Requested(ctx[k], old[1], x)
  BY <1>1, <1>2, <1>3 DEF Requested
<1>13. ASSUME NEW w, w.do \in {"callback", "complete"}, w.call = top.call
       PROVE  Suits(w, x)'
  <2>1. PICK c : c = top.call
    OBVIOUS
  <2>2. x # None => Unattached(c) /\ Below(c, x)
    BY <1>1, <1>2, <1>3, <2>1 DEF Suits
  <2>3. x # None => Unattached(c)'
    BY <1>7, <2>2
  <2>4. x # None => Below(c, x)'
    BY <1>1, <1>2, <2>1, <2>2 DEF Below, Grows
  <2> QED BY <1>13, <2>1, <2>3, <2>4 DEF Suits, FileFrame
<1>14. CASE Puts(<<CallbackFrame(Top.call), CompleteFrame(Top.call)>>)
  <2>1. PICK b, e : b = CallbackFrame(Top.call) /\ e = CompleteFrame(Top.call)
    OBVIOUS
  <2>2. b.do = "callback" /\ e.do = "complete" /\ b.call = top.call /\ e.call = top.call
    BY <1>2, <2>1 DEF CallbackFrame, CompleteFrame
  <2>3. PICK new : new = <<b, e>>
    OBVIOUS
  <2>4. Len(new) = 2 /\ new[1] = b /\ new[2] = e
    BY <2>3
  <2>5. Suits(b, x)' /\ Suits(e, x)'
    BY <1>13, <2>2
  <2>6. \A k \in 1 .. Len(new) : new[k].do # "ran" /\ Suits(new[k], x)'
    <3> SUFFICES ASSUME NEW k \in 1 .. 2 PROVE new[k].do # "ran" /\ Suits(new[k], x)'
      BY <2>4
    <3>1. new[k] = b \/ new[k] = e
      BY <2>4
    <3> QED BY <2>2, <2>5, <3>1
  <2>7. Puts(new)
    BY <1>14, <2>1, <2>3
  <2> QED BY <1>1, <1>2, <1>9, <1>10, <1>11, <1>12, <2>6, <2>7, FlatStep
<1>15. CASE Puts(<<>>)
  <2>1. PICK new : new = <<>>
    OBVIOUS
  <2>2. Len(new) = 0
    BY <2>1
  <2>3. \A k \in 1 .. Len(new) : new[k].do # "ran" /\ Suits(new[k], x)'
    BY <2>2
  <2> QED BY <1>1, <1>2, <1>9, <1>10, <1>11, <1>12, <1>15, <2>1, <2>3, FlatStep
<1> QED BY <1>14, <1>15, LoadedPuts

LEMMA BeginContexts ==
  ASSUME Types, Begin, NEW ctx, Contexts(ctx)
  PROVE  \E c : Contexts(c)'
<1>1. /\ work # <<>> /\ Top.do = "require" /\ Grows
      /\ Top \in Frame /\ Top.list \in Seq(Files) \ {<<>>} /\ Top.owner \in Owners
      /\ UNCHANGED <<groups, stacks, current>>
  <2>1. work # <<>> /\ Top.do = "require" /\ UNCHANGED <<groups, stacks, current>>
    BY DEF Begin, Running
  <2> QED BY <2>1, BeginCalls, TopFacts, FrameFields
<1>2. PICK old, x, top, id : old = work /\ x = current /\ top = Top /\ id = Len(calls) + 1
  OBVIOUS
<1>3. /\ Len(old) \in Nat \ {0} /\ DOMAIN old = 1 .. Len(old) /\ top = old[1]
      /\ \A k \in 1 .. Len(old) : Suits(old[k], ctx[k + 1])
      /\ \A k \in 1 .. Len(old) + 1 : ctx[k] # None => ctx[k] \in DOMAIN stacks
      /\ ctx[1] = x /\ ctx[2] = x /\ Suits(top, x) /\ (x # None => x \in Files)
      /\ \A k \in 2 .. Len(old) : old[k].do = "ran" => ctx[k] \in Files
  BY <1>1, <1>2, ContextFacts DEF Types
<1>4. PICK new :
        /\ Puts(new)
        /\ Len(new) = Len(top.list) + 1 /\ Len(top.list) \in Nat
        /\ \A i \in 1 .. Len(top.list) : new[i] = HandleFrame(id, i)
        /\ new[Len(top.list) + 1] = AttachFrame(id)
  BY <1>2, BeginPuts
<1>5. /\ id \notin CallIds /\ calls'[id].files = top.list /\ calls'[id].owner = top.owner
  BY <1>2, BeginCalls, CallIdsNat
<1>6. Unattached(id)'
  <2>1. \A f \in DOMAIN stacks : id \notin stacks[f]
    BY <1>5 DEF Types
  <2>2. \A g \in DOMAIN groups : id \notin groups[g].on
    BY <1>5, GroupFields
  <2> QED BY <1>1, <2>1, <2>2 DEF Unattached
<1>7. x # None => Below(id, x)'
  BY <1>1, <1>2, <1>3, <1>5 DEF Suits, Below
<1>8. \A k \in 1 .. Len(new) : new[k].do # "ran" /\ Suits(new[k], x)'
  <2> SUFFICES ASSUME NEW k \in 1 .. Len(new)
               PROVE  new[k].do # "ran" /\ Suits(new[k], x)'
    OBVIOUS
  <2>1. CASE k = Len(top.list) + 1
    <3>1. new[k].do = "attach" /\ new[k].call = id
      BY <1>4, <2>1 DEF AttachFrame
    <3> QED BY <1>6, <1>7, <3>1 DEF Suits, FileFrame
  <2>2. CASE k # Len(top.list) + 1
    <3>1. k \in 1 .. Len(top.list)
      BY <1>4, <2>2
    <3>2. new[k].do = "handle" /\ new[k].call = id /\ new[k].index = k
      <4>1. new[k] = HandleFrame(id, k)
        BY <1>4, <3>1
      <4> QED BY <4>1 DEF HandleFrame
    <3>3. FileOf(new[k])' = top.list[k]
      BY <1>5, <3>2 DEF FileOf
    <3>4. x # None => Depth[top.list[k]] < Depth[x]
      <4>1. x # None => \A f \in ToSet(top.list) : Depth[f] < Depth[x]
        BY <1>1, <1>2, <1>3 DEF Suits
      <4>2. k \in DOMAIN top.list
        BY <1>1, <1>2, <3>1, LenProperties
      <4>3. top.list[k] \in ToSet(top.list)
        BY <4>2 DEF ToSet
      <4> QED BY <4>1, <4>3
    <3> QED BY <1>6, <1>7, <3>2, <3>3, <3>4 DEF Suits, FileFrame
  <2> QED BY <2>1, <2>2
<1>9. \A c : Unattached(c) => Unattached(c)'
  BY <1>1 DEF Unattached
<1>10. \A k \in 2 .. Len(old) :
            ctx[k + 1] # None /\ old[k].do # "require" => Unattached(old[k].call)'
  <2> SUFFICES ASSUME NEW k \in 2 .. Len(old), ctx[k + 1] # None, old[k].do # "require"
               PROVE  Unattached(old[k].call)'
    OBVIOUS
  <2>1. k \in 1 .. Len(old)
    BY <1>3
  <2>2. PICK c : c = old[k].call
    OBVIOUS
  <2>3. Unattached(c)
    BY <1>3, <2>1, <2>2 DEF Suits
  <2>4. Unattached(c)'
    BY <1>9, <2>3
  <2> QED BY <2>2, <2>4
<1>11. \A k \in 1 .. Len(old) + 1 : ctx[k] # None => ctx[k] \in DOMAIN stacks'
  BY <1>1, <1>3
<1>12. \A k \in 2 .. Len(old) : old[k].do = "ran" /\ Required(ctx[k]) => Required(ctx[k])'
  <2>1. \A h \in DOMAIN stacks : Required(h) => Required(h)'
    BY <1>1 DEF Required, Grows, Types
  <2> SUFFICES ASSUME NEW k \in 2 .. Len(old), old[k].do = "ran", Required(ctx[k])
               PROVE  Required(ctx[k])'
    OBVIOUS
  <2>2. k \in 1 .. Len(old) + 1 /\ ctx[k] \in Files /\ None \notin Files
    BY <1>3, ListsAssumption
  <2> QED BY <1>3, <2>1, <2>2
<1>13. \A k \in 2 .. Len(old) : old[k].do = "ran" /\ Requested(ctx[k], old[1], x) =>
            Required(ctx[k])' \/ \E j \in 1 .. Len(new) : Requested(ctx[k], new[j], x)'
  <2> SUFFICES ASSUME NEW k \in 2 .. Len(old), Requested(ctx[k], old[1], x)
               PROVE  \E j \in 1 .. Len(new) : Requested(ctx[k], new[j], x)'
    OBVIOUS
  <2>1. PICK j : j = Len(top.list) + 1
    OBVIOUS
  <2>2. j \in 1 .. Len(new) /\ new[j].do = "attach" /\ new[j].call = id
    BY <1>4, <2>1 DEF AttachFrame
  <2>3. x = ctx[k] /\ top.list = Deps[ctx[k]]
    BY <1>1, <1>2, <1>3 DEF Requested
  <2>4. Requested(ctx[k], new[j], x)'
    BY <1>5, <2>2, <2>3 DEF Requested
  <2> QED BY <2>2, <2>4
<1> QED BY <1>1, <1>2, <1>4, <1>8, <1>10, <1>11, <1>12, <1>13, FlatStep

(* Nothing is to be done any more for a call that is attached.              *)
LEMMA AttachContexts ==
  ASSUME Types, AttachedLast, Attach, NEW ctx, Contexts(ctx)
  PROVE  \E c : Contexts(c)'
<1>1. /\ work # <<>> /\ Top.do = "attach" /\ Top.call \in CallIds /\ Puts(<<>>) /\ Grows
      /\ UNCHANGED <<groups, calls, current>>
  BY AttachPuts
<1>2. PICK old, x, id : old = work /\ x = current /\ id = Top.call
  OBVIOUS
<1>3. /\ Len(old) \in Nat \ {0} /\ DOMAIN old = 1 .. Len(old) /\ Top = old[1]
      /\ \A k \in 1 .. Len(old) : Suits(old[k], ctx[k + 1])
      /\ \A k \in 1 .. Len(old) + 1 : ctx[k] # None => ctx[k] \in DOMAIN stacks
      /\ ctx[1] = x /\ (x # None => x \in Files)
      /\ \A k \in 2 .. Len(old) : old[k].do = "ran" => ctx[k] \in Files
  BY <1>1, <1>2, ContextFacts DEF Types
<1>4. /\ DOMAIN stacks' = DOMAIN stacks
      /\ \A f \in DOMAIN stacks : stacks[f] \subseteq stacks'[f] /\ stacks'[f] \subseteq stacks[f] \cup {id}
      /\ x # None => x \in DOMAIN stacks /\ id \in stacks'[x]
  <2>1. stacks' = IF x = None THEN stacks ELSE [stacks EXCEPT ![x] = @ \cup {id}]
    BY <1>2, AttachPuts
  <2>2. 1 \in 1 .. Len(old) + 1
    BY <1>3
  <2>3. x # None => x \in DOMAIN stacks
    BY <1>3, <2>2
  <2> QED BY <2>1, <2>3
<1>5. \A c : c # id /\ Unattached(c) => Unattached(c)'
  BY <1>1, <1>4 DEF Unattached
<1>6. \A k \in 2 .. Len(old) : old[k].do # "require" => old[k].call # id
  <2> SUFFICES ASSUME NEW k \in 2 .. Len(old), old[k].do # "require" PROVE old[k].call # id
    OBVIOUS
  <2>1. 1 \in DOMAIN work /\ k \in DOMAIN work /\ 1 < k
    BY <1>2, <1>3
  <2> QED BY <1>1, <1>2, <1>3, <2>1 DEF AttachedLast
<1>7. \A k \in 2 .. Len(old) :
            ctx[k + 1] # None /\ old[k].do # "require" => Unattached(old[k].call)'
  <2> SUFFICES ASSUME NEW k \in 2 .. Len(old), ctx[k + 1] # None, old[k].do # "require"
               PROVE  Unattached(old[k].call)'
    OBVIOUS
  <2>1. k \in 1 .. Len(old)
    BY <1>3
  <2>2. PICK c : c = old[k].call
    OBVIOUS
  <2>3. Unattached(c) /\ c # id
    BY <1>3, <1>6, <2>1, <2>2 DEF Suits
  <2>4. Unattached(c)'
    BY <1>5, <2>3
  <2> QED BY <2>2, <2>4
<1>8. \A k \in 1 .. Len(old) + 1 : ctx[k] # None => ctx[k] \in DOMAIN stacks'
  BY <1>3, <1>4
<1>9. \A k \in 2 .. Len(old) : old[k].do = "ran" /\ Required(ctx[k]) => Required(ctx[k])'
  <2>1. \A h \in DOMAIN stacks : Required(h) => Required(h)'
    BY <1>1, <1>4 DEF Required
  <2> SUFFICES ASSUME NEW k \in 2 .. Len(old), old[k].do = "ran", Required(ctx[k])
               PROVE  Required(ctx[k])'
    OBVIOUS
  <2>2. k \in 1 .. Len(old) + 1 /\ ctx[k] \in Files /\ None \notin Files
    BY <1>3, ListsAssumption
  <2> QED BY <1>3, <2>1, <2>2
<1>10. \A k \in 2 .. Len(old) : old[k].do = "ran" /\ Requested(ctx[k], old[1], x) => Required(ctx[k])'
  <2> SUFFICES ASSUME NEW k \in 2 .. Len(old), old[k].do = "ran", Requested(ctx[k], old[1], x)
               PROVE  Required(ctx[k])'
    OBVIOUS
  <2>1. x = ctx[k] /\ calls[id].files = Deps[x] /\ x \in Files /\ x # None
    BY <1>1, <1>2, <1>3, ListsAssumption DEF Requested
  <2> QED BY <1>1, <1>4, <2>1 DEF Required
<1>11. PICK new : new = <<>>
  OBVIOUS
<1>12. Len(new) = 0
  BY <1>11
<1>13. \A k \in 1 .. Len(new) : new[k].do # "ran" /\ Suits(new[k], x)'
  BY <1>12
<1> QED BY <1>1, <1>2, <1>7, <1>8, <1>9, <1>10, <1>11, <1>13, FlatStep

(* The script's stack is a new one, and no script below it is lower.        *)
LEMMA ProcessContexts ==
  ASSUME Types, Process, NEW ctx, Contexts(ctx)
  PROVE  \E c : Contexts(c)'
<1>1. work # <<>> /\ Top.do = "process" /\ FileFrame(Top) /\ Grows /\ File \in Files
      /\ UNCHANGED <<calls, groups>>
  BY ProcessPuts, Unchanging DEF Process, FileFrame
<1>2. PICK old, x, top, f : old = work /\ x = current /\ top = Top /\ f = File
  OBVIOUS
<1>3. /\ Len(old) \in Nat \ {0} /\ DOMAIN old = 1 .. Len(old) /\ top = old[1]
      /\ \A k \in 1 .. Len(old) : /\ old[k] \in Frame /\ Suits(old[k], ctx[k + 1])
                                  /\ FileFrame(old[k]) => IsSlot(old[k].call, old[k].index)
      /\ \A k \in 1 .. Len(old) + 1 : ctx[k] # None => ctx[k] \in DOMAIN stacks
      /\ \A k \in 2 .. Len(old) + 1 : ctx[k] # None =>
           x # None /\ Depth[x] <= Depth[ctx[k]] /\ ctx[k] \in Files
      /\ ctx[1] = x /\ ctx[2] = x /\ Suits(top, x) /\ x \in Files \cup {None}
      /\ \A k \in 2 .. Len(old) : old[k].do = "ran" => ctx[k] \in Files
      /\ \A k \in 2 .. Len(old) : old[k].do = "ran" /\ Deps[ctx[k]] # <<>> =>
            Required(ctx[k]) \/ \E j \in 1 .. k - 1 : Requested(ctx[k], old[j], ctx[j])
  BY <1>1, <1>2, ContextFacts DEF Types
<1>4. CASE /\ UNCHANGED <<stacks, current>>
           /\ Puts(<<LoadedFrame(Top.call, Top.index)>>)
  <2>1. PICK w : w = LoadedFrame(top.call, top.index)
    OBVIOUS
  <2>2. w.do = "loaded" /\ w.call = top.call /\ w.index = top.index
    BY <2>1 DEF LoadedFrame
  <2>3. x # None => Unattached(top.call)'
    BY <1>1, <1>2, <1>3, <1>4 DEF Suits, Unattached
  <2>4. Suits(w, x)'
    BY <1>1, <1>2, <1>3, <2>2, <2>3, SameFileSuits
  <2>5. DOMAIN groups' = DOMAIN groups
    BY <1>1
  <2> QED BY <1>1, <1>2, <1>4, <2>1, <2>2, <2>4, <2>5, SameStacksAtMostOne
<1>5. ASSUME stacks' = [h \in DOMAIN stacks \cup {f} |-> IF h = f THEN {} ELSE stacks[h]],
             current' = f, NEW r, r = RanFrame(top.call, top.index, x),
             \/ Deps[f] = <<>> /\ Puts(<<r>>)
             \/ Deps[f] # <<>> /\ Puts(<<RequireFrame(Deps[f], f), r>>)
      PROVE  \E c : Contexts(c)'
  <2>0. f \in Files /\ f # None /\ Depth[f] \in Nat
    BY <1>1, <1>2, ListsAssumption, DepsAssumption
  <2>1. r.do = "ran" /\ r.call = top.call /\ r.index = top.index /\ r.previous = x
    BY <1>5 DEF RanFrame
  <2>2. x # None => Depth[f] < Depth[x] /\ x \in Files /\ Depth[x] \in Nat
    BY <1>1, <1>2, <1>3, DepsAssumption DEF Suits, FileOf, File
  <2>3. \A c : Unattached(c) => Unattached(c)'
    BY <1>1, <1>5 DEF Unattached
  <2>4. x # None => Unattached(top.call)'
    BY <1>1, <1>2, <1>3, <2>3 DEF Suits
  <2>5. Suits(r, x)'
    BY <1>1, <1>2, <1>3, <2>1, <2>4, SameFileSuits
  <2>6. Turn(r, f, x)'
    <3>1. FileOf(r)' = f
      BY <1>1, <1>2, <2>1 DEF FileOf, File
    <3> QED BY <2>1, <3>1 DEF Turn
  <2>7. \A k \in 2 .. Len(old) : Suits(old[k], ctx[k + 1])'
    <3> SUFFICES ASSUME NEW k \in 2 .. Len(old) PROVE Suits(old[k], ctx[k + 1])'
      OBVIOUS
    <3>1. k \in 1 .. Len(old)
      BY <1>3
    <3>2. PICK w : w = old[k]
      OBVIOUS
    <3>3. w \in Frame /\ Suits(w, ctx[k + 1]) /\ (FileFrame(w) => IsSlot(w.call, w.index))
      BY <1>3, <3>1, <3>2
    <3>4. ctx[k + 1] # None /\ w.do # "require" => Unattached(w.call)'
      BY <2>3, <3>3 DEF Suits
    <3>5. Suits(w, ctx[k + 1])'
      BY <1>1, <3>3, <3>4, SuitsStays
    <3> QED BY <3>2, <3>5
  <2>8. \A k \in 2 .. Len(old) + 1 : ctx[k] # None => ctx[k] \in DOMAIN stacks'
    <3>1. \A k \in 2 .. Len(old) + 1 : k \in 1 .. Len(old) + 1
      BY <1>3
    <3>2. DOMAIN stacks' = DOMAIN stacks \cup {f}
      BY <1>5
    <3> QED BY <1>3, <3>1, <3>2
  <2>9. x # None => x \in DOMAIN stacks'
    <3>1. 1 \in 1 .. Len(old) + 1
      BY <1>3
    <3> QED BY <1>3, <1>5, <3>1
  <2>10. \A k \in 2 .. Len(old) : old[k].do = "ran" =>
           ctx[k] # f /\ ctx[k] \in DOMAIN stacks
    <3> SUFFICES ASSUME NEW k \in 2 .. Len(old), old[k].do = "ran"
                 PROVE  ctx[k] # f /\ ctx[k] \in DOMAIN stacks
      OBVIOUS
    <3>1. ctx[k] \in Files /\ ctx[k] # None /\ k \in 2 .. Len(old) + 1 /\ k \in 1 .. Len(old) + 1
      BY <1>3, ListsAssumption
    <3>2. x # None /\ Depth[x] <= Depth[ctx[k]] /\ Depth[ctx[k]] \in Nat
      BY <1>3, <3>1, DepsAssumption
    <3> QED BY <1>3, <2>0, <2>2, <3>1, <3>2
  <2>11. \A k \in 2 .. Len(old) : old[k].do = "ran" /\ Deps[ctx[k]] # <<>> =>
            \/ Required(ctx[k])'
            \/ \E j \in 2 .. k - 1 : Requested(ctx[k], old[j], ctx[j])
    <3> SUFFICES ASSUME NEW k \in 2 .. Len(old), old[k].do = "ran", Deps[ctx[k]] # <<>>
                 PROVE  \/ Required(ctx[k])'
                        \/ \E j \in 2 .. k - 1 : Requested(ctx[k], old[j], ctx[j])
      OBVIOUS
    <3>1. CASE Required(ctx[k])
      <4>1. ctx[k] \in DOMAIN stacks /\ ctx[k] # f
        BY <2>10
      <4>2. stacks'[ctx[k]] = stacks[ctx[k]]
        BY <1>5, <4>1
      <4> QED BY <1>1, <3>1, <4>2 DEF Required
    <3>2. ASSUME NEW j \in 1 .. k - 1, Requested(ctx[k], old[j], ctx[j])
          PROVE  j \in 2 .. k - 1
      <4>1. j # 1
        BY <1>1, <1>2, <1>3, <3>2 DEF Requested
      <4> QED BY <3>2, <4>1
    <3> QED BY <1>3, <3>1, <3>2
  <2>12. f \in DOMAIN stacks'
    BY <1>5
  <2>13. CASE Deps[f] = <<>> /\ Puts(<<r>>)
    <3>1. PICK new, n : new = <<r>> /\ n = 1
      OBVIOUS
    <3>2. Len(new) = n /\ new[1] = r
      BY <3>1
    <3>3. PICK cnew : cnew = [k \in 1 .. n + 1 |-> IF k = 1 THEN f ELSE x]
      OBVIOUS
    <3>4. /\ cnew \in [1 .. n + 1 -> Files \cup {None}] /\ cnew[1] = f /\ cnew[2] = x
          /\ cnew[n + 1] = x
      BY <1>3, <2>0, <3>1, <3>3
    <3>5. \A k \in 1 .. n : k = 1
      BY <3>1
    <3>6. \A k \in 1 .. n + 1 : k = 1 \/ k = 2
      BY <3>1
    <3>7. \A k \in 1 .. n : new[k] = r /\ cnew[k] = f /\ cnew[k + 1] = x
      <4>1. 1 + 1 = 2
        OBVIOUS
      <4> QED BY <3>2, <3>4, <3>5, <4>1
    <3>8. \A k \in 1 .. n : Turn(new[k], cnew[k], cnew[k + 1])' /\ Suits(new[k], cnew[k + 1])'
      BY <2>5, <2>6, <3>7
    <3>9. \A j, k \in 1 .. n + 1 : j <= k /\ cnew[k] # None =>
            cnew[j] # None /\ Depth[cnew[j]] <= Depth[cnew[k]]
      <4> SUFFICES ASSUME NEW j \in 1 .. n + 1, NEW k \in 1 .. n + 1, j <= k, cnew[k] # None
                   PROVE  cnew[j] # None /\ Depth[cnew[j]] <= Depth[cnew[k]]
        OBVIOUS
      <4>1. (j = 1 /\ k = 1) \/ (j = 1 /\ k = 2) \/ (j = 2 /\ k = 2)
        BY <3>6
      <4> QED BY <2>0, <2>2, <3>4, <4>1
    <3>10. \A k \in 1 .. n + 1 : cnew[k] # None => cnew[k] \in DOMAIN stacks'
      BY <2>9, <2>12, <3>4, <3>6
    <3>11. \A k \in 1 .. n : new[k].do = "ran" /\ Deps[cnew[k]] # <<>> =>
            Required(cnew[k])' \/ \E j \in 1 .. k - 1 : Requested(cnew[k], new[j], cnew[j])'
      BY <2>13, <3>7
    <3>12. \A k \in 2 .. Len(old) : old[k].do = "ran" /\ Deps[ctx[k]] # <<>> =>
            \/ Required(ctx[k])'
            \/ \E j \in 1 .. n : Requested(ctx[k], new[j], cnew[j])'
            \/ \E j \in 2 .. k - 1 : Requested(ctx[k], old[j], ctx[j])
      BY <2>11
    <3>13. cnew[1] = current' /\ cnew[n + 1] = ctx[2] /\ n = Len(new) /\ Puts(new)
      BY <1>3, <1>5, <2>13, <3>1, <3>2, <3>4
    <3> QED BY <1>1, <1>2, <2>7, <2>8, <3>4, <3>8, <3>9, <3>10, <3>11, <3>12, <3>13, ContextStep
  <2>14. CASE Deps[f] # <<>> /\ Puts(<<RequireFrame(Deps[f], f), r>>)
    <3>0. PICK q : q = RequireFrame(Deps[f], f)
      OBVIOUS
    <3>1. PICK new, n : new = <<q, r>> /\ n = 2
      OBVIOUS
    <3>2. Len(new) = n /\ new[1] = q /\ new[2] = r
      BY <3>1
    <3>3. PICK cnew : cnew = [k \in 1 .. n + 1 |-> IF k = 3 THEN x ELSE f]
      OBVIOUS
    <3>4. /\ cnew \in [1 .. n + 1 -> Files \cup {None}] /\ cnew[1] = f /\ cnew[2] = f /\ cnew[3] = x
          /\ cnew[n + 1] = x
      BY <1>3, <2>0, <3>1, <3>3
    <3>5. \A k \in 1 .. n : k = 1 \/ k = 2
      BY <3>1
    <3>6. \A k \in 1 .. n + 1 : k = 1 \/ k = 2 \/ k = 3
      BY <3>1
    <3>7. q.do = "require" /\ q.list = Deps[f] /\ q.owner = f
      BY <3>0 DEF RequireFrame
    <3>8. Suits(q, f)' /\ Turn(q, f, f)'
      <4>1. \A g \in ToSet(q.list) : Depth[g] < Depth[f]
        BY <2>0, <3>7, DepsAssumption
      <4> QED BY <2>0, <3>7, <4>1 DEF Suits, Turn, FileFrame
    <3>9. \A k \in 1 .. n : Turn(new[k], cnew[k], cnew[k + 1])' /\ Suits(new[k], cnew[k + 1])'
      <4>1. 1 + 1 = 2 /\ 2 + 1 = 3
        OBVIOUS
      <4> SUFFICES ASSUME NEW k \in 1 .. n
                   PROVE  Turn(new[k], cnew[k], cnew[k + 1])' /\ Suits(new[k], cnew[k + 1])'
        OBVIOUS
      <4>2. \/ new[k] = q /\ cnew[k] = f /\ cnew[k + 1] = f
            \/ new[k] = r /\ cnew[k] = f /\ cnew[k + 1] = x
        BY <3>2, <3>4, <3>5, <4>1
      <4> QED BY <2>5, <2>6, <3>8, <4>2
    <3>10. \A j, k \in 1 .. n + 1 : j <= k /\ cnew[k] # None =>
            cnew[j] # None /\ Depth[cnew[j]] <= Depth[cnew[k]]
      <4> SUFFICES ASSUME NEW j \in 1 .. n + 1, NEW k \in 1 .. n + 1, j <= k, cnew[k] # None
                   PROVE  cnew[j] # None /\ Depth[cnew[j]] <= Depth[cnew[k]]
        OBVIOUS
      <4>1. \/ cnew[j] = f /\ cnew[k] = f
            \/ cnew[j] = f /\ cnew[k] = x
            \/ cnew[j] = x /\ cnew[k] = x
        BY <3>4, <3>6
      <4> QED BY <2>0, <2>2, <4>1
    <3>11. \A k \in 1 .. n + 1 : cnew[k] # None => cnew[k] \in DOMAIN stacks'
      BY <2>9, <2>12, <3>4, <3>6
    <3>12. \A k \in 1 .. n : new[k].do = "ran" /\ Deps[cnew[k]] # <<>> =>
            Required(cnew[k])' \/ \E j \in 1 .. k - 1 : Requested(cnew[k], new[j], cnew[j])'
      <4> SUFFICES ASSUME NEW k \in 1 .. n, new[k].do = "ran"
                   PROVE  \E j \in 1 .. k - 1 : Requested(cnew[k], new[j], cnew[j])'
        OBVIOUS
      <4>1. k = 2 /\ 1 \in 1 .. k - 1
        BY <3>2, <3>5, <3>7
      <4>2. Requested(cnew[k], new[1], cnew[1])'
        BY <3>2, <3>4, <3>7, <4>1 DEF Requested
      <4> QED BY <4>1, <4>2
    <3>13. \A k \in 2 .. Len(old) : old[k].do = "ran" /\ Deps[ctx[k]] # <<>> =>
            \/ Required(ctx[k])'
            \/ \E j \in 1 .. n : Requested(ctx[k], new[j], cnew[j])'
            \/ \E j \in 2 .. k - 1 : Requested(ctx[k], old[j], ctx[j])
      BY <2>11
    <3>14. cnew[1] = current' /\ cnew[n + 1] = ctx[2] /\ n = Len(new) /\ Puts(new)
      BY <1>3, <1>5, <2>14, <3>0, <3>1, <3>2, <3>4
    <3> QED BY <1>1, <1>2, <2>7, <2>8, <3>4, <3>9, <3>10, <3>11, <3>12, <3>13, <3>14, ContextStep
  <2> QED BY <1>5, <2>13, <2>14
<1>6. PICK r : r = RanFrame(top.call, top.index, x)
  OBVIOUS
<1>7. \/ /\ UNCHANGED <<stacks, current>>
         /\ Puts(<<LoadedFrame(Top.call, Top.index)>>)
      \/ /\ stacks' = [h \in DOMAIN stacks \cup {f} |-> IF h = f THEN {} ELSE stacks[h]]
         /\ current' = f
         /\ \/ Deps[f] = <<>> /\ Puts(<<r>>)
            \/ Deps[f] # <<>> /\ Puts(<<RequireFrame(Deps[f], f), r>>)
  BY <1>2, <1>6, ProcessPuts
<1> QED BY <1>4, <1>5, <1>6, <1>7

(* The calls on a script's stack are not those that the scripts below it    *)
(* are about.                                                               *)
LEMMA RanContexts ==
  ASSUME Types, Ran, NEW ctx, Contexts(ctx)
  PROVE  \E c : Contexts(c)'
<1>1. work # <<>> /\ Top.do = "ran" /\ FileFrame(Top) /\ Grows /\ File \in Files
      /\ current' = Top.previous /\ UNCHANGED <<calls, stacks>>
      /\ (Puts(<<LoadedFrame(Top.call, Top.index)>>) \/ Puts(<<>>))
      /\ (groups' = groups \/ groups' = Append(groups, RanGroup))
  <2>1. work # <<>> /\ Top.do = "ran" /\ FileFrame(Top)
    BY RanCases DEF FileFrame
  <2> QED BY <2>1, RanCases, RanPuts, TopFacts
<1>2. PICK old, x, top, f : old = work /\ x = ctx[2] /\ top = Top /\ f = File
  OBVIOUS
<1>3. /\ Len(old) \in Nat \ {0} /\ DOMAIN old = 1 .. Len(old) /\ top = old[1]
      /\ \A k \in 1 .. Len(old) : /\ old[k] \in Frame /\ Suits(old[k], ctx[k + 1])
                                  /\ FileFrame(old[k]) => IsSlot(old[k].call, old[k].index)
      /\ \A k \in 1 .. Len(old) + 1 : ctx[k] # None => ctx[k] \in DOMAIN stacks
      /\ x = Top.previous /\ ctx[1] = FileOf(Top)
      /\ Suits(top, x) /\ x \in Files \cup {None}
      /\ \A k \in 2 .. Len(old) : old[k].do = "ran" /\ Deps[ctx[k]] # <<>> =>
            Required(ctx[k]) \/ \E j \in 1 .. k - 1 : Requested(ctx[k], old[j], ctx[j])
  <2>1. 2 \in 1 .. Len(work) + 1
    BY <1>1, TopFacts
  <2> QED BY <1>1, <1>2, <2>1, ContextFacts
<1>4. f \in DOMAIN stacks /\ StackOf(File) = stacks[f]
  <2>1. f = FileOf(Top) /\ f \in Files
    BY <1>1, <1>2 DEF FileOf, File
  <2>2. f \in DOMAIN stacks
    <3>1. 1 \in 1 .. Len(old) + 1
      BY <1>3
    <3> QED BY <1>3, <2>1, <3>1, ListsAssumption
  <2> QED BY <1>2, <2>2 DEF StackOf
<1>5. \A c : Unattached(c) => Unattached(c)'
  <2>1. CASE groups' = groups
    BY <1>1, <2>1 DEF Unattached
  <2>2. CASE groups' = Append(groups, RanGroup)
    <3>1. /\ DOMAIN groups' = 1 .. Len(groups) + 1 /\ DOMAIN groups = 1 .. Len(groups)
          /\ Len(groups) \in Nat
          /\ \A g \in DOMAIN groups : groups'[g] = groups[g]
          /\ groups'[Len(groups) + 1] = RanGroup
      BY <2>2, RanGroups
    <3>2. RanGroup.on = stacks[f]
      BY <1>4 DEF RanGroup
    <3>3. \A g \in DOMAIN groups' : g \in DOMAIN groups \/ groups'[g].on = stacks[f]
      BY <3>1, <3>2
    <3> QED BY <1>1, <1>4, <3>1, <3>3 DEF Unattached
  <2> QED BY <1>1, <2>1, <2>2
<1>6. \A k \in 2 .. Len(old) : Suits(old[k], ctx[k + 1])'
  <2> SUFFICES ASSUME NEW k \in 2 .. Len(old) PROVE Suits(old[k], ctx[k + 1])'
    OBVIOUS
  <2>1. k \in 1 .. Len(old)
    BY <1>3
  <2>2. PICK w : w = old[k]
    OBVIOUS
  <2>3. w \in Frame /\ Suits(w, ctx[k + 1]) /\ (FileFrame(w) => IsSlot(w.call, w.index))
    BY <1>3, <2>1, <2>2
  <2>4. ctx[k + 1] # None /\ w.do # "require" => Unattached(w.call)'
    BY <1>5, <2>3 DEF Suits
  <2>5. Suits(w, ctx[k + 1])'
    BY <1>1, <2>3, <2>4, SuitsStays
  <2> QED BY <2>2, <2>5
<1>7. \A k \in 2 .. Len(old) + 1 : ctx[k] # None => ctx[k] \in DOMAIN stacks'
  <2>1. \A k \in 2 .. Len(old) + 1 : k \in 1 .. Len(old) + 1
    BY <1>3
  <2> QED BY <1>1, <1>3, <2>1
<1>8. x # None => x \in DOMAIN stacks'
  <2>1. 2 \in 1 .. Len(old) + 1
    BY <1>3
  <2> QED BY <1>1, <1>2, <1>3, <2>1
<1>9. \A h : Required(h) => Required(h)'
  BY <1>1 DEF Required
<1>10. \A k \in 2 .. Len(old) : old[k].do = "ran" /\ Deps[ctx[k]] # <<>> =>
            \/ Required(ctx[k])'
            \/ \E j \in 2 .. k - 1 : Requested(ctx[k], old[j], ctx[j])
  <2> SUFFICES ASSUME NEW k \in 2 .. Len(old), old[k].do = "ran", Deps[ctx[k]] # <<>>
               PROVE  \/ Required(ctx[k])'
                      \/ \E j \in 2 .. k - 1 : Requested(ctx[k], old[j], ctx[j])
    OBVIOUS
  <2>1. CASE Required(ctx[k])
    BY <1>9, <2>1
  <2>2. ASSUME NEW j \in 1 .. k - 1, Requested(ctx[k], old[j], ctx[j])
        PROVE  j \in 2 .. k - 1
    <3>1. j # 1
      BY <1>1, <1>2, <1>3, <2>2 DEF Requested
    <3> QED BY <2>2, <3>1
  <2> QED BY <1>3, <2>1, <2>2
<1>11. ASSUME NEW new, NEW n, n = Len(new), Puts(new),
              \A k \in 1 .. n : new[k].do # "ran" /\ Suits(new[k], x)'
       PROVE  \E c : Contexts(c)'
  <2>0. n \in Nat
    BY <1>11, LenProperties DEF Puts
  <2>1. PICK cnew : cnew = [k \in 1 .. n + 1 |-> x]
    OBVIOUS
  <2>2. cnew \in [1 .. n + 1 -> Files \cup {None}] /\ \A k \in 1 .. n + 1 : cnew[k] = x
    BY <1>3, <2>1
  <2>3. cnew[1] = current' /\ cnew[n + 1] = ctx[2]
    <3>1. 1 \in 1 .. n + 1 /\ n + 1 \in 1 .. n + 1
      BY <2>0
    <3> QED BY <1>1, <1>2, <1>3, <2>2, <3>1
  <2>4. \A k \in 1 .. n : cnew[k] = x /\ cnew[k + 1] = x
    <3>1. \A k \in 1 .. n : k \in 1 .. n + 1 /\ k + 1 \in 1 .. n + 1
      BY <2>0
    <3> QED BY <2>2, <3>1
  <2>5. \A k \in 1 .. n : Turn(new[k], cnew[k], cnew[k + 1])' /\ Suits(new[k], cnew[k + 1])'
    BY <1>11, <2>4 DEF Turn
  <2>6. \A j, k \in 1 .. n + 1 : j <= k /\ cnew[k] # None =>
           cnew[j] # None /\ Depth[cnew[j]] <= Depth[cnew[k]]
    <3>1. x # None => Depth[x] \in Nat
      BY <1>3, DepsAssumption
    <3>2. x # None => Depth[x] <= Depth[x]
      BY <3>1
    <3> QED BY <2>2, <3>2
  <2>7. \A k \in 1 .. n + 1 : cnew[k] # None => cnew[k] \in DOMAIN stacks'
    BY <1>8, <2>2
  <2>8. \A k \in 1 .. n : new[k].do = "ran" /\ Deps[cnew[k]] # <<>> =>
           Required(cnew[k])' \/ \E j \in 1 .. k - 1 : Requested(cnew[k], new[j], cnew[j])'
    BY <1>11
  <2>9. \A k \in 2 .. Len(old) : old[k].do = "ran" /\ Deps[ctx[k]] # <<>> =>
            \/ Required(ctx[k])'
            \/ \E j \in 1 .. n : Requested(ctx[k], new[j], cnew[j])'
            \/ \E j \in 2 .. k - 1 : Requested(ctx[k], old[j], ctx[j])
    BY <1>10
  <2> QED BY <1>1, <1>2, <1>6, <1>7, <1>11, <2>2, <2>3, <2>5, <2>6, <2>7, <2>8, <2>9, ContextStep
<1>12. CASE Puts(<<LoadedFrame(Top.call, Top.index)>>)
  <2>1. PICK w : w = LoadedFrame(top.call, top.index)
    OBVIOUS
  <2>2. w.do = "loaded" /\ w.call = top.call /\ w.index = top.index
    BY <2>1 DEF LoadedFrame
  <2>3. x # None => Unattached(top.call)'
    BY <1>1, <1>2, <1>3, <1>5 DEF Suits
  <2>4. Suits(w, x)'
    BY <1>1, <1>2, <1>3, <2>2, <2>3, SameFileSuits
  <2>5. PICK new, n : new = <<w>> /\ n = 1
    OBVIOUS
  <2>6. n = Len(new) /\ new[1] = w /\ \A k \in 1 .. n : k = 1
    BY <2>5
  <2>7. \A k \in 1 .. n : new[k].do # "ran" /\ Suits(new[k], x)'
    <3> SUFFICES ASSUME NEW k \in 1 .. n PROVE new[k].do # "ran" /\ Suits(new[k], x)'
      OBVIOUS
    <3>1. new[k] = w
      BY <2>6
    <3> QED BY <2>2, <2>4, <3>1
  <2>8. Puts(new)
    BY <1>2, <1>12, <2>1, <2>5
  <2> QED BY <1>11, <2>6, <2>7, <2>8
<1>13. CASE Puts(<<>>)
  <2>1. PICK new, n : new = <<>> /\ n = 0
    OBVIOUS
  <2>2. n = Len(new) /\ Puts(new)
    BY <1>13, <2>1
  <2>3. \A k \in 1 .. n : new[k].do # "ran" /\ Suits(new[k], x)'
    BY <2>1
  <2> QED BY <1>11, <2>2, <2>3
<1> QED BY <1>1, <1>12, <1>13

(* The thread begins something when no script is current.                   *)
LEMMA IdleContexts ==
  ASSUME Types, NEW ctx, Contexts(ctx), work = <<>>, current' = current, NEW w, w = work',
         Len(w) \in Nat, DOMAIN w = 1 .. Len(w), \A k \in 1 .. Len(w) : w[k].do # "ran"
  PROVE  \E c : Contexts(c)'
<1>1. current' = None
  <2>1. Len(work) = 0
    OBVIOUS
  <2> QED BY <2>1 DEF Contexts
<1>2. PICK c : c = [k \in 1 .. Len(w) + 1 |-> None]
  OBVIOUS
<1>3. /\ c \in [1 .. Len(w) + 1 -> Files \cup {None}] /\ DOMAIN c = 1 .. Len(w) + 1
      /\ \A k \in 1 .. Len(w) + 1 : c[k] = None
  BY <1>2
<1>4. c[1] = None /\ c[Len(w) + 1] = None
  <2>1. 1 \in 1 .. Len(w) + 1 /\ Len(w) + 1 \in 1 .. Len(w) + 1
    OBVIOUS
  <2> QED BY <1>3, <2>1
<1>5. \A k \in 1 .. Len(w) : k \in 1 .. Len(w) + 1 /\ k + 1 \in 1 .. Len(w) + 1
  OBVIOUS
<1>6. \A k \in DOMAIN w : w[k].do # "ran" /\ c[k] = None /\ c[k + 1] = None
  BY <1>3, <1>5
<1>7. \A k \in DOMAIN work' : (Turn(work[k], c[k], c[k + 1]) /\ Suits(work[k], c[k + 1]))'
  BY <1>6 DEF Turn, Suits
<1>8. \A k \in DOMAIN work' : work'[k].do # "ran"
  BY <1>6
<1> QED BY <1>1, <1>3, <1>4, <1>7, <1>8 DEF Contexts

LEMMA WaitingContexts ==
  ASSUME Types, Ask \/ Timer \/ \E f \in Files : Answer(f), NEW ctx, Contexts(ctx)
  PROVE  \E c : Contexts(c)'
<1>1. PICK w : w = work'
  OBVIOUS
<1>2. CASE Ask
  <2>1. PICK list : w = <<RequireFrame(list, None)>>
    BY <1>1, <1>2 DEF Ask
  <2>2. PICK r : r = RequireFrame(list, None)
    OBVIOUS
  <2>3. w = <<r>> /\ r.do = "require"
    BY <2>1, <2>2 DEF RequireFrame
  <2>4. Len(w) \in Nat /\ DOMAIN w = 1 .. Len(w) /\ \A k \in 1 .. Len(w) : w[k].do # "ran"
    BY <2>3
  <2> QED BY <1>1, <1>2, <2>4, IdleContexts DEF Ask
<1>3. CASE Timer
  <2>1. PICK t : w = <<NotifyFrame(t[1], t[2])>>
    BY <1>1, <1>3 DEF Timer
  <2>2. PICK r : r = NotifyFrame(t[1], t[2])
    OBVIOUS
  <2>3. w = <<r>> /\ r.do = "notify"
    BY <2>1, <2>2 DEF NotifyFrame
  <2>4. Len(w) \in Nat /\ DOMAIN w = 1 .. Len(w) /\ \A k \in 1 .. Len(w) : w[k].do # "ran"
    BY <2>3
  <2> QED BY <1>1, <1>3, <2>4, IdleContexts DEF Timer
<1>4. ASSUME NEW f \in Files, Answer(f)
      PROVE  \E c : Contexts(c)'
  <2>1. Len(w) = Len(waiters[f]) /\ Len(waiters[f]) \in Nat /\ work = <<>> /\ w \in Seq(Frame')
        /\ \A k \in 1 .. Len(waiters[f]) : w[k] = ProcessFrame(waiters[f][k][1], waiters[f][k][2])
    BY <1>1, <1>4, AnswerWork DEF WorkType
  <2>2. DOMAIN w = 1 .. Len(w) /\ \A k \in 1 .. Len(w) : w[k].do # "ran"
    <3>1. \A c, i : ProcessFrame(c, i).do # "ran"
      BY DEF ProcessFrame
    <3>2. w \in Seq(Frame')
      BY <2>1
    <3>3. DOMAIN w = 1 .. Len(w)
      BY <3>2, LenProperties
    <3> QED BY <2>1, <3>1, <3>3
  <2>3. current' = current /\ Len(w) \in Nat
    BY <1>4, <2>1 DEF Answer
  <2> QED BY <1>1, <2>1, <2>2, <2>3, IdleContexts
<1> QED BY <1>2, <1>3, <1>4

LEMMA StillContexts ==
  ASSUME Types, Grows, UNCHANGED <<groups, stacks, current, work>>, NEW ctx, Contexts(ctx)
  PROVE  Contexts(ctx)'
<1>1. PICK w : w = work
  OBVIOUS
<1>2. work' = w
  BY <1>1
<1>3. /\ DOMAIN w = 1 .. Len(w) /\ \A k \in DOMAIN w : w[k] \in Frame
      /\ \A k \in DOMAIN w : FileFrame(w[k]) => IsSlot(w[k].call, w[k].index)
  <2>1. w \in Seq(Frame)
    BY <1>1 DEF Types
  <2>2. DOMAIN w = 1 .. Len(w) /\ \A k \in DOMAIN w : w[k] \in Frame
    BY <2>1, ElementOfSeq, LenProperties
  <2>3. \A k \in DOMAIN w : FileFrame(w[k]) => IsSlot(w[k].call, w[k].index)
    BY <1>1 DEF Types, FileFrame
  <2> QED BY <2>2, <2>3
<1>4. \A k \in DOMAIN work' : (Turn(work[k], ctx[k], ctx[k + 1]) /\ Suits(work[k], ctx[k + 1]))'
  <2> SUFFICES ASSUME NEW k \in DOMAIN w, NEW v, v = w[k]
               PROVE  Turn(v, ctx[k], ctx[k + 1])' /\ Suits(v, ctx[k + 1])'
    BY <1>2 DEF Turn, Suits, FileFrame, FileOf, Unattached, Below
  <2>1. Turn(v, ctx[k], ctx[k + 1]) /\ Suits(v, ctx[k + 1])
    BY <1>1 DEF Contexts
  <2>2. v \in Frame /\ (FileFrame(v) => IsSlot(v.call, v.index))
    BY <1>3
  <2>3. ctx[k + 1] # None /\ v.do # "require" => Unattached(v.call)'
    BY <2>1 DEF Suits, Unattached
  <2> QED BY <2>1, <2>2, <2>3, SuitsStays, TurnStays
<1>5. \A k \in DOMAIN w : w[k].do = "ran" /\ Deps[ctx[k]] # <<>> =>
         Required(ctx[k])' \/ \E j \in 1 .. k - 1 : Requested(ctx[k], w[j], ctx[j])'
  <2> SUFFICES ASSUME NEW k \in DOMAIN w, w[k].do = "ran", Deps[ctx[k]] # <<>>
               PROVE  Required(ctx[k])' \/ \E j \in 1 .. k - 1 : Requested(ctx[k], w[j], ctx[j])'
    OBVIOUS
  <2>1. CASE Required(ctx[k])
    <3>1. ctx[k] = FileOf(w[k])
      BY <1>1, <2>1 DEF Contexts, Turn
    <3>2. FileOf(w[k]) \in Files
      <4>1. w[k].call \in CallIds /\ w[k].index \in DOMAIN calls[w[k].call].files
        BY <1>3 DEF IsSlot, FileFrame
      <4>2. calls[w[k].call].files \in Seq(Files)
        BY <4>1, CallFields
      <4> QED BY <4>1, <4>2, ElementOfSeq, LenProperties DEF FileOf
    <3>3. ctx[k] \in DOMAIN stacks
      <4>1. ctx \in [1 .. Len(w) + 1 -> Files \cup {None}] /\ ctx[k] # None
        BY <1>1, <3>1, <3>2, ListsAssumption DEF Contexts
      <4>2. k \in DOMAIN ctx
        BY <1>3, <4>1
      <4> QED BY <4>1, <4>2 DEF Contexts
    <3>4. stacks[ctx[k]] \subseteq CallIds
      BY <3>3 DEF Types
    <3> QED BY <2>1, <3>4 DEF Required, Grows
  <2>2. ASSUME NEW j \in 1 .. k - 1, Requested(ctx[k], w[j], ctx[j])
        PROVE  Requested(ctx[k], w[j], ctx[j])'
    <3>1. PICK v : v = w[j]
      OBVIOUS
    <3>2. Len(w) \in Nat
      BY <1>1, LenProperties DEF Types
    <3>3. j \in DOMAIN w
      BY <1>3, <3>2
    <3>4. v \in Frame
      BY <1>3, <3>1, <3>3
    <3>5. Requested(ctx[k], v, ctx[j])'
      BY <2>2, <3>1, <3>4, RequestedStays
    <3> QED BY <3>1, <3>5
  <2>3. Required(ctx[k]) \/ \E j \in 1 .. k - 1 : Requested(ctx[k], w[j], ctx[j])
    BY <1>1 DEF Contexts
  <2> QED BY <2>1, <2>2, <2>3
<1>6. \A k \in DOMAIN work' : work'[k].do = "ran" /\ Deps[ctx[k]] # <<>> =>
         (Required(ctx[k]) \/ \E j \in 1 .. k - 1 : Requested(ctx[k], work[j], ctx[j]))'
  BY <1>2, <1>5 DEF Requested
<1>7. /\ ctx \in [1 .. Len(work') + 1 -> Files \cup {None}] /\ ctx[1] = current' /\ ctx[Len(work') + 1] = None
      /\ \A j, k \in DOMAIN ctx : j <= k /\ ctx[k] # None => ctx[j] # None /\ Depth[ctx[j]] <= Depth[ctx[k]]
      /\ \A k \in DOMAIN ctx : ctx[k] # None => ctx[k] \in DOMAIN stacks'
  BY DEF Contexts
<1> QED BY <1>4, <1>6, <1>7 DEF Contexts

LEMMA AttachedStep ==
  ASSUME Types, Grows, AttachedLast, NEW new, Puts(new),
         \A k \in 1 .. Len(new) : new[k].do = "attach" => k = Len(new) /\ new[k].call \notin CallIds
  PROVE  AttachedLast'
<1>1. PICK old, w, n : old = work /\ w = work' /\ n = Len(new)
  OBVIOUS
<1>2. /\ Len(old) \in Nat \ {0} /\ DOMAIN old = 1 .. Len(old) /\ n \in Nat
      /\ \A k \in 1 .. Len(old) : old[k].do # "require" => old[k].call \in CallIds
      /\ w \in Seq(Frame')
      /\ Len(w) = n + Len(old) - 1
      /\ \A k \in 1 .. n : w[k] = new[k]
      /\ \A k \in n + 1 .. Len(w) : k - n + 1 \in 2 .. Len(old) /\ w[k] = old[k - n + 1]
  <2>1. old \in Seq(Frame) /\ new \in Seq(Frame') /\ work # <<>>
    BY <1>1 DEF Puts, Types
  <2>2. old \in Seq(Frame')
    BY <2>1, FrameGrows, SeqMonotonic
  <2>3. /\ w \in Seq(Frame')
        /\ Len(w) = n + Len(old) - 1
        /\ \A k \in 1 .. n : w[k] = new[k]
        /\ \A k \in n + 1 .. Len(w) : k - n + 1 \in 2 .. Len(old) /\ w[k] = old[k - n + 1]
    BY <1>1, <2>1, <2>2, ProceedWork DEF Puts
  <2>4. Len(old) \in Nat \ {0} /\ DOMAIN old = 1 .. Len(old) /\ n \in Nat
    BY <1>1, <2>1, LenProperties, EmptySeq
  <2>5. \A k \in 1 .. Len(old) : old[k].do # "require" => old[k].call \in CallIds
    <3>1. \A k \in 1 .. Len(old) : old[k] \in Frame
      BY <2>1, ElementOfSeq
    <3> QED BY <3>1, FrameFields
  <2> QED BY <2>3, <2>4, <2>5
<1>3. DOMAIN w = 1 .. Len(w) /\ Len(w) \in Nat
  BY <1>2, LenProperties
<1>4. ASSUME NEW j \in DOMAIN w, NEW k \in DOMAIN w, j < k, w[j].do = "attach", w[k].do # "require"
      PROVE  w[k].call # w[j].call
  <2>1. CASE j <= n
    <3>1. j \in 1 .. n /\ w[j] = new[j]
      BY <1>2, <1>3, <2>1
    <3>2. j = n /\ new[j].call \notin CallIds
      BY <1>1, <1>4, <3>1
    <3>3. k \in n + 1 .. Len(w)
      BY <1>2, <1>3, <1>4, <3>2
    <3>4. k - n + 1 \in 1 .. Len(old) /\ w[k] = old[k - n + 1]
      BY <1>2, <3>3
    <3> QED BY <1>2, <1>4, <3>1, <3>2, <3>4
  <2>2. CASE ~(j <= n)
    <3>1. j \in n + 1 .. Len(w) /\ k \in n + 1 .. Len(w)
      BY <1>2, <1>3, <1>4, <2>2
    <3>2. j - n + 1 \in DOMAIN old /\ k - n + 1 \in DOMAIN old /\ j - n + 1 < k - n + 1
      BY <1>2, <1>4, <3>1
    <3>3. w[j] = old[j - n + 1] /\ w[k] = old[k - n + 1]
      BY <1>2, <3>1
    <3> QED BY <1>1, <1>4, <3>2, <3>3 DEF AttachedLast
  <2> QED BY <2>1, <2>2
<1> QED BY <1>1, <1>4 DEF AttachedLast

LEMMA AttachedStays ==
  ASSUME Types, AttachedLast, Next
  PROVE  AttachedLast'
<1>0. Grows
  BY StepGrows
<1>1. \A c, i, f :
        /\ LoadedFrame(c, i).do # "attach" /\ ProcessFrame(c, i).do # "attach"
        /\ RanFrame(c, i, f).do # "attach" /\ RequireFrame(c, i).do # "attach"
        /\ CallbackFrame(c).do # "attach" /\ CompleteFrame(c).do # "attach"
        /\ NotifyFrame(c, i).do # "attach" /\ HandleFrame(c, i).do # "attach"
  BY DEF LoadedFrame, ProcessFrame, RanFrame, RequireFrame, CallbackFrame, CompleteFrame, NotifyFrame,
         HandleFrame
<1>2. ASSUME Puts(<<>>)
      PROVE  AttachedLast'
  <2>1. PICK new : new = <<>>
    OBVIOUS
  <2>2. Len(new) = 0
    BY <2>1
  <2> QED BY <1>0, <1>2, <2>1, <2>2, AttachedStep
<1>3. ASSUME NEW w, w.do # "attach", Puts(<<w>>)
      PROVE  AttachedLast'
  <2>1. PICK new : new = <<w>>
    OBVIOUS
  <2>2. Len(new) = 1 /\ new[1] = w
    BY <2>1
  <2>3. \A k \in 1 .. Len(new) : new[k].do # "attach"
    <3> SUFFICES ASSUME NEW k \in 1 .. Len(new) PROVE new[k].do # "attach"
      OBVIOUS
    <3>1. new[k] = w
      BY <2>2
    <3> QED BY <1>3, <3>1
  <2> QED BY <1>0, <1>3, <2>1, <2>3, AttachedStep
<1>4. ASSUME NEW v, NEW w, v.do # "attach", w.do # "attach", Puts(<<v, w>>)
      PROVE  AttachedLast'
  <2>1. PICK new : new = <<v, w>>
    OBVIOUS
  <2>2. Len(new) = 2 /\ new[1] = v /\ new[2] = w
    BY <2>1
  <2>3. \A k \in 1 .. Len(new) : new[k].do # "attach"
    <3> SUFFICES ASSUME NEW k \in 1 .. 2 PROVE new[k].do # "attach"
      BY <2>2
    <3>1. new[k] = v \/ new[k] = w
      BY <2>2
    <3> QED BY <1>4, <3>1
  <2> QED BY <1>0, <1>4, <2>1, <2>3, AttachedStep
<1>5. CASE Begin
  <2>1. PICK new, c, m : /\ Puts(new) /\ c = Len(calls) + 1 /\ m = Len(Top.list)
                         /\ Len(new) = m + 1 /\ m \in Nat
                         /\ \A i \in 1 .. m : new[i] = HandleFrame(c, i)
                         /\ new[m + 1] = AttachFrame(c)
    BY <1>5, BeginPuts
  <2>2. c \notin CallIds
    BY <2>1, CallIdsNat
  <2>3. \A k \in 1 .. Len(new) : new[k].do = "attach" => k = Len(new) /\ new[k].call \notin CallIds
    <3> SUFFICES ASSUME NEW k \in 1 .. m + 1, new[k].do = "attach"
                 PROVE  k = m + 1 /\ new[k].call \notin CallIds
      BY <2>1
    <3>1. k = m + 1
      <4>1. k \in 1 .. m \/ k = m + 1
        BY <2>1
      <4> QED BY <1>1, <2>1, <4>1
    <3>2. new[k] = AttachFrame(c)
      BY <2>1, <3>1
    <3> QED BY <2>2, <3>1, <3>2 DEF AttachFrame
  <2> QED BY <1>0, <2>1, <2>3, AttachedStep
<1>6. CASE Handle
  BY <1>1, <1>2, <1>3, <1>6, HandlePuts
<1>7. CASE Attach
  BY <1>2, <1>7, AttachPuts
<1>8. CASE Process
  BY <1>1, <1>3, <1>4, <1>8, ProcessPuts
<1>9. CASE Ran
  BY <1>1, <1>2, <1>3, <1>9, RanPuts
<1>10. CASE Loaded
  BY <1>1, <1>2, <1>4, <1>10, LoadedPuts
<1>11. CASE CallBack
  BY <1>1, <1>2, <1>3, <1>11, CallBackPuts
<1>12. CASE Complete
  <2>1. PICK told, c : Puts(NotifyFrames(told, c)) /\ Len(NotifyFrames(told, c)) \in Nat
                       /\ DOMAIN told = 1 .. Len(NotifyFrames(told, c))
    <3>1. PICK told \in [1 .. Cardinality(Observing(Top.call)) -> Observing(Top.call)] :
            /\ Cardinality(Observing(Top.call)) \in Nat
            /\ Puts(NotifyFrames(told, Top.call))
            /\ Len(NotifyFrames(told, Top.call)) = Cardinality(Observing(Top.call))
      BY <1>12, CompletePuts
    <3> QED BY <3>1
  <2>2. PICK new : new = NotifyFrames(told, c)
    OBVIOUS
  <2>3. \A k \in 1 .. Len(new) : new[k].do # "attach"
    <3> SUFFICES ASSUME NEW k \in 1 .. Len(new) PROVE new[k].do # "attach"
      OBVIOUS
    <3>1. new[k] = NotifyFrame(told[k], c)
      BY <2>1, <2>2 DEF NotifyFrames
    <3> QED BY <1>1, <3>1
  <2> QED BY <1>0, <2>1, <2>2, <2>3, AttachedStep
<1>13. CASE Notify
  BY <1>1, <1>2, <1>3, <1>13, NotifyPuts
<1>14. ASSUME \A k \in DOMAIN work' : work'[k].do # "attach"
       PROVE  AttachedLast'
  BY <1>14 DEF AttachedLast
<1>15. CASE Ask
  <2>1. PICK list : work' = <<RequireFrame(list, None)>>
    BY <1>15 DEF Ask
  <2>2. \A k \in DOMAIN work' : work'[k] = RequireFrame(list, None)
    BY <2>1
  <2> QED BY <1>1, <1>14, <2>2
<1>16. CASE Timer
  <2>1. PICK t : work' = <<NotifyFrame(t[1], t[2])>>
    BY <1>16 DEF Timer
  <2>2. \A k \in DOMAIN work' : work'[k] = NotifyFrame(t[1], t[2])
    BY <2>1
  <2> QED BY <1>1, <1>14, <2>2
<1>17. ASSUME NEW f \in Files, Answer(f)
       PROVE  AttachedLast'
  <2>1. work' = [k \in DOMAIN waiters[f] |-> ProcessFrame(waiters[f][k][1], waiters[f][k][2])]
    BY <1>17 DEF Answer
  <2>2. \A k \in DOMAIN work' : work'[k] = ProcessFrame(waiters[f][k][1], waiters[f][k][2])
    BY <2>1
  <2> QED BY <1>1, <1>14, <2>2
<1>18. ASSUME NEW f \in Files, Fail(f)
       PROVE  AttachedLast'
  BY <1>18 DEF AttachedLast, Fail
<1> QED BY <1>5, <1>6, <1>7, <1>8, <1>9, <1>10, <1>11, <1>12, <1>13, <1>15, <1>16, <1>17, <1>18
        DEF Next, Thread

(* The inductive invariant behind StackFound.                               *)
InContext == AttachedLast /\ \E ctx : Contexts(ctx)

LEMMA InContextPreserved == Types /\ InContext /\ [Next]_vars => InContext'
<1>1. ASSUME Types, InContext, Next
      PROVE  InContext'
  <2>0. Grows
    BY <1>1, StepGrows
  <2>1. AttachedLast'
    BY <1>1, AttachedStays DEF InContext
  <2>2. PICK ctx : Contexts(ctx)
    BY <1>1 DEF InContext
  <2>3. \E c : Contexts(c)'
    <3>1. CASE Begin
      BY <1>1, <2>2, <3>1, BeginContexts
    <3>2. CASE Handle
      BY <1>1, <2>2, <3>2, HandleContexts
    <3>3. CASE Attach
      BY <1>1, <2>2, <3>3, AttachContexts DEF InContext
    <3>4. CASE Process
      BY <1>1, <2>2, <3>4, ProcessContexts
    <3>5. CASE Ran
      BY <1>1, <2>2, <3>5, RanContexts
    <3>6. CASE Loaded
      BY <1>1, <2>2, <3>6, LoadedContexts
    <3>7. CASE CallBack
      BY <1>1, <2>2, <3>7, CallBackContexts
    <3>8. CASE Complete
      BY <1>1, <2>2, <3>8, CompleteContexts
    <3>9. CASE Notify
      BY <1>1, <2>2, <3>9, NotifyContexts
    <3>10. CASE Ask \/ Timer \/ \E f \in Files : Answer(f)
      BY <1>1, <2>2, <3>10, WaitingContexts
    <3>11. ASSUME NEW f \in Files, Fail(f)
           PROVE  \E c : Contexts(c)'
      <4>1. UNCHANGED <<groups, stacks, current, work>>
        BY <3>11 DEF Fail
      <4> QED BY <1>1, <2>0, <2>2, <4>1, StillContexts
    <3> QED BY <1>1, <3>1, <3>2, <3>3, <3>4, <3>5, <3>6, <3>7, <3>8, <3>9, <3>10, <3>11
            DEF Next, Thread
  <2> QED BY <2>1, <2>3 DEF InContext
<1>2. ASSUME Types, InContext, UNCHANGED vars
      PROVE  InContext'
  <2>1. Grows /\ UNCHANGED <<groups, stacks, current, work>>
    BY <1>2, Unchanging DEF vars
  <2>2. PICK ctx : Contexts(ctx)
    BY <1>2 DEF InContext
  <2>3. Contexts(ctx)'
    BY <1>2, <2>1, <2>2, StillContexts
  <2>4. AttachedLast'
    BY <1>2, <2>1 DEF InContext, AttachedLast
  <2> QED BY <2>3, <2>4 DEF InContext
<1> QED BY <1>1, <1>2

LEMMA InitInContext == Init => InContext
<1> SUFFICES ASSUME Init PROVE InContext
  OBVIOUS
<1>1. work = <<>> /\ current = None /\ DOMAIN work = {} /\ Len(work) = 0
  BY DEF Init
<1>2. PICK c : c = [k \in 1 .. 1 |-> None]
  OBVIOUS
<1>3. c \in [1 .. Len(work) + 1 -> Files \cup {None}] /\ DOMAIN c = {1} /\ c[1] = None
  BY <1>1, <1>2
<1>4. Contexts(c)
  BY <1>1, <1>3 DEF Contexts
<1>5. AttachedLast
  BY <1>1 DEF AttachedLast
<1> QED BY <1>4, <1>5 DEF InContext

(***************************************************************************)
(* When require() puts a call on the stack of the current script, that     *)
(* script has one, although onLoadFn() of any execution of a script        *)
(* deletes the stack of all; and when the thread is idle no script is      *)
(* current.                                                                *)
(***************************************************************************)
THEOREM StackAlwaysFound == Spec => []StackFound
<1>1. Init => Types /\ InContext
  BY InitTypes, InitInContext
<1>2. Types /\ InContext /\ [Next]_vars => (Types /\ InContext)'
  BY TypesPreserved, InContextPreserved
<1>3. Types /\ InContext => StackFound
  <2> SUFFICES ASSUME Types, InContext PROVE StackFound
    OBVIOUS
  <2>1. PICK ctx : Contexts(ctx)
    BY DEF InContext
  <2>2. work # <<>> /\ current # None => current \in DOMAIN stacks
    <3> SUFFICES ASSUME work # <<>>, current # None PROVE current \in DOMAIN stacks
      OBVIOUS
    <3>1. PICK old : old = work
      OBVIOUS
    <3>2. 1 \in 1 .. Len(old) + 1
      BY <2>1, <3>1, ContextFacts
    <3> QED BY <2>1, <3>1, <3>2, ContextFacts
  <2>3. work = <<>> => current = None
    <3> SUFFICES ASSUME work = <<>> PROVE current = None
      OBVIOUS
    <3>1. Len(work) = 0
      OBVIOUS
    <3> QED BY <2>1, <3>1 DEF Contexts
  <2> QED BY <2>2, <2>3 DEF StackFound, Running
<1> QED BY <1>1, <1>2, <1>3, PTL DEF Spec

-----------------------------------------------------------------------------
(* Keys: the file of a call, the call or the notification that a frame is   *)
(* there to deal with.  Each is dealt with once.                            *)

Slot(c, i) == <<"file", c, i>>
NotifyKey(g, c) == <<"notify", g, c>>
CompleteKey(c) == <<"complete", c, 0>>

Keyed(w) == FileFrame(w) \/ w.do \in {"notify", "complete"}
Key(w) ==
  IF FileFrame(w) THEN Slot(w.call, w.index)
  ELSE IF w.do = "notify" THEN NotifyKey(w.group, w.call) ELSE CompleteKey(w.call)

OnceEach(s) == \A j, k \in DOMAIN s : Keyed(s[j]) /\ Keyed(s[k]) /\ Key(s[j]) = Key(s[k]) => j = k
KeysOf(s) == {Key(s[k]) : k \in {k \in DOMAIN s : Keyed(s[k])}}

LEMMA DifferentKeys ==
  /\ \A c, i, d, j : Slot(c, i) = Slot(d, j) <=> c = d /\ i = j
  /\ \A g, c, h, d : NotifyKey(g, c) = NotifyKey(h, d) <=> g = h /\ c = d
  /\ \A c, d : CompleteKey(c) = CompleteKey(d) <=> c = d
  /\ \A c, i, g, d : Slot(c, i) # NotifyKey(g, d) /\ Slot(c, i) # CompleteKey(d)
                     /\ NotifyKey(c, i) # CompleteKey(d)
<1>1. \A c, i, d, j : Slot(c, i) = Slot(d, j) <=> c = d /\ i = j
  BY DEF Slot
<1>2. \A g, c, h, d : NotifyKey(g, c) = NotifyKey(h, d) <=> g = h /\ c = d
  BY DEF NotifyKey
<1>3. \A c, d : CompleteKey(c) = CompleteKey(d) <=> c = d
  BY DEF CompleteKey
<1>4. \A c, i, g, d : Slot(c, i) # NotifyKey(g, d) /\ Slot(c, i) # CompleteKey(d)
                      /\ NotifyKey(c, i) # CompleteKey(d)
  BY DEF Slot, NotifyKey, CompleteKey
<1> QED BY <1>1, <1>2, <1>3, <1>4

LEMMA KeysOfNone == OnceEach(<<>>) /\ KeysOf(<<>>) = {}
BY NoFrame DEF OnceEach, KeysOf

LEMMA KeysOfOne ==
  ASSUME NEW w
  PROVE  OnceEach(<<w>>) /\ KeysOf(<<w>>) = IF Keyed(w) THEN {Key(w)} ELSE {}
<1>1. PICK s : s = <<w>>
  OBVIOUS
<1>2. DOMAIN s = {1} /\ s[1] = w
  BY <1>1
<1>3. OnceEach(s) /\ KeysOf(s) = IF Keyed(w) THEN {Key(w)} ELSE {}
  BY <1>2 DEF OnceEach, KeysOf
<1> QED BY <1>1, <1>3

LEMMA KeysOfTwo ==
  ASSUME NEW v, NEW w, ~Keyed(v)
  PROVE  OnceEach(<<v, w>>) /\ KeysOf(<<v, w>>) = IF Keyed(w) THEN {Key(w)} ELSE {}
<1>1. PICK s : s = <<v, w>>
  OBVIOUS
<1>2. DOMAIN s = {1, 2} /\ s[1] = v /\ s[2] = w
  BY <1>1
<1>3. OnceEach(s) /\ KeysOf(s) = IF Keyed(w) THEN {Key(w)} ELSE {}
  BY <1>2 DEF OnceEach, KeysOf
<1> QED BY <1>1, <1>3

(* The keys of the frames but the first one. *)
RestKeys == KeysOf(work) \ (IF Keyed(Top) THEN {Key(Top)} ELSE {})

LEMMA KeysStep ==
  ASSUME Types, Grows, OnceEach(work), NEW new, Puts(new), OnceEach(new),
         KeysOf(new) \cap RestKeys = {}
  PROVE  OnceEach(work') /\ KeysOf(work') = KeysOf(new) \cup RestKeys
<1>1. PICK old, w, n : old = work /\ w = work' /\ n = Len(new)
  OBVIOUS
<1>2. /\ Len(old) \in Nat \ {0} /\ DOMAIN old = 1 .. Len(old) /\ n \in Nat /\ DOMAIN new = 1 .. n
      /\ w \in Seq(Frame')
      /\ Len(w) = n + Len(old) - 1
      /\ \A k \in 1 .. n : w[k] = new[k]
      /\ \A k \in n + 1 .. Len(w) : k - n + 1 \in 2 .. Len(old) /\ w[k] = old[k - n + 1]
      /\ Top = old[1]
  <2>1. old \in Seq(Frame) /\ new \in Seq(Frame') /\ work # <<>>
    BY <1>1 DEF Puts, Types
  <2>2. old \in Seq(Frame')
    BY <2>1, FrameGrows, SeqMonotonic
  <2>3. /\ w \in Seq(Frame')
        /\ Len(w) = n + Len(old) - 1
        /\ \A k \in 1 .. n : w[k] = new[k]
        /\ \A k \in n + 1 .. Len(w) : k - n + 1 \in 2 .. Len(old) /\ w[k] = old[k - n + 1]
    BY <1>1, <2>1, <2>2, ProceedWork DEF Puts
  <2>4. Len(old) \in Nat \ {0} /\ DOMAIN old = 1 .. Len(old) /\ n \in Nat /\ DOMAIN new = 1 .. n
    BY <1>1, <2>1, LenProperties, EmptySeq
  <2>5. Top = old[1]
    BY <1>1, <2>1, TopFacts
  <2> QED BY <2>3, <2>4, <2>5
<1>3. DOMAIN w = 1 .. Len(w) /\ Len(w) \in Nat
  BY <1>2, LenProperties
<1>4. \A k \in 2 .. Len(old) : k \in DOMAIN old /\ k # 1 /\ k + n - 1 \in n + 1 .. Len(w)
                              /\ (k + n - 1) - n + 1 = k /\ k + n - 1 \in DOMAIN w
  BY <1>2, <1>3
<1>5. 1 \in DOMAIN old
  BY <1>2
<1>6. OnceEach(old)
  BY <1>1
<1>7. \A k \in 2 .. Len(old) : Keyed(old[k]) => Key(old[k]) \in RestKeys
  <2> SUFFICES ASSUME NEW k \in 2 .. Len(old), Keyed(old[k])
               PROVE  Key(old[k]) \in RestKeys
    OBVIOUS
  <2>1. Key(old[k]) \in KeysOf(old)
    BY <1>4 DEF KeysOf
  <2>2. Keyed(Top) => Key(old[k]) # Key(Top)
    BY <1>2, <1>4, <1>5, <1>6 DEF OnceEach
  <2> QED BY <1>1, <2>1, <2>2 DEF RestKeys
<1>8. \A s \in RestKeys : \E k \in 2 .. Len(old) : Keyed(old[k]) /\ Key(old[k]) = s
  <2> SUFFICES ASSUME NEW s \in RestKeys
               PROVE  \E k \in 2 .. Len(old) : Keyed(old[k]) /\ Key(old[k]) = s
    OBVIOUS
  <2>1. PICK k \in DOMAIN old : Keyed(old[k]) /\ Key(old[k]) = s
    BY <1>1 DEF RestKeys, KeysOf
  <2>2. k # 1
    BY <1>2, <2>1 DEF RestKeys
  <2> QED BY <1>2, <2>1, <2>2
<1>9. PICK rest : rest = RestKeys
  OBVIOUS
<1>10. \A k \in DOMAIN w :
         \/ k \in 1 .. n /\ k \in DOMAIN new /\ w[k] = new[k]
         \/ /\ k \in n + 1 .. Len(w) /\ k - n + 1 \in 2 .. Len(old) /\ w[k] = old[k - n + 1]
            /\ k - n + 1 \in DOMAIN old
  <2> SUFFICES ASSUME NEW k \in DOMAIN w
               PROVE  \/ k \in 1 .. n /\ k \in DOMAIN new /\ w[k] = new[k]
                      \/ /\ k \in n + 1 .. Len(w) /\ k - n + 1 \in 2 .. Len(old) /\ w[k] = old[k - n + 1]
                         /\ k - n + 1 \in DOMAIN old
    OBVIOUS
  <2>1. k \in 1 .. n \/ k \in n + 1 .. Len(w)
    BY <1>2, <1>3
  <2> QED BY <1>2, <1>4, <2>1
<1>11. \A k \in 1 .. n : Keyed(new[k]) => Key(new[k]) \in KeysOf(new)
  BY <1>2 DEF KeysOf
<1>12. OnceEach(w)
  <2> SUFFICES ASSUME NEW j \in DOMAIN w, NEW k \in DOMAIN w, Keyed(w[j]), Keyed(w[k]), Key(w[j]) = Key(w[k])
               PROVE  j = k
    BY DEF OnceEach
  <2>1. CASE j \in 1 .. n /\ k \in 1 .. n
    BY <1>2, <2>1 DEF OnceEach
  <2>2. CASE j \in 1 .. n /\ k \in n + 1 .. Len(w)
    BY <1>2, <1>7, <1>11, <2>2
  <2>3. CASE j \in n + 1 .. Len(w) /\ k \in 1 .. n
    BY <1>2, <1>7, <1>11, <2>3
  <2>4. CASE j \in n + 1 .. Len(w) /\ k \in n + 1 .. Len(w)
    <3>1. j - n + 1 \in DOMAIN old /\ k - n + 1 \in DOMAIN old
      BY <1>2, <1>4, <2>4
    <3>2. w[j] = old[j - n + 1] /\ w[k] = old[k - n + 1]
      BY <1>2, <2>4
    <3>3. j - n + 1 = k - n + 1
      BY <1>6, <3>1, <3>2 DEF OnceEach
    <3> QED BY <1>2, <1>3, <3>3
  <2> QED BY <1>10, <2>1, <2>2, <2>3, <2>4
<1>13. ASSUME NEW s \in KeysOf(w)
       PROVE  s \in KeysOf(new) \cup rest
  <2>1. PICK k \in DOMAIN w : Keyed(w[k]) /\ s = Key(w[k])
    BY DEF KeysOf
  <2> QED BY <1>7, <1>9, <1>10, <1>11, <2>1
<1>14. ASSUME NEW s \in KeysOf(new)
       PROVE  s \in KeysOf(w)
  <2>1. PICK k \in DOMAIN new : Keyed(new[k]) /\ s = Key(new[k])
    BY DEF KeysOf
  <2>2. k \in DOMAIN w /\ w[k] = new[k]
    BY <1>2, <1>3, <2>1
  <2> QED BY <2>1, <2>2 DEF KeysOf
<1>15. ASSUME NEW s \in rest
       PROVE  s \in KeysOf(w)
  <2>1. PICK k \in 2 .. Len(old) : Keyed(old[k]) /\ s = Key(old[k])
    BY <1>8, <1>9
  <2>2. PICK j : j = k + n - 1
    OBVIOUS
  <2>3. j \in DOMAIN w /\ w[j] = old[k]
    BY <1>2, <1>4, <2>2
  <2> QED BY <2>1, <2>3 DEF KeysOf
<1> QED BY <1>1, <1>9, <1>12, <1>13, <1>14, <1>15

Keys == KeysOf(work)

(* Who waits for the contents of f, and for a script's requires.            *)
Awaits(f) == {Slot(waiters[f][k][1], waiters[f][k][2]) : k \in DOMAIN waiters[f]}
Awaited == UNION {Awaits(f) : f \in Files}

Open == {g \in DOMAIN groups : groups[g].nbrNotifications < Cardinality(groups[g].on)}
GroupSlot(g) == Slot(groups[g].call, groups[g].index)
Grouped == {GroupSlot(g) : g \in Open}

Held == Keys \cup Awaited \cup Grouped

WaitOnce ==
  \A f, h \in Files : \A j \in DOMAIN waiters[f], k \in DOMAIN waiters[h] :
    Slot(waiters[f][j][1], waiters[f][j][2]) = Slot(waiters[h][k][1], waiters[h][k][2]) => f = h /\ j = k
GroupOnce == \A g, h \in Open : GroupSlot(g) = GroupSlot(h) => g = h

(* A file of a call that is not loaded yet is in one place.                 *)
Tokens ==
  /\ OnceEach(work) /\ WaitOnce /\ GroupOnce
  /\ Keys \cap Awaited = {} /\ Keys \cap Grouped = {} /\ Awaited \cap Grouped = {}

(* What most steps leave alone. *)
PlainKeys ==
  /\ \A g, c : NotifyKey(g, c) \in Keys' => NotifyKey(g, c) \in Keys
  /\ \A c : CompleteKey(c) \in Keys' => CompleteKey(c) \in Keys
  /\ \A c \in CallIds : \A i : Slot(c, i) \in Held' => Slot(c, i) \in Held

LEMMA FrameKeys ==
  /\ \A c, i : /\ Keyed(HandleFrame(c, i)) /\ Key(HandleFrame(c, i)) = Slot(c, i)
              /\ Keyed(ProcessFrame(c, i)) /\ Key(ProcessFrame(c, i)) = Slot(c, i)
              /\ Keyed(LoadedFrame(c, i)) /\ Key(LoadedFrame(c, i)) = Slot(c, i)
  /\ \A c, i, f : Keyed(RanFrame(c, i, f)) /\ Key(RanFrame(c, i, f)) = Slot(c, i)
  /\ \A c : ~Keyed(AttachFrame(c)) /\ ~Keyed(CallbackFrame(c))
  /\ \A c : Keyed(CompleteFrame(c)) /\ Key(CompleteFrame(c)) = CompleteKey(c)
  /\ \A g, c : Keyed(NotifyFrame(g, c)) /\ Key(NotifyFrame(g, c)) = NotifyKey(g, c)
  /\ \A list, o : ~Keyed(RequireFrame(list, o))
<1>1. \A c, i : /\ Keyed(HandleFrame(c, i)) /\ Key(HandleFrame(c, i)) = Slot(c, i)
               /\ Keyed(ProcessFrame(c, i)) /\ Key(ProcessFrame(c, i)) = Slot(c, i)
               /\ Keyed(LoadedFrame(c, i)) /\ Key(LoadedFrame(c, i)) = Slot(c, i)
  BY DEF HandleFrame, ProcessFrame, LoadedFrame, Keyed, Key, FileFrame
<1>2. \A c, i, f : Keyed(RanFrame(c, i, f)) /\ Key(RanFrame(c, i, f)) = Slot(c, i)
  BY DEF RanFrame, Keyed, Key, FileFrame
<1>3. \A c : ~Keyed(AttachFrame(c)) /\ ~Keyed(CallbackFrame(c))
  BY DEF AttachFrame, CallbackFrame, Keyed, FileFrame
<1>4. \A c : Keyed(CompleteFrame(c)) /\ Key(CompleteFrame(c)) = CompleteKey(c)
  BY DEF CompleteFrame, Keyed, Key, FileFrame
<1>5. \A g, c : Keyed(NotifyFrame(g, c)) /\ Key(NotifyFrame(g, c)) = NotifyKey(g, c)
  BY DEF NotifyFrame, Keyed, Key, FileFrame
<1>6. \A list, o : ~Keyed(RequireFrame(list, o))
  BY DEF RequireFrame, Keyed, FileFrame
<1> QED BY <1>1, <1>2, <1>3, <1>4, <1>5, <1>6

LEMMA HeldSlots ==
  ASSUME Types
  PROVE  /\ \A s \in Awaited \cup Grouped : \E c, i : s = Slot(c, i) /\ IsSlot(c, i)
         /\ \A c, i : Slot(c, i) \in Held => IsSlot(c, i)
<1>1. ASSUME NEW s \in Awaited
      PROVE  \E c, i : s = Slot(c, i) /\ IsSlot(c, i)
  <2>1. PICK f \in Files : s \in Awaits(f)
    BY DEF Awaited
  <2>2. PICK k \in DOMAIN waiters[f] : s = Slot(waiters[f][k][1], waiters[f][k][2])
    BY <2>1 DEF Awaits
  <2>3. IsSlot(waiters[f][k][1], waiters[f][k][2])
    BY <2>2 DEF Types
  <2> QED BY <2>2, <2>3
<1>2. ASSUME NEW s \in Grouped
      PROVE  \E c, i : s = Slot(c, i) /\ IsSlot(c, i)
  <2>1. PICK g \in DOMAIN groups : s = Slot(groups[g].call, groups[g].index)
    BY DEF Grouped, GroupSlot, Open
  <2> QED BY <2>1, GroupFields
<1>3. ASSUME NEW c, NEW i, Slot(c, i) \in Keys
      PROVE  IsSlot(c, i)
  <2>1. PICK k \in DOMAIN work : Keyed(work[k]) /\ Slot(c, i) = Key(work[k])
    BY <1>3 DEF Keys, KeysOf
  <2>2. FileFrame(work[k]) /\ Slot(c, i) = Slot(work[k].call, work[k].index)
    BY <2>1, DifferentKeys DEF Key, Keyed
  <2>3. c = work[k].call /\ i = work[k].index
    BY <2>2, DifferentKeys
  <2> QED BY <2>2, <2>3 DEF Types
<1>4. \A c, i : Slot(c, i) \in Held => IsSlot(c, i)
  <2> SUFFICES ASSUME NEW c, NEW i, Slot(c, i) \in Awaited \cup Grouped PROVE IsSlot(c, i)
    BY <1>3 DEF Held
  <2>1. PICK d, j : Slot(c, i) = Slot(d, j) /\ IsSlot(d, j)
    BY <1>1, <1>2
  <2>2. c = d /\ i = j
    BY <2>1, DifferentKeys
  <2> QED BY <2>1, <2>2
<1> QED BY <1>1, <1>2, <1>4

LEMMA TopKey ==
  ASSUME Types, work # <<>>
  PROVE  /\ Keyed(Top) => Key(Top) \in Keys /\ Keys = RestKeys \cup {Key(Top)} /\ Key(Top) \notin RestKeys
         /\ ~Keyed(Top) => RestKeys = Keys
         /\ FileFrame(Top) => Keyed(Top) /\ Key(Top) = Slot(Top.call, Top.index)
         /\ RestKeys \subseteq Keys
<1>1. 1 \in DOMAIN work /\ Top = work[1]
  BY TopFacts
<1>2. Keyed(Top) => Key(Top) \in Keys
  BY <1>1 DEF Keys, KeysOf
<1>3. FileFrame(Top) => Keyed(Top) /\ Key(Top) = Slot(Top.call, Top.index)
  BY DEF Keyed, Key
<1> QED BY <1>2, <1>3 DEF RestKeys, Keys

(* When waiters and groups are left alone. *)
LEMMA StillTokens ==
  ASSUME Tokens, waiters' = waiters, groups' = groups, OnceEach(work'),
         KeysOf(work') \cap (Awaited \cup Grouped) = {}
  PROVE  Tokens' /\ Awaited' = Awaited /\ Grouped' = Grouped
<1>1. PICK w : w = work'
  OBVIOUS
<1>2. Open' = Open
  BY DEF Open
<1>3. Awaited' = Awaited
  BY DEF Awaited, Awaits
<1>4. Grouped' = Grouped
  BY <1>2 DEF Grouped, GroupSlot
<1>5. WaitOnce'
  BY DEF Tokens, WaitOnce
<1>6. GroupOnce'
  BY <1>2 DEF Tokens, GroupOnce, GroupSlot
<1>7. Awaited \cap Grouped = {}
  BY DEF Tokens
<1> QED BY <1>3, <1>4, <1>5, <1>6, <1>7 DEF Tokens, Keys

LEMMA SameKeys ==
  ASSUME Types, Tokens, Grows, waiters' = waiters, groups' = groups,
         NEW new, Puts(new), OnceEach(new), KeysOf(new) = Keys \ RestKeys
  PROVE  Tokens' /\ PlainKeys
<1>1. RestKeys \subseteq Keys
  BY DEF RestKeys, Keys
<1>2. OnceEach(work') /\ KeysOf(work') = Keys
  <2>1. OnceEach(work') /\ KeysOf(work') = KeysOf(new) \cup RestKeys
    BY KeysStep DEF Tokens
  <2> QED BY <1>1, <2>1
<1>3. Tokens' /\ Awaited' = Awaited /\ Grouped' = Grouped
  BY <1>2, StillTokens DEF Tokens
<1> QED BY <1>2, <1>3 DEF PlainKeys, Held, Keys

LEMMA BeginTokens ==
  ASSUME Types, Tokens, Begin
  PROVE  Tokens' /\ PlainKeys
<1>1. work # <<>> /\ Top.do = "require" /\ Grows /\ waiters' = waiters /\ groups' = groups
  BY BeginCalls DEF Begin, Running
<1>2. ~Keyed(Top)
  BY <1>1 DEF Keyed, FileFrame
<1>3. PICK new, id, n :
        /\ Puts(new) /\ n \in Nat /\ id \notin CallIds /\ Len(new) = n + 1
        /\ \A i \in 1 .. n : new[i] = HandleFrame(id, i)
        /\ new[n + 1] = AttachFrame(id)
  <2>1. Len(calls) + 1 \notin CallIds
    BY CallIdsNat
  <2> QED BY <2>1, BeginPuts
<1>4. DOMAIN new = 1 .. n + 1
  BY <1>3, LenProperties DEF Puts
<1>5. \A i \in 1 .. n : Keyed(new[i]) /\ Key(new[i]) = Slot(id, i)
  BY <1>3, FrameKeys
<1>6. ~Keyed(new[n + 1])
  BY <1>3, FrameKeys
<1>7. \A k \in DOMAIN new : Keyed(new[k]) => k \in 1 .. n
  BY <1>3, <1>4, <1>6
<1>8. OnceEach(new)
  BY <1>5, <1>7, DifferentKeys DEF OnceEach
<1>9. \A s \in KeysOf(new) : \E i : s = Slot(id, i)
  BY <1>5, <1>7 DEF KeysOf
<1>10. \A i : Slot(id, i) \notin Held
  BY <1>3, HeldSlots DEF IsSlot
<1>11. OnceEach(work') /\ KeysOf(work') = KeysOf(new) \cup Keys
  <2>1. RestKeys = Keys
    BY <1>1, <1>2, TopKey
  <2>2. KeysOf(new) \cap RestKeys = {}
    BY <1>9, <1>10, <2>1 DEF Held
  <2> QED BY <1>1, <1>3, <1>8, <2>1, <2>2, KeysStep DEF Tokens
<1>12. KeysOf(work') \cap (Awaited \cup Grouped) = {}
  BY <1>9, <1>10, <1>11 DEF Tokens, Held
<1>13. Tokens' /\ Awaited' = Awaited /\ Grouped' = Grouped
  BY <1>1, <1>11, <1>12, StillTokens
<1>14. /\ \A g, c : NotifyKey(g, c) \in Keys' => NotifyKey(g, c) \in Keys
       /\ \A c : CompleteKey(c) \in Keys' => CompleteKey(c) \in Keys
       /\ \A c \in CallIds : \A i : Slot(c, i) \in Keys' => Slot(c, i) \in Keys
  BY <1>3, <1>9, <1>11, DifferentKeys DEF Keys
<1> QED BY <1>13, <1>14 DEF PlainKeys, Held

LEMMA HandleTokens ==
  ASSUME Types, Tokens, Handle
  PROVE  Tokens' /\ PlainKeys
<1>1. /\ work # <<>> /\ Top.do = "handle" /\ FileFrame(Top) /\ Grows /\ groups' = groups /\ File \in Files
      /\ Keyed(Top) /\ Key(Top) = Slot(Top.call, Top.index) /\ Key(Top) \in Keys
      /\ Keys = RestKeys \cup {Key(Top)} /\ Key(Top) \notin RestKeys
  <2>1. work # <<>> /\ Top.do = "handle" /\ FileFrame(Top) /\ Grows /\ groups' = groups
    BY Unchanging DEF Handle, Running, FileFrame
  <2> QED BY <2>1, TopFacts, TopKey
<1>2. PICK top, kt, f : top = Top /\ kt = Slot(top.call, top.index) /\ f = File
  OBVIOUS
<1>3. CASE waiters' = waiters /\ Puts(<<LoadedFrame(Top.call, Top.index)>>)
  <2>1. PICK w : w = LoadedFrame(top.call, top.index)
    OBVIOUS
  <2>2. OnceEach(<<w>>) /\ KeysOf(<<w>>) = {kt}
    <3>1. Keyed(w) /\ Key(w) = kt
      BY <1>2, <2>1, FrameKeys
    <3> QED BY <3>1, KeysOfOne
  <2> QED BY <1>1, <1>2, <1>3, <2>1, <2>2, SameKeys
<1>4. CASE waiters' = waiters /\ Puts(<<ProcessFrame(Top.call, Top.index)>>)
  <2>1. PICK w : w = ProcessFrame(top.call, top.index)
    OBVIOUS
  <2>2. OnceEach(<<w>>) /\ KeysOf(<<w>>) = {kt}
    <3>1. Keyed(w) /\ Key(w) = kt
      BY <1>2, <2>1, FrameKeys
    <3> QED BY <3>1, KeysOfOne
  <2> QED BY <1>1, <1>2, <1>4, <2>1, <2>2, SameKeys
<1>5. CASE /\ waiters' = [waiters EXCEPT ![File] = Append(@, <<Top.call, Top.index>>)]
           /\ Puts(<<>>)
  <2>1. OnceEach(work') /\ KeysOf(work') = RestKeys
    BY <1>1, <1>5, KeysStep, KeysOfNone DEF Tokens
  <2>2. PICK u, p : u = Append(waiters[f], p) /\ p = <<top.call, top.index>>
    OBVIOUS
  <2>3. /\ waiters[f] \in Seq(CallIds \X Nat) /\ p \in CallIds \X Nat /\ Len(waiters[f]) \in Nat
        /\ DOMAIN waiters[f] = 1 .. Len(waiters[f])
    <3>1. waiters[f] \in Seq(CallIds \X Nat) /\ Top \in Frame
      BY <1>1, <1>2, TopFacts DEF Types
    <3>2. top.call \in CallIds /\ top.index \in Nat
      BY <1>1, <1>2, <3>1, FrameFields
    <3> QED BY <2>2, <3>1, <3>2, LenProperties
  <2>4. /\ DOMAIN u = 1 .. Len(waiters[f]) + 1
        /\ \A k \in DOMAIN waiters[f] : u[k] = waiters[f][k]
        /\ u[Len(waiters[f]) + 1] = p
    <3>1. /\ u \in Seq(CallIds \X Nat) /\ Len(u) = Len(waiters[f]) + 1
          /\ \A k \in 1 .. Len(waiters[f]) : u[k] = waiters[f][k]
          /\ u[Len(waiters[f]) + 1] = p
      BY <2>2, <2>3, AppendProperties
    <3> QED BY <2>3, <3>1, LenProperties
  <2>5. p[1] = top.call /\ p[2] = top.index
    BY <2>2
  <2>6. \A h \in Files : waiters'[h] = IF h = f THEN u ELSE waiters[h]
    BY <1>2, <1>5, <2>2 DEF Types
  <2>7. \A h \in Files : \A k \in DOMAIN waiters'[h] :
          \/ k \in DOMAIN waiters[h] /\ waiters'[h][k] = waiters[h][k]
          \/ /\ h = f /\ k = Len(waiters[f]) + 1 /\ k \notin DOMAIN waiters[h]
             /\ Slot(waiters'[h][k][1], waiters'[h][k][2]) = kt
    <3> SUFFICES ASSUME NEW h \in Files, NEW k \in DOMAIN waiters'[h]
                 PROVE  \/ k \in DOMAIN waiters[h] /\ waiters'[h][k] = waiters[h][k]
                        \/ /\ h = f /\ k = Len(waiters[f]) + 1 /\ k \notin DOMAIN waiters[h]
                           /\ Slot(waiters'[h][k][1], waiters'[h][k][2]) = kt
      OBVIOUS
    <3>1. CASE h # f
      BY <2>6, <3>1
    <3>2. CASE h = f
      <4>1. waiters'[h] = u
        BY <2>6, <3>2
      <4>2. k \in 1 .. Len(waiters[f]) + 1
        BY <2>4, <4>1
      <4>3. CASE k \in DOMAIN waiters[f]
        BY <2>4, <3>2, <4>1, <4>3
      <4>4. CASE k \notin DOMAIN waiters[f]
        <5>1. k = Len(waiters[f]) + 1
          BY <2>3, <4>2, <4>4
        <5>2. waiters'[h][k] = p
          BY <2>4, <4>1, <5>1
        <5> QED BY <1>2, <2>5, <3>2, <4>4, <5>1, <5>2
      <4> QED BY <4>3, <4>4
    <3> QED BY <3>1, <3>2
  <2>8. \A h \in Files : \A k \in DOMAIN waiters[h] : Slot(waiters[h][k][1], waiters[h][k][2]) \in Awaited
    BY DEF Awaited, Awaits
  <2>9. kt \notin Awaited /\ kt \notin Grouped
    BY <1>1, <1>2 DEF Tokens
  <2>10. WaitOnce'
    <3> SUFFICES ASSUME NEW g \in Files, NEW h \in Files,
                        NEW j \in DOMAIN waiters'[g], NEW k \in DOMAIN waiters'[h],
                        Slot(waiters'[g][j][1], waiters'[g][j][2]) = Slot(waiters'[h][k][1], waiters'[h][k][2])
                 PROVE  g = h /\ j = k
      BY DEF WaitOnce
    <3>1. CASE j \in DOMAIN waiters[g] /\ k \in DOMAIN waiters[h]
      <4>1. waiters'[g][j] = waiters[g][j] /\ waiters'[h][k] = waiters[h][k]
        BY <2>7, <3>1
      <4> QED BY <3>1, <4>1 DEF Tokens, WaitOnce
    <3>2. CASE j \in DOMAIN waiters[g] /\ k \notin DOMAIN waiters[h]
      BY <2>7, <2>8, <2>9, <3>2
    <3>3. CASE j \notin DOMAIN waiters[g] /\ k \in DOMAIN waiters[h]
      BY <2>7, <2>8, <2>9, <3>3
    <3>4. CASE j \notin DOMAIN waiters[g] /\ k \notin DOMAIN waiters[h]
      BY <2>7, <3>4
    <3> QED BY <3>1, <3>2, <3>3, <3>4
  <2>11. \A s \in Awaited' : s \in Awaited \/ s = kt
    <3> SUFFICES ASSUME NEW s \in Awaited' PROVE s \in Awaited \/ s = kt
      OBVIOUS
    <3>1. PICK h \in Files : \E k \in DOMAIN waiters'[h] : s = Slot(waiters'[h][k][1], waiters'[h][k][2])
      BY DEF Awaited, Awaits
    <3>2. PICK k \in DOMAIN waiters'[h] : s = Slot(waiters'[h][k][1], waiters'[h][k][2])
      BY <3>1
    <3> QED BY <2>7, <2>8, <3>2
  <2>12. Open' = Open /\ Grouped' = Grouped
    BY <1>1 DEF Open, Grouped, GroupSlot
  <2>13. GroupOnce'
    BY <1>1, <2>12 DEF Tokens, GroupOnce, GroupSlot
  <2>14. kt \notin RestKeys /\ RestKeys \subseteq Keys /\ kt \in Keys
    BY <1>1, <1>2
  <2>15. Tokens'
    <3>1. Keys' \cap Awaited' = {} /\ Keys' \cap Grouped' = {} /\ Awaited' \cap Grouped' = {}
      BY <2>1, <2>9, <2>11, <2>12, <2>14 DEF Tokens, Keys
    <3> QED BY <2>1, <2>10, <2>13, <3>1 DEF Tokens
  <2>16. \A s \in Held' : s \in Held
    BY <2>1, <2>11, <2>12, <2>14 DEF Held, Keys
  <2> QED BY <2>1, <2>14, <2>15, <2>16 DEF PlainKeys, Keys
<1> QED BY <1>3, <1>4, <1>5, HandlePuts

LEMMA AttachTokens ==
  ASSUME Types, Tokens, Attach
  PROVE  Tokens' /\ PlainKeys
<1>1. /\ work # <<>> /\ Top.do = "attach" /\ Puts(<<>>) /\ Grows
      /\ waiters' = waiters /\ groups' = groups
  BY AttachPuts
<1>2. ~Keyed(Top)
  BY <1>1 DEF Keyed, FileFrame
<1>3. KeysOf(<<>>) = Keys \ RestKeys
  BY <1>1, <1>2, KeysOfNone, TopKey
<1>4. PICK new : new = <<>>
  OBVIOUS
<1> QED BY <1>1, <1>3, <1>4, KeysOfNone, SameKeys

LEMMA CallBackTokens ==
  ASSUME Types, Tokens, CallBack
  PROVE  Tokens' /\ PlainKeys
<1>1. /\ work # <<>> /\ Top.do = "callback" /\ Grows /\ waiters' = waiters /\ groups' = groups
  BY CallBackPuts, Unchanging DEF CallBack
<1>2. ~Keyed(Top)
  BY <1>1 DEF Keyed, FileFrame
<1>3. Keys \ RestKeys = {}
  BY <1>1, <1>2, TopKey
<1>4. \E n : Puts(n) /\ (n = <<>> \/ \E list, o : n = <<RequireFrame(list, o)>>)
  BY CallBackPuts
<1>5. PICK n : Puts(n) /\ (n = <<>> \/ \E list, o : n = <<RequireFrame(list, o)>>)
  BY <1>4
<1>6. OnceEach(n) /\ KeysOf(n) = {}
  <2>1. CASE n = <<>>
    BY <2>1, KeysOfNone
  <2>2. ASSUME NEW list, NEW o, n = <<RequireFrame(list, o)>>
        PROVE  OnceEach(n) /\ KeysOf(n) = {}
    <3>1. PICK w : w = RequireFrame(list, o)
      OBVIOUS
    <3>2. ~Keyed(w)
      BY <3>1, FrameKeys
    <3> QED BY <2>2, <3>1, <3>2, KeysOfOne
  <2> QED BY <1>5, <2>1, <2>2
<1> QED BY <1>1, <1>3, <1>5, <1>6, SameKeys

LEMMA ProcessTokens ==
  ASSUME Types, Tokens, Process
  PROVE  Tokens' /\ PlainKeys
<1>1. /\ work # <<>> /\ Top.do = "process" /\ FileFrame(Top) /\ Grows
      /\ waiters' = waiters /\ groups' = groups
      /\ Keys \ RestKeys = {Slot(Top.call, Top.index)}
  <2>1. work # <<>> /\ Top.do = "process" /\ FileFrame(Top) /\ Grows
        /\ waiters' = waiters /\ groups' = groups
    BY Unchanging DEF Process, Running, FileFrame
  <2> QED BY <2>1, TopKey
<1>2. PICK top, x, f : top = Top /\ x = current /\ f = File
  OBVIOUS
<1>3. PICK w, r, q : /\ w = LoadedFrame(top.call, top.index) /\ r = RanFrame(top.call, top.index, x)
                     /\ q = RequireFrame(Deps[f], f)
  OBVIOUS
<1>4. Puts(<<w>>) \/ Puts(<<r>>) \/ Puts(<<q, r>>)
  BY <1>2, <1>3, ProcessPuts
<1>5. /\ OnceEach(<<w>>) /\ KeysOf(<<w>>) = {Slot(top.call, top.index)}
      /\ OnceEach(<<r>>) /\ KeysOf(<<r>>) = {Slot(top.call, top.index)}
      /\ OnceEach(<<q, r>>) /\ KeysOf(<<q, r>>) = {Slot(top.call, top.index)}
  <2>1. /\ Keyed(w) /\ Key(w) = Slot(top.call, top.index)
        /\ Keyed(r) /\ Key(r) = Slot(top.call, top.index)
        /\ ~Keyed(q)
    BY <1>3, FrameKeys
  <2> QED BY <2>1, KeysOfOne, KeysOfTwo
<1>6. \E n : Puts(n) /\ OnceEach(n) /\ KeysOf(n) = Keys \ RestKeys
  BY <1>1, <1>2, <1>4, <1>5
<1> QED BY <1>1, <1>6, SameKeys

LEMMA RanTokens ==
  ASSUME Types, Tokens, Ran
  PROVE  Tokens' /\ PlainKeys
<1>1. /\ work # <<>> /\ Top.do = "ran" /\ FileFrame(Top) /\ Grows /\ waiters' = waiters
      /\ Keyed(Top) /\ Key(Top) = Slot(Top.call, Top.index) /\ Key(Top) \in Keys
      /\ Keys = RestKeys \cup {Key(Top)} /\ Key(Top) \notin RestKeys
  <2>1. work # <<>> /\ Top.do = "ran" /\ FileFrame(Top) /\ waiters' = waiters
    BY RanCases DEF FileFrame
  <2> QED BY <2>1, TopKey, RanPuts
<1>2. PICK top, kt : top = Top /\ kt = Slot(top.call, top.index)
  OBVIOUS
<1>3. CASE groups' = groups /\ Proceed(<<LoadedFrame(Top.call, Top.index)>>)
  <2>1. PICK w : w = LoadedFrame(top.call, top.index)
    OBVIOUS
  <2>2. OnceEach(<<w>>) /\ KeysOf(<<w>>) = {kt}
    <3>1. Keyed(w) /\ Key(w) = kt
      BY <1>2, <2>1, FrameKeys
    <3> QED BY <3>1, KeysOfOne
  <2>3. Puts(<<w>>)
    BY <1>1, <1>2, <1>3, <2>1, FilePuts
  <2>4. KeysOf(<<w>>) = Keys \ RestKeys
    BY <1>1, <1>2, <2>2
  <2> QED BY <1>1, <1>3, <2>2, <2>3, <2>4, SameKeys
<1>4. CASE groups' = Append(groups, RanGroup) /\ Proceed(<<>>)
  <2>1. OnceEach(work') /\ KeysOf(work') = RestKeys
    <3>1. Puts(<<>>)
      BY <1>1, <1>4, EmptyPuts
    <3> QED BY <1>1, <3>1, KeysStep, KeysOfNone DEF Tokens
  <2>2. PICK m : m = Len(groups) + 1
    OBVIOUS
  <2>3. /\ DOMAIN groups' = 1 .. m /\ DOMAIN groups = 1 .. Len(groups) /\ Len(groups) \in Nat
        /\ \A g \in DOMAIN groups : groups'[g] = groups[g]
        /\ groups'[m] = RanGroup
    BY <1>4, <2>2, RanGroups
  <2>4. \A g \in DOMAIN groups' : g \in DOMAIN groups \/ g = m
    BY <2>2, <2>3
  <2>5. \A g \in Open' : \/ g \in Open /\ GroupSlot(g)' = GroupSlot(g)
                         \/ g = m /\ GroupSlot(g)' = kt
    <3> SUFFICES ASSUME NEW g \in Open'
                 PROVE  \/ g \in Open /\ GroupSlot(g)' = GroupSlot(g)
                        \/ g = m /\ GroupSlot(g)' = kt
      OBVIOUS
    <3>1. g \in DOMAIN groups' /\ groups'[g].nbrNotifications < Cardinality(groups'[g].on)
      BY DEF Open
    <3>2. CASE g \in DOMAIN groups
      BY <2>3, <3>1, <3>2 DEF Open, GroupSlot
    <3>3. CASE g = m
      BY <1>2, <2>3, <3>3 DEF GroupSlot, RanGroup
    <3> QED BY <2>4, <3>1, <3>2, <3>3
  <2>6. \A g \in Open : GroupSlot(g) \in Grouped
    BY DEF Grouped
  <2>7. kt \notin Awaited /\ kt \notin Grouped /\ kt \notin RestKeys /\ kt \in Keys
    BY <1>1, <1>2 DEF Tokens
  <2>8. GroupOnce'
    <3> SUFFICES ASSUME NEW g \in Open', NEW h \in Open', GroupSlot(g)' = GroupSlot(h)'
                 PROVE  g = h
      BY DEF GroupOnce, GroupSlot
    <3> QED BY <2>5, <2>6, <2>7 DEF Tokens, GroupOnce
  <2>9. \A s \in Grouped' : s \in Grouped \/ s = kt
    <3> SUFFICES ASSUME NEW s \in Grouped' PROVE s \in Grouped \/ s = kt
      OBVIOUS
    <3>1. PICK g \in Open' : s = GroupSlot(g)'
      BY DEF Grouped, GroupSlot
    <3> QED BY <2>5, <2>6, <3>1
  <2>10. Awaited' = Awaited
    BY <1>1 DEF Awaited, Awaits
  <2>11. WaitOnce'
    BY <1>1 DEF Tokens, WaitOnce
  <2>12. Tokens'
    <3>1. Keys' \cap Awaited' = {} /\ Keys' \cap Grouped' = {} /\ Awaited' \cap Grouped' = {}
      BY <1>1, <2>1, <2>7, <2>9, <2>10 DEF Tokens, Keys
    <3> QED BY <2>1, <2>8, <2>11, <3>1 DEF Tokens
  <2>13. \A s \in Held' : s \in Held
    BY <1>1, <2>1, <2>7, <2>9, <2>10 DEF Held, Keys
  <2>14. Keys' \subseteq Keys
    BY <1>1, <2>1 DEF Keys
  <2> QED BY <2>12, <2>13, <2>14 DEF PlainKeys
<1> QED BY <1>3, <1>4, RanCases

(* The file is loaded for good; the call that has all of its files is       *)
(* completed once.                                                          *)
LEMMA LoadedTokens ==
  ASSUME Types, Tokens, Loaded,
         calls[Top.call].loadedFiles + 1 = Len(calls[Top.call].files) => CompleteKey(Top.call) \notin Keys
  PROVE  /\ Tokens'
         /\ \A g, c : NotifyKey(g, c) \in Keys' => NotifyKey(g, c) \in Keys
         /\ \A c : CompleteKey(c) \in Keys' =>
              \/ CompleteKey(c) \in Keys
              \/ c = Top.call /\ calls[c].loadedFiles + 1 = Len(calls[c].files)
         /\ \A c, i : Slot(c, i) \in Held' => Slot(c, i) \in Held /\ Slot(c, i) # Slot(Top.call, Top.index)
         /\ Slot(Top.call, Top.index) \in Held
<1>1. /\ work # <<>> /\ Top.do = "loaded" /\ Grows /\ waiters' = waiters /\ groups' = groups
      /\ FileFrame(Top)
  BY LoadedPuts DEF Loaded, FileFrame
<1>2. PICK top, kt : top = Top /\ kt = Slot(top.call, top.index)
  OBVIOUS
<1>3. kt \in Keys /\ Keys = RestKeys \cup {kt} /\ kt \notin RestKeys
  BY <1>1, <1>2, TopKey
<1>4. \E extra : /\ OnceEach(work') /\ KeysOf(work') = RestKeys \cup extra
                 /\ \/ extra = {}
                    \/ /\ extra = {CompleteKey(top.call)}
                       /\ calls[top.call].loadedFiles + 1 = Len(calls[top.call].files)
  <2>1. CASE /\ calls[Top.call].loadedFiles + 1 = Len(calls[Top.call].files)
             /\ Puts(<<CallbackFrame(Top.call), CompleteFrame(Top.call)>>)
    <3>1. PICK v, w : v = CallbackFrame(top.call) /\ w = CompleteFrame(top.call)
      OBVIOUS
    <3>2. ~Keyed(v) /\ Keyed(w) /\ Key(w) = CompleteKey(top.call)
      BY <3>1, FrameKeys
    <3>3. PICK n : n = <<v, w>>
      OBVIOUS
    <3>4. OnceEach(n) /\ KeysOf(n) = {CompleteKey(top.call)}
      BY <3>2, <3>3, KeysOfTwo
    <3>5. Puts(n) /\ KeysOf(n) \cap RestKeys = {}
      BY <1>2, <1>3, <2>1, <3>1, <3>3, <3>4
    <3> QED BY <1>1, <1>2, <2>1, <3>4, <3>5, KeysStep DEF Tokens
  <2>2. CASE Puts(<<>>)
    BY <1>1, <2>2, KeysOfNone, KeysStep DEF Tokens
  <2> QED BY <2>1, <2>2, LoadedPuts
<1>5. PICK extra : /\ OnceEach(work') /\ KeysOf(work') = RestKeys \cup extra
                   /\ \/ extra = {}
                      \/ /\ extra = {CompleteKey(top.call)}
                         /\ calls[top.call].loadedFiles + 1 = Len(calls[top.call].files)
  BY <1>4
<1>6. CompleteKey(top.call) \notin Awaited \cup Grouped
  BY HeldSlots, DifferentKeys
<1>7. Tokens' /\ Awaited' = Awaited /\ Grouped' = Grouped
  <2>1. KeysOf(work') \cap (Awaited \cup Grouped) = {}
    BY <1>3, <1>5, <1>6 DEF Tokens
  <2> QED BY <1>1, <1>5, <2>1, StillTokens
<1>8. \A s \in Keys' : (s \in Keys /\ s # kt) \/ s \in extra
  BY <1>3, <1>5 DEF Keys
<1>9. \A g, c : NotifyKey(g, c) \in Keys' => NotifyKey(g, c) \in Keys
  BY <1>5, <1>8, DifferentKeys
<1>10. \A c : CompleteKey(c) \in Keys' =>
              \/ CompleteKey(c) \in Keys
              \/ c = Top.call /\ calls[c].loadedFiles + 1 = Len(calls[c].files)
  BY <1>2, <1>5, <1>8, DifferentKeys
<1>11. \A c, i : Slot(c, i) \in Held' => Slot(c, i) \in Held /\ Slot(c, i) # kt
  <2> SUFFICES ASSUME NEW c, NEW i, Slot(c, i) \in Held'
               PROVE  Slot(c, i) \in Held /\ Slot(c, i) # kt
    OBVIOUS
  <2>1. CASE Slot(c, i) \in Keys'
    BY <1>5, <1>8, <2>1, DifferentKeys DEF Held
  <2>2. CASE Slot(c, i) \in Awaited \cup Grouped
    BY <1>3, <2>2 DEF Held, Tokens
  <2> QED BY <1>7, <2>1, <2>2 DEF Held
<1> QED BY <1>2, <1>3, <1>7, <1>9, <1>10, <1>11 DEF Held

LEMMA CompleteTokens ==
  ASSUME Types, Tokens, Complete, \A g : NotifyKey(g, Top.call) \notin Keys
  PROVE  /\ Tokens'
         /\ \A g, c : NotifyKey(g, c) \in Keys' =>
              NotifyKey(g, c) \in Keys \/ (c = Top.call /\ g \in Observing(c))
         /\ \A c : CompleteKey(c) \in Keys' => CompleteKey(c) \in Keys /\ c # Top.call
         /\ \A c, i : Slot(c, i) \in Held' => Slot(c, i) \in Held
         /\ CompleteKey(Top.call) \in Keys
<1>1. work # <<>> /\ Top.do = "complete" /\ Grows /\ waiters' = waiters /\ groups' = groups
  BY CompletePuts DEF Complete
<1>2. PICK top, id, kt : top = Top /\ id = top.call /\ kt = CompleteKey(id)
  OBVIOUS
<1>3. kt \in Keys /\ Keys = RestKeys \cup {kt} /\ kt \notin RestKeys
  <2>1. Keyed(Top) /\ Key(Top) = kt
    BY <1>1, <1>2 DEF Keyed, Key, FileFrame
  <2> QED BY <1>1, <2>1, TopKey
<1>4. PICK told, new, n :
        /\ n = Cardinality(Observing(id)) /\ n \in Nat /\ told \in [1 .. n -> Observing(id)]
        /\ \A i, k \in DOMAIN told : i < k => told[i] < told[k]
        /\ new = NotifyFrames(told, id) /\ Puts(new)
  BY <1>2, CompletePuts
<1>5. /\ DOMAIN new = 1 .. n
      /\ \A k \in 1 .. n : told[k] \in Observing(id) /\ Keyed(new[k]) /\ Key(new[k]) = NotifyKey(told[k], id)
  <2>1. DOMAIN new = 1 .. n /\ \A k \in 1 .. n : new[k] = NotifyFrame(told[k], id)
    BY <1>4 DEF NotifyFrames
  <2> QED BY <1>4, <2>1, FrameKeys
<1>6. OnceEach(new)
  <2> SUFFICES ASSUME NEW j \in 1 .. n, NEW k \in 1 .. n, Key(new[j]) = Key(new[k])
               PROVE  j = k
    BY <1>5 DEF OnceEach
  <2>1. told[j] = told[k]
    BY <1>5, DifferentKeys
  <2>2. told[j] \in Nat
    <3>1. told[j] \in DOMAIN groups
      BY <1>5 DEF Observing
    <3>2. DOMAIN groups = 1 .. Len(groups)
      BY LenProperties DEF Types
    <3> QED BY <3>1, <3>2
  <2>3. ~(j < k) /\ ~(k < j)
    BY <1>4, <2>1, <2>2
  <2> QED BY <2>3
<1>7. \A s \in KeysOf(new) : \E g \in Observing(id) : s = NotifyKey(g, id)
  BY <1>5 DEF KeysOf
<1>8. OnceEach(work') /\ KeysOf(work') = KeysOf(new) \cup RestKeys
  <2>1. KeysOf(new) \cap RestKeys = {}
    BY <1>2, <1>3, <1>7
  <2> QED BY <1>1, <1>4, <1>6, <2>1, KeysStep DEF Tokens
<1>9. Tokens' /\ Awaited' = Awaited /\ Grouped' = Grouped
  <2>1. \A s \in Awaited \cup Grouped : \E c, i : s = Slot(c, i)
    BY HeldSlots
  <2>2. KeysOf(new) \cap (Awaited \cup Grouped) = {}
    BY <1>7, <2>1, DifferentKeys
  <2>3. KeysOf(work') \cap (Awaited \cup Grouped) = {}
    BY <1>3, <1>8, <2>2 DEF Tokens
  <2> QED BY <1>1, <1>8, <2>3, StillTokens
<1>10. \A s \in Keys' : (s \in Keys /\ s # kt) \/ \E g \in Observing(id) : s = NotifyKey(g, id)
  BY <1>3, <1>7, <1>8 DEF Keys
<1>11. \A g, c : NotifyKey(g, c) \in Keys' =>
              NotifyKey(g, c) \in Keys \/ (c = id /\ g \in Observing(c))
  BY <1>10, DifferentKeys
<1>12. \A c : CompleteKey(c) \in Keys' => CompleteKey(c) \in Keys /\ c # id
  BY <1>2, <1>10, DifferentKeys
<1>13. \A c, i : Slot(c, i) \in Held' => Slot(c, i) \in Held
  BY <1>9, <1>10, DifferentKeys DEF Held
<1> QED BY <1>2, <1>3, <1>9, <1>11, <1>12, <1>13

LEMMA NotifyTokens ==
  ASSUME Types, Tokens, Notify, Top.group \in Open
  PROVE  /\ Tokens'
         /\ \A g, c : NotifyKey(g, c) \in Keys' =>
              NotifyKey(g, c) \in Keys /\ NotifyKey(g, c) # NotifyKey(Top.group, Top.call)
         /\ \A c : CompleteKey(c) \in Keys' => CompleteKey(c) \in Keys
         /\ \A c, i : Slot(c, i) \in Held' => Slot(c, i) \in Held
<1>1. /\ work # <<>> /\ Top.do = "notify" /\ Grows /\ waiters' = waiters /\ calls' = calls
      /\ DOMAIN groups' = DOMAIN groups
      /\ \A g \in DOMAIN groups :
           /\ groups'[g].call = groups[g].call /\ groups'[g].index = groups[g].index
           /\ groups'[g].on = groups[g].on
           /\ groups'[g].nbrNotifications =
                IF g = Top.group THEN groups[g].nbrNotifications + 1 ELSE groups[g].nbrNotifications
  <2>1. work # <<>> /\ Top.do = "notify" /\ waiters' = waiters /\ calls' = calls
    BY DEF Notify, Running
  <2> QED BY <2>1, NotifyGroups DEF Grows
<1>2. PICK top, id, kt : top = Top /\ id = top.group /\ kt = NotifyKey(id, top.call)
  OBVIOUS
<1>3. kt \in Keys /\ Keys = RestKeys \cup {kt} /\ kt \notin RestKeys
  <2>1. Keyed(Top) /\ Key(Top) = kt
    BY <1>1, <1>2 DEF Keyed, Key, FileFrame
  <2> QED BY <1>1, <2>1, TopKey
<1>4. PICK slot : slot = GroupSlot(id)
  OBVIOUS
<1>5. slot \in Grouped /\ slot \notin Keys /\ slot \notin Awaited /\ \E c, i : slot = Slot(c, i)
  <2>1. slot \in Grouped
    BY <1>2, <1>4 DEF Grouped
  <2> QED BY <1>4, <2>1 DEF Tokens, GroupSlot
<1>6. \A g \in DOMAIN groups : GroupSlot(g)' = GroupSlot(g)
  BY <1>1 DEF GroupSlot
<1>7. \A g \in DOMAIN groups : groups[g].nbrNotifications \in Nat /\ Cardinality(groups[g].on) \in Nat
  BY GroupFields
<1>8. \A g \in Open' : g \in Open /\ g \in DOMAIN groups
  <2> SUFFICES ASSUME NEW g \in Open' PROVE g \in Open /\ g \in DOMAIN groups
    OBVIOUS
  <2>1. g \in DOMAIN groups /\ groups'[g].nbrNotifications < Cardinality(groups'[g].on)
    BY <1>1 DEF Open
  <2>2. groups'[g].on = groups[g].on /\ groups[g].nbrNotifications <= groups'[g].nbrNotifications
    BY <1>1, <1>7, <2>1
  <2>3. groups[g].nbrNotifications < Cardinality(groups[g].on)
    BY <1>1, <1>7, <2>1, <2>2
  <2> QED BY <2>1, <2>3 DEF Open
<1>9. GroupOnce'
  <2> SUFFICES ASSUME NEW g \in Open', NEW h \in Open', GroupSlot(g)' = GroupSlot(h)'
               PROVE  g = h
    BY DEF GroupOnce, GroupSlot
  <2> QED BY <1>6, <1>8 DEF Tokens, GroupOnce
<1>10. \A s \in Grouped' : s \in Grouped
  <2> SUFFICES ASSUME NEW s \in Grouped' PROVE s \in Grouped
    OBVIOUS
  <2>1. PICK g \in Open' : s = GroupSlot(g)'
    BY DEF Grouped, GroupSlot
  <2> QED BY <1>6, <1>8, <2>1 DEF Grouped
<1>11. Awaited' = Awaited /\ WaitOnce'
  BY <1>1 DEF Awaited, Awaits, Tokens, WaitOnce
<1>12. ASSUME KeysOf(work') = RestKeys, OnceEach(work')
       PROVE  Tokens' /\ \A s \in Held' : s \in Held /\ s # kt
  <2>1. kt \notin Awaited /\ kt \notin Grouped
    BY <1>2, HeldSlots, DifferentKeys
  <2>2. Keys' \cap Awaited' = {} /\ Keys' \cap Grouped' = {} /\ Awaited' \cap Grouped' = {}
    BY <1>3, <1>10, <1>11, <1>12 DEF Tokens, Keys
  <2>3. Tokens'
    BY <1>9, <1>11, <1>12, <2>2 DEF Tokens
  <2>4. \A s \in Held' : s \in Held /\ s # kt
    BY <1>3, <1>10, <1>11, <1>12, <2>1 DEF Held, Keys
  <2> QED BY <2>3, <2>4
<1>13. CASE ~(groups[id].nbrNotifications + 1 >= Cardinality(groups[id].on)) /\ Puts(<<>>)
  <2>1. OnceEach(work') /\ KeysOf(work') = RestKeys
    BY <1>1, <1>13, KeysOfNone, KeysStep DEF Tokens
  <2>2. Tokens' /\ \A s \in Held' : s \in Held
    BY <1>12, <2>1
  <2>3. \A s \in Keys' : s \in Keys /\ s # kt
    BY <1>3, <2>1 DEF Keys
  <2> QED BY <1>2, <2>2, <2>3
<1>14. CASE /\ groups[id].nbrNotifications + 1 >= Cardinality(groups[id].on)
            /\ Puts(<<LoadedFrame(groups[id].call, groups[id].index)>>)
  <2>1. PICK w : w = LoadedFrame(groups[id].call, groups[id].index)
    OBVIOUS
  <2>2. OnceEach(<<w>>) /\ KeysOf(<<w>>) = {slot}
    <3>1. Keyed(w) /\ Key(w) = slot
      BY <1>4, <2>1, FrameKeys DEF GroupSlot
    <3> QED BY <3>1, KeysOfOne
  <2>3. Puts(<<w>>)
    BY <1>14, <2>1
  <2>4. OnceEach(work') /\ KeysOf(work') = RestKeys \cup {slot}
    <3>1. KeysOf(<<w>>) \cap RestKeys = {}
      BY <1>3, <1>5, <2>2
    <3> QED BY <1>1, <2>2, <2>3, <3>1, KeysStep DEF Tokens
  <2>5. id \notin Open'
    <3>1. id \in DOMAIN groups
      BY <1>2, NotifyGroups
    <3>2. groups'[id].nbrNotifications = groups[id].nbrNotifications + 1 /\ groups'[id].on = groups[id].on
      BY <1>1, <1>2, <3>1
    <3>3. ~(groups'[id].nbrNotifications < Cardinality(groups'[id].on))
      BY <1>7, <1>14, <3>1, <3>2
    <3> QED BY <3>3 DEF Open
  <2>6. slot \notin Grouped'
    <3> SUFFICES ASSUME slot \in Grouped' PROVE FALSE
      OBVIOUS
    <3>1. PICK g \in Open' : slot = GroupSlot(g)'
      BY DEF Grouped, GroupSlot
    <3>2. g = id
      BY <1>2, <1>4, <1>6, <1>8, <3>1 DEF Tokens, GroupOnce
    <3> QED BY <2>5, <3>1, <3>2
  <2>7. kt # slot
    BY <1>2, <1>5, DifferentKeys
  <2>8. Tokens'
    <3>1. Keys' \cap Awaited' = {} /\ Keys' \cap Grouped' = {} /\ Awaited' \cap Grouped' = {}
      BY <1>3, <1>5, <1>10, <1>11, <2>4, <2>6 DEF Tokens, Keys
    <3> QED BY <1>9, <1>11, <2>4, <3>1 DEF Tokens
  <2>9. \A s \in Held' : s \in Held
    BY <1>3, <1>5, <1>10, <1>11, <2>4 DEF Held, Keys
  <2>10. \A s \in Keys' : (s \in Keys /\ s # kt) \/ s = slot
    BY <1>3, <2>4 DEF Keys
  <2>11. \A g, c : NotifyKey(g, c) \in Keys' => NotifyKey(g, c) \in Keys /\ NotifyKey(g, c) # kt
    BY <1>5, <2>10, DifferentKeys
  <2>12. \A c : CompleteKey(c) \in Keys' => CompleteKey(c) \in Keys
    BY <1>5, <2>10, DifferentKeys
  <2> QED BY <1>2, <2>8, <2>9, <2>11, <2>12
<1>15. \/ ~(groups[id].nbrNotifications + 1 >= Cardinality(groups[id].on)) /\ Puts(<<>>)
       \/ /\ groups[id].nbrNotifications + 1 >= Cardinality(groups[id].on)
          /\ Puts(<<LoadedFrame(groups[id].call, groups[id].index)>>)
  BY <1>2, NotifyPuts
<1> QED BY <1>13, <1>14, <1>15

(* When the thread is idle. *)
LEMMA IdleKeys ==
  ASSUME work = <<>>
  PROVE  Keys = {} /\ OnceEach(work)
BY KeysOfNone DEF Keys

LEMMA AskTokens ==
  ASSUME Types, Tokens, Ask
  PROVE  Tokens' /\ PlainKeys
<1>1. waiters' = waiters /\ groups' = groups
  BY DEF Ask
<1>2. PICK list : work' = <<RequireFrame(list, None)>>
  BY DEF Ask
<1>3. OnceEach(work') /\ KeysOf(work') = {}
  <2>1. PICK w : w = RequireFrame(list, None)
    OBVIOUS
  <2>2. ~Keyed(w)
    BY <2>1, FrameKeys
  <2> QED BY <1>2, <2>1, <2>2, KeysOfOne
<1>4. Tokens' /\ Awaited' = Awaited /\ Grouped' = Grouped
  BY <1>1, <1>3, StillTokens
<1> QED BY <1>3, <1>4 DEF PlainKeys, Held, Keys

LEMMA TimerTokens ==
  ASSUME Types, Tokens, NEW t, t \in timers, work' = <<NotifyFrame(t[1], t[2])>>,
         UNCHANGED <<waiters, groups>>
  PROVE  /\ Tokens'
         /\ \A g, c : NotifyKey(g, c) \in Keys' <=> g = t[1] /\ c = t[2]
         /\ \A c : CompleteKey(c) \notin Keys'
         /\ \A c, i : Slot(c, i) \in Held' => Slot(c, i) \in Held
<1>1. OnceEach(work') /\ KeysOf(work') = {NotifyKey(t[1], t[2])}
  <2>1. PICK w : w = NotifyFrame(t[1], t[2])
    OBVIOUS
  <2>2. Keyed(w) /\ Key(w) = NotifyKey(t[1], t[2])
    BY <2>1, FrameKeys
  <2> QED BY <2>1, <2>2, KeysOfOne
<1>2. NotifyKey(t[1], t[2]) \notin Awaited \cup Grouped
  BY HeldSlots, DifferentKeys
<1>3. Tokens' /\ Awaited' = Awaited /\ Grouped' = Grouped
  BY <1>1, <1>2, StillTokens
<1>4. \A g, c : NotifyKey(g, c) \in Keys' <=> g = t[1] /\ c = t[2]
  BY <1>1, DifferentKeys DEF Keys
<1>5. \A c : CompleteKey(c) \notin Keys'
  BY <1>1, DifferentKeys DEF Keys
<1>6. \A c, i : Slot(c, i) \notin Keys'
  BY <1>1, DifferentKeys DEF Keys
<1>7. \A c, i : Slot(c, i) \in Held' => Slot(c, i) \in Held
  BY <1>3, <1>6 DEF Held
<1> QED BY <1>3, <1>4, <1>5, <1>7

(* Those who wait for f do so no longer. *)
LEMMA NoLongerAwaited ==
  ASSUME Types, Tokens, NEW f \in Files, waiters' = [waiters EXCEPT ![f] = <<>>], groups' = groups
  PROVE  /\ WaitOnce' /\ GroupOnce' /\ Grouped' = Grouped
         /\ Awaited' \subseteq Awaited /\ Awaits(f) \subseteq Awaited /\ Awaits(f) \cap Awaited' = {}
<1>1. DOMAIN <<>> = {}
  BY NoFrame
<1>2. \A h \in Files : \A k \in DOMAIN waiters'[h] :
        h # f /\ waiters'[h] = waiters[h] /\ k \in DOMAIN waiters[h]
  BY <1>1 DEF Types
<1>3. WaitOnce'
  <2> SUFFICES ASSUME NEW g \in Files, NEW h \in Files,
                      NEW j \in DOMAIN waiters'[g], NEW k \in DOMAIN waiters'[h],
                      Slot(waiters'[g][j][1], waiters'[g][j][2]) = Slot(waiters'[h][k][1], waiters'[h][k][2])
               PROVE  g = h /\ j = k
    BY DEF WaitOnce
  <2> QED BY <1>2 DEF Tokens, WaitOnce
<1>4. Open' = Open
  BY DEF Open
<1>5. GroupOnce' /\ Grouped' = Grouped
  BY <1>4 DEF Tokens, GroupOnce, GroupSlot, Grouped
<1>6. Awaits(f) \subseteq Awaited
  BY DEF Awaited
<1>7. \A s \in Awaited' : \E h \in Files \ {f} : \E k \in DOMAIN waiters[h] :
        s = Slot(waiters[h][k][1], waiters[h][k][2])
  <2> SUFFICES ASSUME NEW s \in Awaited'
               PROVE  \E h \in Files \ {f} : \E k \in DOMAIN waiters[h] :
                        s = Slot(waiters[h][k][1], waiters[h][k][2])
    OBVIOUS
  <2>1. PICK h \in Files : \E k \in DOMAIN waiters'[h] : s = Slot(waiters'[h][k][1], waiters'[h][k][2])
    BY DEF Awaited, Awaits
  <2> QED BY <1>2, <2>1
<1>8. \A s \in Awaited' : s \in Awaited
  BY <1>7 DEF Awaited, Awaits
<1>9. \A s \in Awaited' : s \notin Awaits(f)
  <2> SUFFICES ASSUME NEW s \in Awaited', s \in Awaits(f) PROVE FALSE
    OBVIOUS
  <2>1. PICK h \in Files \ {f} : \E k \in DOMAIN waiters[h] : s = Slot(waiters[h][k][1], waiters[h][k][2])
    BY <1>7
  <2>2. PICK k \in DOMAIN waiters[h] : s = Slot(waiters[h][k][1], waiters[h][k][2])
    BY <2>1
  <2>3. PICK j \in DOMAIN waiters[f] : s = Slot(waiters[f][j][1], waiters[f][j][2])
    BY DEF Awaits
  <2> QED BY <2>2, <2>3 DEF Tokens, WaitOnce
<1> QED BY <1>3, <1>5, <1>6, <1>8, <1>9

LEMMA AnswerTokens ==
  ASSUME Types, Tokens, NEW f \in Files, Answer(f)
  PROVE  Tokens' /\ PlainKeys
<1>1. waiters' = [waiters EXCEPT ![f] = <<>>] /\ groups' = groups
  BY DEF Answer
<1>2. PICK w, s, n : w = work' /\ s = waiters[f] /\ n = Len(s)
  OBVIOUS
<1>3. /\ DOMAIN s = 1 .. n
      /\ DOMAIN w = 1 .. n /\ \A k \in 1 .. n : w[k] = ProcessFrame(s[k][1], s[k][2])
  <2>1. /\ n \in Nat /\ DOMAIN s = 1 .. n /\ Len(w) = n
        /\ \A k \in 1 .. n : w[k] = ProcessFrame(s[k][1], s[k][2])
    BY <1>2, AnswerWork
  <2>2. w = [k \in DOMAIN s |-> ProcessFrame(s[k][1], s[k][2])]
    BY <1>2 DEF Answer
  <2> QED BY <2>1, <2>2
<1>4. \A k \in 1 .. n : Keyed(w[k]) /\ Key(w[k]) = Slot(s[k][1], s[k][2])
  BY <1>3, FrameKeys
<1>5. OnceEach(w)
  <2> SUFFICES ASSUME NEW j \in 1 .. n, NEW k \in 1 .. n, Key(w[j]) = Key(w[k]) PROVE j = k
    BY <1>3 DEF OnceEach
  <2>1. Slot(s[j][1], s[j][2]) = Slot(s[k][1], s[k][2])
    BY <1>4
  <2> QED BY <1>2, <1>3, <2>1 DEF Tokens, WaitOnce
<1>6. \A x \in KeysOf(w) : x \in Awaits(f)
  BY <1>2, <1>3, <1>4 DEF KeysOf, Awaits
<1>7. /\ WaitOnce' /\ GroupOnce' /\ Grouped' = Grouped
      /\ Awaited' \subseteq Awaited /\ Awaits(f) \subseteq Awaited /\ Awaits(f) \cap Awaited' = {}
  BY <1>1, NoLongerAwaited
<1>8. Tokens'
  <2>1. KeysOf(w) \cap Awaited' = {} /\ KeysOf(w) \cap Grouped' = {} /\ Awaited' \cap Grouped' = {}
    BY <1>6, <1>7 DEF Tokens
  <2> QED BY <1>2, <1>5, <1>7, <2>1 DEF Tokens, Keys
<1>9. \A x \in KeysOf(w) : \E c, i : x = Slot(c, i)
  BY <1>3, <1>4 DEF KeysOf
<1>10. \A x \in Held' : x \in Held
  BY <1>2, <1>6, <1>7 DEF Held, Keys
<1>11. /\ \A g, c : NotifyKey(g, c) \notin Keys'
       /\ \A c : CompleteKey(c) \notin Keys'
  BY <1>2, <1>9, DifferentKeys DEF Keys
<1> QED BY <1>8, <1>10, <1>11 DEF PlainKeys

LEMMA FailTokens ==
  ASSUME Types, Tokens, NEW f \in Files, Fail(f)
  PROVE  Tokens' /\ PlainKeys
<1>1. waiters' = [waiters EXCEPT ![f] = <<>>] /\ groups' = groups /\ work' = work
  BY DEF Fail
<1>2. /\ WaitOnce' /\ GroupOnce' /\ Grouped' = Grouped /\ Awaited' \subseteq Awaited
  BY <1>1, NoLongerAwaited
<1>3. OnceEach(work') /\ Keys' = Keys
  BY <1>1 DEF Tokens, Keys
<1>4. Tokens'
  BY <1>2, <1>3 DEF Tokens
<1>5. Held' \subseteq Held
  BY <1>2, <1>3 DEF Held
<1> QED BY <1>3, <1>4, <1>5 DEF PlainKeys

-----------------------------------------------------------------------------
(* Counts: what loadedFiles and nbrNotifications say.                       *)

(* The files of a call that are loaded and that it has counted, at least.   *)
LoadedSlots(c) == {i \in DOMAIN calls[c].files : calls[c].files[i] \in cache /\ Slot(c, i) \notin Held}
Counted == \A c \in CallIds : calls[c].loadedFiles <= Cardinality(LoadedSlots(c))

AllLoaded(c) == calls[c].loadedFiles >= Len(calls[c].files)
Finished ==
  \A c \in CallIds :
    /\ calls[c].succeeded => AllLoaded(c)
    /\ CompleteKey(c) \in Keys => AllLoaded(c) /\ ~calls[c].succeeded

(* The calls whose success a group has been told of. *)
Told(g) == {c \in groups[g].on : calls[c].succeeded /\ <<g, c>> \notin timers /\ NotifyKey(g, c) \notin Keys}
Notified ==
  /\ \A g \in DOMAIN groups, c \in CallIds : NotifyKey(g, c) \in Keys =>
       c \in groups[g].on /\ calls[c].succeeded /\ <<g, c>> \notin timers
  /\ \A g \in DOMAIN groups, c \in CallIds : <<g, c>> \in timers =>
       c \in groups[g].on /\ calls[c].succeeded
  /\ \A g \in DOMAIN groups : groups[g].nbrNotifications <= Cardinality(Told(g))

LEMMA KeyCalls ==
  ASSUME Types
  PROVE  /\ \A g, c : NotifyKey(g, c) \in Keys => g \in DOMAIN groups /\ c \in CallIds
         /\ \A c : CompleteKey(c) \in Keys => c \in CallIds
         /\ \A g, c : <<g, c>> \in timers => g \in DOMAIN groups /\ c \in CallIds
<1>1. \A k \in DOMAIN work : work[k] \in Frame
  BY ElementOfSeq, LenProperties DEF Types
<1>2. ASSUME NEW g, NEW c, NotifyKey(g, c) \in Keys
      PROVE  g \in DOMAIN groups /\ c \in CallIds
  <2>1. PICK k \in DOMAIN work : Keyed(work[k]) /\ Key(work[k]) = NotifyKey(g, c)
    BY <1>2 DEF Keys, KeysOf
  <2>2. work[k].do = "notify" /\ work[k].group = g /\ work[k].call = c
    BY <2>1, DifferentKeys DEF Key
  <2> QED BY <1>1, <2>2, FrameFields
<1>3. ASSUME NEW c, CompleteKey(c) \in Keys
      PROVE  c \in CallIds
  <2>1. PICK k \in DOMAIN work : Keyed(work[k]) /\ Key(work[k]) = CompleteKey(c)
    BY <1>3 DEF Keys, KeysOf
  <2>2. work[k].do = "complete" /\ work[k].call = c
    BY <2>1, DifferentKeys DEF Key, Keyed
  <2> QED BY <1>1, <2>2, FrameFields
<1>4. \A g, c : <<g, c>> \in timers => g \in DOMAIN groups /\ c \in CallIds
  BY DEF Types
<1> QED BY <1>2, <1>3, <1>4

LEMMA SlotsOfCall ==
  ASSUME Types, NEW c \in CallIds
  PROVE  /\ LoadedSlots(c) \subseteq DOMAIN calls[c].files
         /\ IsFiniteSet(LoadedSlots(c)) /\ Cardinality(LoadedSlots(c)) \in Nat
         /\ Cardinality(LoadedSlots(c)) <= Len(calls[c].files)
         /\ Cardinality(LoadedSlots(c)) = Len(calls[c].files) => LoadedSlots(c) = DOMAIN calls[c].files
<1>1. PICK n, S : n = Len(calls[c].files) /\ S = LoadedSlots(c)
  OBVIOUS
<1>2. n \in Nat /\ DOMAIN calls[c].files = 1 .. n /\ S \subseteq 1 .. n
  BY <1>1, CallFields DEF LoadedSlots
<1>3. IsFiniteSet(1 .. n) /\ Cardinality(1 .. n) = n
  <2>1. IsFiniteSet(1 .. n) /\ Cardinality(1 .. n) = IF 1 > n THEN 0 ELSE n - 1 + 1
    BY <1>2, FS_Interval
  <2> QED BY <1>2, <2>1
<1>4. IsFiniteSet(S) /\ Cardinality(S) <= n /\ (Cardinality(S) = n => S = 1 .. n)
  BY <1>2, <1>3, FS_Subset
<1>5. Cardinality(S) \in Nat
  BY <1>4, FS_CardinalityType
<1> QED BY <1>1, <1>2, <1>4, <1>5

LEMMA AllSlots ==
  ASSUME Types, Counted, NEW c \in CallIds, AllLoaded(c)
  PROVE  /\ calls[c].loadedFiles = Len(calls[c].files)
         /\ ToSet(calls[c].files) \subseteq cache
         /\ \A i : Slot(c, i) \notin Held
<1>1. PICK n, S : n = Len(calls[c].files) /\ S = LoadedSlots(c)
  OBVIOUS
<1>2. /\ n \in Nat /\ Cardinality(S) \in Nat /\ Cardinality(S) <= n
      /\ (Cardinality(S) = n => S = DOMAIN calls[c].files)
  BY <1>1, SlotsOfCall, CallFields
<1>3. calls[c].loadedFiles \in Nat /\ calls[c].loadedFiles >= n /\ calls[c].loadedFiles <= Cardinality(S)
  BY <1>1, CallFields DEF Counted, AllLoaded
<1>4. calls[c].loadedFiles = n /\ S = DOMAIN calls[c].files
  BY <1>2, <1>3
<1>5. \A i \in DOMAIN calls[c].files : calls[c].files[i] \in cache /\ Slot(c, i) \notin Held
  BY <1>1, <1>4 DEF LoadedSlots
<1>6. \A i : Slot(c, i) \in Held => i \in DOMAIN calls[c].files
  BY HeldSlots DEF IsSlot
<1>7. ToSet(calls[c].files) \subseteq cache
  BY <1>5 DEF ToSet
<1> QED BY <1>1, <1>4, <1>5, <1>6, <1>7

LEMMA FilesNext ==
  ASSUME Types', NEW c \in CallIds'
  PROVE  Len(calls'[c].files) \in Nat /\ DOMAIN calls'[c].files = 1 .. Len(calls'[c].files)
<1>1. PICK s : s = calls'
  OBVIOUS
<1>2. s \in Seq(Call) /\ c \in DOMAIN s
  BY <1>1 DEF Types, CallIds, Call, Owners
<1>3. s[c] \in Call
  BY <1>2, LenProperties, ElementOfSeq
<1>4. s[c].files \in Seq(Files)
  BY <1>3 DEF Call
<1> QED BY <1>1, <1>4, LenProperties

LEMMA SlotsStay ==
  ASSUME Types, Types', Grows, NEW c \in CallIds, cache \subseteq cache',
         \A i : Slot(c, i) \in Held' => Slot(c, i) \in Held
  PROVE  /\ LoadedSlots(c) \subseteq LoadedSlots(c)'
         /\ IsFiniteSet(LoadedSlots(c)')
         /\ Cardinality(LoadedSlots(c)) <= Cardinality(LoadedSlots(c)')
         /\ Cardinality(LoadedSlots(c)') \in Nat
<1>1. c \in CallIds' /\ calls'[c].files = calls[c].files
  BY DEF Grows
<1>2. PICK S, T : S = LoadedSlots(c) /\ T = LoadedSlots(c)'
  OBVIOUS
<1>3. \A i \in S : i \in T
  BY <1>1, <1>2 DEF LoadedSlots
<1>4. IsFiniteSet(T)
  <2>1. PICK n : n = Len(calls'[c].files)
    OBVIOUS
  <2>2. n \in Nat /\ DOMAIN calls'[c].files = 1 .. n
    BY <1>1, <2>1, CallFields
  <2>3. T \subseteq DOMAIN calls'[c].files
    BY <1>2 DEF LoadedSlots
  <2>4. T \subseteq 1 .. n /\ IsFiniteSet(1 .. n)
    BY <2>2, <2>3, FS_Interval
  <2> QED BY <2>4, FS_Subset
<1>5. Cardinality(S) <= Cardinality(T) /\ Cardinality(T) \in Nat
  BY <1>3, <1>4, FS_Subset, FS_CardinalityType
<1> QED BY <1>2, <1>3, <1>4, <1>5

LEMMA CountedStays ==
  ASSUME Types, Types', Grows, Counted, cache \subseteq cache',
         \A c \in CallIds : calls'[c].loadedFiles = calls[c].loadedFiles,
         \A c \in CallIds' : c \in CallIds \/ calls'[c].loadedFiles = 0,
         \A c \in CallIds : \A i : Slot(c, i) \in Held' => Slot(c, i) \in Held
  PROVE  Counted'
<1> SUFFICES ASSUME NEW c \in CallIds'
             PROVE  calls'[c].loadedFiles <= Cardinality(LoadedSlots(c)')
  BY DEF Counted
<1>1. CASE c \in CallIds
  <2>1. PICK m, n, p : m = Cardinality(LoadedSlots(c)) /\ n = Cardinality(LoadedSlots(c)')
                       /\ p = calls[c].loadedFiles
    OBVIOUS
  <2>2. m <= n /\ n \in Nat
    BY <1>1, <2>1, SlotsStay
  <2>3. m \in Nat /\ p \in Nat /\ p <= m
    BY <1>1, <2>1, SlotsOfCall, CallFields DEF Counted
  <2>4. p <= n
    BY <2>2, <2>3
  <2> QED BY <1>1, <2>1, <2>4
<1>2. CASE c \notin CallIds
  <2>1. calls'[c].loadedFiles = 0
    BY <1>2
  <2>2. PICK S, n : S = LoadedSlots(c)' /\ n = Len(calls'[c].files)
    OBVIOUS
  <2>3. n \in Nat /\ DOMAIN calls'[c].files = 1 .. n
    BY <2>2, FilesNext
  <2>4. S \subseteq 1 .. n /\ IsFiniteSet(1 .. n)
    BY <2>2, <2>3, FS_Interval DEF LoadedSlots
  <2>5. Cardinality(S) \in Nat
    BY <2>4, FS_Subset, FS_CardinalityType
  <2> QED BY <2>1, <2>2, <2>5
<1> QED BY <1>1, <1>2

LEMMA FinishedStep ==
  ASSUME Types, Types', Grows, Finished,
         \A c \in CallIds : calls'[c].loadedFiles >= calls[c].loadedFiles,
         \A c \in CallIds' : calls'[c].succeeded =>
           c \in CallIds /\ (calls[c].succeeded \/ CompleteKey(c) \in Keys),
         \A c \in CallIds' : CompleteKey(c) \in Keys' =>
           \/ c \in CallIds /\ CompleteKey(c) \in Keys /\ calls'[c].succeeded = calls[c].succeeded
           \/ calls'[c].loadedFiles >= Len(calls'[c].files) /\ ~calls'[c].succeeded
  PROVE  Finished'
<1> SUFFICES ASSUME NEW c \in CallIds'
             PROVE  /\ calls'[c].succeeded => AllLoaded(c)'
                    /\ CompleteKey(c) \in Keys' => AllLoaded(c)' /\ ~calls'[c].succeeded
  BY DEF Finished
<1>1. c \in CallIds /\ AllLoaded(c) => AllLoaded(c)'
  <2> SUFFICES ASSUME c \in CallIds, AllLoaded(c) PROVE AllLoaded(c)'
    OBVIOUS
  <2>1. PICK m, n, p, q : m = calls'[c].loadedFiles /\ n = calls[c].loadedFiles
                          /\ p = Len(calls[c].files) /\ q = Len(calls'[c].files)
    OBVIOUS
  <2>2. p = q /\ p \in Nat /\ n \in Nat /\ n >= p /\ m >= n
    BY <2>1, CallFields DEF Grows, AllLoaded
  <2>3. m \in Nat
    <3>1. PICK s : s = calls'
      OBVIOUS
    <3>2. s \in Seq(Call) /\ c \in DOMAIN s
      BY <3>1 DEF Types, CallIds, Call, Owners
    <3>3. s[c] \in Call
      BY <3>2, LenProperties, ElementOfSeq
    <3> QED BY <2>1, <3>1, <3>3 DEF Call
  <2>4. m >= q
    BY <2>2, <2>3
  <2> QED BY <2>1, <2>4 DEF AllLoaded
<1>2. c \in CallIds => /\ calls[c].succeeded => AllLoaded(c)
                       /\ CompleteKey(c) \in Keys => AllLoaded(c) /\ ~calls[c].succeeded
  BY DEF Finished
<1>3. calls'[c].succeeded => AllLoaded(c)'
  BY <1>1, <1>2
<1>4. CompleteKey(c) \in Keys' => AllLoaded(c)' /\ ~calls'[c].succeeded
  BY <1>1, <1>2 DEF AllLoaded
<1> QED BY <1>3, <1>4

LEMMA ToldFinite ==
  ASSUME Types, NEW g \in DOMAIN groups
  PROVE  /\ Told(g) \subseteq groups[g].on
         /\ IsFiniteSet(Told(g)) /\ Cardinality(Told(g)) \in Nat
         /\ Cardinality(Told(g)) <= Cardinality(groups[g].on)
<1>1. PICK S, T : S = groups[g].on /\ T = Told(g)
  OBVIOUS
<1>2. T \subseteq S /\ IsFiniteSet(S)
  BY <1>1, GroupFields DEF Told
<1>3. IsFiniteSet(T) /\ Cardinality(T) <= Cardinality(S) /\ Cardinality(T) \in Nat
  BY <1>2, FS_Subset, FS_CardinalityType
<1> QED BY <1>1, <1>2, <1>3

LEMMA NotifiedStep ==
  ASSUME Types, Types', Grows, Notified,
         \A c \in CallIds : calls[c].succeeded => calls'[c].succeeded,
         \A g \in DOMAIN groups', c \in CallIds' : NotifyKey(g, c) \in Keys' =>
           \/ NotifyKey(g, c) \in Keys
           \/ <<g, c>> \in timers /\ <<g, c>> \notin timers'
           \/ /\ g \in DOMAIN groups /\ c \in CallIds /\ c \in groups[g].on
              /\ ~calls[c].succeeded /\ calls'[c].succeeded,
         \A g \in DOMAIN groups', c \in CallIds' : <<g, c>> \in timers' =>
           \/ <<g, c>> \in timers
           \/ g \notin DOMAIN groups /\ c \in groups'[g].on /\ calls'[c].succeeded,
         \A g \in DOMAIN groups :
           \/ groups'[g].nbrNotifications = groups[g].nbrNotifications
           \/ /\ groups'[g].nbrNotifications = groups[g].nbrNotifications + 1
              /\ \E c \in CallIds : NotifyKey(g, c) \in Keys /\ NotifyKey(g, c) \notin Keys',
         \A g \in DOMAIN groups' : g \in DOMAIN groups \/ groups'[g].nbrNotifications = 0
  PROVE  Notified'
<1>1. /\ CallIds \subseteq CallIds' /\ DOMAIN groups \subseteq DOMAIN groups'
      /\ \A g \in DOMAIN groups : groups'[g].on = groups[g].on
  BY DEF Grows
<1>2. \A g \in DOMAIN groups, c \in CallIds :
        /\ NotifyKey(g, c) \in Keys => c \in groups[g].on /\ calls[c].succeeded /\ <<g, c>> \notin timers
        /\ <<g, c>> \in timers => c \in groups[g].on /\ calls[c].succeeded
  BY DEF Notified
<1>3. \A g \in DOMAIN groups', c \in CallIds' : NotifyKey(g, c) \in Keys' =>
        c \in groups'[g].on /\ calls'[c].succeeded /\ <<g, c>> \notin timers'
  <2> SUFFICES ASSUME NEW g \in DOMAIN groups', NEW c \in CallIds', NotifyKey(g, c) \in Keys'
               PROVE  c \in groups'[g].on /\ calls'[c].succeeded /\ <<g, c>> \notin timers'
    OBVIOUS
  <2>1. CASE NotifyKey(g, c) \in Keys
    <3>1. g \in DOMAIN groups /\ c \in CallIds
      BY <2>1, KeyCalls
    <3> QED BY <1>1, <1>2, <2>1, <3>1
  <2>2. CASE <<g, c>> \in timers /\ <<g, c>> \notin timers'
    <3>1. g \in DOMAIN groups /\ c \in CallIds
      BY <2>2, KeyCalls
    <3> QED BY <1>1, <1>2, <2>2, <3>1
  <2>3. CASE /\ g \in DOMAIN groups /\ c \in CallIds /\ c \in groups[g].on
             /\ ~calls[c].succeeded /\ calls'[c].succeeded
    <3>1. <<g, c>> \notin timers
      BY <1>2, <2>3
    <3> QED BY <1>1, <2>3, <3>1
  <2> QED BY <2>1, <2>2, <2>3
<1>4. \A g \in DOMAIN groups', c \in CallIds' : <<g, c>> \in timers' =>
        c \in groups'[g].on /\ calls'[c].succeeded
  <2> SUFFICES ASSUME NEW g \in DOMAIN groups', NEW c \in CallIds', <<g, c>> \in timers'
               PROVE  c \in groups'[g].on /\ calls'[c].succeeded
    OBVIOUS
  <2>1. CASE <<g, c>> \in timers
    <3>1. g \in DOMAIN groups /\ c \in CallIds
      BY <2>1, KeyCalls
    <3> QED BY <1>1, <1>2, <2>1, <3>1
  <2> QED BY <2>1
<1>5. ASSUME NEW g \in DOMAIN groups
      PROVE  \A c \in Told(g) : c \in Told(g)'
  <2> SUFFICES ASSUME NEW c \in Told(g) PROVE c \in Told(g)'
    OBVIOUS
  <2>1. c \in groups[g].on /\ calls[c].succeeded /\ <<g, c>> \notin timers /\ NotifyKey(g, c) \notin Keys
    BY DEF Told
  <2>2. c \in CallIds /\ c \in CallIds' /\ g \in DOMAIN groups'
    BY <1>1, <2>1, GroupFields
  <2>3. NotifyKey(g, c) \notin Keys'
    BY <1>5, <2>1, <2>2
  <2>4. <<g, c>> \notin timers'
    BY <1>5, <2>1, <2>2
  <2>5. c \in groups'[g].on /\ calls'[c].succeeded
    BY <1>1, <1>5, <2>1, <2>2
  <2> QED BY <2>3, <2>4, <2>5 DEF Told
<1>6. ASSUME NEW g \in DOMAIN groups'
      PROVE  IsFiniteSet(Told(g)') /\ Cardinality(Told(g)') \in Nat
  <2>1. PICK S, T : S = groups'[g].on /\ T = Told(g)'
    OBVIOUS
  <2>2. T \subseteq S
    BY <2>1 DEF Told
  <2>3. IsFiniteSet(S)
    <3>1. PICK s, n, t : s = groups' /\ n = Len(calls') /\ t = calls'
      OBVIOUS
    <3>2. n \in Nat /\ CallIds' = 1 .. n
      <4>1. t \in Seq(Call)
        BY <3>1 DEF Types, Call, Owners
      <4>2. DOMAIN t = 1 .. Len(t) /\ Len(t) \in Nat
        BY <4>1, LenProperties
      <4> QED BY <3>1, <4>2 DEF CallIds
    <3>3. s \in Seq(Group') /\ g \in DOMAIN s
      BY <1>6, <3>1 DEF Types
    <3>4. s[g] \in Group'
      BY <3>3, LenProperties, ElementOfSeq
    <3>5. S \subseteq 1 .. n
      BY <2>1, <3>1, <3>2, <3>4 DEF Group
    <3>6. IsFiniteSet(1 .. n)
      BY <3>2, FS_Interval
    <3> QED BY <3>5, <3>6, FS_Subset
  <2> QED BY <2>1, <2>2, <2>3, FS_Subset, FS_CardinalityType
<1>7. \A g \in DOMAIN groups' : groups'[g].nbrNotifications <= Cardinality(Told(g)')
  <2> SUFFICES ASSUME NEW g \in DOMAIN groups'
               PROVE  groups'[g].nbrNotifications <= Cardinality(Told(g)')
    OBVIOUS
  <2>1. PICK S, T, m, n : S = Told(g) /\ T = Told(g)' /\ m = groups[g].nbrNotifications
                          /\ n = groups'[g].nbrNotifications
    OBVIOUS
  <2>2. IsFiniteSet(T) /\ Cardinality(T) \in Nat
    BY <1>6, <2>1
  <2>3. CASE g \notin DOMAIN groups
    <3>1. n = 0
      BY <2>1, <2>3
    <3>2. n <= Cardinality(T)
      BY <2>2, <3>1
    <3> QED BY <2>1, <3>2
  <2>4. CASE g \in DOMAIN groups
    <3>1. S \subseteq T
      BY <1>5, <2>1, <2>4
    <3>2. m \in Nat /\ m <= Cardinality(S) /\ Cardinality(S) \in Nat /\ IsFiniteSet(S)
      BY <2>1, <2>4, GroupFields, ToldFinite DEF Notified
    <3>3. CASE n = m
      <4>1. Cardinality(S) <= Cardinality(T)
        BY <2>2, <3>1, FS_Subset
      <4>2. n <= Cardinality(T)
        BY <2>2, <3>2, <3>3, <4>1
      <4> QED BY <2>1, <4>2
    <3>4. CASE n = m + 1 /\ \E c \in CallIds : NotifyKey(g, c) \in Keys /\ NotifyKey(g, c) \notin Keys'
      <4>1. PICK c \in CallIds : NotifyKey(g, c) \in Keys /\ NotifyKey(g, c) \notin Keys'
        BY <3>4
      <4>2. c \in groups[g].on /\ calls[c].succeeded /\ <<g, c>> \notin timers
        BY <1>2, <2>4, <4>1
      <4>3. c \notin S
        BY <2>1, <4>1 DEF Told
      <4>4. c \in T
        <5>1. <<g, c>> \notin timers' /\ c \in groups'[g].on /\ calls'[c].succeeded
          BY <1>1, <2>4, <4>2
        <5> QED BY <2>1, <4>1, <5>1 DEF Told
      <4>5. Cardinality(S \cup {c}) = Cardinality(S) + 1
        BY <3>2, <4>3, FS_AddElement
      <4>6. S \cup {c} \subseteq T
        BY <3>1, <4>4
      <4>7. Cardinality(S \cup {c}) <= Cardinality(T)
        BY <2>2, <4>6, FS_Subset
      <4>8. n <= Cardinality(T)
        BY <2>2, <3>2, <3>4, <4>5, <4>7
      <4> QED BY <2>1, <4>8
    <3> QED BY <2>1, <2>4, <3>3, <3>4
  <2> QED BY <2>3, <2>4
<1>8. ASSUME NEW g \in DOMAIN groups', NEW c \in CallIds'
      PROVE  /\ NotifyKey(g, c) \in Keys' => c \in groups'[g].on /\ calls'[c].succeeded /\ <<g, c>> \notin timers'
             /\ <<g, c>> \in timers' => c \in groups'[g].on /\ calls'[c].succeeded
  BY <1>3, <1>4
<1> QED BY <1>7, <1>8 DEF Notified

Counts == Tokens /\ Counted /\ Finished /\ Notified

(* The calls, as far as they are counted, and the groups are left alone.    *)
LEMMA PlainCounts ==
  ASSUME Types, Types', Grows, Counts, Tokens', PlainKeys, cache' = cache, timers' = timers, groups' = groups,
         \A c \in CallIds : /\ calls'[c].loadedFiles = calls[c].loadedFiles
                            /\ calls'[c].succeeded = calls[c].succeeded,
         \A c \in CallIds' : c \in CallIds \/ (calls'[c].loadedFiles = 0 /\ ~calls'[c].succeeded)
  PROVE  Counts'
<1>1. \A c \in CallIds : calls'[c].loadedFiles = calls[c].loadedFiles
  OBVIOUS
<1>2. \A c \in CallIds : calls[c].loadedFiles \in Nat
  BY CallFields
<1>3. Counted'
  BY CountedStays DEF Counts, PlainKeys
<1>4. Finished'
  <2>1. \A c \in CallIds : calls'[c].loadedFiles >= calls[c].loadedFiles
    BY <1>1, <1>2
  <2>2. \A c \in CallIds' : calls'[c].succeeded => c \in CallIds /\ (calls[c].succeeded \/ CompleteKey(c) \in Keys)
    OBVIOUS
  <2>3. \A c \in CallIds' : CompleteKey(c) \in Keys' =>
           \/ c \in CallIds /\ CompleteKey(c) \in Keys /\ calls'[c].succeeded = calls[c].succeeded
           \/ calls'[c].loadedFiles >= Len(calls'[c].files) /\ ~calls'[c].succeeded
    BY KeyCalls DEF PlainKeys
  <2> QED BY <2>1, <2>2, <2>3, FinishedStep DEF Counts
<1>5. Notified'
  <2>1. \A c \in CallIds : calls[c].succeeded => calls'[c].succeeded
    OBVIOUS
  <2>2. \A g \in DOMAIN groups', c \in CallIds' : NotifyKey(g, c) \in Keys' => NotifyKey(g, c) \in Keys
    BY DEF PlainKeys
  <2> QED BY <2>1, <2>2, NotifiedStep DEF Counts
<1> QED BY <1>3, <1>4, <1>5 DEF Counts

LEMMA BeginCounts ==
  ASSUME Types, Types', Counts, Begin
  PROVE  Counts'
<1>1. Tokens' /\ PlainKeys
  BY BeginTokens DEF Counts
<1>2. cache' = cache /\ timers' = timers /\ groups' = groups
  BY DEF Begin
<1>3. PICK n, s : n = Len(calls) + 1 /\ s = calls'
  OBVIOUS
<1>4. /\ Grows /\ \A c \in CallIds : s[c] = calls[c]
      /\ s[n].loadedFiles = 0 /\ ~s[n].succeeded
      /\ CallIds' = 1 .. n /\ CallIds = 1 .. n - 1 /\ n \in Nat
  BY <1>3, BeginCalls, CallIdsNat
<1>5. \A c \in CallIds' : c \in CallIds \/ c = n
  BY <1>4
<1>6. \A c \in CallIds' : c \in CallIds \/ (s[c].loadedFiles = 0 /\ ~s[c].succeeded)
  BY <1>4, <1>5
<1> QED BY <1>1, <1>2, <1>3, <1>4, <1>6, PlainCounts

LEMMA SameCallsCounts ==
  ASSUME Types, Types', Grows, Counts, Tokens', PlainKeys, UNCHANGED <<calls, groups, cache, timers>>
  PROVE  Counts'
<1>1. CallIds' = CallIds
  BY DEF CallIds
<1> QED BY <1>1, PlainCounts

LEMMA RanCounts ==
  ASSUME Types, Types', Counts, Ran
  PROVE  Counts'
<1>1. Grows /\ calls' = calls /\ cache' = cache
  BY RanPuts, RanCases
<1>2. Tokens' /\ PlainKeys
  BY RanTokens DEF Counts
<1>3. CASE UNCHANGED <<groups, timers>>
  BY <1>1, <1>2, <1>3, SameCallsCounts
<1>4. CASE groups' = Append(groups, RanGroup) /\ timers' = timers \cup ({Len(groups) + 1} \X OverOf(File))
  <2>1. PICK m, over, stack, s : m = Len(groups) + 1 /\ over = OverOf(File) /\ stack = StackOf(File) /\ s = groups'
    OBVIOUS
  <2>2. /\ DOMAIN s = 1 .. m /\ DOMAIN groups = 1 .. m - 1 /\ m \in Nat \ {0}
        /\ \A g \in DOMAIN groups : s[g] = groups[g]
        /\ s[m].on = stack /\ s[m].nbrNotifications = 0
    BY <1>4, <2>1, RanGroups DEF RanGroup
  <2>3. CallIds' = CallIds
    BY <1>1 DEF CallIds
  <2>4. \A c \in over : c \in stack /\ calls[c].succeeded
    BY <2>1 DEF OverOf
  <2>5. \A c \in CallIds : calls[c].loadedFiles \in Nat
    BY CallFields
  <2>6. Counted'
    BY <1>1, <1>2, <2>3, CountedStays DEF Counts, PlainKeys
  <2>7. Finished'
    <3>1. \A c \in CallIds : calls'[c].loadedFiles >= calls[c].loadedFiles
      BY <1>1, <2>5
    <3>2. \A c \in CallIds' : calls'[c].succeeded => c \in CallIds /\ (calls[c].succeeded \/ CompleteKey(c) \in Keys)
      BY <1>1, <2>3
    <3>3. \A c \in CallIds' : CompleteKey(c) \in Keys' =>
             \/ c \in CallIds /\ CompleteKey(c) \in Keys /\ calls'[c].succeeded = calls[c].succeeded
             \/ calls'[c].loadedFiles >= Len(calls'[c].files) /\ ~calls'[c].succeeded
      BY <1>1, <1>2, <2>3 DEF PlainKeys
    <3> QED BY <1>1, <3>1, <3>2, <3>3, FinishedStep DEF Counts
  <2>8. Notified'
    <3>1. \A c \in CallIds : calls[c].succeeded => calls'[c].succeeded
      BY <1>1
    <3>2. \A g \in DOMAIN groups', c \in CallIds' : NotifyKey(g, c) \in Keys' => NotifyKey(g, c) \in Keys
      BY <1>2 DEF PlainKeys
    <3>3. \A g \in DOMAIN s : g \in DOMAIN groups \/ g = m
      BY <2>2
    <3>4. \A g \in DOMAIN groups', c \in CallIds' : <<g, c>> \in timers' =>
             \/ <<g, c>> \in timers
             \/ g \notin DOMAIN groups /\ c \in groups'[g].on /\ calls'[c].succeeded
      <4> SUFFICES ASSUME NEW g, NEW c, <<g, c>> \in timers', <<g, c>> \notin timers
                   PROVE  g \notin DOMAIN groups /\ c \in groups'[g].on /\ calls'[c].succeeded
        OBVIOUS
      <4>1. g = m /\ c \in over
        BY <1>4, <2>1
      <4>2. m \notin DOMAIN groups
        BY <2>2
      <4> QED BY <1>1, <2>1, <2>2, <2>4, <4>1, <4>2
    <3>5. \A g \in DOMAIN groups : groups'[g].nbrNotifications = groups[g].nbrNotifications
      BY <2>1, <2>2
    <3>6. \A g \in DOMAIN groups' : g \in DOMAIN groups \/ groups'[g].nbrNotifications = 0
      BY <2>1, <2>2, <3>3
    <3> QED BY <1>1, <3>1, <3>2, <3>4, <3>5, <3>6, NotifiedStep DEF Counts
  <2> QED BY <1>2, <2>6, <2>7, <2>8 DEF Counts
<1> QED BY <1>3, <1>4, RanCases

(* A file that counts has not counted before.                               *)
LEMMA LoadedOpen ==
  ASSUME Types, Counts, Loaded
  PROVE  /\ Top.call \in CallIds /\ ~calls[Top.call].succeeded /\ CompleteKey(Top.call) \notin Keys
         /\ calls[Top.call].loadedFiles < Len(calls[Top.call].files)
<1>1. work # <<>> /\ FileFrame(Top) /\ IsSlot(Top.call, Top.index)
  BY LoadedPuts DEF FileFrame
<1>2. Slot(Top.call, Top.index) \in Held
  BY <1>1, TopKey DEF Held
<1>3. PICK c : c = Top.call
  OBVIOUS
<1>4. c \in CallIds /\ ~AllLoaded(c)
  BY <1>1, <1>2, <1>3, AllSlots DEF IsSlot, Counts
<1>5. calls[c].loadedFiles \in Nat /\ Len(calls[c].files) \in Nat
  BY <1>4, CallFields
<1>6. ~calls[c].succeeded /\ CompleteKey(c) \notin Keys
  BY <1>4 DEF Counts, Finished
<1> QED BY <1>3, <1>4, <1>5, <1>6 DEF AllLoaded

LEMMA LoadedCounts ==
  ASSUME Types, Types', Counts, Loaded
  PROVE  Counts'
<1>1. PICK top, id, i, s, f : top = Top /\ id = top.call /\ i = top.index /\ s = calls' /\ f = File
  OBVIOUS
<1>2. /\ id \in CallIds /\ ~calls[id].succeeded /\ CompleteKey(id) \notin Keys
      /\ calls[id].loadedFiles < Len(calls[id].files)
  BY <1>1, LoadedOpen
<1>3. /\ Tokens'
      /\ \A g, c : NotifyKey(g, c) \in Keys' => NotifyKey(g, c) \in Keys
      /\ \A c : CompleteKey(c) \in Keys' =>
           \/ CompleteKey(c) \in Keys
           \/ c = id /\ calls[c].loadedFiles + 1 = Len(calls[c].files)
      /\ \A c, k : Slot(c, k) \in Held' => Slot(c, k) \in Held /\ Slot(c, k) # Slot(id, i)
      /\ Slot(id, i) \in Held
  BY <1>1, <1>2, LoadedTokens DEF Counts
<1>4. /\ Grows /\ CallIds' = CallIds /\ cache' = cache \cup {f} /\ groups' = groups /\ timers' = timers
      /\ s = [calls EXCEPT ![id].loadedFiles = @ + 1]
  BY <1>1, LoadedCalls DEF Loaded
<1>5. \A c \in CallIds : /\ calls[c].loadedFiles \in Nat
                         /\ s[c].succeeded = calls[c].succeeded
                         /\ s[c].files = calls[c].files
                         /\ s[c].loadedFiles = IF c = id THEN calls[c].loadedFiles + 1 ELSE calls[c].loadedFiles
  <2> SUFFICES ASSUME NEW c \in CallIds
               PROVE  /\ calls[c].loadedFiles \in Nat
                      /\ s[c].succeeded = calls[c].succeeded
                      /\ s[c].files = calls[c].files
                      /\ s[c].loadedFiles = IF c = id THEN calls[c].loadedFiles + 1 ELSE calls[c].loadedFiles
    OBVIOUS
  <2>1. s[c] = IF c = id THEN [calls[c] EXCEPT !.loadedFiles = @ + 1] ELSE calls[c]
    BY <1>2, <1>4 DEF CallIds
  <2> QED BY <2>1, CallFields
<1>6. Finished'
  <2>1. \A c \in CallIds : s[c].loadedFiles >= calls[c].loadedFiles
    BY <1>5
  <2>2. \A c \in CallIds' : s[c].succeeded => c \in CallIds /\ calls[c].succeeded
    BY <1>4, <1>5
  <2>3. \A c \in CallIds' : CompleteKey(c) \in Keys' =>
           \/ c \in CallIds /\ CompleteKey(c) \in Keys /\ s[c].succeeded = calls[c].succeeded
           \/ s[c].loadedFiles >= Len(s[c].files) /\ ~s[c].succeeded
    <3> SUFFICES ASSUME NEW c \in CallIds, CompleteKey(c) \in Keys', CompleteKey(c) \notin Keys
                 PROVE  s[c].loadedFiles >= Len(s[c].files) /\ ~s[c].succeeded
      BY <1>4, <1>5
    <3>1. c = id /\ calls[c].loadedFiles + 1 = Len(calls[c].files)
      BY <1>3
    <3> QED BY <1>2, <1>5, <3>1
  <2> QED BY <1>1, <1>4, <2>1, <2>2, <2>3, FinishedStep DEF Counts
<1>7. Notified'
  <2>1. \A c \in CallIds : calls[c].succeeded => s[c].succeeded
    BY <1>5
  <2> QED BY <1>1, <1>3, <1>4, <2>1, NotifiedStep DEF Counts
<1>8. Counted'
  <2> SUFFICES ASSUME NEW c \in CallIds'
               PROVE  s[c].loadedFiles <= Cardinality(LoadedSlots(c)')
    BY <1>1 DEF Counted
  <2>1. c \in CallIds
    BY <1>4
  <2>2. PICK S, T, p : S = LoadedSlots(c) /\ T = LoadedSlots(c)' /\ p = calls[c].loadedFiles
    OBVIOUS
  <2>3. S \subseteq T /\ IsFiniteSet(T) /\ Cardinality(S) <= Cardinality(T) /\ Cardinality(T) \in Nat
    <3>1. \A k : Slot(c, k) \in Held' => Slot(c, k) \in Held
      BY <1>3
    <3>2. cache \subseteq cache'
      BY <1>4
    <3> QED BY <1>4, <2>1, <2>2, <3>1, <3>2, SlotsStay
  <2>4. p \in Nat /\ p <= Cardinality(S) /\ Cardinality(S) \in Nat /\ IsFiniteSet(S)
    BY <2>1, <2>2, SlotsOfCall, CallFields DEF Counts, Counted
  <2>5. CASE c # id
    <3>1. s[c].loadedFiles = p
      BY <1>5, <2>1, <2>2, <2>5
    <3>2. p <= Cardinality(T)
      BY <2>3, <2>4
    <3> QED BY <2>2, <3>1, <3>2
  <2>6. CASE c = id
    <3>1. s[c].loadedFiles = p + 1
      BY <1>5, <2>1, <2>2, <2>6
    <3>2. i \notin S
      BY <1>3, <2>2, <2>6 DEF LoadedSlots
    <3>3. i \in T
      <4>1. i \in DOMAIN calls[c].files /\ calls[c].files[i] = f
        BY <1>1, <2>6, LoadedPuts DEF IsSlot, File
      <4>2. i \in DOMAIN s[c].files /\ s[c].files[i] \in cache'
        BY <1>4, <1>5, <2>1, <4>1
      <4>3. Slot(c, i) \notin Held'
        BY <1>3, <2>6
      <4> QED BY <1>1, <2>2, <4>2, <4>3 DEF LoadedSlots
    <3>4. Cardinality(S \cup {i}) = Cardinality(S) + 1 /\ S \cup {i} \subseteq T
      BY <2>3, <2>4, <3>2, <3>3, FS_AddElement
    <3>5. Cardinality(S \cup {i}) <= Cardinality(T)
      BY <2>3, <3>4, FS_Subset
    <3>6. p + 1 <= Cardinality(T)
      BY <2>3, <2>4, <3>4, <3>5
    <3> QED BY <2>2, <3>1, <3>6
  <2> QED BY <2>5, <2>6
<1> QED BY <1>3, <1>6, <1>7, <1>8 DEF Counts

LEMMA CompleteCounts ==
  ASSUME Types, Types', Counts, Complete
  PROVE  Counts'
<1>1. PICK top, id, s : top = Top /\ id = top.call /\ s = calls'
  OBVIOUS
<1>2. /\ work # <<>> /\ id \in CallIds /\ Grows /\ CallIds' = CallIds
      /\ s = [calls EXCEPT ![id].succeeded = TRUE]
      /\ cache' = cache /\ timers' = timers /\ groups' = groups
  BY <1>1, CompletePuts, CompleteCalls DEF Complete
<1>3. CompleteKey(id) \in Keys
  <2>1. Keyed(top) /\ Key(top) = CompleteKey(id)
    BY <1>1, CompletePuts DEF Keyed, Key, FileFrame
  <2> QED BY <1>1, <1>2, <2>1, TopKey
<1>4. ~calls[id].succeeded
  BY <1>2, <1>3 DEF Counts, Finished
<1>5. \A g : NotifyKey(g, id) \notin Keys
  <2> SUFFICES ASSUME NEW g, NotifyKey(g, id) \in Keys PROVE FALSE
    OBVIOUS
  <2>1. g \in DOMAIN groups
    BY KeyCalls
  <2> QED BY <1>2, <1>4, <2>1 DEF Counts, Notified
<1>6. /\ Tokens'
      /\ \A g, c : NotifyKey(g, c) \in Keys' =>
           NotifyKey(g, c) \in Keys \/ (c = id /\ g \in Observing(c))
      /\ \A c : CompleteKey(c) \in Keys' => CompleteKey(c) \in Keys /\ c # id
      /\ \A c, i : Slot(c, i) \in Held' => Slot(c, i) \in Held
  BY <1>1, <1>5, CompleteTokens DEF Counts
<1>7. \A c \in CallIds : /\ calls[c].loadedFiles \in Nat
                         /\ s[c].loadedFiles = calls[c].loadedFiles
                         /\ s[c].succeeded = IF c = id THEN TRUE ELSE calls[c].succeeded
  <2> SUFFICES ASSUME NEW c \in CallIds
               PROVE  /\ calls[c].loadedFiles \in Nat
                      /\ s[c].loadedFiles = calls[c].loadedFiles
                      /\ s[c].succeeded = IF c = id THEN TRUE ELSE calls[c].succeeded
    OBVIOUS
  <2>1. s[c] = IF c = id THEN [calls[c] EXCEPT !.succeeded = TRUE] ELSE calls[c]
    BY <1>2 DEF CallIds
  <2> QED BY <2>1, CallFields
<1>8. Counted'
  BY <1>1, <1>2, <1>6, <1>7, CountedStays DEF Counts
<1>9. Finished'
  <2>1. \A c \in CallIds : s[c].loadedFiles >= calls[c].loadedFiles
    <3> SUFFICES ASSUME NEW c \in CallIds PROVE s[c].loadedFiles >= calls[c].loadedFiles
      OBVIOUS
    <3>1. PICK m, n : m = s[c].loadedFiles /\ n = calls[c].loadedFiles
      OBVIOUS
    <3>2. n \in Nat /\ m = n
      BY <1>7, <3>1
    <3> QED BY <3>1, <3>2
  <2>2. \A c \in CallIds' : s[c].succeeded => c \in CallIds /\ (calls[c].succeeded \/ CompleteKey(c) \in Keys)
    BY <1>2, <1>3, <1>7
  <2>3. \A c \in CallIds' : CompleteKey(c) \in Keys' =>
           c \in CallIds /\ CompleteKey(c) \in Keys /\ s[c].succeeded = calls[c].succeeded
    BY <1>2, <1>6, <1>7
  <2> QED BY <1>1, <1>2, <2>1, <2>2, <2>3, FinishedStep DEF Counts
<1>10. Notified'
  <2>1. \A c \in CallIds : calls[c].succeeded => s[c].succeeded
    BY <1>7
  <2>2. \A g \in DOMAIN groups', c \in CallIds' : NotifyKey(g, c) \in Keys' =>
           \/ NotifyKey(g, c) \in Keys
           \/ /\ g \in DOMAIN groups /\ c \in CallIds /\ c \in groups[g].on
              /\ ~calls[c].succeeded /\ s[c].succeeded
    BY <1>2, <1>4, <1>6, <1>7 DEF Observing
  <2> QED BY <1>1, <1>2, <2>1, <2>2, NotifiedStep DEF Counts
<1> QED BY <1>6, <1>8, <1>9, <1>10 DEF Counts

(* A group that is told waits still. *)
LEMMA NotifyOpen ==
  ASSUME Types, Counts, Notify
  PROVE  /\ Top.group \in Open /\ Top.call \in CallIds
         /\ NotifyKey(Top.group, Top.call) \in Keys
         /\ Top.call \in groups[Top.group].on /\ calls[Top.call].succeeded
<1>1. PICK top, g, c : top = Top /\ g = top.group /\ c = top.call
  OBVIOUS
<1>2. work # <<>> /\ top.do = "notify" /\ g \in DOMAIN groups /\ c \in CallIds
  BY <1>1, NotifyPuts
<1>3. NotifyKey(g, c) \in Keys
  <2>1. Keyed(top) /\ Key(top) = NotifyKey(g, c)
    BY <1>1, <1>2 DEF Keyed, Key, FileFrame
  <2> QED BY <1>1, <1>2, <2>1, TopKey
<1>4. c \in groups[g].on /\ calls[c].succeeded
  BY <1>2, <1>3 DEF Counts, Notified
<1>5. PICK S, T, m : S = groups[g].on /\ T = Told(g) /\ m = groups[g].nbrNotifications
  OBVIOUS
<1>6. T \subseteq S /\ IsFiniteSet(S) /\ m \in Nat /\ m <= Cardinality(T) /\ Cardinality(T) \in Nat
      /\ Cardinality(S) \in Nat
  BY <1>2, <1>5, ToldFinite, GroupFields DEF Counts, Notified
<1>7. T # S
  BY <1>3, <1>4, <1>5 DEF Told
<1>8. Cardinality(T) <= Cardinality(S) /\ Cardinality(T) # Cardinality(S)
  BY <1>6, <1>7, FS_Subset
<1>9. m < Cardinality(S)
  BY <1>6, <1>8
<1> QED BY <1>1, <1>2, <1>3, <1>4, <1>5, <1>9 DEF Open

LEMMA NotifyCounts ==
  ASSUME Types, Types', Counts, Notify
  PROVE  Counts'
<1>1. PICK top, h, id, s : top = Top /\ h = top.group /\ id = top.call /\ s = groups'
  OBVIOUS
<1>2. h \in Open /\ id \in CallIds /\ NotifyKey(h, id) \in Keys
  BY <1>1, NotifyOpen
<1>3. /\ Tokens'
      /\ \A g, c : NotifyKey(g, c) \in Keys' => NotifyKey(g, c) \in Keys /\ NotifyKey(g, c) # NotifyKey(h, id)
      /\ \A c : CompleteKey(c) \in Keys' => CompleteKey(c) \in Keys
      /\ \A c, i : Slot(c, i) \in Held' => Slot(c, i) \in Held
  BY <1>1, <1>2, NotifyTokens DEF Counts
<1>4. /\ Grows /\ DOMAIN s = DOMAIN groups /\ calls' = calls /\ cache' = cache /\ timers' = timers
      /\ \A g \in DOMAIN groups :
           s[g].nbrNotifications =
             IF g = h THEN groups[g].nbrNotifications + 1 ELSE groups[g].nbrNotifications
  <2>1. calls' = calls /\ cache' = cache /\ timers' = timers
    BY DEF Notify
  <2> QED BY <1>1, <2>1, NotifyGroups
<1>5. CallIds' = CallIds /\ \A c \in CallIds : calls[c].loadedFiles \in Nat
  BY <1>4, CallFields DEF CallIds
<1>6. Counted'
  BY <1>3, <1>4, <1>5, CountedStays DEF Counts
<1>7. Finished'
  <2>1. \A c \in CallIds : calls'[c].loadedFiles >= calls[c].loadedFiles
    BY <1>4, <1>5
  <2>2. \A c \in CallIds' : calls'[c].succeeded => c \in CallIds /\ (calls[c].succeeded \/ CompleteKey(c) \in Keys)
    BY <1>4, <1>5
  <2>3. \A c \in CallIds' : CompleteKey(c) \in Keys' =>
           \/ c \in CallIds /\ CompleteKey(c) \in Keys /\ calls'[c].succeeded = calls[c].succeeded
           \/ calls'[c].loadedFiles >= Len(calls'[c].files) /\ ~calls'[c].succeeded
    BY <1>3, <1>4, <1>5
  <2> QED BY <1>4, <2>1, <2>2, <2>3, FinishedStep DEF Counts
<1>8. Notified'
  <2>1. \A g \in DOMAIN groups :
           \/ s[g].nbrNotifications = groups[g].nbrNotifications
           \/ /\ s[g].nbrNotifications = groups[g].nbrNotifications + 1
              /\ \E c \in CallIds : NotifyKey(g, c) \in Keys /\ NotifyKey(g, c) \notin Keys'
    BY <1>2, <1>3, <1>4
  <2>2. /\ \A c \in CallIds : calls[c].succeeded => calls'[c].succeeded
        /\ \A g \in DOMAIN groups', c \in CallIds' : NotifyKey(g, c) \in Keys' => NotifyKey(g, c) \in Keys
        /\ \A g \in DOMAIN groups', c \in CallIds' : <<g, c>> \in timers' => <<g, c>> \in timers
        /\ \A g \in DOMAIN groups' : g \in DOMAIN groups
    BY <1>1, <1>3, <1>4
  <2> QED BY <1>1, <1>4, <2>1, <2>2, NotifiedStep DEF Counts
<1> QED BY <1>3, <1>6, <1>7, <1>8 DEF Counts

LEMMA TimerCounts ==
  ASSUME Types, Types', Counts, Timer
  PROVE  Counts'
<1>1. PICK t \in timers : timers' = timers \ {t} /\ work' = <<NotifyFrame(t[1], t[2])>>
  BY DEF Timer
<1>2. /\ work = <<>> /\ waiters' = waiters /\ groups' = groups /\ calls' = calls /\ cache' = cache
      /\ Grows
  BY Unchanging DEF Timer
<1>3. t = <<t[1], t[2]>>
  BY DEF Types
<1>4. /\ Tokens'
      /\ \A g, c : NotifyKey(g, c) \in Keys' <=> g = t[1] /\ c = t[2]
      /\ \A c : CompleteKey(c) \notin Keys'
      /\ \A c, i : Slot(c, i) \in Held' => Slot(c, i) \in Held
  BY <1>1, <1>2, TimerTokens DEF Counts
<1>5. CallIds' = CallIds /\ \A c \in CallIds : calls[c].loadedFiles \in Nat
  BY <1>2, CallFields DEF CallIds
<1>6. Counted'
  BY <1>2, <1>4, <1>5, CountedStays DEF Counts
<1>7. Finished'
  <2>1. \A c \in CallIds : calls'[c].loadedFiles >= calls[c].loadedFiles
    BY <1>2, <1>5
  <2>2. \A c \in CallIds' : calls'[c].succeeded => c \in CallIds /\ (calls[c].succeeded \/ CompleteKey(c) \in Keys)
    BY <1>2, <1>5
  <2> QED BY <1>2, <1>4, <2>1, <2>2, FinishedStep DEF Counts
<1>8. Notified'
  <2>1. \A g \in DOMAIN groups', c \in CallIds' : NotifyKey(g, c) \in Keys' =>
          <<g, c>> \in timers /\ <<g, c>> \notin timers'
    BY <1>1, <1>3, <1>4
  <2>2. /\ \A c \in CallIds : calls[c].succeeded => calls'[c].succeeded
        /\ \A g \in DOMAIN groups', c \in CallIds' : <<g, c>> \in timers' => <<g, c>> \in timers
        /\ \A g \in DOMAIN groups : groups'[g].nbrNotifications = groups[g].nbrNotifications
        /\ \A g \in DOMAIN groups' : g \in DOMAIN groups
    BY <1>1, <1>2
  <2> QED BY <1>2, <2>1, <2>2, NotifiedStep DEF Counts
<1> QED BY <1>4, <1>6, <1>7, <1>8 DEF Counts

LEMMA CountsPreserved == Types /\ Counts /\ [Next]_vars => Counts'
<1> SUFFICES ASSUME Types, Counts, [Next]_vars
             PROVE  Counts'
  OBVIOUS
<1>0. Types' /\ Tokens
  BY TypesPreserved DEF Counts
<1>1. CASE Begin
  BY <1>0, <1>1, BeginCounts
<1>2. CASE Handle
  BY <1>0, <1>2, HandleTokens, SameCallsCounts, Unchanging DEF Handle
<1>3. CASE Attach
  BY <1>0, <1>3, AttachTokens, SameCallsCounts, Unchanging DEF Attach
<1>4. CASE Process
  BY <1>0, <1>4, ProcessTokens, SameCallsCounts, Unchanging DEF Process
<1>5. CASE Ran
  BY <1>0, <1>5, RanCounts
<1>6. CASE Loaded
  BY <1>0, <1>6, LoadedCounts
<1>7. CASE CallBack
  BY <1>0, <1>7, CallBackTokens, SameCallsCounts, Unchanging DEF CallBack
<1>8. CASE Complete
  BY <1>0, <1>8, CompleteCounts
<1>9. CASE Notify
  BY <1>0, <1>9, NotifyCounts
<1>10. CASE Ask
  BY <1>0, <1>10, AskTokens, SameCallsCounts, Unchanging DEF Ask
<1>11. CASE Timer
  BY <1>0, <1>11, TimerCounts
<1>12. ASSUME NEW f \in Files, Answer(f)
       PROVE  Counts'
  BY <1>0, <1>12, AnswerTokens, SameCallsCounts, Unchanging DEF Answer
<1>13. ASSUME NEW f \in Files, Fail(f)
       PROVE  Counts'
  <2>1. /\ Grows /\ CallIds' = CallIds
        /\ \A c \in CallIds : /\ calls'[c].loadedFiles = calls[c].loadedFiles
                              /\ calls'[c].succeeded = calls[c].succeeded
    BY <1>13, FailCalls
  <2>2. cache' = cache /\ timers' = timers /\ groups' = groups
    BY <1>13 DEF Fail
  <2>3. Tokens' /\ PlainKeys
    BY <1>0, <1>13, FailTokens
  <2> QED BY <1>0, <2>1, <2>2, <2>3, PlainCounts
<1>14. CASE UNCHANGED vars
  <2>1. UNCHANGED <<calls, groups, cache, timers, work, waiters>> /\ Grows
    BY <1>14, Unchanging DEF vars
  <2>2. Keys' = Keys /\ OnceEach(work')
    BY <1>0, <2>1 DEF Keys, Tokens
  <2>3. Tokens' /\ Awaited' = Awaited /\ Grouped' = Grouped
    <3>1. KeysOf(work') \cap (Awaited \cup Grouped) = {}
      BY <1>0, <2>2 DEF Tokens, Keys
    <3> QED BY <1>0, <2>1, <2>2, <3>1, StillTokens
  <2>4. PlainKeys
    BY <2>2, <2>3 DEF PlainKeys, Held
  <2> QED BY <1>0, <2>1, <2>3, <2>4, SameCallsCounts
<1> QED BY <1>1, <1>2, <1>3, <1>4, <1>5, <1>6, <1>7, <1>8, <1>9, <1>10, <1>11, <1>12, <1>13, <1>14
        DEF Next, Thread

LEMMA InitCounts == Init => Counts
<1> SUFFICES ASSUME Init PROVE Counts
  OBVIOUS
<1>1. /\ CallIds = {} /\ DOMAIN groups = {} /\ work = <<>>
      /\ \A f \in Files : DOMAIN waiters[f] = {}
  BY NoFrame DEF Init, CallIds
<1>2. Open = {} /\ Grouped = {} /\ Awaited = {}
  BY <1>1 DEF Open, Grouped, Awaited, Awaits
<1>3. OnceEach(work) /\ Keys = {}
  BY <1>1, IdleKeys
<1>4. Tokens
  BY <1>1, <1>2, <1>3 DEF Tokens, WaitOnce, GroupOnce
<1>5. Counted /\ Finished /\ Notified
  BY <1>1 DEF Counted, Finished, Notified
<1> QED BY <1>4, <1>5 DEF Counts

(***************************************************************************)
(* No call counts a file twice, and no script counts a call twice that it  *)
(* has required: a file of a call is in one place only until it is loaded, *)
(* and the success of a call reaches a script once.                        *)
(***************************************************************************)
THEOREM NothingCountedTwice == Spec => []TypeOK
<1>1. Init => Types /\ Counts
  BY InitTypes, InitCounts
<1>2. Types /\ Counts /\ [Next]_vars => (Types /\ Counts)'
  BY TypesPreserved, CountsPreserved
<1>3. Types /\ Counts => TypeOK
  <2> SUFFICES ASSUME Types, Counts PROVE TypeOK
    OBVIOUS
  <2>1. ASSUME NEW c \in CallIds
        PROVE  calls[c].loadedFiles <= Len(calls[c].files)
    <3>1. PICK l, m, n : l = calls[c].loadedFiles /\ m = Cardinality(LoadedSlots(c)) /\ n = Len(calls[c].files)
      OBVIOUS
    <3>2. l \in Nat /\ m \in Nat /\ n \in Nat /\ l <= m /\ m <= n
      BY <3>1, CallFields, SlotsOfCall DEF Counts, Counted
    <3>3. l <= n
      BY <3>2
    <3> QED BY <3>1, <3>3
  <2>2. ASSUME NEW g \in DOMAIN groups
        PROVE  groups[g].nbrNotifications <= Cardinality(groups[g].on)
    <3>1. PICK l, m, n : l = groups[g].nbrNotifications /\ m = Cardinality(Told(g))
                         /\ n = Cardinality(groups[g].on)
      OBVIOUS
    <3>2. l \in Nat /\ m \in Nat /\ n \in Nat /\ l <= m /\ m <= n
      BY <3>1, GroupFields, ToldFinite DEF Counts, Notified
    <3>3. l <= n
      BY <3>2
    <3> QED BY <3>1, <3>3
  <2> QED BY <2>1, <2>2 DEF TypeOK
<1> QED BY <1>1, <1>2, <1>3, PTL DEF Spec

-----------------------------------------------------------------------------
(* What is loaded has been executed, and so has what it requires.           *)

Ready(f) == executed[f] > 0 /\ (f \in Optional \/ ToSet(Deps[f]) \subseteq cache)

FrameSound(w) ==
  /\ w.do = "loaded" => Ready(FileOf(w))
  /\ w.do = "ran" => executed[FileOf(w)] > 0

WorkSound == \A k \in DOMAIN work : FrameSound(work[k])

GroupFile(g) == calls[groups[g].call].files[groups[g].index]

Sound ==
  /\ \A f \in cache : Ready(f)
  /\ WorkSound
  /\ \A g \in DOMAIN groups :
       /\ executed[GroupFile(g)] > 0
       /\ Deps[GroupFile(g)] # <<>> => \E c \in groups[g].on : calls[c].files = Deps[GroupFile(g)]

(* Nothing is unloaded. *)
Keeps == cache \subseteq cache' /\ \A f \in Files : executed[f] > 0 => executed'[f] > 0

LEMMA StepKeeps ==
  ASSUME Types, Next
  PROVE  Keeps
<1>1. ASSUME cache' = cache, executed' = executed
      PROVE  Keeps
  BY <1>1 DEF Keeps
<1>2. CASE Process
  <2>1. File \in Files
    BY <1>2, ProcessPuts
  <2>2. executed \in [Files -> Nat]
    BY DEF Types
  <2>3. executed' = executed \/ executed' = [executed EXCEPT ![File] = @ + 1]
    BY <1>2 DEF Process
  <2>4. \A f \in Files : executed[f] > 0 => executed'[f] > 0
    BY <2>1, <2>2, <2>3
  <2> QED BY <1>2, <2>4 DEF Process, Keeps
<1>3. CASE Loaded
  BY <1>3 DEF Loaded, Keeps
<1> QED BY <1>1, <1>2, <1>3
        DEF Next, Thread, Begin, Handle, Attach, Ran, CallBack, Complete, Notify, Ask, Timer, Answer, Fail

LEMMA ReadyStays ==
  ASSUME Keeps, NEW f \in Files, Ready(f)
  PROVE  Ready(f)'
BY DEF Ready, Keeps

LEMMA FileInFiles ==
  ASSUME Types, NEW c, NEW i, IsSlot(c, i)
  PROVE  calls[c].files[i] \in Files
<1>1. c \in CallIds /\ i \in DOMAIN calls[c].files
  BY DEF IsSlot
<1>2. calls[c].files \in Seq(Files) /\ DOMAIN calls[c].files = 1 .. Len(calls[c].files)
  BY <1>1, CallFields
<1> QED BY <1>1, <1>2, ElementOfSeq

LEMMA FrameSoundStays ==
  ASSUME Types, Grows, Keeps, NEW w, FrameSound(w), FileFrame(w) => IsSlot(w.call, w.index)
  PROVE  FrameSound(w)'
<1>1. CASE w.do \in {"loaded", "ran"}
  <2>1. IsSlot(w.call, w.index)
    BY <1>1 DEF FileFrame
  <2>2. PICK f : f = FileOf(w)
    OBVIOUS
  <2>3. f \in Files
    BY <2>1, <2>2, FileInFiles DEF FileOf
  <2>4. FileOf(w)' = f
    BY <2>1, <2>2 DEF FileOf, Grows, IsSlot
  <2>5. w.do = "loaded" => Ready(f)'
    BY <2>2, <2>3, ReadyStays DEF FrameSound
  <2>6. w.do = "ran" => executed'[f] > 0
    BY <2>2, <2>3 DEF FrameSound, Keeps
  <2>7. w.do = "loaded" => Ready(FileOf(w))'
    BY <2>4, <2>5 DEF Ready
  <2> QED BY <2>4, <2>6, <2>7 DEF FrameSound
<1>2. CASE w.do \notin {"loaded", "ran"}
  BY <1>2 DEF FrameSound
<1> QED BY <1>1, <1>2

LEMMA SoundFrames ==
  ASSUME Types, Grows, Keeps, Sound, NEW new, Puts(new), \A k \in 1 .. Len(new) : FrameSound(new[k])'
  PROVE  WorkSound'
<1>1. PICK old, w, n : old = work /\ w = work' /\ n = Len(new)
  OBVIOUS
<1>2. /\ old \in Seq(Frame) /\ new \in Seq(Frame') /\ work # <<>> /\ n \in Nat
      /\ DOMAIN old = 1 .. Len(old) /\ Len(old) \in Nat
  BY <1>1, LenProperties DEF Puts, Types
<1>3. old \in Seq(Frame')
  BY <1>2, FrameGrows, SeqMonotonic
<1>4. /\ w \in Seq(Frame')
      /\ Len(w) = n + Len(old) - 1
      /\ \A k \in 1 .. n : w[k] = new[k]
      /\ \A k \in n + 1 .. Len(w) : k - n + 1 \in 2 .. Len(old) /\ w[k] = old[k - n + 1]
  BY <1>1, <1>2, <1>3, ProceedWork DEF Puts
<1>5. DOMAIN w = 1 .. Len(w) /\ Len(w) \in Nat
  BY <1>4, LenProperties
<1>6. ASSUME NEW k \in DOMAIN old
      PROVE  FrameSound(old[k])'
  <2>1. FrameSound(old[k]) /\ (FileFrame(old[k]) => IsSlot(old[k].call, old[k].index))
    BY <1>1 DEF Sound, WorkSound, Types
  <2> QED BY <2>1, FrameSoundStays
<1>7. ASSUME NEW k \in DOMAIN w
      PROVE  FrameSound(w[k])'
  <2>1. CASE k \in 1 .. n
    <3>1. PICK v : v = new[k]
      OBVIOUS
    <3>2. w[k] = v /\ FrameSound(v)'
      BY <1>1, <1>4, <2>1, <3>1
    <3> QED BY <3>2
  <2>2. CASE k \in n + 1 .. Len(w)
    <3>1. k - n + 1 \in DOMAIN old /\ w[k] = old[k - n + 1]
      BY <1>2, <1>4, <2>2
    <3>2. PICK j \in DOMAIN old : w[k] = old[j]
      BY <3>1
    <3>3. PICK v : v = old[j]
      OBVIOUS
    <3>4. w[k] = v /\ FrameSound(v)'
      BY <1>6, <3>2, <3>3
    <3> QED BY <3>4
  <2> QED BY <1>2, <1>5, <2>1, <2>2
<1> QED BY <1>1, <1>7 DEF WorkSound, FrameSound, FileOf, Ready

LEMMA GroupStays ==
  ASSUME Types, Grows, Keeps, Sound, NEW g \in DOMAIN groups
  PROVE  /\ GroupFile(g)' = GroupFile(g) /\ GroupFile(g) \in Files
         /\ executed'[GroupFile(g)] > 0
         /\ Deps[GroupFile(g)] # <<>> => \E c \in groups'[g].on : calls'[c].files = Deps[GroupFile(g)]
<1>1. IsSlot(groups[g].call, groups[g].index) /\ groups[g].on \subseteq CallIds
  BY GroupFields
<1>2. GroupFile(g) \in Files
  BY <1>1, FileInFiles DEF GroupFile
<1>3. GroupFile(g)' = GroupFile(g)
  BY <1>1 DEF GroupFile, Grows, IsSlot
<1>4. executed'[GroupFile(g)] > 0
  BY <1>2 DEF Sound, Keeps
<1>5. Deps[GroupFile(g)] # <<>> => \E c \in groups'[g].on : calls'[c].files = Deps[GroupFile(g)]
  <2> SUFFICES ASSUME Deps[GroupFile(g)] # <<>>
               PROVE  \E c \in groups'[g].on : calls'[c].files = Deps[GroupFile(g)]
    OBVIOUS
  <2>1. PICK c \in groups[g].on : calls[c].files = Deps[GroupFile(g)]
    BY DEF Sound
  <2>2. c \in groups'[g].on /\ calls'[c].files = calls[c].files
    BY <1>1 DEF Grows
  <2> QED BY <2>1, <2>2
<1> QED BY <1>2, <1>3, <1>4, <1>5

(* What is left to show of a step. *)
LEMMA SoundStep ==
  ASSUME Types, Grows, Keeps, Sound,
         cache' = cache \/ \E f \in Files : Ready(f)' /\ cache' = cache \cup {f},
         WorkSound',
         DOMAIN groups' = DOMAIN groups
  PROVE  Sound'
<1>1. ASSUME NEW f \in cache'
      PROVE  Ready(f)'
  <2>1. CASE f \in cache
    <3>1. f \in Files /\ Ready(f)
      BY <2>1 DEF Types, Sound
    <3> QED BY <3>1, ReadyStays
  <2>2. CASE f \notin cache
    <3>1. PICK h \in Files : Ready(h)' /\ cache' = cache \cup {h}
      BY <1>1, <2>2
    <3>2. f = h
      BY <1>1, <2>2, <3>1
    <3> QED BY <3>1, <3>2
  <2> QED BY <2>1, <2>2
<1>2. ASSUME NEW g \in DOMAIN groups'
      PROVE  /\ executed'[GroupFile(g)'] > 0
             /\ Deps[GroupFile(g)'] # <<>> =>
                  \E c \in groups'[g].on : calls'[c].files = Deps[GroupFile(g)']
  BY GroupStays
<1> QED BY <1>1, <1>2 DEF Sound

(* A succeeded call has all of its files. *)
LEMMA SucceededLoaded ==
  ASSUME Types, Counts, NEW c \in CallIds, calls[c].succeeded
  PROVE  ToSet(calls[c].files) \subseteq cache
<1>1. AllLoaded(c)
  BY DEF Counts, Finished
<1> QED BY <1>1, AllSlots DEF Counts

LEMMA ToSetNone == ToSet(<<>>) = {}
BY NoFrame DEF ToSet

(* When its body has run, a script has a stack with what it requires. *)
LEMMA RanRequired ==
  ASSUME Types, InContext, Ran, Deps[File] # <<>>
  PROVE  File \in DOMAIN stacks /\ Required(File)
<1>1. PICK old, top, f : old = work /\ top = Top /\ f = File
  OBVIOUS
<1>2. PICK ctx : Contexts(ctx)
  BY DEF InContext
<1>3. work # <<>> /\ top.do = "ran"
  BY <1>1, RanCases
<1>4. 1 \in DOMAIN work /\ top = old[1] /\ f \in Files
  BY <1>1, <1>3, TopFacts DEF FileFrame
<1>5. ctx[1] = f
  BY <1>1, <1>2, <1>3, ContextFacts DEF FileOf, File
<1>6. f \in DOMAIN stacks
  <2>1. ctx[1] # None
    BY <1>4, <1>5, ListsAssumption
  <2>2. 1 \in 1 .. Len(old) + 1
    BY <1>1, <1>2, <1>3, ContextFacts
  <2> QED BY <1>1, <1>2, <1>3, <1>5, <2>1, <2>2, ContextFacts
<1>7. Required(f)
  <2>1. Required(ctx[1]) \/ \E j \in 1 .. 1 - 1 : Requested(ctx[1], work[j], ctx[j])
    BY <1>1, <1>2, <1>3, <1>4, <1>5 DEF Contexts
  <2> QED BY <1>5, <2>1
<1> QED BY <1>1, <1>6, <1>7

(* The body has run and all it has required is there. *)
LEMMA RanReady ==
  ASSUME Types, Counts, Sound, InContext, Ran,
         File \in Optional \/ OverOf(File) = StackOf(File)
  PROVE  Ready(File)
<1>1. PICK old, top, f : old = work /\ top = Top /\ f = File
  OBVIOUS
<1>2. work # <<>> /\ top.do = "ran"
  BY <1>1, RanCases
<1>3. 1 \in DOMAIN work /\ top = old[1] /\ f \in Files
  BY <1>1, <1>2, TopFacts DEF FileFrame
<1>4. executed[f] > 0
  BY <1>1, <1>2, <1>3 DEF Sound, WorkSound, FrameSound, FileOf, File
<1>5. ToSet(Deps[f]) \subseteq cache \/ f \in Optional
  <2>1. CASE Deps[f] = <<>>
    BY <2>1, ToSetNone
  <2>2. CASE f \notin Optional /\ Deps[f] # <<>>
    <3>1. PICK c \in stacks[f] : f \in DOMAIN stacks /\ calls[c].files = Deps[f]
      BY <1>1, <2>2, RanRequired DEF Required
    <3>2. c \in StackOf(f) /\ OverOf(f) = StackOf(f)
      BY <1>1, <2>2, <3>1 DEF StackOf
    <3>3. c \in CallIds /\ calls[c].succeeded
      BY <3>1, <3>2 DEF OverOf, Types
    <3> QED BY <3>1, <3>3, SucceededLoaded
  <2> QED BY <2>1, <2>2
<1> QED BY <1>1, <1>4, <1>5 DEF Ready

LEMMA HarmlessFrames ==
  ASSUME NEW w, w.do \notin {"loaded", "ran"}
  PROVE  FrameSound(w)'
BY DEF FrameSound

LEMMA OtherFrames ==
  /\ \A c, i : HandleFrame(c, i).do = "handle" /\ ProcessFrame(c, i).do = "process"
  /\ \A c : AttachFrame(c).do = "attach" /\ CallbackFrame(c).do = "callback" /\ CompleteFrame(c).do = "complete"
  /\ \A list, o : RequireFrame(list, o).do = "require"
  /\ \A g, c : NotifyFrame(g, c).do = "notify"
BY DEF HandleFrame, ProcessFrame, AttachFrame, CallbackFrame, CompleteFrame, RequireFrame, NotifyFrame

LEMMA LoadedFrameSound ==
  ASSUME Types, Grows, Keeps, NEW c, NEW i, IsSlot(c, i), Ready(calls[c].files[i])
  PROVE  FrameSound(LoadedFrame(c, i))'
<1>1. PICK f, w : f = calls[c].files[i] /\ w = LoadedFrame(c, i)
  OBVIOUS
<1>2. f \in Files /\ Ready(f)
  BY <1>1, FileInFiles
<1>3. calls'[c].files[i] = f
  BY <1>1 DEF IsSlot, Grows
<1>4. Ready(f)'
  BY <1>2, ReadyStays
<1>5. w.do = "loaded" /\ w.call = c /\ w.index = i
  BY <1>1 DEF LoadedFrame
<1>6. FrameSound(w)'
  BY <1>3, <1>4, <1>5 DEF FrameSound, FileOf, Ready
<1> QED BY <1>1, <1>6 DEF LoadedFrame

LEMMA SoundPuts ==
  ASSUME Types, Grows, Keeps, Sound
  PROVE  /\ Puts(<<>>) => WorkSound'
         /\ \A w : FrameSound(w)' /\ Puts(<<w>>) => WorkSound'
         /\ \A v, w : FrameSound(v)' /\ FrameSound(w)' /\ Puts(<<v, w>>) => WorkSound'
<1>1. ASSUME Puts(<<>>)
      PROVE  WorkSound'
  <2>1. PICK new : new = <<>>
    OBVIOUS
  <2>2. Puts(new) /\ \A k \in 1 .. Len(new) : FrameSound(new[k])'
    BY <1>1, <2>1
  <2> QED BY <2>2, SoundFrames
<1>2. ASSUME NEW w, FrameSound(w)', Puts(<<w>>)
      PROVE  WorkSound'
  <2>1. PICK new : new = <<w>>
    OBVIOUS
  <2>2. \A k \in 1 .. Len(new) : FrameSound(new[k])'
    <3> SUFFICES ASSUME NEW k \in 1 .. Len(new) PROVE FrameSound(new[k])'
      OBVIOUS
    <3>1. PICK v : v = new[k]
      OBVIOUS
    <3>2. v = w
      BY <2>1, <3>1
    <3> QED BY <1>2, <3>1, <3>2 DEF FrameSound, FileOf, Ready
  <2>3. Puts(new)
    BY <1>2, <2>1
  <2> QED BY <2>2, <2>3, SoundFrames
<1>3. ASSUME NEW v, NEW w, FrameSound(v)', FrameSound(w)', Puts(<<v, w>>)
      PROVE  WorkSound'
  <2>1. PICK new : new = <<v, w>>
    OBVIOUS
  <2>2. \A k \in 1 .. Len(new) : FrameSound(new[k])'
    <3> SUFFICES ASSUME NEW k \in 1 .. Len(new) PROVE FrameSound(new[k])'
      OBVIOUS
    <3>1. PICK x : x = new[k]
      OBVIOUS
    <3>2. x = v \/ x = w
      BY <2>1, <3>1
    <3> QED BY <1>3, <3>1, <3>2 DEF FrameSound, FileOf, Ready
  <2>3. Puts(new)
    BY <1>3, <2>1
  <2> QED BY <2>2, <2>3, SoundFrames
<1> QED BY <1>1, <1>2, <1>3

LEMMA BeginSound ==
  ASSUME Types, Keeps, Sound, Begin
  PROVE  Sound'
<1>1. Grows /\ cache' = cache /\ DOMAIN groups' = DOMAIN groups
  BY BeginCalls DEF Begin
<1>2. PICK new, n, c : /\ Puts(new) /\ Len(new) = n + 1 /\ n \in Nat
                       /\ \A i \in 1 .. n : new[i] = HandleFrame(c, i)
                       /\ new[n + 1] = AttachFrame(c)
  BY BeginPuts
<1>3. \A k \in 1 .. Len(new) : FrameSound(new[k])'
  <2> SUFFICES ASSUME NEW k \in 1 .. n + 1 PROVE FrameSound(new[k])'
    BY <1>2
  <2>1. k \in 1 .. n \/ k = n + 1
    BY <1>2
  <2>2. new[k].do \in {"handle", "attach"}
    BY <1>2, <2>1, OtherFrames
  <2> QED BY <2>2, HarmlessFrames
<1> QED BY <1>1, <1>2, <1>3, SoundFrames, SoundStep

LEMMA HandleSound ==
  ASSUME Types, Keeps, Sound, Handle
  PROVE  Sound'
<1>1. /\ Grows /\ cache' = cache /\ DOMAIN groups' = DOMAIN groups
      /\ work # <<>> /\ Top.do = "handle" /\ IsSlot(Top.call, Top.index)
  <2>1. /\ Grows /\ cache' = cache /\ DOMAIN groups' = DOMAIN groups /\ work # <<>> /\ Top.do = "handle"
    BY Unchanging, HandlePuts DEF Handle
  <2> QED BY <2>1, TopFacts DEF FileFrame
<1>2. PICK top : top = Top
  OBVIOUS
<1>3. PICK v, w : v = LoadedFrame(top.call, top.index) /\ w = ProcessFrame(top.call, top.index)
  OBVIOUS
<1>4. FrameSound(w)'
  <2>1. w.do = "process"
    BY <1>3, OtherFrames
  <2> QED BY <2>1, HarmlessFrames
<1>5. File \in cache => FrameSound(v)'
  <2> SUFFICES ASSUME File \in cache PROVE FrameSound(v)'
    OBVIOUS
  <2>1. Ready(calls[top.call].files[top.index])
    <3>1. PICK f : f = File
      OBVIOUS
    <3>2. Ready(f)
      BY <3>1 DEF Sound
    <3>3. calls[top.call].files[top.index] = f
      BY <1>2, <3>1 DEF File
    <3> QED BY <3>2, <3>3
  <2>2. FrameSound(LoadedFrame(top.call, top.index))'
    BY <1>1, <1>2, <2>1, LoadedFrameSound
  <2> QED BY <1>3, <2>2 DEF FrameSound, FileOf, Ready, LoadedFrame
<1>6. WorkSound'
  <2>1. \/ File \in cache /\ Puts(<<v>>)
        \/ Puts(<<w>>)
        \/ Puts(<<>>)
    BY <1>2, <1>3, HandlePuts
  <2> QED BY <1>1, <1>4, <1>5, <2>1, SoundPuts
<1> QED BY <1>1, <1>6, SoundStep

LEMMA ProcessSound ==
  ASSUME Types, Keeps, Sound, Process
  PROVE  Sound'
<1>1. /\ Grows /\ cache' = cache /\ DOMAIN groups' = DOMAIN groups
      /\ work # <<>> /\ Top.do = "process" /\ IsSlot(Top.call, Top.index)
  <2>1. /\ Grows /\ cache' = cache /\ DOMAIN groups' = DOMAIN groups /\ work # <<>> /\ Top.do = "process"
    BY Unchanging, ProcessPuts DEF Process
  <2> QED BY <2>1, TopFacts DEF FileFrame
<1>2. PICK top, x, f : top = Top /\ x = current /\ f = File
  OBVIOUS
<1>3. PICK v, w, q : /\ v = LoadedFrame(top.call, top.index) /\ w = RanFrame(top.call, top.index, x)
                     /\ q = RequireFrame(Deps[f], f)
  OBVIOUS
<1>4. calls[top.call].files[top.index] = f /\ calls'[top.call].files[top.index] = f /\ f \in Files
  BY <1>1, <1>2, FileInFiles DEF File, IsSlot, Grows
<1>5. FrameSound(q)'
  <2>1. q.do = "require"
    BY <1>3, OtherFrames
  <2> QED BY <2>1, HarmlessFrames
<1>6. f \in cache => FrameSound(v)'
  <2> SUFFICES ASSUME f \in cache PROVE FrameSound(v)'
    OBVIOUS
  <2>1. Ready(calls[top.call].files[top.index])
    BY <1>4 DEF Sound
  <2>2. FrameSound(LoadedFrame(top.call, top.index))'
    BY <1>1, <1>2, <2>1, LoadedFrameSound
  <2> QED BY <1>3, <2>2 DEF FrameSound, FileOf, Ready, LoadedFrame
<1>7. executed' = [executed EXCEPT ![f] = @ + 1] => FrameSound(w)'
  <2> SUFFICES ASSUME executed' = [executed EXCEPT ![f] = @ + 1] PROVE FrameSound(w)'
    OBVIOUS
  <2>1. executed'[f] > 0
    <3>1. executed \in [Files -> Nat]
      BY DEF Types
    <3> QED BY <1>4, <3>1
  <2>2. w.do = "ran" /\ w.call = top.call /\ w.index = top.index
    BY <1>3 DEF RanFrame
  <2> QED BY <1>4, <2>1, <2>2 DEF FrameSound, FileOf
<1>8. WorkSound'
  <2>1. \/ f \in cache /\ Puts(<<v>>)
        \/ /\ executed' = [executed EXCEPT ![f] = @ + 1]
           /\ Puts(<<w>>) \/ Puts(<<q, w>>)
    BY <1>2, <1>3, ProcessPuts
  <2> QED BY <1>1, <1>5, <1>6, <1>7, <2>1, SoundPuts
<1> QED BY <1>1, <1>8, SoundStep

LEMMA LoadedSound ==
  ASSUME Types, Keeps, Sound, Loaded
  PROVE  Sound'
<1>1. /\ Grows /\ DOMAIN groups' = DOMAIN groups /\ cache' = cache \cup {File}
      /\ work # <<>> /\ Top.do = "loaded" /\ File \in Files
  BY LoadedPuts DEF Loaded
<1>2. PICK top, f : top = Top /\ f = File
  OBVIOUS
<1>3. Ready(f)
  <2>1. 1 \in DOMAIN work /\ Top = work[1]
    BY <1>1, TopFacts
  <2>2. FrameSound(Top)
    BY <2>1 DEF Sound, WorkSound
  <2>3. FileOf(Top) = f
    BY <1>2 DEF FileOf, File
  <2> QED BY <1>1, <2>2, <2>3 DEF FrameSound
<1>4. Ready(f)' /\ f \in Files /\ cache' = cache \cup {f}
  BY <1>1, <1>2, <1>3, ReadyStays
<1>5. PICK v, w : v = CallbackFrame(top.call) /\ w = CompleteFrame(top.call)
  OBVIOUS
<1>6. FrameSound(v)' /\ FrameSound(w)'
  <2>1. v.do = "callback" /\ w.do = "complete"
    BY <1>5, OtherFrames
  <2> QED BY <2>1, HarmlessFrames
<1>7. WorkSound'
  <2>1. Puts(<<v, w>>) \/ Puts(<<>>)
    BY <1>2, <1>5, LoadedPuts
  <2> QED BY <1>1, <1>6, <2>1, SoundPuts
<1> QED BY <1>1, <1>4, <1>7, SoundStep

LEMMA AttachSound ==
  ASSUME Types, Keeps, Sound, Attach
  PROVE  Sound'
<1>1. Grows /\ cache' = cache /\ DOMAIN groups' = DOMAIN groups /\ Puts(<<>>)
  BY AttachPuts
<1>2. WorkSound'
  BY <1>1, SoundPuts
<1> QED BY <1>1, <1>2, SoundStep

LEMMA CallBackSound ==
  ASSUME Types, Keeps, Sound, CallBack
  PROVE  Sound'
<1>1. Grows /\ cache' = cache /\ DOMAIN groups' = DOMAIN groups
  BY Unchanging DEF CallBack
<1>2. Puts(<<>>) \/ \E list, o : Puts(<<RequireFrame(list, o)>>)
  BY CallBackPuts
<1>3. ASSUME NEW list, NEW o, Puts(<<RequireFrame(list, o)>>)
      PROVE  WorkSound'
  <2>1. PICK w : w = RequireFrame(list, o)
    OBVIOUS
  <2>2. w.do = "require"
    BY <2>1, OtherFrames
  <2>3. FrameSound(w)'
    BY <2>2, HarmlessFrames
  <2> QED BY <1>1, <1>3, <2>1, <2>3, SoundPuts
<1>4. WorkSound'
  BY <1>1, <1>2, <1>3, SoundPuts
<1> QED BY <1>1, <1>4, SoundStep

LEMMA CompleteSound ==
  ASSUME Types, Keeps, Sound, Complete
  PROVE  Sound'
<1>1. Grows /\ cache' = cache /\ DOMAIN groups' = DOMAIN groups
  BY CompletePuts DEF Complete
<1>2. PICK told, c, n : /\ DOMAIN told = 1 .. n /\ n \in Nat
                        /\ Puts(NotifyFrames(told, c)) /\ Len(NotifyFrames(told, c)) = n
  <2>1. PICK told \in [1 .. Cardinality(Observing(Top.call)) -> Observing(Top.call)] :
          /\ Cardinality(Observing(Top.call)) \in Nat
          /\ Puts(NotifyFrames(told, Top.call))
          /\ Len(NotifyFrames(told, Top.call)) = Cardinality(Observing(Top.call))
    BY CompletePuts
  <2> QED BY <2>1
<1>3. PICK new : new = NotifyFrames(told, c)
  OBVIOUS
<1>4. \A k \in 1 .. Len(new) : FrameSound(new[k])'
  <2> SUFFICES ASSUME NEW k \in 1 .. n PROVE FrameSound(new[k])'
    BY <1>2, <1>3
  <2>1. new[k] = NotifyFrame(told[k], c)
    BY <1>2, <1>3 DEF NotifyFrames
  <2>2. new[k].do = "notify"
    BY <2>1, OtherFrames
  <2> QED BY <2>2, HarmlessFrames
<1>5. WorkSound'
  BY <1>1, <1>2, <1>3, <1>4, SoundFrames
<1> QED BY <1>1, <1>5, SoundStep

(* The last call that a script waits for has succeeded. *)
LEMMA NotifyReady ==
  ASSUME Types, Counts, Sound, Notify,
         groups[Top.group].nbrNotifications + 1 >= Cardinality(groups[Top.group].on)
  PROVE  Ready(GroupFile(Top.group))
<1>1. PICK top, g, c, f : top = Top /\ g = top.group /\ c = top.call /\ f = GroupFile(g)
  OBVIOUS
<1>2. /\ g \in DOMAIN groups /\ c \in CallIds /\ NotifyKey(g, c) \in Keys
      /\ c \in groups[g].on /\ calls[c].succeeded
  BY <1>1, NotifyOpen, NotifyPuts
<1>3. PICK S, T, m : S = groups[g].on /\ T = Told(g) /\ m = groups[g].nbrNotifications
  OBVIOUS
<1>4. T \subseteq S /\ IsFiniteSet(S) /\ IsFiniteSet(T) /\ m \in Nat /\ m <= Cardinality(T)
      /\ Cardinality(T) \in Nat /\ Cardinality(S) \in Nat /\ S \subseteq CallIds
  BY <1>2, <1>3, ToldFinite, GroupFields DEF Counts, Notified
<1>5. c \notin T
  BY <1>2, <1>3 DEF Told
<1>6. Cardinality(T \cup {c}) = Cardinality(T) + 1 /\ T \cup {c} \subseteq S
  BY <1>2, <1>3, <1>4, <1>5, FS_AddElement
<1>7. T \cup {c} = S
  <2>1. m + 1 >= Cardinality(S)
    BY <1>1, <1>3
  <2>2. Cardinality(T \cup {c}) <= Cardinality(S)
        /\ (Cardinality(T \cup {c}) = Cardinality(S) => T \cup {c} = S)
    BY <1>4, <1>6, FS_Subset
  <2> QED BY <1>4, <1>6, <2>1, <2>2
<1>8. \A d \in S : d \in CallIds /\ calls[d].succeeded
  BY <1>2, <1>3, <1>4, <1>7 DEF Told
<1>9. executed[f] > 0
  BY <1>1, <1>2 DEF Sound
<1>10. ToSet(Deps[f]) \subseteq cache
  <2>1. CASE Deps[f] = <<>>
    BY <2>1, ToSetNone
  <2>2. CASE Deps[f] # <<>>
    <3>1. PICK d \in S : calls[d].files = Deps[f]
      BY <1>1, <1>2, <1>3, <2>2 DEF Sound
    <3> QED BY <1>8, <3>1, SucceededLoaded
  <2> QED BY <2>1, <2>2
<1> QED BY <1>1, <1>9, <1>10 DEF Ready

LEMMA NotifySound ==
  ASSUME Types, Keeps, Counts, Sound, Notify
  PROVE  Sound'
<1>1. Grows /\ cache' = cache /\ DOMAIN groups' = DOMAIN groups
  BY NotifyGroups DEF Notify
<1>2. PICK top, g : top = Top /\ g = top.group
  OBVIOUS
<1>3. g \in DOMAIN groups /\ IsSlot(groups[g].call, groups[g].index)
  BY <1>2, NotifyPuts, GroupFields
<1>4. PICK c, i, w : c = groups[g].call /\ i = groups[g].index /\ w = LoadedFrame(c, i)
  OBVIOUS
<1>5. CASE groups[g].nbrNotifications + 1 >= Cardinality(groups[g].on) /\ Puts(<<w>>)
  <2>1. Ready(calls[c].files[i])
    BY <1>2, <1>4, <1>5, NotifyReady DEF GroupFile
  <2>2. FrameSound(LoadedFrame(c, i))'
    BY <1>1, <1>3, <1>4, <2>1, LoadedFrameSound
  <2>3. FrameSound(w)'
    BY <1>4, <2>2 DEF FrameSound, FileOf, Ready, LoadedFrame
  <2>4. WorkSound'
    BY <1>1, <1>5, <2>3, SoundPuts
  <2> QED BY <1>1, <2>4, SoundStep
<1>6. CASE Puts(<<>>)
  <2>1. WorkSound'
    BY <1>1, <1>6, SoundPuts
  <2> QED BY <1>1, <2>1, SoundStep
<1> QED BY <1>2, <1>4, <1>5, <1>6, NotifyPuts

LEMMA RanSound ==
  ASSUME Types, Keeps, Counts, InContext, Sound, Ran
  PROVE  Sound'
<1>1. /\ Grows /\ calls' = calls /\ cache' = cache /\ executed' = executed
      /\ work # <<>> /\ Top.do = "ran" /\ IsSlot(Top.call, Top.index) /\ File \in Files
  <2>1. Grows /\ work # <<>> /\ Top.do = "ran"
        /\ calls' = calls /\ cache' = cache /\ executed' = executed
    BY RanPuts, RanCases
  <2> QED BY <2>1, TopFacts DEF FileFrame
<1>2. PICK top, f, c, i : top = Top /\ f = File /\ c = top.call /\ i = top.index
  OBVIOUS
<1>3. calls[c].files[i] = f
  BY <1>2 DEF File
<1>4. CASE /\ File \in Optional \/ OverOf(File) = StackOf(File)
           /\ Proceed(<<LoadedFrame(Top.call, Top.index)>>)
           /\ UNCHANGED <<groups, timers>>
  <2>1. PICK w : w = LoadedFrame(c, i)
    OBVIOUS
  <2>2. Ready(calls[c].files[i])
    BY <1>2, <1>3, <1>4, RanReady
  <2>3. FrameSound(LoadedFrame(c, i))'
    BY <1>1, <1>2, <2>2, LoadedFrameSound
  <2>4. FrameSound(w)'
    BY <2>1, <2>3 DEF FrameSound, FileOf, Ready, LoadedFrame
  <2>5. Puts(<<w>>)
    BY <1>1, <1>2, <1>4, <2>1, FilePuts DEF FileFrame
  <2>6. WorkSound'
    BY <1>1, <2>4, <2>5, SoundPuts
  <2> QED BY <1>1, <1>4, <2>6, SoundStep
<1>5. CASE groups' = Append(groups, RanGroup) /\ Proceed(<<>>)
  <2>1. PICK m, s : m = Len(groups) + 1 /\ s = groups'
    OBVIOUS
  <2>2. /\ DOMAIN s = 1 .. m /\ DOMAIN groups = 1 .. m - 1 /\ m \in Nat \ {0}
        /\ s[m] = RanGroup
    BY <1>5, <2>1, RanGroups
  <2>3. s[m].call = c /\ s[m].index = i /\ s[m].on = StackOf(f)
    BY <1>2, <2>2 DEF RanGroup
  <2>4. GroupFile(m)' = f
    BY <1>1, <1>3, <2>1, <2>3 DEF GroupFile
  <2>5. executed'[f] > 0
    <3>1. 1 \in DOMAIN work /\ Top = work[1]
      BY <1>1, TopFacts
    <3>2. FrameSound(Top)
      BY <3>1 DEF Sound, WorkSound
    <3> QED BY <1>1, <1>2, <3>2 DEF FrameSound, FileOf, File
  <2>6. Deps[f] # <<>> => \E d \in StackOf(f) : calls[d].files = Deps[f]
    <3> SUFFICES ASSUME Deps[f] # <<>> PROVE \E d \in StackOf(f) : calls[d].files = Deps[f]
      OBVIOUS
    <3>1. PICK d \in stacks[f] : f \in DOMAIN stacks /\ calls[d].files = Deps[f]
      BY <1>2, RanRequired DEF Required
    <3> QED BY <3>1 DEF StackOf
  <2>7. WorkSound'
    <3>1. Puts(<<>>)
      BY <1>1, <1>5, EmptyPuts
    <3> QED BY <1>1, <3>1, SoundPuts
  <2>8. ASSUME NEW h \in DOMAIN groups'
        PROVE  /\ executed'[GroupFile(h)'] > 0
               /\ Deps[GroupFile(h)'] # <<>> =>
                    \E d \in groups'[h].on : calls'[d].files = Deps[GroupFile(h)']
    <3>1. h \in DOMAIN groups \/ h = m
      BY <2>1, <2>2
    <3>2. CASE h \in DOMAIN groups
      BY <1>1, <3>2, GroupStays
    <3>3. CASE h = m
      BY <1>1, <2>1, <2>3, <2>4, <2>5, <2>6, <3>3
    <3> QED BY <3>1, <3>2, <3>3
  <2>9. \A h \in cache' : Ready(h)'
    BY <1>1, ReadyStays DEF Sound, Ready
  <2> QED BY <2>7, <2>8, <2>9 DEF Sound
<1> QED BY <1>4, <1>5, RanCases

(* The thread was idle: what it begins with is neither loaded nor run.      *)
LEMMA IdleSound ==
  ASSUME Types, Keeps, Sound, Grows, UNCHANGED <<cache, groups>>,
         NEW w, w = work', \A k \in DOMAIN w : w[k].do \in {"require", "notify", "process"}
  PROVE  Sound'
<1>1. \A k \in DOMAIN w : FrameSound(w[k])'
  BY HarmlessFrames
<1>2. WorkSound'
  BY <1>1 DEF WorkSound, FrameSound, FileOf, Ready
<1> QED BY <1>2, SoundStep

LEMMA SoundPreserved == Types /\ Counts /\ InContext /\ Sound /\ [Next]_vars => Sound'
<1> SUFFICES ASSUME Types, Counts, InContext, Sound, [Next]_vars
             PROVE  Sound'
  OBVIOUS
<1>1. CASE UNCHANGED vars
  <2>1. Grows /\ Keeps /\ work' = work /\ calls' = calls /\ executed' = executed
        /\ cache' = cache /\ groups' = groups
    BY <1>1, Unchanging DEF vars, Keeps
  <2>2. WorkSound'
    BY <2>1 DEF Sound, WorkSound, FrameSound, FileOf, Ready
  <2> QED BY <2>1, <2>2, SoundStep
<1>2. CASE Next
  <2>0. Keeps /\ Grows
    BY <1>2, StepKeeps, StepGrows
  <2>1. CASE Begin
    BY <2>0, <2>1, BeginSound
  <2>2. CASE Handle
    BY <2>0, <2>2, HandleSound
  <2>3. CASE Attach
    BY <2>0, <2>3, AttachSound
  <2>4. CASE Process
    BY <2>0, <2>4, ProcessSound
  <2>5. CASE Ran
    BY <2>0, <2>5, RanSound
  <2>6. CASE Loaded
    BY <2>0, <2>6, LoadedSound
  <2>7. CASE CallBack
    BY <2>0, <2>7, CallBackSound
  <2>8. CASE Complete
    BY <2>0, <2>8, CompleteSound
  <2>9. CASE Notify
    BY <2>0, <2>9, NotifySound
  <2>10. CASE Ask
    <3>1. PICK list : work' = <<RequireFrame(list, None)>>
      BY <2>10 DEF Ask
    <3>2. PICK w : w = work'
      OBVIOUS
    <3>3. \A k \in DOMAIN w : w[k].do = "require"
      BY <3>1, <3>2, OtherFrames
    <3> QED BY <2>0, <2>10, <3>2, <3>3, IdleSound DEF Ask
  <2>11. CASE Timer
    <3>1. PICK t : work' = <<NotifyFrame(t[1], t[2])>>
      BY <2>11 DEF Timer
    <3>2. PICK w : w = work'
      OBVIOUS
    <3>3. \A k \in DOMAIN w : w[k].do = "notify"
      BY <3>1, <3>2, OtherFrames
    <3> QED BY <2>0, <2>11, <3>2, <3>3, IdleSound DEF Timer
  <2>12. ASSUME NEW f \in Files, Answer(f)
         PROVE  Sound'
    <3>1. PICK w : w = work'
      OBVIOUS
    <3>2. w = [k \in DOMAIN waiters[f] |-> ProcessFrame(waiters[f][k][1], waiters[f][k][2])]
      BY <2>12, <3>1 DEF Answer
    <3>3. \A k \in DOMAIN w : w[k].do = "process"
      BY <3>2, OtherFrames
    <3> QED BY <2>0, <2>12, <3>1, <3>3, IdleSound DEF Answer
  <2>13. ASSUME NEW f \in Files, Fail(f)
         PROVE  Sound'
    <3>1. PICK w : w = work'
      OBVIOUS
    <3>2. DOMAIN w = {}
      BY <2>13, <3>1, NoFrame DEF Fail
    <3> QED BY <2>0, <2>13, <3>1, <3>2, IdleSound DEF Fail
  <2> QED BY <1>2, <2>1, <2>2, <2>3, <2>4, <2>5, <2>6, <2>7, <2>8, <2>9, <2>10, <2>11, <2>12, <2>13
          DEF Next, Thread
<1> QED BY <1>1, <1>2

LEMMA InitSound == Init => Sound
<1> SUFFICES ASSUME Init PROVE Sound
  OBVIOUS
<1>1. cache = {} /\ DOMAIN work = {} /\ DOMAIN groups = {}
  BY NoFrame DEF Init
<1> QED BY <1>1 DEF Sound, WorkSound

(***************************************************************************)
(* A call of require() succeeds only when its scripts, all that they       *)
(* require in their bodies, and so on down, have been executed: the set    *)
(* that shows it is the cache.                                             *)
(***************************************************************************)
THEOREM SuccessAlwaysMeansLoaded == Spec => []SuccessMeansLoaded
<1>1. Init => Types /\ Counts /\ InContext /\ Sound
  BY InitTypes, InitCounts, InitInContext, InitSound
<1>2. Types /\ Counts /\ InContext /\ Sound /\ [Next]_vars => (Types /\ Counts /\ InContext /\ Sound)'
  BY TypesPreserved, CountsPreserved, InContextPreserved, SoundPreserved
<1>3. Types /\ Counts /\ Sound => SuccessMeansLoaded
  <2> SUFFICES ASSUME Types, Counts, Sound, NEW c \in CallIds, calls[c].succeeded
               PROVE  \E S \in SUBSET {f \in Files : executed[f] > 0} :
                        ToSet(calls[c].files) \subseteq S /\ Closed(S)
    BY DEF SuccessMeansLoaded
  <2>1. cache \in SUBSET {f \in Files : executed[f] > 0}
    BY DEF Types, Sound, Ready
  <2>2. Closed(cache)
    BY DEF Closed, Sound, Ready
  <2>3. ToSet(calls[c].files) \subseteq cache
    BY SucceededLoaded
  <2> QED BY <2>1, <2>2, <2>3
<1> QED BY <1>1, <1>2, <1>3, PTL DEF Spec
=============================================================================
