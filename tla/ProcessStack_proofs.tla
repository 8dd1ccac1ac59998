------------------------- MODULE ProcessStack_proofs -------------------------
(* What ProcessStack promises for any number of processes and calls.        *)
EXTENDS ProcessStack, FiniteSetTheorems, SequenceTheorems, TLAPS

(* The part of a sequence before its last element. *)
LEMMA FrontFacts ==
    ASSUME NEW S, NEW s \in Seq(S), s # <<>>
    PROVE  /\ Front(s) \in Seq(S)
           /\ Len(Front(s)) = Len(s) - 1
           /\ \A i \in 1 .. Len(s) - 1 : Front(s)[i] = s[i]
           /\ Last(s) = s[Len(s)]
           /\ Last(s) \in S
<1> DEFINE n == Len(s) - 1
           t == SubSeq(s, 1, n)
<1>1. n \in Nat /\ Len(s) = n + 1
  BY EmptySeq
<1>2. \A i \in 1 .. n : s[i] \in S
  BY <1>1
<1>3. s[Len(s)] \in S
  BY <1>1
<1>4. Front(s) = t /\ Last(s) = s[Len(s)]
  BY DEF Front, Last
<1> HIDE DEF n
<1>5. /\ t \in Seq(S)
      /\ Len(t) = IF 1 <= n THEN n - 1 + 1 ELSE 0
      /\ \A i \in 1 .. n - 1 + 1 : t[i] = s[1 + i - 1]
  BY <1>1, <1>2, SubSeqProperties
<1> HIDE DEF t
<1>6. Len(t) = n
  BY <1>1, <1>5
<1>7. \A i \in 1 .. n : t[i] = s[i]
  <2> SUFFICES ASSUME NEW i \in 1 .. n PROVE t[i] = s[i]
    OBVIOUS
  <2>1. i \in 1 .. n - 1 + 1 /\ 1 + i - 1 = i
    BY <1>1
  <2> QED BY <1>5, <2>1
<1>8. Len(s) - 1 = n
  BY <1>1
<1> QED BY <1>3, <1>4, <1>5, <1>6, <1>7, <1>8

(* stop() leaves a prefix of the stack. *)
LEMMA BelowFacts ==
    ASSUME TypeOK, NEW p \in Processes
    PROVE  Below(p) \in Seq(Processes) /\ Len(Below(p)) <= Len(stack)
<1> DEFINE kept == {i \in DOMAIN stack : \A j \in 1 .. i : stack[j] # p}
           n == Cardinality(kept)
<1>1. DOMAIN stack = 1 .. Len(stack) /\ Len(stack) \in Nat
  BY DEF TypeOK
<1>2. IsFiniteSet(1 .. Len(stack)) /\ Cardinality(1 .. Len(stack)) = Len(stack)
  <2>1. 1 \in Int /\ Len(stack) \in Int
    BY <1>1
  <2>2. Cardinality(1 .. Len(stack)) = IF 1 > Len(stack) THEN 0 ELSE Len(stack) - 1 + 1
    BY <2>1, FS_Interval
  <2> QED BY <1>1, <2>1, <2>2, FS_Interval
<1>3. kept \in SUBSET (1 .. Len(stack))
  BY <1>1
<1> HIDE DEF kept
<1>4. IsFiniteSet(kept) /\ n <= Len(stack)
  BY <1>2, <1>3, FS_Subset
<1>5. n \in Nat
  BY <1>4, FS_CardinalityType
<1> HIDE DEF n
<1>6. Below(p) = SubSeq(stack, 1, n)
  BY DEF Below, n, kept
<1>7. \A i \in 1 .. n : stack[i] \in Processes
  BY <1>1, <1>4, <1>5 DEF TypeOK, n
<1>8. /\ SubSeq(stack, 1, n) \in Seq(Processes)
      /\ Len(SubSeq(stack, 1, n)) = IF 1 <= n THEN n - 1 + 1 ELSE 0
  BY <1>5, <1>7, SubSeqProperties
<1> QED BY <1>1, <1>4, <1>5, <1>6, <1>8 DEF n

(* Popping the stack, empty or not. *)
LEMMA PoppedFacts ==
    ASSUME TypeOK
    PROVE  /\ Popped \in Seq(Processes)
           /\ Len(Popped) = IF stack = <<>> THEN 0 ELSE Len(stack) - 1
<1>1. CASE stack = <<>>
  BY <1>1 DEF Popped
<1>2. CASE stack # <<>>
  <2>1. stack \in Seq(Processes)
    BY DEF TypeOK
  <2> QED BY <1>2, <2>1, FrontFacts DEF Popped
<1> QED BY <1>1, <1>2

-----------------------------------------------------------------------------
(* The processes an exception has left are no more than there are. *)
Escapes == Cardinality(escaped)

LEMMA EscapesFacts == TypeOK => Escapes \in Nat
BY ProcessesAssumption, FS_Subset, FS_CardinalityType DEF TypeOK, Escapes

LEMMA EscapesGrow ==
    ASSUME TypeOK, NEW p \in Processes, escaped' = escaped \cup {p}
    PROVE  Escapes' = IF p \in escaped THEN Escapes ELSE Escapes + 1
<1>1. IsFiniteSet(escaped)
  BY ProcessesAssumption, FS_Subset DEF TypeOK
<1> QED BY <1>1, FS_AddElement DEF Escapes

(* The call of run() that a running process is in. *)
Serves(f, p) == f.process = p /\ f.call # "fire"

(* Every frame is that of a process. *)
LEMMA FrameProcess ==
    TypeOK => \A i \in DOMAIN frames : frames[i].process \in Processes
<1> SUFFICES ASSUME TypeOK, NEW i \in DOMAIN frames PROVE frames[i].process \in Processes
  OBVIOUS
<1>1. frames[i] \in Frames
  BY DEF TypeOK
<1> QED BY <1>1 DEF Frames

(* A process is run once: it is not ready any more when it is in a call of   *)
(* run() or when an exception has left that call, and not in one any more in *)
(* the second case.                                                          *)
RunOnce ==
    /\ \A i \in DOMAIN frames : frames[i].call # "fire" =>
         /\ state[frames[i].process] # "ready"
         /\ frames[i].process \notin escaped
         /\ \A j \in DOMAIN frames :
              frames[j].call # "fire" /\ frames[j].process = frames[i].process => j = i
    /\ \A p \in escaped : state[p] # "ready"

(* The stack never outgrows the calls in progress and those that were left: *)
(* run() and fire() push one entry and pop one, and stop() only takes       *)
(* entries away.                                                            *)
StackInv ==
    /\ TypeOK
    /\ RunOnce
    /\ Len(stack) <= Len(frames) + Escapes
    /\ RunningInRun

LEMMA EnterStep ==
    ASSUME StackInv, NEW p \in Processes, NEW call \in {"start", "fire"}, Enter(p, call),
           escaped' = escaped,
           \A q \in Processes : state'[q] = "ready" => state[q] = "ready",
           call = "start" => state[p] = "ready" /\ state'[p] # "ready"
    PROVE  /\ RunOnce'
           /\ stack' \in Seq(Processes)
           /\ frames' \in Seq(Frames)
           /\ Len(stack') <= Len(frames') + Escapes'
           /\ Len(frames') = Len(frames) + 1
           /\ frames'[Len(frames) + 1] = [process |-> p, call |-> call]
           /\ \A i \in 1 .. Len(frames) : frames'[i] = frames[i]
           /\ DOMAIN frames = 1 .. Len(frames)
           /\ DOMAIN frames' = 1 .. Len(frames) + 1
<1> DEFINE f == [process |-> p, call |-> call]
<1>1. f \in Frames
  BY DEF Frames
<1>2. frames' = Append(frames, f) /\ stack' = Append(stack, p)
  BY DEF Enter
<1> HIDE DEF f
<1>3. /\ frames \in Seq(Frames)
      /\ stack \in Seq(Processes)
      /\ Len(stack) <= Len(frames) + Escapes
  BY DEF StackInv, TypeOK
<1>4. /\ frames' \in Seq(Frames)
      /\ Len(frames') = Len(frames) + 1
      /\ frames'[Len(frames) + 1] = f
      /\ \A i \in 1 .. Len(frames) : frames'[i] = frames[i]
  BY <1>1, <1>2, <1>3
<1>5. stack' \in Seq(Processes) /\ Len(stack') = Len(stack) + 1
  BY <1>2, <1>3
<1>6. /\ DOMAIN frames = 1 .. Len(frames)
      /\ DOMAIN frames' = 1 .. Len(frames')
      /\ Len(frames) \in Nat
      /\ Len(stack) \in Nat
  BY <1>3, <1>4
<1>7. Escapes' = Escapes /\ Escapes \in Nat
  BY EscapesFacts DEF StackInv, Escapes
<1>8. RunOnce'
  <2>1. RunOnce /\ escaped \subseteq Processes
    BY DEF StackInv, TypeOK
  <2>2. \A i \in DOMAIN frames' :
          \/ i \in DOMAIN frames /\ i # Len(frames) + 1 /\ frames'[i] = frames[i]
          \/ i = Len(frames) + 1 /\ frames'[i] = f
    BY <1>4, <1>6
  <2>3. \A i \in DOMAIN frames : frames[i].process \in Processes
    BY FrameProcess DEF StackInv
  <2>4. f.process = p /\ f.call = call
    BY DEF f
  <2>5. \A q \in escaped : state[q] # "ready" /\ state'[q] # "ready"
    BY <2>1 DEF RunOnce
  <2>6. ASSUME NEW i \in DOMAIN frames', frames'[i].call # "fire"
        PROVE  /\ state'[frames'[i].process] # "ready"
               /\ frames'[i].process \notin escaped
               /\ \A j \in DOMAIN frames' :
                    frames'[j].call # "fire" /\ frames'[j].process = frames'[i].process => j = i
    <3>1. CASE i \in DOMAIN frames /\ i # Len(frames) + 1 /\ frames'[i] = frames[i]
      <4>1. frames[i].call # "fire"
        BY <2>6, <3>1
      <4>2. /\ state[frames[i].process] # "ready"
            /\ frames[i].process \notin escaped
            /\ \A j \in DOMAIN frames :
                 frames[j].call # "fire" /\ frames[j].process = frames[i].process => j = i
        BY <2>1, <3>1, <4>1 DEF RunOnce
      <4>3. state'[frames[i].process] # "ready"
        BY <2>3, <3>1, <4>2
      <4>4. ASSUME NEW j \in DOMAIN frames', frames'[j].call # "fire",
                   frames'[j].process = frames[i].process
            PROVE  j = i
        <5>1. CASE j = Len(frames) + 1 /\ frames'[j] = f
          <6>1. call = "start" /\ p = frames[i].process
            BY <2>4, <4>4, <5>1
          <6> QED BY <4>2, <6>1
        <5> QED BY <2>2, <4>2, <4>4, <5>1
      <4> QED BY <3>1, <4>2, <4>3, <4>4
    <3>2. CASE i = Len(frames) + 1 /\ frames'[i] = f
      <4>1. call = "start" /\ state[p] = "ready" /\ state'[p] # "ready"
        BY <2>4, <2>6, <3>2
      <4>2. p \notin escaped
        BY <2>5, <4>1
      <4>3. ASSUME NEW j \in DOMAIN frames', frames'[j].call # "fire", frames'[j].process = p
            PROVE  j = i
        <5>1. CASE j \in DOMAIN frames /\ frames'[j] = frames[j]
          <6>1. state[p] # "ready"
            BY <2>1, <4>3, <5>1 DEF RunOnce
          <6> QED BY <4>1, <6>1
        <5> QED BY <2>2, <3>2, <5>1
      <4> QED BY <2>4, <3>2, <4>1, <4>2, <4>3
    <3> QED BY <2>2, <3>1, <3>2
  <2> QED BY <2>5, <2>6 DEF RunOnce
<1> HIDE DEF Escapes
<1> QED BY <1>3, <1>4, <1>5, <1>6, <1>7, <1>8 DEF f

(* The end of the innermost call, however it comes: whoever was running is  *)
(* in the call it was in, unless that is the one that has ended.            *)
LEMMA EndStep ==
    ASSUME StackInv, frames # <<>>, frames' = Front(frames), NEW p \in Processes,
           state[p] = "running", p \notin escaped, ~Serves(Last(frames), p)
    PROVE  \E i \in DOMAIN frames' : frames'[i].process = p /\ frames'[i].call # "fire"
<1>1. frames \in Seq(Frames)
  BY DEF StackInv, TypeOK
<1>2. /\ Front(frames) \in Seq(Frames)
      /\ Len(Front(frames)) = Len(frames) - 1
      /\ \A i \in 1 .. Len(frames) - 1 : Front(frames)[i] = frames[i]
      /\ Last(frames) = frames[Len(frames)]
  BY <1>1, FrontFacts
<1>3. PICK i \in DOMAIN frames : frames[i].process = p /\ frames[i].call # "fire"
  BY DEF StackInv, RunningInRun
<1>4. i \in 1 .. Len(frames) /\ Len(frames) \in Nat
  BY <1>1, <1>3
<1>5. i # Len(frames)
  BY <1>2, <1>3 DEF Serves
<1>6. i \in 1 .. Len(frames) - 1
  BY <1>4, <1>5
<1>7. DOMAIN frames' = 1 .. Len(frames) - 1
  BY <1>2
<1> QED BY <1>2, <1>3, <1>6, <1>7

LEMMA LastFacts ==
    ASSUME StackInv, frames # <<>>
    PROVE  /\ Front(frames) \in Seq(Frames)
           /\ Len(Front(frames)) = Len(frames) - 1
           /\ Last(frames) \in Frames
           /\ Last(frames).process \in Processes
           /\ Len(frames) \in Nat /\ Len(frames) > 0
           /\ stack \in Seq(Processes) /\ Len(stack) \in Nat
           /\ Len(stack) <= Len(frames) + Escapes
           /\ Escapes \in Nat
           /\ state \in [Processes -> States]
<1>1. frames \in Seq(Frames)
  BY DEF StackInv, TypeOK
<1>2. /\ Front(frames) \in Seq(Frames)
      /\ Len(Front(frames)) = Len(frames) - 1
      /\ Last(frames) \in Frames
  BY <1>1, FrontFacts
<1>3. Len(frames) \in Nat /\ Len(frames) > 0
  BY <1>1, EmptySeq
<1>4. Last(frames).process \in Processes
  BY <1>2 DEF Frames
<1>5. Escapes \in Nat
  BY EscapesFacts DEF StackInv
<1> QED BY <1>2, <1>3, <1>4, <1>5 DEF StackInv, TypeOK

(* The calls that are left serve the processes they served. *)
LEMMA EndOnce ==
    ASSUME StackInv, frames # <<>>, frames' = Front(frames),
           \A p \in Processes : state'[p] = "ready" => state[p] = "ready",
           \/ escaped' = escaped
           \/ escaped' = escaped \cup {Last(frames).process} /\ Last(frames).call # "fire"
    PROVE  RunOnce'
<1> DEFINE n == Len(frames) - 1
           f == Last(frames)
<1>1. frames \in Seq(Frames) /\ escaped \subseteq Processes
  BY DEF StackInv, TypeOK
<1>2. /\ Front(frames) \in Seq(Frames)
      /\ Len(Front(frames)) = n
      /\ \A i \in 1 .. n : Front(frames)[i] = frames[i]
      /\ f = frames[Len(frames)]
  BY <1>1, FrontFacts
<1>3. /\ Len(frames) \in Nat /\ Len(frames) > 0 /\ f.process \in Processes
  BY LastFacts
<1>4. /\ DOMAIN frames' = 1 .. n
      /\ \A i \in 1 .. n : frames'[i] = frames[i] /\ i \in DOMAIN frames /\ i # Len(frames)
      /\ Len(frames) \in DOMAIN frames
  BY <1>1, <1>2, <1>3
<1>5. \A i \in 1 .. n : frames[i].process \in Processes
  BY <1>4, FrameProcess DEF StackInv
<1>6. RunOnce
  BY DEF StackInv
<1> HIDE DEF n, f
<1>7. ASSUME NEW i \in DOMAIN frames', frames'[i].call # "fire"
      PROVE  /\ state'[frames'[i].process] # "ready"
             /\ frames'[i].process \notin escaped'
             /\ \A j \in DOMAIN frames' :
                  frames'[j].call # "fire" /\ frames'[j].process = frames'[i].process => j = i
  <2>1. /\ i \in DOMAIN frames /\ i # Len(frames)
        /\ frames'[i] = frames[i]
        /\ frames[i].call # "fire"
        /\ frames[i].process \in Processes
    BY <1>4, <1>5, <1>7
  <2>2. /\ state[frames[i].process] # "ready"
        /\ frames[i].process \notin escaped
        /\ \A j \in DOMAIN frames :
             frames[j].call # "fire" /\ frames[j].process = frames[i].process => j = i
    BY <1>6, <2>1 DEF RunOnce
  <2>3. f.call # "fire" => f.process # frames[i].process
    BY <1>2, <1>4, <2>1, <2>2
  <2>4. frames[i].process \notin escaped'
    BY <2>2, <2>3 DEF f
  <2> QED BY <1>4, <2>1, <2>2, <2>4
<1>8. ASSUME NEW p \in escaped' PROVE state'[p] # "ready"
  <2>1. CASE p \in escaped
    BY <1>1, <1>6, <2>1 DEF RunOnce
  <2>2. CASE p \notin escaped
    <3>1. p = f.process /\ f.call # "fire"
      BY <1>8, <2>2 DEF f
    <3> QED BY <1>2, <1>3, <1>4, <1>6, <3>1 DEF RunOnce
  <2> QED BY <2>1, <2>2
<1> QED BY <1>7, <1>8 DEF RunOnce

LEMMA LeaveStep ==
    ASSUME StackInv, Leave, escaped' = escaped, stopped' = stopped
    PROVE  StackInv'
<1> DEFINE f == Last(frames)
<1>1. /\ frames # <<>>
      /\ f.call # "start"
      /\ frames' = Front(frames)
      /\ stack' = Popped
      /\ state' = IF f.call = "main" /\ state[f.process] # "killed"
                  THEN [state EXCEPT ![f.process] = "idle"] ELSE state
  BY DEF Leave
<1>2. /\ Front(frames) \in Seq(Frames)
      /\ Len(Front(frames)) = Len(frames) - 1
      /\ f \in Frames
      /\ f.process \in Processes
      /\ Len(frames) \in Nat /\ Len(frames) > 0
      /\ Len(stack) \in Nat
      /\ Len(stack) <= Len(frames) + Escapes
      /\ Escapes \in Nat
      /\ state \in [Processes -> States]
  BY <1>1, LastFacts
<1>3. /\ Popped \in Seq(Processes)
      /\ Len(Popped) = IF stack = <<>> THEN 0 ELSE Len(stack) - 1
  BY PoppedFacts DEF StackInv
<1>4. Escapes' = Escapes
  BY DEF Escapes
<1> HIDE DEF f, Escapes
<1>5. Len(stack') <= Len(frames') + Escapes'
  BY <1>1, <1>2, <1>3, <1>4
<1>6. TypeOK'
  BY <1>1, <1>2, <1>3 DEF StackInv, TypeOK, States
<1>7. RunningInRun'
  <2> SUFFICES ASSUME NEW p \in Processes, state'[p] = "running", p \notin escaped'
               PROVE  \E i \in DOMAIN frames' : frames'[i].process = p /\ frames'[i].call # "fire"
    BY DEF RunningInRun
  <2>1. state[p] = "running"
    BY <1>1, <1>2
  <2>2. ~Serves(f, p)
    <3> SUFFICES ASSUME f.process = p, f.call # "fire" PROVE FALSE
      BY DEF Serves
    <3>1. f.call = "main"
      BY <1>1, <1>2 DEF Frames
    <3>2. state'[p] = "idle"
      BY <1>1, <1>2, <2>1, <3>1
    <3> QED BY <3>2
  <2> QED BY <1>1, <2>1, <2>2, EndStep DEF f
<1>8. RunOnce'
  <2>1. \A p \in Processes : state'[p] = "ready" => state[p] = "ready"
    BY <1>1, <1>2
  <2> QED BY <1>1, <2>1, EndOnce
<1> QED BY <1>5, <1>6, <1>7, <1>8 DEF StackInv

(* What an exception leaves on the stack, it leaves for the process that it  *)
(* counts: no other call of run() of that process is in progress.           *)
LEMMA EscapeStep ==
    ASSUME StackInv, Escape
    PROVE  StackInv'
<1> DEFINE f == Last(frames)
<1>1. /\ frames # <<>>
      /\ frames' = Front(frames)
      /\ escaped' = escaped \cup {f.process}
      /\ state' = state /\ stack' = stack /\ stopped' = stopped
  BY DEF Escape
<1>2. /\ Front(frames) \in Seq(Frames)
      /\ Len(Front(frames)) = Len(frames) - 1
      /\ f.process \in Processes
      /\ Len(frames) \in Nat /\ Len(frames) > 0
      /\ Len(stack) \in Nat
      /\ Len(stack) <= Len(frames) + Escapes
      /\ Escapes \in Nat
  BY <1>1, LastFacts
<1>3. Escapes' = Escapes + 1
  <2>1. frames \in Seq(Frames)
    BY DEF StackInv, TypeOK
  <2>2. Len(frames) \in DOMAIN frames /\ f = frames[Len(frames)] /\ f.call # "fire"
    BY <1>1, <1>2, <2>1, FrontFacts DEF Escape
  <2>3. f.process \notin escaped
    BY <2>2 DEF StackInv, RunOnce
  <2> QED BY <1>1, <1>2, <2>3, EscapesGrow DEF StackInv
<1>4. TypeOK'
  BY <1>1, <1>2 DEF StackInv, TypeOK
<1>5. RunningInRun'
  <2> SUFFICES ASSUME NEW p \in Processes, state'[p] = "running", p \notin escaped'
               PROVE  \E i \in DOMAIN frames' : frames'[i].process = p /\ frames'[i].call # "fire"
    BY DEF RunningInRun
  <2> QED BY <1>1, EndStep DEF Serves
<1>6. RunOnce'
  <2>1. f.call # "fire"
    BY DEF Escape
  <2> QED BY <1>1, <2>1, EndOnce
<1> HIDE DEF Escapes, f
<1>7. Len(stack') <= Len(frames') + Escapes'
  BY <1>1, <1>2, <1>3
<1> QED BY <1>4, <1>5, <1>6, <1>7 DEF StackInv

LEMMA StackStep == StackInv /\ [Next]_vars => StackInv'
<1> SUFFICES ASSUME StackInv, [Next]_vars PROVE StackInv'
  OBVIOUS
<1>1. ASSUME NEW p \in Processes, Run(p) PROVE StackInv'
  <2>1. /\ state[p] = "ready"
        /\ state' = [state EXCEPT ![p] = "running"]
        /\ stopped' = stopped /\ escaped' = escaped
        /\ Enter(p, "start")
        /\ state \in [Processes -> States]
    BY <1>1 DEF Run, StackInv, TypeOK
  <2>2. /\ RunOnce'
        /\ stack' \in Seq(Processes)
        /\ frames' \in Seq(Frames)
        /\ Len(stack') <= Len(frames') + Escapes'
        /\ frames'[Len(frames) + 1] = [process |-> p, call |-> "start"]
        /\ \A i \in 1 .. Len(frames) : frames'[i] = frames[i]
        /\ DOMAIN frames = 1 .. Len(frames)
        /\ DOMAIN frames' = 1 .. Len(frames) + 1
    <3>1. \A q \in Processes : state'[q] = "ready" => state[q] = "ready"
      BY <2>1
    <3>2. state'[p] # "ready"
      BY <2>1
    <3> QED BY <2>1, <3>1, <3>2, EnterStep
  <2>3. TypeOK'
    BY <2>1, <2>2 DEF StackInv, TypeOK, States
  <2>4. Len(frames) \in Nat
    BY DEF StackInv, TypeOK
  <2>5. RunningInRun'
    <3> SUFFICES ASSUME NEW q \in Processes, state'[q] = "running", q \notin escaped'
                 PROVE  \E i \in DOMAIN frames' :
                          frames'[i].process = q /\ frames'[i].call # "fire"
      BY DEF RunningInRun
    <3>1. CASE q = p
      BY <2>2, <2>4, <3>1
    <3>2. CASE q # p
      <4>1. state[q] = "running" /\ q \notin escaped
        BY <2>1, <3>2
      <4>2. PICK i \in DOMAIN frames : frames[i].process = q /\ frames[i].call # "fire"
        BY <4>1 DEF StackInv, RunningInRun
      <4>3. i \in DOMAIN frames' /\ frames'[i] = frames[i]
        BY <2>2, <2>4, <4>2
      <4> QED BY <4>2, <4>3
    <3> QED BY <3>1, <3>2
  <2> QED BY <2>2, <2>3, <2>5 DEF StackInv
<1>2. ASSUME NEW p \in Processes, Fire(p) PROVE StackInv'
  <2>1. state' = state /\ stopped' = stopped /\ escaped' = escaped /\ Enter(p, "fire")
    BY <1>2 DEF Fire
  <2>2. /\ RunOnce'
        /\ stack' \in Seq(Processes)
        /\ frames' \in Seq(Frames)
        /\ Len(stack') <= Len(frames') + Escapes'
        /\ \A i \in 1 .. Len(frames) : frames'[i] = frames[i]
        /\ DOMAIN frames = 1 .. Len(frames)
        /\ DOMAIN frames' = 1 .. Len(frames) + 1
    BY <2>1, EnterStep
  <2>3. TypeOK'
    BY <2>1, <2>2 DEF StackInv, TypeOK
  <2>4. Len(frames) \in Nat
    BY DEF StackInv, TypeOK
  <2>5. RunningInRun'
    <3> SUFFICES ASSUME NEW q \in Processes, state'[q] = "running", q \notin escaped'
                 PROVE  \E i \in DOMAIN frames' :
                          frames'[i].process = q /\ frames'[i].call # "fire"
      BY DEF RunningInRun
    <3>1. PICK i \in DOMAIN frames : frames[i].process = q /\ frames[i].call # "fire"
      BY <2>1 DEF StackInv, RunningInRun
    <3>2. i \in DOMAIN frames' /\ frames'[i] = frames[i]
      BY <2>2, <2>4, <3>1
    <3> QED BY <3>1, <3>2
  <2> QED BY <2>2, <2>3, <2>5 DEF StackInv
<1>3. CASE Main
  <2> DEFINE f == Last(frames)
             g == [f EXCEPT !.call = "main"]
  <2>1. /\ frames # <<>> /\ f.call = "start"
        /\ frames' = [frames EXCEPT ![Len(frames)] = g]
        /\ state' = state /\ stack' = stack /\ escaped' = escaped /\ stopped' = stopped
    BY <1>3 DEF Main
  <2>2. /\ frames \in Seq(Frames)
        /\ Len(frames) \in Nat /\ Len(frames) > 0
        /\ f = frames[Len(frames)] /\ f \in Frames
    BY <2>1, LastFacts, FrontFacts DEF StackInv, TypeOK
  <2>3. g \in Frames /\ g.process = f.process /\ g.call = "main"
    BY <2>2 DEF Frames
  <2> HIDE DEF f, g
  <2>4. frames' \in Seq(Frames) /\ Len(frames') = Len(frames) /\ DOMAIN frames' = DOMAIN frames
    BY <2>1, <2>2, <2>3
  <2>5. \A i \in DOMAIN frames :
          /\ frames'[i].process = frames[i].process
          /\ (frames'[i].call = "fire") <=> (frames[i].call = "fire")
    <3> SUFFICES ASSUME NEW i \in DOMAIN frames
                 PROVE  /\ frames'[i].process = frames[i].process
                        /\ (frames'[i].call = "fire") <=> (frames[i].call = "fire")
      OBVIOUS
    <3>1. CASE i = Len(frames)
      BY <2>1, <2>2, <2>3, <3>1
    <3>2. CASE i # Len(frames)
      BY <2>1, <2>2, <3>2
    <3> QED BY <3>1, <3>2
  <2>6. TypeOK'
    BY <2>1, <2>4 DEF StackInv, TypeOK
  <2>7. RunOnce'
    BY <2>1, <2>4, <2>5 DEF StackInv, RunOnce
  <2>8. RunningInRun'
    BY <2>1, <2>4, <2>5 DEF StackInv, RunningInRun
  <2>9. Len(stack') <= Len(frames') + Escapes'
    BY <2>1, <2>4 DEF StackInv, Escapes
  <2> QED BY <2>6, <2>7, <2>8, <2>9 DEF StackInv
<1>4. ASSUME NEW p \in Processes, Stop(p) PROVE StackInv'
  <2>1. PICK q \in Victims(p) :
          /\ state' = [v \in Processes |-> IF v \in Victims(q) THEN "killed" ELSE state[v]]
          /\ stack' = Below(q)
    BY <1>4 DEF Stop
  <2>2. stopped' = stopped \cup {p} /\ frames' = frames /\ escaped' = escaped
    BY <1>4 DEF Stop
  <2>3. q \in Processes
    BY DEF Victims
  <2>4. Below(q) \in Seq(Processes) /\ Len(Below(q)) <= Len(stack)
    BY <2>3, BelowFacts DEF StackInv
  <2>5. TypeOK'
    BY <2>1, <2>2, <2>4 DEF StackInv, TypeOK, States
  <2>6. Len(stack') <= Len(frames') + Escapes'
    <3>1. /\ Len(stack) \in Nat /\ Len(frames) \in Nat /\ Len(Below(q)) \in Nat
          /\ Escapes \in Nat /\ Escapes' = Escapes
      BY <2>2, <2>4, EscapesFacts DEF StackInv, TypeOK, Escapes
    <3>2. Len(stack) <= Len(frames) + Escapes
      BY DEF StackInv
    <3> HIDE DEF Escapes
    <3> QED BY <2>1, <2>2, <2>4, <3>1, <3>2
  <2>7. \A v \in Processes :
          /\ state'[v] = "ready" => state[v] = "ready"
          /\ state'[v] = "running" => state[v] = "running"
    BY <2>1
  <2>8. RunningInRun'
    BY <2>2, <2>7 DEF StackInv, RunningInRun
  <2>9. RunOnce'
    <3>1. \A i \in DOMAIN frames : frames[i].process \in Processes
      BY FrameProcess DEF StackInv
    <3> QED BY <2>2, <2>7, <3>1 DEF StackInv, TypeOK, RunOnce
  <2> QED BY <2>5, <2>6, <2>8, <2>9 DEF StackInv
<1>5. ASSUME NEW p \in Processes, StopOverflows(p) PROVE StackInv'
  BY <1>5 DEF StopOverflows, StackInv, TypeOK, RunOnce, RunningInRun, Escapes
<1>6. CASE Return
  BY <1>6, LeaveStep DEF Return
<1>7. CASE Escape
  BY <1>7, EscapeStep
<1>8. CASE UNCHANGED vars
  BY <1>8 DEF vars, StackInv, TypeOK, RunOnce, RunningInRun, Escapes
<1> QED BY <1>1, <1>2, <1>3, <1>4, <1>5, <1>6, <1>7, <1>8 DEF Next

LEMMA StackInvariant == Spec => []StackInv
<1>1. Init => StackInv
  <2> SUFFICES ASSUME Init PROVE StackInv
    OBVIOUS
  <2>1. Escapes = 0
    BY FS_EmptySet DEF Init, Escapes
  <2>2. TypeOK /\ RunOnce /\ RunningInRun
    BY DEF Init, TypeOK, States, RunOnce, RunningInRun
  <2> QED BY <2>1, <2>2 DEF Init, StackInv
<1> QED BY <1>1, StackStep, PTL DEF Spec

(* The state of the processes and the stack are typed, whichever processes  *)
(* are stopped under the calls in progress.                                 *)
THEOREM TypesKept == Spec => []TypeOK
<1>1. StackInv => TypeOK
  BY DEF StackInv
<1> QED BY <1>1, StackInvariant, PTL

(* A running process is one whose run() is in progress, or was left by an   *)
(* exception.                                                               *)
THEOREM RunningCorrect == Spec => []RunningInRun
<1>1. StackInv => RunningInRun
  BY DEF StackInv
<1> QED BY <1>1, StackInvariant, PTL

(* Between two events the stack holds no more than what an exception has    *)
(* left of it: stop() may take too much off it, but never leaves an entry.  *)
THEOREM LeftoversCorrect == Spec => []LeftByEscapesOnly
<1>1. StackInv => LeftByEscapesOnly
  <2> SUFFICES ASSUME StackInv, frames = <<>> PROVE Len(stack) <= Escapes
    BY DEF LeftByEscapesOnly, Escapes
  <2>1. Escapes \in Nat /\ Len(frames) = 0 /\ Len(stack) <= Len(frames) + Escapes
    BY EscapesFacts DEF StackInv
  <2> HIDE DEF Escapes
  <2> QED BY <2>1
<1> QED BY <1>1, StackInvariant, PTL

(* A killed process is never idle or running again. *)
THEOREM KilledCorrect == Spec => KilledForGood
<1>1. StackInv /\ [Next]_vars =>
        [\A p \in Processes : state[p] = "killed" => state'[p] = "killed"]_vars
  <2> SUFFICES ASSUME StackInv, Next, NEW q \in Processes, state[q] = "killed"
               PROVE  state'[q] = "killed"
    OBVIOUS
  <2>1. state \in [Processes -> States]
    BY DEF StackInv, TypeOK
  <2>2. ASSUME NEW p \in Processes, Run(p) PROVE state'[q] = "killed"
    BY <2>1, <2>2 DEF Run
  <2>3. ASSUME NEW p \in Processes, Fire(p) PROVE state'[q] = "killed"
    BY <2>3 DEF Fire
  <2>4. ASSUME NEW p \in Processes, Stop(p) PROVE state'[q] = "killed"
    BY <2>4 DEF Stop
  <2>5. CASE Leave
    BY <2>1, <2>5 DEF Leave
  <2> QED BY <2>2, <2>3, <2>4, <2>5 DEF Next, StopOverflows, Return, Main, Escape
<1> QED BY <1>1, StackInvariant, PTL DEF Spec, KilledForGood
=============================================================================
