-------------------------- MODULE Windows_proofs --------------------------
(***************************************************************************)
(* Proofs about Windows: its invariants hold for any windows, workspaces,  *)
(* range of z-indexes and number of animations.                            *)
(***************************************************************************)
EXTENDS Windows, SequenceTheorems, TLAPS

-----------------------------------------------------------------------------
(* The windows that have been closed, for ever, and the animations: only    *)
(* those windows are going.                                                 *)
Gone == Created \ opened

Moves(gone) == {a \in Animations : a.kind = "close" => a.window \in gone}

Waits(q, gone) ==
  /\ q \in [Windows -> Seq(Kinds)]
  /\ \A w \in Windows \ gone : q[w] \in Seq(Kinds \ {"close"})

LEMMA OneMove ==
  ASSUME NEW gone, NEW w \in Windows, NEW kind \in Kinds, kind = "close" => w \in gone
  PROVE  Animation(w, kind) \in Moves(gone) /\ <<Animation(w, kind)>> \in Seq(Moves(gone))
<1>1. Animation(w, kind) \in Moves(gone)
  BY DEF Animation, Moves, Animations
<1> QED BY <1>1

LEMMA MovesGrow ==
  ASSUME NEW gone, NEW more, gone \subseteq more, NEW s \in Seq(Moves(gone))
  PROVE  s \in Seq(Moves(more))
<1>1. Moves(gone) \subseteq Moves(more)
  BY DEF Moves
<1> QED BY <1>1, SeqMonotonic

LEMMA MovesAreAnimations ==
  ASSUME NEW gone, NEW s \in Seq(Moves(gone))
  PROVE  s \in Seq(Animations)
<1>1. Moves(gone) \subseteq Animations
  BY DEF Moves
<1> QED BY <1>1, SeqMonotonic

LEMMA Enqueued ==
  ASSUME NEW gone, NEW more, gone \subseteq more,
         running \in Seq(Moves(gone)), Waits(queued, gone),
         NEW v \in Windows \cup {None}, NEW w \in Windows, NEW kind \in Kinds,
         kind = "close" => {v, w} \ {None} \subseteq more,
         Enqueue(v, w, kind)
  PROVE  running' \in Seq(Moves(more)) /\ Waits(queued', more)
<1>1. running \in Seq(Moves(more))
  BY MovesGrow
<1>2. Started(v, kind) \in Seq(Moves(more)) /\ Started(w, kind) \in Seq(Moves(more))
  <2>1. ASSUME NEW u \in Windows \cup {None}, u \in {v, w}
        PROVE  Started(u, kind) \in Seq(Moves(more))
    <3>1. CASE u = None \/ Opening(u)
      BY <3>1, EmptySeq DEF Started
    <3>2. CASE ~(u = None \/ Opening(u))
      <4>1. u \in Windows /\ (kind = "close" => u \in more)
        BY <2>1, <3>2
      <4>2. <<Animation(u, kind)>> \in Seq(Moves(more))
        BY <4>1, OneMove
      <4> QED BY <3>2, <4>2 DEF Started
    <3> QED BY <3>1, <3>2
  <2> QED BY <2>1
<1>3. running' \in Seq(Moves(more))
  <2>1. running \o Started(v, kind) \in Seq(Moves(more))
    BY <1>1, <1>2, ConcatProperties
  <2>2. (running \o Started(v, kind)) \o Started(w, kind) \in Seq(Moves(more))
    BY <2>1, <1>2, ConcatProperties
  <2> QED BY <2>2 DEF Enqueue
<1>4. Waits(queued', more)
  <2> DEFINE next(u) == IF u \in {v, w} /\ Opening(u) THEN Append(queued[u], kind) ELSE queued[u]
  <2>1. queued' = [u \in Windows |-> next(u)]
    BY DEF Enqueue
  <2>2. ASSUME NEW u \in Windows
        PROVE  next(u) \in Seq(Kinds)
    <3>1. queued[u] \in Seq(Kinds)
      BY DEF Waits
    <3>2. Append(queued[u], kind) \in Seq(Kinds)
      BY <3>1, AppendProperties
    <3> QED BY <3>1, <3>2
  <2>3. ASSUME NEW u \in Windows \ more
        PROVE  next(u) \in Seq(Kinds \ {"close"})
    <3>1. queued[u] \in Seq(Kinds \ {"close"})
      BY DEF Waits
    <3>2. CASE u \in {v, w}
      <4>1. kind \in Kinds \ {"close"}
        BY <3>2, NoneAssumption
      <4>2. Append(queued[u], kind) \in Seq(Kinds \ {"close"})
        BY <3>1, <4>1, AppendProperties
      <4> QED BY <3>1, <4>2
    <3>3. CASE u \notin {v, w}
      BY <3>1, <3>3
    <3> QED BY <3>2, <3>3
  <2> HIDE DEF next
  <2> QED BY <2>1, <2>2, <2>3 DEF Waits
<1> QED BY <1>3, <1>4

LEMMA Dequeued ==
  ASSUME NEW gone, running \in Seq(Moves(gone)), Waits(queued, gone),
         NEW w \in Windows, running # <<>>, Dequeue(w)
  PROVE  running' \in Seq(Moves(gone)) /\ Waits(queued', gone)
<1>1. Tail(running) \in Seq(Moves(gone))
  BY HeadTailProperties
<1>2. queued[w] \in Seq(Kinds)
  BY DEF Waits
<1>3. CASE queued[w] = <<>>
  <2>1. running' = Tail(running) \o <<>> /\ queued' = [queued EXCEPT ![w] = queued[w]]
    BY <1>3 DEF Dequeue
  <2>2. Tail(running) \o <<>> \in Seq(Moves(gone))
    BY <1>1, EmptySeq, ConcatProperties
  <2>3. queued' = queued
    BY <2>1 DEF Waits
  <2> QED BY <2>1, <2>2, <2>3
<1>4. CASE queued[w] # <<>>
  <2>1. /\ running' = Tail(running) \o <<Animation(w, Head(queued[w]))>>
        /\ queued' = [queued EXCEPT ![w] = Tail(queued[w])]
    BY <1>4 DEF Dequeue
  <2>2. Head(queued[w]) \in Kinds /\ Tail(queued[w]) \in Seq(Kinds)
    BY <1>2, <1>4, HeadTailProperties
  <2>3. ASSUME w \notin gone
        PROVE  Head(queued[w]) # "close" /\ Tail(queued[w]) \in Seq(Kinds \ {"close"})
    <3>1. queued[w] \in Seq(Kinds \ {"close"})
      BY <2>3 DEF Waits
    <3>2. Head(queued[w]) \in Kinds \ {"close"} /\ Tail(queued[w]) \in Seq(Kinds \ {"close"})
      BY <3>1, <1>4, HeadTailProperties
    <3> QED BY <3>2
  <2>4. <<Animation(w, Head(queued[w]))>> \in Seq(Moves(gone))
    BY <2>2, <2>3, OneMove
  <2>5. running' \in Seq(Moves(gone))
    BY <2>1, <1>1, <2>4, ConcatProperties
  <2>6. Waits(queued', gone)
    <3> DEFINE t == Tail(queued[w])
    <3>1. queued' = [queued EXCEPT ![w] = t] /\ t \in Seq(Kinds)
          /\ (w \notin gone => t \in Seq(Kinds \ {"close"}))
      BY <2>1, <2>2, <2>3
    <3> HIDE DEF t
    <3> QED BY <3>1 DEF Waits
  <2> QED BY <2>5, <2>6
<1> QED BY <1>3, <1>4

-----------------------------------------------------------------------------
(* The layers, apart from the bound on their renumberings. *)

Layered(l) ==
  /\ l \in [foreground : SUBSET Windows, z : [Windows -> Int], top : Lowest .. Highest, wraps : Nat]
  /\ l.wraps = 0 => \A w \in Windows : l.z[w] <= l.top

(* What toForeground() does to a window, until the z-indexes are renumbered. *)
LEMMA Lifted ==
  ASSUME NEW l, Layered(l), NEW w \in Windows, NEW list, NEW all, NEW m, m = Lift(l, w, list, all)
  PROVE  /\ Layered(m)
         /\ m.wraps >= l.wraps
         /\ m.foreground = (l.foreground \ (list \ {w})) \cup {w}
         /\ w \in l.foreground => m.z = l.z
         /\ w \notin l.foreground /\ m.wraps = 0 =>
              /\ \A v \in Windows \ {w} : m.z[v] = l.z[v] /\ m.z[v] < m.z[w]
<1> DEFINE back == [l EXCEPT !.foreground = @ \ (list \ {w})]
<1>1. /\ back \in [foreground : SUBSET Windows, z : [Windows -> Int], top : Lowest .. Highest, wraps : Nat]
      /\ back.foreground = l.foreground \ (list \ {w})
      /\ back.z = l.z /\ back.top = l.top /\ back.wraps = l.wraps
  BY DEF Layered
<1>2. CASE w \in l.foreground
  <2>1. m = back
    BY <1>2 DEF Lift
  <2> QED BY <2>1, <1>1, <1>2 DEF Layered
<1>3. CASE w \notin l.foreground
  <2> DEFINE next == RequestZIndex(back, all)
  <2>1. m = [next EXCEPT !.foreground = @ \cup {w}, !.z = [@ EXCEPT ![w] = next.top]]
    BY <1>3 DEF Lift
  <2> HIDE DEF back
  <2>2. /\ next \in [foreground : SUBSET Windows, z : [Windows -> Int], top : Lowest .. Highest, wraps : Nat]
        /\ next.foreground = back.foreground
        /\ next.wraps >= back.wraps
        /\ next.wraps = 0 => next.z = back.z /\ next.top = back.top + 1
    <3>1. CASE back.top < Highest
      <4>1. next = [back EXCEPT !.top = back.top + 1]
        BY <3>1 DEF RequestZIndex
      <4>2. back.top + 1 \in Lowest .. Highest
        BY <1>1, <3>1, RangeAssumption
      <4> HIDE DEF next
      <4> QED BY <4>1, <4>2, <1>1
    <3>2. CASE ~(back.top < Highest)
      <4> DEFINE z == [v \in Windows |-> IF v \in all /\ back.z[v] > Lowest
                                         THEN back.z[v] - (Highest + 1 - Lowest) ELSE back.z[v]]
      <4>1. next = [back EXCEPT !.top = Lowest, !.wraps = back.wraps + 1, !.z = z]
        BY <3>2 DEF RequestZIndex
      <4>2. z \in [Windows -> Int]
        BY <1>1, RangeAssumption
      <4>3. Lowest \in Lowest .. Highest /\ back.wraps + 1 \in Nat /\ back.wraps + 1 > 0
        BY <1>1, RangeAssumption
      <4> HIDE DEF z, next
      <4> DEFINE Rec == [foreground : SUBSET Windows, z : [Windows -> Int],
                         top : Lowest .. Highest, wraps : Nat]
                 one == [back EXCEPT !.top = Lowest]
                 two == [one EXCEPT !.wraps = back.wraps + 1]
      <4>4. next = [two EXCEPT !.z = z]
        BY <4>1
      <4>5. one \in Rec /\ one.foreground = back.foreground
        BY <4>3, <1>1
      <4> HIDE DEF one
      <4>6. two \in Rec /\ two.foreground = back.foreground /\ two.wraps = back.wraps + 1
        BY <4>5, <4>3, <1>1
      <4> HIDE DEF two
      <4>7. next \in Rec /\ next.foreground = back.foreground /\ next.wraps = back.wraps + 1
        BY <4>6, <4>4, <4>2
      <4> QED BY <4>7, <4>3, <1>1
    <3> QED BY <3>1, <3>2
  <2> HIDE DEF next
  <2> DEFINE y == [next.z EXCEPT ![w] = next.top]
  <2>3. y \in [Windows -> Int] /\ y[w] = next.top /\ \A v \in Windows \ {w} : y[v] = next.z[v]
    BY <2>2, RangeAssumption
  <2>4. m = [next EXCEPT !.foreground = next.foreground \cup {w}, !.z = y]
    BY <2>1
  <2> HIDE DEF y
  <2>5. /\ m \in [foreground : SUBSET Windows, z : [Windows -> Int], top : Lowest .. Highest, wraps : Nat]
        /\ m.foreground = next.foreground \cup {w} /\ m.z = y
        /\ m.top = next.top /\ m.wraps = next.wraps
    BY <2>2, <2>3, <2>4
  <2>6. m.wraps = 0 => \A v \in Windows : l.z[v] <= l.top /\ l.z[v] \in Int /\ l.top \in Int
    BY <2>5, <2>2, <1>1, RangeAssumption DEF Layered
  <2>7. m.wraps = 0 => /\ \A v \in Windows \ {w} : m.z[v] = l.z[v] /\ m.z[v] < m.z[w]
                       /\ m.z[w] = m.top
    BY <2>2, <2>3, <2>5, <2>6, <1>1
  <2>8. ASSUME m.wraps = 0, NEW v \in Windows
        PROVE  m.z[v] <= m.top
    <3>1. m.top \in Int /\ m.z[v] \in Int /\ m.z[w] \in Int
      BY <2>5
    <3>2. v = w \/ m.z[v] < m.z[w]
      BY <2>7, <2>8
    <3>3. m.z[w] = m.top
      BY <2>7, <2>8
    <3> QED BY <3>1, <3>2, <3>3
  <2>9. m.wraps >= l.wraps
    BY <2>2, <2>5, <1>1
  <2> QED BY <1>3, <1>1, <2>2, <2>5, <2>7, <2>8, <2>9 DEF Layered
<1> QED BY <1>2, <1>3

-----------------------------------------------------------------------------
(* The windows: who has which dialog, where they are, which one is marked.   *)

Here(open, sp, cur) == {w \in open : sp[w] = cur}

Stray(w, sp) == Parent[w] # None /\ sp[w] # sp[Parent[w]]

Tree(ch, open) ==
  /\ ch \in [Windows -> Windows \cup {None}]
  /\ open \subseteq Windows
  /\ \A w \in Windows : ch[w] # None => w \in open /\ ch[w] \in open /\ Parent[ch[w]] = w

Front(l, open, sp, cur) ==
  \A w \in l.foreground \cap open :
    \/ Stray(w, sp)
    \/ /\ sp[w] = cur
       /\ \A v \in Here(open, sp, cur) \ {w} :
            v \notin l.foreground /\ (l.wraps = 0 => l.z[v] < l.z[w])

Above(l, ch, sp) ==
  l.wraps = 0 =>
    \A w \in Windows : ch[w] # None /\ ~Stray(ch[w], sp) => l.z[w] < l.z[ch[w]]

(* A window has no dialog but its child, and a dialog has none at all.       *)
LEMMA Dialogs ==
  ASSUME NEW ch, NEW open, Tree(ch, open), NEW w \in Windows, ch[w] # None
  PROVE  /\ ch[w] \in Windows \ {w}
         /\ ch[ch[w]] = None
         /\ \A v \in Windows \ {w} : ch[v] # ch[w]
BY ParentAssumption, NoneAssumption DEF Tree

(* Putting the one window w of the workspace in the foreground.              *)
LEMMA LiftedFront ==
  ASSUME NEW l, Layered(l), NEW open \in SUBSET Windows, NEW sp, NEW cur,
         Front(l, open, sp, cur), NEW w \in Windows, w \in open => sp[w] = cur,
         NEW all, NEW m, m = Lift(l, w, Here(open, sp, cur), all)
  PROVE  Front(m, open, sp, cur)
<1> DEFINE list == Here(open, sp, cur)
<1>1. /\ m.wraps >= l.wraps /\ m.wraps \in Nat /\ l.wraps \in Nat
      /\ m.foreground = (l.foreground \ (list \ {w})) \cup {w}
      /\ w \in l.foreground => m.z = l.z
      /\ w \notin l.foreground /\ m.wraps = 0 =>
           \A v \in Windows \ {w} : m.z[v] = l.z[v] /\ m.z[v] < m.z[w]
  BY Lifted DEF Layered
<1>2. list \subseteq open /\ list \subseteq Windows
  BY DEF Here
<1>3. ASSUME NEW u \in m.foreground \cap open, ~Stray(u, sp)
      PROVE  /\ sp[u] = cur
             /\ \A v \in list \ {u} : v \notin m.foreground /\ (m.wraps = 0 => m.z[v] < m.z[u])
  <2>1. u = w
    <3>1. CASE u # w
      <4>1. u \in l.foreground /\ u \notin list
        BY <3>1, <1>1
      <4>2. sp[u] = cur
        BY <4>1, <1>3 DEF Front
      <4> QED BY <4>1, <4>2, <1>3 DEF Here
    <3> QED BY <3>1
  <2>2. \A v \in list \ {w} : v \notin m.foreground
    BY <1>1
  <2>3. ASSUME m.wraps = 0, NEW v \in list \ {w}
        PROVE  m.z[v] < m.z[w]
    <3>1. CASE w \in l.foreground
      <4>1. l.wraps = 0
        BY <2>3, <1>1
      <4>2. l.z[v] < l.z[w]
        BY <3>1, <4>1, <2>1, <1>3, <2>3 DEF Front
      <4> QED BY <3>1, <4>2, <1>1
    <3>2. CASE w \notin l.foreground
      BY <3>2, <2>3, <1>1, <1>2
    <3> QED BY <3>1, <3>2
  <2> QED BY <2>1, <2>2, <2>3, <1>3
<1> HIDE DEF list
<1>4. \A u \in m.foreground \cap open :
        Stray(u, sp) \/ (/\ sp[u] = cur
                         /\ \A v \in list \ {u} : v \notin m.foreground /\ (m.wraps = 0 => m.z[v] < m.z[u]))
  BY <1>3
<1> QED BY <1>4 DEF Front, list

LEMMA Raised ==
  ASSUME NEW l, Layered(l), NEW ch, NEW open, Tree(ch, open), NEW sp, NEW cur,
         Front(l, open, sp, cur), Above(l, ch, sp),
         NEW w \in Windows, w \in open => sp[w] = cur,
         NEW all, NEW n, n = ToForeground(l, w, ch[w], Here(open, sp, cur), all)
  PROVE  /\ Layered(n) /\ n.wraps >= l.wraps
         /\ Front(n, open, sp, cur)
         /\ Above(n, ch, sp)
         /\ n.foreground \subseteq l.foreground \cup {w, ch[w]}
         /\ w \in l.foreground => w \in n.foreground
<1> DEFINE list == Here(open, sp, cur)
           m == Lift(l, w, list, all)
<1> HIDE DEF m
<1>0. open \in SUBSET Windows
  BY DEF Tree
<1>1. /\ Layered(m) /\ m.wraps >= l.wraps /\ m.wraps \in Nat /\ l.wraps \in Nat
      /\ m.foreground = (l.foreground \ (list \ {w})) \cup {w}
      /\ w \in l.foreground => m.z = l.z
      /\ w \notin l.foreground /\ m.wraps = 0 =>
           \A v \in Windows \ {w} : m.z[v] = l.z[v] /\ m.z[v] < m.z[w]
  BY Lifted DEF Layered, m
<1>2. Front(m, open, sp, cur)
  BY <1>0, LiftedFront DEF m
<1>3. CASE w \in l.foreground
  <2>1. n = m
    BY <1>3 DEF ToForeground, m
  <2>2. Above(m, ch, sp)
    BY <1>1, <1>3 DEF Above
  <2> QED BY <2>1, <2>2, <1>1, <1>2, <1>3
<1>4. CASE w \notin l.foreground /\ ch[w] = None
  <2>1. n = m
    BY <1>4 DEF ToForeground, m
  <2>2. Above(m, ch, sp)
    <3> SUFFICES ASSUME m.wraps = 0, NEW p \in Windows, ch[p] # None, ~Stray(ch[p], sp)
                 PROVE  m.z[p] < m.z[ch[p]]
      BY DEF Above
    <3>1. l.z[p] < l.z[ch[p]]
      BY <1>1 DEF Above
    <3>2. p # w /\ ch[p] \in Windows /\ ch[p] # p
      BY <1>4, Dialogs
    <3> QED BY <3>1, <3>2, <1>1, <1>4
  <2> QED BY <2>1, <2>2, <1>1, <1>2, <1>4
<1>5. CASE w \notin l.foreground /\ ch[w] # None
  <2> DEFINE c == ch[w]
  <2>1. c \in Windows /\ c # w /\ c \in open /\ w \in open /\ Parent[c] = w
    BY <1>5, Dialogs DEF Tree
  <2>2. n = Lift(m, c, list, all)
    BY <1>5 DEF ToForeground, m
  <2>3. Parent[c] # None
    BY <2>1, NoneAssumption
  <2>4. ~Stray(c, sp) => sp[c] = cur
    BY <2>1, <2>3 DEF Stray
  <2> HIDE DEF c
  <2>5. /\ Layered(n) /\ n.wraps >= m.wraps /\ n.wraps \in Nat
        /\ n.foreground = (m.foreground \ (list \ {c})) \cup {c}
        /\ c \in m.foreground => n.z = m.z
        /\ c \notin m.foreground /\ n.wraps = 0 =>
             \A v \in Windows \ {c} : n.z[v] = m.z[v] /\ n.z[v] < n.z[c]
    BY <1>1, <2>1, <2>2, Lifted DEF Layered
  <2>6. Front(n, open, sp, cur)
    <3>1. CASE ~Stray(c, sp)
      BY <3>1, <1>0, <1>1, <1>2, <2>1, <2>2, <2>4, LiftedFront
    <3>2. CASE Stray(c, sp)
      <4>1. ASSUME NEW u \in n.foreground \cap open PROVE Stray(u, sp)
        <5>1. CASE u # c
          <6>1. u \in m.foreground /\ u \notin list
            BY <5>1, <2>5, <4>1
          <6>2. Stray(u, sp) \/ sp[u] = cur
            BY <6>1, <4>1, <1>2 DEF Front
          <6>3. sp[u] # cur
            BY <6>1, <4>1 DEF Here
          <6> QED BY <6>2, <6>3
        <5> QED BY <5>1, <3>2
      <4> QED BY <4>1 DEF Front
    <3> QED BY <3>1, <3>2
  <2>7. Above(n, ch, sp)
    <3> SUFFICES ASSUME n.wraps = 0, NEW p \in Windows, ch[p] # None, ~Stray(ch[p], sp)
                 PROVE  n.z[p] < n.z[ch[p]]
      BY DEF Above
    <3>1. l.z[p] < l.z[ch[p]] /\ m.wraps = 0
      BY <1>1, <2>5 DEF Above
    <3>2. ch[p] \in Windows /\ ch[p] # p /\ ch[ch[p]] = None /\ (p # w => ch[p] # c)
      <4>1. p # w => ch[p] # ch[w]
        BY Dialogs
      <4> QED BY <4>1, Dialogs DEF c
    <3>3. ch[c] = None
      BY <1>5, Dialogs DEF c
    <3>4. CASE p = w
      <4>1. ch[p] = c /\ sp[c] = cur
        BY <3>4, <2>4 DEF c
      <4>2. c \in list \ {w}
        BY <4>1, <2>1 DEF Here
      <4>3. c \notin m.foreground
        BY <4>2, <1>1
      <4> QED BY <4>1, <4>3, <3>4, <2>1, <2>5
    <3>5. CASE p # w
      <4>1. p # c /\ ch[p] # c
        BY <3>3, <3>2, <3>5
      <4>2. n.z[p] = m.z[p] /\ n.z[ch[p]] = m.z[ch[p]]
        BY <4>1, <3>2, <2>5
      <4>3. m.z[p] < m.z[ch[p]]
        <5>1. CASE ch[p] = w
          BY <5>1, <3>1, <3>5, <1>1, <1>5
        <5>2. CASE ch[p] # w
          BY <5>2, <3>1, <3>2, <3>5, <1>1, <1>5
        <5> QED BY <5>1, <5>2
      <4> QED BY <4>2, <4>3
    <3> QED BY <3>4, <3>5
  <2> QED BY <1>1, <1>5, <2>5, <2>6, <2>7 DEF c
<1> QED BY <1>3, <1>4, <1>5

-----------------------------------------------------------------------------
(* The inductive invariant. *)

Shape ==
  /\ opened = attached \ closing
  /\ attached \subseteq Created /\ closing \subseteq attached
  /\ hidden \subseteq attached /\ displayed \subseteq attached
  /\ space \in [Windows -> Workspaces \cup {None}]
  /\ current \in Workspaces
  /\ Tree(child, opened)
  /\ \A w \in Created : Parent[w] # None => Parent[w] \in Created
  /\ \A w \in displayed \cap opened : space[w] = current
  /\ running \in Seq(Moves(Gone))
  /\ Waits(queued, Gone)

Ordered(l) ==
  /\ Layered(l)
  /\ l.wraps <= MaxWraps
  /\ Front(l, opened, space, current)
  /\ Above(l, child, space)

IInv == Shape /\ Ordered(layers) /\ layers.foreground \subseteq attached

LEMMA ListedHere ==
  ASSUME Shape
  PROVE  Listed = Here(opened, space, current) /\ opened \subseteq Windows
BY DEF Shape, Listed, Desktop, Here, Tree

(* toForeground() of a window that is not opened in another workspace.       *)
LEMMA BroughtForward ==
  ASSUME IInv, NEW w \in attached, w \in opened => space[w] = current,
         NEW all, Becomes(ToForeground(layers, w, child[w], Listed, all))
  PROVE  Ordered(layers') /\ layers'.foreground \subseteq attached
<1>1. w \in Windows
  BY DEF IInv, Shape, Created
<1>2. layers' = ToForeground(layers, w, child[w], Here(opened, space, current), all)
      /\ layers'.wraps <= MaxWraps
  BY ListedHere DEF IInv, Becomes
<1>3. /\ Layered(layers) /\ Tree(child, opened) /\ Front(layers, opened, space, current)
      /\ Above(layers, child, space)
  BY DEF IInv, Shape, Ordered
<1>4. /\ Layered(layers') /\ layers'.wraps >= layers.wraps
      /\ Front(layers', opened, space, current) /\ Above(layers', child, space)
      /\ layers'.foreground \subseteq layers.foreground \cup {w, child[w]}
  BY <1>1, <1>2, <1>3, Raised
<1>5. child[w] \in attached \/ child[w] = None
  BY <1>1 DEF IInv, Shape, Tree
<1>6. layers'.foreground \subseteq Windows
  BY <1>4 DEF Layered
<1> QED BY <1>2, <1>4, <1>5, <1>6, NoneAssumption DEF Ordered, IInv

(* What the end of an animation brings to the foreground.                    *)
LEMMA Activated ==
  ASSUME Shape, NEW l, Ordered(l), NEW all, ToActive(l, Listed, all)
  PROVE  /\ Ordered(layers')
         /\ layers'.wraps >= l.wraps
         /\ layers'.foreground \subseteq l.foreground \cup opened
         /\ \A w \in (l.foreground \cap opened) \ hidden :
              ~Stray(w, space) /\ l.wraps = 0 => w \in layers'.foreground
<1> DEFINE list == Here(opened, space, current)
<1>0. Listed = list /\ opened \subseteq Windows
  BY ListedHere
<1>1. /\ Layered(l) /\ Tree(child, opened) /\ Front(l, opened, space, current)
      /\ Above(l, child, space) /\ l.wraps \in Nat
  BY DEF Shape, Ordered, Layered
<1>2. CASE Becomes(l)
  BY <1>1, <1>2 DEF Becomes, Ordered
<1>3. ASSUME NEW w \in Actives(l, list), Becomes(ToForeground(l, w, child[w], list, all))
      PROVE  /\ Ordered(layers')
             /\ layers'.wraps >= l.wraps
             /\ layers'.foreground \subseteq l.foreground \cup opened
             /\ \A v \in (l.foreground \cap opened) \ hidden :
                  ~Stray(v, space) /\ l.wraps = 0 => v \in layers'.foreground
  <2>1. w \in opened /\ w \in Windows /\ space[w] = current
    BY <1>0, <1>3 DEF Actives, Here
  <2>2. layers' = ToForeground(l, w, child[w], list, all) /\ layers'.wraps <= MaxWraps
    BY <1>3 DEF Becomes
  <2>3. /\ Layered(layers') /\ layers'.wraps >= l.wraps
        /\ Front(layers', opened, space, current) /\ Above(layers', child, space)
        /\ layers'.foreground \subseteq l.foreground \cup {w, child[w]}
        /\ w \in l.foreground => w \in layers'.foreground
    BY <1>1, <2>1, <2>2, Raised
  <2>4. child[w] \in opened \/ child[w] = None
    BY <1>1, <2>1 DEF Tree
  <2>5. layers'.foreground \subseteq l.foreground \cup opened
    <3>1. layers'.foreground \subseteq Windows
      BY <2>3 DEF Layered
    <3> QED BY <3>1, <2>1, <2>3, <2>4, NoneAssumption
  <2>6. ASSUME NEW v \in (l.foreground \cap opened) \ hidden, ~Stray(v, space), l.wraps = 0
        PROVE  v \in layers'.foreground
    <3>1. /\ space[v] = current
          /\ \A u \in list \ {v} : l.z[u] < l.z[v]
      BY <2>6, <1>1 DEF Front
    <3>2. v \in list
      BY <2>6, <3>1 DEF Here
    <3>3. w \in list /\ l.z[v] <= l.z[w]
      BY <2>6, <3>2, <1>3 DEF Actives
    <3>4. v \in Windows /\ w \in Windows /\ l.z[v] \in Int /\ l.z[w] \in Int
      BY <2>1, <2>6, <1>0, <1>1 DEF Layered
    <3>5. v = w
      BY <3>1, <3>3, <3>4
    <3> QED BY <3>5, <2>3, <2>6
  <2> HIDE DEF list
  <2>7. Ordered(layers')
    BY <2>2, <2>3 DEF Ordered
  <2>8. \A v \in (l.foreground \cap opened) \ hidden :
          ~Stray(v, space) /\ l.wraps = 0 => v \in layers'.foreground
    BY <2>6
  <2> QED BY <2>3, <2>5, <2>7, <2>8
<1> QED BY <1>0, <1>2, <1>3 DEF ToActive

-----------------------------------------------------------------------------
LEMMA AtFirst == Init => IInv
<1> SUFFICES ASSUME Init PROVE IInv
  OBVIOUS
<1>1. Created = {} /\ Gone = {}
  BY DEF Init, Created, Gone
<1>2. running \in Seq(Moves(Gone)) /\ Waits(queued, Gone)
  <2>1. running = <<>> /\ queued = [w \in Windows |-> <<>>]
    BY DEF Init
  <2>2. <<>> \in Seq(Kinds) /\ <<>> \in Seq(Kinds \ {"close"}) /\ <<>> \in Seq(Moves(Gone))
    BY EmptySeq
  <2> QED BY <2>1, <2>2 DEF Waits
<1>3. Tree(child, opened)
  BY DEF Init, Tree
<1>4. Shape
  BY <1>1, <1>2, <1>3 DEF Init, Shape
<1>5. Layered(layers)
  BY RangeAssumption DEF Init, Layered
<1>6. Front(layers, opened, space, current) /\ Above(layers, child, space)
  BY DEF Init, Front, Above
<1>7. layers.wraps <= MaxWraps /\ layers.foreground \subseteq attached
  BY BoundsAssumption DEF Init
<1> QED BY <1>4, <1>5, <1>6, <1>7 DEF IInv, Ordered

(* The animations keep being what they are when the windows change.          *)
LEMMA GoneGrows ==
  ASSUME Shape, NEW more, Gone \subseteq more
  PROVE  running \in Seq(Moves(more)) /\ Waits(queued, more)
<1>1. running \in Seq(Moves(more))
  BY MovesGrow DEF Shape
<1>2. Waits(queued, more)
  BY DEF Waits, Shape
<1> QED BY <1>1, <1>2

LEMMA OpenKeeps ==
  ASSUME IInv, NEW w \in Windows, NEW ws \in Workspaces, Open(w, ws)
  PROVE  IInv'
<1> DEFINE p == Parent[w]
<1>0. /\ w \notin Created /\ w \notin attached /\ w \notin opened
      /\ p # None => p \in opened /\ ws = current
      /\ opened' = opened \cup {w} /\ attached' = attached \cup {w}
      /\ closing' = closing /\ hidden' = hidden /\ current' = current
      /\ space' = [space EXCEPT ![w] = ws]
      /\ child' = IF p = None THEN child ELSE [child EXCEPT ![p] = w]
  BY DEF Open, IInv, Shape
<1>1. p \in Windows \cup {None} /\ p # w
  BY ParentAssumption, NoneAssumption, <1>0 DEF IInv, Shape
<1>2. /\ space' \in [Windows -> Workspaces \cup {None}] /\ space'[w] = ws
      /\ \A v \in Windows \ {w} : space'[v] = space[v]
      /\ Created' = Created \cup {w}
      /\ ws # None
  BY <1>0, NoneAssumption DEF Created, IInv, Shape
<1>3. Gone' = Gone
  BY <1>0, <1>2 DEF Gone
<1>4. Tree(child', opened')
  <2>1. CASE p = None
    BY <1>0, <2>1 DEF IInv, Shape, Tree
  <2>2. CASE p # None
    BY <1>0, <1>1, <2>2 DEF IInv, Shape, Tree
  <2> QED BY <2>1, <2>2
<1>5. \A v \in Created' : Parent[v] # None => Parent[v] \in Created'
  BY <1>0, <1>1, <1>2 DEF IInv, Shape
<1>6. running' \in Seq(Moves(Gone')) /\ Waits(queued', Gone')
  <2>1. CASE Enqueue(None, w, "open")
    <3>1. "open" \in Kinds
      BY DEF Kinds
    <3>2. running \in Seq(Moves(Gone)) /\ Waits(queued, Gone)
      BY DEF IInv, Shape
    <3> QED BY <1>3, <2>1, <3>1, <3>2, Enqueued
  <2>2. CASE UNCHANGED <<running, queued>>
    BY <1>3, <2>2 DEF IInv, Shape
  <2> QED BY <2>1, <2>2 DEF Open
<1>7. displayed' \subseteq attached' /\ \A v \in displayed' \cap opened' : space'[v] = current
  <2>1. displayed' = displayed \/ (displayed' = displayed \cup {w} /\ ws = current)
    BY DEF Open
  <2>2. w \notin displayed /\ displayed \subseteq attached /\ opened \subseteq Windows
    BY <1>0 DEF IInv, Shape, Tree
  <2> QED BY <1>0, <1>2, <2>1, <2>2 DEF IInv, Shape
<1>8. Shape'
  <2>1. /\ opened' = attached' \ closing' /\ attached' \subseteq Created' /\ closing' \subseteq attached'
        /\ hidden' \subseteq attached' /\ current' \in Workspaces
    BY <1>0, <1>2 DEF IInv, Shape
  <2> QED BY <2>1, <1>0, <1>2, <1>4, <1>5, <1>6, <1>7 DEF Shape
<1>9. \A v \in Created : v \in Windows \ {w} /\ (Stray(v, space') <=> Stray(v, space))
  <2>1. ASSUME NEW v \in Created PROVE v \in Windows \ {w} /\ (Stray(v, space') <=> Stray(v, space))
    <3>1. v \in Windows \ {w}
      BY <1>0 DEF Created
    <3>2. Parent[v] # None => Parent[v] \in Windows \ {w}
      BY <1>0 DEF IInv, Shape, Created
    <3> QED BY <3>1, <3>2, <1>2 DEF Stray
  <2> QED BY <2>1
<1>10. opened \subseteq Created /\ layers.foreground \subseteq Created
  BY DEF IInv, Shape
<1>11. ~Stray(w, space') \/ p # None
  BY DEF Stray
<1>12. CASE ws = current /\ Becomes(ToForeground(layers, w, None, Listed \cup {w}, Desktop \cup {w}))
  <2> DEFINE list == Listed \cup {w}
             all  == Desktop \cup {w}
  <2>1. layers' = Lift(layers, w, list, all) /\ layers'.wraps <= MaxWraps
    BY <1>12 DEF Becomes, ToForeground
  <2>2. w \notin layers.foreground
    BY <1>0, <1>10
  <2>3. /\ Layered(layers') /\ layers'.wraps >= layers.wraps
        /\ layers'.foreground = (layers.foreground \ (list \ {w})) \cup {w}
        /\ layers'.wraps = 0 =>
             \A v \in Windows \ {w} : layers'.z[v] = layers.z[v] /\ layers'.z[v] < layers'.z[w]
    <3> HIDE DEF list, all
    <3>1. Layered(layers)
      BY DEF IInv, Ordered
    <3> QED BY <2>1, <2>2, <3>1, Lifted
  <2>4. layers'.wraps = 0 => layers.wraps = 0
    BY <2>3 DEF Layered, IInv, Ordered
  <2>5. list = Here(opened', space', current)
    <3>1. \A v \in opened : v \in Windows \ {w} /\ space'[v] = space[v]
      BY <1>2, <1>9, <1>10
    <3>2. Listed = Here(opened, space, current)
      BY ListedHere DEF IInv
    <3> QED BY <3>1, <3>2, <1>0, <1>2, <1>12 DEF Here
  <2>6. Front(layers', opened', space', current)
    <3> SUFFICES ASSUME NEW u \in layers'.foreground \cap opened', ~Stray(u, space')
                 PROVE  /\ space'[u] = current
                        /\ \A v \in list \ {u} :
                             v \notin layers'.foreground /\ (layers'.wraps = 0 => layers'.z[v] < layers'.z[u])
      <4> HIDE DEF list
      <4> QED BY <2>5 DEF Front
    <3>1. u = w
      <4>1. CASE u # w
        <5>1. u \in layers.foreground /\ u \in opened /\ u \notin list
          BY <4>1, <2>3, <1>0
        <5>2. space[u] = current
          BY <5>1, <1>9, <1>10 DEF IInv, Ordered, Front
        <5>3. u \in Listed
          BY <5>1, <5>2, ListedHere DEF Here, IInv
        <5> QED BY <5>1, <5>3
      <4> QED BY <4>1
    <3>2. list \subseteq Windows
      BY <2>5, <1>0, <1>9, <1>10 DEF Here
    <3> QED BY <3>1, <3>2, <2>3, <1>2, <1>12
  <2>7. Above(layers', child', space')
    <3> SUFFICES ASSUME layers'.wraps = 0, NEW u \in Windows, child'[u] # None, ~Stray(child'[u], space')
                 PROVE  layers'.z[u] < layers'.z[child'[u]]
      BY DEF Above
    <3>1. CASE child'[u] = w
      <4>1. u # w
        BY <3>1, <1>1, <1>4 DEF Tree
      <4> QED BY <4>1, <3>1, <2>3
    <3>2. CASE child'[u] # w
      <4>1. child'[u] = child[u]
        BY <3>2, <1>0, <1>1 DEF IInv, Shape, Tree
      <4>2. u \in opened /\ child[u] \in opened
        BY <4>1 DEF IInv, Shape, Tree
      <4>3. layers.z[u] < layers.z[child[u]]
        BY <4>1, <4>2, <2>4, <1>9, <1>10 DEF IInv, Ordered, Above
      <4> QED BY <4>1, <4>2, <4>3, <2>3, <1>9, <1>10
    <3> QED BY <3>1, <3>2
  <2>8. layers'.foreground \subseteq attached'
    BY <2>3, <1>0 DEF IInv
  <2> HIDE DEF list, all
  <2> QED BY <1>0, <1>8, <2>1, <2>3, <2>6, <2>7, <2>8 DEF IInv, Ordered
<1>13. CASE ws # current /\ layers' = layers
  <2>1. p = None /\ child' = child /\ w \notin layers.foreground
    BY <1>0, <1>10, <1>13
  <2>2. Here(opened', space', current) = Here(opened, space, current)
    <3>1. \A v \in opened : v # w /\ space'[v] = space[v]
      BY <1>2, <1>9, <1>10
    <3> QED BY <3>1, <1>0, <1>2, <1>13 DEF Here
  <2>3. Front(layers', opened', space', current)
    <3> SUFFICES ASSUME NEW u \in layers.foreground \cap opened', ~Stray(u, space')
                 PROVE  /\ space'[u] = current
                        /\ \A v \in Here(opened, space, current) \ {u} :
                             v \notin layers.foreground /\ (layers.wraps = 0 => layers.z[v] < layers.z[u])
      BY <1>13, <2>2 DEF Front
    <3>1. u \in layers.foreground \cap opened /\ ~Stray(u, space) /\ space'[u] = space[u]
      BY <1>0, <2>1, <1>2, <1>9, <1>10
    <3> QED BY <3>1 DEF IInv, Ordered, Front
  <2>4. Above(layers', child', space')
    <3> SUFFICES ASSUME layers.wraps = 0, NEW u \in Windows, child[u] # None, ~Stray(child[u], space')
                 PROVE  layers.z[u] < layers.z[child[u]]
      BY <1>13, <2>1 DEF Above
    <3>1. ~Stray(child[u], space)
      BY <1>9, <1>10 DEF IInv, Shape, Tree
    <3> QED BY <3>1 DEF IInv, Ordered, Above
  <2>5. layers'.foreground \subseteq attached'
    BY <1>0, <1>13 DEF IInv
  <2>6. Layered(layers') /\ layers'.wraps <= MaxWraps
    BY <1>13 DEF IInv, Ordered
  <2> QED BY <1>0, <1>8, <2>3, <2>4, <2>5, <2>6 DEF IInv, Ordered
<1> QED BY <1>12, <1>13 DEF Open

(* What the loss of a mark, or of an opened window, leaves as it is.         *)
LEMMA Fewer ==
  ASSUME NEW l, Layered(l), NEW lost, NEW m, m = [l EXCEPT !.foreground = @ \ lost]
  PROVE  /\ Layered(m) /\ m.foreground = l.foreground \ lost
         /\ m.z = l.z /\ m.wraps = l.wraps
BY DEF Layered

LEMMA Thinned ==
  ASSUME NEW l, NEW open, NEW sp, NEW cur, Front(l, open, sp, cur),
         NEW m, m.foreground \subseteq l.foreground, m.z = l.z, m.wraps = l.wraps,
         NEW fewer \in SUBSET open
  PROVE  Front(m, fewer, sp, cur)
<1>1. Here(fewer, sp, cur) \subseteq Here(open, sp, cur)
  BY DEF Here
<1> QED BY <1>1 DEF Front

LEMMA CloseKeeps ==
  ASSUME IInv, NEW w \in Windows, Close(w)
  PROVE  IInv'
<1> DEFINE those == {w, child[w]} \ {None}
<1>1. Tree(child, opened) /\ w \in opened
  BY DEF Close, IInv, Shape
<1>2. /\ those \subseteq opened /\ w \in those /\ child[w] \in Windows \cup {None}
      /\ opened \subseteq Windows
  BY <1>1, NoneAssumption DEF Tree
<1>3. /\ opened' = opened \ those /\ closing' = closing \cup those
      /\ child' = [v \in Windows |-> IF v \in {w, Parent[w]} THEN None ELSE child[v]]
      /\ layers' = [layers EXCEPT !.foreground = @ \ those]
      /\ Enqueue(child[w], w, "close")
      /\ UNCHANGED <<attached, space, hidden, displayed, current>>
  BY DEF Close
<1> HIDE DEF those
<1>4. opened \subseteq Created /\ Created' = Created
  BY <1>3 DEF IInv, Shape, Created
<1>5. Gone' = Gone \cup those
  BY <1>2, <1>3, <1>4 DEF Gone
<1>6. running' \in Seq(Moves(Gone')) /\ Waits(queued', Gone')
  <2>1. "close" \in Kinds /\ {child[w], w} \ {None} \subseteq Gone'
    BY <1>5 DEF Kinds, those
  <2>2. running \in Seq(Moves(Gone)) /\ Waits(queued, Gone) /\ Gone \subseteq Gone'
    BY <1>5 DEF IInv, Shape
  <2> QED BY <2>1, <2>2, <1>2, <1>3, Enqueued
<1>7. \A v \in Windows : child'[v] # None =>
        child'[v] = child[v] /\ v \in opened' /\ child[v] \in opened' /\ Parent[child[v]] = v
  <2> SUFFICES ASSUME NEW v \in Windows, child'[v] # None
               PROVE  child'[v] = child[v] /\ v \in opened' /\ child[v] \in opened' /\ Parent[child[v]] = v
    OBVIOUS
  <2>1. v # w /\ v # Parent[w] /\ child'[v] = child[v] /\ child[v] # None
    BY <1>3
  <2>2. v \in opened /\ child[v] \in opened /\ Parent[child[v]] = v
    BY <2>1, <1>1 DEF Tree
  <2>3. child[v] # w
    BY <2>1, <2>2
  <2>4. child[v] # child[w] /\ v # child[w]
    <3>1. CASE child[w] = None
      BY <3>1, <2>1, NoneAssumption
    <3>2. CASE child[w] # None
      <4>1. child[child[w]] = None /\ \A u \in Windows \ {w} : child[u] # child[w]
        BY <3>2, <1>1, Dialogs
      <4> QED BY <4>1, <2>1
    <3> QED BY <3>1, <3>2
  <2> QED BY <2>1, <2>2, <2>3, <2>4, <1>3 DEF those
<1>8. Tree(child', opened')
  <2>1. child' \in [Windows -> Windows \cup {None}]
    BY <1>1, <1>3 DEF Tree
  <2> QED BY <2>1, <1>2, <1>3, <1>7 DEF Tree
<1>9. Shape'
  <2>1. /\ opened' = attached' \ closing' /\ attached' \subseteq Created' /\ closing' \subseteq attached'
        /\ hidden' \subseteq attached' /\ displayed' \subseteq attached'
        /\ space' \in [Windows -> Workspaces \cup {None}] /\ current' \in Workspaces
    BY <1>2, <1>3, <1>4 DEF IInv, Shape
  <2>2. /\ \A v \in Created' : Parent[v] # None => Parent[v] \in Created'
        /\ \A v \in displayed' \cap opened' : space'[v] = current'
    BY <1>3, <1>4 DEF IInv, Shape
  <2> QED BY <2>1, <2>2, <1>6, <1>8 DEF Shape
<1>10. /\ Layered(layers') /\ layers'.foreground = layers.foreground \ those
       /\ layers'.z = layers.z /\ layers'.wraps = layers.wraps
  <2>1. Layered(layers)
    BY DEF IInv, Ordered
  <2> QED BY <2>1, <1>3, Fewer
<1>11. Front(layers', opened', space', current')
  <2>1. Front(layers, opened, space, current)
    BY DEF IInv, Ordered
  <2>2. layers'.foreground \subseteq layers.foreground /\ opened' \in SUBSET opened
    BY <1>3, <1>10
  <2>3. Front(layers', opened', space, current)
    BY <2>1, <2>2, <1>10, Thinned
  <2> QED BY <2>3, <1>3
<1>12. Above(layers', child', space')
  <2>1. Above(layers, child, space)
    BY DEF IInv, Ordered
  <2> QED BY <2>1, <1>3, <1>7, <1>10 DEF Above
<1> QED BY <1>3, <1>9, <1>10, <1>11, <1>12 DEF IInv, Ordered

(* The actions that leave the windows what they are keep the invariant when  *)
(* they keep the animations and the layers in order.                         *)
LEMMA SameWindows ==
  ASSUME IInv, UNCHANGED <<states, current>>,
         displayed' \subseteq attached, \A v \in displayed' \cap opened : space[v] = current,
         hidden' \subseteq attached,
         running' \in Seq(Moves(Gone)), Waits(queued', Gone),
         Ordered(layers'), layers'.foreground \subseteq attached
  PROVE  IInv'
<1>1. /\ opened' = opened /\ attached' = attached /\ closing' = closing /\ child' = child
      /\ space' = space /\ current' = current
  BY DEF states
<1>2. Created' = Created /\ Gone' = Gone
  BY <1>1 DEF Created, Gone
<1>3. Shape'
  BY <1>1, <1>2 DEF IInv, Shape
<1>4. Ordered(layers)'
  BY <1>1 DEF Ordered
<1> QED BY <1>1, <1>3, <1>4 DEF IInv

LEMMA RaiseKeeps ==
  ASSUME IInv, NEW w \in attached, w \in opened => space[w] = current, Raise(w)
  PROVE  IInv'
<1>1. Ordered(layers') /\ layers'.foreground \subseteq attached
  BY BroughtForward DEF Raise
<1>2. UNCHANGED <<states, hidden, displayed, current, running, queued>>
  BY DEF Raise
<1> QED BY <1>1, <1>2, SameWindows DEF IInv, Shape

LEMMA HideKeeps ==
  ASSUME IInv, NEW w \in Windows, Hide(w)
  PROVE  IInv'
<1> DEFINE v    == IF Parent[w] = None THEN child[w] ELSE Parent[w]
           rest == IF Follows(v) THEN <<Animation(v, "hide")>> ELSE <<>>
<1>1. /\ running' = (running \o <<Animation(w, "hide")>>) \o rest
      /\ UNCHANGED <<states, hidden, displayed, current, queued, layers>>
  <2>1. running' = running \o <<Animation(w, "hide")>> \o rest
    BY DEF Hide
  <2> QED BY <2>1 DEF Hide
<1>2. "hide" \in Kinds /\ "hide" # "close"
  BY DEF Kinds
<1>3. Follows(v) => v \in Windows
  BY DEF Follows, IInv, Shape, Created
<1> HIDE DEF v
<1>4. rest \in Seq(Moves(Gone)) /\ <<Animation(w, "hide")>> \in Seq(Moves(Gone))
  <2>1. CASE Follows(v)
    BY <2>1, <1>2, <1>3, OneMove
  <2>2. CASE ~Follows(v)
    BY <2>2, <1>2, EmptySeq, OneMove
  <2> QED BY <2>1, <2>2
<1> HIDE DEF rest
<1>5. running' \in Seq(Moves(Gone))
  <2>1. running \in Seq(Moves(Gone))
    BY DEF IInv, Shape
  <2>2. running \o <<Animation(w, "hide")>> \in Seq(Moves(Gone))
    BY <2>1, <1>4, ConcatProperties
  <2> QED BY <2>2, <1>1, <1>4, ConcatProperties
<1> QED BY <1>1, <1>5, SameWindows DEF IInv, Shape

LEMMA ShowKeeps ==
  ASSUME IInv, NEW w \in opened, space[w] = current, Show(w)
  PROVE  IInv'
<1>1. w \in attached /\ w \in Windows
  BY DEF IInv, Shape, Tree
<1>2. Ordered(layers') /\ layers'.foreground \subseteq attached
  BY <1>1, BroughtForward DEF Show
<1>3. running' \in Seq(Moves(Gone))
  <2>1. running \in Seq(Moves(Gone))
    BY DEF IInv, Shape
  <2>2. Animation(w, "show") \in Moves(Gone)
    BY <1>1, OneMove DEF Kinds
  <2> QED BY <2>1, <2>2, AppendProperties DEF Show
<1>4. UNCHANGED <<states, hidden, current, queued>> /\ displayed' = displayed \cup {w}
  BY DEF Show
<1> QED BY <1>1, <1>2, <1>3, <1>4, SameWindows DEF IInv, Shape

LEMMA SwitchKeeps ==
  ASSUME IInv, NEW ws \in Workspaces, Switch(ws)
  PROVE  IInv'
<1>1. /\ current' = ws
      /\ displayed' = (displayed \ Listed) \cup {w \in Desktop : space[w] = ws}
      /\ layers' = [layers EXCEPT !.foreground = @ \ Listed]
      /\ hidden' = hidden /\ running' = running /\ queued' = queued
      /\ opened' = opened /\ attached' = attached /\ closing' = closing /\ child' = child
      /\ space' = space
  BY DEF Switch, states
<1>2. Created' = Created /\ Gone' = Gone
  BY <1>1 DEF Created, Gone
<1>3. Listed = Here(opened, space, current) /\ opened \subseteq Windows
  BY ListedHere DEF IInv
<1>4. /\ displayed' \subseteq attached
      /\ \A v \in displayed' \cap opened : space[v] = ws
  <2>1. ASSUME NEW v \in displayed' \cap opened PROVE space[v] = ws
    <3>1. CASE v \in displayed \ Listed
      <4>1. space[v] = current
        BY <3>1, <2>1 DEF IInv, Shape
      <4> QED BY <4>1, <3>1, <2>1, <1>3 DEF Here
    <3> QED BY <3>1, <2>1, <1>1
  <2> QED BY <2>1, <1>1 DEF IInv, Shape, Desktop
<1>5. Shape'
  BY <1>1, <1>2, <1>4 DEF IInv, Shape
<1>6. /\ Layered(layers') /\ layers'.foreground = layers.foreground \ Listed
      /\ layers'.z = layers.z /\ layers'.wraps = layers.wraps
  <2>1. Layered(layers)
    BY DEF IInv, Ordered
  <2> QED BY <2>1, <1>1, Fewer
<1>7. Front(layers', opened, space, ws)
  <2>1. ASSUME NEW u \in layers'.foreground \cap opened PROVE Stray(u, space)
    <3>1. u \in layers.foreground \cap opened /\ u \notin Here(opened, space, current)
      BY <2>1, <1>3, <1>6
    <3>2. Stray(u, space) \/ space[u] = current
      BY <3>1 DEF IInv, Ordered, Front
    <3> QED BY <3>1, <3>2 DEF Here
  <2> QED BY <2>1 DEF Front
<1>8. Above(layers', child, space)
  BY <1>6 DEF IInv, Ordered, Above
<1> QED BY <1>1, <1>5, <1>6, <1>7, <1>8 DEF IInv, Ordered

-----------------------------------------------------------------------------
(* The ends of animations. *)

(* What runs first is an animation, of a window that has gone if it closes.  *)
LEMMA FirstMove ==
  ASSUME Shape, running # <<>>
  PROVE  Tail(running) \in Seq(Moves(Gone)) /\ Head(running) \in Moves(Gone)
BY HeadTailProperties DEF Shape

LEMMA ClosingIsGone ==
  ASSUME Shape, NEW w \in Windows, Ends(w, "close")
  PROVE  w \notin opened
<1>1. Animation(w, "close") \in Moves(Gone)
  BY FirstMove DEF Ends
<1> QED BY <1>1 DEF Moves, Animation, Gone

(* The end of an animation that looks for a window to bring forward keeps    *)
(* the layers in order, and takes nothing from the window in the foreground. *)
LEMMA LayersAtEnd ==
  ASSUME IInv, NEW w \in Windows, EndClose(w) \/ EndHide(w)
  PROVE  /\ Ordered(layers')
         /\ layers'.foreground \subseteq (layers.foreground \ {w}) \cup opened
         /\ \A v \in ((layers.foreground \ {w}) \cap opened) \ hidden :
              ~Stray(v, space) /\ layers.wraps = 0 => v \in layers'.foreground
<1>0. /\ Shape /\ Layered(layers) /\ layers.wraps <= MaxWraps /\ opened \subseteq Windows
      /\ Front(layers, opened, space, current) /\ Above(layers, child, space)
  BY DEF IInv, Ordered, Shape, Tree
<1>1. CASE EndClose(w)
  <2> DEFINE m == [layers EXCEPT !.foreground = @ \ {w}]
             y == [m.z EXCEPT ![w] = Lowest]
             l == [m EXCEPT !.z = y]
  <2>1. w \notin opened
    BY <1>0, <1>1, ClosingIsGone DEF EndClose
  <2>2. Listed \ {w} = Listed
    BY <2>1, <1>0, ListedHere DEF Here
  <2>3. [layers EXCEPT !.foreground = @ \ {w}, !.z = [@ EXCEPT ![w] = Lowest]] = l
    BY <1>0 DEF Layered
  <2>4. ToActive(l, Listed, Desktop \ {w})
    BY <1>1, <2>2, <2>3 DEF EndClose
  <2>5. /\ Layered(m) /\ m.foreground = layers.foreground \ {w}
        /\ m.z = layers.z /\ m.wraps = layers.wraps
    BY <1>0, Fewer
  <2> HIDE DEF m
  <2>6. /\ y \in [Windows -> Int] /\ y[w] = Lowest /\ \A v \in Windows \ {w} : y[v] = layers.z[v]
    BY <2>5, RangeAssumption DEF Layered
  <2> HIDE DEF y
  <2>7. /\ l \in [foreground : SUBSET Windows, z : [Windows -> Int], top : Lowest .. Highest, wraps : Nat]
        /\ l.foreground = layers.foreground \ {w} /\ l.z = y
        /\ l.top = m.top /\ l.wraps = layers.wraps
    BY <2>5, <2>6 DEF Layered
  <2> HIDE DEF l
  <2>8. Layered(l)
    <3> SUFFICES ASSUME l.wraps = 0, NEW v \in Windows PROVE l.z[v] <= l.top
      BY <2>7 DEF Layered
    <3>1. m.z[v] <= m.top /\ m.top \in Lowest .. Highest
      BY <2>5, <2>7 DEF Layered
    <3>2. CASE v = w
      BY <3>1, <3>2, <2>6, <2>7, RangeAssumption
    <3>3. CASE v # w
      BY <3>1, <3>3, <2>5, <2>6, <2>7
    <3> QED BY <3>2, <3>3
  <2>9. Front(l, opened, space, current)
    <3>1. \A v \in opened : l.z[v] = layers.z[v] /\ v # w
      BY <1>0, <2>1, <2>6, <2>7
    <3>2. Here(opened, space, current) \subseteq opened
      BY DEF Here
    <3> QED BY <3>1, <3>2, <1>0, <2>7 DEF Front
  <2>10. Above(l, child, space)
    <3>1. \A v \in opened : l.z[v] = layers.z[v]
      BY <1>0, <2>1, <2>6, <2>7
    <3> QED BY <3>1, <1>0, <2>7 DEF Above, Shape, Tree
  <2>11. Ordered(l)
    BY <1>0, <2>7, <2>8, <2>9, <2>10 DEF Ordered
  <2> QED BY <1>0, <2>4, <2>7, <2>11, Activated
<1>2. CASE EndHide(w)
  <2> DEFINE l == [layers EXCEPT !.foreground = @ \ {w}]
  <2>1. ToActive(l, Listed, Desktop)
    BY <1>2 DEF EndHide
  <2>2. /\ Layered(l) /\ l.foreground = layers.foreground \ {w}
        /\ l.z = layers.z /\ l.wraps = layers.wraps
    BY <1>0, Fewer
  <2> HIDE DEF l
  <2>3. Front(l, opened, space, current)
    BY <1>0, <2>2, Thinned
  <2>4. Above(l, child, space)
    BY <1>0, <2>2 DEF Above
  <2>5. Ordered(l)
    BY <1>0, <2>2, <2>3, <2>4 DEF Ordered
  <2> QED BY <1>0, <2>1, <2>2, <2>5, Activated
<1> QED BY <1>1, <1>2

LEMMA EndOpenKeeps ==
  ASSUME IInv, NEW w \in Windows, EndOpen(w)
  PROVE  IInv'
<1>1. running' \in Seq(Moves(Gone)) /\ Waits(queued', Gone)
  BY Dequeued DEF EndOpen, Ends, IInv, Shape
<1>2. UNCHANGED <<states, hidden, displayed, current, layers>>
  BY DEF EndOpen
<1> QED BY <1>1, <1>2, SameWindows DEF IInv, Shape

LEMMA EndShowKeeps ==
  ASSUME IInv, NEW w \in Windows, EndShow(w)
  PROVE  IInv'
<1>1. running' \in Seq(Moves(Gone))
  BY FirstMove DEF EndShow, Ends, IInv
<1>2. UNCHANGED <<states, displayed, current, queued, layers>> /\ hidden' \subseteq hidden
  BY DEF EndShow
<1> QED BY <1>1, <1>2, SameWindows DEF IInv, Shape

LEMMA EndHideKeeps ==
  ASSUME IInv, NEW w \in Windows, EndHide(w)
  PROVE  IInv'
<1>1. running' \in Seq(Moves(Gone))
  BY FirstMove DEF EndHide, Ends, IInv
<1>2. /\ UNCHANGED <<states, current, queued>>
      /\ displayed' \subseteq displayed /\ hidden' \subseteq attached
  BY DEF EndHide
<1>3. Ordered(layers') /\ layers'.foreground \subseteq attached
  BY LayersAtEnd DEF IInv, Shape
<1> QED BY <1>1, <1>2, <1>3, SameWindows DEF IInv, Shape

LEMMA EndCloseKeeps ==
  ASSUME IInv, NEW w \in Windows, EndClose(w)
  PROVE  IInv'
<1>1. /\ closing' = closing \ {w} /\ attached' = attached \ {w}
      /\ hidden' = hidden \ {w} /\ displayed' = displayed \ {w}
      /\ opened' = opened /\ child' = child /\ space' = space /\ current' = current
  BY DEF EndClose
<1>2. Created' = Created /\ Gone' = Gone
  BY <1>1 DEF Created, Gone
<1>3. running' \in Seq(Moves(Gone)) /\ Waits(queued', Gone)
  BY Dequeued DEF EndClose, Ends, IInv, Shape
<1>4. w \notin opened
  BY ClosingIsGone DEF EndClose, IInv
<1>5. Shape'
  BY <1>1, <1>2, <1>3, <1>4 DEF IInv, Shape
<1>6. Ordered(layers') /\ layers'.foreground \subseteq (layers.foreground \ {w}) \cup opened
  BY LayersAtEnd
<1>7. Ordered(layers)'
  BY <1>1, <1>6 DEF Ordered
<1>8. layers'.foreground \subseteq attached'
  BY <1>1, <1>4, <1>6 DEF IInv, Shape
<1> QED BY <1>5, <1>7, <1>8 DEF IInv

-----------------------------------------------------------------------------
LEMMA Kept == IInv /\ [Next]_vars => IInv'
<1> SUFFICES ASSUME IInv, [Next]_vars PROVE IInv'
  OBVIOUS
<1>0. Shape /\ attached \subseteq Windows
  BY DEF IInv, Shape, Created
<1>1. ASSUME NEW w \in Windows, NEW ws \in Workspaces, Open(w, ws) PROVE IInv'
  BY <1>1, OpenKeeps
<1>2. ASSUME NEW ws \in Workspaces, Switch(ws) PROVE IInv'
  BY <1>2, SwitchKeeps
<1>3. ASSUME NEW w \in Windows, Close(w) PROVE IInv'
  BY <1>3, CloseKeeps
<1>4. ASSUME NEW w \in Windows, Press(w) PROVE IInv'
  <2>1. w \in attached /\ Raise(w) /\ (w \in opened => space[w] = current)
    BY <1>0, <1>4 DEF Press, Seen, Shape
  <2> QED BY <2>1, RaiseKeeps
<1>5. ASSUME NEW w \in Windows, HideButton(w) PROVE IInv'
  BY <1>5, HideKeeps DEF HideButton
<1>6. ASSUME NEW w \in Windows, Toggle(w) PROVE IInv'
  <2>1. w \in opened /\ w \in attached /\ space[w] = current
    BY <1>0, <1>6 DEF Toggle, Shape
  <2>2. Show(w) \/ Raise(w) \/ Hide(w)
    BY <1>6 DEF Toggle
  <2> QED BY <2>1, <2>2, ShowKeeps, RaiseKeeps, HideKeeps
<1>7. ASSUME NEW w \in Windows, EndOpen(w) PROVE IInv'
  BY <1>7, EndOpenKeeps
<1>8. ASSUME NEW w \in Windows, EndClose(w) PROVE IInv'
  BY <1>8, EndCloseKeeps
<1>9. ASSUME NEW w \in Windows, EndHide(w) PROVE IInv'
  BY <1>9, EndHideKeeps
<1>10. ASSUME NEW w \in Windows, EndShow(w) PROVE IInv'
  BY <1>10, EndShowKeeps
<1>11. CASE UNCHANGED vars
  <2>1. /\ UNCHANGED <<states, current, hidden, displayed, running, queued, layers>>
    BY <1>11 DEF vars
  <2> QED BY <2>1, SameWindows DEF IInv, Shape
<1> QED BY <1>1, <1>2, <1>3, <1>4, <1>5, <1>6, <1>7, <1>8, <1>9, <1>10, <1>11 DEF Next

LEMMA Always == Spec => []IInv
BY AtFirst, Kept, PTL DEF Spec

-----------------------------------------------------------------------------
(* The windows' states and the layers are what they should be: a window is   *)
(* not opened and closing at once, only opened windows have a dialog and are *)
(* one, and the greatest z-index stays in its range.                         *)
THEOREM TypesKept == Spec => []TypeOK
<1>1. IInv => TypeOK
  <2> SUFFICES ASSUME IInv PROVE TypeOK
    OBVIOUS
  <2>1. running \in Seq(Animations)
    BY MovesAreAnimations DEF IInv, Shape
  <2>2. queued \in [Windows -> Seq(Kinds)]
    BY DEF IInv, Shape, Waits
  <2>3. layers \in Layers
    <3>1. layers.wraps \in 0 .. MaxWraps
      BY BoundsAssumption DEF IInv, Ordered, Layered
    <3> QED BY <3>1 DEF IInv, Ordered, Layered, Layers
  <2>4. /\ child \in [Windows -> Windows \cup {None}]
        /\ \A w \in Windows : child[w] # None => child[w] \in opened /\ Parent[child[w]] = w
    BY DEF IInv, Shape, Tree
  <2> QED BY <2>1, <2>2, <2>3, <2>4 DEF TypeOK, IInv, Shape
<1> QED BY <1>1, Always, PTL

(* Whatever windows open, close, hide and come back, and whatever animations *)
(* end, the opened window that is marked as the one in the foreground is in  *)
(* the current workspace and above all others there.                         *)
THEOREM ForegroundStaysOnTop == Spec => []ForegroundOnTop
<1>1. IInv => ForegroundOnTop
  <2> SUFFICES ASSUME IInv PROVE ForegroundOnTop
    OBVIOUS
  <2>1. Listed = Here(opened, space, current) /\ Front(layers, opened, space, current)
    BY ListedHere DEF IInv, Ordered
  <2> QED BY <2>1 DEF ForegroundOnTop, Front, Stray, Astray
<1> QED BY <1>1, Always, PTL

(* toForeground() takes the dialog along each time, so it stays above.       *)
THEOREM DialogStaysAbove == Spec => []DialogAbove
<1>1. IInv => DialogAbove
  BY DEF DialogAbove, Above, Stray, Astray, IInv, Ordered
<1> QED BY <1>1, Always, PTL

(* An animation that ends leaves the foreground to the window the user has   *)
(* brought there, because getActive() then finds that one.                   *)
THEOREM FocusStays == Spec => FocusKept
<1> DEFINE Ended(w) == \E v \in Windows \ {w} : EndOpen(v) \/ EndClose(v) \/ EndHide(v) \/ EndShow(v)
           Stays == \A w \in (layers.foreground \cap opened) \ hidden :
                      ~Astray(w) /\ layers.wraps = 0 /\ Ended(w) => w \in layers'.foreground
<1>1. IInv => Stays
  <2> SUFFICES ASSUME IInv, NEW w \in (layers.foreground \cap opened) \ hidden,
                      ~Astray(w), layers.wraps = 0,
                      NEW v \in Windows \ {w}, EndOpen(v) \/ EndClose(v) \/ EndHide(v) \/ EndShow(v)
               PROVE  w \in layers'.foreground
    OBVIOUS
  <2>1. CASE EndOpen(v) \/ EndShow(v)
    BY <2>1 DEF EndOpen, EndShow
  <2>2. CASE EndClose(v) \/ EndHide(v)
    <3>1. w \in ((layers.foreground \ {v}) \cap opened) \ hidden /\ ~Stray(w, space)
      BY DEF Stray, Astray
    <3> QED BY <2>2, <3>1, LayersAtEnd
  <2> QED BY <2>1, <2>2
<1>2. IInv => [Stays]_vars
  BY <1>1
<1> HIDE DEF Stays
<1>3. Spec => [][Stays]_vars
  BY <1>2, Always, PTL
<1> QED BY <1>3, PTL DEF FocusKept, Stays
=============================================================================
