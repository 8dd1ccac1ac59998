------------------------------ MODULE Windows ------------------------------
(***************************************************************************)
(* The windows of a desktop with workspaces (compiz): which of them is in  *)
(* the foreground, and in which order they lie.                            *)
(*                                                                         *)
(* Opening, closing, hiding and showing a window change part of its state  *)
(* at once and the rest when the animation ends, and the user and the      *)
(* programs go on meanwhile.  A window is opened once: a main window is    *)
(* destroyed when it has closed, and a dialog is built for each use.  A    *)
(* window has one dialog at most.  The geometry of the windows is left     *)
(* out.                                                                    *)
(***************************************************************************)
EXTENDS Integers, Sequences

CONSTANTS
  Windows,
  Workspaces,
  Parent,         \* [Windows -> Windows \cup {None}]: option parentWindow
  Lowest,         \* $.webos.window.zIndexRange
  Highest,
  MaxWraps,       \* bound: how often requestZIndex() leaves the range
  MaxAnimations   \* bound: animations under way when the next one is asked for

None == "none"

ASSUME NoneAssumption == None \notin Windows /\ None \notin Workspaces
ASSUME ParentAssumption ==
  /\ Parent \in [Windows -> Windows \cup {None}]
  /\ \A w \in Windows : Parent[w] # None => Parent[Parent[w]] = None
  /\ \A v, w \in Windows : Parent[v] = Parent[w] /\ v # w => Parent[w] = None
ASSUME RangeAssumption == Lowest \in Int /\ Highest \in Int /\ Lowest < Highest
ASSUME BoundsAssumption == MaxWraps \in Nat /\ MaxAnimations \in Nat

VARIABLES
  opened,     \* windows in state 'opened'
  attached,   \* windows in #desktop
  closing,    \* windows with class 'closing'
  hidden,     \* windows in state 'hidden'
  displayed,  \* windows whose CSS display is not 'none'
  child,      \* [Windows -> Windows \cup {None}]: option childWindow
  space,      \* [Windows -> Workspaces \cup {None}]: None until it is created
  current,    \* $.w.window.workspace.current
  running,    \* animations under way, the first to end first
  queued,     \* [Windows -> Seq]: animations waiting in the element's fx queue
  layers      \* the windows in state 'foreground', all z-indexes,
              \* currentZIndex and how often it has wrapped (bound)

states == <<opened, attached, closing, child, space>>
vars == <<states, hidden, displayed, current, running, queued, layers>>

Kinds == {"open", "close", "hide", "show"}
Animations == [window : Windows, kind : Kinds]
Layers == [foreground : SUBSET Windows, z : [Windows -> Int], top : Lowest .. Highest,
           wraps : 0 .. MaxWraps]

Created == {w \in Windows : space[w] # None}

(* getWindows(), and those of the current workspace. *)
Desktop == attached \ closing
Listed == {w \in Desktop : space[w] = current}

Init ==
  /\ opened = {} /\ attached = {} /\ closing = {} /\ hidden = {} /\ displayed = {}
  /\ child = [w \in Windows |-> None]
  /\ space = [w \in Windows |-> None]
  /\ current \in Workspaces
  /\ running = <<>>
  /\ queued = [w \in Windows |-> <<>>]
  /\ layers = [foreground |-> {}, z |-> [w \in Windows |-> Lowest], top |-> Lowest, wraps |-> 0]

-----------------------------------------------------------------------------
(* Layers. *)

(* Out of the range, the windows on the desktop come down by its size, but   *)
(* for those at its bottom.                                                  *)
RequestZIndex(l, all) ==
  IF l.top < Highest THEN [l EXCEPT !.top = @ + 1]
  ELSE [l EXCEPT !.top = Lowest, !.wraps = @ + 1,
                 !.z = [w \in Windows |-> IF w \in all /\ l.z[w] > Lowest
                                          THEN l.z[w] - (Highest + 1 - Lowest) ELSE l.z[w]]]

(* toForeground(), but for the child. *)
Lift(l, w, list, all) ==
  LET back == [l EXCEPT !.foreground = @ \ (list \ {w})]
      next == RequestZIndex(back, all)
  IN IF w \in l.foreground THEN back
     ELSE [next EXCEPT !.foreground = @ \cup {w}, !.z = [@ EXCEPT ![w] = next.top]]

(* A mutant: the child is left where it is. *)
ToForegroundAlone(l, w, c, list, all) == Lift(l, w, list, all)

ToForeground(l, w, c, list, all) ==
  LET one == Lift(l, w, list, all) IN
  IF w \in l.foreground \/ c = None THEN one ELSE Lift(one, c, list, all)

Becomes(l) == layers' = l /\ l.wraps <= MaxWraps

(* A mutant: the greatest z-index so far is not remembered. *)
AnyActive(l, list) == list \ hidden

(* getActive(): the first of the topmost windows; which one is first is left *)
(* open.                                                                     *)
Actives(l, list) ==
  LET seen == list \ hidden IN {w \in seen : \A v \in seen : l.z[v] <= l.z[w]}

ToActive(l, list, all) ==
  \/ Actives(l, list) = {} /\ Becomes(l)
  \/ \E w \in Actives(l, list) : Becomes(ToForeground(l, w, child[w], list, all))

-----------------------------------------------------------------------------
(* Animations last as long as one another, so they end in the order they     *)
(* start.  Those of open() and close() wait for one another in a queue of    *)
(* the element.                                                              *)
Animated(w) == \E i \in DOMAIN running : running[i].window = w
Opening(w) ==
  \E i \in DOMAIN running : running[i].window = w /\ running[i].kind \in {"open", "close"}

Room == Len(running) < MaxAnimations

Animation(w, kind) == [window |-> w, kind |-> kind]

Started(w, kind) == IF w = None \/ Opening(w) THEN <<>> ELSE <<Animation(w, kind)>>

Enqueue(v, w, kind) ==
  /\ running' = running \o Started(v, kind) \o Started(w, kind)
  /\ queued' = [u \in Windows |-> IF u \in {v, w} /\ Opening(u) THEN Append(queued[u], kind)
                                  ELSE queued[u]]

Ends(w, kind) == running # <<>> /\ Head(running) = Animation(w, kind)

Dequeue(w) ==
  /\ running' = Tail(running) \o
       IF queued[w] = <<>> THEN <<>> ELSE <<Animation(w, Head(queued[w]))>>
  /\ queued' = [queued EXCEPT ![w] = IF @ = <<>> THEN @ ELSE Tail(@)]

-----------------------------------------------------------------------------
(* What programs and users do. *)

(* _create() and open().  A main window may come in the workspace it had in  *)
(* the saved session, a dialog comes in the current one.                     *)
Open(w, ws) ==
  LET p   == Parent[w]
      all == Desktop \cup {w}
  IN
  /\ Room
  /\ w \notin Created
  /\ p # None => p \in opened /\ ws = current
  /\ opened' = opened \cup {w}
  /\ attached' = attached \cup {w}
  /\ space' = [space EXCEPT ![w] = ws]
  /\ child' = IF p = None THEN child ELSE [child EXCEPT ![p] = w]
  /\ \/ /\ ws = current
        /\ displayed' = displayed \cup {w}
        /\ Becomes(ToForeground(layers, w, None, Listed \cup {w}, all))
        /\ Enqueue(None, w, "open")
     \/ /\ ws # current
        /\ UNCHANGED <<displayed, layers, running, queued>>
  /\ UNCHANGED <<closing, hidden, current>>

(* A mutant: the parent keeps its child. *)
CloseUnlinked(w) ==
  LET those == {w, child[w]} \ {None} IN
  /\ Room
  /\ w \in opened
  /\ opened' = opened \ those
  /\ closing' = closing \cup those
  /\ layers' = [layers EXCEPT !.foreground = @ \ those]
  /\ child' = [child EXCEPT ![w] = None]
  /\ Enqueue(child[w], w, "close")
  /\ UNCHANGED <<attached, space, hidden, displayed, current>>

(* close(): the child goes too, and the parent forgets the child.            *)
Close(w) ==
  LET those == {w, child[w]} \ {None} IN
  /\ Room
  /\ w \in opened
  /\ opened' = opened \ those
  /\ closing' = closing \cup those
  /\ layers' = [layers EXCEPT !.foreground = @ \ those]
  /\ child' = [v \in Windows |-> IF v \in {w, Parent[w]} THEN None ELSE child[v]]
  /\ Enqueue(child[w], w, "close")
  /\ UNCHANGED <<attached, space, hidden, displayed, current>>

(* hide() takes the child or the parent along when it is seen and still.     *)
Follows(v) == v # None /\ v \in (attached \cap displayed) \ hidden /\ ~Animated(v)

Hide(w) ==
  LET v == IF Parent[w] = None THEN child[w] ELSE Parent[w] IN
  /\ running' = running \o <<Animation(w, "hide")>>
                         \o IF Follows(v) THEN <<Animation(v, "hide")>> ELSE <<>>
  /\ UNCHANGED <<states, hidden, displayed, current, queued, layers>>

(* show().  The child stays hidden: "typeof length > 0" is never true.       *)
Show(w) ==
  /\ displayed' = displayed \cup {w}
  /\ running' = Append(running, Animation(w, "show"))
  /\ Becomes(ToForeground(layers, w, child[w], Listed, Desktop))
  /\ UNCHANGED <<states, hidden, current, queued>>

Raise(w) ==
  /\ Becomes(ToForeground(layers, w, child[w], Listed, Desktop))
  /\ UNCHANGED <<states, hidden, displayed, current, running, queued>>

(* What can be clicked: a closing window is still there, one that is hidden  *)
(* but displayed again by a change of workspace has no size.                 *)
Seen(w) == w \in attached \cap displayed /\ (w \in hidden => Animated(w))

Press(w) == Seen(w) /\ Raise(w)

HideButton(w) == Room /\ Seen(w) /\ w \notin hidden /\ Hide(w)

(* The window's button in the bar: hideOrShowOrToForeground().               *)
Toggle(w) ==
  /\ Room
  /\ w \in opened /\ Parent[w] = None /\ space[w] = current
  /\ \/ w \in hidden /\ Show(w)
     \/ w \notin hidden /\ w \notin layers.foreground /\ Raise(w)
     \/ w \notin hidden /\ w \in layers.foreground /\ Hide(w)

(* A mutant: the windows of the workspace that is left keep their place.     *)
SwitchKeeping(ws) ==
  /\ ws # current
  /\ current' = ws
  /\ displayed' = (displayed \ Listed) \cup {w \in Desktop : space[w] = ws}
  /\ UNCHANGED <<states, hidden, running, queued, layers>>

Switch(ws) ==
  /\ ws # current
  /\ current' = ws
  /\ displayed' = (displayed \ Listed) \cup {w \in Desktop : space[w] = ws}
  /\ layers' = [layers EXCEPT !.foreground = @ \ Listed]
  /\ UNCHANGED <<states, hidden, running, queued>>

-----------------------------------------------------------------------------
(* What happens when an animation ends. *)

EndOpen(w) ==
  /\ Ends(w, "open")
  /\ Dequeue(w)
  /\ UNCHANGED <<states, hidden, displayed, current, layers>>

(* The window goes; nothing of it is used again.                             *)
EndClose(w) ==
  /\ Ends(w, "close")
  /\ Dequeue(w)
  /\ closing' = closing \ {w}
  /\ attached' = attached \ {w}
  /\ hidden' = hidden \ {w}
  /\ displayed' = displayed \ {w}
  /\ ToActive([layers EXCEPT !.foreground = @ \ {w}, !.z = [@ EXCEPT ![w] = Lowest]],
              Listed \ {w}, Desktop \ {w})
  /\ UNCHANGED <<opened, child, space, current>>

(* The window is still taken for visible when the active one is looked for,  *)
(* so it may be that one.                                                    *)
EndHide(w) ==
  /\ Ends(w, "hide")
  /\ running' = Tail(running)
  /\ displayed' = displayed \ {w}
  /\ ToActive([layers EXCEPT !.foreground = @ \ {w}], Listed, Desktop)
  /\ hidden' = (hidden \cup {w}) \cap attached
  /\ UNCHANGED <<states, current, queued>>

EndShow(w) ==
  /\ Ends(w, "show")
  /\ running' = Tail(running)
  /\ hidden' = hidden \ {w}
  /\ UNCHANGED <<states, displayed, current, queued, layers>>

Next ==
  \/ \E w \in Windows, ws \in Workspaces : Open(w, ws)
  \/ \E ws \in Workspaces : Switch(ws)
  \/ \E w \in Windows :
       Close(w) \/ Press(w) \/ HideButton(w) \/ Toggle(w)
         \/ EndOpen(w) \/ EndClose(w) \/ EndHide(w) \/ EndShow(w)

Spec == Init /\ [][Next]_vars

-----------------------------------------------------------------------------
(* Properties. *)

TypeOK ==
  /\ opened \subseteq attached \ closing /\ closing \subseteq attached
  /\ attached \subseteq Created /\ hidden \subseteq attached /\ displayed \subseteq attached
  /\ space \in [Windows -> Workspaces \cup {None}]
  /\ child \in [Windows -> Windows \cup {None}]
  /\ \A w \in Windows : child[w] # None => child[w] \in opened /\ Parent[child[w]] = w
  /\ current \in Workspaces
  /\ running \in Seq(Animations)
  /\ queued \in [Windows -> Seq(Kinds)]
  /\ layers \in Layers

(* A dialog that was opened while another workspace than its parent's was    *)
(* the current one.                                                          *)
Astray(w) == Parent[w] # None /\ space[w] # space[Parent[w]]

(* The window that is marked as the one in the foreground is in the          *)
(* workspace the user looks at, it is the only one there, and until the      *)
(* z-indexes are renumbered it is drawn above all others there, whatever     *)
(* windows open, fade, hide and come back meanwhile.                         *)
ForegroundOnTop ==
  \A w \in layers.foreground \cap opened :
    \/ Astray(w)
    \/ /\ space[w] = current
       /\ \A v \in Listed \ {w} :
            v \notin layers.foreground /\ (layers.wraps = 0 => layers.z[v] < layers.z[w])

(* A window's dialog is never under it, until the z-indexes are renumbered.  *)
DialogAbove ==
  layers.wraps = 0 =>
    \A w \in Windows : child[w] # None /\ ~Astray(child[w]) => layers.z[w] < layers.z[child[w]]

(* The end of an animation of another window, which looks for a window to    *)
(* bring to the foreground, never takes it from the one the user has brought *)
(* there since.                                                              *)
FocusKept ==
  [][\A w \in (layers.foreground \cap opened) \ hidden :
       ~Astray(w) /\ layers.wraps = 0
         /\ (\E v \in Windows \ {w} : EndOpen(v) \/ EndClose(v) \/ EndHide(v) \/ EndShow(v))
       => w \in layers'.foreground]_vars
=============================================================================
