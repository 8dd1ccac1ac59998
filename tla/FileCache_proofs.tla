------------------------- MODULE FileCache_proofs -------------------------
(***************************************************************************)
(* Proofs about FileCache: TypeOK and Coherent are invariants, for any     *)
(* paths, texts and number of requests in flight.                          *)
(*                                                                         *)
(* Good says what holds of a path that is not doubtful: the requests about *)
(* it do not overlap, so that the path's objects are what they were when   *)
(* its one request was sent, and what that request finds and does on the   *)
(* server (Expected) is what its answer makes of them.                     *)
(***************************************************************************)
EXTENDS FileCache, SequenceTheorems, TLAPS

OneFile  == {"readAsText", "load", "writeAsText", "writeAsBinary", "createFile", "remove"}
TwoFiles == {"rename", "copy", "move"}

(* What a request in a slot looks like. *)
Shape(s) ==
  LET r == requests[s] IN
  /\ r.op \in OneFile => r.path \in Paths /\ r.to = r.path
  /\ r.op \in TwoFiles => r.path \in Paths /\ r.to \in Paths /\ r.to # r.path
  /\ r.op \in {"writeAsText", "writeAsBinary"} => r.value \in Values
  /\ r.op \in (OneFile \cup TwoFiles) \ {"createFile"} =>
       r.object \in 1 .. Len(objects[r.path].texts)
  /\ r.op = None => ~r.executed
  /\ r.done => r.executed
  /\ r.live => r.op = "contents"
  /\ r.op = "readAsText" /\ r.done => r.reply[r.path] # Absent

Says(p, n) == objects[p].texts[n] \in {Unknown, disk[p]}

(* The object a request has been made for is still the path's, unless the    *)
(* cache has been cleared since.                                             *)
Held(s, p) ==
  \/ objects[p].cached = requests[s].object
  \/ objects[p].cached = 0 /\ ~known

Expected(s, p) ==
  LET r == requests[s]
      there == disk[p] # Absent
  IN
  /\ r.op = "readAsText"    => Says(p, r.object) /\ (r.done => there /\ r.reply[p] = disk[p])
  /\ r.op = "load"          => Says(p, r.object) /\ (r.done => there)
  /\ r.op = "contents"      => (r.done => r.reply[p] = disk[p])
  /\ r.op = "writeAsText"   => Held(s, p) /\ (r.executed => disk[p] = r.value)
  /\ r.op = "writeAsBinary" => Held(s, p) /\ (r.executed => there)
  /\ r.op = "createFile"    => (r.executed => there /\ TextAgrees(p))
  /\ r.op = "remove"        => (r.executed => ~there)
  /\ r.op = "rename"        =>
       /\ p = r.path => (r.executed => ~there)
       /\ p = r.to => (r.executed => there /\ (objects[p].cached # 0 =>
                                     objects[p].texts[objects[p].cached] = Unknown))
  /\ r.op = "copy"          => /\ p = r.path => Says(p, r.object)
                               /\ p = r.to => (r.executed => there)
  /\ r.op = "move"          => /\ p = r.path => IF r.executed THEN ~there ELSE Says(p, r.object)
                               /\ p = r.to => (r.executed => there)

Alone(p)  == \A s \in Slots : \A t \in Slots : p \in Altered(s) /\ p \in Touched(t) => s = t
Listed(p) == objects[p].listed # 0 => known /\ objects[p].listed = objects[p].cached
Steady(p) == \A s \in Slots : p \in Altered(s) => ~requests[s].executed

Good(p) ==
  /\ Alone(p)
  /\ Listed(p)
  /\ Steady(p) => TextAgrees(p) /\ ListingAgrees(p)
  /\ \A s \in Slots : p \in Touched(s) => Expected(s, p)

(* The text that a copy or a move takes along is that of its target. *)
Carries(s) ==
  LET r == requests[s] IN
  r.executed /\ r.path \notin doubtful /\ r.to \notin doubtful =>
    /\ r.op = "copy" => disk[r.to] = disk[r.path]
    /\ r.op = "move" => objects[r.path].texts[r.object] \in {Unknown, disk[r.to]}

IInv ==
  /\ TypeOK
  /\ \A s \in Slots : Shape(s) /\ Carries(s)
  /\ \A p \in Paths \ doubtful : Good(p)

-----------------------------------------------------------------------------
(* Objects. *)

(* g has the objects of f, with their texts, and perhaps one more. *)
Grown(f, g) ==
  /\ FileOK(g)
  /\ Len(f.texts) <= Len(g.texts)
  /\ \A n \in 1 .. Len(f.texts) : g.texts[n] = f.texts[n]

LEMMA FileType ==
  ASSUME NEW f, FileOK(f)
  PROVE  /\ f = [texts |-> f.texts, cached |-> f.cached, listed |-> f.listed]
         /\ f.texts \in Seq(Values \cup {Unknown}) /\ Len(f.texts) \in Nat
         /\ f.cached \in 0 .. Len(f.texts) /\ f.listed \in 0 .. Len(f.texts)
         /\ \A n \in 1 .. Len(f.texts) : f.texts[n] \in Values \cup {Unknown}
BY DEF FileOK, File

LEMMA GotFile ==
  ASSUME NEW f, FileOK(f)
  PROVE  /\ Grown(f, Got(f))
         /\ Got(f).cached \in 1 .. Len(Got(f).texts)
         /\ Got(f).listed = f.listed
         /\ f.cached # 0 => Got(f) = f
         /\ f.cached = 0 => Got(f).texts[Got(f).cached] = Unknown
<1> DEFINE g == [texts |-> Append(f.texts, Unknown), cached |-> Len(f.texts) + 1, listed |-> f.listed]
<1>1. CASE f.cached # 0
  BY <1>1, FileType DEF Got, Grown
<1>2. CASE f.cached = 0
  <2>1. Got(f) = g
    <3> DEFINE h == [f EXCEPT !.texts = Append(f.texts, Unknown)]
    <3>1. h = [texts |-> Append(f.texts, Unknown), cached |-> f.cached, listed |-> f.listed]
      <4>1. \A t : [f EXCEPT !.texts = t] = [texts |-> t, cached |-> f.cached, listed |-> f.listed]
        BY FileType
      <4> QED
        BY <4>1, Zenon
    <3>2. Got(f) = [f EXCEPT !.texts = Append(f.texts, Unknown), !.cached = Len(f.texts) + 1]
      BY <1>2, Zenon DEF Got
    <3>3. @ = [h EXCEPT !.cached = Len(f.texts) + 1]
      OBVIOUS
    <3> QED
      BY <3>1, <3>2, <3>3
  <2>2. /\ g.texts \in Seq(Values \cup {Unknown}) /\ Len(g.texts) = Len(f.texts) + 1
        /\ \A n \in 1 .. Len(f.texts) : g.texts[n] = f.texts[n]
        /\ g.texts[Len(f.texts) + 1] = Unknown
    BY FileType, AppendProperties
  <2>3. FileOK(g)
    BY <2>2, FileType DEF FileOK, File
  <2> QED
    BY <1>2, <2>1, <2>2, <2>3, FileType DEF Grown
<1> QED
  BY <1>1, <1>2

LEMMA PushedFile ==
  ASSUME NEW f, FileOK(f), NEW n \in 1 .. Len(f.texts)
  PROVE  /\ Grown(f, Pushed(f, n)) /\ Pushed(f, n).texts = f.texts
         /\ Pushed(f, n).cached = f.cached
         /\ Pushed(f, n).listed = IF known /\ f.listed = 0 THEN n ELSE f.listed
<1>1. CASE known /\ f.listed = 0
  <2>1. Pushed(f, n) = [texts |-> f.texts, cached |-> f.cached, listed |-> n]
    BY <1>1, FileType DEF Pushed
  <2> QED
    BY <1>1, <2>1, FileType DEF Grown, FileOK, File
<1>2. CASE ~(known /\ f.listed = 0)
  BY <1>2, FileType DEF Pushed, Grown
<1> QED
  BY <1>1, <1>2

LEMMA UpdatedFile ==
  ASSUME NEW f, FileOK(f)
  PROVE  /\ Grown(f, Updated(f)) /\ Len(Updated(f).texts) = Len(Got(f).texts)
         /\ Updated(f).cached = Got(f).cached
         /\ Updated(f).cached \in 1 .. Len(Updated(f).texts)
         /\ f.cached # 0 => Updated(f).cached = f.cached /\ Updated(f).texts = f.texts
         /\ f.cached = 0 => Updated(f).texts[Updated(f).cached] = Unknown
         /\ Updated(f).listed = IF known /\ f.listed = 0 THEN Updated(f).cached ELSE f.listed
<1> DEFINE g == Got(f)
<1>1. /\ FileOK(g) /\ g.cached \in 1 .. Len(g.texts) /\ g.listed = f.listed
      /\ f.cached # 0 => g = f
      /\ f.cached = 0 => g.texts[g.cached] = Unknown
      /\ Len(f.texts) <= Len(g.texts)
      /\ \A n \in 1 .. Len(f.texts) : g.texts[n] = f.texts[n]
  BY GotFile DEF Grown
<1> HIDE DEF g
<1>2. /\ FileOK(Pushed(g, g.cached)) /\ Pushed(g, g.cached).texts = g.texts
      /\ Pushed(g, g.cached).cached = g.cached
      /\ Pushed(g, g.cached).listed = IF known /\ g.listed = 0 THEN g.cached ELSE g.listed
  BY <1>1, PushedFile DEF Grown
<1>3. Updated(f) = Pushed(g, g.cached)
  BY DEF Updated, g
<1> QED
  BY <1>1, <1>2, <1>3 DEF Grown, g

LEMMA DroppedFile ==
  ASSUME NEW f, FileOK(f)
  PROVE  /\ Grown(f, Dropped(f)) /\ Dropped(f).texts = f.texts
         /\ Dropped(f).cached = 0 /\ Dropped(f).listed = 0
<1>1. Dropped(f) = [texts |-> f.texts, cached |-> 0, listed |-> 0]
  <2> DEFINE h == [f EXCEPT !.cached = 0]
  <2>1. h = [texts |-> f.texts, cached |-> 0, listed |-> f.listed]
    BY FileType
  <2>2. Dropped(f) = [h EXCEPT !.listed = 0]
    BY DEF Dropped
  <2> QED
    BY <2>1, <2>2
<1> QED
  BY <1>1, FileType DEF Grown, FileOK, File

LEMMA TextFile ==
  ASSUME NEW f, FileOK(f), NEW n \in 1 .. Len(f.texts), NEW text \in Values \cup {Unknown}
  PROVE  /\ FileOK(WithText(f, n, text)) /\ Len(WithText(f, n, text).texts) = Len(f.texts)
         /\ WithText(f, n, text).cached = f.cached /\ WithText(f, n, text).listed = f.listed
         /\ \A m \in 1 .. Len(f.texts) :
              WithText(f, n, text).texts[m] = IF m = n THEN text ELSE f.texts[m]
<1> DEFINE texts == [f.texts EXCEPT ![n] = text]
<1>1. /\ texts \in Seq(Values \cup {Unknown}) /\ Len(texts) = Len(f.texts)
      /\ \A m \in 1 .. Len(f.texts) : texts[m] = IF m = n THEN text ELSE f.texts[m]
  <2>1. f.texts \in Seq(Values \cup {Unknown})
    BY FileType
  <2> QED
    BY <2>1, ExceptSeq
<1>2. WithText(f, n, text) = [texts |-> texts, cached |-> f.cached, listed |-> f.listed]
  BY FileType DEF WithText
<1> QED
  BY <1>1, <1>2, FileType DEF FileOK, File

-----------------------------------------------------------------------------
(* Slots. *)

LEMMA Kinds ==
  ASSUME TypeOK, NEW s \in Slots, Shape(s)
  PROVE  LET r == requests[s] IN
         /\ r.op = None => Touched(s) = {} /\ Altered(s) = {}
         /\ r.op = "contents" => Touched(s) = Paths /\ Altered(s) = {}
         /\ r.op \in OneFile => /\ Touched(s) = {r.path} /\ r.path \in Paths /\ r.to = r.path
                                /\ r.op \in {"readAsText", "load"} => Altered(s) = {}
                                /\ r.op \notin {"readAsText", "load"} => Altered(s) = {r.path}
         /\ r.op \in TwoFiles => /\ Touched(s) = {r.path, r.to} /\ r.path \in Paths
                                 /\ r.to \in Paths /\ r.to # r.path
                                 /\ r.op = "copy" => Altered(s) = {r.to}
                                 /\ r.op # "copy" => Altered(s) = {r.path, r.to}
         /\ r.op \in OneFile \cup TwoFiles \cup {"contents", None}
         /\ Altered(s) \subseteq Touched(s) /\ Touched(s) \subseteq Paths
<1> DEFINE r == requests[s]
<1>1. r.op \in Ops \cup {None}
  BY DEF TypeOK, Request
<1>2. r.op \in OneFile \cup TwoFiles \cup {"contents", None}
  BY <1>1 DEF Ops, Changes, OneFile, TwoFiles
<1>3. CASE r.op = None
  BY <1>3 DEF Touched, Altered, Touches, Alters, None, Changes, OneFile, TwoFiles
<1>4. CASE r.op = "contents"
  BY <1>4 DEF Touched, Altered, Touches, Alters, None, Changes, OneFile, TwoFiles
<1>5. CASE r.op \in OneFile
  BY <1>5 DEF Touched, Altered, Touches, Alters, None, Changes, OneFile, TwoFiles, Shape
<1>6. CASE r.op \in TwoFiles
  BY <1>6 DEF Touched, Altered, Touches, Alters, None, Changes, OneFile, TwoFiles, Shape
<1> QED
  BY <1>2, <1>3, <1>4, <1>5, <1>6

(* A path that the slot which has changed is not about stays good. *)
LEMMA Elsewhere ==
  ASSUME NEW p \in Paths, Good(p), NEW s \in Slots,
         objects'[p] = objects[p], disk'[p] = disk[p], known' = known,
         \A t \in Slots \ {s} : requests'[t] = requests[t],
         p \notin Altered(s), p \notin Touched(s)', p \notin Altered(s)'
  PROVE  Good(p)'
<1>1. \A t \in Slots \ {s} : Touched(t)' = Touched(t) /\ Altered(t)' = Altered(t)
  BY DEF Touched, Altered
<1>2. Alone(p)'
  BY <1>1 DEF Good, Alone
<1>3. Listed(p)'
  BY DEF Good, Listed
<1>4. (Steady(p) => TextAgrees(p) /\ ListingAgrees(p))'
  <2>1. Steady(p)' => Steady(p)
    BY <1>1 DEF Steady
  <2> QED
    BY <2>1 DEF Good, TextAgrees, ListingAgrees
<1>5. \A t \in Slots : p \in Touched(t)' => Expected(t, p)'
  <2> SUFFICES ASSUME NEW t \in Slots, p \in Touched(t)'
               PROVE  Expected(t, p)'
    OBVIOUS
  <2>1. t # s /\ requests'[t] = requests[t] /\ p \in Touched(t)
    BY <1>1
  <2>2. Expected(t, p)
    BY <2>1 DEF Good
  <2> QED
    BY <2>1, <2>2 DEF Expected, Says, Held, TextAgrees
<1> QED
  BY <1>2, <1>3, <1>4, <1>5 DEF Good

(* The slots an action leaves alone. *)
LEMMA OtherShape ==
  ASSUME TypeOK, TypeOK', NEW t \in Slots, Shape(t), requests'[t] = requests[t],
         \A p \in Paths : Len(objects[p].texts) <= Len(objects'[p].texts)
  PROVE  Shape(t)'
<1> DEFINE r == requests[t]
<1>1. CASE r.op \in OneFile \cup TwoFiles
  <2>1. r.path \in Paths
    BY <1>1 DEF Shape
  <2>2. Len(objects[r.path].texts) \in Nat /\ Len(objects'[r.path].texts) \in Nat
    BY <2>1, FileType DEF TypeOK
  <2>3. Len(objects[r.path].texts) <= Len(objects'[r.path].texts)
    BY <2>1
  <2>4. r.object \in 1 .. Len(objects[r.path].texts) => r.object \in 1 .. Len(objects'[r.path].texts)
    BY <2>2, <2>3
  <2> QED
    BY <2>4 DEF Shape
<1>2. CASE r.op \notin OneFile \cup TwoFiles
  BY <1>2 DEF Shape, OneFile, TwoFiles
<1> QED
  BY <1>1, <1>2

-----------------------------------------------------------------------------
(* Sending. *)

(* What With and Both do to the objects. *)
Fetched(p, q, files) ==
  /\ files \in [Paths -> File]
  /\ \A u \in Paths :
       /\ Grown(objects[u], files[u]) /\ files[u].listed = objects[u].listed
       /\ objects[u].cached # 0 \/ u \notin {p, q} => files[u] = objects[u]
       /\ objects[u].cached = 0 /\ files[u].cached # 0 =>
            files[u].texts[files[u].cached] = Unknown

LEMMA FetchedNone ==
  ASSUME TypeOK, NEW p \in Paths, NEW q \in Paths
  PROVE  Fetched(p, q, objects)
BY FileType DEF Fetched, TypeOK, Grown

LEMMA FetchedOne ==
  ASSUME TypeOK, NEW p \in Paths
  PROVE  Fetched(p, p, With(p)) /\ With(p)[p].cached \in 1 .. Len(With(p)[p].texts)
<1> DEFINE w == With(p)
<1>1. /\ \A u \in Paths : w[u] = IF u = p THEN Got(objects[p]) ELSE objects[u]
      /\ w = [u \in Paths |-> w[u]]
  BY DEF With, TypeOK
<1>2. \A u \in Paths : FileOK(objects[u]) /\ Grown(objects[u], objects[u])
  BY FileType DEF TypeOK, Grown
<1> HIDE DEF w
<1>3. w \in [Paths -> File]
  BY <1>1, <1>2, GotFile DEF Grown, FileOK
<1>4. Fetched(p, p, w) /\ w[p].cached \in 1 .. Len(w[p].texts)
  BY <1>1, <1>2, <1>3, GotFile DEF Fetched
<1> QED
  BY <1>4 DEF w

LEMMA FetchedTwo ==
  ASSUME TypeOK, NEW p \in Paths, NEW q \in Paths, p # q
  PROVE  Fetched(p, q, Both(p, q)) /\ Both(p, q)[p].cached \in 1 .. Len(Both(p, q)[p].texts)
<1> DEFINE w == Both(p, q)
<1>1. /\ \A u \in Paths : w[u] = IF u \in {p, q} THEN Got(objects[u]) ELSE objects[u]
      /\ w = [u \in Paths |-> w[u]]
  BY DEF Both, TypeOK
<1>2. \A u \in Paths : FileOK(objects[u]) /\ Grown(objects[u], objects[u])
  BY FileType DEF TypeOK, Grown
<1> HIDE DEF w
<1>3. w \in [Paths -> File]
  BY <1>1, <1>2, GotFile DEF Grown, FileOK
<1>4. Fetched(p, q, w) /\ w[p].cached \in 1 .. Len(w[p].texts)
  BY <1>1, <1>2, <1>3, GotFile DEF Fetched
<1> QED
  BY <1>4 DEF w

(* What a request that does not alter a path expects is kept, if the texts   *)
(* of its objects are or now agree with the disk.                            *)
LEMMA ReadersKept ==
  ASSUME TypeOK, NEW t \in Slots, Shape(t), NEW p \in Paths,
         p \in Touched(t), p \notin Altered(t), Expected(t, p),
         requests'[t] = requests[t], disk'[p] = disk[p],
         \A n \in 1 .. Len(objects[p].texts) : Says(p, n) => Says(p, n)'
  PROVE  Expected(t, p)'
<1> DEFINE r == requests[t]
<1>1. \/ r.op \in {"readAsText", "load"} /\ p = r.path
      \/ r.op = "contents"
      \/ r.op = "copy" /\ p = r.path /\ p # r.to
  BY Kinds DEF OneFile, TwoFiles
<1>2. r.op # "contents" => r.object \in 1 .. Len(objects[p].texts)
  BY <1>1 DEF Shape, OneFile, TwoFiles
<1>3. r.op # "contents" => Says(p, r.object)
  BY <1>1 DEF Expected
<1>4. r.op # "contents" => Says(p, r.object)'
  BY <1>2, <1>3
<1>5. CASE r.op = "readAsText"
  BY <1>4, <1>5 DEF Expected
<1>6. CASE r.op = "load"
  BY <1>4, <1>6 DEF Expected
<1>7. CASE r.op = "contents"
  BY <1>7 DEF Expected
<1>8. CASE r.op = "copy" /\ p # r.to
  BY <1>4, <1>8 DEF Expected
<1> QED
  BY <1>1, <1>5, <1>6, <1>7, <1>8

LEMMA SendKeeps ==
  ASSUME IInv, NEW s \in Slots, NEW op \in Ops, NEW path \in Paths \cup {None},
         NEW to \in Paths \cup {None}, NEW value \in Values \cup {None}, NEW files,
         op = "contents" => files = objects,
         op \in OneFile => path \in Paths /\ to = path,
         op \in TwoFiles => path \in Paths /\ to \in Paths /\ to # path,
         op \in {"writeAsText", "writeAsBinary"} => value \in Values,
         op # "contents" => Fetched(path, to, files),
         op \in (OneFile \cup TwoFiles) \ {"createFile"} =>
           files[path].cached \in 1 .. Len(files[path].texts),
         Send(s, op, path, to, value, files)
  PROVE  IInv'
<1> DEFINE r == requests'[s]
<1> USE DEF IInv
<1>1. /\ op \in OneFile \cup TwoFiles \cup {"contents"} /\ op # None
      /\ requests[s].op = None /\ objects' = files /\ disk' = disk /\ known' = known
      /\ doubtful' = doubtful \cup Overlaps(op, path, to)
  BY DEF Send, Ops, Changes, OneFile, TwoFiles, None
<1>2. /\ requests' \in [Slots -> Request]
      /\ \A t \in Slots \ {s} : requests'[t] = requests[t]
      /\ r.op = op /\ r.path = path /\ r.to = to /\ r.value = value
      /\ r.object = (IF op = "contents" THEN 0 ELSE files[path].cached)
      /\ r.live = (op = "contents") /\ r.executed = FALSE /\ r.done = FALSE
  <2> DEFINE object == IF op = "contents" THEN 0 ELSE files[path].cached
             new == [op |-> op, path |-> path, to |-> to, value |-> value, object |-> object,
                     live |-> op = "contents", executed |-> FALSE, done |-> FALSE,
                     reply |-> Nothing]
  <2>1. object \in Nat
    BY <1>1 DEF Fetched, File, OneFile, TwoFiles
  <2>2. new \in Request
    BY <2>1 DEF Request, Nothing
  <2> HIDE DEF object
  <2>3. requests' = [requests EXCEPT ![s] = new]
    BY Zenon DEF Send, object
  <2> QED
    BY <2>2, <2>3 DEF TypeOK, object
<1>3. /\ files \in [Paths -> File]
      /\ \A u \in Paths :
           /\ Grown(objects[u], files[u]) /\ files[u].listed = objects[u].listed
           /\ objects[u].cached # 0 => files[u] = objects[u]
           /\ objects[u].cached = 0 /\ files[u].cached # 0 =>
                files[u].texts[files[u].cached] = Unknown
  <2>1. CASE op = "contents"
    <3>1. \A u \in Paths : Grown(objects[u], objects[u])
      BY FileType DEF TypeOK, Grown
    <3> QED
      BY <2>1, <3>1 DEF TypeOK
  <2>2. CASE op # "contents"
    BY <2>2 DEF Fetched
  <2> QED
    BY <2>1, <2>2
<1>4. TypeOK'
  <2>1. sent' \in 0 .. MaxRequests
    BY BoundAssumption DEF Send, TypeOK
  <2> QED
    BY <1>1, <1>2, <1>3, <2>1 DEF TypeOK, Grown, Overlaps
<1>5. \A u \in Paths : Len(objects[u].texts) <= Len(objects'[u].texts)
  BY <1>1, <1>3 DEF Grown
<1>6. \A t \in Slots : Shape(t)'
  <2>1. \A t \in Slots \ {s} : Shape(t)'
    BY <1>2, <1>4, <1>5, OtherShape
  <2>2. Shape(s)'
    BY <1>1, <1>2 DEF Shape, OneFile, TwoFiles
  <2> QED
    BY <2>1, <2>2
<1>7. /\ \A t \in Slots \ {s} : Touched(t)' = Touched(t) /\ Altered(t)' = Altered(t)
      /\ Touched(s)' = Touches(op, path, to) /\ Altered(s)' = Alters(op, path, to)
      /\ Touched(s) = {} /\ Altered(s) = {}
  BY <1>1, <1>2, Kinds DEF Touched, Altered
<1>8. \A t \in Slots : Carries(t)'
  <2>1. Carries(s)'
    BY <1>2 DEF Carries
  <2>2. ASSUME NEW t \in Slots \ {s}
        PROVE  Carries(t)'
    <3> DEFINE q == requests[t]
    <3>1. requests'[t] = q /\ Carries(t)
      BY <1>2
    <3>2. CASE q.op = "move"
      <4>1. q.path \in Paths /\ q.object \in 1 .. Len(objects[q.path].texts)
        BY <3>2 DEF Shape, OneFile, TwoFiles
      <4>2. objects'[q.path].texts[q.object] = objects[q.path].texts[q.object]
        BY <4>1, <1>1, <1>3 DEF Grown
      <4> QED
        BY <3>1, <4>2, <1>1 DEF Carries
    <3>3. CASE q.op # "move"
      BY <3>1, <3>3, <1>1 DEF Carries
    <3> QED
      BY <3>2, <3>3
  <2> QED
    BY <2>1, <2>2
<1>9. ASSUME NEW p \in Paths \ doubtful'
      PROVE  Good(p)'
  <2>1. p \notin doubtful /\ Good(p)
    BY <1>1
  <2>2. \A t \in Slots : /\ ~(p \in Touched(s)' /\ p \in Altered(t))
                         /\ ~(p \in Altered(s)' /\ p \in Touched(t))
    BY <1>1, <1>7 DEF Overlaps
  <2>3. CASE p \notin Touched(s)'
    <3>1. objects'[p] = objects[p]
      BY <2>3, <1>1, <1>7 DEF Fetched, Touches, OneFile, TwoFiles
    <3>2. p \notin Altered(s)'
      <4>1. Alters(op, path, to) \subseteq Touches(op, path, to)
        BY <1>1 DEF Touches, Alters, Changes, OneFile, TwoFiles
      <4> QED
        BY <2>3, <1>7, <4>1
    <3> QED
      BY <2>1, <2>3, <3>1, <3>2, <1>1, <1>2, <1>7, Elsewhere
  <2>4. CASE p \in Touched(s)'
    <3>1. TextAgrees(p) /\ ListingAgrees(p) /\ Listed(p) /\ Alone(p)
      BY <2>1, <2>2, <2>4 DEF Good, Steady
    <3>2. Listed(p)'
      BY <3>1, <1>1, <1>3 DEF Listed
    <3>3. TextAgrees(p)'
      BY <3>1, <1>1, <1>3 DEF TextAgrees
    <3>4. ListingAgrees(p)'
      BY <3>1, <1>1, <1>3 DEF ListingAgrees
    <3>5. Alone(p)'
      BY <3>1, <2>2, <1>7 DEF Alone
    <3>6. \A n \in 1 .. Len(objects[p].texts) : Says(p, n) => Says(p, n)'
      BY <1>1, <1>3 DEF Says, Grown
    <3>7. \A t \in Slots \ {s} : p \in Touched(t)' => Expected(t, p)'
      BY <2>1, <2>2, <2>4, <3>6, <1>1, <1>2, <1>7, ReadersKept DEF Good
    <3>8. Expected(s, p)'
      <4>1. files[p].cached # 0 => Says(p, files[p].cached)'
        BY <3>3, <1>1 DEF TextAgrees, Says
      <4>2. /\ r.executed = FALSE /\ r.done = FALSE
            /\ p = r.path /\ op \in (OneFile \cup TwoFiles) \ {"createFile"} =>
                 r.object = files[p].cached /\ files[p].cached # 0
            /\ op \in OneFile => p = r.path
        BY <1>1, <1>2, <1>7, <2>4 DEF Touches, OneFile, TwoFiles
      <4>3. r.op = op
        BY <1>2
      <4> PICK n : n = files[p].cached
        OBVIOUS
      <4> HIDE DEF r
      <4>4. CASE op \in OneFile \ {"createFile", "remove"}
        <5>1. p = r.path /\ r.object = n /\ Says(p, n)'
          BY <4>1, <4>2, <4>4 DEF OneFile
        <5>2. Held(s, p)'
          BY <5>1, <1>1 DEF Held, r
        <5> QED
          BY <4>2, <4>3, <4>4, <5>1, <5>2 DEF Expected, OneFile, r
      <4>5. CASE op \in {"copy", "move"}
        <5>1. p = r.path => r.object = n /\ Says(p, n)'
          BY <4>1, <4>2, <4>5 DEF TwoFiles
        <5> QED
          BY <4>2, <4>3, <4>5, <5>1 DEF Expected, r
      <4>6. CASE op \in {"createFile", "remove", "rename", "contents"}
        BY <4>2, <4>3, <4>6 DEF Expected, r
      <4> QED
        BY <4>4, <4>5, <4>6, <1>1 DEF OneFile, TwoFiles
    <3> QED
      BY <3>2, <3>3, <3>4, <3>5, <3>7, <3>8 DEF Good
  <2> QED
    BY <2>3, <2>4
<1> QED
  BY <1>4, <1>6, <1>8, <1>9


-----------------------------------------------------------------------------
(* The server's side, and requests that fail. *)

LEMMA ExecutedSlot ==
  ASSUME NEW r \in Request, NEW e, NEW d, NEW y
  PROVE  [r EXCEPT !.executed = e, !.done = d, !.reply = y] =
         [op |-> r.op, path |-> r.path, to |-> r.to, value |-> r.value, object |-> r.object,
          live |-> r.live, executed |-> e, done |-> d, reply |-> y]
<1> DEFINE a == [r EXCEPT !.executed = e]
           b == [a EXCEPT !.done = d]
<1>1. a = [op |-> r.op, path |-> r.path, to |-> r.to, value |-> r.value, object |-> r.object,
           live |-> r.live, executed |-> e, done |-> r.done, reply |-> r.reply]
  BY DEF Request
<1>2. b = [op |-> r.op, path |-> r.path, to |-> r.to, value |-> r.value, object |-> r.object,
           live |-> r.live, executed |-> e, done |-> d, reply |-> r.reply]
  <2> HIDE DEF a
  <2> QED
    BY <1>1
<1>3. [b EXCEPT !.reply = y] =
        [op |-> r.op, path |-> r.path, to |-> r.to, value |-> r.value, object |-> r.object,
         live |-> r.live, executed |-> e, done |-> d, reply |-> y]
  <2> HIDE DEF b
  <2> QED
    BY <1>2
<1>4. [r EXCEPT !.executed = e, !.done = d, !.reply = y] = [b EXCEPT !.reply = y]
  BY Zenon
<1> QED
  BY <1>3, <1>4, Zenon

LEMMA ExecuteKeeps ==
  ASSUME IInv, NEW s \in Slots, Execute(s)
  PROVE  IInv'
<1> DEFINE r == requests[s]
           n == requests'[s]
<1> USE DEF IInv
<1>1. /\ r.op # None /\ ~r.done /\ Accepts(r) /\ disk' = After(r)
      /\ objects' = objects /\ known' = known /\ doubtful' = doubtful /\ sent' = sent
  BY DEF Execute
<1>2. r \in Request /\ Shape(s)
  BY DEF TypeOK
<1>3. /\ requests' \in [Slots -> Request]
      /\ \A t \in Slots \ {s} : requests'[t] = requests[t]
      /\ n.op = r.op /\ n.path = r.path /\ n.to = r.to /\ n.value = r.value
      /\ n.object = r.object /\ n.live = r.live /\ n.executed = TRUE /\ n.done = TRUE
      /\ r.op = "contents" => n.reply = disk
      /\ r.op = "readAsText" => n.reply[r.path] = disk[r.path]
  <2> DEFINE y == CASE r.op = "contents"   -> disk
                    [] r.op = "readAsText" -> [Nothing EXCEPT ![r.path] = disk[r.path]]
                    [] OTHER               -> Nothing
             new == [op |-> r.op, path |-> r.path, to |-> r.to, value |-> r.value,
                     object |-> r.object, live |-> r.live, executed |-> TRUE, done |-> TRUE,
                     reply |-> y]
  <2>1. requests' = [requests EXCEPT ![s] = [r EXCEPT !.executed = TRUE, !.done = TRUE,
                                                      !.reply = y]]
    BY DEF Execute
  <2>2. requests' = [requests EXCEPT ![s] = new]
    <3>1. [r EXCEPT !.executed = TRUE, !.done = TRUE, !.reply = y] = new
      <4> HIDE DEF y
      <4> QED
        BY <1>2, ExecutedSlot
    <3> QED
      BY <2>1, <3>1
  <2>3. /\ y \in [Paths -> Values \cup {Absent}]
        /\ r.op = "contents" => y = disk
        /\ r.op = "readAsText" => y[r.path] = disk[r.path]
    <3>1. CASE r.op = "contents"
      BY <3>1 DEF TypeOK
    <3>2. CASE r.op = "readAsText"
      BY <1>2, <3>2 DEF TypeOK, Nothing, Shape, OneFile
    <3>3. CASE r.op \notin {"contents", "readAsText"}
      BY <3>3 DEF Nothing
    <3> QED
      BY <3>1, <3>2, <3>3
  <2> HIDE DEF y
  <2>4. new \in Request
    BY <1>2, <2>3 DEF Request
  <2>5. n = new
    BY <2>2 DEF TypeOK
  <2> HIDE DEF n
  <2>6. requests' \in [Slots -> Request] /\ \A t \in Slots \ {s} : requests'[t] = requests[t]
    <3> HIDE DEF new
    <3> QED
      BY <2>2, <2>4 DEF TypeOK
  <2> QED
    BY <2>3, <2>5, <2>6
<1>4. /\ disk' \in [Paths -> Values \cup {Absent}]
      /\ \A p \in Paths \ Altered(s) : disk'[p] = disk[p]
      /\ r.op \in {"writeAsText", "writeAsBinary"} => disk'[r.path] = r.value
      /\ r.op = "createFile" =>
           disk'[r.path] = IF disk[r.path] = Absent THEN Empty ELSE disk[r.path]
      /\ r.op \in {"remove", "rename", "move"} => disk'[r.path] = Absent
      /\ r.op \in TwoFiles => disk'[r.to] = disk[r.path] /\ disk[r.path] # Absent
      /\ r.op \in {"readAsText", "load"} => disk[r.path] # Absent
      /\ r.op = "rename" => disk[r.to] = Absent
  <2>1. disk \in [Paths -> Values \cup {Absent}]
    BY DEF TypeOK
  <2>2. CASE r.op \in {"writeAsText", "writeAsBinary", "createFile", "remove"}
    <3>1. r.path \in Paths /\ Altered(s) = {r.path}
      BY <1>2, <2>2, Kinds DEF OneFile
    <3> QED
      BY <1>1, <1>2, <2>1, <2>2, <3>1, ValuesAssumption DEF After, Shape, TwoFiles
  <2>3. CASE r.op = "copy"
    <3>1. r.path \in Paths /\ r.to \in Paths /\ r.to # r.path /\ Altered(s) = {r.to}
      BY <1>2, <2>3, Kinds DEF TwoFiles
    <3>2. disk' = [disk EXCEPT ![r.to] = disk[r.path]] /\ disk[r.path] # Absent
      BY <1>1, <2>3 DEF After, Accepts
    <3> QED
      BY <2>1, <2>3, <3>1, <3>2
  <2>4. CASE r.op \in {"rename", "move"}
    <3>1. /\ r.path \in Paths /\ r.to \in Paths /\ r.to # r.path
          /\ Altered(s) = {r.path, r.to}
      BY <1>2, <2>4, Kinds DEF TwoFiles
    <3>2. disk' = [disk EXCEPT ![r.to] = disk[r.path], ![r.path] = Absent]
      BY <1>1, <2>4 DEF After
    <3>3. disk[r.path] # Absent /\ (r.op = "rename" => disk[r.to] = Absent)
      BY <1>1, <2>4 DEF Accepts
    <3> QED
      BY <2>1, <2>4, <3>1, <3>2, <3>3
  <2>5. CASE r.op \in {"readAsText", "load", "contents"}
    <3>1. disk' = disk /\ (r.op # "contents" => disk[r.path] # Absent)
      BY <1>1, <2>5 DEF After, Accepts
    <3> QED
      BY <2>1, <2>5, <3>1 DEF TwoFiles
  <2> QED
    BY <1>1, <1>2, <2>2, <2>3, <2>4, <2>5, Kinds DEF OneFile, TwoFiles
<1>5. TypeOK'
  BY <1>1, <1>3, <1>4 DEF TypeOK
<1>6. \A t \in Slots : Touched(t)' = Touched(t) /\ Altered(t)' = Altered(t)
  BY <1>3 DEF Touched, Altered
<1>7. \A t \in Slots : Shape(t)'
  <2>1. \A u \in Paths : Len(objects[u].texts) <= Len(objects'[u].texts)
    BY <1>1, FileType DEF TypeOK
  <2>2. \A t \in Slots \ {s} : Shape(t)'
    BY <1>3, <1>5, <2>1, OtherShape
  <2>3. Shape(s)'
    BY <1>1, <1>2, <1>3, <1>4 DEF Shape
  <2> QED
    BY <2>2, <2>3
<1>8. \A t \in Slots : Carries(t)'
  <2>1. ASSUME NEW t \in Slots \ {s}
        PROVE  Carries(t)'
    <3> DEFINE q == requests[t]
    <3>1. requests'[t] = q /\ Carries(t) /\ Shape(t)
      BY <1>3
    <3>2. ASSUME q.op \in {"copy", "move"}, q.path \notin doubtful, q.to \notin doubtful
          PROVE  disk'[q.to] = disk[q.to] /\ (q.op = "copy" => disk'[q.path] = disk[q.path])
      <4>1. /\ q.path \in Paths /\ q.to \in Paths /\ Touched(t) = {q.path, q.to}
            /\ q.to \in Altered(t)
        BY <3>1, <3>2, Kinds DEF TwoFiles
      <4>2. Alone(q.path) /\ Alone(q.to)
        BY <3>2, <4>1 DEF Good
      <4>3. q.path \notin Altered(s) /\ q.to \notin Altered(s)
        BY <4>1, <4>2 DEF Alone
      <4> QED
        BY <4>1, <4>3, <1>4
    <3> QED
      BY <3>1, <3>2, <1>1 DEF Carries
  <2>2. Carries(s)'
    <3>1. CASE r.op = "move" /\ r.path \notin doubtful
      <4>1. r.path \in Paths /\ r.path \in Touched(s) /\ r.to # r.path
        BY <1>2, <3>1, Kinds DEF TwoFiles
      <4>2. Expected(s, r.path)
        BY <3>1, <4>1 DEF Good
      <4>3. disk[r.path] # Absent /\ disk'[r.to] = disk[r.path]
        BY <1>4, <3>1 DEF TwoFiles
      <4>4. objects[r.path].texts[r.object] \in {Unknown, disk[r.path]}
        BY <3>1, <4>2, <4>3 DEF Expected, Says
      <4> QED
        BY <1>1, <1>3, <3>1, <4>3, <4>4 DEF Carries
    <3>2. CASE r.op = "copy"
      <4>1. r.path \in Paths /\ r.path \notin Altered(s)
        BY <1>2, <3>2, Kinds DEF TwoFiles
      <4>2. disk'[r.to] = disk[r.path] /\ disk'[r.path] = disk[r.path]
        BY <1>4, <3>2, <4>1 DEF TwoFiles
      <4> QED
        BY <1>3, <3>2, <4>2 DEF Carries
    <3>3. CASE r.op \notin {"copy", "move"} \/ r.path \in doubtful
      BY <1>1, <1>3, <3>3 DEF Carries
    <3> QED
      BY <3>1, <3>2, <3>3
  <2> QED
    BY <2>1, <2>2
<1>9. ASSUME NEW p \in Paths \ doubtful'
      PROVE  Good(p)'
  <2>1. p \in Paths /\ p \notin doubtful /\ Good(p)
    BY <1>1
  <2>2. Alone(p)' /\ Listed(p)'
    BY <2>1, <1>1, <1>6 DEF Good, Alone, Listed
  <2>3. CASE p \notin Touched(s)
    <3>1. p \notin Altered(s)
      BY <2>3, <1>2, Kinds
    <3> QED
      BY <2>1, <2>3, <3>1, <1>1, <1>3, <1>4, <1>6, Elsewhere
  <2>4. CASE p \in Touched(s) /\ p \notin Altered(s)
    <3>1. disk'[p] = disk[p]
      BY <2>1, <2>4, <1>4
    <3>2. (Steady(p) => TextAgrees(p) /\ ListingAgrees(p))'
      <4>1. Steady(p)' => Steady(p)
        BY <2>4, <1>3, <1>6 DEF Steady
      <4> QED
        BY <4>1, <3>1, <2>1, <1>1 DEF Good, TextAgrees, ListingAgrees
    <3>3. \A t \in Slots \ {s} : p \in Touched(t)' => Expected(t, p)'
      BY <2>1, <3>1, <1>1, <1>3, <1>6 DEF Good, Expected, Says, Held, TextAgrees
    <3>4. Expected(s, p)'
      <4>1. Expected(s, p) /\ disk[p] \in Values \cup {Absent}
        BY <2>1, <2>4 DEF Good, TypeOK
      <4>2. CASE r.op \in {"readAsText", "load"}
        <5>1. p = r.path
          BY <2>4, <4>2, <1>2, Kinds DEF OneFile
        <5> QED
          BY <4>1, <4>2, <5>1, <3>1, <1>1, <1>3, <1>4 DEF Expected, Says
      <4>3. CASE r.op = "contents"
        BY <4>3, <3>1, <1>3 DEF Expected
      <4>4. CASE r.op = "copy" /\ p = r.path /\ p # r.to
        BY <4>1, <4>4, <3>1, <1>1, <1>3 DEF Expected, Says
      <4> QED
        BY <4>2, <4>3, <4>4, <2>4, <1>2, Kinds DEF OneFile, TwoFiles
    <3> QED
      BY <2>2, <3>2, <3>3, <3>4 DEF Good
  <2>5. CASE p \in Altered(s)
    <3>1. p \in Touched(s) /\ \A t \in Slots \ {s} : p \notin Touched(t)
      BY <2>1, <2>5, <1>2, Kinds DEF Good, Alone
    <3>2. ~Steady(p)'
      BY <2>5, <1>3, <1>6 DEF Steady
    <3>3. Expected(s, p)
      BY <2>1, <3>1 DEF Good
    <3>4. ~r.executed => TextAgrees(p) /\ ListingAgrees(p)
      <4>1. \A t \in Slots \ {s} : p \notin Altered(t)
        BY <3>1, Kinds
      <4> QED
        BY <2>1, <4>1 DEF Good, Steady
    <3>5. disk[p] = Absent /\ TextAgrees(p) /\ objects[p].cached # 0 =>
            objects[p].texts[objects[p].cached] = Unknown
      <4>1. FileOK(objects[p])
        BY <2>1 DEF TypeOK
      <4>2. objects[p].cached # 0 =>
              objects[p].texts[objects[p].cached] \in Values \cup {Unknown}
        BY <4>1, FileType
      <4> QED
        BY <4>2, ValuesAssumption DEF TextAgrees
    <3>6. Expected(s, p)'
      <4>1. CASE r.op \in {"writeAsText", "writeAsBinary"}
        <5>1. p = r.path /\ r.value \in Values
          BY <2>5, <4>1, <1>2, Kinds DEF OneFile, Shape
        <5>2. disk'[p] = r.value /\ disk'[p] # Absent
          BY <4>1, <5>1, <1>4, ValuesAssumption
        <5> QED
          BY <3>3, <4>1, <5>2, <1>1, <1>3 DEF Expected, Held
      <4>2. CASE r.op = "createFile"
        <5>1. p = r.path
          BY <2>5, <4>2, <1>2, Kinds DEF OneFile
        <5>2. TextAgrees(p)
          BY <3>3, <3>4, <4>2 DEF Expected
        <5>3. disk'[p] = IF disk[p] = Absent THEN Empty ELSE disk[p]
          BY <4>2, <5>1, <1>4
        <5>4. disk'[p] # Absent /\ TextAgrees(p)'
          BY <3>5, <5>2, <5>3, <1>1, ValuesAssumption DEF TextAgrees
        <5> QED
          BY <4>2, <5>4, <1>3 DEF Expected
      <4>3. CASE r.op = "remove"
        <5>1. p = r.path
          BY <2>5, <4>3, <1>2, Kinds DEF OneFile
        <5> QED
          BY <4>3, <5>1, <1>3, <1>4 DEF Expected
      <4>4. CASE r.op \in {"rename", "move"} /\ p = r.path
        <5>1. p # r.to
          BY <4>4, <1>2, Kinds DEF TwoFiles
        <5> QED
          BY <4>4, <5>1, <1>3, <1>4 DEF Expected
      <4>5. CASE r.op = "rename" /\ p = r.to
        <5>1. p # r.path
          BY <4>5, <1>2, Kinds DEF TwoFiles
        <5>2. disk[p] = Absent /\ disk'[p] # Absent
          BY <4>5, <1>4 DEF TwoFiles
        <5>3. ~r.executed
          BY <3>3, <4>5, <5>2 DEF Expected
        <5>4. objects[p].cached # 0 => objects[p].texts[objects[p].cached] = Unknown
          BY <3>4, <3>5, <5>2, <5>3
        <5> QED
          BY <4>5, <5>1, <5>2, <5>4, <1>1, <1>3 DEF Expected
      <4>6. CASE r.op \in {"copy", "move"} /\ p = r.to
        <5>1. p # r.path
          BY <4>6, <1>2, Kinds DEF TwoFiles
        <5>2. disk'[p] # Absent
          BY <4>6, <1>4 DEF TwoFiles
        <5> QED
          BY <4>6, <5>1, <5>2, <1>3 DEF Expected
      <4> QED
        BY <4>1, <4>2, <4>3, <4>4, <4>5, <4>6, <2>5, <1>2, Kinds DEF OneFile, TwoFiles
    <3> QED
      BY <2>2, <3>1, <3>2, <3>6, <1>6 DEF Good
  <2> QED
    BY <2>3, <2>4, <2>5
<1> QED
  BY <1>5, <1>7, <1>8, <1>9

LEMMA RepeatedSlot ==
  ASSUME NEW r \in Request, NEW d, NEW y
  PROVE  [r EXCEPT !.done = d, !.reply = y] =
         [op |-> r.op, path |-> r.path, to |-> r.to, value |-> r.value, object |-> r.object,
          live |-> r.live, executed |-> r.executed, done |-> d, reply |-> y]
<1> DEFINE a == [r EXCEPT !.done = d]
<1>1. a = [op |-> r.op, path |-> r.path, to |-> r.to, value |-> r.value, object |-> r.object,
           live |-> r.live, executed |-> r.executed, done |-> d, reply |-> r.reply]
  BY DEF Request
<1>2. [a EXCEPT !.reply = y] =
        [op |-> r.op, path |-> r.path, to |-> r.to, value |-> r.value, object |-> r.object,
         live |-> r.live, executed |-> r.executed, done |-> d, reply |-> y]
  <2> HIDE DEF a
  <2> QED
    BY <1>1
<1>3. [r EXCEPT !.done = d, !.reply = y] = [a EXCEPT !.reply = y]
  BY Zenon
<1> QED
  BY <1>2, <1>3, Zenon

LEMMA RepeatKeeps ==
  ASSUME IInv, NEW s \in Slots, Repeat(s)
  PROVE  IInv'
<1> DEFINE r == requests[s]
           n == requests'[s]
<1> USE DEF IInv
<1>1. /\ r.done /\ disk' = disk /\ objects' = objects /\ known' = known
      /\ doubtful' = doubtful /\ sent' = sent
      /\ requests' = [requests EXCEPT ![s] = [r EXCEPT !.done = FALSE, !.reply = Nothing]]
  BY DEF Repeat
<1>2. r \in Request /\ Shape(s)
  BY DEF TypeOK
<1>3. /\ requests' \in [Slots -> Request]
      /\ \A t \in Slots \ {s} : requests'[t] = requests[t]
      /\ n.op = r.op /\ n.path = r.path /\ n.to = r.to /\ n.value = r.value
      /\ n.object = r.object /\ n.live = r.live /\ n.executed = r.executed /\ n.done = FALSE
  <2> DEFINE new == [op |-> r.op, path |-> r.path, to |-> r.to, value |-> r.value,
                     object |-> r.object, live |-> r.live, executed |-> r.executed,
                     done |-> FALSE, reply |-> Nothing]
  <2>1. [r EXCEPT !.done = FALSE, !.reply = Nothing] = new
    BY <1>2, RepeatedSlot
  <2>4. requests' = [requests EXCEPT ![s] = new]
    BY <1>1, <2>1, Zenon
  <2>5. new \in Request
    BY <1>2 DEF Request, Nothing
  <2> QED
    BY <2>4, <2>5 DEF TypeOK
<1>4. TypeOK'
  BY <1>1, <1>3 DEF TypeOK
<1>5. \A t \in Slots : Touched(t)' = Touched(t) /\ Altered(t)' = Altered(t)
  BY <1>3 DEF Touched, Altered
<1>6. \A t \in Slots : Shape(t)' /\ Carries(t)'
  <2>1. \A t \in Slots : Carries(t)'
    BY <1>1, <1>3 DEF Carries
  <2>2. \A t \in Slots \ {s} : Shape(t)'
    BY <1>1, <1>3 DEF Shape
  <2>3. Shape(s)'
    BY <1>1, <1>2, <1>3 DEF Shape
  <2> QED
    BY <2>1, <2>2, <2>3
<1>7. ASSUME NEW p \in Paths \ doubtful'
      PROVE  Good(p)'
  <2>1. Good(p)
    BY <1>1
  <2>2. (Alone(p) /\ Listed(p) /\ (Steady(p) => TextAgrees(p) /\ ListingAgrees(p)))'
    BY <2>1, <1>1, <1>3, <1>5 DEF Good, Alone, Listed, Steady, TextAgrees, ListingAgrees
  <2>3. ASSUME NEW t \in Slots, p \in Touched(t)'
        PROVE  Expected(t, p)'
    <3>1. Expected(t, p)
      BY <2>1, <2>3, <1>5 DEF Good
    <3>2. CASE t # s
      BY <3>1, <3>2, <1>1, <1>3 DEF Expected, Says, Held, TextAgrees
    <3>3. CASE t = s
      BY <3>1, <3>3, <1>1, <1>3 DEF Expected, Says, Held, TextAgrees
    <3> QED
      BY <3>2, <3>3
  <2> QED
    BY <2>2, <2>3 DEF Good
<1> QED
  BY <1>4, <1>6, <1>7

LEMMA FreeSlot ==
  ASSUME TypeOK, NEW s \in Slots, requests' = [requests EXCEPT ![s] = Free]
  PROVE  /\ requests' \in [Slots -> Request] /\ requests'[s] = Free
         /\ \A t \in Slots \ {s} : requests'[t] = requests[t]
         /\ Shape(s)' /\ Carries(s)' /\ Touched(s)' = {} /\ Altered(s)' = {}
         /\ \A t \in Slots \ {s} : Touched(t)' = Touched(t) /\ Altered(t)' = Altered(t)
<1>1. Free \in Request
  BY DEF Free, Request, Nothing
<1>2. /\ requests' \in [Slots -> Request] /\ requests'[s] = Free
      /\ \A t \in Slots \ {s} : requests'[t] = requests[t]
  BY <1>1 DEF TypeOK
<1>3. /\ Free.op = None /\ ~Free.executed /\ ~Free.done /\ ~Free.live
  BY DEF Free
<1>4. Shape(s)' /\ Carries(s)'
  BY <1>2, <1>3 DEF Shape, Carries, OneFile, TwoFiles, None
<1>5. Touched(s)' = {} /\ Altered(s)' = {}
  BY <1>2, <1>3 DEF Touched, Altered, Touches, Alters, Changes, None
<1> QED
  BY <1>2, <1>4, <1>5 DEF Touched, Altered

LEMMA FailKeeps ==
  ASSUME IInv, NEW s \in Slots, Fail(s)
  PROVE  IInv'
<1> USE DEF IInv
<1>1. /\ disk' = disk /\ objects' = objects /\ known' = known /\ sent' = sent
      /\ requests' = [requests EXCEPT ![s] = Free]
      /\ doubtful' = IF requests[s].executed THEN doubtful \cup Altered(s) ELSE doubtful
  BY DEF Fail
<1>2. TypeOK'
  <2>1. Altered(s) \subseteq Paths
    BY Kinds
  <2> QED
    BY <1>1, <2>1, FreeSlot DEF TypeOK
<1>3. \A t \in Slots \ {s} : Shape(t)' /\ Carries(t)'
  BY <1>1, FreeSlot DEF Shape, Carries
<1>4. ASSUME NEW p \in Paths \ doubtful'
      PROVE  Good(p)'
  <2>1. Good(p)
    BY <1>1
  <2>2. CASE p \notin Altered(s)
    <3>1. p \notin Touched(s)' /\ p \notin Altered(s)'
      BY <1>1, FreeSlot
    <3> QED
      BY <2>1, <2>2, <3>1, <1>1, FreeSlot, Elsewhere
  <2>3. CASE p \in Altered(s)
    <3>1. ~requests[s].executed /\ \A t \in Slots \ {s} : p \notin Touched(t) /\ p \notin Altered(t)
      BY <2>1, <2>3, <1>1, Kinds DEF Good, Alone
    <3>2. TextAgrees(p) /\ ListingAgrees(p) /\ Listed(p)
      BY <2>1, <3>1 DEF Good, Steady
    <3>3. \A t \in Slots : p \notin Touched(t)' /\ p \notin Altered(t)'
      <4>1. p \notin Touched(s)' /\ p \notin Altered(s)'
        BY <1>1, FreeSlot
      <4>2. \A t \in Slots \ {s} : p \notin Touched(t)' /\ p \notin Altered(t)'
        BY <3>1, <1>1, FreeSlot
      <4> QED
        BY <4>1, <4>2
    <3> QED
      BY <3>2, <3>3, <1>1 DEF Good, Alone, Listed, Steady, TextAgrees, ListingAgrees
  <2> QED
    BY <2>2, <2>3
<1> QED
  BY <1>1, <1>2, <1>3, <1>4, FreeSlot

-----------------------------------------------------------------------------
(* Answers. *)

(* An answer keeps the invariant if it makes its own paths agree with the    *)
(* disk: those it has altered are nobody else's, and those it has only read  *)
(* are altered by nobody.                                                    *)
LEMMA AnswerKeeps ==
  ASSUME IInv, NEW s \in Slots, requests[s].op # None,
         NEW files \in [Paths -> File], NEW doubts \in SUBSET Paths,
         Answer(s, files, doubts), known' \in BOOLEAN,
         \A u \in Paths : FileOK(files[u]) /\ Len(objects[u].texts) <= Len(files[u].texts),
         \A u \in Paths \ Touched(s) : files[u] = objects[u] /\ known' = known,
         \A p \in Paths : p \in Touched(s) \ (doubtful \cup doubts) =>
           (Listed(p) /\ TextAgrees(p) /\ ListingAgrees(p))',
         \A p \in Paths : p \in Touched(s) \ (Altered(s) \cup doubtful \cup doubts) =>
           \A n \in 1 .. Len(objects[p].texts) : Says(p, n) => Says(p, n)'
  PROVE  IInv'
<1> USE DEF IInv
<1>1. /\ disk' = disk /\ objects' = files /\ sent' = sent
      /\ requests' = [requests EXCEPT ![s] = Free]
      /\ doubtful' = doubtful \cup doubts
  BY DEF Answer
<1>2. TypeOK'
  BY <1>1, FreeSlot DEF TypeOK
<1>3. \A t \in Slots \ {s} : Shape(t)'
  BY <1>1, <1>2, FreeSlot, OtherShape
<1>4. ASSUME NEW t \in Slots \ {s}
      PROVE  Carries(t)'
  <2> DEFINE q == requests[t]
  <2>1. requests'[t] = q /\ Carries(t) /\ Shape(t)
    BY <1>1, FreeSlot
  <2>2. CASE q.op = "move" /\ q.path \notin doubtful'
    <3>1. q.path \in Paths /\ q.path \in Altered(t) /\ q.path \in Touched(t)
      BY <2>1, <2>2, Kinds DEF TwoFiles
    <3>2. Alone(q.path)
      BY <2>2, <3>1, <1>1 DEF Good
    <3>3. q.path \notin Touched(s)
      BY <3>1, <3>2 DEF Alone
    <3>4. objects'[q.path] = objects[q.path]
      BY <3>1, <3>3, <1>1
    <3> QED
      BY <2>1, <2>2, <3>4, <1>1 DEF Carries
  <2>3. CASE q.op # "move" \/ q.path \in doubtful'
    BY <2>1, <2>3, <1>1 DEF Carries
  <2> QED
    BY <2>2, <2>3
<1>5. ASSUME NEW p \in Paths \ doubtful'
      PROVE  Good(p)'
  <2>1. Good(p) /\ p \notin doubtful /\ p \notin doubts
    BY <1>1
  <2>2. p \notin Touched(s)' /\ p \notin Altered(s)'
    BY <1>1, FreeSlot
  <2>3. CASE p \notin Touched(s)
    <3>1. p \notin Altered(s)
      BY <2>3, Kinds
    <3> QED
      BY <2>1, <2>2, <2>3, <3>1, <1>1, FreeSlot, Elsewhere
  <2>4. CASE p \in Touched(s)
    <3>1. Alone(p)'
      <4>1. \A t \in Slots : p \in Altered(t)' => p \in Altered(t)
        BY <2>2, <1>1, FreeSlot
      <4>2. \A t \in Slots : p \in Touched(t)' => p \in Touched(t)
        BY <2>2, <1>1, FreeSlot
      <4> QED
        BY <2>1, <4>1, <4>2 DEF Good, Alone
    <3>2. (Listed(p) /\ TextAgrees(p) /\ ListingAgrees(p))'
      BY <2>1, <2>4
    <3>3. ASSUME NEW t \in Slots, p \in Touched(t)'
          PROVE  Expected(t, p)'
      <4>1. t # s /\ requests'[t] = requests[t] /\ p \in Touched(t)
        BY <2>2, <3>3, <1>1, FreeSlot
      <4>2. p \notin Altered(s)
        BY <2>1, <4>1 DEF Good, Alone
      <4>3. p \notin Altered(t)
        BY <2>1, <2>4, <4>1 DEF Good, Alone
      <4>4. Expected(t, p)
        BY <2>1, <4>1 DEF Good
      <4>5. \A n \in 1 .. Len(objects[p].texts) : Says(p, n) => Says(p, n)'
        BY <2>1, <2>4, <4>2
      <4> QED
        BY <4>1, <4>3, <4>4, <4>5, <1>1, ReadersKept
    <3> QED
      BY <3>1, <3>2, <3>3 DEF Good
  <2> QED
    BY <2>3, <2>4
<1> QED
  BY <1>1, <1>2, <1>3, <1>4, <1>5, FreeSlot

(* A path that an answered request alters, or only reads. *)
LEMMA Ready ==
  ASSUME IInv, NEW s \in Slots, NEW p \in Paths \ doubtful, p \in Touched(s)
  PROVE  /\ FileOK(objects[p]) /\ Listed(p) /\ Expected(s, p)
         /\ p \notin Altered(s) => TextAgrees(p) /\ ListingAgrees(p)
<1>1. Good(p) /\ FileOK(objects[p])
  BY DEF IInv, TypeOK
<1>2. p \notin Altered(s) => Steady(p)
  BY <1>1 DEF Good, Alone, Steady
<1> QED
  BY <1>1, <1>2 DEF Good

(* What an answer for one file gives: the objects of its path become g. *)
LEMMA OneAnswer ==
  ASSUME IInv, NEW s \in Slots, requests[s].op \in OneFile, requests[s].done,
         NEW p \in Paths, p = requests[s].path,
         NEW g, NEW doubts \in SUBSET Paths, known' = known,
         Answer(s, [objects EXCEPT ![p] = g], doubts),
         FileOK(g), Len(objects[p].texts) <= Len(g.texts),
         p \notin doubtful \cup doubts =>
           /\ g.listed # 0 => known /\ g.listed = g.cached
           /\ g.cached # 0 => g.texts[g.cached] \in {Unknown, disk[p]}
           /\ known => IF disk[p] = Absent THEN g.listed = 0
                       ELSE g.listed # 0 /\ g.listed = g.cached
           /\ p \notin Altered(s) =>
                \A n \in 1 .. Len(objects[p].texts) :
                  Says(p, n) => g.texts[n] \in {Unknown, disk[p]}
  PROVE  IInv'
<1> DEFINE files == [objects EXCEPT ![p] = g]
<1>1. TypeOK /\ Shape(s) /\ known \in BOOLEAN
  BY DEF IInv, TypeOK
<1>2. /\ requests[s].op # None /\ Touched(s) = {p}
      /\ objects' = files /\ disk' = disk
  BY <1>1, Kinds DEF OneFile, None, Answer
<1>3. /\ files \in [Paths -> File] /\ files[p] = g
      /\ \A u \in Paths \ {p} : files[u] = objects[u]
  BY <1>1, <1>2 DEF TypeOK, FileOK
<1>4. \A u \in Paths : FileOK(files[u]) /\ Len(objects[u].texts) <= Len(files[u].texts)
  BY <1>1, <1>2, <1>3, FileType DEF TypeOK
<1> HIDE DEF files
<1>5. ASSUME p \notin doubtful \cup doubts
      PROVE  (Listed(p) /\ TextAgrees(p) /\ ListingAgrees(p))'
  <2>1. objects'[p] = g
    BY <1>2, <1>3
  <2> QED
    BY <2>1, <1>2, <1>5 DEF Listed, TextAgrees, ListingAgrees
<1>6. ASSUME p \notin doubtful \cup doubts, p \notin Altered(s)
      PROVE  \A n \in 1 .. Len(objects[p].texts) : Says(p, n) => Says(p, n)'
  BY <1>2, <1>3, <1>6 DEF Says
<1>7. Answer(s, files, doubts)
  BY DEF files
<1> QED
  BY <1>1, <1>2, <1>3, <1>4, <1>5, <1>6, <1>7, AnswerKeeps

LEMMA HasReadKeeps ==
  ASSUME IInv, NEW s \in Slots, HasRead(s)
  PROVE  IInv'
<1> DEFINE r == requests[s]
           p == r.path
           f == objects[p]
           g == WithText(f, r.object, r.reply[p])
<1>1. /\ r.op = "readAsText" /\ r.done /\ known' = known
      /\ Answer(s, [objects EXCEPT ![p] = g], {})
  BY DEF HasRead, Due
<1>2. /\ Shape(s) /\ p \in Paths /\ FileOK(f) /\ r.object \in 1 .. Len(f.texts)
      /\ r.reply[p] \in Values \cup {Unknown} /\ Touched(s) = {p} /\ Altered(s) = {}
  BY <1>1, Kinds DEF IInv, TypeOK, Shape, Request, OneFile
<1>3. /\ FileOK(g) /\ Len(g.texts) = Len(f.texts) /\ Len(f.texts) \in Nat
      /\ g.cached = f.cached /\ g.listed = f.listed
      /\ f.cached \in 0 .. Len(f.texts)
      /\ \A n \in 1 .. Len(f.texts) :
           g.texts[n] = IF n = r.object THEN r.reply[p] ELSE f.texts[n]
  BY <1>2, FileType, TextFile
<1>4. ASSUME p \notin doubtful
      PROVE  /\ Listed(p) /\ TextAgrees(p) /\ ListingAgrees(p)
             /\ r.reply[p] = disk[p]
  BY <1>1, <1>2, <1>4, Ready DEF Expected
<1> HIDE DEF g
<1>5. ASSUME p \notin doubtful
      PROVE  /\ g.listed # 0 => known /\ g.listed = g.cached
             /\ g.cached # 0 => g.texts[g.cached] \in {Unknown, disk[p]}
             /\ known => IF disk[p] = Absent THEN g.listed = 0
                         ELSE g.listed # 0 /\ g.listed = g.cached
             /\ \A n \in 1 .. Len(f.texts) :
                  Says(p, n) => g.texts[n] \in {Unknown, disk[p]}
  BY <1>3, <1>4, <1>5 DEF Listed, TextAgrees, ListingAgrees, Says
<1> QED
  BY <1>1, <1>2, <1>3, <1>5, OneAnswer DEF OneFile

LEMMA HasLoadedKeeps ==
  ASSUME IInv, NEW s \in Slots, HasLoaded(s)
  PROVE  IInv'
<1> DEFINE r == requests[s]
           p == r.path
           f == objects[p]
           g == Pushed(f, r.object)
           h == [g EXCEPT !.cached = r.object]
<1>1. /\ r.op = "load" /\ r.done /\ known' = known
      /\ \/ Answer(s, [objects EXCEPT ![p] = g], {})
         \/ g.cached = 0 /\ Answer(s, [objects EXCEPT ![p] = h], {})
  BY DEF HasLoaded, Due
<1>2. /\ Shape(s) /\ p \in Paths /\ FileOK(f) /\ r.object \in 1 .. Len(f.texts)
      /\ Touched(s) = {p} /\ Altered(s) = {}
  BY <1>1, Kinds DEF IInv, TypeOK, Shape, OneFile
<1>3. /\ FileOK(g) /\ g.texts = f.texts /\ g.cached = f.cached
      /\ g.listed = IF known /\ f.listed = 0 THEN r.object ELSE f.listed
      /\ Len(f.texts) \in Nat
  BY <1>2, PushedFile, FileType DEF Grown
<1>4. ASSUME p \notin doubtful
      PROVE  /\ Listed(p) /\ TextAgrees(p) /\ ListingAgrees(p)
             /\ disk[p] # Absent /\ Says(p, r.object)
  BY <1>1, <1>2, <1>4, Ready DEF Expected
<1>5. CASE Answer(s, [objects EXCEPT ![p] = g], {})
  <2> HIDE DEF g
  <2>1. ASSUME p \notin doubtful
        PROVE  /\ g.listed # 0 => known /\ g.listed = g.cached
               /\ g.cached # 0 => g.texts[g.cached] \in {Unknown, disk[p]}
               /\ known => IF disk[p] = Absent THEN g.listed = 0
                           ELSE g.listed # 0 /\ g.listed = g.cached
               /\ \A n \in 1 .. Len(f.texts) :
                    Says(p, n) => g.texts[n] \in {Unknown, disk[p]}
    BY <2>1, <1>3, <1>4 DEF Listed, TextAgrees, ListingAgrees, Says
  <2>2. r.op \in OneFile /\ r.done /\ known' = known /\ Len(f.texts) <= Len(g.texts)
    BY <1>1, <1>3 DEF OneFile
  <2> QED
    BY <2>1, <2>2, <1>2, <1>3, <1>5, OneAnswer
<1>6. CASE g.cached = 0 /\ Answer(s, [objects EXCEPT ![p] = h], {})
  <2> HIDE DEF g
  <2>1. /\ FileOK(h) /\ h.texts = f.texts /\ h.cached = r.object /\ h.listed = g.listed
    <3>1. h = [texts |-> g.texts, cached |-> r.object, listed |-> g.listed]
      BY <1>3, FileType
    <3> QED
      BY <3>1, <1>2, <1>3, FileType DEF FileOK, File
  <2> HIDE DEF h
  <2>2. ASSUME p \notin doubtful
        PROVE  /\ h.listed # 0 => known /\ h.listed = h.cached
               /\ h.cached # 0 => h.texts[h.cached] \in {Unknown, disk[p]}
               /\ known => IF disk[p] = Absent THEN h.listed = 0
                           ELSE h.listed # 0 /\ h.listed = h.cached
               /\ \A n \in 1 .. Len(f.texts) :
                    Says(p, n) => h.texts[n] \in {Unknown, disk[p]}
    BY <2>1, <2>2, <1>3, <1>4, <1>6 DEF Listed, TextAgrees, ListingAgrees, Says
  <2> QED
    BY <2>1, <2>2, <1>1, <1>2, <1>3, <1>6, OneAnswer DEF OneFile
<1> QED
  BY <1>1, <1>5, <1>6

LEMMA HasWrittenTextKeeps ==
  ASSUME IInv, NEW s \in Slots, HasWrittenText(s)
  PROVE  IInv'
<1> DEFINE r == requests[s]
           p == r.path
           f == objects[p]
           w == WithText(f, r.object, r.value)
           g == Pushed(w, r.object)
<1>1. /\ r.op = "writeAsText" /\ r.done /\ known' = known
      /\ Answer(s, [objects EXCEPT ![p] = g], {})
  BY DEF HasWrittenText, Due
<1>2. /\ Shape(s) /\ p \in Paths /\ FileOK(f) /\ r.object \in 1 .. Len(f.texts)
      /\ r.value \in Values /\ r.executed /\ Touched(s) = {p} /\ Altered(s) = {p}
  BY <1>1, Kinds DEF IInv, TypeOK, Shape, OneFile
<1>3. /\ FileOK(w) /\ Len(w.texts) = Len(f.texts) /\ Len(f.texts) \in Nat
      /\ w.cached = f.cached /\ w.listed = f.listed /\ f.cached \in 0 .. Len(f.texts)
      /\ w.texts[r.object] = r.value
  BY <1>2, FileType, TextFile
<1> HIDE DEF w
<1>4. /\ FileOK(g) /\ g.texts = w.texts /\ g.cached = f.cached
      /\ g.listed = IF known /\ f.listed = 0 THEN r.object ELSE f.listed
  BY <1>2, <1>3, PushedFile DEF Grown
<1> HIDE DEF g
<1>5. ASSUME p \notin doubtful
      PROVE  Listed(p) /\ Held(s, p) /\ disk[p] = r.value /\ disk[p] # Absent
  BY <1>1, <1>2, <1>5, Ready, ValuesAssumption DEF Expected
<1>6. ASSUME p \notin doubtful
      PROVE  /\ g.listed # 0 => known /\ g.listed = g.cached
             /\ g.cached # 0 => g.texts[g.cached] \in {Unknown, disk[p]}
             /\ known => g.listed # 0 /\ g.listed = g.cached
  BY <1>2, <1>3, <1>4, <1>5, <1>6 DEF Listed, Held
<1> QED
  <2>1. Len(f.texts) <= Len(g.texts) /\ p \in Altered(s) /\ r.op \in OneFile
    BY <1>1, <1>2, <1>3, <1>4 DEF OneFile
  <2> QED
    BY <2>1, <1>1, <1>2, <1>4, <1>5, <1>6, OneAnswer

LEMMA HasWrittenBinaryKeeps ==
  ASSUME IInv, NEW s \in Slots, HasWrittenBinary(s)
  PROVE  IInv'
<1> DEFINE r == requests[s]
           p == r.path
           f == objects[p]
           g == Pushed(f, r.object)
           doubts == IF Text(r) = Unknown THEN {} ELSE {p}
<1>1. /\ r.op = "writeAsBinary" /\ r.done /\ known' = known
      /\ Answer(s, [objects EXCEPT ![p] = g], doubts)
  BY DEF HasWrittenBinary, Due
<1>2. /\ Shape(s) /\ p \in Paths /\ FileOK(f) /\ r.object \in 1 .. Len(f.texts)
      /\ r.executed /\ Touched(s) = {p} /\ Altered(s) = {p} /\ doubts \in SUBSET Paths
  BY <1>1, Kinds DEF IInv, TypeOK, Shape, OneFile
<1>3. /\ FileOK(g) /\ g.texts = f.texts /\ g.cached = f.cached
      /\ g.listed = IF known /\ f.listed = 0 THEN r.object ELSE f.listed
      /\ Len(f.texts) \in Nat /\ f.cached \in 0 .. Len(f.texts)
  BY <1>2, PushedFile, FileType DEF Grown
<1> HIDE DEF g
<1>4. ASSUME p \notin doubtful
      PROVE  Listed(p) /\ Held(s, p) /\ disk[p] # Absent
  BY <1>1, <1>2, <1>4, Ready DEF Expected
<1>5. p \notin doubts => f.texts[r.object] = Unknown
  BY DEF Text
<1>6. ASSUME p \notin doubtful, p \notin doubts
      PROVE  /\ g.listed # 0 => known /\ g.listed = g.cached
             /\ g.cached # 0 => g.texts[g.cached] \in {Unknown, disk[p]}
             /\ known => g.listed # 0 /\ g.listed = g.cached
  BY <1>2, <1>3, <1>4, <1>5, <1>6 DEF Listed, Held
<1> HIDE DEF doubts
<1>7. Len(f.texts) <= Len(g.texts) /\ p \in Altered(s)
  BY <1>2, <1>3
<1> QED
  BY <1>1, <1>2, <1>3, <1>4, <1>6, <1>7, OneAnswer DEF OneFile

LEMMA HasCreatedKeeps ==
  ASSUME IInv, NEW s \in Slots, HasCreated(s)
  PROVE  IInv'
<1> DEFINE r == requests[s]
           p == r.path
           f == objects[p]
           g == Updated(f)
<1>1. /\ r.op = "createFile" /\ r.done /\ known' = known
      /\ Answer(s, [objects EXCEPT ![p] = g], {})
  BY DEF HasCreated, Due
<1>2. /\ Shape(s) /\ p \in Paths /\ FileOK(f) /\ r.executed
      /\ Touched(s) = {p} /\ Altered(s) = {p}
  BY <1>1, Kinds DEF IInv, TypeOK, Shape, OneFile
<1>3. /\ FileOK(g) /\ Len(f.texts) <= Len(g.texts)
      /\ g.cached \in 1 .. Len(g.texts) /\ Len(g.texts) \in Nat
      /\ f.cached # 0 => g.cached = f.cached /\ g.texts = f.texts
      /\ f.cached = 0 => g.texts[g.cached] = Unknown
      /\ g.listed = IF known /\ f.listed = 0 THEN g.cached ELSE f.listed
  BY <1>2, UpdatedFile, FileType DEF Grown
<1> HIDE DEF g
<1>4. ASSUME p \notin doubtful
      PROVE  Listed(p) /\ TextAgrees(p) /\ disk[p] # Absent
  BY <1>1, <1>2, <1>4, Ready DEF Expected
<1>5. ASSUME p \notin doubtful
      PROVE  /\ g.listed # 0 => known /\ g.listed = g.cached
             /\ g.cached # 0 => g.texts[g.cached] \in {Unknown, disk[p]}
             /\ known => g.listed # 0 /\ g.listed = g.cached
  BY <1>2, <1>3, <1>4, <1>5, FileType DEF Listed, TextAgrees
<1>6. p \in Altered(s)
  BY <1>2
<1> QED
  BY <1>1, <1>2, <1>3, <1>4, <1>5, <1>6, OneAnswer DEF OneFile

LEMMA HasRemovedKeeps ==
  ASSUME IInv, NEW s \in Slots, HasRemoved(s)
  PROVE  IInv'
<1> DEFINE r == requests[s]
           p == r.path
           f == objects[p]
           g == Dropped(f)
<1>1. /\ r.op = "remove" /\ r.done /\ known' = known
      /\ Answer(s, [objects EXCEPT ![p] = g], {})
  BY DEF HasRemoved, Due
<1>2. /\ Shape(s) /\ p \in Paths /\ FileOK(f) /\ r.executed
      /\ Touched(s) = {p} /\ Altered(s) = {p}
  BY <1>1, Kinds DEF IInv, TypeOK, Shape, OneFile
<1>3. /\ FileOK(g) /\ Len(f.texts) <= Len(g.texts) /\ g.cached = 0 /\ g.listed = 0
  BY <1>2, DroppedFile DEF Grown
<1> HIDE DEF g
<1>4. ASSUME p \notin doubtful
      PROVE  disk[p] = Absent
  BY <1>1, <1>2, <1>4, Ready DEF Expected
<1>5. p \in Altered(s)
  BY <1>2
<1> QED
  BY <1>1, <1>2, <1>3, <1>4, <1>5, OneAnswer DEF OneFile

(* What an answer for two files gives: the objects of p become f, q's g. *)
LEMMA TwoAnswer ==
  ASSUME IInv, NEW s \in Slots, requests[s].op \in TwoFiles, requests[s].done,
         NEW p \in Paths, p = requests[s].path, NEW q \in Paths, q = requests[s].to,
         NEW f, NEW g, NEW doubts \in SUBSET Paths, known' = known,
         Answer(s, [objects EXCEPT ![p] = f, ![q] = g], doubts),
         FileOK(f), FileOK(g), Len(objects[p].texts) <= Len(f.texts),
         Len(objects[q].texts) <= Len(g.texts),
         requests[s].op = "copy" => f = objects[p],
         requests[s].op # "copy" => f.cached = 0 /\ f.listed = 0,
         requests[s].op # "copy" /\ p \notin doubtful => disk[p] = Absent,
         q \notin doubtful \cup doubts =>
           /\ disk[q] # Absent
           /\ g.cached # 0 /\ g.texts[g.cached] \in {Unknown, disk[q]}
           /\ g.listed # 0 => known /\ g.listed = g.cached
           /\ known => g.listed # 0
  PROVE  IInv'
<1> DEFINE files == [objects EXCEPT ![p] = f, ![q] = g]
<1>1. TypeOK /\ Shape(s) /\ known \in BOOLEAN
  BY DEF IInv, TypeOK
<1>2. /\ requests[s].op # None /\ p # q /\ Touched(s) = {p, q} /\ q \in Altered(s)
      /\ requests[s].op # "copy" => p \in Altered(s)
      /\ objects' = files /\ disk' = disk
  BY <1>1, Kinds DEF TwoFiles, None, Answer
<1>3. /\ files \in [Paths -> File] /\ files[p] = f /\ files[q] = g
      /\ \A u \in Paths \ {p, q} : files[u] = objects[u]
  BY <1>1, <1>2 DEF TypeOK, FileOK
<1>4. \A u \in Paths : FileOK(files[u]) /\ Len(objects[u].texts) <= Len(files[u].texts)
  <2>1. \A u \in Paths : FileOK(objects[u]) /\ Len(objects[u].texts) <= Len(objects[u].texts)
    BY <1>1, FileType DEF TypeOK
  <2> HIDE DEF files
  <2> QED
    BY <2>1, <1>3
<1>5. Answer(s, files, doubts)
  OBVIOUS
<1> HIDE DEF files
<1>6. ASSUME p \notin doubtful \cup doubts
      PROVE  (Listed(p) /\ TextAgrees(p) /\ ListingAgrees(p))'
  <2>1. objects'[p] = f
    BY <1>2, <1>3
  <2>2. CASE requests[s].op = "copy"
    <3>1. p \in Touched(s) /\ p \notin Altered(s)
      BY <1>1, <1>2, <2>2, Kinds DEF TwoFiles
    <3>2. Listed(p) /\ TextAgrees(p) /\ ListingAgrees(p)
      BY <3>1, <1>6, Ready
    <3> QED
      BY <2>1, <2>2, <3>2, <1>2 DEF Listed, TextAgrees, ListingAgrees
  <2>3. CASE requests[s].op # "copy"
    BY <2>1, <2>3, <1>2, <1>6 DEF Listed, TextAgrees, ListingAgrees
  <2> QED
    BY <2>2, <2>3
<1>7. ASSUME q \notin doubtful \cup doubts
      PROVE  (Listed(q) /\ TextAgrees(q) /\ ListingAgrees(q))'
  <2>1. objects'[q] = g
    BY <1>2, <1>3
  <2> QED
    BY <2>1, <1>2, <1>7 DEF Listed, TextAgrees, ListingAgrees
<1>8. ASSUME NEW u \in Paths, u \in Touched(s), u \notin Altered(s)
      PROVE  \A n \in 1 .. Len(objects[u].texts) : Says(u, n) => Says(u, n)'
  <2>1. u = p /\ files[u] = objects[u]
    BY <1>2, <1>3, <1>8
  <2> QED
    BY <2>1, <1>2 DEF Says
<1>9. \A u \in Paths \ Touched(s) : files[u] = objects[u] /\ known' = known
  BY <1>2, <1>3
<1>10. \A u \in Paths : u \in Touched(s) \ (doubtful \cup doubts) =>
         (Listed(u) /\ TextAgrees(u) /\ ListingAgrees(u))'
  BY <1>2, <1>6, <1>7
<1> QED
  BY <1>1, <1>2, <1>3, <1>4, <1>5, <1>8, <1>9, <1>10, AnswerKeeps

(* The file a rename, a copy or a move makes is given its object. *)
LEMMA Target ==
  ASSUME IInv, NEW s \in Slots, requests[s].op \in TwoFiles, requests[s].done
  PROVE  LET r == requests[s]
             g == Updated(objects[r.to])
         IN
         /\ Shape(s) /\ r.path \in Paths /\ r.to \in Paths /\ r.to # r.path /\ r.executed
         /\ FileOK(objects[r.path]) /\ r.object \in 1 .. Len(objects[r.path].texts)
         /\ Text(r) \in Values \cup {Unknown}
         /\ FileOK(g) /\ Len(objects[r.to].texts) <= Len(g.texts)
         /\ Len(objects[r.to].texts) \in Nat
         /\ g.cached \in 1 .. Len(g.texts) /\ Len(g.texts) \in Nat
         /\ objects[r.to].cached # 0 =>
              g.cached = objects[r.to].cached /\ g.texts = objects[r.to].texts
         /\ objects[r.to].cached = 0 => g.texts[g.cached] = Unknown
         /\ r.to \notin doubtful =>
              /\ disk[r.to] # Absent /\ Expected(s, r.to)
              /\ g.listed # 0 => known /\ g.listed = g.cached
              /\ known => g.listed # 0
         /\ r.path \notin doubtful => Expected(s, r.path)
<1> DEFINE r == requests[s]
           f == objects[r.to]
           g == Updated(f)
<1>1. /\ Shape(s) /\ r.path \in Paths /\ r.to \in Paths /\ r.to # r.path /\ r.executed
      /\ FileOK(objects[r.path]) /\ r.object \in 1 .. Len(objects[r.path].texts)
      /\ FileOK(f) /\ Touched(s) = {r.path, r.to} /\ r.op \in TwoFiles
  BY Kinds DEF IInv, TypeOK, Shape, TwoFiles, OneFile
<1>2. Text(r) \in Values \cup {Unknown}
  BY <1>1, FileType DEF Text
<1>3. /\ FileOK(g) /\ Len(f.texts) <= Len(g.texts) /\ Len(f.texts) \in Nat
      /\ g.cached \in 1 .. Len(g.texts) /\ Len(g.texts) \in Nat
      /\ f.cached # 0 => g.cached = f.cached /\ g.texts = f.texts
      /\ f.cached = 0 => g.texts[g.cached] = Unknown
      /\ g.listed = IF known /\ f.listed = 0 THEN g.cached ELSE f.listed
      /\ f.cached \in 0 .. Len(f.texts)
  BY <1>1, UpdatedFile, FileType DEF Grown
<1>4. r.path \notin doubtful => Expected(s, r.path)
  BY <1>1, Ready
<1>5. ASSUME r.to \notin doubtful
      PROVE  /\ disk[r.to] # Absent /\ Expected(s, r.to)
             /\ g.listed # 0 => known /\ g.listed = g.cached
             /\ known => g.listed # 0
  <2>1. Expected(s, r.to) /\ Listed(r.to)
    BY <1>1, <1>5, Ready
  <2>2. disk[r.to] # Absent
    BY <2>1, <1>1 DEF Expected, TwoFiles
  <2> HIDE DEF g
  <2> QED
    BY <2>1, <2>2, <1>3 DEF Listed
<1> QED
  BY <1>1, <1>2, <1>3, <1>4, <1>5

LEMMA HasRenamedKeeps ==
  ASSUME IInv, NEW s \in Slots, HasRenamed(s)
  PROVE  IInv'
<1> DEFINE r == requests[s]
           p == r.path
           q == r.to
           f == Dropped(objects[p])
           g == Updated(objects[q])
<1>1. /\ r.op = "rename" /\ r.op \in TwoFiles /\ r.done /\ known' = known
      /\ Answer(s, [objects EXCEPT ![p] = Dropped(@), ![q] = Updated(@)], {})
  BY DEF HasRenamed, Due, TwoFiles
<1>2. /\ p \in Paths /\ q \in Paths /\ p # q /\ FileOK(objects[p])
      /\ r.executed /\ FileOK(g) /\ Len(objects[q].texts) <= Len(g.texts)
      /\ g.cached \in 1 .. Len(g.texts) /\ Len(g.texts) \in Nat
      /\ objects[q].cached # 0 => g.cached = objects[q].cached /\ g.texts = objects[q].texts
      /\ objects[q].cached = 0 => g.texts[g.cached] = Unknown
      /\ q \notin doubtful => /\ disk[q] # Absent /\ Expected(s, q)
                              /\ g.listed # 0 => known /\ g.listed = g.cached
                              /\ known => g.listed # 0
      /\ p \notin doubtful => Expected(s, p)
  BY <1>1, Target
<1>3. FileOK(f) /\ Len(objects[p].texts) <= Len(f.texts) /\ f.cached = 0 /\ f.listed = 0
  BY <1>2, DroppedFile DEF Grown
<1>4. Answer(s, [objects EXCEPT ![p] = f, ![q] = g], {})
  BY <1>1, <1>2 DEF IInv, TypeOK
<1> HIDE DEF f, g
<1>5. p \notin doubtful => disk[p] = Absent
  BY <1>1, <1>2 DEF Expected
<1>6. q \notin doubtful => g.cached # 0 /\ g.texts[g.cached] \in {Unknown, disk[q]}
  BY <1>1, <1>2 DEF Expected
<1> QED
  BY <1>1, <1>2, <1>3, <1>4, <1>5, <1>6, TwoAnswer

(* What takes over the text of the source agrees with the disk. *)
LEMMA TakenOver ==
  ASSUME IInv, NEW s \in Slots, requests[s].op \in {"copy", "move"}, requests[s].done
  PROVE  LET r == requests[s]
             g == TakesOver(objects[r.to], Text(r))
         IN
         /\ FileOK(g) /\ Len(objects[r.to].texts) <= Len(g.texts)
         /\ r.to \notin doubtful \cup Inherited(r) =>
              /\ disk[r.to] # Absent
              /\ g.cached # 0 /\ g.texts[g.cached] \in {Unknown, disk[r.to]}
              /\ g.listed # 0 => known /\ g.listed = g.cached
              /\ known => g.listed # 0
<1> DEFINE r == requests[s]
           h == Updated(objects[r.to])
           g == WithText(h, h.cached, Text(r))
<1>1. /\ r.op \in TwoFiles /\ r.executed /\ Text(r) \in Values \cup {Unknown}
      /\ FileOK(h) /\ Len(objects[r.to].texts) <= Len(h.texts)
      /\ h.cached \in 1 .. Len(h.texts) /\ Len(h.texts) \in Nat
      /\ r.to \notin doubtful => /\ disk[r.to] # Absent
                                 /\ h.listed # 0 => known /\ h.listed = h.cached
                                 /\ known => h.listed # 0
      /\ r.path \notin doubtful => Expected(s, r.path)
  BY Target DEF TwoFiles
<1> HIDE DEF h
<1>2. /\ FileOK(g) /\ Len(g.texts) = Len(h.texts) /\ g.cached = h.cached
      /\ g.listed = h.listed /\ g.texts[h.cached] = Text(r)
  BY <1>1, TextFile
<1> HIDE DEF g
<1>3. ASSUME r.to \notin doubtful, r.path \notin doubtful
      PROVE  Text(r) \in {Unknown, disk[r.to]}
  <2>1. Carries(s) /\ Expected(s, r.path)
    BY <1>1, <1>3 DEF IInv
  <2>2. CASE r.op = "copy"
    BY <2>1, <2>2, <1>1, <1>3 DEF Carries, Expected, Says, Text
  <2>3. CASE r.op = "move"
    BY <2>1, <2>3, <1>1, <1>3 DEF Carries, Text
  <2> QED
    BY <2>2, <2>3
<1>4. r.to \notin Inherited(r) => r.path \notin doubtful
  BY DEF Inherited
<1>5. TakesOver(objects[r.to], Text(r)) = g
  BY DEF TakesOver, g, h
<1> QED
  BY <1>1, <1>2, <1>3, <1>4, <1>5

LEMMA HasCopiedKeeps ==
  ASSUME IInv, NEW s \in Slots, HasCopied(s)
  PROVE  IInv'
<1> DEFINE r == requests[s]
           p == r.path
           q == r.to
           f == objects[p]
           g == TakesOver(objects[q], Text(r))
           doubts == Inherited(r)
<1>1. /\ r.op = "copy" /\ r.op \in TwoFiles /\ r.done /\ known' = known
      /\ Answer(s, [objects EXCEPT ![q] = g], doubts)
  BY DEF HasCopied, Due, TwoFiles
<1>2. p \in Paths /\ q \in Paths /\ p # q /\ FileOK(f) /\ Len(f.texts) <= Len(f.texts)
  BY <1>1, Target, FileType
<1>3. /\ FileOK(g) /\ Len(objects[q].texts) <= Len(g.texts)
      /\ q \notin doubtful \cup doubts =>
              /\ disk[q] # Absent
              /\ g.cached # 0 /\ g.texts[g.cached] \in {Unknown, disk[q]}
              /\ g.listed # 0 => known /\ g.listed = g.cached
              /\ known => g.listed # 0
  BY <1>1, TakenOver
<1> HIDE DEF g
<1>4. Answer(s, [objects EXCEPT ![p] = f, ![q] = g], doubts)
  <2>1. [objects EXCEPT ![p] = f, ![q] = g] = [objects EXCEPT ![q] = g]
    BY <1>2 DEF IInv, TypeOK
  <2> QED
    BY <2>1, <1>1
<1>5. doubts \in SUBSET Paths
  BY <1>2 DEF Inherited
<1> HIDE DEF doubts
<1> QED
  BY <1>1, <1>2, <1>3, <1>4, <1>5, TwoAnswer

LEMMA HasMovedKeeps ==
  ASSUME IInv, NEW s \in Slots, HasMoved(s)
  PROVE  IInv'
<1> DEFINE r == requests[s]
           p == r.path
           q == r.to
           f == Dropped(objects[p])
           text == Text(r)
           g == TakesOver(objects[q], text)
           doubts == Inherited(r)
<1>1. /\ r.op = "move" /\ r.op \in TwoFiles /\ r.done /\ known' = known
      /\ Answer(s, [objects EXCEPT ![p] = Dropped(@), ![q] = TakesOver(@, text)], doubts)
  BY DEF HasMoved, Due, TwoFiles
<1>2. /\ p \in Paths /\ q \in Paths /\ p # q /\ FileOK(objects[p]) /\ r.executed
      /\ p \notin doubtful => Expected(s, p)
  BY <1>1, Target
<1>3. /\ FileOK(g) /\ Len(objects[q].texts) <= Len(g.texts)
      /\ q \notin doubtful \cup doubts =>
              /\ disk[q] # Absent
              /\ g.cached # 0 /\ g.texts[g.cached] \in {Unknown, disk[q]}
              /\ g.listed # 0 => known /\ g.listed = g.cached
              /\ known => g.listed # 0
  BY <1>1, TakenOver
<1>4. FileOK(f) /\ Len(objects[p].texts) <= Len(f.texts) /\ f.cached = 0 /\ f.listed = 0
  BY <1>2, DroppedFile DEF Grown
<1>5. Answer(s, [objects EXCEPT ![p] = f, ![q] = g], doubts)
  <2> HIDE DEF text
  <2> QED
    BY <1>1, <1>2 DEF IInv, TypeOK
<1> HIDE DEF f, g
<1>6. p \notin doubtful => disk[p] = Absent
  BY <1>1, <1>2 DEF Expected
<1>7. doubts \in SUBSET Paths
  BY <1>2 DEF Inherited
<1> HIDE DEF doubts
<1> QED
  BY <1>1, <1>2, <1>3, <1>4, <1>5, <1>6, <1>7, TwoAnswer

LEMMA HasContentsKeeps ==
  ASSUME IInv, NEW s \in Slots, HasContents(s)
  PROVE  IInv'
<1> DEFINE r == requests[s]
           file(p) == IF r.reply[p] = Absent THEN objects[p] ELSE Updated(objects[p])
           item(p) == IF r.reply[p] = Absent THEN 0 ELSE file(p).cached
           files == [p \in Paths |-> IF r.live THEN [file(p) EXCEPT !.listed = item(p)]
                                     ELSE file(p)]
<1>1. /\ r.op = "contents" /\ r.done /\ known' = (known \/ r.live)
      /\ Answer(s, files, {})
  BY DEF HasContents, Due
<1>2. /\ TypeOK /\ Shape(s) /\ r.executed /\ r.live \in BOOLEAN /\ known \in BOOLEAN
      /\ Touched(s) = Paths /\ Altered(s) = {}
  BY <1>1, Kinds DEF IInv, TypeOK, Shape, Request
<1>3. ASSUME NEW p \in Paths
      PROVE  /\ FileOK(files[p]) /\ Len(objects[p].texts) <= Len(files[p].texts)
             /\ \A n \in 1 .. Len(objects[p].texts) : files[p].texts[n] = objects[p].texts[n]
             /\ objects[p].cached # 0 => files[p].cached = objects[p].cached
             /\ objects[p].cached = 0 /\ files[p].cached # 0 =>
                  files[p].texts[files[p].cached] = Unknown
             /\ r.reply[p] # Absent => files[p].cached # 0
             /\ files[p].listed =
                  IF r.live THEN (IF r.reply[p] = Absent THEN 0 ELSE files[p].cached)
                  ELSE IF r.reply[p] # Absent /\ known /\ objects[p].listed = 0
                       THEN files[p].cached ELSE objects[p].listed
  <2> DEFINE f == objects[p]
             g == file(p)
             i == item(p)
  <2>1. FileOK(f) /\ Len(f.texts) \in Nat /\ f.cached \in 0 .. Len(f.texts)
    BY <1>2, FileType DEF TypeOK
  <2>2. /\ FileOK(g) /\ Len(f.texts) <= Len(g.texts)
        /\ \A n \in 1 .. Len(f.texts) : g.texts[n] = f.texts[n]
        /\ f.cached # 0 => g.cached = f.cached
        /\ f.cached = 0 /\ g.cached # 0 => g.texts[g.cached] = Unknown
        /\ r.reply[p] # Absent => g.cached # 0
        /\ g.listed = IF r.reply[p] # Absent /\ known /\ f.listed = 0
                      THEN g.cached ELSE f.listed
    <3>1. CASE r.reply[p] = Absent
      BY <2>1, <3>1
    <3>2. CASE r.reply[p] # Absent
      <4>1. g = Updated(f)
        BY <3>2
      <4>2. Len(Updated(f).texts) \in Nat
        BY <2>1, UpdatedFile, FileType DEF Grown
      <4> HIDE DEF g
      <4> QED
        BY <2>1, <3>2, <4>1, <4>2, UpdatedFile DEF Grown
    <3> QED
      BY <3>1, <3>2
  <2>3. i = IF r.reply[p] = Absent THEN 0 ELSE g.cached
    OBVIOUS
  <2>4. files[p] = IF r.live THEN [g EXCEPT !.listed = i] ELSE g
    OBVIOUS
  <2> HIDE DEF files, g, i
  <2>5. /\ [g EXCEPT !.listed = i] = [texts |-> g.texts, cached |-> g.cached, listed |-> i]
        /\ i \in 0 .. Len(g.texts) /\ Len(g.texts) \in Nat
    BY <2>2, <2>3, FileType
  <2>6. CASE r.live
    <3>1. files[p] = [texts |-> g.texts, cached |-> g.cached, listed |-> i]
      BY <2>4, <2>5, <2>6
    <3>2. FileOK(files[p])
      BY <3>1, <2>2, <2>5, FileType DEF FileOK, File
    <3> QED
      BY <3>1, <3>2, <2>2, <2>3, <2>6
  <2>7. CASE ~r.live
    BY <2>2, <2>4, <2>7
  <2> QED
    BY <2>6, <2>7, <1>2
<1>4. files \in [Paths -> File]
  <2>1. files = [p \in Paths |-> files[p]]
    OBVIOUS
  <2> HIDE DEF files
  <2> QED
    BY <2>1, <1>3 DEF FileOK
<1> HIDE DEF files
<1>5. objects' = files /\ disk' = disk
  BY <1>1 DEF Answer
<1>6. ASSUME NEW p \in Paths, p \notin doubtful
      PROVE  (Listed(p) /\ TextAgrees(p) /\ ListingAgrees(p))'
  <2>1. /\ Listed(p) /\ TextAgrees(p) /\ ListingAgrees(p) /\ r.reply[p] = disk[p]
        /\ FileOK(objects[p])
    BY <1>1, <1>2, <1>6, Ready DEF Expected
  <2>2. objects[p].cached \in 0 .. Len(objects[p].texts) /\ Len(objects[p].texts) \in Nat
    BY <2>1, FileType
  <2>3. TextAgrees(p)'
    BY <2>1, <2>2, <1>3, <1>5 DEF TextAgrees
  <2>4. (Listed(p) /\ ListingAgrees(p))'
    <3>1. CASE r.live
      BY <3>1, <2>1, <1>1, <1>3, <1>5 DEF Listed, ListingAgrees
    <3>2. CASE ~r.live
      BY <3>2, <2>1, <1>1, <1>2, <1>3, <1>5 DEF Listed, ListingAgrees
    <3> QED
      BY <3>1, <3>2
  <2> QED
    BY <2>3, <2>4
<1>7. \A p \in Paths : \A n \in 1 .. Len(objects[p].texts) : Says(p, n) => Says(p, n)'
  BY <1>3, <1>5 DEF Says
<1>8. requests[s].op # None /\ known' \in BOOLEAN
  BY <1>1, <1>2 DEF None
<1>9. \A u \in Paths : FileOK(files[u]) /\ Len(objects[u].texts) <= Len(files[u].texts)
  BY <1>3
<1>10. Answer(s, files, {})
  BY <1>1
<1> QED
  BY <1>2, <1>4, <1>6, <1>7, <1>8, <1>9, <1>10, AnswerKeeps

-----------------------------------------------------------------------------
(* The listing and the cache are forgotten. *)

LEMMA RefreshKeeps ==
  ASSUME IInv, Refresh
  PROVE  IInv'
<1> USE DEF IInv
<1>1. /\ disk' = disk /\ requests' = requests /\ doubtful' = doubtful /\ sent' = sent
      /\ known' = FALSE /\ objects' = [p \in Paths |-> [objects[p] EXCEPT !.listed = 0]]
  BY DEF Refresh
<1>2. \A p \in Paths : /\ FileOK(objects'[p]) /\ objects'[p].texts = objects[p].texts
                       /\ objects'[p].cached = objects[p].cached /\ objects'[p].listed = 0
  <2> SUFFICES ASSUME NEW p \in Paths
               PROVE  /\ FileOK(objects'[p]) /\ objects'[p].texts = objects[p].texts
                      /\ objects'[p].cached = objects[p].cached /\ objects'[p].listed = 0
    OBVIOUS
  <2>1. FileOK(objects[p])
    BY DEF TypeOK
  <2>2. objects'[p] = [texts |-> objects[p].texts, cached |-> objects[p].cached, listed |-> 0]
    BY <2>1, <1>1, FileType
  <2> QED
    BY <2>1, <2>2, FileType DEF FileOK, File
<1>3. TypeOK'
  <2>1. objects' = [p \in Paths |-> objects'[p]]
    BY <1>1
  <2>2. objects' \in [Paths -> File]
    BY <2>1, <1>2 DEF FileOK
  <2> QED
    BY <1>1, <1>2, <2>2 DEF TypeOK
<1>4. \A t \in Slots : Touched(t)' = Touched(t) /\ Altered(t)' = Altered(t)
  BY <1>1 DEF Touched, Altered
<1>5. \A t \in Slots : Shape(t)' /\ Carries(t)'
  <2> SUFFICES ASSUME NEW t \in Slots
               PROVE  Shape(t)' /\ Carries(t)'
    OBVIOUS
  <2>1. \A p \in Paths : Len(objects[p].texts) <= Len(objects'[p].texts)
    BY <1>2, FileType DEF TypeOK
  <2>2. Shape(t)'
    BY <2>1, <1>1, <1>3, OtherShape
  <2>3. requests[t].op = "move" => requests[t].path \in Paths
    BY DEF Shape, TwoFiles
  <2>4. Carries(t)'
    BY <2>3, <1>1, <1>2 DEF Carries
  <2> QED
    BY <2>2, <2>4
<1>6. ASSUME NEW p \in Paths \ doubtful'
      PROVE  Good(p)'
  <2>1. Good(p)
    BY <1>1
  <2>2. (Alone(p) /\ Listed(p) /\ (Steady(p) => TextAgrees(p) /\ ListingAgrees(p)))'
    BY <2>1, <1>1, <1>2, <1>4 DEF Good, Alone, Listed, Steady, TextAgrees, ListingAgrees
  <2>3. \A t \in Slots : p \in Touched(t)' => Expected(t, p)'
    BY <2>1, <1>1, <1>2, <1>4 DEF Good, Expected, Says, Held, TextAgrees
  <2> QED
    BY <2>2, <2>3 DEF Good
<1> QED
  BY <1>3, <1>5, <1>6

LEMMA ClearedSlot ==
  ASSUME NEW r \in Request, NEW x
  PROVE  [r EXCEPT !.live = x] =
         [op |-> r.op, path |-> r.path, to |-> r.to, value |-> r.value, object |-> r.object,
          live |-> x, executed |-> r.executed, done |-> r.done, reply |-> r.reply]
BY DEF Request

LEMMA ClearCacheKeeps ==
  ASSUME IInv, ClearCache
  PROVE  IInv'
<1> USE DEF IInv
<1>1. /\ disk' = disk /\ sent' = sent /\ known' = FALSE
      /\ objects' = [p \in Paths |-> Dropped(objects[p])]
      /\ requests' = [t \in Slots |-> [requests[t] EXCEPT !.live = FALSE]]
      /\ doubtful' = {p \in doubtful : \E t \in Slots : p \in Touched(t)}
  BY DEF ClearCache
<1>2. \A p \in Paths : /\ FileOK(objects'[p]) /\ objects'[p].texts = objects[p].texts
                       /\ objects'[p].cached = 0 /\ objects'[p].listed = 0
  BY <1>1, DroppedFile DEF TypeOK, Grown
<1>3. ASSUME NEW t \in Slots
      PROVE  LET q == requests[t]
                 n == requests'[t]
             IN
             /\ n \in Request /\ n.live = FALSE
             /\ n.op = q.op /\ n.path = q.path /\ n.to = q.to /\ n.value = q.value
             /\ n.object = q.object /\ n.executed = q.executed /\ n.done = q.done
             /\ n.reply = q.reply
  <2> DEFINE q == requests[t]
             new == [op |-> q.op, path |-> q.path, to |-> q.to, value |-> q.value,
                     object |-> q.object, live |-> FALSE, executed |-> q.executed,
                     done |-> q.done, reply |-> q.reply]
  <2>1. q \in Request
    BY DEF TypeOK
  <2>2. requests'[t] = [q EXCEPT !.live = FALSE]
    BY <1>1
  <2>3. [q EXCEPT !.live = FALSE] = new
    BY <2>1, ClearedSlot
  <2>4. new \in Request
    BY <2>1 DEF Request
  <2> QED
    BY <2>2, <2>3, <2>4
<1>4. TypeOK'
  <2>1. objects' = [p \in Paths |-> objects'[p]] /\ requests' = [t \in Slots |-> requests'[t]]
    BY <1>1
  <2>2. objects' \in [Paths -> File]
    BY <2>1, <1>2 DEF FileOK
  <2>3. \A t \in Slots : requests'[t] \in Request
    BY <1>3
  <2>4. requests' \in [Slots -> Request]
    BY <2>1, <2>3
  <2> QED
    BY <1>1, <1>2, <2>2, <2>4 DEF TypeOK
<1>5. \A t \in Slots : Touched(t)' = Touched(t) /\ Altered(t)' = Altered(t)
  BY <1>3 DEF Touched, Altered
<1>6. \A t \in Slots : Shape(t)' /\ Carries(t)'
  <2> SUFFICES ASSUME NEW t \in Slots
               PROVE  Shape(t)' /\ Carries(t)'
    OBVIOUS
  <2> DEFINE q == requests[t]
  <2>1. Shape(t) /\ Carries(t)
    OBVIOUS
  <2>2. q.op \in OneFile \cup TwoFiles => q.path \in Paths
    BY <2>1 DEF Shape
  <2>3. Shape(t)'
    BY <2>1, <2>2, <1>2, <1>3 DEF Shape
  <2>4. q.op \in TwoFiles => Touched(t) = {q.path, q.to} /\ q.path \in Paths
    BY Kinds
  <2>5. q.op \in TwoFiles /\ q.path \notin doubtful' => q.path \notin doubtful
    BY <2>4, <1>1
  <2>6. q.op \in TwoFiles /\ q.to \notin doubtful' => q.to \notin doubtful
    BY <2>4, <1>1
  <2>7. Carries(t)'
    <3>1. CASE q.op = "copy"
      BY <3>1, <2>1, <2>5, <2>6, <1>1, <1>3 DEF Carries, TwoFiles
    <3>2. CASE q.op = "move"
      <4>1. objects'[q.path].texts = objects[q.path].texts
        BY <3>2, <2>4, <1>2 DEF TwoFiles
      <4>2. /\ requests'[t].path = q.path /\ requests'[t].to = q.to
            /\ requests'[t].object = q.object /\ requests'[t].op = "move"
            /\ requests'[t].executed = q.executed
        BY <3>2, <1>3
      <4>3. q.executed /\ q.path \notin doubtful' /\ q.to \notin doubtful' =>
              objects[q.path].texts[q.object] \in {Unknown, disk[q.to]}
        BY <3>2, <2>1, <2>5, <2>6 DEF Carries, TwoFiles
      <4> HIDE DEF q
      <4> QED
        BY <4>1, <4>2, <4>3, <1>1 DEF Carries
    <3>3. CASE q.op \notin {"copy", "move"}
      BY <3>3, <1>3 DEF Carries
    <3> QED
      BY <3>1, <3>2, <3>3
  <2> QED
    BY <2>3, <2>7
<1>7. ASSUME NEW p \in Paths \ doubtful'
      PROVE  Good(p)'
  <2>1. (Listed(p) /\ TextAgrees(p) /\ ListingAgrees(p))'
    BY <1>1, <1>2 DEF Listed, TextAgrees, ListingAgrees
  <2>2. CASE p \in doubtful
    <3>1. \A t \in Slots : p \notin Touched(t)'
      BY <2>2, <1>1, <1>5
    <3> QED
      BY <2>1, <3>1 DEF Good, Alone
  <2>3. CASE p \notin doubtful
    <3>1. Good(p)
      BY <2>3
    <3>2. Alone(p)'
      BY <3>1, <1>5 DEF Good, Alone
    <3>3. ASSUME NEW t \in Slots, p \in Touched(t)'
          PROVE  Expected(t, p)'
      <4>1. Expected(t, p)
        BY <3>1, <3>3, <1>5 DEF Good
      <4>2. Held(t, p)'
        BY <1>1, <1>2 DEF Held
      <4>3. \A n : Says(p, n)' <=> Says(p, n)
        BY <1>1, <1>2 DEF Says
      <4>4. TextAgrees(p)' /\ objects'[p].cached = 0
        BY <2>1, <1>2
      <4> QED
        BY <4>1, <4>2, <4>3, <4>4, <1>1, <1>3 DEF Expected
    <3> QED
      BY <2>1, <3>2, <3>3 DEF Good
  <2> QED
    BY <2>2, <2>3
<1> QED
  BY <1>4, <1>6, <1>7

-----------------------------------------------------------------------------

LEMMA InitGood ==
  ASSUME Init
  PROVE  IInv
<1>1. Free \in Request
  BY DEF Free, Request, Nothing
<1>2. \A p \in Paths : objects[p] = [texts |-> <<>>, cached |-> 0, listed |-> 0]
  BY DEF Init
<1>3. [texts |-> <<>>, cached |-> 0, listed |-> 0] \in File
  BY EmptySeq DEF File
<1>4. TypeOK
  <2>1. objects \in [Paths -> File]
    BY <1>3 DEF Init
  <2>2. \A p \in Paths : FileOK(objects[p])
    <3>1. FileOK([texts |-> <<>>, cached |-> 0, listed |-> 0])
      BY <1>3, Len(<<>>) = 0 DEF FileOK
    <3> QED
      BY <1>2, <3>1
  <2>3. disk \in [Paths -> Values \cup {Absent}]
    BY ValuesAssumption DEF Init
  <2>4. requests \in [Slots -> Request]
    <3> HIDE DEF Free
    <3> QED
      BY <1>1 DEF Init
  <2>5. known \in BOOLEAN /\ doubtful \subseteq Paths /\ sent \in 0 .. MaxRequests
    <3>1. known = FALSE /\ doubtful = {} /\ sent = 0
      BY Zenon DEF Init
    <3>2. known \in BOOLEAN /\ doubtful \subseteq Paths
      BY <3>1, Zenon
    <3>3. 0 \in 0 .. MaxRequests
      BY BoundAssumption
    <3> QED
      BY <3>1, <3>2, <3>3
  <2> QED
    BY <2>1, <2>2, <2>3, <2>4, <2>5 DEF TypeOK
<1>5. \A s \in Slots : /\ requests[s].op = None /\ ~requests[s].executed /\ ~requests[s].done
                       /\ ~requests[s].live
  BY DEF Init, Free
<1>6. \A s \in Slots : Shape(s) /\ Carries(s)
  BY <1>5 DEF Shape, Carries, OneFile, TwoFiles, None
<1>7. \A s \in Slots : Touched(s) = {} /\ Altered(s) = {}
  BY <1>4, <1>5, <1>6, Kinds
<1>8. ASSUME NEW p \in Paths
      PROVE  Good(p)
  BY <1>2, <1>7 DEF Init, Good, Alone, Listed, TextAgrees, ListingAgrees
<1> QED
  BY <1>4, <1>6, <1>8 DEF IInv

LEMMA AskedKeeps ==
  ASSUME IInv, NEW s \in Slots, Asked(s)
  PROVE  IInv'
<1> USE DEF OneFile, TwoFiles, Ops, Changes
<1>1. TypeOK
  BY DEF IInv
<1>2. CASE Contents(s)
  BY <1>2, SendKeeps DEF Contents
<1>3. ASSUME NEW p \in Paths,
             \/ ReadAsText(s, p) \/ Load(s, p) \/ Remove(s, p)
             \/ \E v \in Values : WriteAsText(s, p, v) \/ WriteAsBinary(s, p, v)
      PROVE  IInv'
  <2>1. Fetched(p, p, With(p)) /\ With(p)[p].cached \in 1 .. Len(With(p)[p].texts)
    BY <1>1, FetchedOne
  <2> DEFINE w == With(p)
  <2> HIDE DEF w
  <2>2. CASE ReadAsText(s, p) \/ Load(s, p) \/ Remove(s, p)
    <3>1. PICK op \in {"readAsText", "load", "remove"} : Send(s, op, p, p, None, w)
      BY <2>2 DEF ReadAsText, Load, Remove, w
    <3> QED
      BY <2>1, <3>1, SendKeeps DEF w
  <2>3. CASE \E v \in Values : WriteAsText(s, p, v) \/ WriteAsBinary(s, p, v)
    <3>1. PICK v \in Values, op \in {"writeAsText", "writeAsBinary"} : Send(s, op, p, p, v, w)
      BY <2>3 DEF WriteAsText, WriteAsBinary, w
    <3> QED
      BY <2>1, <3>1, SendKeeps DEF w
  <2> QED
    BY <1>3, <2>2, <2>3
<1>4. ASSUME NEW p \in Paths, CreateFile(s, p)
      PROVE  IInv'
  BY <1>1, <1>4, FetchedNone, SendKeeps DEF CreateFile
<1>5. ASSUME NEW p \in Paths, NEW q \in Paths, Rename(s, p, q)
      PROVE  IInv'
  <2>1. /\ Fetched(p, p, With(p)) /\ With(p)[p].cached \in 1 .. Len(With(p)[p].texts)
        /\ p # q /\ Send(s, "rename", p, q, None, With(p))
    BY <1>1, <1>5, FetchedOne DEF Rename
  <2>2. Fetched(p, q, With(p))
    BY <2>1 DEF Fetched
  <2> HIDE DEF OneFile, TwoFiles, Ops, Changes
  <2>3. "rename" \in Ops /\ "rename" \in TwoFiles /\ "rename" \notin OneFile
    BY DEF OneFile, TwoFiles, Ops, Changes
  <2> QED
    BY <2>1, <2>2, <2>3, SendKeeps
<1>6. ASSUME NEW p \in Paths, NEW q \in Paths, Copy(s, p, q) \/ Move(s, p, q)
      PROVE  IInv'
  <2>1. PICK op \in {"copy", "move"} : p # q /\ Send(s, op, p, q, None, Both(p, q))
    BY <1>6 DEF Copy, Move
  <2>2. Fetched(p, q, Both(p, q)) /\ Both(p, q)[p].cached \in 1 .. Len(Both(p, q)[p].texts)
    BY <1>1, <2>1, FetchedTwo
  <2> QED
    BY <2>1, <2>2, SendKeeps
<1> QED
  BY <1>2, <1>3, <1>4, <1>5, <1>6 DEF Asked

LEMMA NextKeeps ==
  ASSUME IInv, [Next]_vars
  PROVE  IInv'
<1>1. ASSUME NEW s \in Slots, Asked(s)
      PROVE  IInv'
  BY <1>1, AskedKeeps
<1>2. ASSUME NEW s \in Slots, Execute(s) \/ Repeat(s) \/ Fail(s)
      PROVE  IInv'
  BY <1>2, ExecuteKeeps, RepeatKeeps, FailKeeps
<1>3. ASSUME NEW s \in Slots, Answered(s)
      PROVE  IInv'
  BY <1>3, HasReadKeeps, HasContentsKeeps, HasLoadedKeeps, HasWrittenTextKeeps,
     HasWrittenBinaryKeeps, HasCreatedKeeps, HasRemovedKeeps, HasRenamedKeeps,
     HasCopiedKeeps, HasMovedKeeps DEF Answered
<1>4. CASE Refresh \/ ClearCache
  BY <1>4, RefreshKeeps, ClearCacheKeeps
<1>5. CASE UNCHANGED vars
  <2> USE <1>5 DEF vars, IInv
  <2>1. TypeOK'
    BY DEF TypeOK
  <2>2. \A s \in Slots : Touched(s)' = Touched(s) /\ Altered(s)' = Altered(s)
    BY DEF Touched, Altered
  <2>3. \A s \in Slots : Shape(s)' /\ Carries(s)'
    BY DEF Shape, Carries
  <2>4. ASSUME NEW p \in Paths \ doubtful'
        PROVE  Good(p)'
    <3>1. Good(p)
      OBVIOUS
    <3>2. (Alone(p) /\ Listed(p) /\ (Steady(p) => TextAgrees(p) /\ ListingAgrees(p)))'
      BY <3>1, <2>2 DEF Good, Alone, Listed, Steady, TextAgrees, ListingAgrees
    <3>3. \A s \in Slots : p \in Touched(s)' => Expected(s, p)'
      BY <3>1, <2>2 DEF Good, Expected, Says, Held, TextAgrees
    <3> QED
      BY <3>2, <3>3 DEF Good
  <2> QED
    BY <2>1, <2>3, <2>4
<1> QED
  BY <1>1, <1>2, <1>3, <1>4, <1>5 DEF Next

LEMMA Always == Spec => []IInv
<1>1. Init => IInv
  BY InitGood
<1>2. IInv /\ [Next]_vars => IInv'
  BY NextKeeps
<1> QED
  BY <1>1, <1>2, PTL DEF Spec

(***************************************************************************)
(* The objects, the cache and the listing stay well formed, whatever the   *)
(* order of the requests and of their answers: an answer finds the object  *)
(* its request was made for (Webos.File.get(), _updateData(), _remove()).  *)
(***************************************************************************)
THEOREM TypesKept == Spec => []TypeOK
<1>1. IInv => TypeOK
  BY DEF IInv
<1> QED
  BY <1>1, Always, PTL

(***************************************************************************)
(* The text and the listing the client keeps for a file agree with the     *)
(* server whenever nothing is under way that changes it, for the paths     *)
(* whose requests have not overlapped: the answers of file.js apply what   *)
(* FileController has done, a lost answer and a repeated execution         *)
(* included.                                                               *)
(***************************************************************************)
THEOREM CoherenceKept == Spec => []Coherent
<1>1. IInv => Coherent
  BY DEF IInv, Good, Steady, Coherent
<1> QED
  BY <1>1, Always, PTL
=============================================================================
