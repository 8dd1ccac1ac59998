----------------------------- MODULE FileCache -----------------------------
(***************************************************************************)
(* The objects a client keeps for the files of one directory.              *)
(*                                                                         *)
(* Webos.File.get() gives one object per path, which keeps the text of the *)
(* file once it is known; the object of the directory keeps its listing.   *)
(* Every operation is a request to FileController, whose answer is applied *)
(* to these objects whenever it comes, in any order.  Operations start     *)
(* from objects that get() or the listing gives, not from ones that have   *)
(* been removed, and nobody else changes the files.                        *)
(***************************************************************************)
EXTENDS Integers, Sequences

CONSTANTS
  Paths,       \* the paths of the directory's files
  Values,      \* texts of files
  Empty,       \* the text of a new file
  Slots,       \* requests that may be in flight at once
  MaxRequests  \* bound: requests sent

Unknown == "unknown"  \* the text of an object that has not been read
Absent  == "absent"   \* what the disk has where there is no file
None    == "none"

ASSUME ValuesAssumption == Empty \in Values /\ Unknown \notin Values /\ Absent \notin Values
ASSUME PathsAssumption == None \notin Paths
ASSUME BoundAssumption == MaxRequests \in Nat

Changes == {"writeAsText", "writeAsBinary", "createFile", "remove", "rename", "copy", "move"}
Ops     == {"readAsText", "contents", "load"} \cup Changes

VARIABLES
  disk,      \* [Paths -> Values \cup {Absent}]: the files on the server
  objects,   \* [Paths -> File]: the client's objects of each path
  known,     \* whether the directory's object has its listing (_contents)
  requests,  \* [Slots -> Request]
  doubtful,  \* paths the client may be wrong about (history, see Overlaps)
  sent       \* requests sent

vars == <<disk, objects, known, requests, doubtful, sent>>

(* The objects of a path: their texts (_contents), which of them is in       *)
(* Webos.File._cache and which is in the listing, where a path appears once; *)
(* 0 is none.                                                                *)
File == [texts : Seq(Values \cup {Unknown}), cached : Nat, listed : Nat]

Request == [op : Ops \cup {None}, path : Paths \cup {None}, to : Paths \cup {None},
            value : Values \cup {None}, object : Nat, live : BOOLEAN,
            executed : BOOLEAN, done : BOOLEAN, reply : [Paths -> Values \cup {Absent}]]

Nothing == [p \in Paths |-> Absent]
Free == [op |-> None, path |-> None, to |-> None, value |-> None, object |-> 0,
         live |-> FALSE, executed |-> FALSE, done |-> FALSE, reply |-> Nothing]

Init ==
  /\ disk \in [Paths -> {Empty, Absent}]
  /\ objects = [p \in Paths |-> [texts |-> <<>>, cached |-> 0, listed |-> 0]]
  /\ known = FALSE
  /\ requests = [s \in Slots |-> Free]
  /\ doubtful = {}
  /\ sent = 0

-----------------------------------------------------------------------------
(* What the handlers do to the objects f of a path. *)

(* Webos.File.get(). *)
Got(f) ==
  IF f.cached = 0
  THEN [f EXCEPT !.texts = Append(@, Unknown), !.cached = Len(f.texts) + 1] ELSE f

(* _updateData() without a new path: the object joins the listing, unless one *)
(* of its path is there.                                                      *)
Pushed(f, n) == IF known /\ f.listed = 0 THEN [f EXCEPT !.listed = n] ELSE f

Updated(f) == Pushed(Got(f), Got(f).cached)

(* A mutant: the object leaves the listing, but not the cache. *)
DroppedFromListing(f) == [f EXCEPT !.listed = 0]

(* A mutant: the objects are freed, though requests may hold them. *)
DroppedAndFreed(f) == [f EXCEPT !.texts = <<>>, !.cached = 0, !.listed = 0]

(* _remove(): whichever objects have the path. *)
Dropped(f) == [f EXCEPT !.cached = 0, !.listed = 0]

WithText(f, n, text) == [f EXCEPT !.texts = [@ EXCEPT ![n] = text]]

-----------------------------------------------------------------------------
(* Requests. *)

Touches(op, path, to) ==
  CASE op = None -> {} [] op = "contents" -> Paths [] OTHER -> {path, to}
Alters(op, path, to) ==
  CASE op = "copy" -> {to} [] op \in Changes \ {"copy"} -> {path, to} [] OTHER -> {}

Touched(s) == Touches(requests[s].op, requests[s].path, requests[s].to)
Altered(s) == Alters(requests[s].op, requests[s].path, requests[s].to)

(* Two requests about a path are under way at once, and one changes it: what *)
(* the client will believe depends on the order of the answers.              *)
Overlaps(op, path, to) ==
  {p \in Paths : \E s \in Slots :
     \/ p \in Touches(op, path, to) /\ p \in Altered(s)
     \/ p \in Alters(op, path, to) /\ p \in Touched(s)}

Send(s, op, path, to, value, files) ==
  /\ requests[s].op = None
  /\ sent < MaxRequests
  /\ sent' = sent + 1
  /\ objects' = files
  /\ requests' = [requests EXCEPT ![s] =
                    [op |-> op, path |-> path, to |-> to, value |-> value,
                     object |-> IF op = "contents" THEN 0 ELSE files[path].cached,
                     live |-> op = "contents", executed |-> FALSE, done |-> FALSE,
                     reply |-> Nothing]]
  /\ doubtful' = doubtful \cup Overlaps(op, path, to)
  /\ UNCHANGED <<disk, known>>

With(p)    == [objects EXCEPT ![p] = Got(@)]
Both(p, q) == [objects EXCEPT ![p] = Got(@), ![q] = Got(@)]

(* A text that is known is given at once, and an object reads once at a time. *)
ReadAsText(s, p) ==
  LET f == Got(objects[p]) IN
  /\ f.texts[f.cached] = Unknown
  /\ \A t \in Slots : ~(/\ requests[t].op = "readAsText" /\ requests[t].path = p
                        /\ requests[t].object = f.cached)
  /\ Send(s, "readAsText", p, p, None, With(p))

Contents(s) == ~known /\ Send(s, "contents", None, None, None, objects)

Load(s, p)             == Send(s, "load", p, p, None, With(p))
WriteAsText(s, p, v)   == Send(s, "writeAsText", p, p, v, With(p))
WriteAsBinary(s, p, v) == Send(s, "writeAsBinary", p, p, v, With(p))
CreateFile(s, p)       == Send(s, "createFile", p, p, None, objects)
Remove(s, p)           == Send(s, "remove", p, p, None, With(p))
Rename(s, p, q)        == p # q /\ Send(s, "rename", p, q, None, With(p))
Copy(s, p, q)          == p # q /\ Send(s, "copy", p, q, None, Both(p, q))
Move(s, p, q)          == p # q /\ Send(s, "move", p, q, None, Both(p, q))

(* The server's side: what it refuses changes nothing. *)
Accepts(r) ==
  CASE r.op \in {"readAsText", "load", "remove", "copy", "move"} -> disk[r.path] # Absent
    [] r.op = "rename" -> disk[r.path] # Absent /\ disk[r.to] = Absent
    [] OTHER           -> TRUE

After(r) ==
  CASE r.op \in {"writeAsText", "writeAsBinary"} -> [disk EXCEPT ![r.path] = r.value]
    [] r.op = "createFile"         -> [disk EXCEPT ![r.path] = IF @ = Absent THEN Empty ELSE @]
    [] r.op = "remove"             -> [disk EXCEPT ![r.path] = Absent]
    [] r.op = "copy"               -> [disk EXCEPT ![r.to] = disk[r.path]]
    [] r.op \in {"rename", "move"} -> [disk EXCEPT ![r.to] = disk[r.path], ![r.path] = Absent]
    [] OTHER                       -> disk

Execute(s) ==
  LET r == requests[s] IN
  /\ r.op # None /\ ~r.done
  /\ Accepts(r)
  /\ disk' = After(r)
  /\ requests' = [requests EXCEPT ![s] =
       [r EXCEPT !.executed = TRUE, !.done = TRUE,
                 !.reply = CASE r.op = "contents"   -> disk
                             [] r.op = "readAsText" -> [Nothing EXCEPT ![r.path] = disk[r.path]]
                             [] OTHER               -> Nothing]]
  /\ UNCHANGED <<objects, known, doubtful, sent>>

(* The answer is lost, and the request is sent and executed again. *)
Repeat(s) ==
  /\ requests[s].done
  /\ requests' = [requests EXCEPT ![s] = [@ EXCEPT !.done = FALSE, !.reply = Nothing]]
  /\ UNCHANGED <<disk, objects, known, doubtful, sent>>

(* The caller is told that it failed, whether it has been executed or not. *)
Fail(s) ==
  /\ requests[s].op # None
  /\ requests' = [requests EXCEPT ![s] = Free]
  /\ doubtful' = IF requests[s].executed THEN doubtful \cup Altered(s) ELSE doubtful
  /\ UNCHANGED <<disk, objects, known, sent>>

-----------------------------------------------------------------------------
(* Answers. *)

Due(s, op) == requests[s].op = op /\ requests[s].done

Answer(s, files, doubts) ==
  /\ objects' = files
  /\ requests' = [requests EXCEPT ![s] = Free]
  /\ doubtful' = doubtful \cup doubts
  /\ UNCHANGED <<disk, sent>>

Text(r) == objects[r.path].texts[r.object]

(* What takes over a text is as doubtful as the text. *)
Inherited(r) == IF r.path \in doubtful THEN {r.to} ELSE {}

HasRead(s) ==
  LET r == requests[s] IN
  /\ Due(s, "readAsText")
  /\ Answer(s, [objects EXCEPT ![r.path] = WithText(@, r.object, r.reply[r.path])], {})
  /\ UNCHANGED known

HasContents(s) ==
  LET r == requests[s]
      file(p) == IF r.reply[p] = Absent THEN objects[p] ELSE Updated(objects[p])
      item(p) == IF r.reply[p] = Absent THEN 0 ELSE file(p).cached
  IN
  /\ Due(s, "contents")
  /\ Answer(s, [p \in Paths |-> IF r.live THEN [file(p) EXCEPT !.listed = item(p)] ELSE file(p)], {})
  /\ known' = (known \/ r.live)

(* Webos.File.load() puts the object in the cache again. *)
HasLoaded(s) ==
  LET r == requests[s]
      f == Pushed(objects[r.path], r.object)
  IN
  /\ Due(s, "load")
  /\ \/ Answer(s, [objects EXCEPT ![r.path] = f], {})
     \/ /\ f.cached = 0
        /\ Answer(s, [objects EXCEPT ![r.path] = [f EXCEPT !.cached = r.object]], {})
  /\ UNCHANGED known

HasWrittenText(s) ==
  LET r == requests[s] IN
  /\ Due(s, "writeAsText")
  /\ Answer(s, [objects EXCEPT ![r.path] = Pushed(WithText(@, r.object, r.value), r.object)], {})
  /\ UNCHANGED known

(* A text the object had is kept, though it is the file's no longer. *)
HasWrittenBinary(s) ==
  LET r == requests[s] IN
  /\ Due(s, "writeAsBinary")
  /\ Answer(s, [objects EXCEPT ![r.path] = Pushed(@, r.object)],
            IF Text(r) = Unknown THEN {} ELSE {r.path})
  /\ UNCHANGED known

HasCreated(s) ==
  /\ Due(s, "createFile")
  /\ Answer(s, [objects EXCEPT ![requests[s].path] = Updated(@)], {})
  /\ UNCHANGED known

HasRemoved(s) ==
  /\ Due(s, "remove")
  /\ Answer(s, [objects EXCEPT ![requests[s].path] = Dropped(@)], {})
  /\ UNCHANGED known

(* _updateData() with a new path: the object is dropped with the old one, and *)
(* the new path's takes its place.                                            *)
HasRenamed(s) ==
  LET r == requests[s] IN
  /\ Due(s, "rename")
  /\ Answer(s, [objects EXCEPT ![r.path] = Dropped(@), ![r.to] = Updated(@)], {})
  /\ UNCHANGED known

TakesOver(f, text) == WithText(Updated(f), Updated(f).cached, text)

HasCopied(s) ==
  LET r == requests[s] IN
  /\ Due(s, "copy")
  /\ Answer(s, [objects EXCEPT ![r.to] = TakesOver(@, Text(r))], Inherited(r))
  /\ UNCHANGED known

HasMoved(s) ==
  LET r == requests[s] IN
  /\ Due(s, "move")
  /\ Answer(s, [objects EXCEPT ![r.path] = Dropped(@), ![r.to] = TakesOver(@, Text(r))],
            Inherited(r))
  /\ UNCHANGED known

-----------------------------------------------------------------------------
(* The file manager's refresh: the directory forgets its listing. *)
Refresh ==
  /\ known
  /\ known' = FALSE
  /\ objects' = [p \in Paths |-> [objects[p] EXCEPT !.listed = 0]]
  /\ UNCHANGED <<disk, requests, doubtful, sent>>

(* A user logs in or out: all the objects are forgotten, the directory's too. *)
(* Requests in flight still apply their answers to the old ones.              *)
ClearCache ==
  /\ known' = FALSE
  /\ objects' = [p \in Paths |-> Dropped(objects[p])]
  /\ requests' = [s \in Slots |-> [requests[s] EXCEPT !.live = FALSE]]
  /\ doubtful' = {p \in doubtful : \E s \in Slots : p \in Touched(s)}
  /\ UNCHANGED <<disk, sent>>

Asked(s) ==
  \/ Contents(s)
  \/ \E p \in Paths :
       \/ ReadAsText(s, p) \/ Load(s, p) \/ CreateFile(s, p) \/ Remove(s, p)
       \/ \E v \in Values : WriteAsText(s, p, v) \/ WriteAsBinary(s, p, v)
       \/ \E q \in Paths : Rename(s, p, q) \/ Copy(s, p, q) \/ Move(s, p, q)

Answered(s) ==
  \/ HasRead(s) \/ HasContents(s) \/ HasLoaded(s) \/ HasWrittenText(s) \/ HasWrittenBinary(s)
  \/ HasCreated(s) \/ HasRemoved(s) \/ HasRenamed(s) \/ HasCopied(s) \/ HasMoved(s)

Next ==
  \/ \E s \in Slots : Asked(s) \/ Execute(s) \/ Repeat(s) \/ Fail(s) \/ Answered(s)
  \/ Refresh \/ ClearCache

Spec == Init /\ [][Next]_vars

-----------------------------------------------------------------------------
(* Properties. *)

FileOK(f) == f \in File /\ f.cached <= Len(f.texts) /\ f.listed <= Len(f.texts)

TypeOK ==
  /\ disk \in [Paths -> Values \cup {Absent}]
  /\ objects \in [Paths -> File] /\ \A p \in Paths : FileOK(objects[p])
  /\ known \in BOOLEAN
  /\ requests \in [Slots -> Request]
  /\ doubtful \subseteq Paths
  /\ sent \in 0 .. MaxRequests

TextAgrees(p) ==
  objects[p].cached # 0 => objects[p].texts[objects[p].cached] \in {Unknown, disk[p]}
ListingAgrees(p) ==
  known => IF disk[p] = Absent THEN objects[p].listed = 0
           ELSE objects[p].listed # 0 /\ objects[p].listed = objects[p].cached

(***************************************************************************)
(* When nothing is under way that changes a file, and nothing has happened *)
(* to it that the client cannot know of, then the text kept for it is what *)
(* the server has, and a listing that is kept lists it exactly if it       *)
(* exists, with the object that the cache gives, so that whoever takes it  *)
(* from the one sees what is done through the other.                       *)
(***************************************************************************)
Coherent ==
  \A p \in Paths \ doubtful :
    (\A s \in Slots : p \notin Altered(s)) => TextAgrees(p) /\ ListingAgrees(p)
=============================================================================
