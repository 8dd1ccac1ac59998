# Symbiose: verification of the web desktop's core

Symbiose is a web desktop. A JavaScript kernel in the browser (`src/boot/lib`) talks to a PHP server
(`src/lib`) by remote procedure calls; applications (`src/usr`) are built over the kernel. This
directory holds TLA+ specifications of the kernel's protocols, the instances TLC checks them on, and
theorems about them that TLAPS checks for every value of the constants.

Read in this order: `RequestReply` and `ServerCall` (remote calls), `Operation` (who is told of a
result), `ModelSync` (saving a model through such calls), `ProcessStack` (in whose name code runs),
`Require` (loading scripts), `FileCache` (what the client keeps of its files), `AccountBook` and
`Accounts` (the server's tables of users), `Windows` (the window manager), `SocketServer` and
`WebSocket` (the websocket server's processes, and a page that connects to one).
A specification `X` goes with `MC_X` (its instance for TLC), `MC_X*.cfg` (the runs) and
`X*_proofs` (its theorems).

## The system

The browser runs one handler at a time: interleaving happens between handlers, and inside one when
it calls the application back. PHP requests run at the same time as one another and share files and
sessions.

| Part | State | Operations | Meets the others by |
|---|---|---|---|
| Remote calls (`servercall.js`) | the list of calls, each with a status and an attempt count; the load stack and its timer; the enabled transports; the last transport used | load a call or a group, flush the stack, answer, retry, fall back, complete | every other client part loads calls; completion runs their callbacks |
| Observers and operations (`observer.js`, `operation.js`) | a list of observers; completed, result | on, once, off, trigger, setCompleted, groups | the result type of calls, models, scripts |
| Processes and callbacks (`process.js`, `callback.js`) | each process's state; the process stack | run, stop, fire | every callback is fired in the process it was made in |
| Models (`model.js`, `config.js`, `data.js`, and the `sync` of `user.js`, `file.js`, `applications.js`) | saved data; unsaved edits with a state (changed, staged) | set, unset, sync, syncIfAllowed | a call per save |
| User session (`user.js`) | the logged user, a cache of users, the keep-alive timer | login, logout, getLogged, register, ping | calls; events on `Webos.User` |
| Files (`file.js`) | a cache by path, the mount table, directory contents | get, load, rename, move, remove, mount, umount | calls; events between files |
| Scripts and interfaces (`script.js`, `ui.js`, `boot.js`) | loaded scripts, the current one, a stack of calls per script | load, require, switch | groups of synchronous calls; reads of files |
| Window manager (`compiz/widgets.js`, `workspaces.js`) | windows with their states, marks and z-indexes; the current workspace; animations | open, close, hide, show, raise, switch | stops the process of a main window that has closed |
| Commands, translations, errors, collections | small caches and lists | | |
| API dispatch (`Api*.class.php`, `ApiGroup*`) | none between requests | run a call, or the calls of a group in order | the other side of a ServerCall |
| Guards (`Guardian`, authorization managers) | stored authorizations | check, replace all | consulted before each call |
| JSON database (`dao/jsondb`, `EntityManager_jsondb`) | one file per collection | read all, change, write all | users, authorizations, peers, repositories |
| Accounts (`UserController`, `UserManager_jsondb`, tokens, captcha) | users, tokens | register, edit, remove, reset a password | JSON database, sessions |
| Configuration (`ConfigController`, `XmlConfig`) | one file per configuration | read, change, write | ConfigFile.sync |
| Sessions and server processes (`ProcessManager_session`, `TerminalManager_session`) | pids, terminals | allocate, kill | every request of a session |
| Websocket server (`ApiWebSocketServer`, `WebSocketController`) | a pid file, connections | start, stop, answer | the websocket transport |
| Peer server (`PeerServer`, `PeerController`) | peers, links, clients | attach, send, detach | JSON database, WebRTC clients |
| Packages, git, FTP, themes | files | install, remove, run | the host's programs |

`PROJECT.json` lists each part with its sources and what is modelled of it.

### What is hard in it, and what makes it correct

* *Remote calls.* A call goes through a timer, a group, retries, another group and other
  transports, and its completion runs code that loads more calls before it is marked completed. It must wait in one place only, be completed
  once, not be forgotten, and never change its reply; the transports must not all be given up; the
  page's activity notice must follow the calls that are pending.
* *Operations.* Observers come and go while they are being called, before, during and after the
  completion. Each one must hear of it, and not twice.
* *Saving.* Edits go on while a save is in flight, saves overlap, answers come in any order, are
  refusals or never reached the server. What is taken for saved must be stored, what is staged must
  be in flight, the caller must be called back, and saving must not change what is seen.
* *Processes.* Code runs, stops and calls back processes inside one another, and `stop` rewrites the
  stack those calls will pop, and an exception may leave `run()` without its pop. Nothing else may
  leave an entry on the stack for the next event, a killed process must stay killed, and the current
  process must be the one whose code runs.
* *Scripts.* A script counts as loaded when what it required while it ran has succeeded; which
  calls those are is found out by a global that names the current script and by stacks that every
  execution of a script shares and deletes. A call must succeed only when all it needs has run, and
  in the end it must, unless something could not be read.
* *Files.* Writes, removals, renames and reads overlap, their answers come in any order or not at
  all, and a repeated request is executed twice. The cache, the listing and the texts must say what
  the server has.
* *Server.* Requests read, change and write the same files with no lock, check uniqueness before
  they write, derive identifiers from what they read, and may be killed between two of several
  writes. User names, e-mail addresses and identifiers must stay unique, the number of users within
  its limit and nobody may disappear, however they overlap; each must be one change of the book of
  accounts when none overlaps or is killed.
* *Windows.* What a click or a program does to a window takes effect in two steps, now and when the
  animation ends, and the end of an animation looks for a window to bring to the foreground. One
  window must be in the foreground, where the user looks and above the others, and an animation that
  ends must not take it from there.
* *Websocket.* The server is a process, a file with its pid and requests that look at the file, start
  or kill the process and write the file, in three steps; a page asks, starts, loads a library and
  connects, with two objects that each believe to be the transport, while others do the same. The
  file must name the server that runs, and a message must be answered as long as its socket lives.

The list of hazards, each at its line, is in `PROJECT.json`.

## The modules

### RequestReply, ServerCall

`RequestReply` is the promise: a call that is asked gets one reply, and it never changes; with
fairness, it gets one unless the medium withholds it for ever.

`ServerCall` is `Webos.ServerCall` and `Webos.ServerCall.Group`. One action per handler:

| Action | Code |
|---|---|
| `Load(c)` | `load()` called by the application, from an event or from a completion callback: `setStarted`, then sent at once or pushed on the load stack |
| `LoadScripts(ms)` | `ScriptFile.load`: a group of fresh synchronous calls |
| `FlushLoadStack` | the `setTimeout(0)` of `_addToLoadStack` |
| `Respond`, `FailRetry`, `FailOver`, `FailFinally` | the success and error callbacks of `doRequest` and `doRequestGroup` |
| `Retry(j)` | the `errorDelay` timer |
| `BeginCompletion`, `EndCompletion` | `setCompleted`, split where `Operation#setCompleted` runs the callbacks: other loads happen between the two while the call is still pending |
| `SupportChanges`, `ConnectRefused` | what the page learns of the websocket: `supports()` changes its answer; `connect()` finds the server off and disables the transport |

`jobs` is the set of requests in flight and of retries waiting for their timer; `handler` the stack
of completions under way. A synchronous request blocks the page until it is answered. Transports are
named by their priority, so the sorted object the code walks is an order on numbers.

What is abstracted: arguments, responses and delays; the loop of `load()` that looks for an
identical call never matches and is left out; each call is loaded once by the application; a group's
answer holds an answer for every member (what the server does); reading the global
`usedTransportName` before any call has set it throws, and is modelled as the call going nowhere.
That the server executes a group again when it is repeated is not a matter of this module.
Three details are left out. The standalone transport completes its calls inside `load()`
(`servercall.js:526`-549); the model answers them later, with other events between, and in particular
with none. An observer attached with `on()` that throws leaves `setCompleted()` before the status is
set, and the loop over the other calls of its group (268-275, 1800-1806): observers return here. The
attempts of a call are counted per call, so a retry that is routed to another transport, because what
is supported changed, has used up attempts of the former one; this the model does too.

### Operation

`Webos.Operation` over `Webos.Observable`. `trigger()` walks a copy of the observers, and each one
may register, remove, complete again or throw before the next is called, so a trigger is a stack
frame (`frames`, the innermost last) and each call a step: `On`, `Off`, `SetCompleted`, `CallNext`,
`EndTrigger` (which triggers 'success' or 'error' after 'complete'), `Throw`, and `Deferred`, the timer
of an observer registered on a completed operation. `_observers` is only ever appended to and removed
from, so it is a set in the order of `registered` (the order of the ids `on()` gives); a trigger's copy
is a set too, called in that order. `calls`, `completions`, `late`, `stopped`, `threw` are history.
`Register` is `Observable#on`, to which `Operation#on` (`On`) adds the timer. The specification is
`OperationSpec`, from `OperationInit` and `OperationNext`.

### ModelSync

`Webos.Model` and the five classes that redefine `sync()`: `kind` says which of them the model is,
and `Sent`, `Payload`, `Moved`, `Unstaged`, `Hydrated`, `Throwing` hold what differs between them.
`_unsynced[key]` is `mark` (its state) and `value`; a member of `calls` is what the callbacks of one
request close over. `Edit` is `set` and `unset`; `Sync` is `sync` or `syncIfAllowed`; `Execute` and
`Fail` are the server's side and the network's; `Success`, `Failure`, `LocalSync` are the callbacks,
`SuccessThrows` and `FailureThrows` the same when a handler throws half way.

What is abstracted: a key's value is a model value (objects compared by reference are not); the
server executes a request in one step; reloading a model while it has edits is left out; the
configuration file an Application saves to is taken to be loaded. An Application whose staged keys do
not include its being a favourite sends only `prefered_open` (`src/usr/lib/webos/applications.js:165-178`); the model
sends each staged key. `Payload`'s place in the map is `ConfigFile`'s `sync()`, one of the five it
stands for. `syncIfAllowed` is used on
Applications only (`src/usr/lib/elementary/main.js`), so only that kind can ask for it; no caller
unsets a key of a file or a document.

### ProcessStack

`frames` is the JavaScript call stack reduced to `run()` and `fire()`; `stack` is
`Webos.Process.stack`. `Run`, `Fire` push on both, `Return` pops both, `Stop` kills a process and
those above it and cuts `stack` but not `frames`. `stop()` recurses through the subprocess first:
`StopCalls` is that sequence, and `StopOverflows` what happens when a process comes back in it (the
call stack is exhausted, and the exception goes to the caller).

A call of `run()` is first that of the observers of 'start', then of the main (`Main`). An exception
of main is caught, so main returns either way, but two are not: one thrown by an observer of 'start',
which comes after the push and before the `try`, and one that `Webos.Error.catchError()` throws,
since it calls the interface's error handler unprotected. `Escape` is what they do: neither the pop
nor the change of state takes place. `fire()` has no such way out: its pop is in a `finally` whose
`return` swallows what `catchError()` throws. An observer of 'stop' that throws abandons the `stop()`
calls that wait for it, so `Stop` stops all of them, or those above some process. The observers of
'idle' and 'fire' run after the pop, as code of the caller. `Webos.Authorizations` and keys are left
out; pids are unique.

### Require

`Webos.require()`. The thread's stack is `work`: a sequence of frames, the first one first, each the
rest of a function of `script.js` (`RequireFrame`, `HandleFrame`, `ProcessFrame`, `RanFrame`, and so
on), and one action per kind of frame; `Answer`, `Fail` and `Timer` start it again from a read or
from the timer of an observer that came late. `calls` are the calls of `require()` with their
`loadOperation`, `groups` the executed scripts that wait for the calls on their stack, counting
notifications as `Observable.group` does. `stacks` and `current` are the globals.

What is abstracted: scripts only (a style sheet succeeds at once), read from the server
(`contents` and `process` are left out), each always the same calls in its body (`Deps`) and in the
callback of these (`Later`); what a callback requires belongs to no script (its owner is `Nested`) and
is a script of lower `Depth`. `DepsAssumption` forbids circles, on which the code recurses until the
stack overflows.

### FileCache

`Webos.File._cache`, the `_contents` of one directory and of its files, and every operation of
`WebosFile` on them: each sends a request (`ReadAsText`, `Contents`, `Load`, `WriteAsText`,
`WriteAsBinary`, `CreateFile`, `Remove`, `Rename`, `Copy`, `Move`); the server executes it at any
time (`Execute`), perhaps again (`Repeat`, a retry whose first answer was lost) or refuses it
(`Fail`); its answer is handled in any order (`Has...`). `Refresh` is the file manager's reload,
`ClearCache` what login and logout do. JavaScript objects are `Slots`, so that two objects for one
path can be told apart.

A path is *doubtful* when what the client knows of it may legitimately be old: two requests about it
overlapped and one changes it, a request was executed and answered by an error, or it took over from
such a path. `Coherent` is about the others. Left out: the authorizations of a process (taken to be
granted), directories inside the directory, other clients of the same files.

### AccountBook, Accounts

`AccountBook` is what the tables promise: people, and what they may do, that change by whole
operations, one at a time. `Accounts` is `UserController` with `UserManager_jsondb`, the token and
authorization managers and the JSON database under them: a table is a file, a request keeps its own
copy of each table it has read (`BackController` makes new data-access objects for each call), and
reading, truncating, writing and the next manager call are separate steps, between which other
requests run and at any of which the request may be killed. Ids are one more than the last row's of
the copy.

`SetAttributes` is `executeSetMultipleAttributes()`, which accepts whatever the entity has a setter
for: the e-mail address (`user.edit`), but also the name, the enabling and even the id
(`user.manage`). `AttributeLists` are the lists a caller may give; `Edited` is the row they make, and
`Update` refuses a name or an address that the replaced row had not and another one has. With the id
among them it is somebody else's row that is replaced. `SetEnabled` is the same call with one attribute.

`settled` holds who was in the table when nothing last ran, with his id and name; a request to remove
him takes him out of it, and one to rename him adds the name he may have from then on. `SettledKept`
says that each id of them is in the file under one of its names. A rename is a step of the book like
any edit: authorizations are stored by id, so they follow it.

`UniqueRows`, `LimitKept` and `SettledKept` hold although the code has no lock: what a request
writes back is the whole of what it has checked. Updates may be lost, and ids taken twice, one after
the other; `saved`, which `BookKept` compares with `AccountBook`, is the book as long as no request
has overlapped another or been killed. The tables are shipped with authorizations of ids that
nobody has; a new person may therefore take over a *legacy* (`Legacies`, computed from the shipped
tables) besides the list he is given, and the instance has such a row. Requests of one session never overlap: PHP's session
file is locked by them. Left out: the real name (no step reads it), the avatar and the home directory
(which a rename leaves under the old name), the captcha,
`requireVerifiedEmail` (only an administrator's list of attributes can set `emailVerified`, so that it
locks out everybody who registers; `Login` may be refused in any case);
`_autocompleteUserId(null)` skips a check the model always makes.

### Windows

The windows of `compiz`: which are in the document (`attached`), opened, closing, hidden, displayed;
which is marked as in the foreground and all z-indexes (`layers`); `running` and `queued` are
jQuery's animations. Animations last equally long, so they end in the order they start, but those of
`open` and `close` of one window queue behind one another. `Open`, `Close`, `Press` (a mouse click),
`HideButton`, `Toggle` (the task bar) and `Switch` are what users and programs do; `EndOpen`,
`EndClose`, `EndHide`, `EndShow` what animations do when they end.

What is abstracted: geometry, maximising and dragging; a window is opened once (main windows are
destroyed after closing, programs build a dialog for each use) and has one dialog at most; the
window of another workspace that is dragged to this one. A dialog opened while its parent is in
another workspace belongs to the wrong one (`Astray`): raising the parent then marks a window nobody
sees, and the properties are about the others.

### SocketServer, WebSocket

`SocketServer` is `sbin/server.php` and `WebSocketController`: `process` is what each process the
host has started does, `pidFile` what the file says, `request` the requests that run. Each reads or
writes the file once per step: `Report` (`getServerStatus`), `Choose` (`restartServer`), `CheckStop`,
`Kill`, `Clear` (`stopServer`), `CheckStart`, `Launch`, `Write` (`startServer`); `Boot` is the new
process, which writes its pid too where PHP has `posix_getpid()` (`config.posix`), `Bind` the port it
takes or does not get. `Run` is the script run from the command line, as the repository's Procfile
does, on the configured port or, with `-p`, on another (*aside*). `Kill` may fail, which the request
does not notice. `Die` kills a request, or loses its answer; `Crash` ends a server.

`mixed` records that the order the file relies on has been broken: two starts or stops overlapped, one
was killed half way or could not kill, or a server was run by hand while another was alive, while a
request was starting or stopping one, or by a PHP that cannot write its pid. Then a server may listen
that the file does not name (`PidFileNamesServer`, `ClearedIsDead`), and `ServerKnown` promises
nothing. Without any of it, it must hold at each step.

`WebSocket` extends it with a page. `phase` is how far each `connect()` has come (*asking* the
status, *starting* the server, *requiring* the library, then its socket: *opening*, *ready*, *closed*),
`place` where each message is (*waiting* for a connect, *queued* on a socket, *sent*, *back*).
`registerTransport()` has copied the object, so `connecting` has two entries, while the socket and
the status are shared. `Supports`, `Subscribe` and `Send` connect; `StatusAnswered`,
`StartAnswered`, `ConnectRefused` are the callbacks; `LibraryLoaded`, `Welcome`, `OpenFails`,
`Close` the socket's; `Serve` and `Answer` a call over it; `Order` what the control panel and other
pages ask of the server.

What is abstracted: the requests of `SocketServer` read the file and run `ps` in one step;
authorisation to start is a choice of `Launch`; subscriptions and publication, sessions and the
contents of messages are left out; so is an error of the socket after its welcome, which would complete
the waiting operations again. `kill 0`, when another request has cleared the file, refuses
the request. A page calls nothing before `supports()` has been asked (`Asked`): every call asks it.

## The runs

| Run | Instance | What it shows |
|---|---|---|
| `servercall` | 4 calls, two synchronous; ajax, websocket and standalone; 2 attempts | the safety of calls: one owner, one completion, none forgotten, the last transport never missed, a request given up only when the last transport has failed it, the activity notice |
| `servercall_standalone` | 4 calls, two of them scripts, one to another host | groups no transport carries: calls that complete without being sent keep the promise |
| `servercall_live` | 3 calls; ajax and a websocket that may never answer | every loaded call gets its one reply, unless it stays for ever in a request the websocket never answers |
| `operation` | 4 observers, 2 completions | each is told, at most once per completion |
| `modelsync` | the five kinds, 2 keys, 2 values, 2 syncs in flight, 3 in all, 3 edits | what is saved is stored, what is staged is in flight, callers are called back, saving does not change what is seen |
| `modelsync_retry` | a ConfigFile, one sync at a time | *violated*: what the model takes for saved is stored |
| `process` | 3 processes, 5 calls deep, any of them left by an exception | the stack between events, states, killed processes |
| `require` | 5 scripts, one optional, 3 calls, 1 failed read | a call succeeds when, and only when, all it needs has run; the stacks are found; in the end every call is reported |
| `filecache` | 2 files, 2 texts, 3 objects, 3 requests | what the client keeps of an undisturbed file is what the server has |
| `accounts` | 3 requests, 1 overlap | unique users, the limit, nobody lost or renamed unasked, with overlapping and killed requests; `Accounts` implements `AccountBook` while there are none |
| `windows` | 2 windows and a dialog, 2 workspaces, 5 z-indexes, 1 renumbering | one foreground window, seen and on top; dialogs above their windows; the ends of animations leave it alone |
| `websocket` | 1 message, 2 connects, 2 server processes, 2 requests at a time, 1 other order, 1 fault or start by hand | the server that listens is the one the file names; messages are answered unless their socket is closed |

*Bounds.* Two calls make a group, which the two others join, overtake or are loaded from the
callbacks of, synchronously or not; two attempts make a first failure that retries and a second that falls
over; three transports make a fallback from which one can fall back again. Two completions and four
observers (one per event, and a second on 'success' made with `once`) cover an observer that removes
or registers another while both are being called. In ModelSync a key must be edited, edited in
flight and edited again (three edits), two requests must overlap in both orders and a third follow
a failure. A process that comes back in a `stop` needs the stack `[A, B, A]`, three deep; five leave
room for calls around and inside it. Five scripts make a chain of three with a callback that
requires a fourth and an optional fifth; three calls overlap twice on the same script. Three
requests on two files make two that overlap and a third that follows from their answers; a rename
or a copy with its source in use needs both files and a third object. Three account requests make
an overlap of two and a third that inherits what they left (an id that is used again). Two lists of
attributes are given, the e-mail address, and an id with a name (which includes the plain rename, with
one's own id): 2.8 million states in all, the largest run, some two and a half minutes. Five z-indexes
are used up by three windows and two presses, so that the renumbering is reached with windows at the
bottom and above it; two animations under way when a third is asked for make three that overlap, and
a window that hides or closes while another comes. (Four windows with two dialogs, three
animations, and seven z-indexes were checked too: 4, 24 and 2 million states.) `attempts` need no bound: the code's own keeps it finite. Two connects make one of each
object, or a socket that replaces another; two requests an overlap; two processes a server that is
started again, or beside another; one order of the panel or of another page comes between any two
steps of the connects, which ask and start too. (Two messages were checked for safety: 3.6 million
states.)
`MaxDepth`, `MaxEdits`, `MaxSyncs`, `MaxInFlight`, `MaxCompletions`, `MaxCalls`, `MaxFails`,
`MaxRequests`, `MaxOverlaps`, `MaxWraps`, `MaxAnimations`, `MaxMessages`, `MaxConnects`, `MaxOrders`,
`MaxPids` and `MaxFaults` bound nothing in the code and
are constants of the theorems too.

*Deadlock* is checked in `process`, where some process can always be fired or left. It is off where
the system may stop: all calls answered, all edits and syncs of the bound made.

*Fairness.* `ServerCall!Fairness` has two parts. The browser runs timers that are due and finishes
handlers it has started (weak fairness of `System`). A transport outside `Lossy` answers each
request: `$.ajax` always calls `success` or `error`. The websocket's `onClose` only writes to the
console (`servercall.js:1245`), so nothing is assumed of it: it is in `Lossy`, and the calls kept by
it are `withheld` in `RequestReply`. `Require` assumes the same of its world: the thread goes on,
timers that are due run, and each file asked for is answered or fails, since the read is such a
call. `WebSocket` assumes that PHP's requests and the host's processes go on, that each ajax request
is answered or fails, that a library is read or not, that a socket opens or fails to, carries what
it is given while its server lives, and closes once that has died. It assumes nothing of a server
that lives and closes a socket, which may happen or not. No other specification states fairness.

## What is proved

Assumptions: only the named `ASSUME`s of each module (calls, transports, priorities as naturals, at
least one attempt; `Undefined` is not a value; finitely many processes). The bounds are arbitrary.

*ServerCall* (`ServerCall_proofs`).

1. `TypeCorrect`, `FlushArmedCorrect`. `TypeOK` is not inductive: a flush of an empty stack would
   send a group without members. `QueueType` therefore holds the types of the queue with
   `FlushArmed`; `CountType` and `RestType` are the other variables.
2. `BookkeepingCorrect`, from which `OneOwnerCorrect` and `CompletedOnceCorrect`. `Exclusive` alone
   does not survive a load: it must be known that a fresh call is nowhere, and that what waits has
   not been completed. `Traced` says so of *any* stack, jobs, frames and asked set, so that the
   lemmas follow the code: take a job out (`TakeJobTraced`), add one (`AddJobTraced`), push
   (`PushTraced`), complete (`CompleteTraced`), then `Dispatch` and `Route` from these.
3. `PromiseCorrect`: `ServerCall` implements the safety part of `RequestReply`; each step is an
   `Ask`, a `Reply` or a stutter. It rests on completions running once.
4. `NeverReopenedCorrect`, `BusyWhilePendingCorrect`, `LastResortEnabledCorrect`, on the same
   invariant. The notice is right because `StatusStep` shows that the pending set changes by one
   call, or by a whole script group, with the test the code makes.
5. `LastResortFoundCorrect`, `NoneForgottenCorrect`, when the last resort carries every call and every
   group (`CarriesAll`: ajax, in every page but a standalone one). Without that a group can mix a call
   the last resort carries with one it does not, and both complete for lack of a transport. By
   `Tended` a loaded call has an owner until it is completed: each `...Keeps` lemma shows that a step
   hands the call on, because whatever is sent again finds the last resort (`CarriedByIt`).
6. `UnreachableAtLastCorrect`, an action property. Only `FailFinally` answers `unreachable`
   (`GivenUpByFailure`), and what a request found accepted when it was sent holds the last resort
   (`LastResortAccepted`, invariant because the last resort stays enabled and supported): a request
   without a next transport is over the last resort, and then its retries are used up.

*ModelSync* (`ModelSync_proofs`). `ViewCorrect` needs no invariant of the handlers: keys that are
moved had an entry, and moving an entry's value keeps what is seen. The others follow from
`SyncInv`: the types, every key of a pending request of a model saved alone still has its entry
(`EntriesKept`), only an Application asks for the fallback (`LocalIsApp`), what a file's answers
carry is what is stored (`FileCarries`), with the four properties themselves. `SavedMeansReceived`
is not inductive for a ConfigFile: one must know that what is staged is what the one request carries
(`InFlightBookkeeping`), which an edit in flight leaves true because it takes the key out of the
staged ones.

*ProcessStack* (`ProcessStack_proofs`). `TypesKept`, `RunningCorrect`, `KilledCorrect` and
`LeftoversCorrect`: the stack is never longer than the calls in progress and the calls of `run()` that
an exception has left (`StackInv`), although it may hold entirely other processes. To count the
latter one must know that a process is run once (`RunOnce`): a second exception of the same one
would leave a second entry and be counted once.

*Require* (`Require_proofs`). `AlwaysTyped`, `StackAlwaysFound`, `NothingCountedTwice` and
`SuccessAlwaysMeansLoaded`, for any acyclic set of scripts. The work is in what a frame may rely on.
`Contexts` says which script is current when each frame of the thread runs, and that the frame which
puts a call on a stack comes before the end of the script it was made by (`AttachedLast`): so the stack is there
(`InContext`), although `onLoadFn` of another execution of the same script may have deleted it before. `Counts`
says that each file of a call is in one place (a frame, a waiter, a group) until it is loaded, and that
each call a group observes is told of once (`Counted`, `Finished`, `Notified`): neither counter can
pass its end. `Sound` says that the cache is closed under what bodies require, up to what is
optional: it is the set that `SuccessMeansLoaded` asks for.

*Accounts* (`Accounts_proofs`). `TypesKept`, `RowsStayUnique`, `SettledStay`, `LimitStays`, for any
requests, names and number of overlaps. Their invariant speaks of the files and of every copy alike
(`Fit`: ids ascend, users differ), since any copy may become the file; `Counted` follows the number a
registration has compared with the limit, `Kept` says that whoever is settled is in every copy that
has been read, under a name he may have, and that no request under way removes him or gives him
another (`Spares`). The row a request replaces keeps its name or gets the given one (`Becomes`): with
a given id and no name, it would get the name of the row it comes from, which `update()` refuses.

`BookStaysKept` proves the refinement. Its invariant, `Solo`, is about the time before requests
overlap: one request at most runs, its copies are the files but for the one it is writing, and
what the tables it sees say is what its calls so far have made of the book there was when it began
(`Progress`). That depends on what it was asked and on the calls still pending: a new user has the
part of the list that was granted, with what the table held for his id (`Enrolling`); the old rights
are going and the new ones coming (`Authorizing`); a user leaves after all his rights (`Removing`);
any other call changes one row (`Editing`), and what was granted to its user goes with his name
(`ChangePerson`). `Orderly` says in which order calls come, so that a
request may end at every place where it can be refused (`EndWhole`): before it has changed anything,
or when nothing is left to do. `StraysKnown` keeps what waits for the ids nobody has among the
legacies. Each call of a manager is shown to keep the progress, each plan of a controller to start with it.

*FileCache* (`FileCache_proofs`). `TypesKept`, `CoherenceKept`. `Coherent` speaks of the
files nothing is under way for; `Good` strengthens it by what is under way: the requests about a file
that is not doubtful do not overlap, its objects are what they were when its one request was sent,
and what the request finds and does on the server (`Expected`) is what its answer will make of them.

*Windows* (`Windows_proofs`). `TypesKept`, `ForegroundStaysOnTop`, `DialogStaysAbove` and
`FocusStays`, for any windows, workspaces and z-indexes. Their invariant (`IInv`) has two parts. `Shape`
is about windows: dialogs form a forest, the displayed open ones are in the current workspace, and
an animation that closes belongs to a window that has been closed. `Ordered` is about z-indexes, of
*any* layers: none is above the last one given out (`Layered`), the foreground window is alone here
and above all (`Front`), a dialog is above its window (`Above`); the order of z-indexes is claimed up
to the first renumbering, which breaks it. `Lifted`, `Raised` and `Activated` follow the code (one
window gets a new z-index, then its dialogs, and the others are unmarked), and each action that
touches the foreground is one of them after a change of the windows.

*Operation* (in `WebSocket_proofs`: `connect()` hands its callers one of these operations).
`OperationTypesKept`, `HeardOnce` and `EveryoneIsTold`, for any observers, events and number of
completions. Their invariant, `OperationInv`, has to say what is still to come. `Numbered`: the calls
an observer has heard, the triggers under way that will call it or whose outcome will (`Pending`, counted
with `Cardinality`) and its timer are together no more than the completions; `On` on a completed
operation is where a late observer would break it, and why it excludes those. `Told`: after the only
completion, whoever is concerned by it has heard of it, has been removed, or waits in a timer, in a
trigger's list, or for an outcome that is still to be triggered.

*WebSocket* (`WebSocket_proofs`). `TypesKept` and `ServerStaysKnown`. `ServerKnown` says what is so
when a process listens; `Alone` says it of every step before: while one request at most meddles,
one process at most is alive, the file names it, or the request that has started it is about to write
it (`write`), or it has been run by hand, no request meddles, and it is about to write itself; and
nothing is alive between a check that found no server, or a kill, and what follows. `PageRequest` is all a page does to requests (it takes an answer, makes one, or both), and
each of the page's actions is shown to be it, so that the argument about the file is made once.

*Model-checked only.* Liveness (`PromiseKept`, `AllReported`, `AnsweredOrLost`) is beyond the proof system, which
proves no liveness and no `ENABLED`. Every invariant and every action property the runs check is a
theorem.

## What the code does otherwise

One run ends in a violation, by steps the code takes: in `modelsync_retry` a failed save leaves its
keys staged, and the next save that succeeds takes them for saved.

### Disagreements without a run of their own

Met while modelling; to see one, give TLC the property and the constants named here.

| Property | Instance | What happens |
|---|---|---|
| `ServerCall!CompletedCallsListed` | 2 calls over ajax | `callComplete()` clears the call's slot, so `getCompletedCalls()` finds none and the keep-alive ping of `user.js` never starts (`servercall.js:1489`) |
| `ServerCall!IndicatorCountsPending` | as `MC_ServerCall` | a fallback resets the attempts, and the network indicator counts the call as new (`servercall.js:229`; `network.js:35` "Queries being loaded") |
| `ServerCall!AttemptsCounted` | as `MC_ServerCall` | the flushed group is sent without `setStarted` (`servercall.js:1514`; `:1639` "The number of attempts") |
| `Operation!OnceCalledOnce` | 2 observers, `Once = {o2}`, 1 completion | an observer made with `once` while completing hears twice (`operation.js:63`; `observer.js:79`) |
| `Operation!StoppedListening` | 2 observers, 1 completion | `off()` does not reach the timer of a late observer (`operation.js:63`; `observer.js:102` "Stop listening to an event") |
| `ProcessStack!CurrentRuns` | as `MC_ProcessStack` | after a `stop()` inside another process's code, `run()` and `fire()` pop entries that are not theirs (`process.js:127`; `:224` "Get the current process") |
| `ProcessStack!NoneBetweenEvents` | as `MC_ProcessStack`, `MaxDepth = 2` | an observer of 'start' that throws, or `catchError()` (`process.js:98`, `:120`; the comment at `:115`, "This method could throw an error and thus the key would not be unset"), leaves `run()` before its pop: the process stays running, and is what `current()` returns between events and what their callbacks are bound to |
| `ProcessStack!StopKills` | as `MC_ProcessStack` | with `[A, B, A]` on the stack, `stop` recurses for ever and kills nothing (`process.js:156`) |
| `ModelSync!LastSetWins` | as `MC_ModelSync` | `set` compares with the saved value and ignores an edit back to it (`model.js:104`) |
| `ModelSync!SavedIsStored` | `Kinds = {"data"}` | an edit made in flight is taken for saved with the older one (`data.js:115`) |
| `ModelSync!StagedIsCarried` | `Kinds = {"app"}` | all changes are staged, only 'favorite' is sent (`applications.js:131`) |
| `ModelSync!OnlyEditsChangeTheView` without its condition on `kind` | `Kinds = {"file"}` | the answer's metadata replaces what is seen (`file.js:1782`) |
| `SocketServer!PidFileNamesServer` | as `MC_WebSocket` | two requests that start overlap (two pages with autoStart): the server that got the port is not the one whose pid is written last (`WebSocketController.class.php:73`; `server.php:43` "Fill proc file with current pid") |
| `SocketServer!ClearedIsDead` | as `MC_WebSocket`, `MaxRequests = 1`, `PanelOrders = {"stop"}`, `OtherOrders = {}` | `executeStopServer()` takes a kill for failed when it has printed something, but `kill` complains on the standard error, which `shell_exec()` does not return: the file is cleared, the request succeeds, and the server listens on (`WebSocketController.class.php:121`; `:123` "Cannot stop server: ") |

Others lie outside what the models express, and were met while their code was read.

* `script.js`: circular requires recurse until the stack overflows; a script required again while
  its dependencies load is executed twice, though `forceExec` is documented as the way to ask for
  that; the failure of a nested require is never reported to the outer call (`oneEach('error')`
  waits for a notification nothing sends); a `process` function that returns `true` counts its file
  twice; whether a script waits for what its callback requires depends on timing.
* `file.js`: `writeAsBinary` leaves the old text in `_contents`, so `readAsText` returns it; an
  object that was removed or renamed and is written through by a caller that still holds it pushes
  itself into the listing, uncached; a copied folder shares the listing array of the original; a
  refused read calls `error` twice.
* `UserController`: `executeRegister` uses `$emailManager`, which is not defined, so that with mail
  enabled the request dies after it has created the user; `executeGetAttributes` tests an undefined
  variable and always answers 404; the tokens of a removed user stay, for the next user who is given
  the id; a list of attributes may give an id, and it is then another user's row that is replaced.
  `users_permissions.json` is shipped with authorizations of the ids 2 and 3, which nobody has
  in `users.json`: the first two users created have them whatever list they are given.
* `compiz/widgets.js`: `hide()` looks for the active window before it marks its own as hidden, so
  that the hidden window may be the one it brings to the foreground; in `show()`, `typeof
  childWindow.length > 0` is never true and a dialog hidden with its window stays hidden; a window
  hidden twice while it fades keeps a size between the two; `open()` during the closing animation
  ends with a window that is opened and detached; `requestZIndex()` leaves the windows at the bottom
  of the range where they are, so that after the renumbering they are above newer ones, which have
  gone below the range; closing the older of two dialogs unlinks the newer one; changing workspace
  leaves no window in the foreground.
* The websocket transport: a `connect()` with a known status does not set `_connecting`, so several sockets
  may be opened, each replacing the last; `_socket` is not reset when it closes and nothing calls
  `reconnect()`, so messages are queued on a dead socket for ever; a `connect()` is never completed
  when the server is stopped while the library loads (`getServerLocation()` is null), or when the socket
  closes before the welcome; a library that cannot be read leaves `_loadingDependencies` set. On the
  server, `catch (Exception $e)` in a namespace (`ApiWebSocketServer.class.php:83`) catches nothing.
* Peers: `PeerManager` inverts its test of existence; `executeRegisterPeer` stores the wrong kind of
  row; `PeerController` and `PeerLinkManager` use several variables that are not defined; a
  connection that is refused is closed and then handled as if it were accepted.

## Plan

1. `ConfigStore`, which replaces the atomic `Execute` of ModelSync by the server's read and write,
   composed with it, and `EntityManager`, the JSON database's other user.
2. `Session` (login and getLogged answers out of order), the mount table, `PeerServer`.
3. `WebSocket` in the place of `ServerCall`'s environment: its supports(), refusals and answers are
   those `ServerCall` takes as choices, but a refinement has to relate their two lists of messages.
4. Proofs of what is only model-checked (above); `CurrentRuns` for processes that do not stop one
   another.

## Not modelled

User interface code, themes and applications but for the window manager (DOM code, seen here as
callers); translations, errors, collections, CSS and XML helpers (write-once caches, no protocol);
git, FTP, packages, the marketplace (host programs and services, one call each); vendored libraries.

The share of the repository's lines these modules stand for is small and will stay so. Most of its
lines are libraries kept in `usr/lib` and `lib/vendor` (XMPP, encryption, PDF, editors, emulators,
WebRTC) and applications and widgets that build DOM trees in straight lines and hold no state a
second actor can disturb. The parts where several actors meet are the kernel, the server's tables,
its sessions and its two socket servers; of these the modules above cover the first two and the
websocket server.
