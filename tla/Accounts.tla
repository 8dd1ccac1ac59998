------------------------------ MODULE Accounts ------------------------------
(***************************************************************************)
(* The accounts of the server: UserController over the JSON tables of      *)
(* lib/dao/jsondb.                                                         *)
(*                                                                         *)
(* A table is one file.  A request reads each file once, when it first     *)
(* needs it, keeps the collection for as long as it runs (Database::open   *)
(* and File::read cache it) and changes it in place; every change writes   *)
(* the whole file back.  Nothing locks the files: requests of different    *)
(* sessions run at the same time, a file is truncated before it is         *)
(* written, and a request may be killed at any point (set_time_limit).     *)
(***************************************************************************)
EXTENDS Integers, FiniteSets, SequencesExt

CONSTANTS
  Requests,      \* the PHP processes
  Names,         \* user names
  NewNames,      \* the ones a new user asks for
  Emails,        \* e-mail addresses
  NewEmails,     \* the ones a new user gives
  AttributeLists, \* the lists of attributes a caller gives a user
  Rights,        \* authorizations
  GrantLists,    \* the lists of authorizations a caller gives a user
  DefaultGrants, \* `authorizations' of /etc/register.json
  MaxUsers,      \* `maxUsers' of /etc/register.json, -1 for no limit
  MailEnabled,   \* `enabled' of /etc/email.json
  Shipped,       \* the tables the server starts with
  MaxRequests,   \* bound: requests begun
  MaxOverlaps    \* bound: those of them begun while another one runs

None == "none"
Passwords == {"old", "new"}
Attributes == {"id", "name", "email", "enabled"}

ASSUME NamesAssumption == NewNames \subseteq Names /\ NewEmails \subseteq Emails

ASSUME ListsAssumption ==
  /\ AttributeLists \subseteq SUBSET Attributes
  /\ GrantLists \subseteq Seq(Rights)
  /\ DefaultGrants \in Seq(Rights)

ASSUME LimitsAssumption ==
  /\ MaxUsers \in Int
  /\ MaxRequests \in Nat /\ MaxOverlaps \in Nat
  /\ MailEnabled \in BOOLEAN

Kinds == {None, "create", "register", "edit", "password", "enable", "authorize", "remove",
          "connect", "ask reset", "reset"}
Tables == {"users", "rights", "tokens"}

UserRow  == [id : Nat, name : Names, email : Emails, enabled : BOOLEAN, password : Passwords]
RightRow == [id : Nat, userId : Nat, right : Rights]
TokenRow == [id : Nat, userId : Nat, key : Nat]
Row(t) == CASE t = "users" -> UserRow [] t = "rights" -> RightRow [] t = "tokens" -> TokenRow

VARIABLES
  disk,     \* [Tables -> Seq(Row)]: what the files hold
  torn,     \* the files that cannot be read: truncated or malformed
  task,     \* [Requests -> what the request was asked], or the idle task
  todo,     \* [Requests -> Seq]: the calls its controller has still to make
  read,     \* [Requests -> SUBSET Tables]: the files it has read
  copy,     \* [Requests -> [Tables -> Seq(Row)]]: the collections it keeps
  writing,  \* [Requests -> Tables or None]: the file it has truncated
  late,     \* requests whose file another one has written since it was truncated
  begun,    \* requests begun
  overlaps, \* requests begun while another one ran
  keys,     \* token keys generated
  mailed,   \* what was mailed: tokens and their keys (history)
  mixed,    \* some request overlapped another one or was killed (history)
  saved,    \* the book of accounts when the last request ended, until mixed (history)
  settled   \* who was there when nothing last ran and is not being removed, under
            \* that name and those asked for him since (history)

fileVars    == <<disk, torn>>
requestVars == <<task, todo, read, copy, writing, late>>
countVars   == <<begun, overlaps, keys, mailed>>
historyVars == <<mixed, saved, settled>>
vars == <<fileVars, requestVars, countVars, historyVars>>

Idle == [kind |-> None, name |-> None, email |-> None, id |-> 0, token |-> 0, key |-> 0,
         enabled |-> FALSE, given |-> {}, target |-> 0]

Running == {r \in Requests : task[r].kind # None}

(* The tables as the book of AccountBook: a row of users_permissions counts *)
(* for the user who has the id now.                                         *)
BookOf(tables) ==
  [people  |-> {[name |-> u.name, email |-> u.email, enabled |-> u.enabled,
                 password |-> u.password] : u \in ToSet(tables["users"])},
   granted |-> {<<p[1].name, p[2].right>> :
                 p \in {q \in ToSet(tables["users"]) \X ToSet(tables["rights"]) :
                           q[1].id = q[2].userId}}]

Persons(rows) == {<<u.name, u.id>> : u \in ToSet(rows)}

Init ==
  /\ disk = Shipped
  /\ torn = {}
  /\ task = [r \in Requests |-> Idle]
  /\ todo = [r \in Requests |-> <<>>]
  /\ read = [r \in Requests |-> {}]
  /\ copy = [r \in Requests |-> [t \in Tables |-> <<>>]]
  /\ writing = [r \in Requests |-> None]
  /\ late = {}
  /\ begun = 0
  /\ overlaps = 0
  /\ keys = 0
  /\ mailed = {}
  /\ mixed = FALSE
  /\ saved = BookOf(Shipped)
  /\ settled = Persons(Shipped["users"])

-----------------------------------------------------------------------------
(* Rows of a table. *)

(* A mutant: the id is the number of rows. *)
CountedId(rows) == Len(rows)

(* $items->last()['id'] + 1, or 0 for an empty table. *)
NextId(rows) == IF rows = <<>> THEN 0 ELSE Last(rows).id + 1

HasId(rows, n)    == \E i \in DOMAIN rows : rows[i].id = n
HasName(rows, n)  == \E i \in DOMAIN rows : rows[i].name = n
HasEmail(rows, e) == \E i \in DOMAIN rows : rows[i].email = e
HasOwner(rows, n) == \E i \in DOMAIN rows : rows[i].userId = n

FirstOwned(rows, i, n) ==
  rows[i].userId = n /\ \A k \in 1 .. i - 1 : rows[k].userId # n

-----------------------------------------------------------------------------
(* Files. *)

(* The calls a controller makes, by the file they need. *)
Verbs == {"control", "lookup", "verify", "exists", "limit", "add user", "set attributes",
          "set password", "rehash", "drop user", "revoke", "login", "find",
          "old token", "add token", "mail", "die", "check token", "drop token"}
Rest == {"mail", "die"}

(* _controlAuthorizations() of a logged caller, and getById() whose result  *)
(* nobody tests, only read; each comes first for its table.                 *)
Reads == {"control", "lookup"}

TableOf(verb) ==
  CASE verb \in {"control", "revoke", "grant"} -> "rights"
    [] verb \in {"old token", "add token", "check token", "drop token"} -> "tokens"
    [] OTHER -> "users"

Verb(r) == Head(todo[r])[1]
Busy(r) == task[r].kind # None
At(r, verb) ==
  /\ Busy(r)
  /\ writing[r] = None
  /\ todo[r] # <<>>
  /\ Verb(r) = verb
  /\ verb \in Rest \/ TableOf(verb) \in read[r]

(* A mutant: the collections outlive the request. *)
ForgetTaskOnly(r) ==
  /\ task' = [task EXCEPT ![r] = Idle]
  /\ todo' = [todo EXCEPT ![r] = <<>>]
  /\ writing' = [writing EXCEPT ![r] = None]
  /\ late' = late \ {r}
  /\ UNCHANGED <<read, copy>>

(* The request is over, answered or not, and its process forgets all. *)
Forget(r) ==
  /\ task' = [task EXCEPT ![r] = Idle]
  /\ todo' = [todo EXCEPT ![r] = <<>>]
  /\ read' = [read EXCEPT ![r] = {}]
  /\ copy' = [copy EXCEPT ![r] = [t \in Tables |-> <<>>]]
  /\ writing' = [writing EXCEPT ![r] = None]
  /\ late' = late \ {r}

End(r) ==
  /\ Forget(r)
  /\ saved' = IF mixed THEN saved ELSE BookOf(disk)
  /\ settled' = IF Running = {r} THEN Persons(disk["users"]) ELSE settled
  /\ UNCHANGED <<fileVars, countVars, mixed>>

Advance(r) ==
  /\ todo' = [todo EXCEPT ![r] = Tail(@)]
  /\ UNCHANGED <<fileVars, read, copy, writing, late, historyVars>>

Pass(r) == Advance(r) /\ UNCHANGED <<task, countVars>>

(* Collection changed, then File::write: the file is truncated first. *)
Store(r, t, rows) ==
  /\ copy' = [copy EXCEPT ![r][t] = rows]
  /\ writing' = [writing EXCEPT ![r] = t]
  /\ torn' = torn \cup {t}
  /\ UNCHANGED <<disk, read, late, begun, overlaps, historyVars>>

Change(r, t, rows) ==
  /\ Store(r, t, rows)
  /\ todo' = [todo EXCEPT ![r] = Tail(@)]

(* File::read: the first time only, and a file that is not JSON is an error. *)
Open(r) ==
  /\ Busy(r) /\ writing[r] = None /\ todo[r] # <<>> /\ Verb(r) \notin Rest
  /\ LET t == TableOf(Verb(r)) IN
     /\ t \notin read[r]
     /\ \/ t \in torn /\ End(r)
        \/ /\ t \notin torn
           /\ read' = [read EXCEPT ![r] = @ \cup {t}]
           /\ copy' = [copy EXCEPT ![r][t] = disk[t]]
           /\ todo' = [todo EXCEPT ![r] = IF Verb(r) \in Reads THEN Tail(@) ELSE @]
           /\ UNCHANGED <<fileVars, task, writing, late, countVars, historyVars>>

(***************************************************************************)
(* The contents follow the truncation.  When another request has written   *)
(* the file in between, these contents go over its own, and what is left   *)
(* of longer ones makes the file malformed.                                *)
(***************************************************************************)
Put(r) ==
  /\ writing[r] # None
  /\ LET t == writing[r] IN
     /\ \/ /\ disk' = [disk EXCEPT ![t] = copy[r][t]]
           /\ torn' = torn \ {t}
        \/ r \in late /\ torn' = torn \cup {t} /\ UNCHANGED disk
     /\ late' = (late \ {r}) \cup {q \in Requests \ {r} : writing[q] = t}
  /\ writing' = [writing EXCEPT ![r] = None]
  /\ UNCHANGED <<task, todo, read, copy, countVars, historyVars>>

(* The process is killed: a file it has truncated stays so. *)
Kill(r) ==
  /\ Busy(r)
  /\ Forget(r)
  /\ mixed' = TRUE
  /\ UNCHANGED <<fileVars, countVars, saved, settled>>

Answer(r) == Busy(r) /\ writing[r] = None /\ todo[r] = <<>> /\ End(r)

-----------------------------------------------------------------------------
(* The calls of the managers. *)

Users(r)  == copy[r]["users"]
Owned(r)  == copy[r]["rights"]
Tokens(r) == copy[r]["tokens"]

(* The password of the caller is not the one he gives. *)
Verify(r) == At(r, "verify") /\ (Pass(r) \/ End(r))

(* _autocompleteUserId(). *)
Exists(r) ==
  /\ At(r, "exists")
  /\ IF HasId(Users(r), task[r].id) THEN Pass(r) ELSE End(r)

(* executeCanRegister(). *)
Limit(r) ==
  /\ At(r, "limit")
  /\ IF MaxUsers >= 0 /\ Len(Users(r)) + 1 > MaxUsers THEN End(r) ELSE Pass(r)

(* A mutant: insert() reads the file again. *)
AddUserRereading(r) ==
  /\ At(r, "add user")
  /\ LET n == NextId(disk["users"]) IN
     IF HasName(disk["users"], task[r].name) \/ HasEmail(disk["users"], task[r].email)
     THEN End(r)
     ELSE /\ Change(r, "users",
               Append(disk["users"], [id |-> n, name |-> task[r].name, email |-> task[r].email,
                                      enabled |-> task[r].enabled, password |-> "old"]))
          /\ task' = [task EXCEPT ![r].id = n]
          /\ UNCHANGED <<keys, mailed>>

(* UserManager::insert(). *)
AddUser(r) ==
  /\ At(r, "add user")
  /\ LET n == NextId(Users(r)) IN
     IF HasName(Users(r), task[r].name) \/ HasEmail(Users(r), task[r].email)
     THEN End(r)
     ELSE /\ Change(r, "users",
               Append(Users(r), [id |-> n, name |-> task[r].name, email |-> task[r].email,
                                 enabled |-> task[r].enabled, password |-> "old"]))
          /\ task' = [task EXCEPT ![r].id = n]
          /\ UNCHANGED <<keys, mailed>>

(* UserManager::update(): the row with the id of the given one is replaced. *)
Update(r, row) ==
  \/ ~HasId(Users(r), row.id) /\ End(r)
  \/ \E i \in DOMAIN Users(r) :
       LET old == Users(r)[i] IN
       /\ old.id = row.id
       /\ IF \/ row.name # old.name /\ HasName(Users(r), row.name)
             \/ row.email # old.email /\ HasEmail(Users(r), row.email)
          THEN End(r)
          ELSE /\ Change(r, "users", [Users(r) EXCEPT ![i] = row])
               /\ UNCHANGED <<task, keys, mailed>>

(* The user with the attributes he is given; the id may be one of them, and *)
(* then it is the row of somebody else that is replaced.                    *)
Edited(row, t) ==
  [row EXCEPT !.id      = t.target,
              !.name    = IF "name" \in t.given THEN t.name ELSE @,
              !.email   = IF "email" \in t.given THEN t.email ELSE @,
              !.enabled = IF "enabled" \in t.given THEN t.enabled ELSE @]

SetUser(r) ==
  /\ \E verb \in {"set attributes", "set password", "rehash"} : At(r, verb)
  /\ \/ ~HasId(Users(r), task[r].id) /\ End(r)
     \/ \E i \in DOMAIN Users(r) :
          LET row == Users(r)[i] IN
          /\ row.id = task[r].id
          /\ \/ Verb(r) = "set attributes" /\ Update(r, Edited(row, task[r]))
             \/ Verb(r) = "set password" /\ Update(r, [row EXCEPT !.password = "new"])
             \/ Verb(r) = "rehash" /\ Update(r, row)

(* UserManager::delete(). *)
DropUser(r) ==
  /\ At(r, "drop user")
  /\ \/ ~HasId(Users(r), task[r].id) /\ End(r)
     \/ \E i \in DOMAIN Users(r) :
          /\ Users(r)[i].id = task[r].id
          /\ Change(r, "users", RemoveAt(Users(r), i))
          /\ UNCHANGED <<task, keys, mailed>>

(* deleteUserAuth() for each row getByUserId() has found, one file each. *)
Revoke(r) ==
  /\ At(r, "revoke")
  /\ \/ ~HasOwner(Owned(r), task[r].id) /\ Pass(r)
     \/ \E i \in DOMAIN Owned(r) :
          /\ FirstOwned(Owned(r), i, task[r].id)
          /\ Store(r, "rights", RemoveAt(Owned(r), i))
          /\ UNCHANGED <<task, todo, keys, mailed>>

(* A mutant: the authorization is stored under its user's name. *)
GrantByName(r) ==
  /\ At(r, "grant")
  /\ Change(r, "rights", Append(Owned(r), [id |-> NextId(Owned(r)), userId |-> task[r].name,
                                           right |-> Head(todo[r])[2]]))
  /\ UNCHANGED <<task, keys, mailed>>

(* AuthorizationManager::insertUserAuth(). *)
Grant(r) ==
  /\ At(r, "grant")
  /\ Change(r, "rights", Append(Owned(r), [id |-> NextId(Owned(r)), userId |-> task[r].id,
                                           right |-> Head(todo[r])[2]]))
  /\ UNCHANGED <<task, keys, mailed>>

(* executeConnect(): the name is known and the user enabled; the password may *)
(* be wrong, or right and in need of no new hash.                             *)
Login(r) ==
  /\ At(r, "login")
  /\ \/ End(r)
     \/ \E i \in DOMAIN Users(r) :
          /\ Users(r)[i].name = task[r].name /\ Users(r)[i].enabled
          /\ task' = [task EXCEPT ![r].id = Users(r)[i].id]
          /\ Advance(r) /\ UNCHANGED countVars

(* getByEmail(). *)
Find(r) ==
  /\ At(r, "find")
  /\ \/ ~HasEmail(Users(r), task[r].email) /\ End(r)
     \/ \E i \in DOMAIN Users(r) :
          /\ Users(r)[i].email = task[r].email
          /\ \A k \in 1 .. i - 1 : Users(r)[k].email # task[r].email
          /\ task' = [task EXCEPT ![r].id = Users(r)[i].id]
          /\ Advance(r) /\ UNCHANGED countVars

(* An older token of the user is deleted when the delay is over. *)
OldToken(r) ==
  /\ At(r, "old token")
  /\ \/ ~HasOwner(Tokens(r), task[r].id) /\ Pass(r)
     \/ HasOwner(Tokens(r), task[r].id) /\ End(r)
     \/ \E i \in DOMAIN Tokens(r) :
          /\ FirstOwned(Tokens(r), i, task[r].id)
          /\ Change(r, "tokens", RemoveAt(Tokens(r), i))
          /\ UNCHANGED <<task, keys, mailed>>

(* UserTokenManager::insert() of a new key. *)
AddToken(r) ==
  /\ At(r, "add token")
  /\ LET n == NextId(Tokens(r)) IN
     IF HasOwner(Tokens(r), task[r].id)
     THEN End(r)
     ELSE /\ Change(r, "tokens", Append(Tokens(r), [id |-> n, userId |-> task[r].id, key |-> keys]))
          /\ task' = [task EXCEPT ![r].token = n, ![r].key = keys]
          /\ keys' = keys + 1
          /\ UNCHANGED mailed

(* The mail goes, or its failure deletes the token. *)
Mail(r) ==
  /\ At(r, "mail")
  /\ \/ /\ mailed' = mailed \cup {<<task[r].token, task[r].key>>}
        /\ Advance(r) /\ UNCHANGED <<task, begun, overlaps, keys>>
     \/ /\ todo' = [todo EXCEPT ![r] = <<<<"drop token", None>>>>]
        /\ UNCHANGED <<fileVars, task, read, copy, writing, late, countVars, historyVars>>

(* executeRegister() calls send() of a variable it has not set. *)
Die(r) == At(r, "die") /\ End(r)

(* executeResetPassword(): the token is there and its key is the mailed one. *)
CheckToken(r) ==
  /\ At(r, "check token")
  /\ \/ /\ ~\E i \in DOMAIN Tokens(r) : Tokens(r)[i].id = task[r].token /\ Tokens(r)[i].key = task[r].key
        /\ End(r)
     \/ \E i \in DOMAIN Tokens(r) :
          /\ Tokens(r)[i].id = task[r].token /\ Tokens(r)[i].key = task[r].key
          /\ task' = [task EXCEPT ![r].id = Tokens(r)[i].userId]
          /\ Advance(r) /\ UNCHANGED countVars

DropToken(r) ==
  /\ At(r, "drop token")
  /\ \/ ~HasId(Tokens(r), task[r].token) /\ End(r)
     \/ \E i \in DOMAIN Tokens(r) :
          /\ Tokens(r)[i].id = task[r].token
          /\ Change(r, "tokens", RemoveAt(Tokens(r), i))
          /\ UNCHANGED <<task, keys, mailed>>

-----------------------------------------------------------------------------
(* The actions of UserController: what the caller asks, and the calls it takes. *)

Do(verb) == <<verb, None>>
Grants(list) == [i \in DOMAIN list |-> <<"grant", list[i]>>]

Begin(r, t, calls, now) ==
  /\ ~Busy(r)
  /\ begun < MaxRequests
  /\ begun' = begun + 1
  /\ IF Running = {} THEN UNCHANGED overlaps ELSE overlaps < MaxOverlaps /\ overlaps' = overlaps + 1
  /\ task' = [task EXCEPT ![r] = t]
  /\ todo' = [todo EXCEPT ![r] = calls]
  /\ mixed' = (mixed \/ Running # {})
  /\ settled' = now
  /\ UNCHANGED <<fileVars, read, copy, writing, late, keys, mailed, saved>>

Ids == {u.id : u \in ToSet(disk["users"])}
Asked(kind, id) == [Idle EXCEPT !.kind = kind, !.id = id]

Create(r) ==
  \E n \in NewNames, e \in NewEmails, list \in GrantLists :
    Begin(r, [Idle EXCEPT !.kind = "create", !.name = n, !.email = e, !.enabled = TRUE],
          <<Do("control"), Do("add user")>> \o Grants(list), settled)

Register(r) ==
  \E n \in NewNames, e \in NewEmails :
    Begin(r, [Idle EXCEPT !.kind = "register", !.name = n, !.email = e, !.enabled = TRUE],
          <<Do("limit"), Do("add user")>> \o Grants(DefaultGrants)
             \o (IF MailEnabled THEN <<Do("die")>> ELSE <<>>), settled)

(* Who may be known under a new name from now on. *)
Renaming(n, name) == settled \cup {<<name, n>> : p \in {q \in settled : q[2] = n}}

(* executeSetMultipleAttributes(). *)
SetAttributes(r) ==
  \E n \in Ids, given \in AttributeLists :
    \E target \in IF "id" \in given THEN Ids ELSE {n},
       name \in IF "name" \in given THEN Names ELSE {None},
       e \in IF "email" \in given THEN Emails ELSE {None},
       value \in IF "enabled" \in given THEN BOOLEAN ELSE {FALSE} :
      Begin(r, [Asked("edit", n) EXCEPT !.given = given, !.target = target, !.name = name,
                                        !.email = e, !.enabled = value],
            <<Do("control"), Do("set attributes")>>,
            IF "name" \in given THEN Renaming(target, name) ELSE settled)

SetPassword(r) ==
  \E n \in Ids :
    Begin(r, Asked("password", n), <<Do("control"), Do("verify"), Do("set password")>>, settled)

SetEnabled(r) ==
  \E n \in Ids, value \in BOOLEAN :
    Begin(r, [Asked("enable", n) EXCEPT !.given = {"enabled"}, !.target = n, !.enabled = value],
          <<Do("control"), Do("set attributes")>>, settled)

SetAuthorizations(r) ==
  \E n \in Ids, list \in GrantLists :
    Begin(r, Asked("authorize", n),
          <<Do("control"), Do("exists"), Do("revoke")>> \o Grants(list), settled)

Without(n) == {p \in settled : p[2] # n}

(* A mutant: the authorizations stay. *)
RemoveOnlyUser(r) ==
  \E n \in Ids :
    Begin(r, Asked("remove", n), <<Do("control"), Do("lookup"), Do("drop user")>>, Without(n))

RemoveUser(r) ==
  \E n \in Ids :
    Begin(r, Asked("remove", n),
          <<Do("control"), Do("lookup"), Do("revoke"), Do("drop user")>>,
          Without(n))

Connect(r) ==
  \E n \in Names :
    Begin(r, [Idle EXCEPT !.kind = "connect", !.name = n], <<Do("login"), Do("rehash")>>, settled)

SendResetPasswordRequest(r) ==
  /\ MailEnabled
  /\ \E e \in Emails :
       Begin(r, [Idle EXCEPT !.kind = "ask reset", !.email = e],
             <<Do("find"), Do("old token"), Do("add token"), Do("mail")>>, settled)

ResetPassword(r) ==
  \E m \in mailed :
    Begin(r, [Idle EXCEPT !.kind = "reset", !.token = m[1], !.key = m[2]],
          <<Do("check token"), Do("set password"), Do("drop token")>>, settled)

Controller(r) ==
  \/ Create(r) \/ Register(r) \/ SetAttributes(r) \/ SetPassword(r) \/ SetEnabled(r)
  \/ SetAuthorizations(r) \/ RemoveUser(r) \/ Connect(r)
  \/ SendResetPasswordRequest(r) \/ ResetPassword(r)

Manager(r) ==
  \/ Verify(r) \/ Exists(r) \/ Limit(r) \/ AddUser(r) \/ SetUser(r) \/ DropUser(r)
  \/ Revoke(r) \/ Grant(r) \/ Login(r) \/ Find(r)
  \/ OldToken(r) \/ AddToken(r) \/ Mail(r) \/ Die(r) \/ CheckToken(r) \/ DropToken(r)

Next == \E r \in Requests : Controller(r) \/ Manager(r) \/ Open(r) \/ Put(r) \/ Answer(r) \/ Kill(r)

Spec == Init /\ [][Next]_vars

-----------------------------------------------------------------------------
(* Properties. *)

AnyRow == UserRow \cup RightRow \cup TokenRow
Files == {f \in [Tables -> Seq(AnyRow)] : \A t \in Tables : f[t] \in Seq(Row(t))}
Task == [kind : Kinds, name : Names \cup {None}, email : Emails \cup {None},
         id : Nat, token : Nat, key : Nat, enabled : BOOLEAN, given : SUBSET Attributes,
         target : Nat]
Call == {Do(verb) : verb \in Verbs} \cup {<<"grant", right>> : right \in Rights}

(* Types.  Every row of a file and of a kept collection is a row of its table. *)
TypeOK ==
  /\ disk \in Files
  /\ copy \in [Requests -> Files]
  /\ task \in [Requests -> Task]
  /\ todo \in [Requests -> Seq(Call)]
  /\ read \in [Requests -> SUBSET Tables]
  /\ writing \in [Requests -> Tables \cup {None}]
  /\ torn \subseteq Tables
  /\ late \subseteq Requests
  /\ begun \in Nat /\ overlaps \in Nat /\ keys \in Nat
  /\ mailed \subseteq Nat \X Nat
  /\ mixed \in BOOLEAN

Ascending(rows) == \A i, k \in DOMAIN rows : i < k => rows[i].id < rows[k].id

(* The users that are shipped share an e-mail address. *)
Shared(e) ==
  \E i, k \in DOMAIN Shipped["users"] :
    i # k /\ Shipped["users"][i].email = e /\ Shipped["users"][k].email = e

UsersDiffer(rows) ==
  \A i, k \in DOMAIN rows :
    i # k => /\ rows[i].name # rows[k].name
             /\ rows[i].email = rows[k].email => Shared(rows[i].email)

OwnersDiffer(rows) ==
  \A i, k \in DOMAIN rows : i # k => rows[i].userId # rows[k].userId

Consistent(tables) ==
  /\ \A t \in Tables : Ascending(tables[t])
  /\ UsersDiffer(tables["users"])
  /\ OwnersDiffer(tables["tokens"])

ASSUME ShippedAssumption == Shipped \in Files /\ Consistent(Shipped)

(***************************************************************************)
(* The tables stay consistent however the requests overlap or die: ids     *)
(* grow along a file, no two users have the same name or a new e-mail      *)
(* address, no user has two tokens.  Nothing but the checks of insert()    *)
(* and update(), made on a private and possibly old copy, ensures it: what *)
(* makes it true is that a request writes back the whole of what it        *)
(* checked.                                                                *)
(***************************************************************************)
UniqueRows ==
  /\ Consistent(disk)
  /\ \A r \in Requests : Consistent(copy[r])

(***************************************************************************)
(* executeCanRegister() counts the users and insert() adds one much later: *)
(* a registration still never leaves more users than maxUsers, because     *)
(* both look at the collection the request keeps.                          *)
(***************************************************************************)
LimitKept ==
  [][\A r \in Requests :
       /\ MaxUsers >= 0 /\ task[r].kind = "register" /\ writing[r] = "users"
       /\ writing'[r] = None /\ disk' # disk
       => Len(disk'["users"]) <= MaxUsers]_vars

(***************************************************************************)
(* An update may be lost to an overlapping request, but never a person who *)
(* was there at a moment when nothing ran: whoever reads the file later    *)
(* finds him in it, and writes him back with his id, under the name he had *)
(* or one that was asked for him since.                                    *)
(***************************************************************************)
SettledKept ==
  \A p \in settled : \E q \in Persons(disk["users"]) : q[2] = p[2] /\ q \in settled

(***************************************************************************)
(* As long as no request overlaps another one or is killed, each changes   *)
(* the book of accounts as a single step of AccountBook does, whatever it  *)
(* refused on the way: a new user has all his authorizations, a removed    *)
(* one leaves none behind for whoever gets his id.  The tables are shipped *)
(* with authorizations of ids that nobody has: whoever gets one of them    *)
(* has these too (users_permissions.json, userId 2 and 3).                 *)
(***************************************************************************)
RightsOf(rows, n) == {row.right : row \in {q \in ToSet(rows) : q.userId = n}}

Lists == {ToSet(list) : list \in GrantLists \cup {DefaultGrants}}
Strays == {row.userId : row \in {q \in ToSet(Shipped["rights"]) : ~HasId(Shipped["users"], q.userId)}}
Legacies == {{}} \cup {RightsOf(Shipped["rights"], n) : n \in Strays}

Book == INSTANCE AccountBook WITH book <- saved, Start <- BookOf(Shipped)
BookKept == Book!BookSpec
=============================================================================
