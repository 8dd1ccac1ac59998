-------------------------- MODULE Accounts_proofs --------------------------
(* What Accounts promises for any requests, users, lists and tables.        *)
EXTENDS Accounts, SequenceTheorems, TLAPS

-----------------------------------------------------------------------------
(* Rows of a table. *)

Fit(t, rows) ==
  /\ rows \in Seq(Row(t))
  /\ Ascending(rows)
  /\ t = "users" => UsersDiffer(rows)
  /\ t = "tokens" => OwnersDiffer(rows)

LEMMA EmptyFits == \A t \in Tables : Fit(t, <<>>)
BY DEF Fit, Ascending, UsersDiffer, OwnersDiffer

LEMMA Single == \A x : DOMAIN <<x>> = {1} /\ \A k \in DOMAIN <<x>> : <<x>>[k] = x
OBVIOUS

(* Every row has an id. *)
LEMMA RowsHaveIds ==
    ASSUME NEW t \in Tables, NEW row \in Row(t)
    PROVE  row.id \in Nat
BY DEF Tables, Row, UserRow, RightRow, TokenRow

(* RemoveAt() keeps the other rows, in their order. *)
LEMMA RemoveAtRows ==
    ASSUME NEW S, NEW s \in Seq(S), NEW i \in 1 .. Len(s)
    PROVE  /\ RemoveAt(s, i) \in Seq(S)
           /\ Len(RemoveAt(s, i)) = Len(s) - 1
           /\ \A k \in 1 .. Len(s) - 1 :
                RemoveAt(s, i)[k] = IF k < i THEN s[k] ELSE s[k + 1]
<1> DEFINE a == SubSeq(s, 1, i - 1)
           b == SubSeq(s, i + 1, Len(s))
<1>0. Len(s) \in Nat /\ i \in Nat /\ \A k \in 1 .. Len(s) : s[k] \in S
  BY LenProperties, ElementOfSeq
<1>1. a \in Seq(S) /\ Len(a) = i - 1 /\ \A k \in 1 .. i - 1 : a[k] = s[k]
  <2>1. \A k \in 1 .. i - 1 : s[k] \in S
    BY <1>0
  <2>2. /\ a \in Seq(S)
        /\ Len(a) = IF 1 <= i - 1 THEN (i - 1) - 1 + 1 ELSE 0
        /\ \A k \in 1 .. (i - 1) - 1 + 1 : a[k] = s[1 + k - 1]
    BY <1>0, <2>1, SubSeqProperties DEF a
  <2> QED BY <1>0, <2>2
<1>2. b \in Seq(S) /\ Len(b) = Len(s) - i /\ \A k \in 1 .. Len(s) - i : b[k] = s[k + i]
  <2>1. \A k \in i + 1 .. Len(s) : s[k] \in S
    BY <1>0
  <2>2. /\ b \in Seq(S)
        /\ Len(b) = IF i + 1 <= Len(s) THEN Len(s) - (i + 1) + 1 ELSE 0
        /\ \A k \in 1 .. Len(s) - (i + 1) + 1 : b[k] = s[i + 1 + k - 1]
    BY <1>0, <2>1, SubSeqProperties DEF b
  <2> QED BY <1>0, <2>2
<1>3. /\ a \o b \in Seq(S)
      /\ Len(a \o b) = Len(a) + Len(b)
      /\ \A k \in 1 .. Len(a) + Len(b) :
           (a \o b)[k] = IF k <= Len(a) THEN a[k] ELSE b[k - Len(a)]
  BY <1>1, <1>2, ConcatProperties
<1>4. RemoveAt(s, i) = a \o b
  BY DEF RemoveAt
<1> HIDE DEF a, b
<1>5. Len(a) + Len(b) = Len(s) - 1
  BY <1>0, <1>1, <1>2
<1>6. ASSUME NEW k \in 1 .. Len(s) - 1
      PROVE  (a \o b)[k] = IF k < i THEN s[k] ELSE s[k + 1]
  <2>1. CASE k < i
    BY <1>0, <1>1, <1>3, <1>5, <2>1
  <2>2. CASE ~(k < i)
    <3>1. k - (i - 1) \in 1 .. Len(s) - i
      BY <1>0, <2>2
    <3>2. b[k - (i - 1)] = s[k - (i - 1) + i]
      BY <1>2, <3>1
    <3>3. (a \o b)[k] = b[k - (i - 1)]
      BY <1>0, <1>1, <1>3, <1>5, <2>2
    <3> QED BY <1>0, <2>2, <3>2, <3>3
  <2> QED BY <2>1, <2>2
<1> QED BY <1>3, <1>4, <1>5, <1>6

(* A table from which a row is removed is still fit, and has only old rows. *)
LEMMA RemovalFits ==
    ASSUME NEW t \in Tables, NEW rows, Fit(t, rows), NEW i \in DOMAIN rows
    PROVE  /\ Fit(t, RemoveAt(rows, i))
           /\ \A k \in DOMAIN rows : k # i =>
                \E j \in DOMAIN RemoveAt(rows, i) : RemoveAt(rows, i)[j] = rows[k]
           /\ Len(RemoveAt(rows, i)) <= Len(rows)
<1> DEFINE left == RemoveAt(rows, i)
           old(k) == IF k < i THEN k ELSE k + 1
<1>1. rows \in Seq(Row(t)) /\ Len(rows) \in Nat /\ DOMAIN rows = 1 .. Len(rows)
  BY LenProperties DEF Fit
<1>2. left \in Seq(Row(t)) /\ Len(left) = Len(rows) - 1
      /\ \A k \in 1 .. Len(rows) - 1 : left[k] = IF k < i THEN rows[k] ELSE rows[k + 1]
  BY <1>1, RemoveAtRows
<1>3. DOMAIN left = 1 .. Len(rows) - 1
  BY <1>2, LenProperties
<1> HIDE DEF left
<1>4. \A k \in DOMAIN left : old(k) \in DOMAIN rows /\ left[k] = rows[old(k)]
  BY <1>1, <1>2, <1>3
<1>5. \A j, k \in DOMAIN left : (j < k => old(j) < old(k)) /\ (j # k => old(j) # old(k))
  BY <1>1, <1>3
<1> HIDE DEF old
<1>6. Ascending(left)
  BY <1>4, <1>5 DEF Fit, Ascending
<1>7. t = "users" => UsersDiffer(left)
  BY <1>4, <1>5 DEF Fit, UsersDiffer
<1>8. t = "tokens" => OwnersDiffer(left)
  BY <1>4, <1>5 DEF Fit, OwnersDiffer
<1>9. ASSUME NEW k \in DOMAIN rows, k # i
      PROVE  \E j \in DOMAIN left : left[j] = rows[k]
  <2>1. CASE k < i
    BY <1>1, <1>2, <1>3, <2>1
  <2>2. CASE k > i
    <3>1. k - 1 \in DOMAIN left /\ ~(k - 1 < i) /\ (k - 1) + 1 = k
      BY <1>1, <1>3, <2>2
    <3>2. left[k - 1] = rows[k]
      BY <1>2, <1>3, <3>1
    <3> QED BY <3>1, <3>2
  <2> QED BY <1>1, <1>9, <2>1, <2>2
<1> QED BY <1>1, <1>2, <1>6, <1>7, <1>8, <1>9 DEF left, Fit

(* A new row at the end has an id that no row has. *)
LEMMA AdditionFits ==
    ASSUME NEW t \in Tables, NEW rows, Fit(t, rows), NEW row \in Row(t),
           row.id = NextId(rows),
           t = "users" => ~HasName(rows, row.name) /\ ~HasEmail(rows, row.email),
           t = "tokens" => ~HasOwner(rows, row.userId)
    PROVE  /\ Fit(t, Append(rows, row))
           /\ Len(Append(rows, row)) = Len(rows) + 1
           /\ \A k \in DOMAIN rows : k \in DOMAIN Append(rows, row) /\ Append(rows, row)[k] = rows[k]
<1> DEFINE more == Append(rows, row)
<1>1. rows \in Seq(Row(t)) /\ Len(rows) \in Nat /\ DOMAIN rows = 1 .. Len(rows)
      /\ \A k \in DOMAIN rows : rows[k] \in Row(t)
  BY LenProperties, ElementOfSeq DEF Fit
<1>2. more \in Seq(Row(t)) /\ Len(more) = Len(rows) + 1 /\ DOMAIN more = 1 .. Len(rows) + 1
      /\ more[Len(rows) + 1] = row /\ \A k \in 1 .. Len(rows) : more[k] = rows[k]
  BY <1>1
<1> HIDE DEF more
<1>3. \A k \in DOMAIN rows : rows[k].id \in Nat
  BY <1>1, RowsHaveIds
<1>4. \A k \in DOMAIN rows : rows[k].id < row.id
  <2>1. CASE rows = <<>>
    BY <2>1
  <2>2. CASE rows # <<>>
    <3>1. Len(rows) \in DOMAIN rows
      BY <1>1, <2>2, EmptySeq
    <3>2. row.id = rows[Len(rows)].id + 1
      BY <2>2 DEF NextId, Last
    <3>3. \A k \in DOMAIN rows : k < Len(rows) => rows[k].id < rows[Len(rows)].id
      BY <3>1 DEF Fit, Ascending
    <3>4. \A k \in DOMAIN rows : k < Len(rows) \/ k = Len(rows)
      BY <1>1
    <3> QED BY <1>3, <3>1, <3>2, <3>3, <3>4
  <2> QED BY <2>1, <2>2
<1>5. Ascending(more)
  <2> SUFFICES ASSUME NEW i \in DOMAIN more, NEW k \in DOMAIN more, i < k
               PROVE  more[i].id < more[k].id
    BY DEF Ascending
  <2>1. i \in DOMAIN rows /\ more[i] = rows[i]
    BY <1>1, <1>2
  <2>2. CASE k = Len(rows) + 1
    BY <1>2, <1>4, <2>1, <2>2
  <2>3. CASE k # Len(rows) + 1
    <3>1. k \in DOMAIN rows /\ more[k] = rows[k]
      BY <1>1, <1>2, <2>3
    <3> QED BY <2>1, <3>1 DEF Fit, Ascending
  <2> QED BY <2>2, <2>3
<1>6. \A k \in DOMAIN more : \/ (k = Len(rows) + 1 /\ more[k] = row)
                             \/ (k \in DOMAIN rows /\ more[k] = rows[k])
  BY <1>1, <1>2
<1>7. t = "users" => UsersDiffer(more)
  <2> SUFFICES ASSUME t = "users", NEW i \in DOMAIN more, NEW k \in DOMAIN more, i # k
               PROVE  /\ more[i].name # more[k].name
                      /\ more[i].email = more[k].email => Shared(more[i].email)
    BY DEF UsersDiffer
  <2>1. \A j \in DOMAIN rows : rows[j].name # row.name /\ rows[j].email # row.email
    BY DEF HasName, HasEmail
  <2>2. CASE i \in DOMAIN rows /\ k \in DOMAIN rows /\ more[i] = rows[i] /\ more[k] = rows[k]
    BY <2>2 DEF Fit, UsersDiffer
  <2>3. CASE i \in DOMAIN rows /\ more[i] = rows[i] /\ more[k] = row
    BY <2>1, <2>3
  <2>4. CASE more[i] = row /\ k \in DOMAIN rows /\ more[k] = rows[k]
    BY <2>1, <2>4
  <2> QED BY <1>6, <2>2, <2>3, <2>4
<1>8. t = "tokens" => OwnersDiffer(more)
  BY <1>6 DEF Fit, OwnersDiffer, HasOwner
<1> QED BY <1>1, <1>2, <1>5, <1>7, <1>8 DEF more, Fit

(* A user who changes keeps his id, and has no name that another one has. *)
LEMMA EditionFits ==
    ASSUME NEW rows, Fit("users", rows), NEW i \in DOMAIN rows, NEW row \in UserRow,
           row.id = rows[i].id, row.name = rows[i].name \/ ~HasName(rows, row.name),
           row.email = rows[i].email \/ ~HasEmail(rows, row.email)
    PROVE  /\ Fit("users", [rows EXCEPT ![i] = row])
           /\ Len([rows EXCEPT ![i] = row]) = Len(rows)
           /\ DOMAIN [rows EXCEPT ![i] = row] = DOMAIN rows
           /\ \A k \in DOMAIN rows : [rows EXCEPT ![i] = row][k] = IF k = i THEN row ELSE rows[k]
<1> DEFINE new == [rows EXCEPT ![i] = row]
<1>0. Row("users") = UserRow
  BY DEF Row
<1>1. rows \in Seq(UserRow) /\ Len(rows) \in Nat /\ DOMAIN rows = 1 .. Len(rows)
  BY <1>0, LenProperties DEF Fit
<1>2. new \in Seq(UserRow) /\ Len(new) = Len(rows)
      /\ \A k \in 1 .. Len(rows) : new[k] = IF k = i THEN row ELSE rows[k]
  BY <1>1, ExceptSeq
<1>3. DOMAIN new = DOMAIN rows
  BY <1>1, <1>2, LenProperties
<1> HIDE DEF new
<1>4. Ascending(new)
  BY <1>1, <1>2, <1>3 DEF Fit, Ascending
<1>5. UsersDiffer(new)
  BY <1>1, <1>2, <1>3 DEF Fit, UsersDiffer, HasEmail, HasName
<1> QED BY <1>0, <1>1, <1>2, <1>3, <1>4, <1>5 DEF new, Fit

-----------------------------------------------------------------------------
(* The inductive invariant. *)

FilesFit  == \A t \in Tables : Fit(t, disk[t])
CopiesFit == \A r \in Requests : \A t \in Tables : Fit(t, copy[r][t])

(* An idle process keeps nothing, and only what was read is written. *)
Quiet == \A r \in Requests :
           /\ task[r].kind = None => read[r] = {} /\ todo[r] = <<>> /\ writing[r] = None
           /\ writing[r] # None => writing[r] \in read[r]

(* What a caller asks has only the calls it needs. *)
Allowed(kind, verb) ==
  /\ verb = "add user" => kind \in {"create", "register"}
  /\ verb = "set attributes" => kind \in {"edit", "enable"}
  /\ verb = "drop user" => kind = "remove"
  /\ kind = "remove" => verb \in {"control", "lookup", "revoke", "drop user"}
  /\ kind = "edit" => verb \in {"control", "set attributes"}
  /\ kind = "register" => verb \in {"limit", "add user", "grant", "die"}
Planned == \A r \in Requests : \A i \in DOMAIN todo[r] : Allowed(task[r].kind, todo[r][i][1])

(* What a caller gives is there. *)
Given(t) ==
  /\ t.kind \in {"create", "register"} => t.name \in Names /\ t.email \in Emails
  /\ t.kind = "edit" => /\ "name" \in t.given => t.name \in Names
                        /\ "email" \in t.given => t.email \in Emails
  /\ t.kind = "enable" => t.given = {"enabled"}
Named == \A r \in Requests : Given(task[r])

IInv == TypeOK /\ FilesFit /\ CopiesFit /\ Quiet /\ Planned /\ Named

(* A registration has checked the limit on the users it has read. *)
Counted == \A r \in Requests : task[r].kind = "register" =>
             /\ \A i \in DOMAIN todo[r] : todo[r][i][1] = "add user" =>
                  i = 1 \/ (i = 2 /\ todo[r][1][1] = "limit")
             /\ MaxUsers >= 0 /\ todo[r] # <<>> /\ Verb(r) = "add user" =>
                  "users" \in read[r] /\ Len(Users(r)) + 1 <= MaxUsers
             /\ MaxUsers >= 0 /\ writing[r] = "users" => Len(Users(r)) <= MaxUsers

(* Somebody has the id of p, under a name he may have. *)
Holds(rows, p) == \E i \in DOMAIN rows : rows[i].id = p[2] /\ <<rows[i].name, p[2]>> \in settled

(* A request removes somebody else, and gives no name that p may not have. *)
Renames(t) == t.kind = "edit" /\ "name" \in t.given
Spares(t, p) ==
  /\ t.kind = "remove" => p[2] # t.id
  /\ Renames(t) /\ t.target = p[2] => <<t.name, p[2]>> \in settled

(* Who is settled is in the file and in every copy of it, and is not being  *)
(* removed.                                                                  *)
Sure(p) ==
  /\ Holds(disk["users"], p)
  /\ \A r \in Requests : /\ "users" \in read[r] => Holds(copy[r]["users"], p)
                         /\ Spares(task[r], p)
Kept == \A p \in settled : Sure(p)

-----------------------------------------------------------------------------
(* What a step may do. *)

Retasked(r) ==
  /\ task' \in [Requests -> Task]
  /\ \A q \in Requests \ {r} : task'[q] = task[q]
  /\ task'[r].kind = task[r].kind /\ task'[r].name = task[r].name /\ task'[r].email = task[r].email
  /\ task'[r].given = task[r].given /\ task'[r].target = task[r].target
  /\ task[r].kind \in {"remove", "edit"} => task'[r].id = task[r].id

Continued(r) ==
  /\ todo' \in [Requests -> Seq(Call)]
  /\ \A q \in Requests \ {r} : todo'[q] = todo[q]
  /\ \/ todo'[r] = todo[r]
     \/ todo'[r] = Tail(todo[r])
     \/ todo'[r] = <<Do("drop token")>> /\ task[r].kind \notin {"remove", "edit", "register"}

(* A user stays, under his name or the one he is given, or is removed. *)
Stays(t, row, rows) ==
  \/ t.kind = "remove" /\ row.id = t.id
  \/ \E k \in DOMAIN rows :
       /\ rows[k].id = row.id
       /\ rows[k].name = row.name \/ (Renames(t) /\ t.target = row.id /\ rows[k].name = t.name)

Changed(r, t, rows) ==
  /\ t \in read[r] /\ Fit(t, rows)
  /\ copy' = [copy EXCEPT ![r][t] = rows]
  /\ writing' = [writing EXCEPT ![r] = t]
  /\ t = "users" => \A i \in DOMAIN Users(r) : Stays(task[r], Users(r)[i], rows)

(* A running request makes the next of its calls. *)
Works(r) ==
  /\ Busy(r) /\ writing[r] = None /\ todo[r] # <<>>
  /\ Retasked(r) /\ Continued(r)
  /\ Verb(r) = "add user" => todo'[r] = Tail(todo[r])
  /\ UNCHANGED <<disk, read, late, begun, overlaps, historyVars>>
  /\ keys' \in Nat /\ mailed' \subseteq Nat \X Nat /\ torn' \subseteq Tables
  /\ \/ UNCHANGED <<copy, writing>>
     \/ \E t \in Tables, rows \in Seq(AnyRow) :
          /\ Changed(r, t, rows)
          /\ task[r].kind = "register" /\ t = "users" =>
               Verb(r) = "add user" /\ todo'[r] = Tail(todo[r]) /\ Len(rows) = Len(Users(r)) + 1
  /\ task[r].kind = "register" /\ Verb(r) = "limit" =>
       UNCHANGED copy /\ "users" \in read[r] /\ (MaxUsers >= 0 => Len(Users(r)) + 1 <= MaxUsers)

(* It ends, or it is killed. *)
Ends(r) ==
  /\ Busy(r) /\ Forget(r) /\ UNCHANGED <<fileVars, countVars>> /\ mixed' \in BOOLEAN
  /\ \/ settled' = settled
     \/ Running = {r} /\ settled' = Persons(disk["users"])

LEMMA PersonsAreRows ==
  \A rows, p : p \in Persons(rows) <=> \E i \in DOMAIN rows : p = <<rows[i].name, rows[i].id>>
BY DEF Persons, ToSet

(* The rows of a table, the way a request uses them. *)
LEMMA CopyFacts ==
    ASSUME IInv, NEW r \in Requests
    PROVE  /\ \A t \in Tables : Fit(t, copy[r][t]) /\ copy[r][t] \in Seq(AnyRow)
           /\ task[r] \in Task /\ todo[r] \in Seq(Call)
           /\ \A i \in DOMAIN todo[r] : todo[r][i] \in Call
           /\ \A i \in DOMAIN Users(r) : Users(r)[i] \in UserRow
           /\ \A i \in DOMAIN Owned(r) : Owned(r)[i] \in RightRow
           /\ \A i \in DOMAIN Tokens(r) : Tokens(r)[i] \in TokenRow
<1>1. \A t \in Tables : Fit(t, copy[r][t]) /\ copy[r][t] \in Seq(AnyRow)
  BY DEF IInv, CopiesFit, TypeOK, Files
<1>2. task[r] \in Task /\ todo[r] \in Seq(Call)
  BY DEF IInv, TypeOK
<1>3. \A i \in DOMAIN todo[r] : todo[r][i] \in Call
  BY <1>2, ElementOfSeq, LenProperties
<1>4. \A t \in Tables : copy[r][t] \in Seq(Row(t))
  BY <1>1 DEF Fit
<1>5. Users(r) \in Seq(UserRow)
  BY <1>4 DEF Users, Row, Tables
<1>6. Owned(r) \in Seq(RightRow)
  BY <1>4 DEF Owned, Row, Tables
<1>7. Tokens(r) \in Seq(TokenRow)
  BY <1>4 DEF Tokens, Row, Tables
<1>8. \A i \in DOMAIN Users(r) : Users(r)[i] \in UserRow
  BY <1>5, ElementOfSeq, LenProperties
<1>9. \A i \in DOMAIN Owned(r) : Owned(r)[i] \in RightRow
  BY <1>6, ElementOfSeq, LenProperties
<1>10. \A i \in DOMAIN Tokens(r) : Tokens(r)[i] \in TokenRow
  BY <1>7, ElementOfSeq, LenProperties
<1> QED BY <1>1, <1>2, <1>3, <1>8, <1>9, <1>10

(* Going to the next call. *)
LEMMA NextCall ==
    ASSUME IInv, NEW r \in Requests, todo[r] # <<>>,
           todo' = [todo EXCEPT ![r] = Tail(@)]
    PROVE  Continued(r) /\ todo'[r] = Tail(todo[r])
<1>1. Tail(todo[r]) \in Seq(Call)
  BY CopyFacts, HeadTailProperties
<1> QED BY <1>1 DEF Continued, IInv, TypeOK

LEMMA SameTask == ASSUME IInv, NEW r \in Requests, task' = task PROVE Retasked(r)
BY DEF Retasked, IInv, TypeOK

(* A call that is ready belongs to what was asked. *)
LEMMA ReadyCall ==
    ASSUME IInv, NEW r \in Requests, NEW verb, At(r, verb)
    PROVE  /\ Busy(r) /\ writing[r] = None /\ todo[r] # <<>>
           /\ Head(todo[r]) \in Call /\ Verb(r) = verb
           /\ Allowed(task[r].kind, verb)
<1>1. Head(todo[r]) = todo[r][1] /\ 1 \in DOMAIN todo[r]
  BY CopyFacts, LenProperties, EmptySeq DEF At
<1>2. Allowed(task[r].kind, todo[r][1][1])
  BY <1>1 DEF IInv, Planned
<1> QED BY <1>1, <1>2, CopyFacts DEF At, Verb

(* An ended request has worked as Ends says. *)
LEMMA EndEnds ==
    ASSUME IInv, NEW r \in Requests, Busy(r), End(r)
    PROVE  Ends(r)
BY DEF End, Ends, IInv, TypeOK, fileVars, countVars

(* A call that changes no table. *)
LEMMA PassWorks ==
    ASSUME IInv, NEW r \in Requests, NEW verb, At(r, verb), Pass(r), verb # "limit"
    PROVE  Works(r)
<1>1. Busy(r) /\ writing[r] = None /\ todo[r] # <<>> /\ Verb(r) = verb
  BY ReadyCall
<1>2. Retasked(r)
  BY SameTask DEF Pass
<1>3. Continued(r) /\ todo'[r] = Tail(todo[r])
  BY <1>1, NextCall DEF Pass, Advance
<1>4. /\ UNCHANGED <<disk, read, late, begun, overlaps, historyVars>>
      /\ UNCHANGED <<copy, writing>>
      /\ keys' \in Nat /\ mailed' \subseteq Nat \X Nat /\ torn' \subseteq Tables
  BY DEF Pass, Advance, fileVars, countVars, IInv, TypeOK
<1> QED BY <1>1, <1>2, <1>3, <1>4 DEF Works

LEMMA VerifyWorks ==
    ASSUME IInv, NEW r \in Requests, Verify(r)
    PROVE  Works(r) \/ Ends(r)
BY PassWorks, EndEnds DEF Verify, At

LEMMA ExistsWorks ==
    ASSUME IInv, NEW r \in Requests, Exists(r)
    PROVE  Works(r) \/ Ends(r)
BY PassWorks, EndEnds DEF Exists, At

LEMMA DieWorks ==
    ASSUME IInv, NEW r \in Requests, Die(r)
    PROVE  Works(r) \/ Ends(r)
BY EndEnds DEF Die, At

(* The limit is looked at on the users the request keeps. *)
LEMMA LimitWorks ==
    ASSUME IInv, NEW r \in Requests, Limit(r)
    PROVE  Works(r) \/ Ends(r)
<1>1. CASE End(r)
  BY <1>1, EndEnds DEF Limit, At
<1>2. CASE Pass(r) /\ ~(MaxUsers >= 0 /\ Len(Users(r)) + 1 > MaxUsers)
  <2>1. Busy(r) /\ writing[r] = None /\ todo[r] # <<>> /\ Verb(r) = "limit"
    BY ReadyCall DEF Limit
  <2>2. Retasked(r)
    BY <1>2, SameTask DEF Pass
  <2>3. Continued(r) /\ todo'[r] = Tail(todo[r])
    BY <1>2, <2>1, NextCall DEF Pass, Advance
  <2>4. /\ UNCHANGED <<disk, read, late, begun, overlaps, historyVars>>
        /\ UNCHANGED <<copy, writing>>
        /\ keys' \in Nat /\ mailed' \subseteq Nat \X Nat /\ torn' \subseteq Tables
    BY <1>2 DEF Pass, Advance, fileVars, countVars, IInv, TypeOK
  <2>5. "users" \in read[r]
    BY DEF Limit, At, TableOf, Rest
  <2>6. Len(Users(r)) \in Nat
    BY CopyFacts, LenProperties DEF Users, Tables
  <2>7. MaxUsers >= 0 => Len(Users(r)) + 1 <= MaxUsers
    BY <1>2, <2>6, LimitsAssumption
  <2> QED BY <2>1, <2>2, <2>3, <2>4, <2>5, <2>7 DEF Works
<1> QED BY <1>1, <1>2 DEF Limit

(* A change to a table a request has read. *)
LEMMA ChangeWorks ==
    ASSUME IInv, NEW r \in Requests, NEW verb, At(r, verb), verb \notin Rest,
           NEW rows, Fit(TableOf(verb), rows), Store(r, TableOf(verb), rows),
           Retasked(r), Continued(r), keys' \in Nat, mailed' \subseteq Nat \X Nat,
           verb # "limit",
           verb = "add user" => todo'[r] = Tail(todo[r]) /\ Len(rows) = Len(Users(r)) + 1,
           task[r].kind = "register" /\ TableOf(verb) = "users" => verb = "add user",
           TableOf(verb) = "users" => \A i \in DOMAIN Users(r) : Stays(task[r], Users(r)[i], rows)
    PROVE  Works(r)
<1> DEFINE t == TableOf(verb)
<1>1. Busy(r) /\ writing[r] = None /\ todo[r] # <<>> /\ Verb(r) = verb
  BY ReadyCall
<1>2. t \in Tables
  BY DEF TableOf, Tables
<1>3. Row(t) \subseteq AnyRow
  BY <1>2 DEF Tables, Row, AnyRow
<1>4. rows \in Seq(AnyRow)
  BY <1>3, SeqMonotonic DEF Fit
<1>5. t \in read[r]
  BY DEF At
<1>6. Changed(r, t, rows)
  BY <1>5 DEF Changed, Store
<1>7. /\ UNCHANGED <<disk, read, late, begun, overlaps, historyVars>>
      /\ torn' \subseteq Tables
  BY <1>2 DEF Store, IInv, TypeOK
<1>8. task[r].kind = "register" /\ t = "users" =>
        Verb(r) = "add user" /\ todo'[r] = Tail(todo[r]) /\ Len(rows) = Len(Users(r)) + 1
  BY <1>1
<1> HIDE DEF t
<1> QED BY <1>1, <1>2, <1>4, <1>6, <1>7, <1>8 DEF Works

(* The new row of a table has an id of its own. *)
LEMMA NewIdIsNatural ==
    ASSUME NEW t \in Tables, NEW rows, Fit(t, rows)
    PROVE  NextId(rows) \in Nat
<1>1. CASE rows = <<>>
  BY <1>1 DEF NextId
<1>2. CASE rows # <<>>
  <2>1. Len(rows) \in 1 .. Len(rows) /\ rows \in Seq(Row(t))
    BY <1>2, EmptySeq DEF Fit
  <2>2. rows[Len(rows)].id \in Nat
    BY <2>1, ElementOfSeq, RowsHaveIds
  <2> QED BY <1>2, <2>2 DEF NextId, Last
<1> QED BY <1>1, <1>2

LEMMA AddUserWorks ==
    ASSUME IInv, NEW r \in Requests, AddUser(r)
    PROVE  Works(r) \/ Ends(r)
<1>1. CASE End(r)
  BY <1>1, EndEnds DEF AddUser, At
<1>2. CASE ~End(r)
  <2> DEFINE n == NextId(Users(r))
             row == [id |-> n, name |-> task[r].name, email |-> task[r].email,
                     enabled |-> task[r].enabled, password |-> "old"]
             rows == Append(Users(r), row)
  <2>1. /\ At(r, "add user") /\ Change(r, "users", rows)
        /\ ~HasName(Users(r), task[r].name) /\ ~HasEmail(Users(r), task[r].email)
        /\ task' = [task EXCEPT ![r].id = n]
        /\ UNCHANGED <<keys, mailed>>
    BY <1>2 DEF AddUser
  <2>2. task[r].kind \in {"create", "register"} /\ todo[r] # <<>>
    BY <2>1, ReadyCall DEF Allowed
  <2>3. Fit("users", Users(r)) /\ task[r] \in Task
    BY CopyFacts DEF Users, Tables
  <2>4. n \in Nat
    BY <2>3, NewIdIsNatural DEF Tables
  <2>5. task[r].name \in Names /\ task[r].email \in Emails /\ task[r].enabled \in BOOLEAN
    BY <2>2, <2>3 DEF IInv, Named, Given, Task
  <2>6. row \in Row("users") /\ row.id = NextId(Users(r)) /\ row.name = task[r].name
        /\ row.email = task[r].email
    BY <2>4, <2>5 DEF Row, UserRow, Passwords
  <2> HIDE DEF row
  <2>7. /\ Fit("users", rows) /\ Len(rows) = Len(Users(r)) + 1
        /\ \A k \in DOMAIN Users(r) : k \in DOMAIN rows /\ rows[k] = Users(r)[k]
    BY <2>1, <2>3, <2>6, AdditionFits DEF Tables
  <2> HIDE DEF rows, n
  <2>8. Retasked(r)
    <3>1. /\ task' \in [Requests -> Task] /\ task'[r] = [task[r] EXCEPT !.id = n]
          /\ \A q \in Requests \ {r} : task'[q] = task[q]
      BY <2>1, <2>3, <2>4 DEF IInv, TypeOK, Task
    <3> QED BY <2>2, <2>3, <3>1 DEF Retasked, Task
  <2>9. Continued(r)
    BY <2>1, <2>2, NextCall DEF Change
  <2>10. todo'[r] = Tail(todo[r])
    BY <2>1 DEF Change, IInv, TypeOK
  <2>11. \A i \in DOMAIN Users(r) : Stays(task[r], Users(r)[i], rows)
    BY <2>7 DEF Stays
  <2>12. TableOf("add user") = "users" /\ "add user" \notin Rest
    BY DEF TableOf, Rest
  <2>13. keys' \in Nat /\ mailed' \subseteq Nat \X Nat
    BY <2>1 DEF IInv, TypeOK
  <2>14. Store(r, "users", rows)
    BY <2>1 DEF Change
  <2> QED BY <2>1, <2>7, <2>8, <2>9, <2>10, <2>11, <2>12, <2>13, <2>14, ChangeWorks
<1> QED BY <1>1, <1>2

(* update() of a row: it keeps its id, and its name unless that is given. *)
Becomes(t, old, row) ==
  /\ row \in UserRow /\ row.id = old.id
  /\ row.name = old.name \/ (Renames(t) /\ t.target = row.id /\ row.name = t.name)
Rewrites(r, i, row) ==
  /\ row.name = Users(r)[i].name \/ ~HasName(Users(r), row.name)
  /\ row.email = Users(r)[i].email \/ ~HasEmail(Users(r), row.email)
  /\ Change(r, "users", [Users(r) EXCEPT ![i] = row]) /\ UNCHANGED <<task, keys, mailed>>

LEMMA UpdateWorks ==
    ASSUME IInv, NEW r \in Requests, NEW verb \in {"set attributes", "set password", "rehash"},
           At(r, verb), NEW i \in DOMAIN Users(r), NEW row,
           Becomes(task[r], Users(r)[i], row), Rewrites(r, i, row)
    PROVE  Works(r)
<1> DEFINE rows == [Users(r) EXCEPT ![i] = row]
<1>1. /\ row.name = Users(r)[i].name \/ ~HasName(Users(r), row.name)
      /\ row.email = Users(r)[i].email \/ ~HasEmail(Users(r), row.email)
      /\ Change(r, "users", rows) /\ UNCHANGED <<task, keys, mailed>>
  BY DEF Rewrites
<1>2. Fit("users", Users(r)) /\ row \in UserRow /\ row.id = Users(r)[i].id
  BY CopyFacts DEF Users, Tables, Becomes
<1>3. /\ Fit("users", rows) /\ DOMAIN rows = DOMAIN Users(r)
      /\ \A k \in DOMAIN Users(r) : rows[k] = IF k = i THEN row ELSE Users(r)[k]
  BY <1>1, <1>2, EditionFits
<1> HIDE DEF rows
<1>4. Retasked(r)
  BY <1>1, SameTask
<1>5. Continued(r) /\ task[r].kind # "register"
  BY <1>1, ReadyCall, NextCall DEF Change, Allowed
<1>6. ASSUME NEW k \in DOMAIN Users(r)
      PROVE  Stays(task[r], Users(r)[k], rows)
  <2>1. CASE k = i
    <3>1. rows[i] = row /\ i \in DOMAIN rows
      BY <1>3
    <3> QED BY <2>1, <3>1 DEF Stays, Becomes
  <2>2. CASE k # i
    BY <1>3, <2>2 DEF Stays
  <2> QED BY <2>1, <2>2
<1>7. TableOf(verb) = "users" /\ verb \notin Rest /\ verb # "add user" /\ verb # "limit"
  BY DEF TableOf, Rest
<1>8. keys' \in Nat /\ mailed' \subseteq Nat \X Nat
  BY <1>1 DEF IInv, TypeOK
<1>9. Store(r, "users", rows)
  BY <1>1 DEF Change
<1> QED BY <1>3, <1>4, <1>5, <1>6, <1>7, <1>8, <1>9, ChangeWorks

(* What is made of a row has its name, or the one that is given. *)
Made(t, old, row) ==
  row \in UserRow /\ (row.name = old.name \/ (Renames(t) /\ row.name = t.name /\ row.id = t.target))

LEMMA EditedMade ==
    ASSUME NEW t \in Task, Given(t), t.kind \in {"edit", "enable"}, NEW old \in UserRow
    PROVE  Made(t, old, Edited(old, t))
<1> DEFINE name  == IF "name" \in t.given THEN t.name ELSE old.name
           email == IF "email" \in t.given THEN t.email ELSE old.email
           on    == IF "enabled" \in t.given THEN t.enabled ELSE old.enabled
<1>1. /\ old.id \in Nat /\ old.name \in Names /\ old.email \in Emails /\ old.enabled \in BOOLEAN
      /\ old.password \in Passwords /\ t.enabled \in BOOLEAN /\ t.target \in Nat
  BY DEF UserRow, Task
<1>2. name \in Names /\ email \in Emails /\ on \in BOOLEAN
  BY <1>1 DEF Given
<1>3. Edited(old, t) = [old EXCEPT !.id = t.target, !.name = name, !.email = email, !.enabled = on]
  BY DEF Edited, UserRow
<1>4. name = old.name \/ (Renames(t) /\ name = t.name)
  BY DEF Given, Renames
<1> HIDE DEF name, email, on
<1>5. Edited(old, t) = [id |-> t.target, name |-> name, email |-> email, enabled |-> on,
                        password |-> old.password]
  BY <1>3 DEF UserRow
<1> QED BY <1>1, <1>2, <1>4, <1>5 DEF Made, UserRow

(* Whatever is set, the row that is replaced stays its user's: a name that   *)
(* is not given is the one of the row it comes from, and update() refuses    *)
(* it for any other.                                                         *)
LEMMA SetUserRow ==
    ASSUME IInv, NEW r \in Requests, NEW verb, At(r, verb), SetUser(r), ~End(r)
    PROVE  \E i \in DOMAIN Users(r), row \in UserRow : Becomes(task[r], Users(r)[i], row) /\ Rewrites(r, i, row)
<1> DEFINE row(i) == Users(r)[i]
<1>1. PICK k \in DOMAIN Users(r) :
        /\ row(k).id = task[r].id
        /\ \/ Verb(r) = "set attributes" /\ Update(r, Edited(row(k), task[r]))
           \/ Verb(r) = "set password" /\ Update(r, [row(k) EXCEPT !.password = "new"])
           \/ Verb(r) = "rehash" /\ Update(r, row(k))
  BY DEF SetUser
<1>2. row(k) \in UserRow /\ task[r] \in Task
  BY CopyFacts
<1> DEFINE made(x) == Made(task[r], row(k), x)
<1>3. Verb(r) = "set attributes" => made(Edited(row(k), task[r]))
  <2>1. Verb(r) = "set attributes" => task[r].kind \in {"edit", "enable"} /\ Given(task[r])
    BY ReadyCall DEF Allowed, IInv, Named
  <2> QED BY <1>2, <2>1, EditedMade
<1>4. made([row(k) EXCEPT !.password = "new"]) /\ made(row(k))
  BY <1>2 DEF UserRow, Passwords, Made
<1>5. PICK x : made(x) /\ Update(r, x)
  <2> HIDE DEF made, row
  <2> QED BY <1>1, <1>3, <1>4
<1>6. PICK i \in DOMAIN Users(r) : row(i).id = x.id /\ Rewrites(r, i, x)
  BY <1>5 DEF Update, Rewrites
<1>7. x.name = row(k).name => x.name = row(i).name
  BY <1>6 DEF Rewrites, HasName
<1>8. x \in UserRow /\ Becomes(task[r], row(i), x)
  BY <1>5, <1>6, <1>7 DEF Made, Becomes
<1> QED BY <1>6, <1>8

LEMMA SetUserWorks ==
    ASSUME IInv, NEW r \in Requests, SetUser(r)
    PROVE  Works(r) \/ Ends(r)
<1>1. PICK verb \in {"set attributes", "set password", "rehash"} : At(r, verb)
  BY DEF SetUser
<1>2. CASE End(r)
  BY <1>1, <1>2, EndEnds DEF At
<1>3. CASE ~End(r)
  <2>1. PICK i \in DOMAIN Users(r), row \in UserRow : Becomes(task[r], Users(r)[i], row) /\ Rewrites(r, i, row)
    BY <1>1, <1>3, SetUserRow
  <2> QED BY <1>1, <2>1, UpdateWorks
<1> QED BY <1>2, <1>3

(* A row goes from a table, its user only with the request that removes him. *)
LEMMA RemovalWorks ==
    ASSUME IInv, NEW r \in Requests,
           NEW verb \in {"drop user", "revoke", "old token", "drop token"}, At(r, verb),
           NEW i \in DOMAIN copy[r][TableOf(verb)],
           verb = "drop user" => Users(r)[i].id = task[r].id,
           Store(r, TableOf(verb), RemoveAt(copy[r][TableOf(verb)], i)), Continued(r),
           UNCHANGED <<task, keys, mailed>>
    PROVE  Works(r)
<1> DEFINE t == TableOf(verb)
           rows == RemoveAt(copy[r][t], i)
<1>1. t \in Tables /\ verb \notin Rest /\ verb # "add user" /\ verb # "limit"
      /\ (t = "users" <=> verb = "drop user")
  BY DEF TableOf, Rest, Tables
<1>2. Fit(t, copy[r][t])
  BY <1>1, CopyFacts
<1>3. /\ Fit(t, rows)
      /\ \A k \in DOMAIN copy[r][t] : k # i => \E j \in DOMAIN rows : rows[j] = copy[r][t][k]
  BY <1>1, <1>2, RemovalFits
<1>4. verb = "drop user" => task[r].kind = "remove"
  BY ReadyCall DEF Allowed
<1>5. ASSUME t = "users", NEW k \in DOMAIN Users(r)
      PROVE  Stays(task[r], Users(r)[k], rows)
  <2>1. Users(r) = copy[r][t] /\ verb = "drop user"
    BY <1>1, <1>5 DEF Users
  <2>2. CASE k = i
    BY <1>4, <2>1, <2>2 DEF Stays
  <2>3. CASE k # i
    <3>1. \E j \in DOMAIN rows : rows[j] = Users(r)[k]
      BY <1>3, <2>1, <2>3
    <3> QED BY <3>1 DEF Stays
  <2> QED BY <2>2, <2>3
<1>6. Retasked(r) /\ keys' \in Nat /\ mailed' \subseteq Nat \X Nat
  BY SameTask DEF IInv, TypeOK
<1> HIDE DEF rows
<1>7. Store(r, t, rows)
  BY DEF rows
<1> QED BY <1>1, <1>3, <1>4, <1>5, <1>6, <1>7, ChangeWorks

LEMMA DropUserWorks ==
    ASSUME IInv, NEW r \in Requests, DropUser(r)
    PROVE  Works(r) \/ Ends(r)
<1>1. CASE End(r)
  BY <1>1, EndEnds DEF DropUser, At
<1>2. CASE ~End(r)
  <2>1. PICK i \in DOMAIN Users(r) :
          /\ Users(r)[i].id = task[r].id /\ Change(r, "users", RemoveAt(Users(r), i))
          /\ UNCHANGED <<task, keys, mailed>>
    BY <1>2 DEF DropUser
  <2>2. At(r, "drop user") /\ TableOf("drop user") = "users" /\ todo[r] # <<>>
    BY DEF DropUser, TableOf, At
  <2>3. Continued(r)
    BY <2>1, <2>2, NextCall DEF Change
  <2> QED BY <2>1, <2>2, <2>3, RemovalWorks DEF Change, Users
<1> QED BY <1>1, <1>2

LEMMA OldTokenWorks ==
    ASSUME IInv, NEW r \in Requests, OldToken(r)
    PROVE  Works(r) \/ Ends(r)
<1>1. CASE End(r)
  BY <1>1, EndEnds DEF OldToken, At
<1>2. CASE Pass(r)
  BY <1>2, PassWorks DEF OldToken
<1>3. CASE ~End(r) /\ ~Pass(r)
  <2>1. PICK i \in DOMAIN Tokens(r) :
          Change(r, "tokens", RemoveAt(Tokens(r), i)) /\ UNCHANGED <<task, keys, mailed>>
    BY <1>3 DEF OldToken
  <2>2. At(r, "old token") /\ TableOf("old token") = "tokens" /\ todo[r] # <<>>
    BY DEF OldToken, TableOf, At
  <2>3. Continued(r)
    BY <2>1, <2>2, NextCall DEF Change
  <2> QED BY <2>1, <2>2, <2>3, RemovalWorks DEF Change, Tokens
<1> QED BY <1>1, <1>2, <1>3

LEMMA DropTokenWorks ==
    ASSUME IInv, NEW r \in Requests, DropToken(r)
    PROVE  Works(r) \/ Ends(r)
<1>1. CASE End(r)
  BY <1>1, EndEnds DEF DropToken, At
<1>2. CASE ~End(r)
  <2>1. PICK i \in DOMAIN Tokens(r) :
          Change(r, "tokens", RemoveAt(Tokens(r), i)) /\ UNCHANGED <<task, keys, mailed>>
    BY <1>2 DEF DropToken
  <2>2. At(r, "drop token") /\ TableOf("drop token") = "tokens" /\ todo[r] # <<>>
    BY DEF DropToken, TableOf, At
  <2>3. Continued(r)
    BY <2>1, <2>2, NextCall DEF Change
  <2> QED BY <2>1, <2>2, <2>3, RemovalWorks DEF Change, Tokens
<1> QED BY <1>1, <1>2

LEMMA RevokeWorks ==
    ASSUME IInv, NEW r \in Requests, Revoke(r)
    PROVE  Works(r)
<1>1. CASE Pass(r)
  BY <1>1, PassWorks DEF Revoke
<1>2. CASE ~Pass(r)
  <2>1. PICK i \in DOMAIN Owned(r) :
          Store(r, "rights", RemoveAt(Owned(r), i)) /\ UNCHANGED <<task, todo, keys, mailed>>
    BY <1>2 DEF Revoke
  <2>2. At(r, "revoke") /\ TableOf("revoke") = "rights" /\ todo[r] # <<>>
    BY DEF Revoke, TableOf, At
  <2>3. Continued(r)
    BY <2>1, <2>2 DEF Continued, IInv, TypeOK, At
  <2> QED BY <2>1, <2>2, <2>3, RemovalWorks DEF Owned
<1> QED BY <1>1, <1>2

LEMMA GrantedRight ==
    ASSUME IInv, NEW r \in Requests, At(r, "grant")
    PROVE  Head(todo[r])[2] \in Rights
<1>1. Head(todo[r]) \in Call /\ Head(todo[r])[1] = "grant"
  BY ReadyCall DEF Verb
<1>2. Head(todo[r]) \notin {Do(verb) : verb \in Verbs}
  <2>1. \A verb \in Verbs : Do(verb)[1] = verb /\ verb # "grant"
    BY DEF Do, Verbs
  <2> QED BY <1>1, <2>1
<1>3. PICK right \in Rights : Head(todo[r]) = <<"grant", right>>
  BY <1>1, <1>2 DEF Call
<1> QED BY <1>3

LEMMA GrantWorks ==
    ASSUME IInv, NEW r \in Requests, Grant(r)
    PROVE  Works(r)
<1> DEFINE row == [id |-> NextId(Owned(r)), userId |-> task[r].id, right |-> Head(todo[r])[2]]
           rows == Append(Owned(r), row)
<1>1. At(r, "grant") /\ Change(r, "rights", rows) /\ UNCHANGED <<task, keys, mailed>>
  BY DEF Grant
<1>2. Fit("rights", Owned(r)) /\ task[r] \in Task
  BY CopyFacts DEF Owned, Tables
<1>3. NextId(Owned(r)) \in Nat
  BY <1>2, NewIdIsNatural DEF Tables
<1>4. Head(todo[r])[2] \in Rights
  BY <1>1, GrantedRight
<1>5. row \in Row("rights") /\ row.id = NextId(Owned(r))
  BY <1>2, <1>3, <1>4 DEF Row, RightRow, Task
<1> HIDE DEF row
<1>6. Fit("rights", rows)
  BY <1>2, <1>5, AdditionFits DEF Tables
<1> HIDE DEF rows
<1>7. Continued(r) /\ Retasked(r)
  BY <1>1, NextCall, SameTask DEF Change, At
<1>8. TableOf("grant") = "rights" /\ "grant" \notin Rest
  BY DEF TableOf, Rest
<1>9. keys' \in Nat /\ mailed' \subseteq Nat \X Nat
  BY <1>1 DEF IInv, TypeOK
<1>10. Store(r, "rights", rows)
  BY <1>1 DEF Change
<1> QED BY <1>1, <1>6, <1>7, <1>8, <1>9, <1>10, ChangeWorks

LEMMA AddTokenWorks ==
    ASSUME IInv, NEW r \in Requests, AddToken(r)
    PROVE  Works(r) \/ Ends(r)
<1>1. CASE End(r)
  BY <1>1, EndEnds DEF AddToken, At
<1>2. CASE ~End(r)
  <2> DEFINE n == NextId(Tokens(r))
             row == [id |-> n, userId |-> task[r].id, key |-> keys]
             rows == Append(Tokens(r), row)
  <2>1. /\ At(r, "add token") /\ ~HasOwner(Tokens(r), task[r].id)
        /\ Change(r, "tokens", rows)
        /\ task' = [task EXCEPT ![r].token = n, ![r].key = keys]
        /\ keys' = keys + 1 /\ mailed' = mailed
    BY <1>2 DEF AddToken
  <2>2. Fit("tokens", Tokens(r)) /\ task[r] \in Task /\ keys \in Nat
    BY CopyFacts DEF Tokens, Tables, IInv, TypeOK
  <2>3. n \in Nat
    BY <2>2, NewIdIsNatural DEF Tables
  <2>4. row \in Row("tokens") /\ row.id = NextId(Tokens(r)) /\ row.userId = task[r].id
    BY <2>2, <2>3 DEF Row, TokenRow, Task
  <2> HIDE DEF row
  <2>5. Fit("tokens", rows)
    BY <2>1, <2>2, <2>4, AdditionFits DEF Tables
  <2> HIDE DEF rows, n
  <2>6. Retasked(r)
    <3>1. /\ task' \in [Requests -> Task] /\ task'[r] = [task[r] EXCEPT !.token = n, !.key = keys]
          /\ \A q \in Requests \ {r} : task'[q] = task[q]
      BY <2>1, <2>2, <2>3 DEF IInv, TypeOK, Task
    <3> QED BY <2>2, <3>1 DEF Retasked, Task
  <2>7. Continued(r)
    BY <2>1, NextCall DEF Change, At
  <2>8. TableOf("add token") = "tokens" /\ "add token" \notin Rest
    BY DEF TableOf, Rest
  <2>9. keys' \in Nat /\ mailed' \subseteq Nat \X Nat
    <3>1. mailed \subseteq Nat \X Nat
      BY DEF IInv, TypeOK
    <3>2. keys' = keys + 1 /\ mailed' = mailed
      BY <2>1
    <3>3. keys' \in Nat
      BY <2>2, <3>2
    <3>4. mailed' \subseteq Nat \X Nat
      BY <3>1, <3>2
    <3> QED BY <3>3, <3>4
  <2>10. Store(r, "tokens", rows)
    BY <2>1 DEF Change
  <2> QED BY <2>1, <2>5, <2>6, <2>7, <2>8, <2>9, <2>10, ChangeWorks
<1> QED BY <1>1, <1>2

(* A call that finds whom the request is about. *)
LEMMA FoundWorks ==
    ASSUME IInv, NEW r \in Requests, NEW verb \in {"login", "find", "check token"}, At(r, verb),
           NEW n \in Nat, task' = [task EXCEPT ![r].id = n], Advance(r), UNCHANGED countVars
    PROVE  Works(r)
<1>1. /\ Busy(r) /\ writing[r] = None /\ todo[r] # <<>> /\ Verb(r) = verb
      /\ task[r].kind \notin {"remove", "edit", "register"}
  BY ReadyCall DEF Allowed
<1>2. Retasked(r)
  <2>1. task[r] \in Task
    BY CopyFacts
  <2>2. /\ task' \in [Requests -> Task] /\ task'[r] = [task[r] EXCEPT !.id = n]
        /\ \A q \in Requests \ {r} : task'[q] = task[q]
    BY <2>1 DEF IInv, TypeOK, Task
  <2> QED BY <1>1, <2>1, <2>2 DEF Retasked, Task
<1>3. Continued(r) /\ todo'[r] = Tail(todo[r])
  BY <1>1, NextCall DEF Advance
<1>4. /\ UNCHANGED <<disk, read, late, begun, overlaps, historyVars>>
      /\ UNCHANGED <<copy, writing>>
      /\ keys' \in Nat /\ mailed' \subseteq Nat \X Nat /\ torn' \subseteq Tables
  BY DEF Advance, fileVars, countVars, IInv, TypeOK
<1> QED BY <1>1, <1>2, <1>3, <1>4 DEF Works

LEMMA LoginWorks ==
    ASSUME IInv, NEW r \in Requests, Login(r)
    PROVE  Works(r) \/ Ends(r)
<1>1. CASE End(r)
  BY <1>1, EndEnds DEF Login, At
<1>2. CASE ~End(r)
  <2>1. PICK i \in DOMAIN Users(r) : task' = [task EXCEPT ![r].id = Users(r)[i].id] /\ Advance(r)
                                     /\ UNCHANGED countVars
    BY <1>2 DEF Login
  <2>2. Users(r)[i].id \in Nat
    BY CopyFacts DEF UserRow
  <2> QED BY <2>1, <2>2, FoundWorks DEF Login
<1> QED BY <1>1, <1>2

LEMMA FindWorks ==
    ASSUME IInv, NEW r \in Requests, Find(r)
    PROVE  Works(r) \/ Ends(r)
<1>1. CASE End(r)
  BY <1>1, EndEnds DEF Find, At
<1>2. CASE ~End(r)
  <2>1. PICK i \in DOMAIN Users(r) : task' = [task EXCEPT ![r].id = Users(r)[i].id] /\ Advance(r)
                                     /\ UNCHANGED countVars
    BY <1>2 DEF Find
  <2>2. Users(r)[i].id \in Nat
    BY CopyFacts DEF UserRow
  <2> QED BY <2>1, <2>2, FoundWorks DEF Find
<1> QED BY <1>1, <1>2

LEMMA CheckTokenWorks ==
    ASSUME IInv, NEW r \in Requests, CheckToken(r)
    PROVE  Works(r) \/ Ends(r)
<1>1. CASE End(r)
  BY <1>1, EndEnds DEF CheckToken, At
<1>2. CASE ~End(r)
  <2>1. PICK i \in DOMAIN Tokens(r) : task' = [task EXCEPT ![r].id = Tokens(r)[i].userId]
                                      /\ Advance(r) /\ UNCHANGED countVars
    BY <1>2 DEF CheckToken
  <2>2. Tokens(r)[i].userId \in Nat
    BY CopyFacts DEF TokenRow
  <2> QED BY <2>1, <2>2, FoundWorks DEF CheckToken
<1> QED BY <1>1, <1>2

(* The mail goes, or the token is to be deleted. *)
LEMMA MailWorks ==
    ASSUME IInv, NEW r \in Requests, Mail(r)
    PROVE  Works(r)
<1>1. /\ Busy(r) /\ writing[r] = None /\ todo[r] # <<>> /\ Verb(r) = "mail"
      /\ task[r].kind \notin {"remove", "edit", "register"}
  <2>1. At(r, "mail")
    BY DEF Mail
  <2>2. Busy(r) /\ writing[r] = None /\ todo[r] # <<>> /\ Verb(r) = "mail"
    BY <2>1, ReadyCall
  <2>3. Allowed(task[r].kind, "mail")
    BY <2>1, ReadyCall
  <2>4. task[r].kind \notin {"remove", "edit", "register"}
    BY <2>3 DEF Allowed
  <2> QED BY <2>2, <2>4
<1>2. task' = task /\ task[r] \in Task
  BY CopyFacts DEF Mail
<1>3. Retasked(r)
  BY <1>2, SameTask
<1>4. /\ UNCHANGED <<disk, read, late, begun, overlaps, historyVars>>
      /\ UNCHANGED <<copy, writing>> /\ keys' = keys /\ torn' = torn
  BY DEF Mail, Advance, fileVars, countVars
<1>5. keys' \in Nat /\ torn' \subseteq Tables /\ mailed \subseteq Nat \X Nat
  BY <1>4 DEF IInv, TypeOK
<1>6. CASE todo' = [todo EXCEPT ![r] = Tail(@)] /\ mailed' = mailed \cup {<<task[r].token, task[r].key>>}
  <2>1. mailed' \subseteq Nat \X Nat
    BY <1>2, <1>5, <1>6 DEF Task
  <2>2. Continued(r)
    BY <1>1, <1>6, NextCall
  <2> QED BY <1>1, <1>3, <1>4, <1>5, <2>1, <2>2 DEF Works
<1>7. CASE todo' = [todo EXCEPT ![r] = <<<<"drop token", None>>>>] /\ mailed' = mailed
  <2>1. <<Do("drop token")>> \in Seq(Call) /\ Do("drop token") = <<"drop token", None>>
    BY DEF Call, Verbs, Do
  <2>2. Continued(r)
    BY <1>1, <1>7, <2>1 DEF Continued, IInv, TypeOK
  <2> QED BY <1>1, <1>3, <1>4, <1>5, <1>7, <2>2 DEF Works
<1> QED BY <1>6, <1>7 DEF Mail, Advance, countVars

(* Every call does what Works or Ends says. *)
LEMMA ManagerWorks ==
    ASSUME IInv, NEW r \in Requests, Manager(r)
    PROVE  Works(r) \/ Ends(r)
BY VerifyWorks, ExistsWorks, LimitWorks, AddUserWorks, SetUserWorks, DropUserWorks, RevokeWorks,
   GrantWorks, LoginWorks, FindWorks, OldTokenWorks, AddTokenWorks, MailWorks, DieWorks,
   CheckTokenWorks, DropTokenWorks DEF Manager

-----------------------------------------------------------------------------
(* What a request is asked. *)

Fitting(t, calls) ==
  /\ t \in Task /\ t.kind # None /\ calls \in Seq(Call)
  /\ \A i \in DOMAIN calls : Allowed(t.kind, calls[i][1])
  /\ Given(t)
  /\ t.kind = "register" => \A i \in DOMAIN calls : calls[i][1] = "add user" =>
                              i = 2 /\ calls[1][1] = "limit"

LEMMA GrantsAreCalls ==
    ASSUME NEW list \in Seq(Rights)
    PROVE  /\ Grants(list) \in Seq(Call) /\ Len(Grants(list)) \in Nat
           /\ DOMAIN Grants(list) = 1 .. Len(Grants(list))
           /\ \A i \in DOMAIN Grants(list) : Grants(list)[i][1] = "grant"
<1>1. Len(list) \in Nat /\ DOMAIN list = 1 .. Len(list) /\ \A i \in 1 .. Len(list) : list[i] \in Rights
  BY LenProperties, ElementOfSeq
<1>2. \A i \in 1 .. Len(list) : <<"grant", list[i]>> \in Call
  BY <1>1 DEF Call
<1>3. Grants(list) \in [1 .. Len(list) -> Call]
  BY <1>1, <1>2 DEF Grants
<1>4. Grants(list) \in Seq(Call)
  BY <1>1, <1>3, SeqDef
<1>5. Len(Grants(list)) \in Nat /\ DOMAIN Grants(list) = 1 .. Len(Grants(list))
  BY <1>4, LenProperties
<1>6. \A i \in DOMAIN Grants(list) : Grants(list)[i][1] = "grant"
  BY <1>1 DEF Grants
<1> QED BY <1>4, <1>5, <1>6

LEMMA DoIsCall == \A verb \in Verbs : Do(verb) \in Call /\ Do(verb)[1] = verb
BY DEF Do, Call

Calls(c, verb) == c[1] = verb

LEMMA ConcatElements ==
    ASSUME NEW S, NEW s \in Seq(S), NEW u \in Seq(S)
    PROVE  /\ s \o u \in Seq(S)
           /\ \A i \in DOMAIN s : i \in DOMAIN (s \o u) /\ (s \o u)[i] = s[i]
           /\ \A i \in DOMAIN (s \o u) : \/ i \in DOMAIN s /\ (s \o u)[i] = s[i]
                                         \/ i > Len(s) /\ \E j \in DOMAIN u : (s \o u)[i] = u[j]
<1> DEFINE su == s \o u
<1>1. Len(s) \in Nat /\ DOMAIN s = 1 .. Len(s) /\ Len(u) \in Nat /\ DOMAIN u = 1 .. Len(u)
  BY LenProperties
<1>2. su \in Seq(S) /\ Len(su) = Len(s) + Len(u)
      /\ \A i \in 1 .. Len(s) + Len(u) : su[i] = IF i <= Len(s) THEN s[i] ELSE u[i - Len(s)]
  BY ConcatProperties
<1>3. DOMAIN su = 1 .. Len(s) + Len(u)
  BY <1>2, LenProperties
<1> HIDE DEF su
<1>4. \A i \in DOMAIN s : i \in DOMAIN su /\ su[i] = s[i]
  BY <1>1, <1>2, <1>3
<1>5. ASSUME NEW i \in DOMAIN su, i \notin DOMAIN s
      PROVE  i > Len(s) /\ \E j \in DOMAIN u : su[i] = u[j]
  <2>1. i > Len(s) /\ i - Len(s) \in DOMAIN u /\ su[i] = u[i - Len(s)]
    BY <1>1, <1>2, <1>3, <1>5
  <2> QED BY <2>1
<1> QED BY <1>2, <1>4, <1>5 DEF su

(* A registration looks at the limit first. *)
LEMMA RegisterFits ==
    ASSUME NEW t \in Task, t.kind = "register", t.name \in Names, t.email \in Emails,
           NEW a \in Seq(Call), DOMAIN a = {1, 2}, Calls(a[1], "limit"), Calls(a[2], "add user"),
           NEW last \in Seq(Call), \A i \in DOMAIN last : Calls(last[i], "die")
    PROVE  Fitting(t, (a \o Grants(DefaultGrants)) \o last)
<1> DEFINE b == Grants(DefaultGrants)
           ab == a \o b
           calls == ab \o last
           good(c) == Calls(c, "grant") \/ Calls(c, "die")
<1>1. b \in Seq(Call) /\ \A i \in DOMAIN b : Calls(b[i], "grant")
  BY GrantsAreCalls, ListsAssumption DEF Calls
<1> HIDE DEF b
<1>2. /\ ab \in Seq(Call)
      /\ \A i \in DOMAIN a : i \in DOMAIN ab /\ ab[i] = a[i]
      /\ \A i \in DOMAIN ab : \/ i \in DOMAIN a /\ ab[i] = a[i]
                              \/ i > Len(a) /\ \E j \in DOMAIN b : ab[i] = b[j]
  BY <1>1, ConcatElements
<1> HIDE DEF ab
<1>3. /\ calls \in Seq(Call)
      /\ \A i \in DOMAIN ab : i \in DOMAIN calls /\ calls[i] = ab[i]
      /\ \A i \in DOMAIN calls : \/ i \in DOMAIN ab /\ calls[i] = ab[i]
                                 \/ i > Len(ab) /\ \E j \in DOMAIN last : calls[i] = last[j]
  BY <1>2, ConcatElements
<1> HIDE DEF calls
<1>4. 1 \in DOMAIN calls /\ Calls(calls[1], "limit")
  <2>1. \A i \in DOMAIN a : i \in DOMAIN calls /\ calls[i] = a[i]
    BY <1>2, <1>3
  <2>2. PICK i \in DOMAIN a : i = 1
    OBVIOUS
  <2>3. i \in DOMAIN calls /\ Calls(calls[i], "limit")
    BY <2>1, <2>2
  <2> QED BY <2>2, <2>3
<1>5. ASSUME NEW i \in DOMAIN calls
      PROVE  \/ i = 1 /\ Calls(calls[i], "limit")
             \/ i = 2 /\ Calls(calls[i], "add user")
             \/ good(calls[i])
  <2>1. CASE i \in DOMAIN ab /\ calls[i] = ab[i]
    <3>1. CASE i \in DOMAIN a /\ ab[i] = a[i]
      BY <2>1, <3>1
    <3>2. CASE \E j \in DOMAIN b : ab[i] = b[j]
      BY <1>1, <2>1, <3>2
    <3> QED BY <1>2, <2>1, <3>1, <3>2
  <2>2. CASE \E j \in DOMAIN last : calls[i] = last[j]
    BY <2>2
  <2> QED BY <1>3, <2>1, <2>2
<1>6. \A i \in DOMAIN calls : Calls(calls[i], "add user") => i = 2
  BY <1>5 DEF Calls
<1>7. \A i \in DOMAIN calls : Allowed("register", calls[i][1])
  BY <1>5 DEF Allowed, Calls
<1>8. Fitting(t, calls)
  BY <1>3, <1>4, <1>6, <1>7 DEF Fitting, Given, None, Calls
<1> QED BY <1>8 DEF calls, ab, b

(* Two or three calls, then the authorizations of a list. *)
LEMMA PlanFits ==
    ASSUME NEW t \in Task, t.kind \notin {None, "register"},
           Given(t),
           NEW a \in Seq(Call), \A i \in DOMAIN a : Allowed(t.kind, a[i][1]),
           NEW list \in Seq(Rights), t.kind \notin {"remove", "edit"}
    PROVE  Fitting(t, a \o Grants(list)) /\ Fitting(t, a)
<1> DEFINE b == Grants(list)
           calls == a \o b
<1>1. b \in Seq(Call) /\ Len(b) \in Nat /\ DOMAIN b = 1 .. Len(b) /\ \A i \in DOMAIN b : b[i][1] = "grant"
  BY GrantsAreCalls
<1>2. Len(a) \in Nat /\ DOMAIN a = 1 .. Len(a)
  BY LenProperties
<1> HIDE DEF b
<1>3. calls \in Seq(Call) /\ Len(calls) = Len(a) + Len(b)
      /\ \A i \in 1 .. Len(a) + Len(b) : calls[i] = IF i <= Len(a) THEN a[i] ELSE b[i - Len(a)]
  BY <1>1, ConcatProperties
<1>4. DOMAIN calls = 1 .. Len(a) + Len(b)
  BY <1>3, LenProperties
<1> HIDE DEF calls
<1>5. ASSUME NEW i \in DOMAIN calls
      PROVE  Allowed(t.kind, calls[i][1])
  <2>1. CASE i <= Len(a)
    BY <1>1, <1>2, <1>3, <1>4, <2>1
  <2>2. CASE ~(i <= Len(a))
    <3>1. calls[i] = b[i - Len(a)] /\ i - Len(a) \in DOMAIN b
      BY <1>1, <1>2, <1>3, <1>4, <2>2
    <3> QED BY <1>1, <3>1 DEF Allowed
  <2> QED BY <2>1, <2>2
<1>6. t.kind # "register" /\ t.kind # None
  OBVIOUS
<1>7. Fitting(t, calls)
  BY <1>3, <1>5, <1>6 DEF Fitting
<1>8. Fitting(t, a)
  BY <1>6 DEF Fitting
<1> QED BY <1>7, <1>8 DEF calls, b

(* A request begins. *)
Settles(t, now) ==
  /\ \A p \in now : /\ \E q \in settled : q[2] = p[2]
                    /\ t.kind = "remove" => p[2] # t.id
                    /\ Renames(t) /\ t.target = p[2] => <<t.name, p[2]>> \in now
  /\ \A p \in settled, q \in now : p[2] = q[2] => p \in now

Begins(r) ==
  \E t, calls, now : Fitting(t, calls) /\ Begin(r, t, calls, now) /\ Settles(t, now)

LEMMA IdsAreNaturals == IInv => Ids \subseteq Nat
<1> SUFFICES ASSUME IInv PROVE Ids \subseteq Nat
  OBVIOUS
<1>1. disk["users"] \in Seq(Row("users"))
  BY DEF IInv, FilesFit, Fit, Tables
<1>2. \A i \in DOMAIN disk["users"] : disk["users"][i].id \in Nat
  BY <1>1, ElementOfSeq, LenProperties, RowsHaveIds DEF Tables
<1> QED BY <1>2 DEF Ids, ToSet

(* The calls a request starts with. *)
LEMMA ShortPlans ==
  /\ <<Do("control"), Do("add user")>> \in Seq(Call)
  /\ <<Do("control"), Do("set attributes")>> \in Seq(Call)
  /\ <<Do("control"), Do("verify"), Do("set password")>> \in Seq(Call)
  /\ <<Do("control"), Do("exists"), Do("revoke")>> \in Seq(Call)
  /\ <<Do("control"), Do("lookup"), Do("revoke"), Do("drop user")>> \in Seq(Call)
  /\ <<Do("login"), Do("rehash")>> \in Seq(Call)
  /\ <<Do("find"), Do("old token"), Do("add token"), Do("mail")>> \in Seq(Call)
  /\ <<Do("check token"), Do("set password"), Do("drop token")>> \in Seq(Call)
  /\ <<Do("limit"), Do("add user")>> \in Seq(Call)
  /\ <<Do("die")>> \in Seq(Call) /\ <<>> \in Seq(Call)
<1>1. \A verb \in Verbs : Do(verb) \in Call
  BY DoIsCall
<1> HIDE DEF Call
<1>2. \A c \in Call, d \in Call, e \in Call, f \in Call :
        <<c>> \in Seq(Call) /\ <<c, d>> \in Seq(Call) /\ <<c, d, e>> \in Seq(Call)
        /\ <<c, d, e, f>> \in Seq(Call)
  OBVIOUS
<1>3. /\ Do("control") \in Call /\ Do("add user") \in Call /\ Do("set attributes") \in Call
      /\ Do("verify") \in Call /\ Do("set password") \in Call
      /\ Do("exists") \in Call /\ Do("revoke") \in Call /\ Do("lookup") \in Call
      /\ Do("drop user") \in Call /\ Do("login") \in Call /\ Do("rehash") \in Call
  BY <1>1 DEF Verbs
<1>4. /\ Do("find") \in Call /\ Do("old token") \in Call /\ Do("add token") \in Call
      /\ Do("mail") \in Call /\ Do("check token") \in Call /\ Do("drop token") \in Call
      /\ Do("limit") \in Call /\ Do("die") \in Call
  BY <1>1 DEF Verbs
<1>5. <<>> \in Seq(Call)
  OBVIOUS
<1> QED BY <1>2, <1>3, <1>4, <1>5

(* A list of calls is allowed if each of them is. *)
LEMMA ListAllowed ==
    ASSUME NEW kind, NEW u, NEW v, NEW w, NEW x
    PROVE  /\ Allowed(kind, u) /\ Allowed(kind, v) =>
                \A i \in DOMAIN <<Do(u), Do(v)>> : Allowed(kind, <<Do(u), Do(v)>>[i][1])
           /\ Allowed(kind, u) /\ Allowed(kind, v) /\ Allowed(kind, w) =>
                \A i \in DOMAIN <<Do(u), Do(v), Do(w)>> :
                  Allowed(kind, <<Do(u), Do(v), Do(w)>>[i][1])
           /\ Allowed(kind, u) /\ Allowed(kind, v) /\ Allowed(kind, w) /\ Allowed(kind, x) =>
                \A i \in DOMAIN <<Do(u), Do(v), Do(w), Do(x)>> :
                  Allowed(kind, <<Do(u), Do(v), Do(w), Do(x)>>[i][1])
<1>1. Do(u)[1] = u /\ Do(v)[1] = v /\ Do(w)[1] = w /\ Do(x)[1] = x
  BY DEF Do
<1> HIDE DEF Allowed
<1>2. /\ DOMAIN <<Do(u), Do(v)>> = {1, 2}
      /\ DOMAIN <<Do(u), Do(v), Do(w)>> = {1, 2, 3}
      /\ DOMAIN <<Do(u), Do(v), Do(w), Do(x)>> = {1, 2, 3, 4}
  OBVIOUS
<1> QED BY <1>1, <1>2

LEMMA AskedIsTask ==
    ASSUME NEW kind \in Kinds, NEW n \in Nat
    PROVE  Asked(kind, n) \in Task /\ Asked(kind, n).kind = kind /\ Asked(kind, n).id = n
BY DEF Asked, Idle, Task, Kinds

LEMMA NobodyLeaves == \A t : t.kind # "remove" /\ ~Renames(t) => Settles(t, settled)
BY DEF Settles

LEMMA FittingBegins ==
    ASSUME NEW r \in Requests, NEW t, NEW calls, Fitting(t, calls),
           t.kind \notin {"remove", "edit"}, Begin(r, t, calls, settled)
    PROVE  Begins(r)
<1>1. t \in Task /\ calls \in Seq(Call)
  BY DEF Fitting
<1>2. Settles(t, settled)
  BY NobodyLeaves DEF Renames
<1> QED BY <1>1, <1>2 DEF Begins

(* A caller who only reads and writes rows. *)
LEMMA PlainBegins ==
    ASSUME NEW r \in Requests, NEW t \in Task,
           t.kind \notin {None, "register", "create", "edit", "enable", "remove"},
           NEW calls \in Seq(Call), \A i \in DOMAIN calls : Allowed(t.kind, calls[i][1]),
           Begin(r, t, calls, settled)
    PROVE  Begins(r)
<1>1. Fitting(t, calls)
  BY DEF Fitting, Given
<1> QED BY <1>1, FittingBegins

LEMMA CreateBegins ==
    ASSUME NEW r \in Requests, Create(r)
    PROVE  Begins(r)
<1> DEFINE t(n, e) == [Idle EXCEPT !.kind = "create", !.name = n, !.email = e, !.enabled = TRUE]
           a == <<Do("control"), Do("add user")>>
<1>1. PICK n \in NewNames, e \in NewEmails, list \in GrantLists :
        Begin(r, t(n, e), a \o Grants(list), settled)
  BY DEF Create
<1>2. t(n, e) \in Task /\ t(n, e).kind = "create" /\ t(n, e).name = n /\ t(n, e).email = e
      /\ n \in Names /\ e \in Emails /\ list \in Seq(Rights)
  BY NamesAssumption, ListsAssumption DEF Idle, Task, Kinds
<1>3. a \in Seq(Call)
  BY ShortPlans
<1>4. \A i \in DOMAIN a : Allowed("create", a[i][1])
  <2>1. Allowed("create", "control") /\ Allowed("create", "add user")
    BY DEF Allowed
  <2> QED BY <2>1, ListAllowed
<1> HIDE DEF t, a
<1>5. Fitting(t(n, e), a \o Grants(list))
  <2>1. Given(t(n, e))
    BY <1>2 DEF Given
  <2> QED BY <1>2, <1>3, <1>4, <2>1, PlanFits DEF None
<1> QED BY <1>1, <1>2, <1>5, FittingBegins

LEMMA RegisterBegins ==
    ASSUME NEW r \in Requests, Register(r)
    PROVE  Begins(r)
<1> DEFINE t(n, e) == [Idle EXCEPT !.kind = "register", !.name = n, !.email = e, !.enabled = TRUE]
           a == <<Do("limit"), Do("add user")>>
           last == IF MailEnabled THEN <<Do("die")>> ELSE <<>>
           calls == (a \o Grants(DefaultGrants)) \o last
<1>1. PICK n \in NewNames, e \in NewEmails : Begin(r, t(n, e), calls, settled)
  BY DEF Register
<1>2. t(n, e) \in Task /\ t(n, e).kind = "register" /\ t(n, e).name = n /\ t(n, e).email = e
      /\ n \in Names /\ e \in Emails
  BY NamesAssumption DEF Idle, Task, Kinds
<1>3. a \in Seq(Call) /\ DOMAIN a = {1, 2} /\ Calls(a[1], "limit") /\ Calls(a[2], "add user")
  <2>0. a \in Seq(Call)
    BY ShortPlans
  <2>1. DOMAIN a = {1, 2} /\ a[1] = Do("limit") /\ a[2] = Do("add user")
    OBVIOUS
  <2>2. Calls(Do("limit"), "limit") /\ Calls(Do("add user"), "add user")
    BY DEF Calls, Do
  <2> QED BY <2>0, <2>1, <2>2
<1>4. last \in Seq(Call) /\ \A i \in DOMAIN last : Calls(last[i], "die")
  <2>1. Calls(Do("die"), "die")
    BY DEF Calls, Do
  <2>2. <<Do("die")>> \in Seq(Call) /\ <<>> \in Seq(Call)
    BY ShortPlans
  <2>3. CASE MailEnabled
    <3>1. last = <<Do("die")>>
      BY <2>3
    <3>2. \A i \in DOMAIN <<Do("die")>> : <<Do("die")>>[i] = Do("die")
      OBVIOUS
    <3> QED BY <2>1, <2>2, <3>1, <3>2
  <2>4. CASE ~MailEnabled
    BY <2>2, <2>4
  <2> QED BY <2>3, <2>4
<1> HIDE DEF t, a, last
<1>5. Fitting(t(n, e), calls)
  BY <1>2, <1>3, <1>4, RegisterFits
<1> HIDE DEF calls
<1> QED BY <1>1, <1>2, <1>5, FittingBegins

(* Whoever is to be renamed may have his new name from now on. *)
LEMMA RenamingSettles ==
    ASSUME NEW t, NEW n, NEW name, t.target = n, t.kind # "remove", Renames(t) => t.name = name
    PROVE  Settles(t, Renaming(n, name))
<1> DEFINE now == Renaming(n, name)
<1>1. \A p \in now : p \in settled \/ (p = <<name, n>> /\ \E q \in settled : q[2] = n)
  BY DEF Renaming
<1>2. \A p \in settled : p \in now
  BY DEF Renaming
<1>3. \A p \in now : \E q \in settled : q[2] = p[2]
  <2> SUFFICES ASSUME NEW p \in now PROVE \E q \in settled : q[2] = p[2]
    OBVIOUS
  <2>1. CASE p \in settled
    BY <2>1
  <2>2. CASE p = <<name, n>> /\ \E q \in settled : q[2] = n
    BY <2>2
  <2> QED BY <1>1, <2>1, <2>2
<1>4. (\E q \in settled : q[2] = n) => <<name, n>> \in now
  BY DEF Renaming
<1> HIDE DEF now
<1>5. Settles(t, now)
  BY <1>2, <1>3, <1>4 DEF Settles
<1> QED BY <1>5 DEF now

LEMMA EditBegins ==
    ASSUME IInv, NEW r \in Requests, SetAttributes(r)
    PROVE  Begins(r)
<1> DEFINE t(n, given, target, name, e, value) ==
             [Asked("edit", n) EXCEPT !.given = given, !.target = target, !.name = name,
                                      !.email = e, !.enabled = value]
           a == <<Do("control"), Do("set attributes")>>
           now(given, target, name) == IF "name" \in given THEN Renaming(target, name) ELSE settled
<1>1. PICK n \in Ids, given \in AttributeLists :
        \E target \in IF "id" \in given THEN Ids ELSE {n},
           name \in IF "name" \in given THEN Names ELSE {None},
           e \in IF "email" \in given THEN Emails ELSE {None},
           value \in IF "enabled" \in given THEN BOOLEAN ELSE {FALSE} :
          Begin(r, t(n, given, target, name, e, value), a, now(given, target, name))
  BY DEF SetAttributes
<1>2. PICK target \in IF "id" \in given THEN Ids ELSE {n},
           name \in IF "name" \in given THEN Names ELSE {None},
           e \in IF "email" \in given THEN Emails ELSE {None},
           value \in IF "enabled" \in given THEN BOOLEAN ELSE {FALSE} :
        Begin(r, t(n, given, target, name, e, value), a, now(given, target, name))
  BY <1>1
<1> DEFINE u == t(n, given, target, name, e, value)
<1>3. /\ u \in Task /\ u.kind = "edit" /\ u.given = given /\ u.name = name /\ u.email = e /\ u.target = target
  <2>1. n \in Nat /\ target \in Nat /\ given \subseteq Attributes
    BY IdsAreNaturals, ListsAssumption
  <2>2. Asked("edit", n) \in Task /\ Asked("edit", n).kind = "edit" /\ Asked("edit", n).id = n
    BY <2>1, AskedIsTask DEF Kinds
  <2>3. name \in Names \cup {None} /\ e \in Emails \cup {None} /\ value \in BOOLEAN
    OBVIOUS
  <2> QED BY <2>1, <2>2, <2>3 DEF Task
<1>4. a \in Seq(Call)
  BY ShortPlans
<1>5. \A i \in DOMAIN a : Allowed("edit", a[i][1])
  <2>1. Allowed("edit", "control") /\ Allowed("edit", "set attributes")
    BY DEF Allowed
  <2> QED BY <2>1, ListAllowed
<1>6. Begin(r, u, a, now(given, target, name))
  BY <1>2
<1> HIDE DEF u, a
<1>7. Given(u)
  BY <1>3 DEF Given
<1>8. Fitting(u, a)
  BY <1>3, <1>4, <1>5, <1>7 DEF Fitting, None
<1>9. Settles(u, now(given, target, name))
  <2>1. CASE "name" \in given
    BY <1>3, <2>1, RenamingSettles
  <2>2. CASE "name" \notin given
    BY <1>3, <2>2, NobodyLeaves DEF Renames
  <2> QED BY <2>1, <2>2
<1> HIDE DEF now
<1> QED BY <1>3, <1>4, <1>6, <1>8, <1>9 DEF Begins

LEMMA PasswordBegins ==
    ASSUME IInv, NEW r \in Requests, SetPassword(r)
    PROVE  Begins(r)
<1> DEFINE a == <<Do("control"), Do("verify"), Do("set password")>>
<1>1. PICK n \in Ids : Begin(r, Asked("password", n), a, settled)
  BY DEF SetPassword
<1>2. Asked("password", n) \in Task /\ Asked("password", n).kind = "password"
  BY IdsAreNaturals, AskedIsTask DEF Kinds
<1>3. a \in Seq(Call)
  BY ShortPlans
<1>4. \A i \in DOMAIN a : Allowed("password", a[i][1])
  <2>1. Allowed("password", "control") /\ Allowed("password", "verify")
        /\ Allowed("password", "set password")
    BY DEF Allowed
  <2> QED BY <2>1, ListAllowed
<1> HIDE DEF a
<1> QED BY <1>1, <1>2, <1>3, <1>4, PlainBegins DEF None

LEMMA EnableBegins ==
    ASSUME IInv, NEW r \in Requests, SetEnabled(r)
    PROVE  Begins(r)
<1> DEFINE t(n, value) == [Asked("enable", n) EXCEPT !.given = {"enabled"}, !.target = n, !.enabled = value]
           a == <<Do("control"), Do("set attributes")>>
<1>1. PICK n \in Ids, value \in BOOLEAN : Begin(r, t(n, value), a, settled)
  BY DEF SetEnabled
<1>2. t(n, value) \in Task /\ t(n, value).kind = "enable" /\ t(n, value).given = {"enabled"}
  <2>1. n \in Nat /\ Asked("enable", n) \in Task /\ Asked("enable", n).kind = "enable"
    BY IdsAreNaturals, AskedIsTask DEF Kinds
  <2>2. {"enabled"} \subseteq Attributes
    BY DEF Attributes
  <2> QED BY <2>1, <2>2 DEF Task
<1>3. a \in Seq(Call)
  BY ShortPlans
<1>4. \A i \in DOMAIN a : Allowed("enable", a[i][1])
  <2>1. Allowed("enable", "control") /\ Allowed("enable", "set attributes")
    BY DEF Allowed
  <2> QED BY <2>1, ListAllowed
<1> HIDE DEF t, a
<1>5. Fitting(t(n, value), a)
  BY <1>2, <1>3, <1>4 DEF Fitting, Given, None
<1> QED BY <1>1, <1>2, <1>5, FittingBegins

LEMMA AuthorizeBegins ==
    ASSUME IInv, NEW r \in Requests, SetAuthorizations(r)
    PROVE  Begins(r)
<1> DEFINE t(n) == Asked("authorize", n)
           a == <<Do("control"), Do("exists"), Do("revoke")>>
<1>1. PICK n \in Ids, list \in GrantLists : Begin(r, t(n), a \o Grants(list), settled)
  BY DEF SetAuthorizations
<1>2. t(n) \in Task /\ t(n).kind = "authorize" /\ list \in Seq(Rights)
  BY IdsAreNaturals, AskedIsTask, ListsAssumption DEF Kinds
<1>3. a \in Seq(Call)
  BY ShortPlans
<1>4. \A i \in DOMAIN a : Allowed("authorize", a[i][1])
  <2>1. Allowed("authorize", "control") /\ Allowed("authorize", "exists")
        /\ Allowed("authorize", "revoke")
    BY DEF Allowed
  <2> QED BY <2>1, ListAllowed
<1> HIDE DEF t, a
<1>5. Fitting(t(n), a \o Grants(list))
  <2>1. Given(t(n))
    BY <1>2 DEF Given
  <2> QED BY <1>2, <1>3, <1>4, <2>1, PlanFits DEF None
<1> QED BY <1>1, <1>2, <1>5, FittingBegins

LEMMA RemoveBegins ==
    ASSUME IInv, NEW r \in Requests, RemoveUser(r)
    PROVE  Begins(r)
<1> DEFINE t(n) == Asked("remove", n)
           a == <<Do("control"), Do("lookup"), Do("revoke"), Do("drop user")>>
<1>1. PICK n \in Ids : Begin(r, t(n), a, Without(n))
  BY DEF RemoveUser
<1>2. n \in Nat /\ t(n) \in Task /\ t(n).kind = "remove" /\ t(n).id = n
  BY IdsAreNaturals, AskedIsTask DEF Kinds
<1>3. a \in Seq(Call)
  BY ShortPlans
<1>4. \A i \in DOMAIN a : Allowed("remove", a[i][1])
  <2>1. Allowed("remove", "control") /\ Allowed("remove", "lookup")
        /\ Allowed("remove", "revoke") /\ Allowed("remove", "drop user")
    BY DEF Allowed
  <2> QED BY <2>1, ListAllowed
<1> HIDE DEF t, a
<1>5. Fitting(t(n), a)
  BY <1>2, <1>3, <1>4 DEF Fitting, Given, None
<1>6. Settles(t(n), Without(n))
  BY <1>2 DEF Settles, Without, Renames
<1> QED BY <1>1, <1>2, <1>3, <1>5, <1>6 DEF Begins

LEMMA ConnectBegins ==
    ASSUME NEW r \in Requests, Connect(r)
    PROVE  Begins(r)
<1> DEFINE t(n) == [Idle EXCEPT !.kind = "connect", !.name = n]
           a == <<Do("login"), Do("rehash")>>
<1>1. PICK n \in Names : Begin(r, t(n), a, settled)
  BY DEF Connect
<1>2. t(n) \in Task /\ t(n).kind = "connect"
  BY DEF Idle, Task, Kinds
<1>3. a \in Seq(Call)
  BY ShortPlans
<1>4. \A i \in DOMAIN a : Allowed("connect", a[i][1])
  <2>1. Allowed("connect", "login") /\ Allowed("connect", "rehash")
    BY DEF Allowed
  <2> QED BY <2>1, ListAllowed
<1> HIDE DEF t, a
<1> QED BY <1>1, <1>2, <1>3, <1>4, PlainBegins DEF None

LEMMA AskResetBegins ==
    ASSUME NEW r \in Requests, SendResetPasswordRequest(r)
    PROVE  Begins(r)
<1> DEFINE t(e) == [Idle EXCEPT !.kind = "ask reset", !.email = e]
           a == <<Do("find"), Do("old token"), Do("add token"), Do("mail")>>
<1>1. PICK e \in Emails : Begin(r, t(e), a, settled)
  BY DEF SendResetPasswordRequest
<1>2. t(e) \in Task /\ t(e).kind = "ask reset"
  BY DEF Idle, Task, Kinds
<1>3. a \in Seq(Call)
  BY ShortPlans
<1>4. \A i \in DOMAIN a : Allowed("ask reset", a[i][1])
  <2>1. Allowed("ask reset", "find") /\ Allowed("ask reset", "old token")
        /\ Allowed("ask reset", "add token") /\ Allowed("ask reset", "mail")
    BY DEF Allowed
  <2> QED BY <2>1, ListAllowed
<1>5. t(e).kind \notin {None, "register", "create", "edit", "enable", "remove"}
  BY <1>2 DEF None
<1> HIDE DEF t, a
<1> QED BY <1>1, <1>2, <1>3, <1>4, <1>5, PlainBegins

LEMMA ResetBegins ==
    ASSUME IInv, NEW r \in Requests, ResetPassword(r)
    PROVE  Begins(r)
<1> DEFINE t(m) == [Idle EXCEPT !.kind = "reset", !.token = m[1], !.key = m[2]]
           a == <<Do("check token"), Do("set password"), Do("drop token")>>
<1>1. PICK m \in mailed : Begin(r, t(m), a, settled)
  BY DEF ResetPassword
<1>2. t(m) \in Task /\ t(m).kind = "reset"
  <2>1. m[1] \in Nat /\ m[2] \in Nat
    BY DEF IInv, TypeOK
  <2> QED BY <2>1 DEF Idle, Task, Kinds
<1>3. a \in Seq(Call)
  BY ShortPlans
<1>4. \A i \in DOMAIN a : Allowed("reset", a[i][1])
  <2>1. Allowed("reset", "check token") /\ Allowed("reset", "set password")
        /\ Allowed("reset", "drop token")
    BY DEF Allowed
  <2> QED BY <2>1, ListAllowed
<1> HIDE DEF t, a
<1> QED BY <1>1, <1>2, <1>3, <1>4, PlainBegins DEF None

LEMMA ControllerBegins ==
    ASSUME IInv, NEW r \in Requests, Controller(r)
    PROVE  Begins(r)
BY CreateBegins, RegisterBegins, EditBegins, PasswordBegins, EnableBegins, AuthorizeBegins,
   RemoveBegins, ConnectBegins, AskResetBegins, ResetBegins DEF Controller

-----------------------------------------------------------------------------
(* What the steps leave true. *)

OneCopy(r, t, rows) ==
  \A q \in Requests, u \in Tables :
    copy'[q][u] = IF q = r /\ u = t THEN rows ELSE copy[q][u]

(* One collection of one request becomes another fit one. *)
LEMMA CopyChanges ==
    ASSUME IInv, NEW r \in Requests, NEW t \in Tables, NEW rows, Fit(t, rows),
           copy' = [copy EXCEPT ![r][t] = rows]
    PROVE  /\ copy' \in [Requests -> Files] /\ CopiesFit'
           /\ OneCopy(r, t, rows)
<1>1. Row(t) \subseteq AnyRow
  BY DEF Tables, Row, AnyRow
<1>2. rows \in Seq(Row(t)) /\ rows \in Seq(AnyRow)
  BY <1>1, SeqMonotonic DEF Fit
<1>3. copy \in [Requests -> Files]
  BY DEF IInv, TypeOK
<1>4. copy'[r] = [copy[r] EXCEPT ![t] = rows] /\ \A q \in Requests \ {r} : copy'[q] = copy[q]
      /\ copy' = [copy EXCEPT ![r] = [copy[r] EXCEPT ![t] = rows]]
  BY <1>3
<1>5. copy[r] \in [Tables -> Seq(AnyRow)] /\ \A u \in Tables : copy[r][u] \in Seq(Row(u))
  BY <1>3 DEF Files
<1>6. [copy[r] EXCEPT ![t] = rows] \in [Tables -> Seq(AnyRow)]
      /\ \A u \in Tables : [copy[r] EXCEPT ![t] = rows][u] = IF u = t THEN rows ELSE copy[r][u]
  BY <1>2, <1>5
<1>7. \A u \in Tables : [copy[r] EXCEPT ![t] = rows][u] \in Seq(Row(u))
  BY <1>2, <1>5, <1>6
<1>8. [copy[r] EXCEPT ![t] = rows] \in Files
  BY <1>6, <1>7 DEF Files
<1>9. copy' \in [Requests -> Files]
  BY <1>3, <1>4, <1>8
<1>10. \A q \in Requests, u \in Tables :
         copy'[q][u] = IF q = r /\ u = t THEN rows ELSE copy[q][u]
  BY <1>4, <1>6
<1>11. CopiesFit'
  BY <1>10 DEF IInv, CopiesFit
<1>12. OneCopy(r, t, rows)
  BY <1>10 DEF OneCopy
<1> QED BY <1>9, <1>11, <1>12

LEMMA PlanContinues ==
    ASSUME IInv, NEW r \in Requests, todo[r] # <<>>, Retasked(r), Continued(r)
    PROVE  Planned'
<1> SUFFICES ASSUME NEW q \in Requests, NEW i \in DOMAIN todo'[q]
             PROVE  Allowed(task'[q].kind, todo'[q][i][1])
  BY DEF Planned
<1>1. task'[q].kind = task[q].kind
  BY DEF Retasked
<1>2. CASE q # r \/ todo'[r] = todo[r]
  <2>1. todo'[q] = todo[q]
    BY <1>2 DEF Continued
  <2> QED BY <1>1, <2>1 DEF IInv, Planned
<1>3. CASE q = r /\ todo'[r] = Tail(todo[r])
  <2>1. Tail(todo[r]) \in Seq(Call) /\ Len(Tail(todo[r])) = Len(todo[r]) - 1
        /\ \A k \in 1 .. Len(Tail(todo[r])) : Tail(todo[r])[k] = todo[r][k + 1]
    BY CopyFacts, HeadTailProperties
  <2>2. DOMAIN Tail(todo[r]) = 1 .. Len(Tail(todo[r])) /\ DOMAIN todo[r] = 1 .. Len(todo[r])
        /\ Len(todo[r]) \in Nat
    BY <2>1, CopyFacts, LenProperties
  <2>3. i \in 1 .. Len(Tail(todo[r]))
    BY <1>3, <2>2
  <2>4. i + 1 \in DOMAIN todo[r] /\ todo'[r][i] = todo[r][i + 1]
    BY <1>3, <2>1, <2>2, <2>3
  <2>5. Allowed(task[r].kind, todo[r][i + 1][1])
    BY <2>4 DEF IInv, Planned
  <2> QED BY <1>1, <1>3, <2>4, <2>5
<1>4. CASE q = r /\ todo'[r] = <<Do("drop token")>> /\ task[r].kind \notin {"remove", "edit", "register"}
  <2>1. todo'[r][i] = Do("drop token")
    <3>1. \A k \in DOMAIN <<Do("drop token")>> : <<Do("drop token")>>[k] = Do("drop token")
      BY Single
    <3> QED BY <1>4, <3>1
  <2>2. Do("drop token")[1] = "drop token"
    BY DEF Do
  <2>3. Allowed(task[r].kind, "drop token")
    BY <1>4 DEF Allowed
  <2> QED BY <1>1, <1>4, <2>1, <2>2, <2>3
<1> QED BY <1>2, <1>3, <1>4 DEF Continued

LEMMA WorksKeepsTypes ==
    ASSUME IInv, NEW r \in Requests, Works(r)
    PROVE  IInv'
<1>1. Busy(r) /\ todo[r] # <<>> /\ Retasked(r) /\ Continued(r)
  BY DEF Works
<1>2. Planned'
  BY <1>1, PlanContinues
<1>3. Named'
  <2>1. \A q \in Requests : /\ task'[q].kind = task[q].kind /\ task'[q].name = task[q].name
                             /\ task'[q].email = task[q].email /\ task'[q].given = task[q].given
    BY <1>1 DEF Retasked
  <2> QED BY <2>1 DEF IInv, Named, Given
<1>4. FilesFit' /\ disk' \in Files
  BY DEF Works, IInv, FilesFit, TypeOK
<1>5. /\ task' \in [Requests -> Task] /\ todo' \in [Requests -> Seq(Call)]
      /\ read' \in [Requests -> SUBSET Tables] /\ torn' \subseteq Tables /\ late' \subseteq Requests
      /\ begun' \in Nat /\ overlaps' \in Nat /\ keys' \in Nat /\ mailed' \subseteq Nat \X Nat
      /\ mixed' \in BOOLEAN
  BY <1>1 DEF Works, IInv, TypeOK, Retasked, Continued, historyVars
<1>6. CASE UNCHANGED <<copy, writing>>
  <2>1. CopiesFit' /\ copy' \in [Requests -> Files] /\ writing' \in [Requests -> Tables \cup {None}]
    BY <1>6 DEF IInv, CopiesFit, TypeOK
  <2>2. Quiet'
    <3> SUFFICES ASSUME NEW q \in Requests
                 PROVE  /\ task'[q].kind = None => read'[q] = {} /\ todo'[q] = <<>> /\ writing'[q] = None
                        /\ writing'[q] # None => writing'[q] \in read'[q]
      BY DEF Quiet
    <3>1. read' = read /\ writing' = writing /\ task'[q].kind = task[q].kind
      BY <1>1, <1>6 DEF Works, Retasked
    <3>2. q # r => todo'[q] = todo[q]
      BY <1>1 DEF Continued
    <3> QED BY <1>1, <3>1, <3>2 DEF Busy, IInv, Quiet
  <2> QED BY <1>2, <1>3, <1>4, <1>5, <2>1, <2>2 DEF IInv, TypeOK
<1>7. CASE \E t \in Tables, rows \in Seq(AnyRow) : Changed(r, t, rows)
  <2>1. PICK t \in Tables, rows \in Seq(AnyRow) : Changed(r, t, rows)
    BY <1>7
  <2>2. copy' \in [Requests -> Files] /\ CopiesFit'
    BY <2>1, CopyChanges DEF Changed
  <2>3. writing' \in [Requests -> Tables \cup {None}] /\ writing'[r] = t
        /\ \A q \in Requests \ {r} : writing'[q] = writing[q]
    BY <2>1 DEF Changed, IInv, TypeOK
  <2>4. Quiet'
    <3> SUFFICES ASSUME NEW q \in Requests
                 PROVE  /\ task'[q].kind = None => read'[q] = {} /\ todo'[q] = <<>> /\ writing'[q] = None
                        /\ writing'[q] # None => writing'[q] \in read'[q]
      BY DEF Quiet
    <3>1. read' = read /\ task'[q].kind = task[q].kind
      BY <1>1 DEF Works, Retasked
    <3>2. q # r => todo'[q] = todo[q] /\ writing'[q] = writing[q]
      BY <1>1, <2>3 DEF Continued
    <3>3. t \in read[r]
      BY <2>1 DEF Changed
    <3> QED BY <1>1, <2>3, <3>1, <3>2, <3>3 DEF Busy, IInv, Quiet
  <2> QED BY <1>2, <1>3, <1>4, <1>5, <2>2, <2>3, <2>4 DEF IInv, TypeOK
<1> QED BY <1>6, <1>7 DEF Works

LEMMA EndsKeepsTypes ==
    ASSUME IInv, NEW r \in Requests, Ends(r)
    PROVE  IInv' /\ \A q \in Requests : task'[q].kind = task[q].kind \/ task'[q].kind = None
<1> DEFINE empty == [t \in Tables |-> <<>>]
<1>0. Idle \in Task /\ Idle.kind = None /\ <<>> \in Seq(Call)
  BY DEF Idle, Task, Kinds
<1>1. empty \in Files
  <2>1. \A t \in Tables : empty[t] \in Seq(Row(t)) /\ empty[t] \in Seq(AnyRow)
    OBVIOUS
  <2> QED BY <2>1 DEF Files
<1>2. \A t \in Tables : Fit(t, empty[t])
  BY EmptyFits
<1> HIDE DEF empty
<1>3. /\ task' = [task EXCEPT ![r] = Idle] /\ todo' = [todo EXCEPT ![r] = <<>>]
      /\ read' = [read EXCEPT ![r] = {}] /\ copy' = [copy EXCEPT ![r] = empty]
      /\ writing' = [writing EXCEPT ![r] = None] /\ late' = late \ {r}
      /\ UNCHANGED <<disk, torn, begun, overlaps, keys, mailed>> /\ mixed' \in BOOLEAN
  BY DEF Ends, Forget, fileVars, countVars, empty
<1>4. TypeOK'
  BY <1>0, <1>1, <1>3 DEF IInv, TypeOK
<1>5. /\ task'[r] = Idle /\ todo'[r] = <<>> /\ read'[r] = {} /\ copy'[r] = empty /\ writing'[r] = None
      /\ \A q \in Requests \ {r} : /\ task'[q] = task[q] /\ todo'[q] = todo[q] /\ read'[q] = read[q]
                                   /\ copy'[q] = copy[q] /\ writing'[q] = writing[q]
  BY <1>3 DEF IInv, TypeOK
<1>6. FilesFit' /\ CopiesFit'
  BY <1>2, <1>3, <1>5 DEF IInv, FilesFit, CopiesFit
<1>7. Quiet'
  BY <1>0, <1>5 DEF IInv, Quiet
<1>8. Planned'
  <2> SUFFICES ASSUME NEW q \in Requests, NEW i \in DOMAIN todo'[q]
               PROVE  Allowed(task'[q].kind, todo'[q][i][1])
    BY DEF Planned
  <2>1. q # r
    BY <1>5
  <2> QED BY <1>5, <2>1 DEF IInv, Planned
<1>9. Named'
  BY <1>0, <1>5 DEF IInv, Named, Given, None
<1>10. \A q \in Requests : task'[q].kind = task[q].kind \/ task'[q].kind = None
  BY <1>0, <1>5
<1> QED BY <1>4, <1>6, <1>7, <1>8, <1>9, <1>10 DEF IInv

LEMMA BeginsKeepsTypes ==
    ASSUME IInv, NEW r \in Requests, Begins(r)
    PROVE  IInv'
<1>1. PICK t, calls, now :
        t \in Task /\ calls \in Seq(Call) /\ Fitting(t, calls) /\ Begin(r, t, calls, now)
  BY DEF Begins, Fitting
<1>2. /\ task' = [task EXCEPT ![r] = t] /\ todo' = [todo EXCEPT ![r] = calls]
      /\ UNCHANGED <<disk, torn, read, copy, writing, late, keys, mailed>>
      /\ begun' \in Nat /\ mixed' \in BOOLEAN /\ overlaps' \in Nat
  BY <1>1 DEF Begin, IInv, TypeOK, fileVars
<1>3. TypeOK'
  BY <1>1, <1>2 DEF IInv, TypeOK
<1>4. /\ task'[r] = t /\ todo'[r] = calls /\ t.kind # None
      /\ \A q \in Requests \ {r} : task'[q] = task[q] /\ todo'[q] = todo[q]
  <2>1. task'[r] = t /\ todo'[r] = calls
    BY <1>2 DEF IInv, TypeOK
  <2>2. \A q \in Requests \ {r} : task'[q] = task[q] /\ todo'[q] = todo[q]
    BY <1>2 DEF IInv, TypeOK
  <2>3. t.kind # None
    BY <1>1 DEF Fitting
  <2> QED BY <2>1, <2>2, <2>3
<1>5. FilesFit' /\ CopiesFit'
  BY <1>2 DEF IInv, FilesFit, CopiesFit
<1>6. Quiet'
  BY <1>2, <1>4 DEF IInv, Quiet
<1>7. Planned'
  BY <1>1, <1>4 DEF IInv, Planned, Fitting
<1>8. Named'
  BY <1>1, <1>4 DEF IInv, Named, Fitting
<1> QED BY <1>3, <1>5, <1>6, <1>7, <1>8 DEF IInv

(* A request reads a file. *)
Opens(r, t) ==
  /\ Busy(r) /\ writing[r] = None /\ todo[r] # <<>> /\ Verb(r) \notin Rest
  /\ t = TableOf(Verb(r)) /\ t \notin read[r]
  /\ read' = [read EXCEPT ![r] = @ \cup {t}]
  /\ copy' = [copy EXCEPT ![r][t] = disk[t]]
  /\ todo' = [todo EXCEPT ![r] = IF Verb(r) \in Reads THEN Tail(@) ELSE @]
  /\ UNCHANGED <<fileVars, task, writing, late, countVars, historyVars>>

LEMMA OpenOpens ==
    ASSUME IInv, NEW r \in Requests, Open(r)
    PROVE  Ends(r) \/ \E t \in Tables : Opens(r, t)
<1> DEFINE t == TableOf(Verb(r))
<1>1. t \in Tables
  BY DEF TableOf, Tables
<1>2. CASE End(r)
  BY <1>2, EndEnds DEF Open
<1>3. CASE ~End(r)
  <2>1. Opens(r, t)
    BY <1>3 DEF Open, Opens
  <2> QED BY <1>1, <2>1
<1> QED BY <1>2, <1>3

LEMMA OpensKeepsTypes ==
    ASSUME IInv, NEW r \in Requests, NEW t \in Tables, Opens(r, t)
    PROVE  IInv' /\ Continued(r) /\ Retasked(r)
<1>1. /\ todo[r] # <<>> /\ read' = [read EXCEPT ![r] = @ \cup {t}]
      /\ copy' = [copy EXCEPT ![r][t] = disk[t]]
      /\ todo' = [todo EXCEPT ![r] = IF Verb(r) \in Reads THEN Tail(@) ELSE @]
      /\ UNCHANGED <<disk, torn, task, writing, late, begun, overlaps, keys, mailed, mixed>>
      /\ writing[r] = None /\ Busy(r)
  BY DEF Opens, fileVars, countVars, historyVars
<1>2. Fit(t, disk[t])
  BY DEF IInv, FilesFit
<1>3. copy' \in [Requests -> Files] /\ CopiesFit'
  BY <1>1, <1>2, CopyChanges
<1>4. Retasked(r)
  BY <1>1, SameTask
<1>5. Continued(r)
  <2>1. CASE Verb(r) \in Reads
    <3>1. todo' = [todo EXCEPT ![r] = Tail(@)]
      BY <1>1, <2>1
    <3> QED BY <1>1, <3>1, NextCall
  <2>2. CASE Verb(r) \notin Reads
    BY <1>1, <2>2 DEF Continued, IInv, TypeOK
  <2> QED BY <2>1, <2>2
<1>6. Planned'
  BY <1>1, <1>4, <1>5, PlanContinues
<1>7. /\ read' \in [Requests -> SUBSET Tables] /\ t \in read'[r]
      /\ \A q \in Requests : read[q] \subseteq read'[q] /\ (q # r => read'[q] = read[q])
  BY <1>1 DEF IInv, TypeOK
<1>8. Quiet'
  <2> SUFFICES ASSUME NEW q \in Requests
               PROVE  /\ task'[q].kind = None => read'[q] = {} /\ todo'[q] = <<>> /\ writing'[q] = None
                      /\ writing'[q] # None => writing'[q] \in read'[q]
    BY DEF Quiet
  <2>1. q # r => todo'[q] = todo[q]
    BY <1>5 DEF Continued
  <2> QED BY <1>1, <1>7, <2>1 DEF Busy, IInv, Quiet
<1>9. Named' /\ FilesFit'
  BY <1>1 DEF IInv, Named, FilesFit
<1>10. TypeOK'
  BY <1>1, <1>3, <1>5, <1>7 DEF IInv, TypeOK, Continued
<1> QED BY <1>3, <1>4, <1>5, <1>6, <1>8, <1>9, <1>10 DEF IInv

LEMMA PutKeepsTypes ==
    ASSUME IInv, NEW r \in Requests, Put(r)
    PROVE  /\ IInv' /\ writing[r] \in Tables /\ writing[r] \in read[r]
           /\ \/ disk' = disk
              \/ disk' = [disk EXCEPT ![writing[r]] = copy[r][writing[r]]]
<1> DEFINE t == writing[r]
<1>1. t \in Tables /\ t \in read[r]
  BY DEF Put, IInv, TypeOK, Quiet
<1>2. /\ UNCHANGED <<task, todo, read, copy, begun, overlaps, keys, mailed, mixed>>
      /\ writing' = [writing EXCEPT ![r] = None]
  BY DEF Put, countVars, historyVars
<1>3. late' \subseteq Requests /\ torn' \subseteq Tables
  <2>1. late \subseteq Requests /\ torn \subseteq Tables
    BY DEF IInv, TypeOK
  <2> QED BY <1>1, <2>1 DEF Put, fileVars
<1>4. \/ disk' = disk
      \/ disk' = [disk EXCEPT ![t] = copy[r][t]]
  BY DEF Put
<1>5. Fit(t, copy[r][t]) /\ copy[r][t] \in Seq(AnyRow)
  BY <1>1, CopyFacts
<1>6. copy[r][t] \in Seq(Row(t))
  BY <1>5 DEF Fit
<1> HIDE DEF t
<1>7. disk' \in Files /\ FilesFit'
  <2>1. CASE disk' = disk
    BY <2>1 DEF IInv, TypeOK, FilesFit
  <2>2. CASE disk' = [disk EXCEPT ![t] = copy[r][t]]
    <3>1. disk \in [Tables -> Seq(AnyRow)] /\ \A u \in Tables : disk[u] \in Seq(Row(u))
      BY DEF IInv, TypeOK, Files
    <3>2. disk' \in [Tables -> Seq(AnyRow)]
          /\ \A u \in Tables : disk'[u] = IF u = t THEN copy[r][t] ELSE disk[u]
      BY <1>1, <1>5, <2>2, <3>1
    <3>3. \A u \in Tables : disk'[u] \in Seq(Row(u))
      BY <1>6, <3>1, <3>2
    <3>4. FilesFit'
      BY <1>5, <3>2 DEF IInv, FilesFit
    <3> QED BY <3>2, <3>3, <3>4 DEF Files
  <2> QED BY <1>4, <2>1, <2>2
<1>8. TypeOK'
  BY <1>2, <1>3, <1>7 DEF IInv, TypeOK
<1>9. CopiesFit' /\ Planned' /\ Named'
  BY <1>2 DEF IInv, CopiesFit, Planned, Named
<1>10. Quiet'
  BY <1>2 DEF IInv, Quiet, TypeOK
<1> QED BY <1>1, <1>4, <1>7, <1>8, <1>9, <1>10 DEF IInv, t

LEMMA KillEnds ==
    ASSUME IInv, NEW r \in Requests, Kill(r)
    PROVE  Ends(r)
BY DEF Kill, Ends

LEMMA AnswerEnds ==
    ASSUME IInv, NEW r \in Requests, Answer(r)
    PROVE  Ends(r)
BY EndEnds DEF Answer

(* The kinds of steps there are. *)
LEMMA StepKinds ==
    ASSUME IInv, Next
    PROVE  \E r \in Requests :
             Begins(r) \/ Works(r) \/ Ends(r) \/ (\E t \in Tables : Opens(r, t)) \/ Put(r)
<1>1. PICK r \in Requests :
        Controller(r) \/ Manager(r) \/ Open(r) \/ Put(r) \/ Answer(r) \/ Kill(r)
  BY DEF Next
<1>2. Controller(r) => Begins(r)
  BY ControllerBegins
<1>3. Manager(r) => Works(r) \/ Ends(r)
  BY ManagerWorks
<1>4. Open(r) => Ends(r) \/ \E t \in Tables : Opens(r, t)
  BY OpenOpens
<1>5. (Answer(r) => Ends(r)) /\ (Kill(r) => Ends(r))
  BY AnswerEnds, KillEnds
<1> QED BY <1>1, <1>2, <1>3, <1>4, <1>5

LEMMA InitTypes == Init => IInv
<1> SUFFICES ASSUME Init PROVE IInv
  OBVIOUS
<1> DEFINE empty == [t \in Tables |-> <<>>]
<1>1. Idle \in Task /\ Idle.kind = None /\ <<>> \in Seq(Call)
  BY DEF Idle, Task, Kinds
<1>2. empty \in Files
  <2>1. \A t \in Tables : empty[t] \in Seq(Row(t)) /\ empty[t] \in Seq(AnyRow)
    OBVIOUS
  <2> QED BY <2>1 DEF Files
<1>3. \A t \in Tables : Fit(t, empty[t])
  BY EmptyFits
<1> HIDE DEF empty
<1>4. /\ disk = Shipped /\ torn = {} /\ task = [r \in Requests |-> Idle]
      /\ todo = [r \in Requests |-> <<>>] /\ read = [r \in Requests |-> {}]
      /\ copy = [r \in Requests |-> empty] /\ writing = [r \in Requests |-> None]
      /\ late = {} /\ begun = 0 /\ overlaps = 0 /\ keys = 0 /\ mailed = {} /\ mixed = FALSE
  BY DEF Init, empty
<1>5. TypeOK
  BY <1>1, <1>2, <1>4, ShippedAssumption DEF TypeOK
<1>6. FilesFit
  <2>1. Shipped \in Files /\ Consistent(Shipped)
    BY ShippedAssumption
  <2>2. \A t \in Tables : Shipped[t] \in Seq(Row(t))
    BY <2>1 DEF Files
  <2> QED BY <1>4, <2>1, <2>2 DEF FilesFit, Fit, Consistent
<1>7. CopiesFit
  BY <1>3, <1>4 DEF CopiesFit
<1>8. Quiet
  BY <1>1, <1>4 DEF Quiet
<1>9. Planned
  <2> SUFFICES ASSUME NEW r \in Requests, NEW i \in DOMAIN todo[r]
               PROVE  Allowed(task[r].kind, todo[r][i][1])
    BY DEF Planned
  <2>1. todo[r] = <<>>
    BY <1>4
  <2>2. DOMAIN todo[r] = {}
    BY <2>1
  <2> QED BY <2>2
<1>10. Named
  BY <1>1, <1>4 DEF Named, Given, None
<1> QED BY <1>5, <1>6, <1>7, <1>8, <1>9, <1>10 DEF IInv

LEMMA NextKeepsTypes == IInv /\ [Next]_vars => IInv'
<1> SUFFICES ASSUME IInv, [Next]_vars PROVE IInv'
  OBVIOUS
<1>1. CASE Next
  <2>1. PICK r \in Requests :
          Begins(r) \/ Works(r) \/ Ends(r) \/ (\E t \in Tables : Opens(r, t)) \/ Put(r)
    BY <1>1, StepKinds
  <2> QED BY <2>1, BeginsKeepsTypes, WorksKeepsTypes, EndsKeepsTypes, OpensKeepsTypes, PutKeepsTypes
<1>2. CASE UNCHANGED vars
  BY <1>2 DEF vars, fileVars, requestVars, countVars, historyVars, IInv, TypeOK, FilesFit, CopiesFit,
              Quiet, Planned, Named
<1> QED BY <1>1, <1>2

LEMMA IInvKept == Spec => []IInv
<1>1. Init => IInv
  BY InitTypes
<1>2. IInv /\ [Next]_vars => IInv'
  BY NextKeepsTypes
<1> QED BY <1>1, <1>2, PTL DEF Spec

-----------------------------------------------------------------------------
(* The theorems. *)

(* Every row of a file and of a kept collection is a row of its table,      *)
(* whatever the requests do and wherever they are killed.                   *)
THEOREM TypesKept == Spec => []TypeOK
<1>1. IInv => TypeOK
  BY DEF IInv
<1> QED BY <1>1, IInvKept, PTL

(* Ids, names, e-mail addresses and token owners stay unique in every file  *)
(* and every copy, however the requests overlap.                            *)
THEOREM RowsStayUnique == Spec => []UniqueRows
<1>1. IInv => UniqueRows
  BY DEF IInv, FilesFit, CopiesFit, Fit, Tables, UniqueRows, Consistent
<1> QED BY <1>1, IInvKept, PTL

-----------------------------------------------------------------------------
(* Who is settled stays. *)

LEMMA BeginsKeeps ==
    ASSUME IInv, Kept, NEW r \in Requests, Begins(r)
    PROVE  Kept'
<1>1. PICK t, calls, now : Fitting(t, calls) /\ Begin(r, t, calls, now) /\ Settles(t, now)
  BY DEF Begins
<1>2. task' = [task EXCEPT ![r] = t] /\ UNCHANGED <<disk, read, copy>> /\ settled' = now
  BY <1>1 DEF Begin, fileVars
<1>3. task'[r] = t /\ \A q \in Requests \ {r} : task'[q] = task[q]
  BY <1>2 DEF IInv, TypeOK
<1> SUFFICES ASSUME NEW p \in now PROVE Sure(p)'
  BY <1>2 DEF Kept
<1>4. PICK o \in settled : o[2] = p[2]
  BY <1>1 DEF Settles
<1>5. Sure(o)
  BY DEF Kept
<1>6. \A name : <<name, p[2]>> \in settled => <<name, p[2]>> \in now
  <2>1. \A q \in settled : q[2] = p[2] => q \in now
    BY <1>1 DEF Settles
  <2>2. \A name : <<name, p[2]>>[2] = p[2]
    OBVIOUS
  <2> QED BY <2>1, <2>2
<1>7. \A rows : Holds(rows, o) => \E i \in DOMAIN rows :
                    rows[i].id = p[2] /\ <<rows[i].name, p[2]>> \in now
  BY <1>4, <1>6 DEF Holds
<1>8. ASSUME NEW rows, Holds(rows, o)
      PROVE  \E i \in DOMAIN rows : rows[i].id = p[2] /\ <<rows[i].name, p[2]>> \in settled'
  BY <1>2, <1>7, <1>8
<1>9. Holds(disk["users"], p)'
  BY <1>2, <1>5, <1>8 DEF Holds, Sure
<1>10. ASSUME NEW q \in Requests
       PROVE  ("users" \in read[q] => Holds(copy[q]["users"], p))'
  BY <1>2, <1>5, <1>8 DEF Holds, Sure
<1>11. ASSUME NEW q \in Requests
       PROVE  Spares(task[q], p)'
  <2>1. CASE q = r
    <3>1. /\ t.kind = "remove" => p[2] # t.id
          /\ Renames(t) /\ t.target = p[2] => <<t.name, p[2]>> \in now
      BY <1>1 DEF Settles
    <3> QED BY <1>2, <1>3, <2>1, <3>1 DEF Spares, Renames
  <2>2. CASE q # r
    <3>1. Spares(task[q], o) /\ task'[q] = task[q]
      BY <1>3, <1>5, <2>2 DEF Sure
    <3> QED BY <1>2, <1>4, <1>6, <3>1 DEF Spares, Renames
  <2> QED BY <2>1, <2>2
<1> QED BY <1>9, <1>10, <1>11 DEF Sure

(* Settled users who all stay are held by the new rows. *)
LEMMA StaysHolds ==
    ASSUME NEW t, NEW p, Spares(t, p), NEW old, Holds(old, p),
           NEW rows, \A i \in DOMAIN old : Stays(t, old[i], rows)
    PROVE  Holds(rows, p)
<1>1. PICK i \in DOMAIN old : old[i].id = p[2] /\ <<old[i].name, p[2]>> \in settled
  BY DEF Holds
<1>2. Stays(t, old[i], rows)
  OBVIOUS
<1>3. PICK k \in DOMAIN rows :
        /\ rows[k].id = old[i].id
        /\ rows[k].name = old[i].name \/ (Renames(t) /\ t.target = old[i].id /\ rows[k].name = t.name)
  BY <1>1, <1>2 DEF Stays, Spares
<1>4. <<rows[k].name, p[2]>> \in settled
  BY <1>1, <1>3 DEF Spares
<1> QED BY <1>1, <1>3, <1>4 DEF Holds

LEMMA WorksKeeps ==
    ASSUME IInv, Kept, NEW r \in Requests, Works(r)
    PROVE  Kept'
<1>1. settled' = settled /\ disk' = disk /\ read' = read /\ Retasked(r)
  BY DEF Works, historyVars
<1> SUFFICES ASSUME NEW p \in settled PROVE Sure(p)'
  BY <1>1 DEF Kept
<1>2. Sure(p)
  BY DEF Kept
<1>3. ASSUME NEW q \in Requests
      PROVE  Spares(task[q], p)'
  <2>1. Spares(task[q], p)
    BY <1>2 DEF Sure
  <2>2. CASE q # r
    BY <1>1, <2>1, <2>2 DEF Retasked, Spares, Renames
  <2>3. CASE q = r
    <3>1. /\ task'[r].kind = task[r].kind /\ task'[r].name = task[r].name
          /\ task'[r].given = task[r].given /\ task'[r].target = task[r].target
          /\ task[r].kind \in {"remove", "edit"} => task'[r].id = task[r].id
      BY <1>1 DEF Retasked
    <3> QED BY <1>1, <2>1, <2>3, <3>1 DEF Spares, Renames
  <2> QED BY <2>2, <2>3
<1>4. \A q \in Requests : "users" \in read[q] => Holds(copy'[q]["users"], p)
  <2>1. CASE UNCHANGED copy
    BY <1>2, <2>1 DEF Sure
  <2>2. CASE \E t \in Tables, rows \in Seq(AnyRow) : Changed(r, t, rows)
    <3>1. PICK t \in Tables, rows \in Seq(AnyRow) : Changed(r, t, rows)
      BY <2>2
    <3>2. \A q \in Requests, u \in Tables :
            copy'[q][u] = IF q = r /\ u = t THEN rows ELSE copy[q][u]
      <4>1. Fit(t, rows) /\ copy' = [copy EXCEPT ![r][t] = rows]
        BY <3>1 DEF Changed
      <4>2. OneCopy(r, t, rows)
        BY <4>1, CopyChanges
      <4> QED BY <4>2 DEF OneCopy
    <3>3. "users" \in Tables
      BY DEF Tables
    <3>4. t = "users" => \A i \in DOMAIN copy[r]["users"] : Stays(task[r], copy[r]["users"][i], rows)
      BY <3>1 DEF Changed, Users
    <3>5. Spares(task[r], p)
      BY <1>2 DEF Sure
    <3>6. t = "users" => (Holds(copy[r]["users"], p) => Holds(rows, p))
      BY <3>4, <3>5, StaysHolds
    <3>7. \A q \in Requests : "users" \in read[q] => Holds(copy[q]["users"], p)
      BY <1>2 DEF Sure
    <3> QED BY <3>2, <3>3, <3>6, <3>7
  <2> QED BY <2>1, <2>2 DEF Works
<1>5. Holds(disk["users"], p)'
  BY <1>1, <1>2 DEF Sure, Holds
<1>6. ASSUME NEW q \in Requests
      PROVE  ("users" \in read[q] => Holds(copy[q]["users"], p))'
  BY <1>1, <1>4 DEF Holds
<1> QED BY <1>3, <1>5, <1>6 DEF Sure

LEMMA EndsKeeps ==
    ASSUME IInv, Kept, NEW r \in Requests, Ends(r)
    PROVE  Kept'
<1>1. /\ task' = [task EXCEPT ![r] = Idle] /\ read' = [read EXCEPT ![r] = {}] /\ disk' = disk
      /\ copy' = [copy EXCEPT ![r] = [t \in Tables |-> <<>>]]
  BY DEF Ends, Forget, fileVars
<1>2. /\ task'[r] = Idle /\ read'[r] = {} /\ Idle.kind = None
      /\ \A q \in Requests \ {r} : task'[q] = task[q] /\ read'[q] = read[q] /\ copy'[q] = copy[q]
  BY <1>1 DEF IInv, TypeOK, Idle
<1>3. ASSUME NEW p PROVE Spares(task[r], p)'
  BY <1>2 DEF Spares, Renames, None
<1>4. CASE settled' = settled
  <2> SUFFICES ASSUME NEW p \in settled PROVE Sure(p)'
    BY <1>4 DEF Kept
  <2>1. Sure(p)
    BY DEF Kept
  <2>2. Holds(disk["users"], p)'
    BY <1>1, <1>4, <2>1 DEF Sure, Holds
  <2>3. ASSUME NEW q \in Requests
        PROVE  ("users" \in read[q] => Holds(copy[q]["users"], p))'
    BY <1>2, <1>4, <2>1 DEF Sure, Holds
  <2>4. ASSUME NEW q \in Requests
        PROVE  Spares(task[q], p)'
    BY <1>2, <1>3, <1>4, <2>1 DEF Sure, Spares, Renames
  <2> QED BY <2>2, <2>3, <2>4 DEF Sure
<1>5. CASE Running = {r} /\ settled' = Persons(disk["users"])
  <2> SUFFICES ASSUME NEW p \in Persons(disk["users"]) PROVE Sure(p)'
    BY <1>5 DEF Kept
  <2>1. PICK i \in DOMAIN disk["users"] : p = <<disk["users"][i].name, disk["users"][i].id>>
    BY PersonsAreRows
  <2>2. Holds(disk["users"], p)'
    BY <1>1, <1>5, <2>1 DEF Holds
  <2>3. \A q \in Requests \ {r} : task[q].kind = None /\ read[q] = {}
    BY <1>5 DEF Running, IInv, Quiet
  <2>4. ASSUME NEW q \in Requests
        PROVE  /\ ("users" \in read[q] => Holds(copy[q]["users"], p))'
               /\ Spares(task[q], p)'
    BY <1>2, <1>3, <2>3 DEF Spares, Renames, None
  <2> QED BY <2>2, <2>4 DEF Sure
<1> QED BY <1>4, <1>5 DEF Ends

LEMMA OpensKeeps ==
    ASSUME IInv, Kept, NEW r \in Requests, NEW t \in Tables, Opens(r, t)
    PROVE  Kept'
<1>1. /\ read' = [read EXCEPT ![r] = @ \cup {t}] /\ copy' = [copy EXCEPT ![r][t] = disk[t]]
      /\ UNCHANGED <<disk, task, settled>>
  BY DEF Opens, fileVars, historyVars
<1>2. \A q \in Requests, u \in Tables :
        copy'[q][u] = IF q = r /\ u = t THEN disk[t] ELSE copy[q][u]
  <2>1. Fit(t, disk[t])
    BY DEF IInv, FilesFit
  <2>2. OneCopy(r, t, disk[t])
    BY <1>1, <2>1, CopyChanges
  <2> QED BY <2>2 DEF OneCopy
<1>3. \A q \in Requests : read'[q] = IF q = r THEN read[r] \cup {t} ELSE read[q]
  BY <1>1 DEF IInv, TypeOK
<1>4. "users" \in Tables
  BY DEF Tables
<1> SUFFICES ASSUME NEW p \in settled PROVE Sure(p)'
  BY <1>1 DEF Kept
<1>5. Sure(p)
  BY DEF Kept
<1>6. \A q \in Requests : "users" \in read'[q] => Holds(copy'[q]["users"], p)
  BY <1>2, <1>3, <1>4, <1>5 DEF Sure
<1>7. Holds(disk["users"], p)'
  BY <1>1, <1>5 DEF Sure, Holds
<1>8. ASSUME NEW q \in Requests
      PROVE  /\ ("users" \in read[q] => Holds(copy[q]["users"], p))'
             /\ Spares(task[q], p)'
  BY <1>1, <1>5, <1>6 DEF Sure, Holds, Spares, Renames
<1> QED BY <1>7, <1>8 DEF Sure

LEMMA PutKeeps ==
    ASSUME IInv, Kept, NEW r \in Requests, Put(r)
    PROVE  Kept'
<1> DEFINE t == writing[r]
<1>1. t \in Tables /\ t \in read[r] /\ (disk' = disk \/ disk' = [disk EXCEPT ![t] = copy[r][t]])
  BY PutKeepsTypes
<1> HIDE DEF t
<1>2. UNCHANGED <<task, read, copy, settled>>
  BY DEF Put, historyVars
<1>3. disk \in [Tables -> Seq(AnyRow)] /\ "users" \in Tables
  BY DEF IInv, TypeOK, Files, Tables
<1>4. disk'["users"] = disk["users"] \/ ("users" \in read[r] /\ disk'["users"] = copy[r]["users"])
  BY <1>1, <1>3
<1> SUFFICES ASSUME NEW p \in settled PROVE Sure(p)'
  BY <1>2 DEF Kept
<1>5. Sure(p)
  BY DEF Kept
<1>6. Holds(disk'["users"], p)
  BY <1>4, <1>5 DEF Sure
<1>7. Holds(disk["users"], p)'
  BY <1>2, <1>6 DEF Holds
<1>8. ASSUME NEW q \in Requests
      PROVE  /\ ("users" \in read[q] => Holds(copy[q]["users"], p))'
             /\ Spares(task[q], p)'
  BY <1>2, <1>5 DEF Sure, Holds, Spares, Renames
<1> QED BY <1>7, <1>8 DEF Sure

LEMMA InitKeeps == Init => Kept
<1> SUFFICES ASSUME Init, NEW p \in settled PROVE Sure(p)
  BY DEF Kept
<1>1. settled = Persons(disk["users"])
  BY DEF Init
<1>2. PICK i \in DOMAIN disk["users"] : p = <<disk["users"][i].name, disk["users"][i].id>>
  BY <1>1, PersonsAreRows
<1>3. Holds(disk["users"], p)
  BY <1>2 DEF Holds
<1>4. \A q \in Requests : read[q] = {} /\ task[q].kind = None
  BY DEF Init, Idle
<1> QED BY <1>3, <1>4 DEF Sure, Spares, Renames, None

LEMMA NextKeeps == IInv /\ Kept /\ [Next]_vars => Kept'
<1> SUFFICES ASSUME IInv, Kept, [Next]_vars PROVE Kept'
  OBVIOUS
<1>1. CASE Next
  <2>1. PICK r \in Requests :
          Begins(r) \/ Works(r) \/ Ends(r) \/ (\E t \in Tables : Opens(r, t)) \/ Put(r)
    BY <1>1, StepKinds
  <2> QED BY <2>1, BeginsKeeps, WorksKeeps, EndsKeeps, OpensKeeps, PutKeeps
<1>2. CASE UNCHANGED vars
  BY <1>2 DEF vars, fileVars, requestVars, historyVars, Kept, Sure, Holds, Spares, Renames
<1> QED BY <1>1, <1>2

(* Whoever was there while nothing ran is never lost to a race: only a      *)
(* request to remove him takes him out of the file.                         *)
THEOREM SettledStay == Spec => []SettledKept
<1>1. Init => Kept
  BY InitKeeps
<1>2. IInv /\ Kept /\ [Next]_vars => Kept'
  BY NextKeeps
<1>3. Kept => SettledKept
  <2> SUFFICES ASSUME Kept, NEW p \in settled
               PROVE  \E q \in Persons(disk["users"]) : q[2] = p[2] /\ q \in settled
    BY DEF SettledKept
  <2>1. PICK i \in DOMAIN disk["users"] :
          disk["users"][i].id = p[2] /\ <<disk["users"][i].name, p[2]>> \in settled
    BY DEF Kept, Sure, Holds
  <2>2. <<disk["users"][i].name, p[2]>> \in Persons(disk["users"])
    BY <2>1, PersonsAreRows
  <2>3. <<disk["users"][i].name, p[2]>>[2] = p[2]
    OBVIOUS
  <2> QED BY <2>1, <2>2, <2>3
<1> QED BY <1>1, <1>2, <1>3, IInvKept, PTL DEF Spec

-----------------------------------------------------------------------------
(* The limit on registrations. *)

CountedFor(r, kind, calls, known, rows, place) ==
  kind = "register" =>
    /\ \A i \in DOMAIN calls : calls[i][1] = "add user" =>
         i = 1 \/ (i = 2 /\ calls[1][1] = "limit")
    /\ MaxUsers >= 0 /\ calls # <<>> /\ Head(calls)[1] = "add user" =>
         "users" \in known /\ Len(rows) + 1 <= MaxUsers
    /\ MaxUsers >= 0 /\ place = "users" => Len(rows) <= MaxUsers

CountedOne(r) == CountedFor(r, task[r].kind, todo[r], read[r], copy[r]["users"], writing[r])

LEMMA CountedParts == Counted <=> \A r \in Requests : CountedOne(r)
BY DEF Counted, CountedOne, CountedFor, Verb, Users

LEMMA HeadIsFirst ==
    ASSUME NEW S, NEW s \in Seq(S), s # <<>>
    PROVE  Head(s) = s[1] /\ 1 \in DOMAIN s
BY LenProperties, EmptySeq

LEMMA BeginsCounts ==
    ASSUME IInv, Counted, NEW r \in Requests, Begins(r)
    PROVE  Counted'
<1>1. PICK t, calls, now :
        t \in Task /\ calls \in Seq(Call) /\ Fitting(t, calls) /\ Begin(r, t, calls, now)
  BY DEF Begins, Fitting
<1>2. /\ task' = [task EXCEPT ![r] = t] /\ todo' = [todo EXCEPT ![r] = calls]
      /\ UNCHANGED <<read, copy, writing>> /\ ~Busy(r)
  BY <1>1 DEF Begin, fileVars
<1>3. /\ task'[r] = t /\ todo'[r] = calls /\ writing[r] = None
      /\ \A q \in Requests \ {r} : task'[q] = task[q] /\ todo'[q] = todo[q]
  BY <1>2 DEF IInv, TypeOK, Quiet, Busy
<1>4. \A q \in Requests \ {r} : CountedOne(q)'
  BY <1>2, <1>3, CountedParts DEF CountedOne
<1>5. CountedOne(r)'
  <2>1. t.kind = "register" => \A i \in DOMAIN calls : calls[i][1] = "add user" =>
                                 i = 2 /\ calls[1][1] = "limit"
    BY <1>1 DEF Fitting
  <2>2. t.kind = "register" /\ calls # <<>> => Head(calls)[1] # "add user"
    BY <1>1, <2>1, HeadIsFirst
  <2>3. writing'[r] # "users"
    BY <1>2, <1>3 DEF None
  <2> QED BY <1>3, <2>1, <2>2, <2>3 DEF CountedOne, CountedFor
<1> QED BY <1>4, <1>5, CountedParts DEF CountedOne, CountedFor, Counted, Verb, Users

LEMMA WorksCounts ==
    ASSUME IInv, Counted, NEW r \in Requests, Works(r)
    PROVE  Counted'
<1>1. /\ Busy(r) /\ writing[r] = None /\ todo[r] # <<>> /\ Retasked(r) /\ Continued(r)
      /\ read' = read
  BY DEF Works
<1>2. \A q \in Requests \ {r} : copy'[q]["users"] = copy[q]["users"] /\ writing'[q] = writing[q]
  <2>1. CASE UNCHANGED <<copy, writing>>
    BY <2>1
  <2>2. CASE \E t \in Tables, rows \in Seq(AnyRow) : Changed(r, t, rows)
    <3>1. PICK t \in Tables, rows \in Seq(AnyRow) : Changed(r, t, rows)
      BY <2>2
    <3>2. \A q \in Requests, u \in Tables :
            copy'[q][u] = IF q = r /\ u = t THEN rows ELSE copy[q][u]
      <4>1. Fit(t, rows) /\ copy' = [copy EXCEPT ![r][t] = rows]
        BY <3>1 DEF Changed
      <4>2. OneCopy(r, t, rows)
        BY <4>1, CopyChanges
      <4> QED BY <4>2 DEF OneCopy
    <3>3. \A q \in Requests \ {r} : writing'[q] = writing[q]
      BY <3>1 DEF Changed, IInv, TypeOK
    <3> QED BY <3>2, <3>3 DEF Tables
  <2> QED BY <2>1, <2>2 DEF Works
<1>3. \A q \in Requests \ {r} : CountedOne(q)'
  BY <1>1, <1>2, CountedParts DEF CountedOne, Retasked, Continued
<1>4. CountedOne(r)'
  <2> SUFFICES ASSUME task[r].kind = "register"
               PROVE  CountedOne(r)'
    BY <1>1 DEF CountedOne, CountedFor, Retasked
  <2>0. CountedFor(r, task[r].kind, todo[r], read[r], copy[r]["users"], writing[r])
    BY CountedParts DEF CountedOne
  <2>1. todo[r] \in Seq(Call) /\ Head(todo[r]) = todo[r][1] /\ 1 \in DOMAIN todo[r]
    BY <1>1, CopyFacts, HeadIsFirst
  <2>2. CASE todo'[r] = Tail(todo[r])
    <3>1. Tail(todo[r]) \in Seq(Call) /\ DOMAIN Tail(todo[r]) = 1 .. Len(Tail(todo[r]))
          /\ Len(Tail(todo[r])) = Len(todo[r]) - 1 /\ Len(todo[r]) \in Nat
          /\ DOMAIN todo[r] = 1 .. Len(todo[r])
          /\ \A k \in 1 .. Len(Tail(todo[r])) : Tail(todo[r])[k] = todo[r][k + 1]
      BY <1>1, <2>1, HeadTailProperties, LenProperties
    <3>2. ASSUME NEW i \in DOMAIN Tail(todo[r]), Tail(todo[r])[i][1] = "add user"
          PROVE  i = 1 /\ todo[r][1][1] = "limit"
      <4>1. i \in 1 .. Len(Tail(todo[r])) /\ i \in Nat
        BY <3>1
      <4>2. i + 1 \in 1 .. Len(todo[r])
        BY <3>1, <4>1
      <4>3. i + 1 \in DOMAIN todo[r] /\ todo[r][i + 1][1] = "add user"
        BY <3>1, <3>2, <4>1, <4>2, Zenon
      <4>4. i + 1 = 1 \/ (i + 1 = 2 /\ todo[r][1][1] = "limit")
        BY <2>0, <4>3, Zenon DEF CountedFor
      <4>5. i + 1 # 1 /\ (i + 1 = 2 => i = 1)
        BY <4>1
      <4> QED BY <4>4, <4>5, Zenon
    <3>3. Verb(r) = todo[r][1][1]
      BY <2>1 DEF Verb
    <3>4. MaxUsers >= 0 /\ todo'[r] # <<>> /\ Head(todo'[r])[1] = "add user" =>
            "users" \in read'[r] /\ Len(copy'[r]["users"]) + 1 <= MaxUsers
      <4> SUFFICES ASSUME MaxUsers >= 0, todo'[r] # <<>>, Head(todo'[r])[1] = "add user"
                   PROVE  "users" \in read'[r] /\ Len(copy'[r]["users"]) + 1 <= MaxUsers
        OBVIOUS
      <4>1. Head(todo'[r]) = Tail(todo[r])[1] /\ 1 \in DOMAIN Tail(todo[r])
        BY <2>2, <3>1, HeadIsFirst
      <4>2. Verb(r) = "limit"
        BY <3>2, <3>3, <4>1
      <4> QED BY <1>1, <4>2 DEF Works, Users
    <3>5. MaxUsers >= 0 /\ writing'[r] = "users" => Len(copy'[r]["users"]) <= MaxUsers
      <4>1. CASE UNCHANGED writing
        BY <1>1, <4>1 DEF None
      <4>2. CASE \E t \in Tables, rows \in Seq(AnyRow) :
                   /\ Changed(r, t, rows)
                   /\ task[r].kind = "register" /\ t = "users" =>
                        Verb(r) = "add user" /\ Len(rows) = Len(Users(r)) + 1
        <5>1. PICK t \in Tables, rows \in Seq(AnyRow) :
                /\ Changed(r, t, rows)
                /\ t = "users" => Verb(r) = "add user" /\ Len(rows) = Len(Users(r)) + 1
          BY <4>2
        <5>2. writing'[r] = t /\ copy'[r][t] = rows
          <6>1. copy'[r][t] = rows
            <7>1. Fit(t, rows) /\ copy' = [copy EXCEPT ![r][t] = rows]
              BY <5>1 DEF Changed
            <7>2. OneCopy(r, t, rows)
              BY <7>1, CopyChanges
            <7> QED BY <7>2 DEF OneCopy
          <6>2. writing'[r] = t
            BY <5>1 DEF Changed, IInv, TypeOK
          <6> QED BY <6>1, <6>2
        <5>3. Verb(r) = "add user" /\ MaxUsers >= 0 => Len(Users(r)) + 1 <= MaxUsers
          BY <1>1, <2>0 DEF CountedFor, Verb, Users
        <5> QED BY <5>1, <5>2, <5>3
      <4> QED BY <4>1, <4>2 DEF Works
    <3> QED BY <1>1, <2>2, <3>2, <3>3, <3>4, <3>5, <2>1, Zenon DEF CountedOne, CountedFor
  <2>3. CASE todo'[r] = todo[r] /\ Verb(r) # "add user"
    <3>1. Head(todo[r])[1] # "add user"
      BY <2>3 DEF Verb
    <3>2. writing'[r] # "users"
      <4>1. CASE UNCHANGED writing
        BY <1>1, <4>1 DEF None
      <4>2. CASE \E t \in Tables, rows \in Seq(AnyRow) :
                   Changed(r, t, rows) /\ (t = "users" => Verb(r) = "add user")
        BY <2>3, <4>2 DEF Changed, IInv, TypeOK
      <4> QED BY <4>1, <4>2 DEF Works
    <3> QED BY <2>0, <2>3, <3>1, <3>2 DEF CountedOne, CountedFor
  <2> QED BY <1>1, <2>2, <2>3 DEF Continued, Works
<1> QED BY <1>3, <1>4, CountedParts DEF CountedOne, CountedFor, Counted, Verb, Users

LEMMA EndsCounts ==
    ASSUME IInv, Counted, NEW r \in Requests, Ends(r)
    PROVE  Counted'
<1>1. /\ task' = [task EXCEPT ![r] = Idle] /\ read' = [read EXCEPT ![r] = {}]
      /\ todo' = [todo EXCEPT ![r] = <<>>] /\ writing' = [writing EXCEPT ![r] = None]
      /\ copy' = [copy EXCEPT ![r] = [t \in Tables |-> <<>>]]
  BY DEF Ends, Forget
<1>2. /\ task'[r].kind # "register"
      /\ \A q \in Requests \ {r} : /\ task'[q] = task[q] /\ read'[q] = read[q] /\ copy'[q] = copy[q]
                                   /\ todo'[q] = todo[q] /\ writing'[q] = writing[q]
  BY <1>1 DEF IInv, TypeOK, Idle, None
<1> QED BY <1>2 DEF Counted, Verb, Users

LEMMA OpensCounts ==
    ASSUME IInv, Counted, NEW r \in Requests, NEW t \in Tables, Opens(r, t)
    PROVE  Counted'
<1>1. /\ read' = [read EXCEPT ![r] = @ \cup {t}] /\ copy' = [copy EXCEPT ![r][t] = disk[t]]
      /\ UNCHANGED <<task, writing>> /\ writing[r] = None
      /\ todo' = [todo EXCEPT ![r] = IF Verb(r) \in Reads THEN Tail(@) ELSE @]
      /\ t = TableOf(Verb(r)) /\ t \notin read[r] /\ todo[r] # <<>>
  BY DEF Opens
<1>2. \A q \in Requests \ {r} : /\ read'[q] = read[q] /\ copy'[q] = copy[q] /\ todo'[q] = todo[q]
  BY <1>1 DEF IInv, TypeOK
<1>3. \A q \in Requests \ {r} : CountedOne(q)'
  BY <1>1, <1>2, CountedParts DEF CountedOne
<1>4. CountedOne(r)'
  <2> SUFFICES ASSUME task[r].kind = "register"
               PROVE  CountedOne(r)'
    BY <1>1 DEF CountedOne, CountedFor
  <2>0. CountedFor(r, task[r].kind, todo[r], read[r], copy[r]["users"], writing[r])
    BY CountedParts DEF CountedOne
  <2>1. Head(todo[r]) = todo[r][1] /\ 1 \in DOMAIN todo[r]
    BY <1>1, CopyFacts, HeadIsFirst
  <2>2. Allowed(task[r].kind, Verb(r))
    BY <2>1 DEF IInv, Planned, Verb
  <2>3. Verb(r) \notin Reads
    BY <2>2 DEF Allowed, Reads
  <2>4. todo'[r] = todo[r]
    BY <1>1, <2>3 DEF IInv, TypeOK
  <2>5. Verb(r) = "add user" => t = "users"
    BY <1>1 DEF TableOf
  <2>6. MaxUsers >= 0 => Head(todo[r])[1] # "add user"
    BY <1>1, <2>0, <2>5 DEF CountedFor, Verb
  <2>7. writing'[r] # "users"
    BY <1>1 DEF None
  <2> QED BY <2>0, <2>4, <2>6, <2>7 DEF CountedOne, CountedFor
<1> QED BY <1>3, <1>4, CountedParts DEF CountedOne, CountedFor, Counted, Verb, Users

LEMMA PutCounts ==
    ASSUME IInv, Counted, NEW r \in Requests, Put(r)
    PROVE  Counted'
<1>1. UNCHANGED <<task, todo, read, copy>> /\ writing' = [writing EXCEPT ![r] = None]
  BY DEF Put
<1>2. \A q \in Requests : writing'[q] = writing[q] \/ writing'[q] # "users"
  BY <1>1 DEF IInv, TypeOK, None
<1> QED BY <1>1, <1>2 DEF Counted, Verb, Users

LEMMA NextCounts == IInv /\ Counted /\ [Next]_vars => Counted'
<1> SUFFICES ASSUME IInv, Counted, [Next]_vars PROVE Counted'
  OBVIOUS
<1>1. CASE Next
  <2>1. PICK r \in Requests :
          Begins(r) \/ Works(r) \/ Ends(r) \/ (\E t \in Tables : Opens(r, t)) \/ Put(r)
    BY <1>1, StepKinds
  <2> QED BY <2>1, BeginsCounts, WorksCounts, EndsCounts, OpensCounts, PutCounts
<1>2. CASE UNCHANGED vars
  BY <1>2 DEF vars, requestVars, Counted, Verb, Users
<1> QED BY <1>1, <1>2

LEMMA CountedWrites ==
    ASSUME IInv, Counted, [Next]_vars, NEW r \in Requests,
           MaxUsers >= 0, task[r].kind = "register", writing[r] = "users",
           writing'[r] = None, disk' # disk
    PROVE  Len(disk'["users"]) <= MaxUsers
<1>1. Next
  BY DEF vars, fileVars
<1>2. PICK q \in Requests :
        Begins(q) \/ Works(q) \/ Ends(q) \/ (\E t \in Tables : Opens(q, t)) \/ Put(q)
  BY <1>1, StepKinds
<1>3. ~Begins(q) /\ ~Works(q) /\ ~Ends(q) /\ ~\E t \in Tables : Opens(q, t)
  BY DEF Begins, Begin, Works, Ends, Opens, fileVars
<1>4. Put(q)
  BY <1>2, <1>3
<1>5. q = r
  BY <1>4 DEF Put, IInv, TypeOK, None
<1>6. disk' = [disk EXCEPT !["users"] = copy[r]["users"]]
  BY <1>4, <1>5, PutKeepsTypes
<1>7. disk \in [Tables -> Seq(AnyRow)] /\ "users" \in Tables
  BY DEF IInv, TypeOK, Files, Tables
<1>8. disk'["users"] = copy[r]["users"]
  BY <1>6, <1>7
<1> QED BY <1>8 DEF Counted, Users

(* No registration leaves more users in the file than maxUsers, however     *)
(* long after its check it writes.                                          *)
THEOREM LimitStays == Spec => LimitKept
<1>1. Init => Counted
  BY DEF Init, Idle, Counted, None
<1>2. IInv /\ Counted /\ [Next]_vars => Counted'
  BY NextCounts
<1>3. IInv /\ Counted /\ [Next]_vars =>
        [\A r \in Requests :
           /\ MaxUsers >= 0 /\ task[r].kind = "register" /\ writing[r] = "users"
           /\ writing'[r] = None /\ disk' # disk
           => Len(disk'["users"]) <= MaxUsers]_vars
  BY CountedWrites
<1> QED BY <1>1, <1>2, <1>3, IInvKept, PTL DEF Spec, LimitKept

-----------------------------------------------------------------------------
(* The book of accounts that a table of users and one of rights make.       *)

PersonOf(u) == [name |-> u.name, email |-> u.email, enabled |-> u.enabled, password |-> u.password]
People(users) == {PersonOf(u) : u \in ToSet(users)}
Granted(users, rights) ==
  {<<p[1].name, p[2].right>> :
     p \in {q \in ToSet(users) \X ToSet(rights) : q[1].id = q[2].userId}}
BookIn(users, rights) == [people |-> People(users), granted |-> Granted(users, rights)]

(* The model's book, of its two tables. *)
LEMMA BookOfTables == \A tables : BookOf(tables) = BookIn(tables["users"], tables["rights"])
BY DEF BookOf, BookIn, People, Granted, PersonOf

(* Who is in the book has a row. *)
LEMMA InPeople ==
    ASSUME NEW users, NEW x
    PROVE  x \in People(users) <=> \E i \in DOMAIN users : x = PersonOf(users[i])
BY DEF People, ToSet

(* What is granted has a row whose owner has one. *)
LEMMA InGranted ==
    ASSUME NEW users, NEW rights, NEW g
    PROVE  g \in Granted(users, rights) <=>
             \E i \in DOMAIN users, k \in DOMAIN rights :
               users[i].id = rights[k].userId /\ g = <<users[i].name, rights[k].right>>
<1>1. ASSUME g \in Granted(users, rights)
      PROVE  \E i \in DOMAIN users, k \in DOMAIN rights :
               users[i].id = rights[k].userId /\ g = <<users[i].name, rights[k].right>>
  <2>1. PICK p \in ToSet(users) \X ToSet(rights) :
               p[1].id = p[2].userId /\ g = <<p[1].name, p[2].right>>
    BY <1>1 DEF Granted
  <2>2. PICK i \in DOMAIN users : p[1] = users[i]
    BY <2>1 DEF ToSet
  <2>3. PICK k \in DOMAIN rights : p[2] = rights[k]
    BY <2>1 DEF ToSet
  <2> QED BY <2>1, <2>2, <2>3
<1>2. ASSUME NEW i \in DOMAIN users, NEW k \in DOMAIN rights,
             users[i].id = rights[k].userId, g = <<users[i].name, rights[k].right>>
      PROVE  g \in Granted(users, rights)
  <2> DEFINE p == <<users[i], rights[k]>>
  <2>1. p \in ToSet(users) \X ToSet(rights) /\ p[1].id = p[2].userId /\ g = <<p[1].name, p[2].right>>
    BY <1>2 DEF ToSet
  <2> QED BY <2>1 DEF Granted
<1> QED BY <1>1, <1>2

(* The users of a fit table have each an id and a name of their own. *)
LEMMA UsersApart ==
    ASSUME NEW users, Fit("users", users)
    PROVE  /\ users \in Seq(UserRow) /\ Len(users) \in Nat /\ DOMAIN users = 1 .. Len(users)
           /\ \A i \in DOMAIN users : users[i] \in UserRow /\ users[i].id \in Nat
           /\ \A i, k \in DOMAIN users : users[i].id = users[k].id => i = k
           /\ \A i, k \in DOMAIN users : users[i].name = users[k].name => i = k
           /\ \A i, k \in DOMAIN users : PersonOf(users[i]) = PersonOf(users[k]) => i = k
<1>1. users \in Seq(UserRow)
  BY DEF Fit, Row
<1>2. Len(users) \in Nat /\ DOMAIN users = 1 .. Len(users)
      /\ \A i \in DOMAIN users : users[i] \in UserRow
  BY <1>1, LenProperties, ElementOfSeq
<1>3. \A i \in DOMAIN users : users[i].id \in Nat
  BY <1>2 DEF UserRow
<1>4. \A i, k \in DOMAIN users : users[i].name = users[k].name => i = k
  BY DEF Fit, UsersDiffer
<1>5. \A i, k \in DOMAIN users : users[i].id = users[k].id => i = k
  <2>1. \A i, k \in DOMAIN users : i < k \/ k < i \/ i = k
    BY <1>2
  <2>2. \A i, k \in DOMAIN users : i < k => users[i].id < users[k].id
    BY DEF Fit, Ascending
  <2> QED BY <1>3, <2>1, <2>2
<1>6. \A i, k \in DOMAIN users : PersonOf(users[i]) = PersonOf(users[k]) => users[i].name = users[k].name
  BY DEF PersonOf
<1> QED BY <1>1, <1>2, <1>3, <1>4, <1>5, <1>6

(* The rows that stay when one is removed. *)
LEMMA RemainingRows ==
    ASSUME NEW t \in Tables, NEW rows, Fit(t, rows), NEW i \in DOMAIN rows
    PROVE  /\ \A k \in DOMAIN rows : k # i =>
                \E j \in DOMAIN RemoveAt(rows, i) : RemoveAt(rows, i)[j] = rows[k]
           /\ \A j \in DOMAIN RemoveAt(rows, i) :
                \E k \in DOMAIN rows : k # i /\ RemoveAt(rows, i)[j] = rows[k]
<1> DEFINE left == RemoveAt(rows, i)
<1>1. rows \in Seq(Row(t)) /\ Len(rows) \in Nat /\ DOMAIN rows = 1 .. Len(rows)
  BY LenProperties DEF Fit
<1>2. left \in Seq(Row(t)) /\ Len(left) = Len(rows) - 1
      /\ \A k \in 1 .. Len(rows) - 1 : left[k] = IF k < i THEN rows[k] ELSE rows[k + 1]
  BY <1>1, RemoveAtRows
<1>3. DOMAIN left = 1 .. Len(rows) - 1
  BY <1>2, LenProperties
<1>4. \A k \in DOMAIN rows : k # i => \E j \in DOMAIN left : left[j] = rows[k]
  BY RemovalFits
<1> HIDE DEF left
<1>5. ASSUME NEW j \in DOMAIN left
      PROVE  \E k \in DOMAIN rows : k # i /\ left[j] = rows[k]
  <2>1. CASE j < i
    BY <1>1, <1>2, <1>3, <2>1
  <2>2. CASE ~(j < i)
    <3>1. j + 1 \in DOMAIN rows /\ j + 1 # i /\ left[j] = rows[j + 1]
      BY <1>1, <1>2, <1>3, <2>2
    <3> QED BY <3>1
  <2> QED BY <2>1, <2>2
<1> QED BY <1>4, <1>5 DEF left

Bundle(name, list) == {name} \X list
Others(granted, name) == {g \in granted : g[1] # name}
Unowned(rights, n) == \A k \in DOMAIN rights : rights[k].userId # n

(* A new row is one more element. *)
LEMMA OneMoreRow ==
    ASSUME NEW S, NEW rows \in Seq(S), NEW row \in S
    PROVE  /\ ToSet(Append(rows, row)) = ToSet(rows) \cup {row}
           /\ DOMAIN Append(rows, row) = DOMAIN rows \cup {Len(rows) + 1}
           /\ Append(rows, row)[Len(rows) + 1] = row /\ Len(rows) + 1 \notin DOMAIN rows
           /\ \A i \in DOMAIN rows : Append(rows, row)[i] = rows[i]
<1> DEFINE more == Append(rows, row)
<1>1. Len(rows) \in Nat /\ DOMAIN rows = 1 .. Len(rows)
  BY LenProperties
<1>2. more \in Seq(S) /\ Len(more) = Len(rows) + 1 /\ DOMAIN more = 1 .. Len(rows) + 1
      /\ more[Len(rows) + 1] = row /\ \A k \in 1 .. Len(rows) : more[k] = rows[k]
  BY <1>1
<1> HIDE DEF more
<1>3. DOMAIN more = DOMAIN rows \cup {Len(rows) + 1} /\ Len(rows) + 1 \notin DOMAIN rows
      /\ \A i \in DOMAIN rows : more[i] = rows[i]
  BY <1>1, <1>2
<1>4. \A x : x \in ToSet(more) <=> x \in ToSet(rows) \cup {row}
  BY <1>2, <1>3 DEF ToSet
<1> QED BY <1>2, <1>3, <1>4 DEF more

(* A new user brings himself, and what the table of rights has for his id. *)
Joined(users, rights, row, more) ==
  /\ \E n \in DOMAIN more : more[n] = row /\ n \notin DOMAIN users
  /\ \A i \in DOMAIN users : i \in DOMAIN more /\ more[i] = users[i]
  /\ People(more) = People(users) \cup {PersonOf(row)}
  /\ Granted(more, rights) = Granted(users, rights) \cup Bundle(row.name, RightsOf(rights, row.id))

(* A row of users more is a person more, with what waited for his id. *)
LEMMA AddPerson ==
    ASSUME NEW users \in Seq(UserRow), NEW rights, NEW row \in UserRow
    PROVE  Joined(users, rights, row, Append(users, row))
<1> DEFINE more == Append(users, row)
           n == Len(users) + 1
<1>1. DOMAIN more = DOMAIN users \cup {n}
  BY OneMoreRow
<1>2. more[n] = row /\ n \notin DOMAIN users
  BY OneMoreRow
<1>3. \A i \in DOMAIN users : more[i] = users[i]
  BY OneMoreRow
<1>4. ToSet(more) = ToSet(users) \cup {row}
  BY OneMoreRow
<1> HIDE DEF more, n
<1>5. \A u : (\E i \in DOMAIN more : u = more[i]) <=> (u = row \/ \E i \in DOMAIN users : u = users[i])
  <2>1. \A u : u \in ToSet(more) <=> u = row \/ u \in ToSet(users)
    BY <1>4
  <2> QED BY <2>1 DEF ToSet
<1>6. ASSUME NEW x
      PROVE  x \in People(more) <=> x \in People(users) \cup {PersonOf(row)}
  BY <1>5 DEF People, ToSet
<1>7. ASSUME NEW g
      PROVE  g \in Granted(more, rights) <=>
               g \in Granted(users, rights) \cup Bundle(row.name, RightsOf(rights, row.id))
  <2>1. g \in Bundle(row.name, RightsOf(rights, row.id)) <=>
          \E k \in DOMAIN rights : row.id = rights[k].userId /\ g = <<row.name, rights[k].right>>
    BY DEF Bundle, RightsOf, ToSet
  <2>2. g \in Granted(more, rights) <=>
          \E i \in DOMAIN more, k \in DOMAIN rights :
            more[i].id = rights[k].userId /\ g = <<more[i].name, rights[k].right>>
    BY InGranted
  <2>3. g \in Granted(users, rights) <=>
          \E i \in DOMAIN users, k \in DOMAIN rights :
            users[i].id = rights[k].userId /\ g = <<users[i].name, rights[k].right>>
    BY InGranted
  <2>4. ASSUME g \in Granted(more, rights)
        PROVE  g \in Granted(users, rights) \cup Bundle(row.name, RightsOf(rights, row.id))
    <3>1. PICK i \in DOMAIN more, k \in DOMAIN rights :
            more[i].id = rights[k].userId /\ g = <<more[i].name, rights[k].right>>
      BY <2>2, <2>4
    <3>2. more[i] = row \/ \E j \in DOMAIN users : more[i] = users[j]
      BY <1>5
    <3> QED BY <2>1, <2>3, <3>1, <3>2
  <2>5. ASSUME g \in Granted(users, rights)
        PROVE  g \in Granted(more, rights)
    <3>1. PICK i \in DOMAIN users, k \in DOMAIN rights :
            users[i].id = rights[k].userId /\ g = <<users[i].name, rights[k].right>>
      BY <2>3, <2>5
    <3>2. \E j \in DOMAIN more : users[i] = more[j]
      BY <1>5
    <3> QED BY <2>2, <3>1, <3>2
  <2>6. ASSUME g \in Bundle(row.name, RightsOf(rights, row.id))
        PROVE  g \in Granted(more, rights)
    <3>1. PICK k \in DOMAIN rights : row.id = rights[k].userId /\ g = <<row.name, rights[k].right>>
      BY <2>1, <2>6
    <3>2. \E j \in DOMAIN more : row = more[j]
      BY <1>5
    <3> QED BY <2>2, <3>1, <3>2
  <2> QED BY <2>4, <2>5, <2>6
<1>8. People(more) = People(users) \cup {PersonOf(row)}
  BY <1>6
<1>9. Granted(more, rights) = Granted(users, rights) \cup Bundle(row.name, RightsOf(rights, row.id))
  BY <1>7
<1>10. Joined(users, rights, row, more)
  BY <1>1, <1>2, <1>3, <1>8, <1>9 DEF Joined
<1> QED BY <1>10 DEF more

(* A user who changes keeps what was granted to him, under the name he has now. *)
Renamed(granted, old, name) == {<<IF g[1] = old THEN name ELSE g[1], g[2]>> : g \in granted}

LEMMA ChangePerson ==
    ASSUME NEW users, Fit("users", users), NEW rights, NEW i \in DOMAIN users,
           NEW row, row.id = users[i].id,
           NEW new, DOMAIN new = DOMAIN users, new[i] = row,
           \A k \in DOMAIN users : k # i => new[k] = users[k]
    PROVE  /\ People(new) = (People(users) \ {PersonOf(users[i])}) \cup {PersonOf(row)}
           /\ Granted(new, rights) = Renamed(Granted(users, rights), users[i].name, row.name)
<1>1. ASSUME NEW x
      PROVE  x \in People(new) <=> x \in (People(users) \ {PersonOf(users[i])}) \cup {PersonOf(row)}
  <2>1. \A k \in DOMAIN users : k # i => PersonOf(users[k]) # PersonOf(users[i])
    BY UsersApart
  <2> QED BY <2>1, InPeople
<1> DEFINE now(name) == IF name = users[i].name THEN row.name ELSE name
<1>2. \A k \in DOMAIN users : new[k].id = users[k].id /\ new[k].name = now(users[k].name)
  BY UsersApart
<1>3. \A x : x \in Renamed(Granted(users, rights), users[i].name, row.name) <=>
               \E g \in Granted(users, rights) : x = <<now(g[1]), g[2]>>
  BY DEF Renamed
<1> HIDE DEF now
<1>4. ASSUME NEW x \in Granted(new, rights)
      PROVE  \E g \in Granted(users, rights) : x = <<now(g[1]), g[2]>>
  <2>1. PICK m \in DOMAIN new, k \in DOMAIN rights :
          new[m].id = rights[k].userId /\ x = <<new[m].name, rights[k].right>>
    BY InGranted
  <2> DEFINE g == <<users[m].name, rights[k].right>>
  <2>2. g \in Granted(users, rights)
    BY <1>2, <2>1, InGranted
  <2>3. x = <<now(g[1]), g[2]>>
    BY <1>2, <2>1
  <2> QED BY <2>2, <2>3
<1>5. ASSUME NEW g \in Granted(users, rights)
      PROVE  <<now(g[1]), g[2]>> \in Granted(new, rights)
  <2>1. PICK m \in DOMAIN users, k \in DOMAIN rights :
          users[m].id = rights[k].userId /\ g = <<users[m].name, rights[k].right>>
    BY InGranted
  <2>2. g[1] = users[m].name /\ g[2] = rights[k].right
    BY <2>1
  <2>3. new[m].id = rights[k].userId /\ <<now(g[1]), g[2]>> = <<new[m].name, rights[k].right>>
    BY <1>2, <2>1, <2>2
  <2> QED BY <2>3, InGranted
<1>6. \A x : x \in Granted(new, rights) <=>
               x \in Renamed(Granted(users, rights), users[i].name, row.name)
  BY <1>3, <1>4, <1>5
<1> QED BY <1>1, <1>6

(* A user to whom nothing is granted leaves. *)
LEMMA DropPerson ==
    ASSUME NEW users, Fit("users", users), NEW rights, NEW i \in DOMAIN users,
           Unowned(rights, users[i].id)
    PROVE  /\ People(RemoveAt(users, i)) = People(users) \ {PersonOf(users[i])}
           /\ Granted(RemoveAt(users, i), rights) = Granted(users, rights)
<1> DEFINE left == RemoveAt(users, i)
<1>1. /\ \A k \in DOMAIN users : k # i => \E j \in DOMAIN left : left[j] = users[k]
      /\ \A j \in DOMAIN left : \E k \in DOMAIN users : k # i /\ left[j] = users[k]
  BY RemainingRows DEF Tables
<1> HIDE DEF left
<1>2. ASSUME NEW x
      PROVE  x \in People(left) <=> x \in People(users) \ {PersonOf(users[i])}
  <2>1. \A k \in DOMAIN users : k # i => PersonOf(users[k]) # PersonOf(users[i])
    BY UsersApart
  <2> QED BY <1>1, <2>1, InPeople
<1>3. ASSUME NEW g
      PROVE  g \in Granted(left, rights) <=> g \in Granted(users, rights)
  BY <1>1, InGranted DEF Unowned
<1> QED BY <1>2, <1>3 DEF left

(* Nothing is granted to a user without rows. *)
LEMMA NothingGranted ==
    ASSUME NEW users, Fit("users", users), NEW rights, NEW i \in DOMAIN users,
           Unowned(rights, users[i].id)
    PROVE  Others(Granted(users, rights), users[i].name) = Granted(users, rights)
<1>1. ASSUME NEW g \in Granted(users, rights)
      PROVE  g[1] # users[i].name
  <2>1. PICK j \in DOMAIN users, k \in DOMAIN rights :
          users[j].id = rights[k].userId /\ g = <<users[j].name, rights[k].right>>
    BY InGranted
  <2>2. j # i
    BY <2>1 DEF Unowned
  <2> QED BY <2>1, <2>2, UsersApart
<1> QED BY <1>1 DEF Others

(* One more row grants its right to its user. *)
LEMMA GrantRight ==
    ASSUME NEW users, Fit("users", users), NEW rights \in Seq(RightRow), NEW i \in DOMAIN users,
           NEW row \in RightRow, row.userId = users[i].id
    PROVE  Granted(users, Append(rights, row)) =
             Granted(users, rights) \cup {<<users[i].name, row.right>>}
<1> DEFINE more == Append(rights, row)
<1>1. /\ DOMAIN more = DOMAIN rights \cup {Len(rights) + 1} /\ more[Len(rights) + 1] = row
      /\ \A k \in DOMAIN rights : more[k] = rights[k]
  BY OneMoreRow
<1> HIDE DEF more
<1>2. \A k \in DOMAIN users : users[k].id = users[i].id => k = i
  BY UsersApart
<1>3. ASSUME NEW g
      PROVE  g \in Granted(users, more) <=>
               g \in Granted(users, rights) \cup {<<users[i].name, row.right>>}
  <2>1. g \in Granted(users, more) <=>
          \E j \in DOMAIN users, k \in DOMAIN more :
            users[j].id = more[k].userId /\ g = <<users[j].name, more[k].right>>
    BY InGranted
  <2>2. g \in Granted(users, rights) <=>
          \E j \in DOMAIN users, k \in DOMAIN rights :
            users[j].id = rights[k].userId /\ g = <<users[j].name, rights[k].right>>
    BY InGranted
  <2> QED BY <1>1, <1>2, <2>1, <2>2
<1> QED BY <1>3 DEF more

(* A row that goes was one user's: the others keep what they have. *)
LEMMA RevokeRight ==
    ASSUME NEW users, Fit("users", users), NEW rights, Fit("rights", rights), NEW i \in DOMAIN users,
           NEW k \in DOMAIN rights, rights[k].userId = users[i].id
    PROVE  Others(Granted(users, RemoveAt(rights, k)), users[i].name)
             = Others(Granted(users, rights), users[i].name)
<1> DEFINE left == RemoveAt(rights, k)
<1>1. /\ \A j \in DOMAIN rights : j # k => \E h \in DOMAIN left : left[h] = rights[j]
      /\ \A h \in DOMAIN left : \E j \in DOMAIN rights : j # k /\ left[h] = rights[j]
  BY RemainingRows DEF Tables
<1> HIDE DEF left
<1>2. ASSUME NEW g, g[1] # users[i].name
      PROVE  g \in Granted(users, left) <=> g \in Granted(users, rights)
  <2>1. ASSUME g \in Granted(users, rights)
        PROVE  g \in Granted(users, left)
    <3>1. PICK m \in DOMAIN users, j \in DOMAIN rights :
            users[m].id = rights[j].userId /\ g = <<users[m].name, rights[j].right>>
      BY <2>1, InGranted
    <3>2. m # i
      BY <1>2, <3>1
    <3>3. j # k
      BY <3>1, <3>2, UsersApart
    <3> QED BY <1>1, <3>1, <3>3, InGranted
  <2>2. ASSUME g \in Granted(users, left)
        PROVE  g \in Granted(users, rights)
    BY <1>1, <2>2, InGranted
  <2> QED BY <2>1, <2>2
<1> QED BY <1>2 DEF left, Others

(* Ids nobody has, whose rights are those the tables were shipped with.      *)
StraysKnown(users, rights) ==
  \A n \in Nat : ~HasId(users, n) => RightsOf(rights, n) \in Legacies

(* An id that owns no row has the empty legacy. *)
LEMMA NoRights ==
    ASSUME NEW rights, NEW n, Unowned(rights, n)
    PROVE  RightsOf(rights, n) = {} /\ {} \in Legacies
BY DEF RightsOf, ToSet, Unowned, Legacies

(* A row of another id, added or removed, leaves the rights of an id. *)
LEMMA RightsOfMore ==
    ASSUME NEW rights \in Seq(RightRow), NEW row \in RightRow, NEW n, n # row.userId
    PROVE  RightsOf(Append(rights, row), n) = RightsOf(rights, n)
<1> DEFINE more == Append(rights, row)
<1>1. /\ DOMAIN more = DOMAIN rights \cup {Len(rights) + 1} /\ more[Len(rights) + 1] = row
      /\ \A k \in DOMAIN rights : more[k] = rights[k]
  BY OneMoreRow
<1> HIDE DEF more
<1>2. \A x : x \in RightsOf(more, n) <=> \E k \in DOMAIN more : more[k].userId = n /\ x = more[k].right
  BY DEF RightsOf, ToSet
<1>3. \A x : x \in RightsOf(rights, n) <=>
               \E k \in DOMAIN rights : rights[k].userId = n /\ x = rights[k].right
  BY DEF RightsOf, ToSet
<1>4. \A x : x \in RightsOf(more, n) <=> x \in RightsOf(rights, n)
  BY <1>1, <1>2, <1>3
<1> QED BY <1>4 DEF more

LEMMA RightsOfFewer ==
    ASSUME NEW rights, Fit("rights", rights), NEW i \in DOMAIN rights, NEW n, n # rights[i].userId
    PROVE  RightsOf(RemoveAt(rights, i), n) = RightsOf(rights, n)
<1> DEFINE left == RemoveAt(rights, i)
<1>1. /\ \A j \in DOMAIN rights : j # i => \E h \in DOMAIN left : left[h] = rights[j]
      /\ \A h \in DOMAIN left : \E j \in DOMAIN rights : j # i /\ left[h] = rights[j]
  BY RemainingRows DEF Tables
<1> HIDE DEF left
<1>2. \A x : x \in RightsOf(left, n) <=> \E k \in DOMAIN left : left[k].userId = n /\ x = left[k].right
  BY DEF RightsOf, ToSet
<1>3. \A x : x \in RightsOf(rights, n) <=>
               \E k \in DOMAIN rights : rights[k].userId = n /\ x = rights[k].right
  BY DEF RightsOf, ToSet
<1>4. ASSUME NEW x
      PROVE  x \in RightsOf(left, n) <=> x \in RightsOf(rights, n)
  <2>1. ASSUME NEW k \in DOMAIN left, left[k].userId = n, x = left[k].right
        PROVE  x \in RightsOf(rights, n)
    BY <1>1, <1>3, <2>1
  <2>2. ASSUME NEW k \in DOMAIN rights, rights[k].userId = n, x = rights[k].right
        PROVE  x \in RightsOf(left, n)
    <3>1. PICK h \in DOMAIN left : left[h] = rights[k]
      BY <1>1, <2>2
    <3> QED BY <1>2, <2>2, <3>1
  <2> QED BY <1>2, <1>3, <2>1, <2>2
<1> QED BY <1>4 DEF left

-----------------------------------------------------------------------------
(* What a step of AccountBook does to a book s, as a relation.               *)

Person == Book!Person

Enrolled(s, p, list, legacy, b) ==
  /\ p \in Person
  /\ \A q \in s.people : q.name # p.name /\ q.email # p.email
  /\ b = [people  |-> s.people \cup {p},
          granted |-> s.granted \cup Bundle(p.name, list \cup legacy)]
Revised(s, p, q, b) ==
  /\ p \in s.people /\ q \in Person
  /\ q.name = p.name \/ \A x \in s.people : x.name # q.name
  /\ q.email = p.email \/ \A x \in s.people : x.email # q.email
  /\ b = [people |-> (s.people \ {p}) \cup {q}, granted |-> Renamed(s.granted, p.name, q.name)]
Authorized(s, p, list, b) ==
  b = [people |-> s.people, granted |-> Others(s.granted, p.name) \cup Bundle(p.name, list)]
Gone(s, p, b) ==
  b = [people |-> s.people \ {p}, granted |-> Others(s.granted, p.name)]

(* One step of the book, or none. *)
Whole(s, b) ==
  \/ b = s
  \/ \E p \in Person, list \in Lists, legacy \in Legacies : Enrolled(s, p, list, legacy, b)
  \/ \E p \in s.people : \/ \E q \in Person : Revised(s, p, q, b)
                         \/ \E list \in Lists : Authorized(s, p, list, b)
                         \/ Gone(s, p, b)

Books == [people : SUBSET Person, granted : SUBSET (Names \X Rights)]

(* A whole change is a step of AccountBook. *)
LEMMA WholeSteps ==
    ASSUME saved \in Books, Whole(saved, saved')
    PROVE  [Book!BookNext]_saved
<1> SUFFICES ASSUME saved' # saved PROVE Book!BookNext
  OBVIOUS
<1>1. CASE \E p \in Person, list \in Lists, legacy \in Legacies : Enrolled(saved, p, list, legacy, saved')
  <2>1. PICK p \in Person, list \in Lists, legacy \in Legacies :
          Enrolled(saved, p, list, legacy, saved')
    BY <1>1
  <2>2. Book!Enrol(p, list, legacy)
    BY <2>1 DEF Enrolled, Bundle, Book!Enrol, Book!KnownNames, Book!KnownEmails
  <2> QED BY <2>2 DEF Person, Book!BookNext
<1>2. CASE \E p \in saved.people, q \in Person : Revised(saved, p, q, saved')
  <2>1. PICK p \in saved.people, q \in Person : Revised(saved, p, q, saved')
    BY <1>2
  <2>2. Book!Edit(p, q)
    BY <2>1 DEF Revised, Renamed, Book!Edit, Book!KnownNames, Book!KnownEmails
  <2> QED BY <2>2 DEF Person, Book!BookNext
<1>3. CASE \E p \in saved.people, list \in Lists : Authorized(saved, p, list, saved')
  <2>1. PICK p \in saved.people, list \in Lists : Authorized(saved, p, list, saved')
    BY <1>3
  <2>2. saved' = [saved EXCEPT !.granted = {g \in @ : g[1] # p.name} \cup ({p.name} \X list)]
    BY <2>1 DEF Authorized, Bundle, Others, Books
  <2>3. Book!Authorize(p, list)
    BY <2>2 DEF Book!Authorize
  <2> QED BY <2>3 DEF Book!BookNext
<1>4. CASE \E p \in saved.people : Gone(saved, p, saved')
  <2>1. PICK p \in saved.people : Gone(saved, p, saved')
    BY <1>4
  <2>2. Book!Leave(p)
    BY <2>1 DEF Gone, Others, Book!Leave
  <2> QED BY <2>2 DEF Book!BookNext
<1> QED BY <1>1, <1>2, <1>3, <1>4 DEF Whole

(* Tables of rows make a book of accounts. *)
LEMMA BookIsBook ==
    ASSUME NEW users, NEW rights, Fit("users", users), Fit("rights", rights)
    PROVE  BookIn(users, rights) \in Books
<1>1. \A i \in DOMAIN users : users[i] \in UserRow
  BY UsersApart
<1>2. rights \in Seq(RightRow)
  BY DEF Fit, Row
<1>3. \A k \in DOMAIN rights : rights[k] \in RightRow
  BY <1>2, ElementOfSeq, LenProperties
<1>4. \A i \in DOMAIN users : PersonOf(users[i]) \in Person
  BY <1>1 DEF PersonOf, Person, Book!Person, UserRow
<1>5. People(users) \subseteq Person
  BY <1>4, InPeople
<1>6. ASSUME NEW g \in Granted(users, rights) PROVE g \in Names \X Rights
  <2>1. PICK i \in DOMAIN users, k \in DOMAIN rights : g = <<users[i].name, rights[k].right>>
    BY InGranted
  <2>2. users[i].name \in Names /\ rights[k].right \in Rights
    BY <1>1, <1>3 DEF UserRow, RightRow
  <2> QED BY <2>1, <2>2
<1> QED BY <1>5, <1>6 DEF BookIn, Books

-----------------------------------------------------------------------------
(* The calls a request has still to make.                                    *)

Checks == {"control", "lookup", "verify", "exists", "limit", "login", "find", "old token",
           "add token", "check token"}
Sets == {"set attributes", "set password", "rehash"}

(* Checks come first, then the calls that change the book, each once.        *)
Rank(verb) ==
  CASE verb \in Checks -> 0
    [] verb = "revoke" -> 1
    [] verb \in Sets \cup {"add user", "drop user"} -> 2
    [] verb = "grant" -> 3
    [] OTHER -> 4

Suits(kind, verb) ==
  /\ kind = "create" => verb \in {"control", "add user", "grant"}
  /\ kind = "register" => verb \in {"limit", "add user", "grant", "die"}
  /\ kind = "authorize" => verb \in {"control", "exists", "revoke", "grant"}
  /\ kind = "remove" => verb \in {"control", "lookup", "revoke", "drop user"}
  /\ kind \notin {"create", "register", "authorize", "remove"} =>
       verb \notin {"add user", "grant", "revoke", "drop user"}

Precedes(v, w) == Rank(v) < Rank(w) \/ (Rank(v) = Rank(w) /\ Rank(v) \in {0, 3})

Orderly(kind, calls) ==
  /\ \A i \in DOMAIN calls : Suits(kind, calls[i][1])
  /\ \A i, k \in DOMAIN calls : i < k => Precedes(calls[i][1], calls[k][1])

PendingIn(calls) == {calls[i][1] : i \in DOMAIN calls}
LeftIn(calls) == {calls[i][2] : i \in {k \in DOMAIN calls : calls[k][1] = "grant"}}

(* The next call, and those after it.                                        *)
LEMMA CallsAfter ==
    ASSUME NEW kind, NEW calls \in Seq(Call), Orderly(kind, calls), calls # <<>>,
           NEW v, v = Head(calls)[1]
    PROVE  /\ Suits(kind, v)
           /\ Orderly(kind, Tail(calls)) /\ Tail(calls) \in Seq(Call)
           /\ PendingIn(calls) = {v} \cup PendingIn(Tail(calls))
           /\ \A w \in PendingIn(Tail(calls)) : Precedes(v, w)
           /\ v # "grant" => LeftIn(calls) = LeftIn(Tail(calls))
           /\ v = "grant" => LeftIn(calls) = {Head(calls)[2]} \cup LeftIn(Tail(calls))
<1> DEFINE rest == Tail(calls)
           n == Len(calls)
<1>1. n \in Nat /\ n > 0 /\ DOMAIN calls = 1 .. n /\ Head(calls) = calls[1]
  BY LenProperties, EmptySeq
<1>2. rest \in Seq(Call) /\ Len(rest) = n - 1 /\ \A k \in 1 .. Len(rest) : rest[k] = calls[k + 1]
  BY HeadTailProperties
<1>3. DOMAIN rest = 1 .. n - 1
  BY <1>2, LenProperties
<1> HIDE DEF rest, n
<1>4. \A k \in DOMAIN rest : k + 1 \in DOMAIN calls /\ 1 < k + 1 /\ rest[k] = calls[k + 1]
  BY <1>1, <1>2, <1>3
<1>5. 1 \in DOMAIN calls /\ \A k \in DOMAIN calls : k = 1 \/ (k - 1 \in DOMAIN rest /\ calls[k] = rest[k - 1])
  <2>1. \A k \in DOMAIN calls : k # 1 => k - 1 \in 1 .. n - 1 /\ (k - 1) + 1 = k
    BY <1>1
  <2> QED BY <1>1, <1>2, <1>3, <2>1
<1>6. Orderly(kind, rest)
  <2>1. \A i, k \in DOMAIN rest : i < k => i + 1 < k + 1
    BY <1>1, <1>3
  <2> QED BY <1>4, <2>1 DEF Orderly
<1>7. PendingIn(calls) = {calls[1][1]} \cup PendingIn(rest)
  <2>1. \A w : w \in PendingIn(calls) <=> \E k \in DOMAIN calls : w = calls[k][1]
    BY DEF PendingIn
  <2>2. \A w : w \in PendingIn(rest) <=> \E k \in DOMAIN rest : w = rest[k][1]
    BY DEF PendingIn
  <2>3. \A w : w \in PendingIn(calls) <=> w \in {calls[1][1]} \cup PendingIn(rest)
    BY <1>4, <1>5, <2>1, <2>2
  <2> QED BY <2>3
<1>8. \A w \in PendingIn(rest) : Precedes(calls[1][1], w)
  BY <1>4, <1>5 DEF PendingIn, Orderly
<1>9. \A w : w \in LeftIn(calls) <=> \E k \in DOMAIN calls : calls[k][1] = "grant" /\ w = calls[k][2]
  BY DEF LeftIn
<1>10. \A w : w \in LeftIn(rest) <=> \E k \in DOMAIN rest : rest[k][1] = "grant" /\ w = rest[k][2]
  BY DEF LeftIn
<1>14. ASSUME NEW w \in LeftIn(rest) PROVE w \in LeftIn(calls)
  <2>1. PICK k \in DOMAIN rest : rest[k][1] = "grant" /\ w = rest[k][2]
    BY <1>10
  <2>2. k + 1 \in DOMAIN calls /\ calls[k + 1] = rest[k]
    BY <1>4
  <2> QED BY <1>9, <2>1, <2>2
<1>15. ASSUME NEW w \in LeftIn(calls)
       PROVE  (calls[1][1] = "grant" /\ w = calls[1][2]) \/ w \in LeftIn(rest)
  <2>1. PICK k \in DOMAIN calls : calls[k][1] = "grant" /\ w = calls[k][2]
    BY <1>9
  <2>2. k = 1 \/ (k - 1 \in DOMAIN rest /\ calls[k] = rest[k - 1])
    BY <1>5
  <2> QED BY <1>10, <2>1, <2>2
<1>11. calls[1][1] # "grant" => LeftIn(calls) = LeftIn(rest)
  BY <1>14, <1>15
<1>12. calls[1][1] = "grant" => LeftIn(calls) = {calls[1][2]} \cup LeftIn(rest)
  BY <1>5, <1>9, <1>14, <1>15
<1>13. Suits(kind, calls[1][1])
  BY <1>5 DEF Orderly
<1> QED BY <1>1, <1>2, <1>6, <1>7, <1>8, <1>11, <1>12, <1>13 DEF rest

(* The stage of each call. *)
LEMMA Ranks ==
  /\ \A v \in Checks : Rank(v) = 0
  /\ Rank("revoke") = 1 /\ \A v \in Sets : Rank(v) = 2
  /\ Rank("add user") = 2 /\ Rank("drop user") = 2 /\ Rank("grant") = 3
  /\ Rank("mail") = 4 /\ Rank("die") = 4 /\ Rank("drop token") = 4
BY DEF Rank, Checks, Sets

LEMMA RankBound == \A v : Rank(v) \in 0 .. 4
BY DEF Rank

Closing == {"mail", "die", "drop token"}

(* What may still be pending, by the next call.                              *)
LEMMA Order ==
    ASSUME NEW kind, NEW calls \in Seq(Call), Orderly(kind, calls), calls # <<>>,
           NEW v, v = Head(calls)[1]
    PROVE  /\ v \in Sets \cup Closing \cup {"revoke", "add user", "drop user", "grant"} =>
                PendingIn(calls) \cap Checks = {}
           /\ v \in Sets \cup Closing \cup {"add user", "drop user", "grant"} => "revoke" \notin PendingIn(calls)
           /\ v = "revoke" => "revoke" \notin PendingIn(Tail(calls))
           /\ v \in Sets \cup {"add user", "drop user"} =>
                PendingIn(Tail(calls)) \cap (Sets \cup {"add user", "drop user"}) = {}
           /\ v \in Closing \cup {"grant"} =>
                PendingIn(calls) \cap (Sets \cup {"add user", "drop user"}) = {}
           /\ v \in Closing => LeftIn(calls) = {}
<1> DEFINE later == PendingIn(Tail(calls))
           change == Sets \cup {"add user", "drop user"}
<1>1. PendingIn(calls) = {v} \cup later /\ \A w \in later : Precedes(v, w)
  BY CallsAfter
<1> HIDE DEF later
<1>2. \A w : Rank(w) \in 0 .. 4
  BY RankBound
<1>3. \A w \in later : /\ Rank(v) \in {1, 2, 3, 4} => Rank(w) \notin {0, 1}
                       /\ Rank(v) \in {2, 3, 4} => Rank(w) # 2
                       /\ Rank(v) # 4
  <2> TAKE w \in later
  <2>1. Rank(v) \in 0 .. 4 /\ Rank(w) \in 0 .. 4
    BY <1>2
  <2>2. Rank(v) < Rank(w) \/ (Rank(v) = Rank(w) /\ Rank(v) \in {0, 3})
    BY <1>1 DEF Precedes
  <2> QED BY <2>1, <2>2
<1>4. \A w \in Checks : Rank(w) = 0
  BY Ranks
<1>5. \A w \in change : Rank(w) = 2
  BY Ranks
<1>6. v \in change => v \notin Checks /\ v # "revoke" /\ v # "grant"
  BY DEF Checks, Sets
<1>7. v \in Closing => v \notin Checks /\ v # "revoke" /\ v # "grant" /\ v \notin change /\ Rank(v) = 4
  BY Ranks DEF Checks, Sets, Closing
<1>8. /\ v = "revoke" => v \notin Checks /\ Rank(v) = 1
      /\ v = "grant" => v \notin Checks /\ v # "revoke" /\ v \notin change /\ Rank(v) = 3
  BY Ranks DEF Checks, Sets
<1>9. v \in change => Rank(v) = 2
  BY <1>5
<1> HIDE DEF change
<1>10. /\ v \in change \cup Closing \cup {"revoke", "grant"} => Rank(v) \in {1, 2, 3, 4}
       /\ v \in change \cup Closing \cup {"grant"} => Rank(v) \in {2, 3, 4}
  BY <1>7, <1>8, <1>9
<1>11. v \in change \cup Closing \cup {"revoke", "grant"} => v \notin Checks /\ later \cap Checks = {}
  <2>1. Rank(v) \in {1, 2, 3, 4} => \A w \in later : w \notin Checks
    BY <1>3, <1>4
  <2>2. v \in change \cup Closing \cup {"revoke", "grant"} => v \notin Checks
    BY <1>6, <1>7, <1>8
  <2> QED BY <1>10, <2>1, <2>2
<1>12. v \in change \cup Closing \cup {"revoke", "grant"} => "revoke" \notin later
  <2>1. Rank("revoke") = 1
    BY Ranks
  <2> QED BY <1>3, <1>10, <2>1
<1>13. v \in change \cup Closing \cup {"grant"} => later \cap change = {}
  <2>1. Rank(v) \in {2, 3, 4} => \A w \in later : w \notin change
    BY <1>3, <1>5
  <2> QED BY <1>10, <2>1
<1>14. v \in Closing => later = {}
  BY <1>3, <1>7
<1>15. v \in Closing => "grant" \notin PendingIn(calls)
  BY <1>1, <1>7, <1>14
<1>16. v \in change \cup Closing \cup {"revoke", "grant"} => PendingIn(calls) \cap Checks = {}
  BY <1>1, <1>11
<1>17. v \in change \cup Closing \cup {"grant"} => "revoke" \notin PendingIn(calls)
  BY <1>1, <1>6, <1>7, <1>8, <1>12
<1>18. v \in Closing \cup {"grant"} => PendingIn(calls) \cap change = {}
  BY <1>1, <1>7, <1>8, <1>13
<1>19. "grant" \notin PendingIn(calls) => LeftIn(calls) = {}
  BY DEF PendingIn, LeftIn
<1> QED BY <1>12, <1>19, <1>13, <1>15, <1>16, <1>17, <1>18 DEF later, change

-----------------------------------------------------------------------------
(* How far a request nobody interferes with has come: what the tables it    *)
(* sees say (b) about the book there was when it began (s).                  *)

Enrolling(id, calls, users, b, s) ==
  /\ "add user" \in PendingIn(calls) => b = s /\ LeftIn(calls) \in Lists
  /\ "add user" \notin PendingIn(calls) =>
       \E i \in DOMAIN users, legacy \in Legacies :
         /\ users[i].id = id
         /\ \E given : /\ Enrolled(s, PersonOf(users[i]), given, legacy, b)
                       /\ given \cup LeftIn(calls) \in Lists

Authorizing(id, calls, users, b, s) ==
  /\ b.people = s.people
  /\ "revoke" \in PendingIn(calls) => LeftIn(calls) \in Lists
  /\ "exists" \in PendingIn(calls) => "revoke" \in PendingIn(calls)
  /\ "exists" \notin PendingIn(calls) =>
       \E i \in DOMAIN users :
         /\ users[i].id = id
         /\ Others(b.granted, users[i].name) = Others(s.granted, users[i].name)
         /\ "revoke" \notin PendingIn(calls) =>
              \E given : /\ Authorized(s, PersonOf(users[i]), given, b)
                         /\ given \cup LeftIn(calls) \in Lists

Removing(id, calls, users, rights, b, s) ==
  /\ "drop user" \in PendingIn(calls) =>
       /\ b.people = s.people
       /\ \E i \in DOMAIN users :
            /\ users[i].id = id
            /\ Others(b.granted, users[i].name) = Others(s.granted, users[i].name)
       /\ "revoke" \notin PendingIn(calls) => Unowned(rights, id)
  /\ "drop user" \notin PendingIn(calls) =>
       /\ "revoke" \notin PendingIn(calls)
       /\ \E p \in s.people : Gone(s, p, b)

Editing(calls, b, s) ==
  /\ PendingIn(calls) \cap Sets # {} => b = s
  /\ b = s \/ \E p \in s.people, q \in Person : Revised(s, p, q, b)

Progress(kind, id, calls, users, rights, s) ==
  LET b == BookIn(users, rights) IN
  /\ calls \in Seq(Call) /\ Orderly(kind, calls)
  /\ Fit("users", users) /\ Fit("rights", rights) /\ s \in Books
  /\ StraysKnown(users, rights)
  /\ PendingIn(calls) \cap Checks # {} => b = s
  /\ kind \in {"create", "register"} => Enrolling(id, calls, users, b, s)
  /\ kind = "authorize" => Authorizing(id, calls, users, b, s)
  /\ kind = "remove" => Removing(id, calls, users, rights, b, s)
  /\ kind \notin {"create", "register", "authorize", "remove"} => Editing(calls, b, s)

(* A check that changes nothing.                                             *)
LEMMA CheckProgress ==
    ASSUME NEW kind, NEW id, NEW calls, NEW users, NEW rights, NEW s,
           Progress(kind, id, calls, users, rights, s), calls # <<>>,
           Head(calls)[1] \in Checks, Head(calls)[1] = "exists" => HasId(users, id),
           NEW id2, id2 = id \/ kind \notin {"create", "register", "authorize", "remove"}
    PROVE  Progress(kind, id2, Tail(calls), users, rights, s)
<1> DEFINE b == BookIn(users, rights)
           v == Head(calls)[1]
           rest == Tail(calls)
<1>1. /\ calls \in Seq(Call) /\ Orderly(kind, calls)
      /\ Fit("users", users) /\ Fit("rights", rights) /\ s \in Books
      /\ StraysKnown(users, rights)
      /\ PendingIn(calls) \cap Checks # {} => b = s
  BY DEF Progress
<1>2. /\ Orderly(kind, rest) /\ rest \in Seq(Call)
      /\ PendingIn(calls) = {v} \cup PendingIn(rest)
      /\ v # "grant" => LeftIn(calls) = LeftIn(rest)
  BY <1>1, CallsAfter
<1>3. v \notin Sets \cup {"grant", "add user", "revoke", "drop user"}
  BY DEF Checks, Sets
<1>4. b = s
  <2>1. v \in Checks
    OBVIOUS
  <2> HIDE DEF b, v, rest
  <2>2. v \in PendingIn(calls) \cap Checks
    BY <1>2, <2>1
  <2> QED BY <1>1, <2>2
<1>5. kind \in {"create", "register"} => Enrolling(id2, rest, users, b, s)
  <2> SUFFICES ASSUME kind \in {"create", "register"} PROVE Enrolling(id, rest, users, b, s)
    OBVIOUS
  <2>1. Enrolling(id, calls, users, b, s)
    BY DEF Progress
  <2> HIDE DEF b, v, rest
  <2> QED BY <1>2, <1>3, <2>1 DEF Enrolling
<1>6. kind = "authorize" => Authorizing(id2, rest, users, b, s)
  <2> SUFFICES ASSUME kind = "authorize" PROVE Authorizing(id, rest, users, b, s)
    OBVIOUS
  <2>1. Authorizing(id, calls, users, b, s)
    BY DEF Progress
  <2>2. v = "exists" => HasId(users, id)
    OBVIOUS
  <2> HIDE DEF b, v, rest
  <2>3. CASE v = "exists"
    <3>1. "revoke" \in PendingIn(rest) /\ LeftIn(rest) \in Lists
      BY <1>2, <1>3, <2>1, <2>3 DEF Authorizing
    <3>2. \E i \in DOMAIN users : users[i].id = id
      BY <2>2, <2>3 DEF HasId
    <3> QED BY <1>4, <3>1, <3>2 DEF Authorizing
  <2>4. CASE v # "exists"
    BY <1>2, <1>3, <2>1, <2>4 DEF Authorizing
  <2> QED BY <2>3, <2>4
<1>7. kind = "remove" => Removing(id2, rest, users, rights, b, s)
  <2> SUFFICES ASSUME kind = "remove" PROVE Removing(id, rest, users, rights, b, s)
    OBVIOUS
  <2>1. Removing(id, calls, users, rights, b, s)
    BY DEF Progress
  <2> HIDE DEF b, v, rest
  <2> QED BY <1>2, <1>3, <2>1 DEF Removing
<1>8. kind \notin {"create", "register", "authorize", "remove"} => Editing(rest, b, s)
  BY <1>4 DEF Editing
<1> QED BY <1>1, <1>2, <1>4, <1>5, <1>6, <1>7, <1>8 DEF Progress

(* The user has no authorizations left.                                      *)
LEMMA RevokedProgress ==
    ASSUME NEW kind, NEW id, NEW calls, NEW users, NEW rights, NEW s,
           Progress(kind, id, calls, users, rights, s), calls # <<>>,
           Head(calls)[1] = "revoke", Unowned(rights, id)
    PROVE  Progress(kind, id, Tail(calls), users, rights, s)
<1> DEFINE b == BookIn(users, rights)
           rest == Tail(calls)
<1>1. /\ calls \in Seq(Call) /\ Orderly(kind, calls)
      /\ Fit("users", users) /\ Fit("rights", rights) /\ s \in Books
      /\ StraysKnown(users, rights)
  BY DEF Progress
<1>2. /\ Orderly(kind, rest) /\ rest \in Seq(Call)
      /\ PendingIn(calls) = {"revoke"} \cup PendingIn(rest)
      /\ LeftIn(calls) = LeftIn(rest) /\ Suits(kind, "revoke")
  BY <1>1, CallsAfter
<1>3. PendingIn(calls) \cap Checks = {} /\ "revoke" \notin PendingIn(rest)
  BY <1>1, Order
<1>4. PendingIn(rest) \cap Checks = {} /\ "exists" \notin PendingIn(calls)
  BY <1>2, <1>3 DEF Checks
<1>5. kind \in {"authorize", "remove"}
  BY <1>2 DEF Suits
<1>6. ASSUME kind = "authorize" PROVE Authorizing(id, rest, users, b, s)
  <2>1. Authorizing(id, calls, users, b, s)
    BY <1>6 DEF Progress
  <2>2. b.people = s.people /\ LeftIn(rest) \in Lists
    BY <1>2, <2>1 DEF Authorizing
  <2>3. PICK i \in DOMAIN users :
          /\ users[i].id = id
          /\ Others(b.granted, users[i].name) = Others(s.granted, users[i].name)
    BY <1>4, <2>1 DEF Authorizing
  <2>4. Others(Granted(users, rights), users[i].name) = Granted(users, rights)
    BY <1>1, <2>3, NothingGranted
  <2>5. b = [people |-> b.people, granted |-> b.granted] /\ b.granted = Granted(users, rights)
    BY DEF BookIn
  <2> HIDE DEF b, rest
  <2>6. b.granted = Others(s.granted, users[i].name)
    BY <2>3, <2>4, <2>5
  <2>7. PersonOf(users[i]).name = users[i].name
    BY DEF PersonOf
  <2>8. Authorized(s, PersonOf(users[i]), {}, b)
    <3>1. Others(s.granted, users[i].name) \cup Bundle(users[i].name, {}) = Others(s.granted, users[i].name)
      BY DEF Bundle
    <3>2. b = [people |-> s.people,
               granted |-> Others(s.granted, users[i].name) \cup Bundle(users[i].name, {})]
      BY <2>2, <2>5, <2>6, <3>1
    <3> QED BY <2>7, <3>2 DEF Authorized
  <2>9. {} \cup LeftIn(rest) \in Lists
    BY <2>2
  <2> QED BY <1>2, <1>3, <1>4, <2>2, <2>3, <2>8, <2>9 DEF Authorizing, Checks
<1>7. ASSUME kind = "remove" PROVE Removing(id, rest, users, rights, b, s)
  <2>1. Removing(id, calls, users, rights, b, s)
    BY <1>7 DEF Progress
  <2>2. "revoke" \in PendingIn(calls) /\ ("drop user" \in PendingIn(rest) <=> "drop user" \in PendingIn(calls))
    BY <1>2
  <2>3. "drop user" \in PendingIn(calls)
    BY <2>1, <2>2 DEF Removing
  <2> HIDE DEF b, rest
  <2> QED BY <2>1, <2>2, <2>3 DEF Removing
<1> QED BY <1>1, <1>2, <1>4, <1>5, <1>6, <1>7 DEF Progress

(* One authorization of the user goes.                                       *)
LEMMA RevokingProgress ==
    ASSUME NEW kind, NEW id, NEW calls, NEW users, NEW rights, NEW s,
           Progress(kind, id, calls, users, rights, s), calls # <<>>,
           Head(calls)[1] = "revoke", NEW k \in DOMAIN rights, rights[k].userId = id
    PROVE  Progress(kind, id, calls, users, RemoveAt(rights, k), s)
<1> DEFINE b == BookIn(users, rights)
           fewer == RemoveAt(rights, k)
           c == BookIn(users, fewer)
<1>1. /\ calls \in Seq(Call) /\ Orderly(kind, calls)
      /\ Fit("users", users) /\ Fit("rights", rights) /\ s \in Books
      /\ StraysKnown(users, rights)
  BY DEF Progress
<1>2. PendingIn(calls) = {"revoke"} \cup PendingIn(Tail(calls)) /\ Suits(kind, "revoke")
  BY <1>1, CallsAfter
<1>3. PendingIn(calls) \cap Checks = {}
  BY <1>1, Order
<1>4. "exists" \notin PendingIn(calls) /\ "revoke" \in PendingIn(calls)
  BY <1>2, <1>3 DEF Checks
<1>5. kind \in {"authorize", "remove"}
  BY <1>2 DEF Suits
<1>6. Fit("rights", fewer)
  BY <1>1, RemovalFits DEF Tables
<1>7. b.people = c.people /\ b.granted = Granted(users, rights) /\ c.granted = Granted(users, fewer)
  BY DEF BookIn
<1>8. ASSUME NEW i \in DOMAIN users, users[i].id = id
      PROVE  Others(c.granted, users[i].name) = Others(b.granted, users[i].name)
  BY <1>1, <1>7, <1>8, RevokeRight
<1>9. ASSUME NEW i \in DOMAIN users, users[i].id = id
      PROVE  StraysKnown(users, fewer)
  <2> SUFFICES ASSUME NEW n \in Nat, ~HasId(users, n)
               PROVE  RightsOf(fewer, n) \in Legacies
    BY DEF StraysKnown
  <2>1. n # rights[k].userId
    BY <1>9 DEF HasId
  <2> QED BY <1>1, <2>1, RightsOfFewer DEF StraysKnown
<1>10. ASSUME kind = "authorize" PROVE Authorizing(id, calls, users, c, s) /\ StraysKnown(users, fewer)
  <2>1. Authorizing(id, calls, users, b, s)
    BY <1>10 DEF Progress
  <2> HIDE DEF b, fewer, c
  <2> QED BY <1>4, <1>7, <1>8, <1>9, <2>1 DEF Authorizing
<1>11. ASSUME kind = "remove"
       PROVE  Removing(id, calls, users, fewer, c, s) /\ StraysKnown(users, fewer)
  <2>1. Removing(id, calls, users, rights, b, s)
    BY <1>11 DEF Progress
  <2>2. "drop user" \in PendingIn(calls)
    BY <1>4, <2>1 DEF Removing
  <2> HIDE DEF b, fewer, c
  <2> QED BY <1>4, <1>7, <1>8, <1>9, <2>1, <2>2 DEF Removing
<1> QED BY <1>1, <1>3, <1>5, <1>6, <1>10, <1>11 DEF Progress

(* A new user, with what the tables have for his id.                         *)
LEMMA AddUserProgress ==
    ASSUME NEW kind, NEW id, NEW calls, NEW users, NEW rights, NEW s,
           Progress(kind, id, calls, users, rights, s), calls # <<>>,
           Head(calls)[1] = "add user",
           NEW row \in UserRow, row.id = NextId(users),
           ~HasName(users, row.name), ~HasEmail(users, row.email)
    PROVE  Progress(kind, row.id, Tail(calls), Append(users, row), rights, s)
<1> DEFINE b == BookIn(users, rights)
           more == Append(users, row)
           c == BookIn(more, rights)
           rest == Tail(calls)
           p == PersonOf(row)
           legacy == RightsOf(rights, row.id)
<1>1. /\ calls \in Seq(Call) /\ Orderly(kind, calls)
      /\ Fit("users", users) /\ Fit("rights", rights) /\ s \in Books
      /\ StraysKnown(users, rights)
  BY DEF Progress
<1>2. /\ Orderly(kind, rest) /\ rest \in Seq(Call)
      /\ PendingIn(calls) = {"add user"} \cup PendingIn(rest)
      /\ LeftIn(calls) = LeftIn(rest) /\ Suits(kind, "add user")
  BY <1>1, CallsAfter
<1>3. PendingIn(calls) \cap Checks = {} /\ "add user" \notin PendingIn(rest)
  BY <1>1, Order
<1>4. kind \in {"create", "register"}
  BY <1>2 DEF Suits
<1>5. b = s /\ LeftIn(rest) \in Lists
  BY <1>2, <1>4 DEF Progress, Enrolling
<1>6. Fit("users", more)
  BY <1>1, AdditionFits DEF Tables, Row
<1>7. Joined(users, rights, row, more)
  <2>1. users \in Seq(UserRow)
    BY <1>1, UsersApart
  <2> QED BY <2>1, AddPerson
<1> HIDE DEF more, legacy, p
<1>8. row.id \in Nat /\ ~HasId(users, row.id)
  <2>1. PICK n \in DOMAIN more : more[n] = row /\ n \notin DOMAIN users
    BY <1>7 DEF Joined
  <2>2. \A i \in DOMAIN more : more[i].id = more[n].id => i = n
    BY <1>6, <2>1, UsersApart
  <2>3. \A i \in DOMAIN users : users[i].id # row.id
    BY <1>7, <2>1, <2>2 DEF Joined
  <2> QED BY <2>3 DEF HasId, UserRow
<1>9. legacy \in Legacies
  BY <1>1, <1>8 DEF StraysKnown, legacy
<1>10. /\ People(more) = People(users) \cup {p}
       /\ Granted(more, rights) = Granted(users, rights) \cup Bundle(row.name, legacy)
  BY <1>7 DEF Joined, p, legacy
<1>11. p \in Person /\ p.name = row.name /\ p.email = row.email
  BY DEF p, PersonOf, Person, Book!Person, UserRow
<1>12. ASSUME NEW q \in s.people
       PROVE  q.name # p.name /\ q.email # p.email
  <2>1. q \in People(users)
    BY <1>5 DEF BookIn
  <2>2. PICK i \in DOMAIN users : q = PersonOf(users[i])
    BY <2>1, InPeople
  <2>3. q.name = users[i].name /\ q.email = users[i].email
    BY <2>2 DEF PersonOf
  <2> QED BY <1>11, <2>3 DEF HasName, HasEmail
<1>13. Enrolled(s, p, {}, legacy, c)
  <2>1. c = [people |-> s.people \cup {p}, granted |-> s.granted \cup Bundle(row.name, legacy)]
    BY <1>5, <1>10 DEF BookIn
  <2>2. {} \cup legacy = legacy
    OBVIOUS
  <2> HIDE DEF c, b
  <2> QED BY <1>11, <1>12, <2>1, <2>2 DEF Enrolled
<1>14. Enrolling(row.id, rest, more, c, s)
  <2>1. PICK n \in DOMAIN more : more[n].id = row.id /\ PersonOf(more[n]) = p
    BY <1>7 DEF Joined, p
  <2>2. {} \cup LeftIn(rest) \in Lists
    BY <1>5
  <2> HIDE DEF c, b, rest
  <2> QED BY <1>3, <1>9, <1>13, <2>1, <2>2 DEF Enrolling
<1>15. StraysKnown(more, rights)
  <2>1. \A m : ~HasId(more, m) => ~HasId(users, m)
    BY <1>7 DEF HasId, Joined
  <2> QED BY <1>1, <2>1 DEF StraysKnown
<1>16. PendingIn(rest) \cap Checks = {}
  BY <1>2, <1>3
<1> QED BY <1>1, <1>2, <1>4, <1>6, <1>14, <1>15, <1>16 DEF Progress, more

(* A user changes, but for his id.                                           *)
LEMMA SetUserProgress ==
    ASSUME NEW kind, NEW id, NEW calls, NEW users, NEW rights, NEW s,
           Progress(kind, id, calls, users, rights, s), calls # <<>>,
           Head(calls)[1] \in Sets,
           NEW i \in DOMAIN users, NEW row \in UserRow,
           row.id = users[i].id,
           row.name = users[i].name \/ ~HasName(users, row.name),
           row.email = users[i].email \/ ~HasEmail(users, row.email)
    PROVE  Progress(kind, id, Tail(calls), [users EXCEPT ![i] = row], rights, s)
<1> DEFINE b == BookIn(users, rights)
           new == [users EXCEPT ![i] = row]
           c == BookIn(new, rights)
           rest == Tail(calls)
           p == PersonOf(users[i])
           q == PersonOf(row)
           v == Head(calls)[1]
<1>1. /\ calls \in Seq(Call) /\ Orderly(kind, calls)
      /\ Fit("users", users) /\ Fit("rights", rights) /\ s \in Books
      /\ StraysKnown(users, rights)
  BY DEF Progress
<1>2. /\ Orderly(kind, rest) /\ rest \in Seq(Call)
      /\ PendingIn(calls) = {v} \cup PendingIn(rest)
      /\ Suits(kind, v)
  BY <1>1, CallsAfter
<1>3. PendingIn(calls) \cap Checks = {} /\ PendingIn(rest) \cap Sets = {}
  BY <1>1, Order
<1>4. kind \notin {"create", "register", "authorize", "remove"}
  <2>1. v \in Sets
    OBVIOUS
  <2> HIDE DEF v
  <2> QED BY <1>2, <2>1 DEF Suits, Sets
<1>5. b = s
  <2>1. v \in PendingIn(calls) \cap Sets
    BY <1>2
  <2> QED BY <1>4, <2>1 DEF Progress, Editing
<1>6. Fit("users", new) /\ DOMAIN new = DOMAIN users
  BY <1>1, EditionFits
<1>7. new[i] = row /\ \A k \in DOMAIN users : k # i => new[k] = users[k]
  <2>1. users \in Seq(UserRow) /\ DOMAIN users = 1 .. Len(users)
    BY <1>1, UsersApart
  <2> QED BY <2>1
<1> HIDE DEF new
<1>8. /\ People(new) = (People(users) \ {p}) \cup {q}
      /\ Granted(new, rights) = Renamed(Granted(users, rights), users[i].name, row.name)
  BY <1>1, <1>6, <1>7, ChangePerson
<1>9. /\ q \in Person /\ q.name = row.name /\ p.name = users[i].name
      /\ q.email = row.email /\ p.email = users[i].email
  BY DEF PersonOf, Person, Book!Person, UserRow
<1>10. p \in s.people
  BY <1>5, InPeople DEF BookIn
<1>11. /\ q.name = p.name \/ \A x \in s.people : x.name # q.name
       /\ q.email = p.email \/ \A x \in s.people : x.email # q.email
  <2>1. ASSUME NEW x \in s.people
        PROVE  \E k \in DOMAIN users : x.name = users[k].name /\ x.email = users[k].email
    <3>1. x \in People(users)
      BY <1>5 DEF BookIn
    <3>2. PICK k \in DOMAIN users : x = PersonOf(users[k])
      BY <3>1, InPeople
    <3> QED BY <3>2 DEF PersonOf
  <2> HIDE DEF p, q
  <2> QED BY <1>9, <2>1 DEF HasName, HasEmail
<1>12. Revised(s, p, q, c)
  <2>1. c = [people |-> (s.people \ {p}) \cup {q}, granted |-> Renamed(s.granted, p.name, q.name)]
    BY <1>5, <1>8, <1>9 DEF BookIn
  <2> HIDE DEF c, b, p, q
  <2> QED BY <1>9, <1>10, <1>11, <2>1 DEF Revised
<1>13. Editing(rest, c, s)
  BY <1>3, <1>9, <1>10, <1>12 DEF Editing
<1>14. StraysKnown(new, rights)
  <2>1. \A m : ~HasId(new, m) => ~HasId(users, m)
    BY <1>6, <1>7 DEF HasId
  <2> QED BY <1>1, <2>1 DEF StraysKnown
<1>15. PendingIn(rest) \cap Checks = {}
  BY <1>2, <1>3
<1> QED BY <1>1, <1>2, <1>4, <1>6, <1>13, <1>14, <1>15 DEF Progress, new

(* The user goes, when nothing is left that was granted to him.              *)
LEMMA DropUserProgress ==
    ASSUME NEW kind, NEW id, NEW calls, NEW users, NEW rights, NEW s,
           Progress(kind, id, calls, users, rights, s), calls # <<>>,
           Head(calls)[1] = "drop user", NEW i \in DOMAIN users, users[i].id = id
    PROVE  Progress(kind, id, Tail(calls), RemoveAt(users, i), rights, s)
<1> DEFINE b == BookIn(users, rights)
           left == RemoveAt(users, i)
           c == BookIn(left, rights)
           rest == Tail(calls)
           p == PersonOf(users[i])
<1>1. /\ calls \in Seq(Call) /\ Orderly(kind, calls)
      /\ Fit("users", users) /\ Fit("rights", rights) /\ s \in Books
      /\ StraysKnown(users, rights)
  BY DEF Progress
<1>2. /\ Orderly(kind, rest) /\ rest \in Seq(Call)
      /\ PendingIn(calls) = {"drop user"} \cup PendingIn(rest)
      /\ Suits(kind, "drop user")
  BY <1>1, CallsAfter
<1>3. PendingIn(calls) \cap Checks = {} /\ "revoke" \notin PendingIn(calls)
      /\ "drop user" \notin PendingIn(rest)
  BY <1>1, Order
<1>4. kind = "remove"
  BY <1>2 DEF Suits
<1>5. Removing(id, calls, users, rights, b, s)
  BY <1>4 DEF Progress
<1>6. b.people = s.people /\ Unowned(rights, id)
  BY <1>2, <1>3, <1>5 DEF Removing
<1>7. Others(b.granted, users[i].name) = Others(s.granted, users[i].name)
  <2>1. PICK j \in DOMAIN users :
          /\ users[j].id = id
          /\ Others(b.granted, users[j].name) = Others(s.granted, users[j].name)
    BY <1>2, <1>5 DEF Removing
  <2>2. j = i
    BY <1>1, <2>1, UsersApart
  <2> QED BY <2>1, <2>2
<1>8. Others(Granted(users, rights), users[i].name) = Granted(users, rights)
  BY <1>1, <1>6, NothingGranted
<1>9. People(left) = People(users) \ {p} /\ Granted(left, rights) = Granted(users, rights)
  BY <1>1, <1>6, DropPerson
<1>10. Fit("users", left)
  BY <1>1, RemovalFits DEF Tables
<1>11. p \in s.people /\ p.name = users[i].name
  <2>1. p \in People(users)
    BY InPeople
  <2> QED BY <1>6, <2>1 DEF BookIn, PersonOf
<1>12. Gone(s, p, c)
  <2>1. b.people = People(users) /\ b.granted = Granted(users, rights)
    BY DEF BookIn
  <2>2. c = [people |-> People(left), granted |-> Granted(left, rights)]
    BY DEF BookIn
  <2> HIDE DEF b, c, p, left
  <2>3. People(left) = s.people \ {p}
    BY <1>6, <1>9, <2>1
  <2>4. Granted(left, rights) = Others(s.granted, p.name)
    BY <1>7, <1>8, <1>9, <1>11, <2>1
  <2> QED BY <2>2, <2>3, <2>4 DEF Gone
<1>13. Removing(id, rest, left, rights, c, s)
  <2> HIDE DEF b, c, p, left, rest
  <2> QED BY <1>2, <1>3, <1>11, <1>12 DEF Removing
<1>14. StraysKnown(left, rights)
  <2> SUFFICES ASSUME NEW n \in Nat, ~HasId(left, n) PROVE RightsOf(rights, n) \in Legacies
    BY DEF StraysKnown
  <2>1. CASE HasId(users, n)
    <3>1. PICK k \in DOMAIN users : users[k].id = n
      BY <2>1 DEF HasId
    <3>2. k # i => \E j \in DOMAIN left : left[j] = users[k]
      BY <1>1, RemainingRows DEF Tables
    <3>3. k = i
      BY <3>1, <3>2 DEF HasId
    <3> QED BY <1>6, <3>1, <3>3, NoRights
  <2>2. CASE ~HasId(users, n)
    BY <1>1, <2>2 DEF StraysKnown
  <2> QED BY <2>1, <2>2
<1>15. PendingIn(rest) \cap Checks = {}
  BY <1>2, <1>3
<1> QED BY <1>1, <1>2, <1>4, <1>10, <1>13, <1>14, <1>15 DEF Progress

(* One more authorization of the list.                                       *)
LEMMA GrantProgress ==
    ASSUME NEW kind, NEW id, NEW calls, NEW users, NEW rights, NEW s,
           Progress(kind, id, calls, users, rights, s), calls # <<>>,
           Head(calls)[1] = "grant",
           NEW row \in RightRow, row.id = NextId(rights), row.userId = id, row.right = Head(calls)[2]
    PROVE  Progress(kind, id, Tail(calls), users, Append(rights, row), s)
<1> DEFINE b == BookIn(users, rights)
           more == Append(rights, row)
           c == BookIn(users, more)
           rest == Tail(calls)
           right == Head(calls)[2]
<1>1. /\ calls \in Seq(Call) /\ Orderly(kind, calls)
      /\ Fit("users", users) /\ Fit("rights", rights) /\ s \in Books
      /\ StraysKnown(users, rights)
  BY DEF Progress
<1>2. /\ Orderly(kind, rest) /\ rest \in Seq(Call)
      /\ PendingIn(calls) = {"grant"} \cup PendingIn(rest)
      /\ LeftIn(calls) = {right} \cup LeftIn(rest) /\ Suits(kind, "grant")
  BY <1>1, CallsAfter
<1>3. /\ PendingIn(calls) \cap Checks = {} /\ "revoke" \notin PendingIn(calls)
      /\ PendingIn(calls) \cap (Sets \cup {"add user", "drop user"}) = {}
  BY <1>1, Order
<1>4. kind \in {"create", "register", "authorize"}
  BY <1>2 DEF Suits
<1>5. PendingIn(rest) \cap Checks = {} /\ "revoke" \notin PendingIn(rest) /\ "add user" \notin PendingIn(rest)
      /\ "exists" \notin PendingIn(calls) /\ "exists" \notin PendingIn(rest)
  BY <1>2, <1>3 DEF Checks
<1>6. rights \in Seq(RightRow)
  BY <1>1 DEF Fit, Row
<1>7. Fit("rights", more)
  BY <1>1, <1>6, AdditionFits DEF Tables, Row
<1>8. ASSUME NEW i \in DOMAIN users, users[i].id = id
      PROVE  /\ c.people = b.people
             /\ c.granted = b.granted \cup {<<users[i].name, right>>}
             /\ StraysKnown(users, more)
  <2>1. c.people = b.people
    BY DEF BookIn
  <2>2. Granted(users, more) = Granted(users, rights) \cup {<<users[i].name, row.right>>}
    BY <1>1, <1>6, <1>8, GrantRight
  <2>3. c.granted = b.granted \cup {<<users[i].name, right>>}
    BY <2>2 DEF BookIn
  <2>4. ASSUME NEW n \in Nat, ~HasId(users, n) PROVE RightsOf(more, n) \in Legacies
    <3>1. n # row.userId
      BY <1>8, <2>4 DEF HasId
    <3>2. RightsOf(more, n) = RightsOf(rights, n)
      BY <1>6, <3>1, RightsOfMore
    <3> QED BY <1>1, <2>4, <3>2 DEF StraysKnown
  <2> QED BY <2>1, <2>3, <2>4 DEF StraysKnown
<1>9. c = [people |-> c.people, granted |-> c.granted]
  BY DEF BookIn
<1> HIDE DEF b, c, more, rest, right
<1>10. ASSUME kind \in {"create", "register"}
       PROVE  Enrolling(id, rest, users, c, s) /\ StraysKnown(users, more)
  <2>1. Enrolling(id, calls, users, b, s)
    BY <1>10 DEF Progress, b
  <2>2. PICK i \in DOMAIN users, legacy \in Legacies :
          /\ users[i].id = id
          /\ \E given : /\ Enrolled(s, PersonOf(users[i]), given, legacy, b)
                        /\ given \cup LeftIn(calls) \in Lists
    BY <1>3, <2>1 DEF Enrolling
  <2>3. PICK given : /\ users[i].id = id
                     /\ Enrolled(s, PersonOf(users[i]), given, legacy, b)
                     /\ given \cup LeftIn(calls) \in Lists
    BY <2>2
  <2>4. /\ c.people = b.people /\ StraysKnown(users, more)
        /\ c.granted = b.granted \cup {<<users[i].name, right>>}
    BY <1>8, <2>3
  <2>5. Enrolled(s, PersonOf(users[i]), given \cup {right}, legacy, c)
    <3>1. b.people = s.people \cup {PersonOf(users[i])}
          /\ b.granted = s.granted \cup Bundle(PersonOf(users[i]).name, given \cup legacy)
      BY <2>3 DEF Enrolled
    <3>2. PersonOf(users[i]).name = users[i].name
      BY DEF PersonOf
    <3>3. Bundle(users[i].name, given \cup legacy) \cup {<<users[i].name, right>>}
            = Bundle(users[i].name, (given \cup {right}) \cup legacy)
      BY DEF Bundle
    <3>4. c.granted = s.granted \cup Bundle(PersonOf(users[i]).name, (given \cup {right}) \cup legacy)
      BY <2>4, <3>1, <3>2, <3>3
    <3> QED BY <1>9, <2>3, <2>4, <3>1, <3>4 DEF Enrolled
  <2>6. (given \cup {right}) \cup LeftIn(rest) = given \cup LeftIn(calls)
    BY <1>2
  <2> QED BY <1>5, <2>3, <2>4, <2>5, <2>6 DEF Enrolling
<1>11. ASSUME kind = "authorize"
       PROVE  Authorizing(id, rest, users, c, s) /\ StraysKnown(users, more)
  <2>1. Authorizing(id, calls, users, b, s)
    BY <1>11 DEF Progress, b
  <2>2. PICK i \in DOMAIN users :
          /\ users[i].id = id
          /\ Others(b.granted, users[i].name) = Others(s.granted, users[i].name)
          /\ \E given : /\ Authorized(s, PersonOf(users[i]), given, b)
                        /\ given \cup LeftIn(calls) \in Lists
    BY <1>3, <1>5, <2>1 DEF Authorizing
  <2>3. PICK given : Authorized(s, PersonOf(users[i]), given, b) /\ given \cup LeftIn(calls) \in Lists
    BY <2>2
  <2>4. /\ c.people = b.people /\ StraysKnown(users, more)
        /\ c.granted = b.granted \cup {<<users[i].name, right>>}
    BY <1>8, <2>2
  <2>5. Authorized(s, PersonOf(users[i]), given \cup {right}, c)
    <3>1. b.people = s.people
          /\ b.granted = Others(s.granted, PersonOf(users[i]).name) \cup Bundle(PersonOf(users[i]).name, given)
      BY <2>3 DEF Authorized
    <3>2. PersonOf(users[i]).name = users[i].name
      BY DEF PersonOf
    <3>3. Bundle(users[i].name, given) \cup {<<users[i].name, right>>}
            = Bundle(users[i].name, given \cup {right})
      BY DEF Bundle
    <3>4. c.granted = Others(s.granted, PersonOf(users[i]).name)
                        \cup Bundle(PersonOf(users[i]).name, given \cup {right})
      BY <2>4, <3>1, <3>2, <3>3
    <3> QED BY <1>9, <2>4, <3>1, <3>4 DEF Authorized
  <2>6. Others(c.granted, users[i].name) = Others(b.granted, users[i].name)
    BY <2>4 DEF Others
  <2>7. (given \cup {right}) \cup LeftIn(rest) \in Lists
    <3>1. (given \cup {right}) \cup LeftIn(rest) = given \cup LeftIn(calls)
      BY <1>2
    <3> QED BY <2>3, <3>1
  <2>8. c.people = s.people
    BY <2>1, <2>4 DEF Authorizing
  <2> QED BY <1>5, <2>2, <2>4, <2>5, <2>6, <2>7, <2>8 DEF Authorizing
<1> QED BY <1>1, <1>2, <1>4, <1>5, <1>7, <1>10, <1>11 DEF Progress, c, more, rest

(* The token is all that is left to drop. *)
LEMMA TokenPlan ==
    ASSUME NEW kind, kind \notin {"create", "register", "authorize", "remove"}
    PROVE  /\ <<Do("drop token")>> \in Seq(Call) /\ Orderly(kind, <<Do("drop token")>>)
           /\ PendingIn(<<Do("drop token")>>) = {"drop token"}
<1> DEFINE calls == <<Do("drop token")>>
<1>1. Do("drop token") \in Call /\ Do("drop token")[1] = "drop token"
  BY DoIsCall DEF Verbs
<1>2. calls \in Seq(Call)
  <2>1. \A c \in Call : <<c>> \in Seq(Call)
    OBVIOUS
  <2> QED BY <1>1, <2>1
<1>3. DOMAIN calls = {1} /\ calls[1] = Do("drop token")
  BY Single
<1> HIDE DEF calls
<1>4. PendingIn(calls) = {"drop token"}
  BY <1>1, <1>3 DEF PendingIn
<1>5. \A i, k \in DOMAIN calls : ~(i < k)
  <2>1. \A i \in DOMAIN calls : i = 1
    BY <1>3
  <2>2. ~(1 < 1)
    OBVIOUS
  <2> QED BY <2>1, <2>2
<1>6. \A i \in DOMAIN calls : Suits(kind, calls[i][1])
  BY <1>1, <1>3 DEF Suits
<1> QED BY <1>2, <1>4, <1>5, <1>6 DEF calls, Orderly

(* What comes last leaves the users and their authorizations alone.          *)
LEMMA LateProgress ==
    ASSUME NEW kind, NEW id, NEW calls, NEW users, NEW rights, NEW s,
           Progress(kind, id, calls, users, rights, s), calls # <<>>,
           Head(calls)[1] \in {"mail", "drop token"},
           NEW next, next = Tail(calls) \/ next = <<Do("drop token")>>
    PROVE  Progress(kind, id, next, users, rights, s)
<1> DEFINE b == BookIn(users, rights)
           v == Head(calls)[1]
<1>1. /\ calls \in Seq(Call) /\ Orderly(kind, calls)
      /\ Fit("users", users) /\ Fit("rights", rights) /\ s \in Books
      /\ StraysKnown(users, rights)
  BY DEF Progress
<1>2. /\ Orderly(kind, Tail(calls)) /\ Tail(calls) \in Seq(Call)
      /\ PendingIn(calls) = {v} \cup PendingIn(Tail(calls))
      /\ Suits(kind, v)
  BY <1>1, CallsAfter
<1>3. PendingIn(calls) \cap Checks = {} /\ PendingIn(calls) \cap Sets = {}
  <2>1. v \in Closing
    BY DEF Closing
  <2> QED BY <1>1, <2>1, Order
<1>4. kind \notin {"create", "register", "authorize", "remove"}
  BY <1>2 DEF Suits
<1>5. Editing(calls, b, s)
  BY <1>4 DEF Progress
<1>6. CASE next = Tail(calls)
  <2>1. PendingIn(next) \cap Checks = {} /\ PendingIn(next) \cap Sets = {}
    BY <1>2, <1>3, <1>6
  <2>2. Editing(next, b, s)
    BY <1>5, <2>1 DEF Editing
  <2> QED BY <1>1, <1>2, <1>4, <1>6, <2>1, <2>2 DEF Progress
<1>7. CASE next = <<Do("drop token")>>
  <2>1. next \in Seq(Call) /\ Orderly(kind, next) /\ PendingIn(next) = {"drop token"}
    BY <1>4, <1>7, TokenPlan
  <2>2. PendingIn(next) \cap Checks = {} /\ PendingIn(next) \cap Sets = {}
    BY <2>1 DEF Checks, Sets
  <2>3. Editing(next, b, s)
    BY <1>5, <2>2 DEF Editing
  <2> QED BY <1>1, <1>4, <2>1, <2>2, <2>3 DEF Progress
<1> QED BY <1>6, <1>7

(* Wherever a request ends, the book has changed in one step, or not at all. *)
LEMMA EndWhole ==
    ASSUME NEW kind, NEW id, NEW calls, NEW users, NEW rights, NEW s,
           Progress(kind, id, calls, users, rights, s),
           calls # <<>> =>
             \/ Head(calls)[1] \in Checks \cup Sets \cup Closing \cup {"add user"}
             \/ Head(calls)[1] = "drop user" /\ ~HasId(users, id)
    PROVE  Whole(s, BookIn(users, rights))
<1> DEFINE b == BookIn(users, rights)
           pending == PendingIn(calls)
<1>1. calls \in Seq(Call) /\ Orderly(kind, calls)
  BY DEF Progress
<1>2. CASE kind \notin {"create", "register", "authorize", "remove"}
  BY <1>2 DEF Progress, Editing, Whole
<1>3. CASE pending \cap Checks # {}
  BY <1>3 DEF Progress, Whole
<1>4. ASSUME LeftIn(calls) = {}, pending \cap {"exists", "revoke", "add user", "drop user"} = {},
             kind \in {"create", "register", "authorize", "remove"}
      PROVE  Whole(s, b)
  <2>1. CASE kind \in {"create", "register"}
    <3>1. Enrolling(id, calls, users, b, s)
      BY <2>1 DEF Progress
    <3> HIDE DEF b, pending
    <3>5. PICK i \in DOMAIN users, legacy \in Legacies :
            \E given : /\ Enrolled(s, PersonOf(users[i]), given, legacy, b)
                       /\ given \cup LeftIn(calls) \in Lists
      BY <1>4, <3>1 DEF Enrolling, pending
    <3>2. PICK given : /\ Enrolled(s, PersonOf(users[i]), given, legacy, b)
                       /\ given \cup LeftIn(calls) \in Lists
      BY <3>5
    <3>3. given \in Lists
      <4>1. given \cup LeftIn(calls) = given
        BY <1>4
      <4> QED BY <3>2, <4>1
    <3>4. PersonOf(users[i]) \in Person
      BY <3>2 DEF Enrolled
    <3> QED BY <3>2, <3>3, <3>4 DEF Whole
  <2>2. CASE kind = "authorize"
    <3>1. Authorizing(id, calls, users, b, s)
      BY <2>2 DEF Progress
    <3>2. b.people = People(users)
      BY DEF BookIn
    <3> HIDE DEF b, pending
    <3>6. PICK i \in DOMAIN users :
            \E given : /\ Authorized(s, PersonOf(users[i]), given, b)
                       /\ given \cup LeftIn(calls) \in Lists
      BY <1>4, <3>1 DEF Authorizing, pending
    <3>3. PICK given : /\ Authorized(s, PersonOf(users[i]), given, b)
                       /\ given \cup LeftIn(calls) \in Lists
      BY <3>6
    <3>4. given \in Lists
      <4>1. given \cup LeftIn(calls) = given
        BY <1>4
      <4> QED BY <3>3, <4>1
    <3>5. PersonOf(users[i]) \in s.people
      <4>1. PersonOf(users[i]) \in People(users)
        BY InPeople
      <4> QED BY <3>1, <3>2, <4>1 DEF Authorizing
    <3> QED BY <3>3, <3>4, <3>5 DEF Whole
  <2>3. CASE kind = "remove"
    <3>1. Removing(id, calls, users, rights, b, s)
      BY <2>3 DEF Progress
    <3> HIDE DEF b, pending
    <3> QED BY <1>4, <3>1 DEF Removing, Whole, pending
  <2> QED BY <1>4, <2>1, <2>2, <2>3
<1>5. CASE calls = <<>>
  <2>1. pending = {} /\ LeftIn(calls) = {}
    BY <1>5 DEF PendingIn, LeftIn
  <2> QED BY <1>2, <1>4, <2>1
<1>6. CASE calls # <<>>
  <2> DEFINE v == Head(calls)[1]
  <2>1. Suits(kind, v) /\ pending = {v} \cup PendingIn(Tail(calls))
    BY <1>1, <1>6, CallsAfter
  <2>2. CASE v \in Checks
    <3> HIDE DEF pending, v
    <3>1. v \in pending \cap Checks
      BY <2>1, <2>2
    <3> QED BY <1>3, <3>1
  <2>3. CASE v \in Sets
    <3>1. kind \notin {"create", "register", "authorize", "remove"}
      <4> HIDE DEF v
      <4> QED BY <2>1, <2>3 DEF Suits, Sets
    <3> QED BY <1>2, <3>1
  <2>4. CASE v \in Closing
    <3>1. /\ LeftIn(calls) = {} /\ pending \cap Checks = {} /\ "revoke" \notin pending
          /\ pending \cap (Sets \cup {"add user", "drop user"}) = {}
      BY <1>1, <1>6, <2>4, Order
    <3>2. "exists" \in Checks
      BY DEF Checks
    <3>3. pending \cap {"exists", "revoke", "add user", "drop user"} = {}
      BY <3>1, <3>2
    <3> QED BY <1>2, <1>4, <3>1, <3>3
  <2>5. CASE v = "add user"
    <3>1. kind \in {"create", "register"} \/ kind \notin {"create", "register", "authorize", "remove"}
      BY <2>1, <2>5 DEF Suits
    <3>2. ASSUME kind \in {"create", "register"} PROVE b = s
      <4>1. Enrolling(id, calls, users, b, s)
        BY <3>2 DEF Progress
      <4>2. "add user" \in pending
        BY <2>1, <2>5
      <4> QED BY <4>1, <4>2 DEF Enrolling
    <3> QED BY <1>2, <3>1, <3>2 DEF Whole
  <2>6. CASE v = "drop user" /\ ~HasId(users, id)
    <3>1. CASE kind = "remove"
      <4>1. Removing(id, calls, users, rights, b, s)
        BY <3>1 DEF Progress
      <4>2. "drop user" \in pending
        BY <2>1, <2>6
      <4> QED BY <2>6, <4>1, <4>2 DEF Removing, HasId
    <3>2. kind = "remove" \/ kind \notin {"create", "register", "authorize", "remove"}
      BY <2>1, <2>6 DEF Suits
    <3> QED BY <1>2, <3>1, <3>2
  <2> QED BY <1>6, <2>2, <2>3, <2>4, <2>5, <2>6
<1> QED BY <1>5, <1>6

-----------------------------------------------------------------------------
(* What a controller plans when nothing else runs.                           *)

Plan(kind, id, calls, users) ==
  /\ calls \in Seq(Call) /\ Orderly(kind, calls)
  /\ kind \in {"create", "register"} => "add user" \in PendingIn(calls) /\ LeftIn(calls) \in Lists
  /\ kind = "authorize" =>
       "exists" \in PendingIn(calls) /\ "revoke" \in PendingIn(calls) /\ LeftIn(calls) \in Lists
  /\ kind = "remove" =>
       /\ "drop user" \in PendingIn(calls) /\ "revoke" \in PendingIn(calls)
       /\ \E i \in DOMAIN users : users[i].id = id

(* A plan that has not begun has the progress of one that changed nothing. *)
LEMMA PlanProgress ==
    ASSUME NEW kind, NEW id, NEW calls, NEW users, NEW rights, Plan(kind, id, calls, users),
           Fit("users", users), Fit("rights", rights), StraysKnown(users, rights)
    PROVE  Progress(kind, id, calls, users, rights, BookIn(users, rights))
<1> DEFINE b == BookIn(users, rights)
<1>1. b \in Books
  BY BookIsBook
<1> HIDE DEF b
<1>2. kind \in {"create", "register"} => Enrolling(id, calls, users, b, b)
  BY DEF Plan, Enrolling
<1>3. kind = "authorize" => Authorizing(id, calls, users, b, b)
  BY DEF Plan, Authorizing
<1>4. kind = "remove" => Removing(id, calls, users, rights, b, b)
  BY DEF Plan, Removing
<1>5. Editing(calls, b, b)
  BY DEF Editing
<1> QED BY <1>1, <1>2, <1>3, <1>4, <1>5 DEF Progress, Plan, b

(* Plans of two to four calls. *)
LEMMA ShortOrder ==
    ASSUME NEW kind, NEW u, NEW v, NEW w, NEW x,
           Suits(kind, u), Suits(kind, v), Suits(kind, w), Suits(kind, x),
           Precedes(u, v), Precedes(u, w), Precedes(u, x), Precedes(v, w), Precedes(v, x), Precedes(w, x)
    PROVE  /\ Orderly(kind, <<Do(u), Do(v), Do(w), Do(x)>>)
           /\ PendingIn(<<Do(u), Do(v), Do(w), Do(x)>>) = {u, v, w, x}
<1> DEFINE calls == <<Do(u), Do(v), Do(w), Do(x)>>
<1>1. DOMAIN calls = {1, 2, 3, 4} /\ calls[1][1] = u /\ calls[2][1] = v
      /\ calls[3][1] = w /\ calls[4][1] = x
  BY DEF Do
<1> HIDE DEF calls
<1>2. \A i, k \in DOMAIN calls : i < k => Precedes(calls[i][1], calls[k][1])
  BY <1>1
<1>3. \A i \in DOMAIN calls : Suits(kind, calls[i][1])
  BY <1>1
<1>4. PendingIn(calls) = {u, v, w, x}
  BY <1>1 DEF PendingIn
<1> QED BY <1>2, <1>3, <1>4 DEF calls, Orderly

(* Short plans whose calls come in the order of their stages. *)
LEMMA ThreeInOrder ==
    ASSUME NEW kind, NEW u, NEW v, NEW w, Suits(kind, u), Suits(kind, v), Suits(kind, w),
           Precedes(u, v), Precedes(u, w), Precedes(v, w)
    PROVE  /\ Orderly(kind, <<Do(u), Do(v), Do(w)>>)
           /\ PendingIn(<<Do(u), Do(v), Do(w)>>) = {u, v, w}
<1> DEFINE calls == <<Do(u), Do(v), Do(w)>>
<1>1. DOMAIN calls = {1, 2, 3} /\ calls[1][1] = u /\ calls[2][1] = v /\ calls[3][1] = w
  BY DEF Do
<1> HIDE DEF calls
<1>2. \A i, k \in DOMAIN calls : i < k => Precedes(calls[i][1], calls[k][1])
  BY <1>1
<1>3. \A i \in DOMAIN calls : Suits(kind, calls[i][1])
  BY <1>1
<1>4. PendingIn(calls) = {u, v, w}
  BY <1>1 DEF PendingIn
<1> QED BY <1>2, <1>3, <1>4 DEF calls, Orderly

LEMMA TwoInOrder ==
    ASSUME NEW kind, NEW u, NEW v, Suits(kind, u), Suits(kind, v), Precedes(u, v)
    PROVE  /\ Orderly(kind, <<Do(u), Do(v)>>)
           /\ PendingIn(<<Do(u), Do(v)>>) = {u, v}
<1> DEFINE calls == <<Do(u), Do(v)>>
<1>1. DOMAIN calls = {1, 2} /\ calls[1][1] = u /\ calls[2][1] = v
  BY DEF Do
<1> HIDE DEF calls
<1>2. \A i, k \in DOMAIN calls : i < k => Precedes(calls[i][1], calls[k][1])
  BY <1>1
<1>3. \A i \in DOMAIN calls : Suits(kind, calls[i][1])
  BY <1>1
<1>4. PendingIn(calls) = {u, v}
  BY <1>1 DEF PendingIn
<1> QED BY <1>2, <1>3, <1>4 DEF calls, Orderly

(* Then the authorizations of a list. *)
LEMMA GrantsInOrder ==
    ASSUME NEW kind, Suits(kind, "grant"), NEW a \in Seq(Call), Orderly(kind, a),
           \A w \in PendingIn(a) : Rank(w) < 3, NEW list \in Seq(Rights)
    PROVE  /\ a \o Grants(list) \in Seq(Call) /\ Orderly(kind, a \o Grants(list))
           /\ PendingIn(a) \subseteq PendingIn(a \o Grants(list))
           /\ \A w \in PendingIn(a \o Grants(list)) : Rank(w) < 4
           /\ LeftIn(a \o Grants(list)) = ToSet(list)
<1> DEFINE b == Grants(list)
           calls == a \o b
<1>1. b \in Seq(Call) /\ Len(b) \in Nat /\ DOMAIN b = 1 .. Len(b) /\ \A i \in DOMAIN b : b[i][1] = "grant"
  BY GrantsAreCalls
<1>2. DOMAIN b = DOMAIN list /\ \A i \in DOMAIN list : b[i][2] = list[i]
  BY DEF Grants
<1>3. Len(a) \in Nat /\ DOMAIN a = 1 .. Len(a)
  BY LenProperties
<1> HIDE DEF b
<1>4. calls \in Seq(Call) /\ Len(calls) = Len(a) + Len(b)
      /\ \A i \in 1 .. Len(a) + Len(b) : calls[i] = IF i <= Len(a) THEN a[i] ELSE b[i - Len(a)]
  BY <1>1, ConcatProperties
<1>5. DOMAIN calls = 1 .. Len(a) + Len(b)
  BY <1>4, LenProperties
<1> HIDE DEF calls
<1>6. \A i \in DOMAIN calls : i <= Len(a) => i \in DOMAIN a /\ calls[i] = a[i]
  BY <1>1, <1>3, <1>4, <1>5
<1>7. \A i \in DOMAIN calls : ~(i <= Len(a)) => i - Len(a) \in DOMAIN b /\ calls[i] = b[i - Len(a)]
  BY <1>1, <1>3, <1>4, <1>5
<1>8. \A i \in DOMAIN a : i \in DOMAIN calls /\ i <= Len(a) /\ calls[i] = a[i]
  BY <1>1, <1>3, <1>4, <1>5
<1>9. \A i \in DOMAIN b : i + Len(a) \in DOMAIN calls /\ calls[i + Len(a)] = b[i]
  <2>1. \A i \in DOMAIN b : i + Len(a) \in 1 .. Len(a) + Len(b) /\ ~(i + Len(a) <= Len(a))
                             /\ (i + Len(a)) - Len(a) = i
    BY <1>1, <1>3
  <2> QED BY <1>4, <1>5, <2>1
<1>10. Rank("grant") = 3
  BY Ranks
<1>11. \A i \in DOMAIN a : Rank(a[i][1]) < 3 /\ a[i][1] # "grant"
  <2>1. \A i \in DOMAIN a : Rank(a[i][1]) < 3
    BY DEF PendingIn
  <2> QED BY <1>10, <2>1
<1>12. \A i \in DOMAIN calls : IF i <= Len(a) THEN Suits(kind, calls[i][1]) /\ Rank(calls[i][1]) < 3
                                 ELSE Suits(kind, calls[i][1]) /\ calls[i][1] = "grant"
  BY <1>1, <1>6, <1>7, <1>11 DEF Orderly
<1>13. ASSUME NEW i \in DOMAIN calls, NEW k \in DOMAIN calls, i < k
       PROVE  Precedes(calls[i][1], calls[k][1])
  <2>1. CASE k <= Len(a)
    <3>1. i <= Len(a)
      BY <1>3, <1>5, <1>13, <2>1
    <3> QED BY <1>6, <1>13, <2>1, <3>1 DEF Orderly
  <2>2. CASE ~(k <= Len(a)) /\ i <= Len(a)
    BY <1>10, <1>12, <2>2 DEF Precedes
  <2>3. CASE ~(k <= Len(a)) /\ ~(i <= Len(a))
    BY <1>10, <1>12, <2>3 DEF Precedes
  <2> QED BY <2>1, <2>2, <2>3
<1>14. PendingIn(a) \subseteq PendingIn(calls)
  BY <1>8 DEF PendingIn
<1>15. \A w \in PendingIn(calls) : Rank(w) < 4
  <2>1. \A i \in DOMAIN calls : Rank(calls[i][1]) \in 0 .. 4
    BY RankBound
  <2>2. \A i \in DOMAIN calls : Rank(calls[i][1]) < 4
    BY <1>10, <1>12, <2>1
  <2> QED BY <2>2 DEF PendingIn
<1>16. LeftIn(calls) = ToSet(list)
  <2>1. \A w : w \in LeftIn(calls) <=> \E i \in DOMAIN calls : calls[i][1] = "grant" /\ w = calls[i][2]
    BY DEF LeftIn
  <2>2. \A w : w \in ToSet(list) <=> \E i \in DOMAIN list : w = list[i]
    BY DEF ToSet
  <2>3. ASSUME NEW w \in LeftIn(calls) PROVE w \in ToSet(list)
    <3>1. PICK i \in DOMAIN calls : calls[i][1] = "grant" /\ w = calls[i][2]
      BY <2>1
    <3>2. ~(i <= Len(a))
      BY <1>6, <1>11, <3>1
    <3> QED BY <1>2, <1>7, <2>2, <3>1, <3>2
  <2>4. ASSUME NEW w \in ToSet(list) PROVE w \in LeftIn(calls)
    <3>1. PICK i \in DOMAIN list : w = list[i]
      BY <2>2
    <3>2. i + Len(a) \in DOMAIN calls /\ calls[i + Len(a)] = b[i]
      BY <1>2, <1>9
    <3> QED BY <1>1, <1>2, <2>1, <3>1, <3>2
  <2> QED BY <2>3, <2>4
<1>17. Orderly(kind, calls)
  BY <1>12, <1>13 DEF Orderly
<1> QED BY <1>4, <1>14, <1>15, <1>16, <1>17 DEF calls, b

(* And the fatal call of a registration when mail is enabled. *)
LEMMA DieInOrder ==
    ASSUME NEW kind, Suits(kind, "die"), NEW a \in Seq(Call), Orderly(kind, a),
           \A w \in PendingIn(a) : Rank(w) < 4
    PROVE  /\ a \o <<Do("die")>> \in Seq(Call) /\ Orderly(kind, a \o <<Do("die")>>)
           /\ PendingIn(a) \subseteq PendingIn(a \o <<Do("die")>>)
           /\ LeftIn(a \o <<Do("die")>>) = LeftIn(a)
<1> DEFINE b == <<Do("die")>>
           calls == a \o b
           n == Len(a) + 1
<1>1. Do("die") \in Call /\ Do("die")[1] = "die"
  BY DoIsCall DEF Verbs
<1>2. b \in Seq(Call) /\ Len(b) = 1 /\ b[1] = Do("die")
  BY <1>1
<1>3. Len(a) \in Nat /\ DOMAIN a = 1 .. Len(a)
  BY LenProperties
<1> HIDE DEF b
<1>4. calls \in Seq(Call) /\ Len(calls) = n
      /\ \A i \in 1 .. n : calls[i] = IF i <= Len(a) THEN a[i] ELSE b[i - Len(a)]
  <2>1. calls \in Seq(Call) /\ Len(calls) = Len(a) + Len(b)
        /\ \A i \in 1 .. Len(a) + Len(b) : calls[i] = IF i <= Len(a) THEN a[i] ELSE b[i - Len(a)]
    BY <1>2, ConcatProperties
  <2>2. Len(a) + Len(b) = n
    BY <1>2
  <2> QED BY <2>1, <2>2
<1>5. DOMAIN calls = 1 .. n
  BY <1>4, LenProperties
<1> HIDE DEF calls
<1>6. calls[n][1] = "die" /\ n \in DOMAIN calls
  <2>1. n \in 1 .. n /\ ~(n <= Len(a)) /\ n - Len(a) = 1
    BY <1>3
  <2> QED BY <1>1, <1>2, <1>4, <1>5, <2>1
<1>7. \A i \in DOMAIN calls : i = n \/ (i \in DOMAIN a /\ calls[i] = a[i])
  BY <1>3, <1>4, <1>5
<1>8. \A i \in DOMAIN a : i \in DOMAIN calls /\ calls[i] = a[i] /\ i < n
  BY <1>3, <1>4, <1>5
<1>9. \A i \in DOMAIN calls : i <= n
  BY <1>3, <1>5
<1> HIDE DEF n
<1>10. Rank("die") = 4
  BY Ranks
<1>11. ASSUME NEW i \in DOMAIN calls, NEW k \in DOMAIN calls, i < k
       PROVE  Precedes(calls[i][1], calls[k][1])
  <2>1. i # n
    BY <1>3, <1>5, <1>9, <1>11 DEF n
  <2>2. CASE k = n
    <3>1. Rank(calls[i][1]) < 4
      BY <1>7, <2>1 DEF PendingIn
    <3> QED BY <1>6, <1>10, <2>2, <3>1 DEF Precedes
  <2>3. CASE k # n
    BY <1>7, <1>11, <2>1, <2>3 DEF Orderly
  <2> QED BY <2>2, <2>3
<1>12. \A i \in DOMAIN calls : Suits(kind, calls[i][1])
  BY <1>6, <1>7 DEF Orderly
<1>13. PendingIn(a) \subseteq PendingIn(calls)
  BY <1>8 DEF PendingIn
<1>14. LeftIn(calls) = LeftIn(a)
  <2>1. \A w : w \in LeftIn(calls) <=> \E i \in DOMAIN calls : calls[i][1] = "grant" /\ w = calls[i][2]
    BY DEF LeftIn
  <2>2. \A w : w \in LeftIn(a) <=> \E i \in DOMAIN a : a[i][1] = "grant" /\ w = a[i][2]
    BY DEF LeftIn
  <2>3. \A w : w \in LeftIn(calls) <=> w \in LeftIn(a)
    BY <1>6, <1>7, <1>8, <2>1, <2>2
  <2> QED BY <2>3
<1>15. Orderly(kind, calls)
  BY <1>11, <1>12 DEF Orderly
<1> QED BY <1>4, <1>13, <1>14, <1>15 DEF calls, b

(* Checks come before anything else. *)
LEMMA ChecksFirst ==
  /\ \A v \in Checks : Rank(v) < 3 /\ \A w : Precedes(v, w)
  /\ Precedes("revoke", "drop user") /\ Precedes("set password", "drop token")
  /\ Rank("revoke") < 3 /\ Rank("add user") < 3
<1>1. \A v \in Checks : Rank(v) < 3 /\ \A w : Precedes(v, w)
  <2> TAKE v \in Checks
  <2>1. Rank(v) = 0
    BY Ranks
  <2>2. ASSUME NEW w PROVE Precedes(v, w)
    <3>1. Rank(w) \in 0 .. 4
      BY RankBound
    <3> QED BY <2>1, <3>1 DEF Precedes
  <2> QED BY <2>1, <2>2
<1>2. Rank("revoke") = 1 /\ Rank("add user") = 2 /\ Rank("drop user") = 2 /\ Rank("drop token") = 4
  BY Ranks
<1>3. Rank("set password") = 2
  BY Ranks DEF Sets
<1>7. \A v, w : /\ Rank(v) = 1 /\ Rank(w) = 2 => Precedes(v, w)
                /\ Rank(v) = 2 /\ Rank(w) = 4 => Precedes(v, w)
                /\ Rank(v) = 1 \/ Rank(v) = 2 => Rank(v) < 3
  BY DEF Precedes
<1> HIDE DEF Rank
<1>4. Precedes("revoke", "drop user")
  BY <1>2, <1>7
<1>5. Precedes("set password", "drop token")
  BY <1>2, <1>3, <1>7
<1>6. Rank("revoke") < 3 /\ Rank("add user") < 3
  BY <1>2, <1>7
<1> QED BY <1>1, <1>4, <1>5, <1>6

Plans(r) ==
  \E t, calls, now :
    /\ t \in Task /\ calls \in Seq(Call)
    /\ Begin(r, t, calls, now)
    /\ Plan(t.kind, t.id, calls, disk["users"])

(* Who only changes his row. *)
LEMMA EditorPlans ==
    ASSUME NEW r \in Requests, NEW t \in Task,
           t.kind \notin {"create", "register", "authorize", "remove"},
           NEW calls \in Seq(Call), Orderly(t.kind, calls), NEW now, Begin(r, t, calls, now)
    PROVE  Plans(r)
<1>1. Plan(t.kind, t.id, calls, disk["users"])
  BY DEF Plan
<1> QED BY <1>1 DEF Plans

(* The plan of each controller action. *)
LEMMA EditPlans ==
    ASSUME IInv, NEW r \in Requests, SetAttributes(r)
    PROVE  Plans(r)
<1> DEFINE t(n, given, target, name, e, value) ==
             [Asked("edit", n) EXCEPT !.given = given, !.target = target, !.name = name,
                                      !.email = e, !.enabled = value]
           a == <<Do("control"), Do("set attributes")>>
           now(given, target, name) == IF "name" \in given THEN Renaming(target, name) ELSE settled
<1>1. PICK n \in Ids, given \in AttributeLists :
        \E target \in IF "id" \in given THEN Ids ELSE {n},
           name \in IF "name" \in given THEN Names ELSE {None},
           e \in IF "email" \in given THEN Emails ELSE {None},
           value \in IF "enabled" \in given THEN BOOLEAN ELSE {FALSE} :
          Begin(r, t(n, given, target, name, e, value), a, now(given, target, name))
  BY DEF SetAttributes
<1>2. PICK target \in IF "id" \in given THEN Ids ELSE {n},
           name \in IF "name" \in given THEN Names ELSE {None},
           e \in IF "email" \in given THEN Emails ELSE {None},
           value \in IF "enabled" \in given THEN BOOLEAN ELSE {FALSE} :
        Begin(r, t(n, given, target, name, e, value), a, now(given, target, name))
  BY <1>1
<1> DEFINE u == t(n, given, target, name, e, value)
<1>3. u \in Task /\ u.kind = "edit"
  <2>1. n \in Nat /\ target \in Nat /\ given \subseteq Attributes
    BY IdsAreNaturals, ListsAssumption
  <2>2. Asked("edit", n) \in Task /\ Asked("edit", n).kind = "edit"
    BY <2>1, AskedIsTask DEF Kinds
  <2>3. name \in Names \cup {None} /\ e \in Emails \cup {None} /\ value \in BOOLEAN
    OBVIOUS
  <2> QED BY <2>1, <2>2, <2>3 DEF Task
<1>4. a \in Seq(Call)
  BY ShortPlans
<1>5. Orderly("edit", a)
  <2>1. Suits("edit", "control") /\ Suits("edit", "set attributes")
    BY DEF Suits
  <2>2. Precedes("control", "set attributes")
    BY ChecksFirst DEF Checks
  <2> QED BY <2>1, <2>2, TwoInOrder
<1>6. Begin(r, u, a, now(given, target, name))
  BY <1>2
<1> HIDE DEF u, a, now
<1> QED BY <1>3, <1>4, <1>5, <1>6, EditorPlans

LEMMA PasswordPlans ==
    ASSUME IInv, NEW r \in Requests, SetPassword(r)
    PROVE  Plans(r)
<1> DEFINE a == <<Do("control"), Do("verify"), Do("set password")>>
<1>1. PICK n \in Ids : Begin(r, Asked("password", n), a, settled)
  BY DEF SetPassword
<1>2. Asked("password", n) \in Task /\ Asked("password", n).kind = "password"
  BY IdsAreNaturals, AskedIsTask DEF Kinds
<1>3. a \in Seq(Call)
  BY ShortPlans
<1>4. Orderly("password", a)
  <2>1. Suits("password", "control") /\ Suits("password", "verify") /\ Suits("password", "set password")
    BY DEF Suits
  <2>2. /\ Precedes("control", "verify") /\ Precedes("control", "set password")
        /\ Precedes("verify", "set password")
    BY ChecksFirst DEF Checks
  <2> QED BY <2>1, <2>2, ThreeInOrder
<1> HIDE DEF a
<1> QED BY <1>1, <1>2, <1>3, <1>4, EditorPlans

LEMMA EnablePlans ==
    ASSUME IInv, NEW r \in Requests, SetEnabled(r)
    PROVE  Plans(r)
<1> DEFINE t(n, value) == [Asked("enable", n) EXCEPT !.given = {"enabled"}, !.target = n, !.enabled = value]
           a == <<Do("control"), Do("set attributes")>>
<1>1. PICK n \in Ids, value \in BOOLEAN : Begin(r, t(n, value), a, settled)
  BY DEF SetEnabled
<1>2. t(n, value) \in Task /\ t(n, value).kind = "enable"
  <2>1. n \in Nat /\ Asked("enable", n) \in Task /\ Asked("enable", n).kind = "enable"
    BY IdsAreNaturals, AskedIsTask DEF Kinds
  <2>2. {"enabled"} \subseteq Attributes
    BY DEF Attributes
  <2> QED BY <2>1, <2>2 DEF Task
<1>3. a \in Seq(Call)
  BY ShortPlans
<1>4. Orderly("enable", a)
  <2>1. Suits("enable", "control") /\ Suits("enable", "set attributes")
    BY DEF Suits
  <2>2. Precedes("control", "set attributes")
    BY ChecksFirst DEF Checks
  <2> QED BY <2>1, <2>2, TwoInOrder
<1> HIDE DEF t, a
<1> QED BY <1>1, <1>2, <1>3, <1>4, EditorPlans

LEMMA ConnectPlans ==
    ASSUME NEW r \in Requests, Connect(r)
    PROVE  Plans(r)
<1> DEFINE t(n) == [Idle EXCEPT !.kind = "connect", !.name = n]
           a == <<Do("login"), Do("rehash")>>
<1>1. PICK n \in Names : Begin(r, t(n), a, settled)
  BY DEF Connect
<1>2. t(n) \in Task /\ t(n).kind = "connect"
  BY DEF Idle, Task, Kinds
<1>3. a \in Seq(Call)
  BY ShortPlans
<1>4. Orderly("connect", a)
  <2>1. Suits("connect", "login") /\ Suits("connect", "rehash")
    BY DEF Suits
  <2>2. Precedes("login", "rehash")
    BY ChecksFirst DEF Checks
  <2> QED BY <2>1, <2>2, TwoInOrder
<1> HIDE DEF t, a
<1> QED BY <1>1, <1>2, <1>3, <1>4, EditorPlans

LEMMA AskResetPlans ==
    ASSUME NEW r \in Requests, SendResetPasswordRequest(r)
    PROVE  Plans(r)
<1> DEFINE t(e) == [Idle EXCEPT !.kind = "ask reset", !.email = e]
           a == <<Do("find"), Do("old token"), Do("add token"), Do("mail")>>
<1>1. PICK e \in Emails : Begin(r, t(e), a, settled)
  BY DEF SendResetPasswordRequest
<1>2. t(e) \in Task /\ t(e).kind = "ask reset"
  BY DEF Idle, Task, Kinds
<1>3. a \in Seq(Call)
  BY ShortPlans
<1>4. Orderly("ask reset", a)
  <2>1. Suits("ask reset", "find") /\ Suits("ask reset", "old token")
        /\ Suits("ask reset", "add token") /\ Suits("ask reset", "mail")
    BY DEF Suits
  <2>2. /\ Precedes("find", "old token") /\ Precedes("find", "add token") /\ Precedes("find", "mail")
        /\ Precedes("old token", "add token") /\ Precedes("old token", "mail")
        /\ Precedes("add token", "mail")
    BY ChecksFirst DEF Checks
  <2> QED BY <2>1, <2>2, ShortOrder
<1> HIDE DEF t, a
<1> QED BY <1>1, <1>2, <1>3, <1>4, EditorPlans

LEMMA ResetPlans ==
    ASSUME IInv, NEW r \in Requests, ResetPassword(r)
    PROVE  Plans(r)
<1> DEFINE t(m) == [Idle EXCEPT !.kind = "reset", !.token = m[1], !.key = m[2]]
           a == <<Do("check token"), Do("set password"), Do("drop token")>>
<1>1. PICK m \in mailed : Begin(r, t(m), a, settled)
  BY DEF ResetPassword
<1>2. t(m) \in Task /\ t(m).kind = "reset"
  <2>1. m[1] \in Nat /\ m[2] \in Nat
    BY DEF IInv, TypeOK
  <2> QED BY <2>1 DEF Idle, Task, Kinds
<1>3. a \in Seq(Call)
  BY ShortPlans
<1>4. Orderly("reset", a)
  <2>1. Suits("reset", "check token") /\ Suits("reset", "set password") /\ Suits("reset", "drop token")
    BY DEF Suits
  <2>2. /\ Precedes("check token", "set password") /\ Precedes("check token", "drop token")
        /\ Precedes("set password", "drop token")
    BY ChecksFirst DEF Checks
  <2> QED BY <2>1, <2>2, ThreeInOrder
<1> HIDE DEF t, a
<1> QED BY <1>1, <1>2, <1>3, <1>4, EditorPlans

(* What is pending in the plans that revoke. *)
LEMMA RemovalPending ==
  PendingIn(<<Do("control"), Do("lookup"), Do("revoke"), Do("drop user")>>)
    = {"control", "lookup", "revoke", "drop user"}
<1> DEFINE calls == <<Do("control"), Do("lookup"), Do("revoke"), Do("drop user")>>
<1>1. DOMAIN calls = {1, 2, 3, 4}
  OBVIOUS
<1>2. calls[1][1] = "control" /\ calls[2][1] = "lookup" /\ calls[3][1] = "revoke" /\ calls[4][1] = "drop user"
  BY DEF Do
<1> HIDE DEF calls
<1>3. PendingIn(calls) = {"control", "lookup", "revoke", "drop user"}
  BY <1>1, <1>2 DEF PendingIn
<1> QED BY <1>3 DEF calls

LEMMA AuthorizingPending ==
  PendingIn(<<Do("control"), Do("exists"), Do("revoke")>>)
    = {"control", "exists", "revoke"}
<1> DEFINE calls == <<Do("control"), Do("exists"), Do("revoke")>>
<1>1. DOMAIN calls = {1, 2, 3}
  OBVIOUS
<1>2. calls[1][1] = "control" /\ calls[2][1] = "exists" /\ calls[3][1] = "revoke"
  BY DEF Do
<1> HIDE DEF calls
<1>3. PendingIn(calls) = {"control", "exists", "revoke"}
  BY <1>1, <1>2 DEF PendingIn
<1> QED BY <1>3 DEF calls

LEMMA RemovePlans ==
    ASSUME IInv, NEW r \in Requests, RemoveUser(r)
    PROVE  Plans(r)
<1> DEFINE t(n) == Asked("remove", n)
           a == <<Do("control"), Do("lookup"), Do("revoke"), Do("drop user")>>
<1>1. PICK n \in Ids : Begin(r, t(n), a, Without(n))
  BY DEF RemoveUser
<1>2. n \in Nat /\ t(n) \in Task /\ t(n).kind = "remove" /\ t(n).id = n
  BY IdsAreNaturals, AskedIsTask DEF Kinds
<1>3. a \in Seq(Call)
  BY ShortPlans
<1>4. Orderly("remove", a) /\ PendingIn(a) = {"control", "lookup", "revoke", "drop user"}
  <2>1. Suits("remove", "control") /\ Suits("remove", "lookup")
        /\ Suits("remove", "revoke") /\ Suits("remove", "drop user")
    BY DEF Suits
  <2>2. /\ Precedes("control", "lookup") /\ Precedes("control", "revoke")
        /\ Precedes("control", "drop user") /\ Precedes("lookup", "revoke")
        /\ Precedes("lookup", "drop user") /\ Precedes("revoke", "drop user")
    BY ChecksFirst DEF Checks
  <2>3. Orderly("remove", a)
    BY <2>1, <2>2, ShortOrder
  <2>4. PendingIn(a) = {"control", "lookup", "revoke", "drop user"}
    BY RemovalPending
  <2> QED BY <2>3, <2>4
<1> HIDE DEF t, a
<1>5. \E i \in DOMAIN disk["users"] : disk["users"][i].id = n
  BY DEF Ids, ToSet
<1>6. Plan("remove", n, a, disk["users"])
  BY <1>3, <1>4, <1>5 DEF Plan
<1> QED BY <1>1, <1>2, <1>3, <1>6 DEF Plans

LEMMA AuthorizePlans ==
    ASSUME IInv, NEW r \in Requests, SetAuthorizations(r)
    PROVE  Plans(r)
<1> DEFINE t(n) == Asked("authorize", n)
           a == <<Do("control"), Do("exists"), Do("revoke")>>
<1>1. PICK n \in Ids, list \in GrantLists : Begin(r, t(n), a \o Grants(list), settled)
  BY DEF SetAuthorizations
<1>2. n \in Nat /\ t(n) \in Task /\ t(n).kind = "authorize" /\ list \in Seq(Rights)
  BY IdsAreNaturals, AskedIsTask, ListsAssumption DEF Kinds
<1>3. a \in Seq(Call)
  BY ShortPlans
<1>4. Orderly("authorize", a) /\ PendingIn(a) = {"control", "exists", "revoke"}
  <2>1. Suits("authorize", "control") /\ Suits("authorize", "exists") /\ Suits("authorize", "revoke")
    BY DEF Suits
  <2>2. /\ Precedes("control", "exists") /\ Precedes("control", "revoke") /\ Precedes("exists", "revoke")
    BY ChecksFirst DEF Checks
  <2>3. Orderly("authorize", a)
    BY <2>1, <2>2, ThreeInOrder
  <2>4. PendingIn(a) = {"control", "exists", "revoke"}
    BY AuthorizingPending
  <2> QED BY <2>3, <2>4
<1> HIDE DEF t, a
<1> DEFINE calls == a \o Grants(list)
<1>5. /\ calls \in Seq(Call) /\ Orderly("authorize", calls) /\ PendingIn(a) \subseteq PendingIn(calls)
      /\ LeftIn(calls) = ToSet(list)
  <2>1. \A w \in PendingIn(a) : Rank(w) < 3
    BY <1>4, ChecksFirst DEF Checks
  <2>2. Suits("authorize", "grant")
    BY DEF Suits
  <2> QED BY <1>2, <1>3, <1>4, <2>1, <2>2, GrantsInOrder
<1> HIDE DEF calls
<1>6. LeftIn(calls) \in Lists
  BY <1>5 DEF Lists
<1>7. Plan("authorize", n, calls, disk["users"])
  BY <1>4, <1>5, <1>6 DEF Plan
<1>8. Plan(t(n).kind, t(n).id, calls, disk["users"])
  BY <1>2, <1>5, <1>6, <1>7 DEF Plan
<1> QED BY <1>1, <1>2, <1>5, <1>8 DEF Plans, calls

LEMMA CreatePlans ==
    ASSUME NEW r \in Requests, Create(r)
    PROVE  Plans(r)
<1> DEFINE t(n, e) == [Idle EXCEPT !.kind = "create", !.name = n, !.email = e, !.enabled = TRUE]
           a == <<Do("control"), Do("add user")>>
<1>1. PICK n \in NewNames, e \in NewEmails, list \in GrantLists :
        Begin(r, t(n, e), a \o Grants(list), settled)
  BY DEF Create
<1>2. t(n, e) \in Task /\ t(n, e).kind = "create" /\ list \in Seq(Rights)
  BY NamesAssumption, ListsAssumption DEF Idle, Task, Kinds
<1>3. a \in Seq(Call)
  BY ShortPlans
<1>4. Orderly("create", a) /\ PendingIn(a) = {"control", "add user"}
  <2>1. Suits("create", "control") /\ Suits("create", "add user")
    BY DEF Suits
  <2>2. Precedes("control", "add user")
    BY ChecksFirst DEF Checks
  <2> QED BY <2>1, <2>2, TwoInOrder
<1> HIDE DEF t, a
<1> DEFINE calls == a \o Grants(list)
<1>5. /\ calls \in Seq(Call) /\ Orderly("create", calls) /\ PendingIn(a) \subseteq PendingIn(calls)
      /\ LeftIn(calls) = ToSet(list)
  <2>1. \A w \in PendingIn(a) : Rank(w) < 3
    BY <1>4, ChecksFirst DEF Checks
  <2>2. Suits("create", "grant")
    BY DEF Suits
  <2> QED BY <1>2, <1>3, <1>4, <2>1, <2>2, GrantsInOrder
<1> HIDE DEF calls
<1>6. LeftIn(calls) \in Lists
  BY <1>5 DEF Lists
<1>7. "add user" \in PendingIn(calls)
  BY <1>4, <1>5
<1>8. Plan(t(n, e).kind, t(n, e).id, calls, disk["users"])
  BY <1>2, <1>5, <1>6, <1>7 DEF Plan
<1> QED BY <1>1, <1>2, <1>5, <1>8 DEF Plans, calls

LEMMA RegisterPlans ==
    ASSUME NEW r \in Requests, Register(r)
    PROVE  Plans(r)
<1> DEFINE t(n, e) == [Idle EXCEPT !.kind = "register", !.name = n, !.email = e, !.enabled = TRUE]
           a == <<Do("limit"), Do("add user")>>
           b == a \o Grants(DefaultGrants)
           last == IF MailEnabled THEN <<Do("die")>> ELSE <<>>
           calls == b \o last
<1>1. PICK n \in NewNames, e \in NewEmails : Begin(r, t(n, e), calls, settled)
  BY DEF Register
<1>2. t(n, e) \in Task /\ t(n, e).kind = "register"
  BY NamesAssumption DEF Idle, Task, Kinds
<1>3. a \in Seq(Call)
  BY ShortPlans
<1>4. Orderly("register", a) /\ PendingIn(a) = {"limit", "add user"}
  <2>1. Suits("register", "limit") /\ Suits("register", "add user")
    BY DEF Suits
  <2>2. Precedes("limit", "add user")
    BY ChecksFirst DEF Checks
  <2> QED BY <2>1, <2>2, TwoInOrder
<1> HIDE DEF t, a
<1>5. /\ b \in Seq(Call) /\ Orderly("register", b) /\ PendingIn(a) \subseteq PendingIn(b)
      /\ LeftIn(b) = ToSet(DefaultGrants) /\ \A w \in PendingIn(b) : Rank(w) < 4
  <2>1. \A w \in PendingIn(a) : Rank(w) < 3
    BY <1>4, ChecksFirst DEF Checks
  <2>2. Suits("register", "grant")
    BY DEF Suits
  <2> QED BY <1>3, <1>4, <2>1, <2>2, GrantsInOrder, ListsAssumption
<1> HIDE DEF b
<1>6. /\ calls \in Seq(Call) /\ Orderly("register", calls) /\ PendingIn(b) \subseteq PendingIn(calls)
      /\ LeftIn(calls) = LeftIn(b)
  <2>1. CASE MailEnabled
    <3>1. Suits("register", "die")
      BY DEF Suits
    <3> QED BY <1>5, <2>1, <3>1, DieInOrder
  <2>2. CASE ~MailEnabled
    <3>1. calls = b
      BY <1>5, <2>2
    <3> QED BY <1>5, <3>1
  <2> QED BY <2>1, <2>2
<1> HIDE DEF calls
<1>7. LeftIn(calls) \in Lists
  BY <1>5, <1>6 DEF Lists
<1>8. "add user" \in PendingIn(calls)
  BY <1>4, <1>5, <1>6
<1>9. Plan(t(n, e).kind, t(n, e).id, calls, disk["users"])
  BY <1>2, <1>6, <1>7, <1>8 DEF Plan
<1> QED BY <1>1, <1>2, <1>6, <1>9 DEF Plans

(* Every request starts with a plan in order. *)
LEMMA ControllerPlans ==
    ASSUME IInv, NEW r \in Requests, Controller(r)
    PROVE  Plans(r)
BY CreatePlans, RegisterPlans, EditPlans, PasswordPlans, EnablePlans, AuthorizePlans,
   RemovePlans, ConnectPlans, AskResetPlans, ResetPlans DEF Controller

-----------------------------------------------------------------------------
(* A request nobody interferes with.                                         *)

(* The tables as it sees them: what it keeps, or what it will read. *)
SeenUsers(r)  == IF "users" \in read[r] THEN copy[r]["users"] ELSE disk["users"]
SeenRights(r) == IF "rights" \in read[r] THEN copy[r]["rights"] ELSE disk["rights"]
SeenBook(r)   == BookIn(SeenUsers(r), SeenRights(r))

Advancing(r) == Progress(task[r].kind, task[r].id, todo[r], SeenUsers(r), SeenRights(r), saved)

Alone ==
  /\ \A q, r \in Running : q = r
  /\ late = {}
  /\ torn \subseteq {writing[r] : r \in Running}
  /\ \A r \in Requests : \A t \in read[r] : writing[r] # t => copy[r][t] = disk[t]
  /\ Running = {} => saved = BookOf(disk) /\ StraysKnown(disk["users"], disk["rights"])
  /\ \A r \in Running : Advancing(r)

(* Until requests have overlapped or one was killed. *)
Solo == ~mixed => Alone

(* What is known of the only request that runs. *)
LEMMA SeenFacts ==
    ASSUME IInv, Alone, NEW r \in Requests, Busy(r)
    PROVE  /\ Running = {r} /\ Advancing(r) /\ saved \in Books
           /\ Fit("users", SeenUsers(r)) /\ Fit("rights", SeenRights(r))
           /\ Orderly(task[r].kind, todo[r]) /\ todo[r] \in Seq(Call)
           /\ "users" \in read[r] => SeenUsers(r) = Users(r)
           /\ "rights" \in read[r] => SeenRights(r) = Owned(r)
           /\ writing[r] = None =>
                torn = {} /\ SeenUsers(r) = disk["users"] /\ SeenRights(r) = disk["rights"]
<1>1. Running = {r}
  BY DEF Alone, Running, Busy
<1>2. Advancing(r)
  BY <1>1 DEF Alone
<1>3. /\ saved \in Books /\ Fit("users", SeenUsers(r)) /\ Fit("rights", SeenRights(r))
      /\ Orderly(task[r].kind, todo[r]) /\ todo[r] \in Seq(Call)
  BY <1>2 DEF Advancing, Progress
<1>4. /\ "users" \in read[r] => SeenUsers(r) = Users(r)
      /\ "rights" \in read[r] => SeenRights(r) = Owned(r)
  BY DEF SeenUsers, SeenRights, Users, Owned
<1>5. ASSUME writing[r] = None
      PROVE  torn = {} /\ SeenUsers(r) = disk["users"] /\ SeenRights(r) = disk["rights"]
  <2>1. torn \subseteq {None} /\ torn \subseteq Tables
    BY <1>1, <1>5 DEF Alone, IInv, TypeOK
  <2>2. None \notin Tables
    BY DEF None, Tables
  <2>3. \A t \in read[r] : t \in Tables
    BY DEF IInv, TypeOK
  <2>4. \A t \in read[r] : copy[r][t] = disk[t]
    BY <1>5, <2>2, <2>3 DEF Alone
  <2> QED BY <2>1, <2>2, <2>4 DEF SeenUsers, SeenRights
<1> QED BY <1>1, <1>2, <1>3, <1>4, <1>5

(* The step leaves the book as it was or changes it as one step does. *)
Fine == Alone' /\ Whole(saved, saved')

(* The end of a request is where the book changes. *)
LEMMA EndFine ==
    ASSUME IInv, ~mixed, Alone, NEW r \in Requests, Busy(r), writing[r] = None, End(r),
           Whole(saved, SeenBook(r))
    PROVE  Fine
<1>1. /\ task' = [task EXCEPT ![r] = Idle] /\ read' = [read EXCEPT ![r] = {}]
      /\ writing' = [writing EXCEPT ![r] = None] /\ late' = late \ {r}
      /\ saved' = BookOf(disk) /\ disk' = disk /\ torn' = torn
      /\ copy' = [copy EXCEPT ![r] = [t \in Tables |-> <<>>]]
  BY DEF End, Forget, fileVars
<1>2. Running = {r} /\ torn = {} /\ SeenUsers(r) = disk["users"] /\ SeenRights(r) = disk["rights"]
  BY SeenFacts
<1>3. Running' = {}
  <2>1. task \in [Requests -> Task]
    BY DEF IInv, TypeOK
  <2>2. \A q \in Requests : task'[q].kind = None
    BY <1>1, <1>2, <2>1 DEF Running, Idle
  <2> QED BY <2>2 DEF Running
<1>4. saved' = SeenBook(r)
  BY <1>1, <1>2, BookOfTables DEF SeenBook
<1>5. saved' = BookOf(disk)' /\ StraysKnown(disk["users"], disk["rights"])'
  <2>1. StraysKnown(disk["users"], disk["rights"])
    BY <1>2, SeenFacts DEF Advancing, Progress
  <2>2. BookOf(disk)' = BookOf(disk)
    BY <1>1 DEF BookOf
  <2> QED BY <1>1, <2>1, <2>2
<1>6. \A q \in Requests : read'[q] = {}
  <2>1. \A q \in Requests \ {r} : task[q].kind = None
    BY <1>2 DEF Running
  <2>2. \A q \in Requests \ {r} : read[q] = {}
    BY <2>1 DEF IInv, Quiet
  <2> QED BY <1>1, <2>2 DEF IInv, TypeOK
<1>7. late' = {}
  BY <1>1 DEF Alone
<1>8. Alone'
  BY <1>1, <1>2, <1>3, <1>5, <1>6, <1>7 DEF Alone
<1> QED BY <1>4, <1>8 DEF Fine

(* Where a request may end, what it did is whole. *)
LEMMA EndsWhole ==
    ASSUME IInv, Alone, NEW r \in Requests, Busy(r),
           todo[r] # <<>> =>
             \/ Verb(r) \in Checks \cup Sets \cup Closing \cup {"add user"}
             \/ Verb(r) = "drop user" /\ ~HasId(SeenUsers(r), task[r].id)
    PROVE  Whole(saved, SeenBook(r))
<1>1. Progress(task[r].kind, task[r].id, todo[r], SeenUsers(r), SeenRights(r), saved)
  BY SeenFacts DEF Advancing
<1> QED BY <1>1, EndWhole DEF SeenBook, Verb

(* What the step of a running request does to the files. *)
Marks(r) ==
  \/ UNCHANGED <<copy, writing, torn>>
  \/ \E t \in read[r] :
       /\ OneCopy(r, t, copy'[r][t])
       /\ writing' = [writing EXCEPT ![r] = t]
       /\ torn' = torn \cup {t}

Steps(r) ==
  /\ UNCHANGED <<disk, read, late, saved>>
  /\ \A q \in Requests \ {r} : task'[q] = task[q]
  /\ task'[r].kind = task[r].kind
  /\ Marks(r)

(* A step of the only request that keeps its progress. *)
LEMMA StepsFine ==
    ASSUME IInv, Alone, NEW r \in Requests, Busy(r), writing[r] = None, Steps(r), Advancing(r)'
    PROVE  Fine
<1>1. Running = {r} /\ torn = {}
  BY SeenFacts
<1>2. Running' = {r}
  <2>1. \A q \in Requests : task'[q].kind = task[q].kind
    BY DEF Steps
  <2> QED BY <1>1, <2>1 DEF Running
<1>3. writing \in [Requests -> Tables \cup {None}]
  BY DEF IInv, TypeOK
<1>4. read \in [Requests -> SUBSET Tables]
  BY DEF IInv, TypeOK
<1>5. torn' \subseteq {writing'[q] : q \in Running'}
      /\ \A q \in Requests : \A t \in read'[q] : writing'[q] # t => copy'[q][t] = disk'[t]
  <2>1. CASE UNCHANGED <<copy, writing, torn>>
    BY <1>1, <2>1 DEF Steps, Alone
  <2>2. CASE \E t \in read[r] :
               /\ OneCopy(r, t, copy'[r][t])
               /\ writing' = [writing EXCEPT ![r] = t]
               /\ torn' = torn \cup {t}
    <3>1. PICK t \in read[r] : /\ OneCopy(r, t, copy'[r][t])
                               /\ writing' = [writing EXCEPT ![r] = t]
                               /\ torn' = torn \cup {t}
      BY <2>2
    <3>2. writing'[r] = t /\ \A q \in Requests \ {r} : writing'[q] = writing[q]
      BY <1>3, <3>1
    <3>3. torn' \subseteq {writing'[q] : q \in Running'}
      BY <1>1, <1>2, <3>1, <3>2
    <3>4. ASSUME NEW q \in Requests, NEW u \in read'[q], writing'[q] # u
          PROVE  copy'[q][u] = disk'[u]
      <4>1. u \in read[q] /\ u \in Tables /\ disk' = disk
        BY <1>4 DEF Steps
      <4>2. q # r \/ u # t
        BY <3>2, <3>4
      <4>3. copy'[q][u] = copy[q][u]
        BY <3>1, <4>1, <4>2 DEF OneCopy
      <4>4. writing[q] # u
        <5>1. CASE q = r
          BY <4>1, <5>1 DEF None, Tables
        <5>2. CASE q # r
          BY <3>2, <3>4, <5>2
        <5> QED BY <5>1, <5>2
      <4> QED BY <4>1, <4>3, <4>4 DEF Alone
    <3> QED BY <3>3, <3>4
  <2> QED BY <2>1, <2>2 DEF Steps, Marks
<1>6. late' = {} /\ saved' = saved
  BY DEF Steps, Alone
<1>7. Alone'
  BY <1>2, <1>5, <1>6 DEF Alone
<1> QED BY <1>6, <1>7 DEF Fine, Whole

(* A call that is ready. *)
LEMMA SoloCall ==
    ASSUME IInv, Alone, NEW r \in Requests, NEW verb, At(r, verb)
    PROVE  /\ Busy(r) /\ writing[r] = None /\ todo[r] # <<>> /\ Verb(r) = verb
           /\ Head(todo[r])[1] = verb /\ Head(todo[r]) \in Call
           /\ Suits(task[r].kind, verb)
           /\ Progress(task[r].kind, task[r].id, todo[r], SeenUsers(r), SeenRights(r), saved)
           /\ verb \notin Rest => TableOf(verb) \in read[r]
<1>1. Busy(r) /\ writing[r] = None /\ todo[r] # <<>> /\ Head(todo[r])[1] = verb /\ Head(todo[r]) \in Call
  BY ReadyCall DEF Verb
<1>2. Orderly(task[r].kind, todo[r]) /\ todo[r] \in Seq(Call)
  BY <1>1, SeenFacts
<1>3. Suits(task[r].kind, verb)
  BY <1>1, <1>2, CallsAfter
<1> QED BY <1>1, <1>3, SeenFacts DEF Advancing, At, Verb

(* The file each call needs. *)
LEMMA CallTables ==
  /\ \A v \in {"exists", "add user", "drop user", "set attributes", "set password", "rehash"} :
       TableOf(v) = "users" /\ v \notin Rest
  /\ \A v \in {"revoke", "grant"} : TableOf(v) = "rights" /\ v \notin Rest
  /\ \A v \in {"old token", "add token", "check token", "drop token"} : TableOf(v) = "tokens" /\ v \notin Rest
BY DEF TableOf, Rest

(* A step that changes none of the tables of users and authorizations. *)
LEMMA UnseenFine ==
    ASSUME IInv, Alone, NEW r \in Requests, Busy(r), writing[r] = None, Steps(r),
           copy'[r]["users"] = copy[r]["users"], copy'[r]["rights"] = copy[r]["rights"],
           Progress(task[r].kind, task'[r].id, todo'[r], SeenUsers(r), SeenRights(r), saved)
    PROVE  Fine
<1>1. SeenUsers(r)' = SeenUsers(r) /\ SeenRights(r)' = SeenRights(r)
  BY DEF SeenUsers, SeenRights, Steps
<1>2. task'[r].kind = task[r].kind /\ saved' = saved
  BY DEF Steps
<1>3. Advancing(r)'
  BY <1>1, <1>2 DEF Advancing
<1> QED BY <1>3, StepsFine

(* The file it is about to write has been read. *)
LEMMA ChangeMarks ==
    ASSUME IInv, NEW r \in Requests, NEW t \in read[r], NEW rows, Store(r, t, rows)
    PROVE  /\ Marks(r) /\ UNCHANGED <<disk, read, late, saved, mixed>>
           /\ \A u \in Tables : copy'[r][u] = IF u = t THEN rows ELSE copy[r][u]
<1>1. copy \in [Requests -> Files] /\ t \in Tables
  BY DEF IInv, TypeOK
<1>2. copy[r] \in [Tables -> Seq(AnyRow)]
  BY <1>1 DEF Files
<1>3. copy' = [copy EXCEPT ![r][t] = rows] /\ writing' = [writing EXCEPT ![r] = t]
      /\ torn' = torn \cup {t} /\ UNCHANGED <<disk, read, late, saved, mixed>>
  BY DEF Store, historyVars
<1>4. copy'[r] = [copy[r] EXCEPT ![t] = rows] /\ \A q \in Requests \ {r} : copy'[q] = copy[q]
  BY <1>1, <1>3
<1>5. \A u \in Tables : copy'[r][u] = IF u = t THEN rows ELSE copy[r][u]
  BY <1>2, <1>4
<1>6. OneCopy(r, t, copy'[r][t])
  BY <1>1, <1>4, <1>5 DEF OneCopy
<1> QED BY <1>3, <1>5, <1>6 DEF Marks

(* A check that is passed. *)
LEMMA PassFine ==
    ASSUME IInv, Alone, NEW r \in Requests, NEW verb \in Checks, At(r, verb),
           verb = "exists" => HasId(SeenUsers(r), task[r].id),
           todo' = [todo EXCEPT ![r] = Tail(@)], Steps(r),
           copy'[r]["users"] = copy[r]["users"], copy'[r]["rights"] = copy[r]["rights"],
           task'[r].id = task[r].id \/ verb \in {"login", "find", "check token"}
    PROVE  Fine
<1>1. /\ Busy(r) /\ writing[r] = None /\ todo[r] # <<>> /\ Head(todo[r])[1] = verb
      /\ Suits(task[r].kind, verb)
      /\ Progress(task[r].kind, task[r].id, todo[r], SeenUsers(r), SeenRights(r), saved)
  BY SoloCall
<1>2. task'[r].id = task[r].id \/ task[r].kind \notin {"create", "register", "authorize", "remove"}
  BY <1>1 DEF Suits
<1>3. todo'[r] = Tail(todo[r])
  BY DEF IInv, TypeOK
<1>4. Progress(task[r].kind, task'[r].id, Tail(todo[r]), SeenUsers(r), SeenRights(r), saved)
  BY <1>1, <1>2, CheckProgress
<1> QED BY <1>1, <1>3, <1>4, UnseenFine

(* A call that is passed changes no file. *)
LEMMA PassSteps ==
    ASSUME IInv, NEW r \in Requests, Advance(r),
           task' = task \/ \E n : task' = [task EXCEPT ![r].id = n]
    PROVE  /\ Steps(r) /\ todo' = [todo EXCEPT ![r] = Tail(@)] /\ copy' = copy
<1>1. \A q \in Requests \ {r} : task'[q] = task[q]
  BY DEF IInv, TypeOK
<1>2. task'[r].kind = task[r].kind
  BY DEF IInv, TypeOK, Task
<1> QED BY <1>1, <1>2 DEF Steps, Marks, Advance, fileVars, historyVars

(* A check that fails ends the request. *)
LEMMA CheckEnds ==
    ASSUME IInv, ~mixed, Alone, NEW r \in Requests,
           NEW verb \in Checks \cup Sets \cup Closing \cup {"add user"}, At(r, verb), End(r)
    PROVE  Fine
<1>1. Busy(r) /\ writing[r] = None /\ Verb(r) = verb
  BY SoloCall
<1> QED BY <1>1, EndFine, EndsWhole

(* The calls of the managers, one by one. *)
LEMMA VerifyFine == ASSUME IInv, ~mixed, Alone, NEW r \in Requests, Verify(r) PROVE Fine
<1>1. At(r, "verify") /\ "verify" \in Checks
  BY DEF Verify, Checks
<1>2. CASE Pass(r)
  BY <1>1, <1>2, PassSteps, PassFine DEF Pass
<1>3. CASE End(r)
  BY <1>1, <1>3, CheckEnds
<1> QED BY <1>2, <1>3 DEF Verify

LEMMA ExistsFine == ASSUME IInv, ~mixed, Alone, NEW r \in Requests, Exists(r) PROVE Fine
<1>1. At(r, "exists") /\ "exists" \in Checks
  BY DEF Exists, Checks
<1>2. CASE Pass(r) /\ HasId(Users(r), task[r].id)
  <2>1. "users" \in read[r] /\ Busy(r)
    BY <1>1, SoloCall, CallTables
  <2>2. HasId(SeenUsers(r), task[r].id)
    BY <1>2, <2>1, SeenFacts
  <2> QED BY <1>1, <1>2, <2>2, PassSteps, PassFine DEF Pass
<1>3. CASE End(r)
  BY <1>1, <1>3, CheckEnds
<1> QED BY <1>2, <1>3 DEF Exists

LEMMA LimitFine == ASSUME IInv, ~mixed, Alone, NEW r \in Requests, Limit(r) PROVE Fine
<1>1. At(r, "limit") /\ "limit" \in Checks
  BY DEF Limit, Checks
<1>2. CASE Pass(r)
  BY <1>1, <1>2, PassSteps, PassFine DEF Pass
<1>3. CASE End(r)
  BY <1>1, <1>3, CheckEnds
<1> QED BY <1>2, <1>3 DEF Limit

LEMMA DieFine == ASSUME IInv, ~mixed, Alone, NEW r \in Requests, Die(r) PROVE Fine
<1>1. At(r, "die") /\ "die" \in Closing /\ End(r)
  BY DEF Die, Closing
<1> QED BY <1>1, CheckEnds

(* The caller is found and becomes the user the request is about. *)
LEMMA LoginFine == ASSUME IInv, ~mixed, Alone, NEW r \in Requests, Login(r) PROVE Fine
<1>1. At(r, "login") /\ "login" \in Checks
  BY DEF Login, Checks
<1>2. CASE End(r)
  BY <1>1, <1>2, CheckEnds
<1>3. CASE ~End(r)
  <2>1. Advance(r) /\ \E n : task' = [task EXCEPT ![r].id = n]
    BY <1>3 DEF Login
  <2> QED BY <1>1, <2>1, PassSteps, PassFine
<1> QED BY <1>2, <1>3

LEMMA FindFine == ASSUME IInv, ~mixed, Alone, NEW r \in Requests, Find(r) PROVE Fine
<1>1. At(r, "find") /\ "find" \in Checks
  BY DEF Find, Checks
<1>2. CASE End(r)
  BY <1>1, <1>2, CheckEnds
<1>3. CASE ~End(r)
  <2>1. Advance(r) /\ \E n : task' = [task EXCEPT ![r].id = n]
    BY <1>3 DEF Find
  <2> QED BY <1>1, <2>1, PassSteps, PassFine
<1> QED BY <1>2, <1>3

LEMMA CheckTokenFine == ASSUME IInv, ~mixed, Alone, NEW r \in Requests, CheckToken(r) PROVE Fine
<1>1. At(r, "check token") /\ "check token" \in Checks
  BY DEF CheckToken, Checks
<1>2. CASE End(r)
  BY <1>1, <1>2, CheckEnds
<1>3. CASE ~End(r)
  <2>1. Advance(r) /\ \E n : task' = [task EXCEPT ![r].id = n]
    BY <1>3 DEF CheckToken
  <2> QED BY <1>1, <2>1, PassSteps, PassFine
<1> QED BY <1>2, <1>3

(* A row of users_tokens comes or goes. *)
LEMMA TokenSteps ==
    ASSUME IInv, NEW r \in Requests, "tokens" \in read[r], NEW rows, Change(r, "tokens", rows),
           \A q \in Requests \ {r} : task'[q] = task[q], task'[r].kind = task[r].kind
    PROVE  /\ Steps(r) /\ todo' = [todo EXCEPT ![r] = Tail(@)]
           /\ copy'[r]["users"] = copy[r]["users"] /\ copy'[r]["rights"] = copy[r]["rights"]
BY ChangeMarks DEF Change, Steps, Tables

LEMMA OldTokenFine == ASSUME IInv, ~mixed, Alone, NEW r \in Requests, OldToken(r) PROVE Fine
<1>1. At(r, "old token") /\ "old token" \in Checks
  BY DEF OldToken, Checks
<1>2. CASE Pass(r)
  BY <1>1, <1>2, PassSteps, PassFine DEF Pass
<1>3. CASE End(r)
  BY <1>1, <1>3, CheckEnds
<1>4. CASE ~Pass(r) /\ ~End(r)
  <2>1. PICK i \in DOMAIN Tokens(r) : Change(r, "tokens", RemoveAt(Tokens(r), i)) /\ task' = task
    BY <1>4 DEF OldToken
  <2>2. "tokens" \in read[r]
    BY <1>1, SoloCall, CallTables
  <2>3. /\ Steps(r) /\ todo' = [todo EXCEPT ![r] = Tail(@)]
        /\ copy'[r]["users"] = copy[r]["users"] /\ copy'[r]["rights"] = copy[r]["rights"]
    BY <2>1, <2>2, TokenSteps
  <2> QED BY <1>1, <2>1, <2>3, PassFine
<1> QED BY <1>2, <1>3, <1>4

LEMMA AddTokenFine == ASSUME IInv, ~mixed, Alone, NEW r \in Requests, AddToken(r) PROVE Fine
<1>1. At(r, "add token") /\ "add token" \in Checks
  BY DEF AddToken, Checks
<1>2. CASE End(r)
  BY <1>1, <1>2, CheckEnds
<1>3. CASE ~End(r)
  <2> DEFINE n == NextId(Tokens(r))
             rows == Append(Tokens(r), [id |-> n, userId |-> task[r].id, key |-> keys])
  <2>1. Change(r, "tokens", rows) /\ task' = [task EXCEPT ![r].token = n, ![r].key = keys]
    BY <1>3 DEF AddToken
  <2> HIDE DEF n, rows
  <2>2. "tokens" \in read[r]
    BY <1>1, SoloCall, CallTables
  <2>3. /\ \A q \in Requests \ {r} : task'[q] = task[q]
        /\ task'[r].kind = task[r].kind /\ task'[r].id = task[r].id
    BY <2>1 DEF IInv, TypeOK, Task
  <2>4. /\ Steps(r) /\ todo' = [todo EXCEPT ![r] = Tail(@)]
        /\ copy'[r]["users"] = copy[r]["users"] /\ copy'[r]["rights"] = copy[r]["rights"]
    BY <2>1, <2>2, <2>3, TokenSteps
  <2> QED BY <1>1, <2>3, <2>4, PassFine
<1> QED BY <1>2, <1>3

LEMMA DropTokenFine == ASSUME IInv, ~mixed, Alone, NEW r \in Requests, DropToken(r) PROVE Fine
<1>1. At(r, "drop token") /\ "drop token" \in Closing
  BY DEF DropToken, Closing
<1>2. CASE End(r)
  BY <1>1, <1>2, CheckEnds
<1>3. CASE ~End(r)
  <2>1. PICK i \in DOMAIN Tokens(r) : Change(r, "tokens", RemoveAt(Tokens(r), i)) /\ task' = task
    BY <1>3 DEF DropToken
  <2>2. "tokens" \in read[r]
    BY <1>1, SoloCall, CallTables
  <2>3. /\ Steps(r) /\ todo' = [todo EXCEPT ![r] = Tail(@)]
        /\ copy'[r]["users"] = copy[r]["users"] /\ copy'[r]["rights"] = copy[r]["rights"]
    BY <2>1, <2>2, TokenSteps
  <2>4. todo'[r] = Tail(todo[r])
    BY <2>3 DEF IInv, TypeOK
  <2>5. /\ Busy(r) /\ writing[r] = None /\ todo[r] # <<>> /\ Head(todo[r])[1] = "drop token"
        /\ Progress(task[r].kind, task[r].id, todo[r], SeenUsers(r), SeenRights(r), saved)
    BY <1>1, SoloCall
  <2>6. Progress(task[r].kind, task[r].id, Tail(todo[r]), SeenUsers(r), SeenRights(r), saved)
    BY <2>5, LateProgress
  <2> QED BY <2>1, <2>3, <2>4, <2>5, <2>6, UnseenFine
<1> QED BY <1>2, <1>3

LEMMA MailFine == ASSUME IInv, ~mixed, Alone, NEW r \in Requests, Mail(r) PROVE Fine
<1>1. /\ Busy(r) /\ writing[r] = None /\ todo[r] # <<>> /\ Head(todo[r])[1] = "mail"
      /\ Progress(task[r].kind, task[r].id, todo[r], SeenUsers(r), SeenRights(r), saved)
  <2>1. At(r, "mail")
    BY DEF Mail
  <2> QED BY <2>1, SoloCall
<1>2. Steps(r) /\ task' = task /\ copy' = copy
  BY DEF Mail, Steps, Marks, Advance, fileVars, historyVars
<1>3. todo'[r] = Tail(todo[r]) \/ todo'[r] = <<Do("drop token")>>
  BY DEF Mail, Advance, Do, IInv, TypeOK
<1>4. Progress(task[r].kind, task[r].id, todo'[r], SeenUsers(r), SeenRights(r), saved)
  BY <1>1, <1>3, LateProgress
<1> QED BY <1>1, <1>2, <1>4, UnseenFine

(* A new collection of users, or of authorizations. *)
LEMMA UsersFine ==
    ASSUME IInv, Alone, NEW r \in Requests, Busy(r), writing[r] = None, "users" \in read[r],
           NEW rows, Change(r, "users", rows),
           \A q \in Requests \ {r} : task'[q] = task[q], task'[r].kind = task[r].kind,
           Progress(task[r].kind, task'[r].id, Tail(todo[r]), rows, SeenRights(r), saved)
    PROVE  Fine
<1>1. Store(r, "users", rows) /\ todo' = [todo EXCEPT ![r] = Tail(@)]
  BY DEF Change
<1>2. /\ Marks(r) /\ UNCHANGED <<disk, read, late, saved, mixed>>
      /\ \A u \in Tables : copy'[r][u] = IF u = "users" THEN rows ELSE copy[r][u]
  BY <1>1, ChangeMarks
<1>3. Steps(r)
  BY <1>2 DEF Steps
<1>4. SeenUsers(r)' = rows /\ SeenRights(r)' = SeenRights(r)
  BY <1>2 DEF SeenUsers, SeenRights, Tables
<1>5. todo'[r] = Tail(todo[r])
  BY <1>1 DEF IInv, TypeOK
<1>6. Advancing(r)'
  BY <1>2, <1>4, <1>5 DEF Advancing
<1> QED BY <1>3, <1>6, StepsFine

(* A change of users_permissions that keeps the progress. *)
LEMMA RightsFine ==
    ASSUME IInv, Alone, NEW r \in Requests, Busy(r), writing[r] = None, "rights" \in read[r],
           NEW rows, Store(r, "rights", rows), task' = task,
           Progress(task[r].kind, task[r].id, todo'[r], SeenUsers(r), rows, saved)
    PROVE  Fine
<1>1. /\ Marks(r) /\ UNCHANGED <<disk, read, late, saved, mixed>>
      /\ \A u \in Tables : copy'[r][u] = IF u = "rights" THEN rows ELSE copy[r][u]
  BY ChangeMarks
<1>2. Steps(r)
  BY <1>1 DEF Steps
<1>3. SeenUsers(r)' = SeenUsers(r) /\ SeenRights(r)' = rows
  BY <1>1 DEF SeenUsers, SeenRights, Tables
<1>4. Advancing(r)'
  BY <1>1, <1>3 DEF Advancing
<1> QED BY <1>2, <1>4, StepsFine

LEMMA AddUserFine == ASSUME IInv, ~mixed, Alone, NEW r \in Requests, AddUser(r) PROVE Fine
<1>1. At(r, "add user")
  BY DEF AddUser
<1>2. CASE End(r)
  BY <1>1, <1>2, CheckEnds
<1>3. CASE ~End(r)
  <2> DEFINE n == NextId(Users(r))
             row == [id |-> n, name |-> task[r].name, email |-> task[r].email,
                     enabled |-> task[r].enabled, password |-> "old"]
  <2>1. /\ ~HasName(Users(r), task[r].name) /\ ~HasEmail(Users(r), task[r].email)
        /\ Change(r, "users", Append(Users(r), row)) /\ task' = [task EXCEPT ![r].id = n]
    BY <1>3 DEF AddUser
  <2>2. /\ Busy(r) /\ writing[r] = None /\ todo[r] # <<>> /\ Head(todo[r])[1] = "add user"
        /\ Suits(task[r].kind, "add user") /\ "users" \in read[r] /\ Allowed(task[r].kind, "add user")
        /\ Progress(task[r].kind, task[r].id, todo[r], SeenUsers(r), SeenRights(r), saved)
    BY <1>1, SoloCall, ReadyCall, CallTables
  <2>3. SeenUsers(r) = Users(r) /\ Fit("users", Users(r))
    BY <2>2, SeenFacts
  <2>4. row \in UserRow
    <3>1. n \in Nat
      BY <2>3, NewIdIsNatural DEF Tables
    <3>2. task[r].name \in Names /\ task[r].email \in Emails /\ task[r].enabled \in BOOLEAN
      BY <2>2, CopyFacts DEF Allowed, IInv, Named, Given, Task
    <3> QED BY <3>1, <3>2 DEF UserRow, Passwords
  <2>5. row.id = NextId(Users(r)) /\ row.name = task[r].name /\ row.email = task[r].email
    OBVIOUS
  <2>6. task'[r].id = row.id /\ task'[r].kind = task[r].kind /\ \A q \in Requests \ {r} : task'[q] = task[q]
    BY <2>1 DEF IInv, TypeOK, Task
  <2> HIDE DEF row, n
  <2>7. Progress(task[r].kind, row.id, Tail(todo[r]), Append(Users(r), row), SeenRights(r), saved)
    BY <2>1, <2>2, <2>3, <2>4, <2>5, AddUserProgress
  <2> QED BY <2>1, <2>2, <2>6, <2>7, UsersFine
<1> QED BY <1>2, <1>3

LEMMA DropUserFine == ASSUME IInv, ~mixed, Alone, NEW r \in Requests, DropUser(r) PROVE Fine
<1>1. At(r, "drop user")
  BY DEF DropUser
<1>2. /\ Busy(r) /\ writing[r] = None /\ todo[r] # <<>> /\ Head(todo[r])[1] = "drop user"
      /\ Verb(r) = "drop user" /\ "users" \in read[r]
      /\ Progress(task[r].kind, task[r].id, todo[r], SeenUsers(r), SeenRights(r), saved)
  BY <1>1, SoloCall, CallTables
<1>3. SeenUsers(r) = Users(r)
  BY <1>2, SeenFacts
<1>4. CASE ~HasId(Users(r), task[r].id) /\ End(r)
  <2>1. Whole(saved, SeenBook(r))
    BY <1>2, <1>3, <1>4, EndsWhole
  <2> QED BY <1>2, <1>4, <2>1, EndFine
<1>5. ASSUME NEW i \in DOMAIN Users(r), Users(r)[i].id = task[r].id,
             Change(r, "users", RemoveAt(Users(r), i)), task' = task
      PROVE  Fine
  <2>1. Progress(task[r].kind, task[r].id, Tail(todo[r]), RemoveAt(Users(r), i), SeenRights(r), saved)
    BY <1>2, <1>3, <1>5, DropUserProgress
  <2> QED BY <1>2, <1>5, <2>1, UsersFine
<1> QED BY <1>4, <1>5 DEF DropUser

LEMMA RevokeFine == ASSUME IInv, ~mixed, Alone, NEW r \in Requests, Revoke(r) PROVE Fine
<1>1. At(r, "revoke")
  BY DEF Revoke
<1>2. /\ Busy(r) /\ writing[r] = None /\ todo[r] # <<>> /\ Head(todo[r])[1] = "revoke"
      /\ "rights" \in read[r]
      /\ Progress(task[r].kind, task[r].id, todo[r], SeenUsers(r), SeenRights(r), saved)
  BY <1>1, SoloCall, CallTables
<1>3. SeenRights(r) = Owned(r)
  BY <1>2, SeenFacts
<1>4. CASE ~HasOwner(Owned(r), task[r].id) /\ Pass(r)
  <2>1. Unowned(SeenRights(r), task[r].id)
    BY <1>3, <1>4 DEF Unowned, HasOwner
  <2>2. Progress(task[r].kind, task[r].id, Tail(todo[r]), SeenUsers(r), SeenRights(r), saved)
    BY <1>2, <2>1, RevokedProgress
  <2>3. Steps(r) /\ todo' = [todo EXCEPT ![r] = Tail(@)] /\ copy' = copy /\ task' = task
    BY <1>4, PassSteps DEF Pass
  <2>4. todo'[r] = Tail(todo[r])
    BY <2>3 DEF IInv, TypeOK
  <2> QED BY <1>2, <2>2, <2>3, <2>4, UnseenFine
<1>5. ASSUME NEW i \in DOMAIN Owned(r), FirstOwned(Owned(r), i, task[r].id),
             Store(r, "rights", RemoveAt(Owned(r), i)), task' = task, todo' = todo
      PROVE  Fine
  <2>1. Owned(r)[i].userId = task[r].id
    BY <1>5 DEF FirstOwned
  <2>2. Progress(task[r].kind, task[r].id, todo[r], SeenUsers(r), RemoveAt(Owned(r), i), saved)
    BY <1>2, <1>3, <2>1, RevokingProgress
  <2> QED BY <1>2, <1>5, <2>2, RightsFine
<1> QED BY <1>4, <1>5 DEF Revoke

LEMMA GrantFine == ASSUME IInv, ~mixed, Alone, NEW r \in Requests, Grant(r) PROVE Fine
<1> DEFINE n == NextId(Owned(r))
           row == [id |-> n, userId |-> task[r].id, right |-> Head(todo[r])[2]]
<1>1. At(r, "grant") /\ Change(r, "rights", Append(Owned(r), row)) /\ task' = task
  BY DEF Grant
<1>2. /\ Busy(r) /\ writing[r] = None /\ todo[r] # <<>> /\ Head(todo[r])[1] = "grant"
      /\ Head(todo[r]) \in Call /\ "rights" \in read[r]
      /\ Progress(task[r].kind, task[r].id, todo[r], SeenUsers(r), SeenRights(r), saved)
  BY <1>1, SoloCall, CallTables
<1>3. SeenRights(r) = Owned(r) /\ Fit("rights", Owned(r))
  BY <1>2, SeenFacts
<1>4. row \in RightRow
  <2>1. n \in Nat
    BY <1>3, NewIdIsNatural DEF Tables
  <2>2. task[r].id \in Nat
    BY CopyFacts DEF Task
  <2>3. Head(todo[r])[2] \in Rights
    BY <1>1, GrantedRight
  <2> QED BY <2>1, <2>2, <2>3 DEF RightRow
<1>5. row.id = NextId(Owned(r)) /\ row.userId = task[r].id /\ row.right = Head(todo[r])[2]
  OBVIOUS
<1> HIDE DEF row, n
<1>6. Progress(task[r].kind, task[r].id, Tail(todo[r]), SeenUsers(r), Append(Owned(r), row), saved)
  BY <1>2, <1>3, <1>4, <1>5, GrantProgress
<1>7. Store(r, "rights", Append(Owned(r), row)) /\ todo'[r] = Tail(todo[r])
  BY <1>1 DEF Change, IInv, TypeOK
<1> QED BY <1>1, <1>2, <1>6, <1>7, RightsFine

(* update() of the row of a user. *)
LEMMA UpdateFine ==
    ASSUME IInv, Alone, NEW r \in Requests, NEW verb \in Sets, At(r, verb),
           NEW i \in DOMAIN Users(r), NEW row \in UserRow,
           row.id = Users(r)[i].id, Rewrites(r, i, row)
    PROVE  Fine
<1> DEFINE rows == [Users(r) EXCEPT ![i] = row]
<1>1. /\ row.name = Users(r)[i].name \/ ~HasName(Users(r), row.name)
      /\ row.email = Users(r)[i].email \/ ~HasEmail(Users(r), row.email)
      /\ Change(r, "users", rows) /\ task' = task
  BY DEF Rewrites
<1>2. verb \in {"exists", "add user", "drop user", "set attributes", "set password", "rehash"}
  BY DEF Sets
<1>3. /\ Busy(r) /\ writing[r] = None /\ todo[r] # <<>> /\ Head(todo[r])[1] = verb
      /\ "users" \in read[r]
      /\ Progress(task[r].kind, task[r].id, todo[r], SeenUsers(r), SeenRights(r), saved)
  BY <1>2, SoloCall, CallTables
<1>4. SeenUsers(r) = Users(r)
  BY <1>3, SeenFacts
<1>5. Progress(task[r].kind, task[r].id, Tail(todo[r]), rows, SeenRights(r), saved)
  BY <1>1, <1>3, <1>4, SetUserProgress
<1> HIDE DEF rows
<1> QED BY <1>1, <1>3, <1>5, UsersFine

LEMMA SetUserFine == ASSUME IInv, ~mixed, Alone, NEW r \in Requests, SetUser(r) PROVE Fine
<1>1. PICK verb \in Sets : At(r, verb)
  BY DEF SetUser, Sets
<1>2. CASE End(r)
  BY <1>1, <1>2, CheckEnds
<1>3. CASE ~End(r)
  <2>1. PICK i \in DOMAIN Users(r), row \in UserRow : row.id = Users(r)[i].id /\ Rewrites(r, i, row)
    BY <1>1, <1>3, SetUserRow DEF Becomes
  <2> QED BY <1>1, <2>1, UpdateFine
<1> QED BY <1>2, <1>3

LEMMA ManagerFine == ASSUME IInv, ~mixed, Alone, NEW r \in Requests, Manager(r) PROVE Fine
BY VerifyFine, ExistsFine, LimitFine, AddUserFine, SetUserFine, DropUserFine, RevokeFine,
   GrantFine, LoginFine, FindFine, OldTokenFine, AddTokenFine, MailFine, DieFine,
   CheckTokenFine, DropTokenFine DEF Manager

(* What it reads is what it would have read. *)
LEMMA OpenFine == ASSUME IInv, ~mixed, Alone, NEW r \in Requests, Open(r) PROVE Fine
<1> DEFINE t == TableOf(Verb(r))
<1>1. Busy(r) /\ writing[r] = None /\ todo[r] # <<>> /\ t \notin read[r]
  BY DEF Open
<1>2. /\ Running = {r} /\ torn = {} /\ saved \in Books
      /\ SeenUsers(r) = disk["users"] /\ SeenRights(r) = disk["rights"]
      /\ Progress(task[r].kind, task[r].id, todo[r], SeenUsers(r), SeenRights(r), saved)
  BY <1>1, SeenFacts DEF Advancing
<1>3. /\ read' = [read EXCEPT ![r] = @ \cup {t}]
      /\ copy' = [copy EXCEPT ![r][t] = disk[t]]
      /\ todo' = [todo EXCEPT ![r] = IF Verb(r) \in Reads THEN Tail(@) ELSE @]
      /\ UNCHANGED <<disk, torn, task, writing, late, saved>>
  BY <1>2 DEF Open, fileVars, historyVars
<1>4. t \in Tables
  BY DEF TableOf, Tables
<1> HIDE DEF t
<1>5. Fit(t, disk[t])
  BY <1>4 DEF IInv, FilesFit
<1>6. OneCopy(r, t, disk[t])
  BY <1>3, <1>4, <1>5, CopyChanges
<1>7. read'[r] = read[r] \cup {t} /\ \A q \in Requests \ {r} : read'[q] = read[q]
  BY <1>3 DEF IInv, TypeOK
<1>8. \A q \in Requests : \A u \in read'[q] : writing'[q] # u => copy'[q][u] = disk'[u]
  <2> SUFFICES ASSUME NEW q \in Requests, NEW u \in read'[q], writing'[q] # u
               PROVE  copy'[q][u] = disk'[u]
    OBVIOUS
  <2>1. u \in Tables
    BY <1>4, <1>7 DEF IInv, TypeOK
  <2>2. CASE q = r /\ u = t
    BY <1>3, <1>6, <2>1, <2>2 DEF OneCopy
  <2>3. CASE ~(q = r /\ u = t)
    <3>1. u \in read[q]
      BY <1>7, <2>3
    <3>2. copy'[q][u] = copy[q][u]
      BY <1>6, <2>1, <2>3 DEF OneCopy
    <3> QED BY <1>3, <3>1, <3>2 DEF Alone
  <2> QED BY <2>2, <2>3
<1>9. SeenUsers(r)' = SeenUsers(r) /\ SeenRights(r)' = SeenRights(r)
  <2>1. None \notin Tables
    BY DEF None, Tables
  <2>2. \A u \in read'[r] : u \in Tables
    BY <1>4, <1>7 DEF IInv, TypeOK
  <2>3. \A u \in read'[r] : copy'[r][u] = disk[u]
    BY <1>1, <1>3, <1>8, <2>1, <2>2
  <2> QED BY <1>2, <1>3, <2>3 DEF SeenUsers, SeenRights
<1>10. todo'[r] = IF Verb(r) \in Reads THEN Tail(todo[r]) ELSE todo[r]
  BY <1>3 DEF IInv, TypeOK
<1>11. Progress(task[r].kind, task[r].id, todo'[r], SeenUsers(r), SeenRights(r), saved)
  <2>1. CASE Verb(r) \in Reads
    <3>1. Head(todo[r])[1] \in Checks /\ Head(todo[r])[1] # "exists"
      BY <2>1 DEF Reads, Checks, Verb
    <3> QED BY <1>1, <1>2, <1>10, <2>1, <3>1, CheckProgress
  <2>2. CASE Verb(r) \notin Reads
    BY <1>2, <1>10, <2>2
  <2> QED BY <2>1, <2>2
<1>12. Advancing(r)'
  BY <1>3, <1>9, <1>11 DEF Advancing
<1>13. Running' = {r}
  BY <1>2, <1>3 DEF Running
<1>14. Alone'
  BY <1>2, <1>3, <1>8, <1>12, <1>13 DEF Alone
<1> QED BY <1>3, <1>14 DEF Fine, Whole

(* What it writes is what it sees already. *)
LEMMA PutFine == ASSUME IInv, ~mixed, Alone, NEW r \in Requests, Put(r) PROVE Fine
<1> DEFINE t == writing[r]
<1>1. t # None /\ t \in read[r] /\ t \in Tables /\ Busy(r)
  BY DEF Put, IInv, TypeOK, Quiet, Busy
<1>2. Running = {r} /\ Advancing(r)
  BY <1>1, SeenFacts
<1>3. \A q \in Requests \ {r} : read[q] = {} /\ writing[q] = None
  <2>1. \A q \in Requests \ {r} : task[q].kind = None
    BY <1>2 DEF Running
  <2> QED BY <2>1 DEF IInv, Quiet
<1>4. /\ disk' = [disk EXCEPT ![t] = copy[r][t]] /\ torn' = torn \ {t}
      /\ UNCHANGED <<task, todo, read, copy, saved>>
      /\ writing' = [writing EXCEPT ![r] = None]
  BY DEF Put, Alone, historyVars
<1>5. late' = {}
  <2>1. late' = (late \ {r}) \cup {q \in Requests \ {r} : writing[q] = t}
    BY DEF Put
  <2> QED BY <1>1, <1>3, <2>1 DEF Alone
<1>6. torn' = {}
  BY <1>2, <1>4 DEF Alone
<1>7. disk'[t] = copy[r][t] /\ \A u \in Tables : u # t => disk'[u] = disk[u]
  BY <1>1, <1>4 DEF IInv, TypeOK, Files
<1> HIDE DEF t
<1>8. \A q \in Requests : \A u \in read'[q] : copy'[q][u] = disk'[u]
  <2> SUFFICES ASSUME NEW u \in read[r] PROVE copy[r][u] = disk'[u]
    BY <1>3, <1>4
  <2>1. u \in Tables
    BY DEF IInv, TypeOK
  <2>2. u # t => copy[r][u] = disk[u]
    BY DEF Alone, t
  <2> QED BY <1>7, <2>1, <2>2
<1>9. SeenUsers(r)' = SeenUsers(r) /\ SeenRights(r)' = SeenRights(r)
  <2>1. "users" \notin read[r] => disk'["users"] = disk["users"]
    BY <1>1, <1>7 DEF Tables
  <2>2. "rights" \notin read[r] => disk'["rights"] = disk["rights"]
    BY <1>1, <1>7 DEF Tables
  <2> QED BY <1>4, <2>1, <2>2 DEF SeenUsers, SeenRights
<1>10. Advancing(r)' /\ Running' = {r}
  BY <1>2, <1>4, <1>9 DEF Advancing, Running
<1>11. Alone'
  BY <1>5, <1>6, <1>8, <1>10 DEF Alone
<1> QED BY <1>4, <1>11 DEF Fine, Whole

(* A request that has made all its calls has changed the book as a whole. *)
LEMMA AnswerFine == ASSUME IInv, ~mixed, Alone, NEW r \in Requests, Answer(r) PROVE Fine
<1>1. Busy(r) /\ writing[r] = None /\ todo[r] = <<>> /\ End(r)
  BY DEF Answer
<1> QED BY <1>1, EndsWhole, EndFine

(* Who begins when nothing runs finds the book as it was saved. *)
LEMMA PlansFine == ASSUME IInv, ~mixed, Alone, ~mixed', NEW r \in Requests, Plans(r) PROVE Fine
<1>1. PICK t, calls, now :
        /\ t \in Task /\ calls \in Seq(Call)
        /\ Begin(r, t, calls, now)
        /\ Plan(t.kind, t.id, calls, disk["users"])
  BY DEF Plans
<1>2. /\ task' = [task EXCEPT ![r] = t] /\ todo' = [todo EXCEPT ![r] = calls]
      /\ mixed' = (mixed \/ Running # {})
      /\ UNCHANGED <<disk, torn, read, copy, writing, late, saved>>
  BY <1>1 DEF Begin, fileVars
<1>3. Running = {} /\ torn = {}
  BY <1>2 DEF Alone
<1>4. saved = BookOf(disk) /\ StraysKnown(disk["users"], disk["rights"])
  BY <1>3 DEF Alone
<1>5. read[r] = {}
  BY <1>3 DEF Running, IInv, Quiet
<1>6. Fit("users", disk["users"]) /\ Fit("rights", disk["rights"])
  BY DEF IInv, FilesFit, Tables
<1>7. Progress(t.kind, t.id, calls, disk["users"], disk["rights"], saved)
  BY <1>1, <1>4, <1>6, PlanProgress, BookOfTables
<1>8. task'[r] = t /\ todo'[r] = calls /\ \A q \in Requests \ {r} : task'[q] = task[q]
  BY <1>2 DEF IInv, TypeOK
<1>9. Running' \subseteq {r}
  BY <1>3, <1>8 DEF Running
<1>10. Advancing(r)'
  <2>1. SeenUsers(r)' = disk["users"] /\ SeenRights(r)' = disk["rights"]
    BY <1>2, <1>5 DEF SeenUsers, SeenRights
  <2> QED BY <1>2, <1>7, <1>8, <2>1 DEF Advancing
<1>11. saved' = BookOf(disk)' /\ StraysKnown(disk["users"], disk["rights"])'
  BY <1>2, <1>4
<1>12. \A q \in Requests : \A u \in read'[q] : writing'[q] # u => copy'[q][u] = disk'[u]
  BY <1>2 DEF Alone
<1>13. Alone'
  BY <1>2, <1>3, <1>9, <1>10, <1>11, <1>12 DEF Alone
<1> QED BY <1>2, <1>13 DEF Fine, Whole

-----------------------------------------------------------------------------
(* Once requests have overlapped, the book is not looked at any more. *)
Unsaved == mixed' /\ saved' = saved

(* A step after requests have overlapped. *)
LEMMA EndUnsaved == ASSUME mixed, NEW r, End(r) PROVE Unsaved
BY DEF End, Unsaved

LEMMA AdvanceUnsaved == ASSUME mixed, NEW r, Advance(r) PROVE Unsaved
BY DEF Advance, historyVars, Unsaved

LEMMA StoreUnsaved == ASSUME mixed, NEW r, NEW t, NEW rows, Store(r, t, rows) PROVE Unsaved
BY DEF Store, historyVars, Unsaved

LEMMA ManagerUnsaved == ASSUME mixed, NEW r, Manager(r) PROVE Unsaved
<1>1. Verify(r) \/ Exists(r) \/ Limit(r) \/ Die(r) => Unsaved
  BY EndUnsaved, AdvanceUnsaved DEF Verify, Exists, Limit, Die, Pass
<1>2. Login(r) \/ Find(r) \/ CheckToken(r) => Unsaved
  BY EndUnsaved, AdvanceUnsaved DEF Login, Find, CheckToken
<1>3. AddUser(r) \/ AddToken(r) \/ Grant(r) => Unsaved
  BY EndUnsaved, StoreUnsaved DEF AddUser, AddToken, Grant, Change
<1>4. SetUser(r) => Unsaved
  BY EndUnsaved, StoreUnsaved DEF SetUser, Update, Change
<1>5. DropUser(r) \/ DropToken(r) => Unsaved
  BY EndUnsaved, StoreUnsaved DEF DropUser, DropToken, Change
<1>6. Revoke(r) \/ OldToken(r) => Unsaved
  BY EndUnsaved, AdvanceUnsaved, StoreUnsaved DEF Revoke, OldToken, Change, Pass
<1>7. Mail(r) => Unsaved
  BY AdvanceUnsaved DEF Mail, historyVars, Unsaved
<1> QED BY <1>1, <1>2, <1>3, <1>4, <1>5, <1>6, <1>7 DEF Manager

LEMMA OtherUnsaved ==
    ASSUME mixed, NEW r, Open(r) \/ Put(r) \/ Answer(r) \/ Kill(r)
    PROVE  Unsaved
<1>1. Open(r) \/ Answer(r) => Unsaved
  BY EndUnsaved DEF Open, Answer, historyVars, Unsaved
<1>2. Put(r) \/ Kill(r) => Unsaved
  BY DEF Put, Kill, historyVars, Unsaved
<1> QED BY <1>1, <1>2

(* A request that begins leaves the book alone. *)
LEMMA BeginUnsaved ==
    ASSUME IInv, NEW r \in Requests, Controller(r)
    PROVE  saved' = saved /\ (mixed => mixed')
BY ControllerPlans DEF Plans, Begin

-----------------------------------------------------------------------------
(* Each step changes the book as one of AccountBook does. *)

(* Nobody who is not there has been granted anything but what was shipped. *)
LEMMA ShippedStrays == Init => StraysKnown(disk["users"], disk["rights"])
<1> SUFFICES ASSUME Init, NEW n \in Nat, ~HasId(Shipped["users"], n)
             PROVE  RightsOf(Shipped["rights"], n) \in Legacies
  BY DEF StraysKnown, Init
<1>1. CASE Unowned(Shipped["rights"], n)
  BY <1>1, NoRights
<1>2. CASE ~Unowned(Shipped["rights"], n)
  <2>1. PICK i \in DOMAIN Shipped["rights"] : Shipped["rights"][i].userId = n
    BY <1>2 DEF Unowned
  <2>2. Shipped["rights"][i] \in {q \in ToSet(Shipped["rights"]) : ~HasId(Shipped["users"], q.userId)}
    BY <2>1 DEF ToSet
  <2>3. n \in Strays
    BY <2>1, <2>2 DEF Strays
  <2> QED BY <2>3 DEF Legacies
<1> QED BY <1>1, <1>2

(* The server starts with nobody in the way. *)
LEMMA InitSolo == Init => Solo
<1> SUFFICES ASSUME Init PROVE Alone
  BY DEF Solo
<1>1. Running = {}
  BY DEF Init, Running, Idle
<1>2. saved = BookOf(disk) /\ StraysKnown(disk["users"], disk["rights"])
  BY ShippedStrays DEF Init
<1>3. torn = {} /\ late = {} /\ \A r \in Requests : read[r] = {}
  BY DEF Init
<1> QED BY <1>1, <1>2, <1>3 DEF Alone

(* A whole change of the book of a running request is a step of AccountBook. *)
LEMMA FineSteps ==
    ASSUME IInv, Alone, NEW r \in Requests, Busy(r), Fine
    PROVE  Solo' /\ [Book!BookNext]_saved
<1>1. saved \in Books
  BY SeenFacts
<1> QED BY <1>1, WholeSteps DEF Fine, Solo

(* Only a request that runs acts. *)
LEMMA ActingBusy ==
    ASSUME IInv, NEW r \in Requests, Manager(r) \/ Open(r) \/ Put(r) \/ Answer(r)
    PROVE  Busy(r)
<1>1. Manager(r) => Busy(r)
  BY DEF Manager, At, Verify, Exists, Limit, AddUser, SetUser, DropUser, Revoke, Grant, Login,
         Find, OldToken, AddToken, Mail, Die, CheckToken, DropToken
<1>2. Put(r) => Busy(r)
  BY DEF Put, IInv, Quiet, Busy
<1> QED BY <1>1, <1>2 DEF Open, Answer

(* The step that keeps both is a step of AccountBook. *)
LEMMA NextSolo ==
    ASSUME IInv, Solo, [Next]_vars
    PROVE  Solo' /\ [Book!BookNext]_saved
<1>1. ASSUME NEW r \in Requests, Controller(r)
      PROVE  Solo' /\ [Book!BookNext]_saved
  <2>1. saved' = saved /\ (mixed => mixed')
    BY <1>1, BeginUnsaved
  <2>2. ~mixed' => Alone'
    BY <1>1, <2>1, ControllerPlans, PlansFine DEF Solo, Fine
  <2> QED BY <2>1, <2>2 DEF Solo
<1>2. ASSUME NEW r \in Requests, Manager(r) \/ Open(r) \/ Put(r) \/ Answer(r)
      PROVE  Solo' /\ [Book!BookNext]_saved
  <2>1. CASE mixed
    BY <1>2, <2>1, ManagerUnsaved, OtherUnsaved DEF Unsaved, Solo
  <2>2. CASE ~mixed
    <3>1. Alone /\ Busy(r)
      BY <1>2, <2>2, ActingBusy DEF Solo
    <3>2. Fine
      BY <1>2, <2>2, <3>1, ManagerFine, OpenFine, PutFine, AnswerFine
    <3> QED BY <3>1, <3>2, FineSteps
  <2> QED BY <2>1, <2>2
<1>3. ASSUME NEW r \in Requests, Kill(r)
      PROVE  Solo' /\ [Book!BookNext]_saved
  BY <1>3 DEF Kill, Solo
<1>4. CASE UNCHANGED vars
  <2>1. Alone' <=> Alone
    BY <1>4 DEF vars, fileVars, requestVars, historyVars, Alone, Running, Advancing, SeenUsers,
                SeenRights, BookOf
  <2> QED BY <1>4, <2>1 DEF vars, historyVars, Solo
<1> QED BY <1>1, <1>2, <1>3, <1>4 DEF Next

(* As long as requests neither overlap nor are killed, each of them changes *)
(* the book of accounts as a single step of AccountBook does, or not at     *)
(* all, for any requests, lists, limits and shipped tables.                 *)
THEOREM BookStaysKept == Spec => BookKept
<1>1. Init => Solo
  BY InitSolo
<1>2. Init => saved = BookOf(Shipped)
  BY DEF Init
<1>3. IInv /\ Solo /\ [Next]_vars => Solo' /\ [Book!BookNext]_saved
  BY NextSolo
<1> QED BY <1>1, <1>2, <1>3, IInvKept, PTL DEF Spec, BookKept, Book!BookSpec
=============================================================================
