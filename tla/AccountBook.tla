---------------------------- MODULE AccountBook ----------------------------
(***************************************************************************)
(* What the accounts of the server promise a caller nobody interferes      *)
(* with: a call of UserController changes the people and what they may do  *)
(* in one step, or changes neither.                                        *)
(***************************************************************************)
CONSTANTS Names, Emails, Passwords,
          Lists,    \* the sets of authorizations that are given
          Legacies, \* those that wait for a person who is still to come
          Start     \* the book at first

VARIABLE book   \* [people : who has an account, granted : what they may do]

Person == [name : Names, email : Emails, enabled : BOOLEAN, password : Passwords]

KnownNames == {p.name : p \in book.people}
KnownEmails == {p.email : p \in book.people}

(* A new person comes with all the authorizations of the list, takes over a *)
(* legacy, and brings a name and an e-mail address that nobody has.         *)
Enrol(p, list, legacy) ==
  /\ p.name \notin KnownNames
  /\ p.email \notin KnownEmails
  /\ book' = [people  |-> book.people \cup {p},
              granted |-> book.granted \cup ({p.name} \X (list \cup legacy))]

(* The name, the e-mail address, the password or the enabling of a person   *)
(* changes; what was granted to him stays his.                              *)
Edit(p, q) ==
  /\ q.name = p.name \/ q.name \notin KnownNames
  /\ q.email = p.email \/ q.email \notin KnownEmails
  /\ book' = [people  |-> (book.people \ {p}) \cup {q},
              granted |-> {<<IF g[1] = p.name THEN q.name ELSE g[1], g[2]>> : g \in book.granted}]

(* The list replaces what the person was allowed to do. *)
Authorize(p, list) ==
  book' = [book EXCEPT !.granted = {g \in @ : g[1] # p.name} \cup ({p.name} \X list)]

(* A person leaves with everything that was granted to him. *)
Leave(p) ==
  book' = [people  |-> book.people \ {p},
           granted |-> {g \in book.granted : g[1] # p.name}]

BookNext ==
  /\ book' # book
  /\ \/ \E p \in Person, list \in Lists, legacy \in Legacies : Enrol(p, list, legacy)
     \/ \E p \in book.people : \/ \E q \in Person : Edit(p, q)
                               \/ \E list \in Lists : Authorize(p, list)
                               \/ Leave(p)

BookSpec == book = Start /\ [][BookNext]_book
=============================================================================
