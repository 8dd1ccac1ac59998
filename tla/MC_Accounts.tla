---------------------------- MODULE MC_Accounts ----------------------------
(* An instance of Accounts for TLC. *)
EXTENDS Accounts

CONSTANTS r1, r2, demo, admin, ann, bob, contact, mail, post

User(n, name) == [id |-> n, name |-> name, email |-> contact, enabled |-> TRUE, password |-> "old"]

ShippedTables ==
  [t \in Tables |->
     CASE t = "users"  -> <<User(0, demo), User(1, admin)>>
       [] t = "rights" -> <<[id |-> 0, userId |-> 1, right |-> "manage"],
                            [id |-> 1, userId |-> 2, right |-> "write"]>>
       [] t = "tokens" -> <<>>]

GivenAttributes == {{"email"}, {"id", "name"}}
GivenLists == {<<"read", "write">>}
NewUsers == <<"read">>
Alike == Permutations(Requests) \cup Permutations(NewNames) \cup Permutations(NewEmails)
=============================================================================
