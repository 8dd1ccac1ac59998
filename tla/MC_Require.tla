---------------------------- MODULE MC_Require ----------------------------
(* An instance of Require for TLC.  `app' requires two scripts, both of which  *)
(* require a third, and in its callback the optional `theme'; the   *)
(* rest of the system asks for `app', for scripts `app' requires too, and  *)
(* for `theme', which does not wait for what it requires.                  *)
EXTENDS Require

Scripts == {"app", "gtk", "file", "util", "theme"}
DepsOf == [f \in Scripts |->
             CASE f = "app"             -> <<"gtk", "file">>
               [] f \in {"gtk", "file"} -> <<"util">>
               [] f = "theme"           -> <<"file">>
               [] OTHER                 -> <<>>]
LaterOf == [f \in Scripts |-> IF f = "app" THEN <<"theme">> ELSE <<>>]
DepthOf == [f \in Scripts |-> CASE f = "app" -> 3 [] f = "theme" -> 2
                                [] f = "util" -> 0 [] OTHER -> 1]
Wanted == {<<"app">>, <<"file">>, <<"util", "gtk">>}
=============================================================================
