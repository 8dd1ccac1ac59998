--------------------------- MODULE RequestReply ---------------------------
(***************************************************************************)
(* What Webos.ServerCall promises the application, transports, retries and *)
(* grouping aside: a call that is loaded gets one reply, and that reply    *)
(* never changes.                                                          *)
(***************************************************************************)
CONSTANTS
  Calls,    \* the calls
  Replies   \* what a call can be answered

Unanswered == "none"

VARIABLES
  asked,    \* the calls loaded so far
  reply,    \* [Calls -> Replies \cup {Unanswered}]
  withheld  \* the calls the medium is keeping from being answered, as it likes

rrVars == <<asked, reply>>

RRInit ==
  /\ asked = {}
  /\ reply = [c \in Calls |-> Unanswered]

(* The application loads some calls; ScriptFile.load loads several at once. *)
Ask(S) ==
  /\ S # {}
  /\ S \subseteq Calls \ asked
  /\ asked' = asked \cup S
  /\ UNCHANGED reply

(* One callback of the call, success or error, is about to run. *)
Reply(c) ==
  /\ c \in asked
  /\ reply[c] = Unanswered
  /\ \E r \in Replies : reply' = [reply EXCEPT ![c] = r]
  /\ UNCHANGED asked

RRNext == (\E S \in SUBSET Calls : Ask(S)) \/ (\E c \in Calls : Reply(c))

RRSafety == RRInit /\ [][RRNext]_rrVars

(* A call that the medium does not keep for ever gets its reply. *)
RRSpec == RRSafety /\ \A c \in Calls : WF_rrVars(c \notin withheld /\ Reply(c))
=============================================================================
