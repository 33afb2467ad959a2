----------------------------- MODULE RequestReply -----------------------------
(***************************************************************************)
(* What the MCP server promises about the requests of its clients.  A        *)
(* request is answered at most once, and not while its tool is still due to   *)
(* run; a client may be given up at any moment, and the tool then runs all    *)
(* the same, once, unless the server has been stopped in between.            *)
(***************************************************************************)
EXTENDS FiniteSets, Naturals

CONSTANTS Requests, Limit    \* Limit: tools accepted and not yet run
VARIABLES
  stage,    \* of the request, as its client sees it
  work      \* of the request's tool

Due == {r \in Requests : work[r] = "accepted"}

Init ==
  /\ stage = [r \in Requests |-> "idle"]
  /\ work = [r \in Requests |-> "none"]

Ask(r) ==
  /\ stage[r] = "idle" /\ stage' = [stage EXCEPT ![r] = "asked"]
  /\ UNCHANGED work

Accept(r) ==
  /\ stage[r] \in {"asked", "dropped"} /\ work[r] = "none" /\ Cardinality(Due) < Limit
  /\ work' = [work EXCEPT ![r] = "accepted"]
  /\ UNCHANGED stage

Perform(r) ==
  /\ work[r] = "accepted" /\ work' = [work EXCEPT ![r] = "done"]
  /\ UNCHANGED stage

Answer(r) ==
  /\ stage[r] = "asked" /\ work[r] # "accepted"
  /\ stage' = [stage EXCEPT ![r] = "answered"]
  /\ UNCHANGED work

GiveUp(S) ==
  /\ \A r \in S : stage[r] = "asked"
  /\ stage' = [r \in Requests |-> IF r \in S THEN "dropped" ELSE stage[r]]
  /\ UNCHANGED work

\* The server stops: what it has not begun it never begins.
Forget ==
  /\ work' = [r \in Requests |-> IF work[r] = "accepted" THEN "lost" ELSE work[r]]
  /\ UNCHANGED stage

Next ==
  \/ \E r \in Requests : Ask(r) \/ Accept(r) \/ Perform(r) \/ Answer(r)
  \/ \E S \in SUBSET Requests : GiveUp(S)
  \/ Forget

Spec == Init /\ [][Next]_<<stage, work>>

=============================================================================
