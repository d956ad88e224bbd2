------------------------- MODULE AbstractAssignment -------------------------
(***************************************************************************)
(* What the resource-assignment search promises the scheduler, with the   *)
(* search itself left out.  A request for a cycle is answered in one step *)
(* either with the first complete assignment of the move in candidate      *)
(* order, which the move then holds until it is unscheduled, or with       *)
(* "exhausted" when no complete assignment exists in that cycle.           *)
(* AssignmentPlan implements this under the mapping in MC_AssignmentPlan.  *)
(***************************************************************************)
CONSTANTS
  Cycles,        \* cycles the scheduler may request
  Solutions(_),  \* complete assignments of the move in a cycle
  Before(_, _),  \* the candidate order on complete assignments
  NONE

VARIABLES
  status,   \* "idle", "pending" (a request is being searched) or "assigned"
  req,      \* the cycle of the last request
  holds,    \* the assignment the move holds, or NONE
  answer    \* the last answer: [kind, cycle], or NONE

vars == << status, req, holds, answer >>

\* The assignment the search must return for cycle c.
First(c) == CHOOSE f \in Solutions(c) : \A g \in Solutions(c) : ~Before(g, f)

Init ==
  /\ status = "idle"
  /\ req = 0
  /\ holds = NONE
  /\ answer = NONE

Request(c) ==
  /\ status = "idle"
  /\ status' = "pending"
  /\ req' = c
  /\ UNCHANGED << holds, answer >>

Grant ==
  /\ status = "pending"
  /\ Solutions(req) # {}
  /\ status' = "assigned"
  /\ holds' = First(req)
  /\ answer' = [kind |-> "found", cycle |-> req]
  /\ UNCHANGED req

Refuse ==
  /\ status = "pending"
  /\ Solutions(req) = {}
  /\ status' = "idle"
  /\ answer' = [kind |-> "exhausted", cycle |-> req]
  /\ UNCHANGED << req, holds >>

Release ==
  /\ status = "assigned"
  /\ status' = "idle"
  /\ holds' = NONE
  /\ UNCHANGED << req, answer >>

Next == (\E c \in Cycles : Request(c)) \/ Grant \/ Refuse \/ Release

\* A pending request is answered; nothing obliges the scheduler to make a
\* request or to unschedule a move.
Spec == Init /\ [][Next]_vars /\ WF_vars(Grant) /\ WF_vars(Refuse)

=============================================================================
