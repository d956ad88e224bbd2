--------------------------- MODULE AssignmentPlan ---------------------------
(***************************************************************************)
(* The resource-assignment search for one move: AssignmentPlan with one    *)
(* PendingAssignment per broker (src/tce/src/applibs/Scheduler/            *)
(* ResourceManager/AssignmentPlan.cc, PendingAssignment.cc).  A broker     *)
(* owns resources that behave as SegmentResource records (in use or not   *)
(* per cycle, ResourceModel/SegmentResource.cc) and offers the ones that   *)
(* can be assigned, as InputPSocketBroker does (ResourceManager/           *)
(* InputPSocketBroker.cc): not in use in the cycle and related to every    *)
(* resource already chosen for the move.  The candidate list is sorted by  *)
(* a fixed rank, abstracting the use-count/name order.                     *)
(*                                                                         *)
(* The operations are the plan's public calls, made by the scheduler's    *)
(* search loop (Driver, from the design: try the current broker's next     *)
(* candidate and advance, else backtrack, and give up at the first broker).*)
(***************************************************************************)
EXTENDS Integers, FiniteSets, Sequences
LOCAL INSTANCE SequencesExt

CONSTANTS
  BrokerSeq,   \* brokers in insertBroker() order
  Applicable,  \* [brokers -> BOOLEAN]: isApplicable(node) for the move
  Owns,        \* [brokers -> SUBSET Resources]: resources a broker manages
  Resources,
  Related,     \* set of {r, s}: resources of two brokers usable together
  PreBusy,     \* [Cycles -> SUBSET Resources]: in use by other moves
  Rank,        \* [Resources -> Nat]: order of availableResources_.sort()
  Cycles,      \* cycles the scheduler may request
  NONE

Brokers == { BrokerSeq[i] : i \in DOMAIN BrokerSeq }

ASSUME \A b, d \in Brokers : b # d => Owns[b] \cap Owns[d] = {}
ASSUME \E b \in Brokers : Applicable[b]
ASSUME \A b \in Brokers : \A r, s \in Owns[b] : r # s => Rank[r] # Rank[s]

VARIABLES
  placed,      \* MoveNode placed_
  cycle,       \* MoveNode cycle_ (meaningful when placed)
  reqCycle,    \* cycle_ of the plan and its pending assignments
  appl,        \* applicableAssignments_: applicable brokers, in order
  cur,         \* currentBroker_: index into appl, from 0
  found,       \* resourceFound_
  lastTried,   \* [brokers -> Int]: lastTriedAssignment_
  avail,       \* [brokers -> Seq(Resources)]: availableResources_
  assigned,    \* [brokers -> Resources \cup {NONE}]: assignedResources_[node]
  inUse,       \* [Resources -> SUBSET Cycles]: SegmentResource resourceRecord_
  pc,          \* the driver's position in its loop
  outcome,     \* the driver's last answer for a request
  err          \* the exception raised, or NONE

planVars == << placed, cycle, reqCycle, appl, cur, found, lastTried, avail,
               assigned, inUse, err >>
vars == << planVars, pc, outcome >>

\* The broker at position i of the applicable sequence.
At(i) == appl[i + 1]
ApplSet == { b \in Brokers : Applicable[b] }

(***************************************************************************)
(* InputPSocketBroker's resources, from the machine: the MC module builds   *)
(* Owns and Related of the input socket broker with these.                 *)
(***************************************************************************)
\* buildResources(): one resource per socket whose direction is INPUT.
BuildResources(direction) == { s \in DOMAIN direction : direction[s] = "input" }

\* setupResourceLinks(): each socket resource is related to the first
\* input FU resource of the FU of each of its ports (group 0; ports of
\* register files have no FU) and to the resource of each segment the
\* socket connects to (group 1).
ResourceLinks(sockets, ports, fuOf, fuRes, inputFURes, segs) ==
  LET InputsOf(fu) == SelectSeq(fuRes[fu], LAMBDA r : r \in inputFURes)
  IN UNION { { {s, Head(InputsOf(fuOf[p]))} :
                 p \in { q \in ports[s] : fuOf[q] # NONE /\ InputsOf(fuOf[q]) # << >> } }
             \cup { {s, g} : g \in segs[s] } : s \in sockets }

(***************************************************************************)
(* Broker and resource operations.                                         *)
(***************************************************************************)
\* Fault variant: the related-resource check is left out.
CanAssignNoRelation(b, r, c) == c \notin inUse[r]

\* SegmentResource::canAssign(cycle, node, pSocket) for every resource
\* already assigned to the move by another broker.
CanAssign(b, r, c) ==
  /\ c \notin inUse[r]
  /\ \A d \in Brokers : assigned[d] # NONE /\ d # b => {r, assigned[d]} \in Related

\* Fault variant: the broker offers free related resources it does not own.
AllAvailableResourcesAnyOwner(b, c) ==
  SetToSortSeq({ r \in Resources : CanAssign(b, r, c) },
               LAMBDA x, y : Rank[x] < Rank[y])

\* allAvailableResources(), sorted as PendingAssignment does.
AllAvailableResources(b, c) ==
  SetToSortSeq({ r \in Owns[b] : CanAssign(b, r, c) },
               LAMBDA x, y : Rank[x] < Rank[y])

\* Fault variant: the broker's map entry is erased but the segment record
\* is left marked in use.
BrokerUnassignKeepRecord(b, a, use) ==
  IF a[b] = NONE THEN << a, use >> ELSE << [a EXCEPT ![b] = NONE], use >>

\* SegmentResource::isInUse(cycle) over the records use.
IsInUse(r, c, use) == c \in use[r]

\* SegmentResource::assign(cycle, node): resourceRecord_[cycle] = 1.  Its
\* throw when canAssign fails is the "ResourceNotAvailable" error of
\* TryNextAssignment.
SegmentAssign(r, c, use) == [use EXCEPT ![r] = @ \cup {c}]

\* SegmentResource::unassign(cycle, node): resourceRecord_[cycle] = 0.  It
\* throws when the record is not in use; its callers reach it only for a
\* resource the broker's map holds for the node's cycle, which is in use.
SegmentUnassign(r, c, use) == [use EXCEPT ![r] = @ \ {c}]

\* InputPSocketBroker::assign(cycle, node, res): the resource is assigned,
\* then assignedResources_.insert(), which keeps an existing entry.
BrokerAssign(b, r, a, use) ==
  << IF a[b] = NONE THEN [a EXCEPT ![b] = r] ELSE a, SegmentAssign(r, reqCycle, use) >>

\* ResourceBroker::unassign(node) on the SegmentResource record of the
\* node's cycle.
BrokerUnassign(b, a, use) ==
  IF a[b] = NONE THEN << a, use >>
  ELSE << [a EXCEPT ![b] = NONE], SegmentUnassign(a[b], cycle, use) >>

\* InputPSocketBroker::isAlreadyAssigned(cycle, node): the node has an entry
\* and its resource is in use in the cycle (by any move).
IsAlreadyAssigned(b, c, a, use) == a[b] # NONE /\ IsInUse(a[b], c, use)

\* The isAlreadyAssigned()/unassign() pair that forget(), undoAssignment()
\* and tryNextAssignment() share, over assignments a and records use.
UndoIfAssigned(b, a, use) ==
  IF IsAlreadyAssigned(b, reqCycle, a, use) THEN BrokerUnassign(b, a, use)
  ELSE << a, use >>

\* MoveNode::unsetCycle(): throws when the node is not placed.
UnsetCycle ==
  IF placed
    THEN placed' = FALSE /\ cycle' = 0 /\ UNCHANGED err
    ELSE err' = "NodeNotPlaced" /\ UNCHANGED << placed, cycle >>

(***************************************************************************)
(* AssignmentPlan calls.                                                   *)
(***************************************************************************)
Init ==
  /\ placed = FALSE
  /\ cycle = 0
  /\ reqCycle = 0
  /\ appl = << >>
  /\ cur = 0
  /\ found = FALSE
  /\ lastTried = [b \in Brokers |-> -1]
  /\ avail = [b \in Brokers |-> << >>]
  /\ assigned = [b \in Brokers |-> NONE]
  /\ inUse = [r \in Resources |-> { c \in Cycles : r \in PreBusy[c] }]
  /\ pc = "idle"
  /\ outcome = NONE
  /\ err = NONE

\* setRequest(cycle, node): place the node, keep the applicable brokers
\* and restart their cursors.
SetRequest(c) ==
  IF placed /\ cycle # c
    THEN /\ err' = "PlacedOnDifferentCycle"
         /\ UNCHANGED << placed, cycle, reqCycle, appl, cur, found, lastTried,
                         avail, assigned, inUse >>
    ELSE /\ placed' = TRUE
         /\ cycle' = c
         /\ reqCycle' = c
         /\ cur' = 0
         /\ appl' = SelectSeq(BrokerSeq, LAMBDA b : Applicable[b])
         /\ lastTried' = [b \in Brokers |-> IF Applicable[b] THEN -1 ELSE lastTried[b]]
         /\ UNCHANGED << found, avail, assigned, inUse, err >>

\* Fault variant: the last candidate of the list is never reported.
IsAssignmentPossibleSkipLast(b, possible) ==
  LET av == IF lastTried[b] = -1 THEN AllAvailableResources(b, reqCycle)
            ELSE avail[b]
  IN /\ avail' = [avail EXCEPT ![b] = av]
     /\ possible = (lastTried[b] < Len(av) - 2)
     /\ UNCHANGED << placed, cycle, reqCycle, appl, cur, found, lastTried,
                     assigned, inUse, err >>

\* PendingAssignment::isAssignmentPossible(): fetches and sorts the
\* candidates when the cursor is fresh; true while an untried candidate
\* remains.  Its answer is returned through `possible`.
IsAssignmentPossible(b, possible) ==
  LET av == IF lastTried[b] = -1 THEN AllAvailableResources(b, reqCycle)
            ELSE avail[b]
  IN /\ avail' = [avail EXCEPT ![b] = av]
     /\ possible = (lastTried[b] < Len(av) - 1)
     /\ UNCHANGED << placed, cycle, reqCycle, appl, cur, found, lastTried,
                     assigned, inUse, err >>

\* isTestedAssignmentPossible(): asks the current broker's pending assignment.
IsTestedAssignmentPossible(possible) == IsAssignmentPossible(At(cur), possible)

\* PendingAssignment::tryNext(), on the assignments u left by the undo:
\* step the cursor and assign that candidate, or throw when the list is
\* used up (or the candidate was taken meanwhile, which assign() rejects).
TryNext(b, u) ==
  LET next == lastTried[b] + 1
      r    == avail[b][next + 1]
  IN /\ lastTried' = [lastTried EXCEPT ![b] = next]
     /\ IF next >= Len(avail[b]) \/ IsInUse(r, reqCycle, u[2])
          THEN /\ err' = IF next >= Len(avail[b]) THEN "RanOutOfAssignments"
                         ELSE "ResourceNotAvailable"
               /\ assigned' = u[1]
               /\ inUse' = u[2]
               /\ UNCHANGED found
          ELSE /\ assigned' = BrokerAssign(b, r, u[1], u[2])[1]
               /\ inUse' = BrokerAssign(b, r, u[1], u[2])[2]
               /\ found' = TRUE
               /\ UNCHANGED err

\* tryNextAssignment(): undo the current broker's assignment if any, then
\* tryNext(); resourceFound_ is set once tryNext() returns.
TryNextAssignment ==
  /\ TryNext(At(cur), UndoIfAssigned(At(cur), assigned, inUse))
  /\ UNCHANGED << placed, cycle, reqCycle, appl, cur, avail >>

\* advance(): step to the next broker once a resource was found; the step
\* is taken before the check against the last broker.
Advance ==
  /\ IF ~found
       THEN err' = "AdvanceBeforeAssignment" /\ UNCHANGED cur
       ELSE /\ cur' = cur + 1
            /\ err' = IF cur + 1 >= Len(appl) THEN "AdvancedBeyondLast" ELSE err
  /\ UNCHANGED << placed, cycle, reqCycle, appl, found, lastTried, avail,
                  assigned, inUse >>

\* Fault variant: forget() instead of undoAssignment() on the broker
\* stepped back to, so its cursor restarts.
BacktrackForgetBoth ==
  LET b  == At(cur)
      f  == UndoIfAssigned(b, assigned, inUse)
      g  == UndoIfAssigned(At(cur - 1), f[1], f[2])
  IN /\ cur' = cur - 1
     /\ IF cur = 0
          THEN /\ err' = "BacktrackedBeyondFirst"
               /\ lastTried' = [lastTried EXCEPT ![b] = -1]
               /\ assigned' = f[1] /\ inUse' = f[2]
          ELSE /\ UNCHANGED err
               /\ lastTried' = [lastTried EXCEPT ![b] = -1, ![At(cur - 1)] = -1]
               /\ assigned' = g[1] /\ inUse' = g[2]
     /\ UNCHANGED << placed, cycle, reqCycle, appl, found, avail >>

\* backtrack(): forget the current broker, step back, and undo the
\* assignment of the broker stepped back to (its cursor is kept).
Backtrack ==
  LET b  == At(cur)
      f  == UndoIfAssigned(b, assigned, inUse)
      g  == UndoIfAssigned(At(cur - 1), f[1], f[2])
  IN /\ lastTried' = [lastTried EXCEPT ![b] = -1]
     /\ cur' = cur - 1
     /\ IF cur = 0
          THEN err' = "BacktrackedBeyondFirst" /\ assigned' = f[1] /\ inUse' = f[2]
          ELSE UNCHANGED err /\ assigned' = g[1] /\ inUse' = g[2]
     /\ UNCHANGED << placed, cycle, reqCycle, appl, found, avail >>

\* resetAssignments(): forget every applicable broker, rewind, unplace.
ResetAssignments ==
  LET step(acc, b) == UndoIfAssigned(b, acc[1], acc[2])
      u == FoldLeft(step, << assigned, inUse >>, appl)
  IN /\ assigned' = u[1]
     /\ inUse' = u[2]
     /\ lastTried' = [b \in Brokers |-> IF b \in { At(i) : i \in 0 .. Len(appl) - 1 }
                                       THEN -1 ELSE lastTried[b]]
     /\ cur' = 0
     /\ UnsetCycle
     /\ UNCHANGED << reqCycle, appl, found, avail >>

\* resetAssignments(node): every applicable broker unassigns the node,
\* which is then unplaced.  Cursors and the current broker are kept.
ResetAssignmentsNode ==
  LET step(acc, b) == IF Applicable[b] THEN BrokerUnassign(b, acc[1], acc[2]) ELSE acc
      u == FoldLeft(step, << assigned, inUse >>, BrokerSeq)
  IN /\ IF placed
          THEN assigned' = u[1] /\ inUse' = u[2]
          ELSE UNCHANGED << assigned, inUse >>
     /\ UnsetCycle
     /\ UNCHANGED << reqCycle, appl, cur, found, lastTried, avail >>

\* clear(): forget the request and the applicable brokers, and clear every
\* pending assignment (PendingAssignment::clear is not in this tree; it is
\* taken to reset the cursor and the candidate list).  Nothing is unassigned.
Clear ==
  /\ cur' = 0
  /\ found' = FALSE
  /\ reqCycle' = 0
  /\ appl' = << >>
  /\ lastTried' = [b \in Brokers |-> -1]
  /\ avail' = [b \in Brokers |-> << >>]
  /\ UNCHANGED << placed, cycle, assigned, inUse, err >>

\* firstBroker(), lastBroker(), currentBroker(): positions in the applicable
\* sequence (setRequest has thrown if it is empty).
FirstBroker == At(0)
LastBroker == At(Len(appl) - 1)
CurrentBroker == At(cur)

(***************************************************************************)
(* The scheduler's search loop for one request (the caller of the plan,    *)
(* not under src/; from the design).  The outer scheduler picks a cycle,   *)
(* asks for a full assignment there, and later may unschedule the move.    *)
(***************************************************************************)
DRequest ==
  /\ pc = "idle"
  /\ \E c \in Cycles : SetRequest(c)
  /\ pc' = "check"
  /\ UNCHANGED outcome

DCheck ==
  /\ pc = "check"
  /\ \E possible \in BOOLEAN :
       /\ IsTestedAssignmentPossible(possible)
       /\ pc' = IF possible THEN "try" ELSE "back"
  /\ UNCHANGED outcome

DTry ==
  /\ pc = "try"
  /\ TryNextAssignment
  /\ IF CurrentBroker = LastBroker
       THEN pc' = "assigned" /\ outcome' = [kind |-> "found", cycle |-> reqCycle]
       ELSE pc' = "advance" /\ UNCHANGED outcome

DAdvance ==
  /\ pc = "advance"
  /\ Advance
  /\ pc' = "check"
  /\ UNCHANGED outcome

DBack ==
  /\ pc = "back"
  /\ IF CurrentBroker = FirstBroker
       THEN /\ ResetAssignments
            /\ pc' = "idle"
            /\ outcome' = [kind |-> "exhausted", cycle |-> reqCycle]
       ELSE /\ Backtrack
            /\ pc' = "check"
            /\ UNCHANGED outcome

DUnschedule ==
  /\ pc = "assigned"
  /\ ResetAssignmentsNode
  /\ pc' = "idle"
  /\ UNCHANGED outcome

\* Between requests the plan may be cleared.
DClear ==
  /\ pc = "idle"
  /\ Clear
  /\ UNCHANGED << pc, outcome >>

DriverNext ==
  /\ err = NONE
  /\ \/ DRequest \/ DCheck \/ DTry \/ DAdvance \/ DBack \/ DUnschedule \/ DClear

\* The search loop runs without blocking: each of its steps is taken once
\* it is enabled.
DriverSpec == Init /\ [][DriverNext]_vars /\ WF_vars(DriverNext)

-----------------------------------------------------------------------------
TypeOK ==
  /\ placed \in BOOLEAN
  /\ cycle \in Cycles \cup {0}
  /\ reqCycle \in Cycles \cup {0}
  /\ appl \in Seq(Brokers)
  /\ cur \in -1 .. Len(BrokerSeq)
  /\ found \in BOOLEAN
  /\ lastTried \in [Brokers -> -1 .. Cardinality(Resources)]
  /\ \A b \in Brokers : avail[b] \in Seq(Owns[b])
  /\ \A b \in Brokers : assigned[b] \in Owns[b] \cup {NONE}
  /\ inUse \in [Resources -> SUBSET Cycles]

\* Complete assignments of the move in cycle c: one free resource per
\* applicable broker, pairwise related.
Solutions(c) ==
  { f \in [ApplSet -> Resources] :
      /\ \A b \in ApplSet : f[b] \in Owns[b] /\ f[b] \notin PreBusy[c]
      /\ \A b, d \in ApplSet : b # d => {f[b], f[d]} \in Related }

\* f precedes g in the order the search tries candidates: by rank of the
\* first broker's choice, then the second's, and so on.
ApplOrder == SelectSeq(BrokerSeq, LAMBDA b : Applicable[b])
Precedes(f, g) ==
  \E k \in DOMAIN ApplOrder :
    /\ \A j \in 1 .. (k - 1) : f[ApplOrder[j]] = g[ApplOrder[j]]
    /\ Rank[f[ApplOrder[k]]] < Rank[g[ApplOrder[k]]]

Choice == [b \in ApplSet |-> assigned[b]]

(***************************************************************************)
(* The search answers exactly (tryNext/advance/backtrack with the lazily   *)
(* sorted candidate lists of PendingAssignment): a move reported assigned  *)
(* holds the first complete assignment in candidate order, and a request   *)
(* reported exhausted had no complete assignment at all in its cycle.      *)
(***************************************************************************)
SearchCorrect ==
  /\ pc = "assigned" =>
       /\ Choice \in Solutions(reqCycle)
       /\ \A g \in Solutions(reqCycle) : ~Precedes(g, Choice)
  /\ pc = "idle" /\ outcome # NONE /\ outcome.kind = "exhausted" =>
       Solutions(outcome.cycle) = {}

(***************************************************************************)
(* Undo is complete (forget, undoAssignment, resetAssignments): whenever   *)
(* the move is not being assigned, it holds no resource and no segment     *)
(* record is marked in use beyond the other moves' use.                    *)
(***************************************************************************)
NothingLeaked ==
  pc = "idle" =>
    /\ ~placed
    /\ \A b \in Brokers : assigned[b] = NONE
    /\ \A r \in Resources : inUse[r] = { c \in Cycles : r \in PreBusy[c] }

(***************************************************************************)
(* Every request the scheduler makes is eventually answered: the search    *)
(* loop cannot cycle between brokers forever.                              *)
(***************************************************************************)
SearchTerminates == pc = "check" ~> pc \in {"assigned", "idle"}

(***************************************************************************)
(* The driven search implements AbstractAssignment: every request is      *)
(* answered in one abstract step, a found answer holds exactly the first   *)
(* complete assignment in candidate order until the move is unscheduled,   *)
(* and the search's own steps (check, try, advance, backtrack) change      *)
(* nothing the scheduler observes.                                         *)
(***************************************************************************)
Abstract == INSTANCE AbstractAssignment WITH
  Solutions <- Solutions,
  Before <- Precedes,
  status <- CASE pc = "idle" -> "idle"
              [] pc = "assigned" -> "assigned"
              [] OTHER -> "pending",
  req <- IF pc = "idle" /\ outcome # NONE THEN outcome.cycle ELSE reqCycle,
  holds <- IF pc = "assigned" THEN Choice ELSE NONE,
  answer <- outcome

AbstractSpec == Abstract!Spec

=============================================================================
