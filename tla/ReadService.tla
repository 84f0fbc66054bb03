----------------------------- MODULE ReadService -----------------------------
(***************************************************************************)
(* What submit(OpCode::READ, batch, callback) promises its caller, with no  *)
(* queue, thread or device in sight: data arrives piecemeal while a request *)
(* is open, each request is reported at most once, SUCCESS means that all   *)
(* of it arrived, and after the report the local buffer is the caller's     *)
(* again: nothing writes to it any more.                                    *)
(*                                                                         *)
(* The service is at first "serving" and promises a report for every        *)
(* request.  Then it may be "ending", when reports are possible and no      *)
(* longer promised, and at last "closed", when none is made.                *)
(***************************************************************************)
EXTENDS Naturals

CONSTANTS Request, Size

VARIABLES
  submitted,  \* requests handed over
  moved,      \* <<request, index>> of every Assignment that has arrived
  status,     \* Request -> "none" until it is reported
  phase       \* "serving", "ending", "closed"

vars == <<submitted, moved, status, phase>>

Data(r) == {r} \X (1 .. Size[r])

Open == {r \in submitted : status[r] = "none"}

Init ==
  /\ submitted = {}
  /\ moved = {}
  /\ status = [r \in Request |-> "none"]
  /\ phase = "serving"

Submit(r) ==
  /\ r \notin submitted
  /\ submitted' = submitted \union {r}
  /\ UNCHANGED <<moved, status, phase>>

(* Some of an open request's data arrives.                                  *)
Move(r) ==
  /\ r \in Open
  /\ \E S \in SUBSET Data(r) : moved' = moved \union S
  /\ UNCHANGED <<submitted, status, phase>>

Report(r) ==
  /\ r \in Open
  /\ phase # "closed"
  /\ \/ status' = [status EXCEPT ![r] = "FAILED"]
     \/ /\ Data(r) \subseteq moved
        /\ status' = [status EXCEPT ![r] = "SUCCESS"]
  /\ UNCHANGED <<submitted, moved, phase>>

End ==
  /\ phase = "serving"
  /\ phase' = "ending"
  /\ UNCHANGED <<submitted, moved, status>>

Close ==
  /\ phase = "ending"
  /\ phase' = "closed"
  /\ UNCHANGED <<submitted, moved, status>>

Next ==
  \/ \E r \in Request : Submit(r) \/ Move(r) \/ Report(r)
  \/ End
  \/ Close

Spec == Init /\ [][Next]_vars

(* While it serves, every request handed over is eventually reported.       *)
FairSpec == Spec /\ \A r \in Request : WF_vars(phase = "serving" /\ Report(r))
=============================================================================
