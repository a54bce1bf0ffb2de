----------------------------- MODULE FileShelf -----------------------------
(***************************************************************************)
(* What the file store promises, without requests, programs, posters or    *)
(* failures: a file comes onto the shelf once, row and object together; it *)
(* leaves it object first and row second; nothing that has left comes back *)
(* and an audit entry counts only files that have left altogether.         *)
(***************************************************************************)
CONSTANTS Files, Status   \* Status: what the status column may hold

VARIABLES
    place,    \* "new", then "whole", "bare" without its object, then "gone"
    mark,     \* status column; that of a row that is gone is its last one
    audited   \* files an audit entry counts as deleted

shelf == <<place, mark, audited>>

Init ==
    /\ place = [f \in Files |-> "new"]
    /\ mark = [f \in Files |-> "new"]
    /\ audited = {}

Add(f) ==
    /\ place[f] = "new"
    /\ place' = [place EXCEPT ![f] = "whole"]
    /\ mark' = [mark EXCEPT ![f] = "active"]
    /\ UNCHANGED audited

Patch(f, s) ==
    /\ place[f] \in {"whole", "bare"}
    /\ mark' = [mark EXCEPT ![f] = s]
    /\ UNCHANGED <<place, audited>>

Strip(f) ==
    /\ place[f] = "whole"
    /\ place' = [place EXCEPT ![f] = "bare"]
    /\ UNCHANGED <<mark, audited>>

Discard(f) ==
    /\ place[f] = "bare"
    /\ place' = [place EXCEPT ![f] = "gone"]
    /\ UNCHANGED <<mark, audited>>

Count(S) ==
    /\ \A f \in S : place[f] = "gone"
    /\ audited' = audited \cup S
    /\ UNCHANGED <<place, mark>>

Next ==
    \/ \E f \in Files : \/ Add(f) \/ Strip(f) \/ Discard(f)
                        \/ \E s \in Status : Patch(f, s)
    \/ \E S \in SUBSET Files : Count(S)

Spec == Init /\ [][Next]_shelf
=============================================================================
