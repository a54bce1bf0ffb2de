----------------------------- MODULE FileTable -----------------------------
(***************************************************************************)
(* The tables of batches and files as uploads, deletions and patches leave *)
(* them to everybody else: a batch comes before its files, and files come, *)
(* change and go one at a time.  A file that has gone may come back: a     *)
(* complete that was repeated records it again.                            *)
(***************************************************************************)
CONSTANTS Files, Batches, BatchOf, Status   \* Status: what the status column may hold

VARIABLES
    batches,  \* batches that have a row
    row       \* each file's row: "none", or its status

Init ==
    /\ batches = {}
    /\ row = [f \in Files |-> "none"]

AddBatch(b) ==
    /\ b \notin batches
    /\ batches' = batches \cup {b}
    /\ UNCHANGED row

Add(f) ==
    /\ BatchOf[f] \in batches
    /\ row[f] = "none"
    /\ row' = [row EXCEPT ![f] = "active"]
    /\ UNCHANGED batches

Mark(f, s) ==
    /\ row[f] # "none"
    /\ row' = [row EXCEPT ![f] = s]
    /\ UNCHANGED batches

Remove(f) ==
    /\ row[f] # "none"
    /\ row' = [row EXCEPT ![f] = "none"]
    /\ UNCHANGED batches

Next ==
    \/ \E b \in Batches : AddBatch(b)
    \/ \E f \in Files : Add(f) \/ Remove(f) \/ \E s \in Status : Mark(f, s)

Spec == Init /\ [][Next]_<<batches, row>>
=============================================================================
