---------------------------- MODULE UploadLedger ----------------------------
(***************************************************************************)
(* What the direct upload promises, without manifests, requests or links:  *)
(* a file is stored, then recorded once, and a batch only ever reports     *)
(* files of its own that have been recorded.                               *)
(***************************************************************************)
CONSTANTS Uploads, Files, Content   \* Content[u]: the files of session u

VARIABLES stored, recorded, reported

ledger == <<stored, recorded, reported>>

Init ==
    /\ stored = {}
    /\ recorded = {}
    /\ reported = [u \in Uploads |-> {}]

Store(f) ==
    /\ stored' = stored \cup {f}
    /\ UNCHANGED <<recorded, reported>>

Record(f) ==
    /\ f \in stored \ recorded
    /\ recorded' = recorded \cup {f}
    /\ UNCHANGED <<stored, reported>>

Report(u, S) ==
    /\ S \subseteq recorded \cap Content[u]
    /\ reported' = [reported EXCEPT ![u] = S]
    /\ UNCHANGED <<stored, recorded>>

Next ==
    \/ \E f \in Files : Store(f) \/ Record(f)
    \/ \E u \in Uploads : \E S \in SUBSET Files : Report(u, S)

Spec == Init /\ [][Next]_ledger
=============================================================================
