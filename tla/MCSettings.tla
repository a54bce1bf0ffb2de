----------------------------- MODULE MCSettings -----------------------------
(* Instances of Settings for TLC. *)
EXTENDS Settings

CONSTANTS mime, storage, reg, bad, v0, v1

Defaults == [k \in ConfigKeys |-> v0]
AuthDefaults == [k \in AuthKeys |-> v0]
\* The storage settings are one, with the secret among them: v0 is local storage, v1
\* is R2, and a blank leaves them alone.
R2Modes == {[k \in StorageKeys |-> v1]}

Body(S, v) == [k \in Keys |-> IF k \in S THEN v ELSE None]

With(body, S, v) == [k \in Keys |-> IF k \in S THEN v ELSE body[k]]

PatchesSent ==
    {Body({mime, reg}, v1), With(Body({mime}, Blank), {storage}, v1),
     With(Body({bad}, v1), {storage}, Blank)}
=============================================================================
