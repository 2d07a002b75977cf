------------------------------ MODULE MCBpfMaps ------------------------------
(***************************************************************************)
(* Instances of BpfMaps for TLC.                                           *)
(***************************************************************************)
EXTENDS BpfMaps, TLC

CONSTANTS b1, b2, s1, s2

MCHash == [s \in Sessions |-> IF s = s1 THEN 0 ELSE 1]

TwoBackends == [list |-> <<b1, b2>>, table |-> (0 :> 1 @@ 1 :> 0), sessions |-> <<>>]

\* What is left when the second backend fails: its list, and the session
\* of the first backend.
OneBackend == [list |-> <<b1>>, table |-> (0 :> 0 @@ 1 :> 0), sessions |-> <<>>]
OneBackendKnown == [OneBackend EXCEPT !.sessions = s2 :> 0]

TwoRequests == {TwoBackends, OneBackendKnown}

OneBatch == {s1 :> 0}
=============================================================================
