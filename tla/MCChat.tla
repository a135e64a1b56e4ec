------------------------------- MODULE MCChat -------------------------------
(* Two clients: one that talks, and one that is there to be told. *)
EXTENDS Chat

CONSTANTS a, b
MCClient == {a, b}
MCSendLimit == (a :> 2) @@ (b :> 1)
=============================================================================
