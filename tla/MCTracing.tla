----------------------------- MODULE MCTracing -----------------------------
(* Small instances of Tracing for TLC. *)
EXTENDS Tracing, TLC

AllOn == [span |-> TRUE, inject |-> TRUE, record |-> TRUE]
CONSTANTS r1, r2
Served == r1 :> {"axum"} @@ r2 :> Layers
Clients == Main :> {AllOn} @@ r1 :> {AllOn} @@ r2 :> {[AllOn EXCEPT !.span = FALSE]}

OneAxum == r1 :> {"axum"}
OneClient == Main :> {} @@ r1 :> {AllOn}
=============================================================================
