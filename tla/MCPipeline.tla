----------------------------- MODULE MCPipeline -----------------------------
(* Small instances of Pipeline for TLC. *)
EXTENDS Pipeline, TLC

(* Rates of none, of less than a bucket, of more than the last one, and of all *)
MCOptions ==
  {[send_default_pii |-> FALSE, transport |-> TRUE, rate |-> 0],
   [send_default_pii |-> FALSE, transport |-> TRUE, rate |-> 1],
   [send_default_pii |-> TRUE, transport |-> TRUE, rate |-> 3],
   [send_default_pii |-> FALSE, transport |-> FALSE, rate |-> 4]}

MCBrought ==
  {Nothing, [user |-> App, tags |-> App, crumbs |-> <<[by |-> App, n |-> 1]>>]}

Leaf(path, text) == [path |-> path, text |-> text]
MCBodies ==
  {{Leaf(<<"plain">>, "clean"), Leaf(<<"sensitive", "plain">>, "clean"),
    Leaf(<<"plain", "plain">>, "secret"), Leaf(<<"identity">>, "secret")}}
MCAdditions == {Leaf(<<"plain", "sensitive">>, "secret")}

Swap == Permutations(Threads)
=============================================================================
