-------------------------------- MODULE Scrub --------------------------------
(***************************************************************************)
(* The scrubber (src/src/scrub.rs).  A JSON value is the set of its        *)
(* leaves; a leaf is its text and the keys above it, and array items have  *)
(* the keys of their array.  Of a key only its class matters (the terms of *)
(* SENSITIVE_KEY_TERMS, those of IDENTITY_KEY_EXEMPTIONS, any other), of a *)
(* text whether one of the regular expressions finds a secret in it.       *)
(***************************************************************************)
EXTENDS Naturals, Sequences, SequencesExt

KeyClasses == {"plain", "sensitive", "identity"}
Texts == {"clean", "secret", "redacted"}

Leaves == [path : Seq(KeyClasses), text : Texts]

(* The key that decides about a leaf is the first one that is not plain:   *)
(* below a sensitive key everything becomes one marker, and an identity    *)
(* key keeps the walk from what is below it.                               *)
ScrubLeaf(leaf) ==
  LET first == SelectInSeq(leaf.path, LAMBDA key : key # "plain")
  IN  IF first # 0 /\ leaf.path[first] = "sensitive"
      THEN [path |-> SubSeq(leaf.path, 1, first), text |-> "redacted"]
      ELSE [leaf EXCEPT !.text = IF first = 0 /\ @ = "secret" THEN "redacted" ELSE @]

(* Mutant: only the innermost key of a leaf is looked at *)
ScrubByLastKey(body) ==
  {IF Last(leaf.path) = "sensitive" THEN [leaf EXCEPT !.text = "redacted"]
   ELSE IF Last(leaf.path) = "identity" THEN leaf
   ELSE [leaf EXCEPT !.text = IF @ = "secret" THEN "redacted" ELSE @] : leaf \in body}

scrub_value(body) == {ScrubLeaf(leaf) : leaf \in body}

(* What must not leave the process, stated without the walk: a secret, or  *)
(* anything under a sensitive key, unless the SDK's identity fields exempt *)
(* the place.                                                              *)
Exposed(leaf) ==
  /\ leaf.text # "redacted"
  /\ leaf.text = "secret" \/ \E i \in DOMAIN leaf.path : leaf.path[i] = "sensitive"
  /\ \A i \in DOMAIN leaf.path : leaf.path[i] # "identity"
=============================================================================
