-------------------------------- MODULE Generate --------------------------------
(***************************************************************************)
(* The password generator (crates/pass-core/src/generate.rs).  A class of   *)
(* characters is a set; a draw is a number in 0..MaxDraw, 2^32 - 1 in the   *)
(* code.                                                                    *)
(***************************************************************************)
EXTENDS Naturals, FiniteSets, Sequences

CONSTANTS Classes,      \* the characters of each class
          MinLength, MaxLength, MaxDraw

\* Mutant: any length will do.
ValidateClasses(spec) == spec.classes # {}

Validate(spec) == spec.length \in MinLength..MaxLength /\ spec.classes # {}

Charset(spec) == UNION {Classes[c] : c \in spec.classes}

\* The loop ends with any password that has a character of each class.
Generated(spec) ==
  {out \in [1..spec.length -> Charset(spec)] :
     \A c \in spec.classes : \E i \in DOMAIN out : out[i] \in Classes[c]}

\* Mutant: the draw is kept whatever it is.
AnyDraw(n) == 0..MaxDraw

\* The draws kept for an index below n; the others are drawn again.
KeptDraws(n) == {v \in 0..MaxDraw : v < MaxDraw - (MaxDraw % n)}

UniformIndex(v, n) == v % n
=============================================================================
