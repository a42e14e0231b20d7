--------------------------- MODULE MCStreamParser ---------------------------
(***************************************************************************)
(* Instances of StreamParser for TLC.                                       *)
(***************************************************************************)
EXTENDS StreamParser

\* The first line's row fills the byte threshold on its own.
HeavyFirst == {1}

\* Every file of three lines with at most one line of rubbish, and at most two
\* lines the classifier is uncertain of or, once, throws on.
With(f, v) == Cardinality({l \in DOMAIN f : f[l] = v})
ThreeLines ==
  {f \in [1 .. 3 -> Verdicts] :
     /\ With(f, "rubbish") <= 1 /\ With(f, "throws") <= 1
     /\ With(f, "uncertain") + With(f, "throws") <= 2}
=============================================================================
