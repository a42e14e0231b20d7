--------------------------- MODULE MCPasswordFlow ---------------------------
(***************************************************************************)
(* Two handlers, in one process or in two.                                 *)
(***************************************************************************)
EXTENDS PasswordFlow

\* An extraction with the right password may fail like any other (Extracts), so the
\* right one stands for all.
OnlyRight == {Right}
=============================================================================
