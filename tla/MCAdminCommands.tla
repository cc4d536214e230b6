--------------------------- MODULE MCAdminCommands ---------------------------
(***************************************************************************)
(* A, A! and "A 2": the second is numbered to what the third is called.  The *)
(* label "2" reads as a number that may be shown beside another one.         *)
(***************************************************************************)
EXTENDS AdminCommands, TLC

CONSTANTS A, ABang, ATwo, Two, a

MCLabels == {A, ABang, ATwo, Two}
MCWords == (A :> <<a>>) @@ (ABang :> <<a>>) @@ (ATwo :> <<a, 2>>) @@ (Two :> <<2>>)
==============================================================================
