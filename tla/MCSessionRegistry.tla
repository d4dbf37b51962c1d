------------------------- MODULE MCSessionRegistry -------------------------
(***************************************************************************)
(* The instance of SessionRegistry for TLC.                                *)
(***************************************************************************)
EXTENDS SessionRegistry, TLC

CONSTANTS s1, s2, s3, u1, u2

\* Two sessions of one user and one of another.
MCOwner == s1 :> u1 @@ s2 :> u1 @@ s3 :> u2
=============================================================================
