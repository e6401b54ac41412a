----------------------------- MODULE MCServer -----------------------------
(***************************************************************************)
(* Five messages whose lengths sit on the borders of the header's forms.   *)
(***************************************************************************)
EXTENDS Server, TLC

CONSTANTS m1, m2, m3, m4, m5

MCLengths == m1 :> 0 @@ m2 :> 125 @@ m3 :> 126 @@ m4 :> 65535 @@ m5 :> 65536
=============================================================================
