---------------------------- MODULE MC_TokenGate ----------------------------
(***************************************************************************)
(* A gate whose limit moves between 1 (from a setting of -1), 3 and the    *)
(* built-in default 2 (also from a setting of 0).                          *)
(***************************************************************************)
EXTENDS TokenGate

MCSettings == {-1, 0, 3}
MCDefault  == 2
MCMin      == 1
MCMax      == 3
=============================================================================
