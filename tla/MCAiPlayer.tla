----------------------------- MODULE MCAiPlayer -----------------------------
(* Model-checking instance of AiPlayer: stones of two values on small boards, *)
(* of one, as in the code, on the larger.                                     *)
EXTENDS AiPlayer

SmallWorths(n) == IF n < 3 THEN {10, 30} ELSE {10}

=============================================================================
