--------------------------- MODULE MCPricingTool ----------------------------
(* An instance of PricingTool for TLC: an analyst, who may ask for         *)
(* everything, and an account without a role.                              *)
EXTENDS PricingTool, TLC

CONSTANTS Analyst, Outsider

Roles == (Analyst :> "analyst") @@ (Outsider :> Roleless)
Ceilings == [offer |-> 1, signin |-> 1]

(* What may be asked first, then, and at last. *)
Asks ==
    LET of(actions) == [action : actions, who : {Analyst}]
    IN  <<of({"offer", "portfolio", "signin"}),
          of({"offer", "signin", "signout"}) \cup [action : {"portfolio", "signin"}, who : {Outsider}],
          of({"offer"})>>
=============================================================================
