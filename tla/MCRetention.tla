------------------------------ MODULE MCRetention ------------------------------
(* Two tenants without overrides, with a longer window, and with a shorter one  *)
(* beside one that inherits; the first table of the sweep is broken.            *)
EXTENDS Retention, TLC

MCTenant == {1, 2}
MCOverrides == {<<>>, (1 :> 3), (1 :> 1 @@ 2 :> 0)}
MCBroken == {"request_logs"}
===============================================================================
