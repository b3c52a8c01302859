------------------------------- MODULE MCGateway -------------------------------
(***************************************************************************)
(* One tenant with a project under a blocking cap and a downgrading cap of  *)
(* its own.                                                                 *)
(***************************************************************************)
EXTENDS Gateway, TLC

MCCap == (<<"t", "p">> :> [limit |-> 1, action |-> "block"])
         @@ (<<"t", "">> :> [limit |-> 1, action |-> "downgrade"])

Ask(project, mode, pinned, low) ==
  [tenant |-> "t", project |-> project, mode |-> mode, pinned |-> pinned, low |-> low]

MCInput == {Ask("p", "auto", FALSE, TRUE), Ask("", "auto", FALSE, TRUE),
            Ask("", "disabled", TRUE, FALSE)}

SlotSymmetry == Permutations(Slot)
===============================================================================
