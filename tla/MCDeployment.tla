---------------------------- MODULE MCDeployment ----------------------------
(* A small host for Deployment: two slots for commands run by hand.          *)
EXTENDS Deployment

MCManual == {"builds", "reads"}
MCMay == [c \in MCManual |-> IF c = "builds" THEN Loading ELSE Reading]
==============================================================================
