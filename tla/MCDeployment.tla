---------------------------- MODULE MCDeployment ----------------------------
EXTENDS Deployment

(* One name the migration deletes and one it inserts itself. *)
MCHandMade == {"auction", "auction:read"}
MCGoals == Base .. Newest
=============================================================================
