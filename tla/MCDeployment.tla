---------------------------- MODULE MCDeployment ----------------------------
(***************************************************************************)
(* The shipped demo and room for two more deployments, of which one may    *)
(* break off.                                                              *)
(***************************************************************************)
EXTENDS Deployment
=============================================================================
