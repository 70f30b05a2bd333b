---------------------------- MODULE MCRmaOrigin ----------------------------
(* RmaOrigin on small instances.                                           *)
EXTENDS RmaOrigin

CONSTANTS o1, o2, o3
===========================================================================
