------------------------------- MODULE MCSchema -------------------------------
(* Schema on small instances.                                                *)
EXTENDS Schema
===============================================================================
