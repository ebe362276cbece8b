------------------------------ MODULE MCServer ------------------------------
(* Server on small instances.                                                *)
EXTENDS Server

\* Three services, of a configuration that gives the third the port of the first.
SharedPort == <<9994, 9984, 9994>>
=============================================================================
