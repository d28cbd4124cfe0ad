------------------------------ MODULE MCSessions ------------------------------
(* Instances of Sessions for TLC. *)
EXTENDS Sessions

\* One sign-in, which two callbacks may claim.
SomeSignIns == {"state"}
==============================================================================
