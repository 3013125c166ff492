--------------------------- MODULE MCMaintenance ---------------------------
(* A trace row of the first day.                                             *)
EXTENDS Maintenance

Dates == <<1>>
=============================================================================
