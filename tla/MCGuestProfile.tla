--------------------------- MODULE MCGuestProfile ---------------------------
(* GuestProfile, all constants given in the configurations.                *)
EXTENDS GuestProfile
=============================================================================
