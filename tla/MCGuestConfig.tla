----------------------------- MODULE MCGuestConfig -----------------------------
(* Small instance of GuestConfig for TLC.                                  *)
EXTENDS GuestConfig

AllDistros == {"deb", "ubt", "rhl", "fed", "alp", "win", "unknown", "none"}

AllJobs ==
  [kind : {"deploy_template", "deploy_image"},
   items : {{}, {"v6", "private", "vpc", "keys"}}]
  \cup [kind : {"reset_password"}, items : {{}}]
=============================================================================
