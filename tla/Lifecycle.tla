------------------------------- MODULE Lifecycle -------------------------------
(***************************************************************************)
(* What a virtance is to whoever does not see the handlers: a domain, an   *)
(* image, and whether the first has the second open.  A domain starts from *)
(* an image only, and an image a domain has open is not written: it can    *)
(* lose its name, and then belongs to that domain alone.                   *)
(***************************************************************************)
VARIABLES
  domain,  \* "none", "off", "on", or "orphan": active without a definition
  image,   \* "none", "unfinished" or "finished"
  open     \* the active domain has the image of that name open

lifeVars == <<domain, image, open>>

Init == domain = "none" /\ image = "none" /\ open = FALSE

Define ==
  /\ domain' = IF domain = "none" THEN "off"
               ELSE IF domain = "orphan" THEN "on" ELSE domain
  /\ UNCHANGED <<image, open>>

Undefine ==
  /\ domain' = IF domain = "off" THEN "none"
               ELSE IF domain = "on" THEN "orphan" ELSE domain
  /\ UNCHANGED <<image, open>>

Start ==
  /\ domain = "off"
  /\ image # "none"
  /\ domain' = "on" /\ open' = TRUE
  /\ UNCHANGED image

Stop ==
  /\ domain \in {"on", "orphan"}
  /\ domain' = IF domain = "on" THEN "off" ELSE "none"
  /\ open' = FALSE
  /\ UNCHANGED image

(* A reboot of the host starts what was on again, from the image that has  *)
(* the name now.                                                           *)
Restart ==
  /\ domain = "on"
  /\ image # "none"
  /\ open' = TRUE
  /\ UNCHANGED <<domain, image>>

Write ==
  /\ ~open
  /\ image' \in {"unfinished", "finished"}
  /\ UNCHANGED <<domain, open>>

Remove ==
  /\ image' = "none"
  /\ open' = FALSE
  /\ UNCHANGED domain

Next == Define \/ Undefine \/ Start \/ Stop \/ Restart \/ Write \/ Remove

Spec == Init /\ [][Next]_lifeVars
=============================================================================
