---------------------------- MODULE MCToolEffects ----------------------------
(* TLC instance of ToolEffects. *)
EXTENDS ToolEffects, TLC

HA == "home-assistant"
Hue == "philips-hue"
MCLights == HA :> {"lamp"} @@ Hue :> {"lamp"}
MCScenes == HA :> {} @@ Hue :> {"evening"}
MCSets == <<Hue, "evening">> :> (<<Hue, "lamp">> :> TRUE)

Home(tool, prefix, raw, retries, refused) ==
  [tool |-> tool, prefix |-> prefix, raw |-> raw, push |-> FALSE, api |-> FALSE,
   retries |-> retries, refused |-> refused]
Backup(push, api, retries) ==
  [tool |-> "backup", prefix |-> NoPrefix, raw |-> "", push |-> push, api |-> api,
   retries |-> retries, refused |-> FALSE]

MCCall ==
  {Home("toggle", Hue, "lamp", 1, FALSE), Home("toggle", NoPrefix, "lamp", 0, FALSE),
   Home("toggle", Hue, "lamp", 0, TRUE), Home("scene", NoPrefix, "evening", 1, FALSE)}
    \cup {Backup(TRUE, api, IF api THEN 0 ELSE 1) : api \in BOOLEAN}

\* Backups and home calls share no state: pairs of a kind are enough, and edits with backups.
Alike ==
  \/ \A n \in DOMAIN calls : calls[n].asked.tool = "backup"
  \/ work = 0 /\ \A n \in DOMAIN calls : calls[n].asked.tool # "backup"
=============================================================================
