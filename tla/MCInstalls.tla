----------------------------- MODULE MCInstalls -----------------------------
(* Installs on small instances: one, two or three requests, of different    *)
(* slugs, on a node of a few ids, which hands out the lowest free one.      *)
EXTENDS Installs, TLC

CONSTANTS i, k, l     \* install requests

MCNoId == 0
Slugs == (i :> "redis") @@ (k :> "gitea")
ThreeSlugs == Slugs @@ (l :> "nocodb")
LoneSlug == i :> "redis"
=============================================================================
