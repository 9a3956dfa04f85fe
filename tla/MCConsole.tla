------------------------------ MODULE MCConsole ------------------------------
(***************************************************************************)
(* The owners' side of the web process: the configuration of endpoints and *)
(* the browsing of requests.  They share no row, so that a behaviour shows *)
(* one of them, its scene.                                                 *)
(***************************************************************************)
EXTENDS EndpointConfig, RequestBrowser

VARIABLE scene

vars == <<scene, configVars, browseVars>>

Init == scene \in {"config", "browse"} /\ ConfigInit /\ BrowserInit
          /\ (scene = "config" => client = "lists" /\ listing.kind = "requests")

Next == \/ scene = "config" /\ ConfigNext /\ UNCHANGED <<scene, browseVars>>
        \/ scene = "browse" /\ BrowseNext /\ UNCHANGED <<scene, configVars>>

AskedSlugs == {<<"shop">>, <<"health">>, <<"my", "-", "paypal">>}

(* Creators, and owners, do the same.                                      *)
Symmetry == Permutations(Creators) \cup Permutations(Owners)

Spec == Init /\ [][Next]_vars

(* The rows of EndpointTable, RequestTable and ReplayTable keep the shape  *)
(* that models.py:9-104 gives them, and every handler stays in its steps.  *)
TypeOK == ConfigTypeOK /\ BrowserTypeOK
==============================================================================
