---- MODULE MCCreateSession ----
(***************************************************************************)
(* Two creations: of one requisition in separate directories, of one in a  *)
(* directory and inside it, and a second one without a requisition.        *)
(***************************************************************************)
EXTENDS CreateSession, TLC

CONSTANTS s1, s2, r1

Wants(where1, req1, where2, req2) ==
  s1 :> [cwd |-> where1, req |-> req1] @@ s2 :> [cwd |-> where2, req |-> req2]
Repo == <<"repo">>
App == <<"repo", "app">>
MCInputs ==
  {Wants(Repo, r1, <<"other">>, r1), Wants(Repo, r1, App, r1), Wants(App, r1, Repo, NoReq)}
====
