----------------------------- MODULE MCWebPages -----------------------------
(***************************************************************************)
(* Small instances of the login, the pages with the confirmation dialog    *)
(* and the rates of the dashboard.  They share no state, so a behaviour is *)
(* one of the three; the others stay as they start.                        *)
(***************************************************************************)
EXTENDS Login, Panels, Dashboard

VARIABLE part   \* which one

WebInit ==
  /\ part \in {"login", "panels", "dashboard"} /\ (part # "panels" => home = "roles")
  /\ LoginInit /\ PanelsInit /\ DashboardInit

WebNext ==
  /\ UNCHANGED part
  /\ \/ part = "login" /\ LoginNext /\ UNCHANGED <<panelVars, dashVars>>
     \/ part = "panels" /\ PanelsNext /\ UNCHANGED <<loginVars, dashVars>>
     \/ part = "dashboard" /\ DashboardNext /\ UNCHANGED <<loginVars, panelVars>>

WebSpec == WebInit /\ [][WebNext]_<<part, loginVars, panelVars, dashVars>>

\* The type invariants of the three.
WebTypeOK == LoginTypeOK /\ PanelsTypeOK /\ DashboardTypeOK

\* A second dialog is opened over the first on every page but that of the
\* vacuum, which has more states than the others together.
OneBoxOnVacuum == home = "vacuum" => handlers \subseteq {CHOOSE b \in Box : TRUE}
=============================================================================
