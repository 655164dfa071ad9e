--------------------------- MODULE RekordboxApps ----------------------------
(***************************************************************************)
(* The thirteen rekordbox applications: a behaviour is one of one of them, *)
(* which moves the state all have and that of its own.                     *)
(***************************************************************************)
EXTENDS TrackViewers, TrackDetails, ListBrowsers, PanelBrowsers, KeyWheel

CONSTANT Apps   \* the applications that are run

AllApps == Viewers \cup Details \cup Browsers \cup PanelApps \cup {"key-wheel"}

ASSUME AppsAssumption == Apps \subseteq AllApps

AppsInit == /\ AppInit(Apps)
            /\ ViewerInit /\ DetailInit /\ BrowserInit /\ PanelInit /\ WheelInit

AppsNext ==
    \/ ViewerNext  /\ UNCHANGED <<detailVars, browserVars, panelVars, wheelVars>>
    \/ DetailNext  /\ UNCHANGED <<viewerVars, browserVars, panelVars, wheelVars>>
    \/ BrowserNext /\ UNCHANGED <<viewerVars, detailVars, panelVars, wheelVars>>
    \/ PanelNext   /\ UNCHANGED <<viewerVars, detailVars, browserVars, wheelVars>>
    \/ WheelNext   /\ UNCHANGED <<viewerVars, detailVars, browserVars, panelVars>>

AppsSpec == AppsInit /\ [][AppsNext]_<<appVars, viewerVars, detailVars, browserVars,
                                       panelVars, wheelVars>>
=============================================================================
