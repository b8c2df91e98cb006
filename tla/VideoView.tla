------------------------------ MODULE VideoView -----------------------------
(***************************************************************************)
(* The video part of dashboard.ts and of its template: one image in each   *)
(* of the tabs "cameras" and "fpv", its load and error callbacks, the 10 s *)
(* timeout of a start and the 30 s refresh.                                *)
(*                                                                         *)
(* Angular makes a new image, hidden and without a source, whenever one of *)
(* the two tabs is opened; callbacks and timers keep the image they were   *)
(* made for, in the page or not, and outlive the component.  The start and *)
(* stop buttons are in the page while streamActive is false, so that a     *)
(* component starts at most one stream.  The template has no image with    *)
(* the id mjpeg-stream: whatever depends on it does nothing.               *)
(***************************************************************************)
EXTENDS Naturals

CONSTANT MaxLogins       \* bound: dashboards made after one another

ASSUME MaxLoginsAssumption == MaxLogins \in Nat \ {0}

Dashboards == 1 .. MaxLogins
VideoTabs  == {"cameras", "fpv"}
Tabs       == VideoTabs \cup {"manual"}   \* "sensors" and "config" have no video either

VARIABLES
  dashboard,             \* the component on the page; the ones before are destroyed
  activeTab,
  status,                \* text of gstreamer-status-text, "absent" with its tab
  streamActive, refreshInterval, timeout,  \* per component; timeout: 10 s not over
  image                  \* per component: the image its startStream has set up

vars == <<dashboard, activeTab, status, streamActive, refreshInterval, timeout, image>>

\* inPage: it is the image of the open tab
NoImage == [inPage |-> FALSE, request |-> "none", display |-> "none"]

Init ==
  /\ dashboard = 1
  /\ activeTab = "manual"
  /\ status = "absent"
  /\ streamActive = [d \in Dashboards |-> FALSE]
  /\ refreshInterval = [d \in Dashboards |-> FALSE]
  /\ timeout = [d \in Dashboards |-> FALSE]
  /\ image = [d \in Dashboards |-> NoImage]

-----------------------------------------------------------------------------
\* Mutant: the status element is taken to be in the page
updateStatusUnchecked(text) == status' = text

updateStatus(text) == status' = IF status = "absent" THEN "absent" ELSE text

\* *ngIf="!streamActive"
Controls == activeTab \in VideoTabs /\ ~streamActive[dashboard]

\* The template is rendered with another tab: its old images are dropped
Open(tab) ==
  /\ activeTab' = tab
  /\ status' = IF tab \in VideoTabs THEN "Desconectado" ELSE "absent"
  /\ image' = [d \in Dashboards |-> [image[d] EXCEPT !.inPage = FALSE]]

selectTab(tab) ==
  /\ tab # activeTab
  /\ Open(tab)
  /\ UNCHANGED <<dashboard, streamActive, refreshInterval, timeout>>

startStream ==
  /\ Controls
  /\ streamActive' = [streamActive EXCEPT ![dashboard] = TRUE]
  /\ image' = [image EXCEPT ![dashboard] =
       [inPage |-> TRUE, request |-> "loading", display |-> "none"]]
  /\ updateStatus("Conectando...")
  /\ timeout' = [timeout EXCEPT ![dashboard] = TRUE]
  /\ refreshInterval' = [refreshInterval EXCEPT ![dashboard] = TRUE]
  /\ UNCHANGED <<dashboard, activeTab>>

\* Its button is there while nothing streams: it resets the status
stopStream ==
  /\ Controls
  /\ updateStatus("Desconectado")
  /\ refreshInterval' = [refreshInterval EXCEPT ![dashboard] = FALSE]
  /\ UNCHANGED <<dashboard, activeTab, streamActive, timeout, image>>

(* The browser's events *)
onload(d) ==
  /\ image[d].request = "loading"
  /\ image' = [image EXCEPT ![d].request = "loaded", ![d].display = "block"]
  /\ updateStatus("Conectado")
  /\ UNCHANGED <<dashboard, activeTab, streamActive, refreshInterval, timeout>>

\* Mutant: a failed picture stays on display
HideNothing(d, request) == image' = [image EXCEPT ![d].request = request]

Hide(d, request) ==
  image' = [image EXCEPT ![d].request = request, ![d].display = "none"]

onerror(d) ==
  /\ image[d].request = "loading"
  /\ Hide(d, "broken")
  /\ updateStatus("Error")
  /\ UNCHANGED <<dashboard, activeTab, streamActive, refreshInterval, timeout>>

\* Mutant: the timeout does not ask whether the image is complete
AnyImage(d) == TRUE

\* !gstreamerImg.complete
Incomplete(d) == image[d].request = "loading"

\* onerror is called by hand; the request itself goes on
TimeoutOver(d) ==
  /\ timeout[d]
  /\ timeout' = [timeout EXCEPT ![d] = FALSE]
  /\ IF streamActive[d] /\ Incomplete(d)
     THEN Hide(d, image[d].request) /\ updateStatus("Error")
     ELSE UNCHANGED <<image, status>>
  /\ UNCHANGED <<dashboard, activeTab, streamActive, refreshInterval>>

\* Every 30 s, of any component and after its 10 s timeout: the image is looked
\* up in the page
refreshStream(d) ==
  /\ refreshInterval[d] /\ streamActive[d] /\ ~timeout[d]
  /\ image[dashboard].inPage /\ image[dashboard].display = "block"
  /\ image' = [image EXCEPT ![dashboard].request = "loading"]
  /\ UNCHANGED <<dashboard, activeTab, status, streamActive, refreshInterval, timeout>>

\* ngOnDestroy clears no timer; after the next login a new component starts
logout ==
  /\ dashboard < MaxLogins
  /\ dashboard' = dashboard + 1
  /\ Open("manual")
  /\ UNCHANGED <<streamActive, refreshInterval, timeout>>

Next ==
  \/ \E tab \in Tabs : selectTab(tab)
  \/ startStream
  \/ stopStream
  \/ \E d \in Dashboards :
       onload(d) \/ onerror(d) \/ TimeoutOver(d) \/ refreshStream(d)
  \/ logout

Spec == Init /\ [][Next]_vars
-----------------------------------------------------------------------------
TypeOK ==
  /\ dashboard \in Dashboards
  /\ activeTab \in Tabs
  /\ status \in {"absent", "Desconectado", "Conectando...", "Conectado", "Error"}
  /\ status = "absent" <=> activeTab \notin VideoTabs
  /\ streamActive \in [Dashboards -> BOOLEAN]
  /\ refreshInterval \in [Dashboards -> BOOLEAN]
  /\ timeout \in [Dashboards -> BOOLEAN]
  /\ image \in [Dashboards -> [inPage  : BOOLEAN,
                               request : {"none", "loading", "loaded", "broken"},
                               display : {"none", "block"}]]

\* A picture that has arrived is on display and one that failed is not, however
\* timeout, late answers, refreshes, tab changes and logouts follow each other
PictureFollowsRequest ==
  \A d \in Dashboards :
    /\ image[d].request = "loaded" => image[d].display = "block"
    /\ image[d].request \in {"none", "broken"} => image[d].display = "none"

\* "Fallback to MJPEG": a tab in which a stream was started shows its picture,
\* waits for it, or offers the buttons to try again
VideoOrControls ==
  image[dashboard].inPage =>
    \/ image[dashboard].display = "block"
    \/ image[dashboard].request = "loading"
    \/ Controls
=============================================================================
