-------------------------- MODULE VideoView_proofs --------------------------
(***************************************************************************)
(* For any number of logins, the picture follows its request.              *)
(***************************************************************************)
EXTENDS VideoView, TLAPS

(* What a step leaves alone, or sets to a constant, keeps its type; only the
   images take thought. *)
LEMMA TypeInit == Init => TypeOK
  BY MaxLoginsAssumption DEF Init, TypeOK, Dashboards, Tabs, VideoTabs, NoImage

LEMMA TypeNext == TypeOK /\ [Next]_vars => TypeOK'
<1> SUFFICES ASSUME TypeOK, [Next]_vars PROVE TypeOK'
  OBVIOUS
<1> USE DEF TypeOK, updateStatus
<1>1. ASSUME NEW tab \in Tabs, selectTab(tab) PROVE TypeOK'
  BY <1>1 DEF selectTab, Open, Tabs, VideoTabs
<1>2. CASE startStream
  BY <1>2 DEF startStream, Controls
<1>3. CASE stopStream
  BY <1>3 DEF stopStream, Controls
<1>4. ASSUME NEW d \in Dashboards, onload(d) PROVE TypeOK'
  BY <1>4 DEF onload
<1>5. ASSUME NEW d \in Dashboards, onerror(d) PROVE TypeOK'
  BY <1>5 DEF onerror, Hide
<1>6. ASSUME NEW d \in Dashboards, TimeoutOver(d) PROVE TypeOK'
  BY <1>6 DEF TimeoutOver, Hide
<1>7. ASSUME NEW d \in Dashboards, refreshStream(d) PROVE TypeOK'
  BY <1>7 DEF refreshStream
<1>8. CASE logout
  <2>1. dashboard' \in Dashboards
    BY <1>8, MaxLoginsAssumption DEF logout, Dashboards
  <2> QED
    BY <1>8, <2>1 DEF logout, Open, Tabs, VideoTabs
<1>9. CASE UNCHANGED vars
  BY <1>9 DEF vars
<1> QED
  BY <1>1, <1>2, <1>3, <1>4, <1>5, <1>6, <1>7, <1>8, <1>9 DEF Next

\* Every behaviour keeps the types, and a status text exists in the video tabs only
THEOREM TypeCorrect == Spec => []TypeOK
  BY TypeInit, TypeNext, PTL DEF Spec

LEMMA PictureNext ==
  ASSUME TypeOK, PictureFollowsRequest, [Next]_vars
  PROVE  PictureFollowsRequest'
<1> USE DEF TypeOK, PictureFollowsRequest
<1>1. ASSUME NEW tab \in Tabs, selectTab(tab) PROVE PictureFollowsRequest'
  BY <1>1 DEF selectTab, Open
<1>2. CASE startStream
  BY <1>2 DEF startStream
<1>3. CASE stopStream
  BY <1>3 DEF stopStream
<1>4. ASSUME NEW d \in Dashboards, onload(d) PROVE PictureFollowsRequest'
  BY <1>4 DEF onload
<1>5. ASSUME NEW d \in Dashboards, onerror(d) PROVE PictureFollowsRequest'
  BY <1>5 DEF onerror, Hide
<1>6. ASSUME NEW d \in Dashboards, TimeoutOver(d) PROVE PictureFollowsRequest'
  BY <1>6 DEF TimeoutOver, Hide, Incomplete
<1>7. ASSUME NEW d \in Dashboards, refreshStream(d) PROVE PictureFollowsRequest'
  BY <1>7 DEF refreshStream
<1>8. CASE logout
  BY <1>8 DEF logout, Open
<1>9. CASE UNCHANGED vars
  BY <1>9 DEF vars
<1> QED
  BY <1>1, <1>2, <1>3, <1>4, <1>5, <1>6, <1>7, <1>8, <1>9 DEF Next

\* Timeouts, late answers, refreshes, changes of tab and logouts in any order:
\* what has loaded is on display, what has failed is not
THEOREM PictureFollows == Spec => []PictureFollowsRequest
<1>1. Init => PictureFollowsRequest
  BY DEF Init, PictureFollowsRequest, NoImage
<1> QED
  BY <1>1, TypeCorrect, PictureNext, PTL DEF Spec
=============================================================================
