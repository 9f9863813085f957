---- MODULE Console ----
(***************************************************************************)
(* The operator's console around its transcript (client/app.js): which     *)
(* session is selected, the panels that show it, and the calls the console *)
(* makes; and the routes that answer them (edge/http-common, and the       *)
(* routing of edge/sse and edge/ws).  The transcript is LiveView's.        *)
(*                                                                         *)
(* Calls are answered in any order.  An answer is "ok", "refused" for any  *)
(* error of the API, or "unauthenticated".  Of a panel's rows it matters    *)
(* whose they are.  A behaviour follows one of the panels, or the list of  *)
(* sessions and what is sent from beside it: the panels do not read one    *)
(* another's state.                                                        *)
(***************************************************************************)
EXTENDS Integers, Bags

CONSTANTS
  Sessions,
  Followed,     \* what behaviours follow: panels, and "list"
  MaxCalls,     \* bound: calls in flight when another is made,
  MaxSends      \* of a behaviour whose panel is not fetched before it shows

None == 0

VARIABLES
  \* the server
  sess,         \* each session: "unborn", "live", "ended" or "removed"
  signedIn,     \* whether the browser's credential is accepted
  \* the console
  panel,        \* what is followed
  selected,     \* state.sessionId
  draft,        \* state.reviewDraftId: the session the draft is about
  known,        \* state.sessionsById
  opened,       \* state.panelsOpen
  visible,      \* the panel is on screen
  rows,         \* the session whose rows it holds
  terminating,  \* the session the termination screen describes
  requisitions, \* the requisitions panel is on screen
  login,        \* the login panel is
  calls

serverVars == <<sess, signedIn>>
panelVars == <<opened, visible, rows>>
screenVars == <<terminating, requisitions, login>>
vars == <<serverVars, panel, selected, draft, known, panelVars, screenVars, calls>>

Exists(s) == s # None /\ sess[s] \in {"live", "ended"}
Listed == [s \in Sessions |-> IF Exists(s) THEN sess[s] ELSE "none"]

Init ==
  /\ sess \in [Sessions -> {"unborn", "live"}] /\ sess[CHOOSE s \in Sessions : TRUE] = "live"
  /\ signedIn = TRUE
  /\ panel \in Followed
  /\ selected = None /\ draft = None /\ known = Listed
  /\ opened = FALSE /\ visible = FALSE /\ rows = None
  /\ terminating = None /\ requisitions = FALSE /\ login = FALSE
  /\ calls = EmptyBag

\* `meant` is history: the session the operator saw when the call was asked for.
CallFor(route, s, meant) ==
  [route |-> route, session |-> s, meant |-> meant, answer |-> "none", body |-> None]
Call(route, s) == CallFor(route, s, s)
Out(call) == BagIn(call, calls) /\ call.answer = "none"
Back(call) == BagIn(call, calls) /\ call.answer # "none"
Room == BagCardinality(calls) < IF panel \in {"checklist", "payroll"} THEN MaxCalls ELSE MaxSends
Issues(new) == calls' = calls (+) SetToBag(new)
Handled(call, new) == calls' = (calls (-) SetToBag({call})) (+) SetToBag(new)

(***************************************************************************)
(* The routes: what a request does to the server, and what it answers.     *)
(***************************************************************************)
Answer(answer, sess1, body) == [answer |-> answer, sess |-> sess1, body |-> body]
Ok(body) == Answer("ok", sess, body)
Done == Ok(None)
Becomes(s, state) == Answer("ok", [sess EXCEPT ![s] = state], s)
Refused == Answer("refused", sess, None)
\* What the manager refuses it refuses before it writes; a session that does
\* not exist, or is another operator's, it knows nothing of.
OfSession(s, oks) == {Refused} \cup IF Exists(s) THEN oks ELSE {}
OfLive(s, oks) == {Refused} \cup IF Exists(s) /\ sess[s] = "live" THEN oks ELSE {}

handleList(s) == {Ok(Listed)}
handleCreate(s) == {Refused} \cup {Becomes(t, "live") : t \in {u \in Sessions : sess[u] = "unborn"}}
handleMessage(s) == OfLive(s, {Done})
handlePermission(s) == OfSession(s, {Done})
handleInterrupt(s) == OfLive(s, {Done})
handleEnd(s) == OfLive(s, {Becomes(s, "ended")})
handleDelete(s) == OfSession(s, {Becomes(s, "removed")})
handleRename(s) == OfSession(s, {Done})
handleCheckpointRestore(s) == OfSession(s, {Done})
handleTickChecklistItem(s) == OfLive(s, {Done})
handleCreateReview(s) == OfSession(s, {Done})
handleAppendReview(s) == {Refused, Done}
handleFinaliseReview(s) == {Refused, Done}
handleListCheckpoints(s) == OfSession(s, {Done})
handleChecklist(s) == OfSession(s, {Done})
handlePayroll(s) == OfSession(s, {Done})
handleListReviews(s) == {Done}
handleListRequisitions(s) == {Done}
handleLogin(s) == {Refused, Done}

\* The listener of either edge: the login exchange needs no identity, every
\* other route does; the console's own requests pass the origin's check.
resolveOperator == signedIn
Route(call) ==
  LET s == call.session
  IN CASE call.route = "login" -> handleLogin(s)
       [] call.route # "login" /\ ~resolveOperator ->
            {Answer("unauthenticated", sess, None)}
       [] resolveOperator /\ call.route \in {"list", "createList"} -> handleList(s)
       [] resolveOperator /\ call.route = "create" -> handleCreate(s)
       [] resolveOperator /\ call.route = "message" -> handleMessage(s)
       [] resolveOperator /\ call.route = "permission" -> handlePermission(s)
       [] resolveOperator /\ call.route = "interrupt" -> handleInterrupt(s)
       [] resolveOperator /\ call.route = "end" -> handleEnd(s)
       [] resolveOperator /\ call.route = "delete" -> handleDelete(s)
       [] resolveOperator /\ call.route = "rename" -> handleRename(s)
       [] resolveOperator /\ call.route = "restore" -> handleCheckpointRestore(s)
       [] resolveOperator /\ call.route = "tick" -> handleTickChecklistItem(s)
       [] resolveOperator /\ call.route = "newDraft" -> handleCreateReview(s)
       [] resolveOperator /\ call.route = "draft" -> handleAppendReview(s)
       [] resolveOperator /\ call.route = "publish" -> handleFinaliseReview(s)
       [] resolveOperator /\ call.route = "checkpoints" -> handleListCheckpoints(s)
       [] resolveOperator /\ call.route = "checklist" -> handleChecklist(s)
       [] resolveOperator /\ call.route = "payroll" -> handlePayroll(s)
       [] resolveOperator /\ call.route = "reviews" -> handleListReviews(s)
       [] resolveOperator /\ call.route = "requisitions" -> handleListRequisitions(s)
Serve(call) ==
  /\ Out(call) /\ call.route # "encode"
  /\ \E answer \in Route(call) :
       /\ sess' = answer.sess
       /\ signedIn' = (signedIn \/ (call.route = "login" /\ answer.answer = "ok"))
       /\ Handled(call, {[call EXCEPT !.answer = answer.answer, !.body = answer.body]})
  /\ UNCHANGED <<panel, selected, draft, known, panelVars, screenVars>>

\* Another tab of the operator, the agent at work, and a credential that is
\* accepted no longer.
Elsewhere ==
  /\ \E s \in Sessions :
       \E answer \in handleEnd(s) \cup handleDelete(s) : sess' = answer.sess
  /\ UNCHANGED <<signedIn, panel, selected, draft, known, panelVars, screenVars, calls>>
SignedOut ==
  /\ signedIn' = FALSE
  /\ UNCHANGED <<sess, panel, selected, draft, known, panelVars, screenVars, calls>>

(***************************************************************************)
(* What the operator does.  A panel or screen covers the rest.             *)
(***************************************************************************)
Uncovered == ~login /\ ~visible /\ terminating = None /\ ~requisitions
Current == IF selected = None THEN "none" ELSE known[selected]
List == IF panel = "list" THEN {Call("list", None)} ELSE {}
Fetch(s) == IF s = None \/ panel = "list" THEN {} ELSE {Call(panel, s)}
Hidden == visible' = FALSE /\ opened' = FALSE
Unselected == draft' = None /\ Hidden

\* selectSession, which hides what was open and fetches anew.
SelectSession(s) == selected' = s /\ Unselected
Selection(s) == List \cup Fetch(s)
Select(s) ==
  /\ Uncovered /\ Room /\ known[s] # "none"
  /\ SelectSession(s)
  /\ Issues(Selection(s))
  /\ UNCHANGED <<serverVars, panel, known, rows, screenVars>>

\* Clicks that only send.
Asks(call) ==
  /\ ~login /\ Room
  /\ Issues({call})
  /\ UNCHANGED <<serverVars, panel, selected, draft, known, panelVars, screenVars>>
Refresh == panel = "list" /\ Uncovered /\ Asks(Call("list", None))
CreateSession == Uncovered /\ Asks(Call("create", None))
DoEnd == panel = "list" /\ Uncovered /\ selected # None /\ Asks(Call("end", selected))
DoRename(s) == panel = "list" /\ Uncovered /\ known[s] # "none" /\ Asks(Call("rename", s))
Answers(route) == panel = "list" /\ Uncovered /\ selected # None /\ Asks(Call(route, selected))
SendMessage ==
  /\ panel = "list" /\ Uncovered /\ selected # None /\ Current # "ended"
  /\ Asks(Call("encode", selected))
TickItem ==
  /\ panel = "checklist" /\ visible /\ selected # None
  /\ Asks(CallFor("tick", selected, rows))
RestoreCheckpoint ==
  /\ panel = "checkpoints" /\ visible /\ selected # None
  /\ Asks(CallFor("restore", selected, rows))
SaveReviewDraft ==
  /\ panel = "reviews" /\ visible /\ selected # None
  /\ Asks(IF draft = None THEN Call("newDraft", selected) ELSE CallFor("draft", draft, selected))
PublishReview ==
  /\ panel = "reviews" /\ visible /\ draft # None
  /\ Asks(CallFor("publish", draft, selected))
\* The DELETE goes to whatever is selected by now.
ConfirmTerminate ==
  /\ terminating # None /\ selected # None
  /\ Asks(CallFor("delete", selected, terminating))
SubmitLogin ==
  /\ login /\ Room
  /\ Issues({Call("login", None)})
  /\ UNCHANGED <<serverVars, panel, selected, draft, known, panelVars, screenVars>>

\* The panels: two are shown at once, with what they hold; two when their
\* rows have come.
ShownAtOnce == panel \in {"checkpoints", "reviews"}
OpenPanel ==
  /\ panel # "list" /\ Uncovered /\ Room /\ selected # None
  /\ opened' = ~ShownAtOnce
  /\ visible' = ShownAtOnce
  /\ Issues(Fetch(selected))
  /\ UNCHANGED <<serverVars, panel, selected, draft, known, rows, screenVars>>
ClosePanel ==
  /\ visible
  /\ Hidden
  /\ UNCHANGED <<serverVars, panel, selected, draft, known, rows, screenVars, calls>>
OpenTerminate ==
  /\ Uncovered /\ Current # "none"
  /\ terminating' = selected
  /\ UNCHANGED <<serverVars, panel, selected, draft, known, panelVars, requisitions, login, calls>>
CloseTerminate ==
  /\ terminating # None
  /\ terminating' = None
  /\ UNCHANGED <<serverVars, panel, selected, draft, known, panelVars, requisitions, login, calls>>
OpenRequisitions ==
  /\ panel = "list" /\ Uncovered /\ Room
  /\ requisitions' = TRUE
  /\ Issues({Call("requisitions", None)})
  /\ UNCHANGED <<serverVars, panel, selected, draft, known, panelVars, terminating, login>>
CloseRequisitions ==
  /\ requisitions
  /\ requisitions' = FALSE
  /\ UNCHANGED <<serverVars, panel, selected, draft, known, panelVars, terminating, login, calls>>

(***************************************************************************)
(* What the stream brings of the selected session: its panel is refetched; *)
(* that the session ended is known at once.                                *)
(***************************************************************************)
Announced ==
  /\ selected # None /\ Exists(selected) /\ Room
  /\ panel \notin {"reviews", "list"}
  /\ Issues(Fetch(selected))
  /\ UNCHANGED <<serverVars, panel, selected, draft, known, panelVars, screenVars>>
EndAnnounced ==
  /\ selected # None /\ sess[selected] = "ended" /\ Current = "live"
  /\ known' = [known EXCEPT ![selected] = "ended"]
  /\ UNCHANGED <<serverVars, panel, selected, draft, panelVars, screenVars, calls>>

(***************************************************************************)
(* The answers.  Any 401 but the login's shows the login panel, hides the  *)
(* others, and ends the handler that waited; createSession alone goes on.  *)
(***************************************************************************)
ShowLogin(call) ==
  /\ Back(call) /\ call.answer = "unauthenticated"
  /\ login' = TRUE /\ terminating' = None
  /\ Hidden
  /\ IF call.route = "createList"
     THEN /\ SelectSession(call.session)
          /\ Handled(call, Selection(call.session))
     ELSE /\ Handled(call, {})
          /\ UNCHANGED <<selected, draft>>
  /\ UNCHANGED <<serverVars, panel, known, rows, requisitions>>

Granted(call, route) == Back(call) /\ call.answer = "ok" /\ call.route = route

\* The writes: a refusal is reported; a success is followed by a read, of
\* what is selected by then.
Follows(call) ==
  CASE call.route \in {"tick", "restore"} -> Fetch(selected)
    [] call.route = "create" -> {Call("createList", call.body)}
    [] call.route = "end" -> List
    [] OTHER -> {}
Refusal(call) ==
  /\ Back(call) /\ call.answer = "refused"
  /\ call.route # panel
  /\ Handled(call, IF call.route = "rename" THEN List ELSE {})
  /\ UNCHANGED <<serverVars, panel, selected, draft, known, panelVars, screenVars>>
Success(call) ==
  /\ Back(call) /\ call.answer = "ok"
  /\ call.route \in {"tick", "restore", "create", "end", "message", "permission",
                     "interrupt", "requisitions"}
  /\ Handled(call, Follows(call))
  /\ UNCHANGED <<serverVars, panel, selected, draft, known, panelVars, screenVars>>
Renamed(call) ==
  /\ Granted(call, "rename")
  /\ Handled(call, List)
  /\ UNCHANGED <<serverVars, panel, selected, draft, known, panelVars, screenVars>>
Encoded(call) ==
  /\ Out(call) /\ call.route = "encode"
  /\ Handled(call, {CallFor("message", selected, call.meant)})
  /\ UNCHANGED <<serverVars, panel, selected, draft, known, panelVars, screenVars>>

RefreshSessions(call) ==
  /\ Granted(call, "list")
  /\ known' = call.body
  /\ Handled(call, {})
  /\ UNCHANGED <<serverVars, panel, selected, draft, panelVars, screenVars>>
Created(call) ==
  /\ Granted(call, "createList")
  /\ known' = call.body
  /\ SelectSession(call.session)
  /\ Handled(call, Selection(call.session))
  /\ UNCHANGED <<serverVars, panel, rows, screenVars>>
DraftSaved(call) ==
  /\ Granted(call, "newDraft") \/ Granted(call, "draft")
  /\ draft' = call.session
  /\ Handled(call, {})
  /\ UNCHANGED <<serverVars, panel, selected, known, panelVars, screenVars>>
Published(call) ==
  /\ Granted(call, "publish")
  /\ draft' = None
  /\ Handled(call, Fetch(selected))
  /\ UNCHANGED <<serverVars, panel, selected, known, panelVars, screenVars>>
Terminated(call) ==
  /\ Granted(call, "delete")
  /\ selected' = None /\ Unselected
  /\ terminating' = None
  /\ Handled(call, List)
  /\ UNCHANGED <<serverVars, panel, known, rows, requisitions, login>>
LoggedIn(call) ==
  /\ Granted(call, "login")
  /\ login' = FALSE
  /\ Handled(call, List)
  /\ UNCHANGED <<serverVars, panel, selected, draft, known, panelVars, terminating, requisitions>>

\* fetchForCurrentSession, and the refreshes built on it: an answer for a
\* session no longer selected is dropped; two panels are cleared and hidden
\* where the read failed, two keep what they hold.
NeverMoved(call) == FALSE
Moved(call) == call.session # selected
PanelShows(call) ==
  /\ ~Moved(call) /\ call.answer = "ok"
  /\ rows' = call.session
  /\ visible' = IF ShownAtOnce THEN visible ELSE opened
  /\ UNCHANGED opened
PanelUntrusted(call) ==
  /\ ~Moved(call) /\ call.answer = "refused" /\ ~ShownAtOnce
  /\ rows' = None /\ visible' = FALSE /\ opened' = FALSE
PanelKept(call) ==
  /\ ~Moved(call) /\ call.answer = "refused" /\ ShownAtOnce
  /\ UNCHANGED panelVars
PanelDropped(call) == Moved(call) /\ UNCHANGED panelVars
PanelRead(call) ==
  /\ Back(call) /\ call.route = panel /\ call.answer # "unauthenticated"
  /\ Handled(call, {})
  /\ PanelShows(call) \/ PanelUntrusted(call) \/ PanelKept(call) \/ PanelDropped(call)
  /\ UNCHANGED <<serverVars, panel, selected, draft, known, screenVars>>

Next ==
  \/ Elsewhere \/ SignedOut
  \/ \E s \in Sessions : Select(s) \/ DoRename(s)
  \/ Refresh \/ CreateSession \/ DoEnd \/ SendMessage \/ TickItem
  \/ RestoreCheckpoint \/ SaveReviewDraft \/ PublishReview \/ ConfirmTerminate
  \/ \E route \in {"permission", "interrupt"} : Answers(route)
  \/ SubmitLogin \/ OpenPanel \/ ClosePanel \/ OpenTerminate \/ CloseTerminate
  \/ OpenRequisitions \/ CloseRequisitions \/ Announced \/ EndAnnounced
  \/ \E call \in BagToSet(calls) :
       \/ Serve(call) \/ ShowLogin(call) \/ Refusal(call) \/ Success(call)
       \/ Renamed(call) \/ Encoded(call) \/ RefreshSessions(call) \/ Created(call)
       \/ DraftSaved(call) \/ Published(call) \/ Terminated(call)
       \/ LoggedIn(call) \/ PanelRead(call)

Spec == Init /\ [][Next]_vars

(***************************************************************************)
(* Properties                                                              *)
(***************************************************************************)
\* What covers the page is current.  A checklist or payroll on screen is the
\* selected session's, whichever answers come late, fail, or find another
\* session selected, deleted or created (fetchForCurrentSession's comment, and
\* refreshChecklist's on a failed refetch); and once the login panel shows, no
\* answer still on its way puts a panel or the termination screen over it
\* (showLogin's comment on the overlays).
OverlaysAreCurrent ==
  /\ visible /\ ~ShownAtOnce => rows = selected /\ selected # None
  /\ login => ~visible /\ terminating = None

\* Refuted: the requisitions panel is such an overlay too, and stays open
\* (showLogin's comment: any one of them paints above the login panel).
LoginIsUncovered == login => ~requisitions

\* Refuted: the other two panels keep another session's rows on screen when
\* their own session's read is slow or fails (refreshChecklist's comment).
RowsAreOfSelected == visible /\ rows # None => rows = selected

\* Refuted: a session created meanwhile is selected under the screen that
\* describes another, and is what the confirmed termination removes.
TerminatesWhatItShows ==
  \A call \in BagToSet(calls) : call.route = "delete" => call.session = call.meant

\* Refuted: the session is read after the attachments are encoded.
MessageReachesItsSession ==
  \A call \in BagToSet(calls) : call.route = "message" => call.session = call.meant

\* Refuted: a draft saved while another session is selected is edited, and
\* published, from that session's form.
DraftIsOfSelected == draft # None => draft = selected

\* Refuted: a list read before the session ended may be the last to arrive
\* (handleEnvelope's comment: withdrawn the moment it happens).
EndedStaysEnded == [][\A s \in Sessions : known[s] = "ended" => known'[s] # "live"]_vars
====
