------------------------------ MODULE WebPages ------------------------------
(***************************************************************************)
(* The other pages of the web application (apps/web): the documents page   *)
(* with its polling and upload, the pages that show a list or a form and   *)
(* load it again after every change, the shell around them, the sign-in    *)
(* form, the onboarding wizard, and what moves on the landing pages of     *)
(* apps/web and of site.                                                   *)
(*                                                                         *)
(* Every request goes through the proxy and may be answered late, in any   *)
(* order or with an error; a request is served when it is sent, its        *)
(* answer arrives some steps later.  No page cancels or numbers a GET.     *)
(***************************************************************************)
EXTENDS Integers, Sequences, FiniteSets

CONSTANTS
  PageDocs,     \* documents of the workspace
  Cookies,      \* kinds of revex_session: "HttpOnly", as the API sets it, or "script"
  MaxGets,      \* bound on the answers under way to a page
  MaxChanges    \* bound on what users change

ASSUME PagesAssumption ==
  /\ Cookies \subseteq {"HttpOnly", "script"}
  /\ MaxGets \in Nat \ {0} /\ MaxChanges \in Nat

Statuses == {"absent", "pending", "indexing", "ready", "failed"}
Lists == [PageDocs -> Statuses]
NoList == [d \in PageDocs |-> "absent"]
Error == <<>>
Panels == {"principals", "members", "settings", "stats"}
Tabs == Panels \cup {"documents", "sign-in", "wizard", "live", "site", "theme"}
Steps == <<"workspace", "admin", "llm", "passphrase", "confirm">>

\* What the form asks for in each step.  "" is what the test of a field refuses.
Fields == <<{"workspaceName"}, {"adminEmail", "adminPassword"}, {"llmModel", "llmApiKey"},
            {"passphrase", "passphraseConfirm"}, {}>>
FormFields == UNION {Fields[i] : i \in DOMAIN Steps}
TextsFor(f) == IF f \in Fields[4] THEN {"", "p", "q"} ELSE {"", "p"}
LoginFields == {"email", "password", "passphrase"}

DemoQueries == {"retrieval", "acls"}
Themes == {"light", "dark"}
Switches == {"header", "footer"}   \* the components that call useTheme

VARIABLES
  tab,          \* the page this tab shows
  cookie,       \* the kind of the session cookie, or "none"
  page,         \* the documents page or a panel: "mounting", "open", "sign-in"
  view,         \* its loading and error
  docStatus,    \* the server: documents.status
  rows,         \* rows
  gets,         \* answers to GET /v1/documents under way: <<list>> or Error
  upload,       \* file: one is chosen; posting: uploading; draining: streams that are read
  ingestLog,    \* events shown of the ingest stream
  server,       \* the version of what the server has for the panel
  shown,        \* the version shown, or -1
  panelGets,    \* the versions under way
  owed,         \* changes answered whose reload is to be sent
  storedKey,    \* settings.llm.apiKey is set
  changes,
  wizard,       \* stepIndex + 1
  form,         \* state: the fields
  busy,         \* a registration is under way
  registered,   \* registrations sent: were all steps valid?
  login,        \* the sign-in page: its fields, errors and submitting
  live,         \* LiveQuery of apps/web and its useRevexStream
  demo,         \* LiveQuery of site
  theme         \* useTheme of site

frameVars == <<tab, cookie, page, view, changes>>
docVars == <<docStatus, rows, gets, upload, ingestLog>>
panelVars == <<server, shown, panelGets, owed, storedKey>>
wizardVars == <<wizard, form, busy, registered>>
landingVars == <<live, demo, theme>>
pagesVars == <<frameVars, docVars, panelVars, wizardVars, login, landingVars>>

\* locked: its streaming; probes: first POSTs under way; typing: demo answers
\* typed by an interval; runs: calls of start() that read a stream; current:
\* the run controllerRef names, or 0; streaming: that of the hook.
LiveStart == [locked |-> FALSE, probes |-> {}, typing |-> {}, runs |-> {}, current |-> 0,
              streaming |-> FALSE, aborted |-> {}]

\* typed: the demo whose text is shown; ticks: those with a timer.
DemoStart == [streaming |-> FALSE, active |-> "none", typed |-> "none", ticks |-> {}]

PagesTypeOK ==
  /\ cookie \in {"HttpOnly", "script", "none"} /\ page \in {"mounting", "open", "sign-in"}
  /\ view \in [loading : BOOLEAN, error : BOOLEAN]
  /\ {docStatus, rows} \subseteq Lists /\ gets \subseteq {<<a>> : a \in Lists} \cup {Error}
  /\ tab \in Tabs
  /\ upload \in [file : BOOLEAN, posting : BOOLEAN, draining : 0 .. MaxChanges] /\ ingestLog \in 0 .. 1
  /\ shown \in -1 .. server /\ owed \in 0 .. MaxChanges
  /\ changes \in 0 .. MaxChanges /\ wizard \in DOMAIN Steps
  /\ DOMAIN form = FormFields /\ \A f \in DOMAIN form : form[f] \in TextsFor(f)
  /\ registered \subseteq BOOLEAN /\ login.errors \subseteq LoginFields
  /\ live.current \in live.runs \cup {0} /\ live.aborted \subseteq live.runs
  /\ demo.ticks \subseteq DemoQueries /\ {demo.active, demo.typed} \subseteq DemoQueries \cup {"none"}
  /\ theme.root \in Themes /\ {theme.stored, theme.chosen} \subseteq Themes \cup {"none"}

\* What is mounted first: the stored theme or that of the system, which the
\* effect writes to the root and to the storage, if there is one.
InitialTheme(stored, os) == IF stored # "none" THEN stored ELSE os

Mounted(storage, stored, os, chosen) ==
  LET t == InitialTheme(stored, os)
  IN  [os |-> os, storage |-> storage, root |-> t, state |-> [c \in Switches |-> t],
       stored |-> IF storage THEN t ELSE "none", chosen |-> chosen]

FirstVisits == {Mounted(w, "none", os, "none") : w \in BOOLEAN, os \in Themes}

PagesInit ==
  /\ tab \in Tabs /\ cookie \in Cookies
  /\ page = "mounting" /\ view = [loading |-> TRUE, error |-> FALSE]
  /\ docStatus = NoList /\ rows = NoList /\ gets = {}
  /\ upload = [file |-> FALSE, posting |-> FALSE, draining |-> 0] /\ ingestLog = 0
  /\ server = 0 /\ shown = -1 /\ panelGets = {} /\ owed = 0
  /\ storedKey = TRUE /\ changes = 0
  /\ wizard = 1 /\ busy = FALSE /\ registered = {}
  /\ form = [f \in FormFields |-> IF f = "llmModel" THEN "p" ELSE ""]
  /\ login = [email |-> "", password |-> "", passphrase |-> "", errors |-> {}, submitting |-> FALSE]
  /\ live = LiveStart /\ demo = DemoStart /\ theme \in FirstVisits

-----------------------------------------------------------------------------
(* The documents page                                                      *)

DocStep ==
  tab = "documents" /\ UNCHANGED <<tab, cookie, panelVars, wizardVars, login, landingVars>>

\* The guard of the pages of the workspace: document.cookie does not show an
\* HttpOnly cookie.  (The memory page has none.)
Visible == cookie = "script"

\* The documents that have a card.  (Its menu offers to share; Delete is disabled.)
Cards == {d \in PageDocs : rows[d] # "absent"}

\* What fills the page, under an error if there is one.
DocumentsBody == IF view.loading THEN "loading" ELSE IF Cards = {} THEN "empty" ELSE "cards"

\* The buttons the page shows and does not disable: Retry under an error, Upload and
\* Clear for a chosen file, Share on a card (its dialog is the panel "principals").
DocumentsOffer ==
  {b \in {"choose", "retry", "upload", "clear", "share"} :
     /\ b = "retry" => view.error
     /\ b = "share" => DocumentsBody = "cards"
     /\ b \in {"upload", "clear"} => upload.file
     /\ b = "upload" => ~upload.posting}

\* refresh(): GET /v1/documents.
SendGet == Cardinality(gets) < MaxGets /\ \E a \in {<<docStatus>>, Error} : gets' = gets \cup {a}

Mount ==
  /\ page = "mounting"
  /\ IF Visible THEN page' = "open" /\ SendGet ELSE page' = "sign-in" /\ UNCHANGED gets
  /\ UNCHANGED <<view, docStatus, rows, upload, ingestLog, changes>> /\ DocStep

\* Mutant: only documents that are indexed keep the page polling.
StillWorking_Indexing == \E d \in PageDocs : rows[d] = "indexing"

StillWorking == \E d \in PageDocs : rows[d] \in {"pending", "indexing"}

\* The interval, which lives as long as some row is unfinished.
Poll ==
  /\ page = "open" /\ StillWorking /\ SendGet
  /\ UNCHANGED <<page, view, docStatus, rows, upload, ingestLog, changes>> /\ DocStep

\* The button of an error.
Retry ==
  /\ page = "open" /\ "retry" \in DocumentsOffer
  /\ changes < MaxChanges /\ changes' = changes + 1 /\ SendGet
  /\ UNCHANGED <<page, view, docStatus, rows, upload, ingestLog>> /\ DocStep

\* An answer arrives: an error leaves the rows as they are.
ShowDocuments(a) ==
  /\ page = "open" /\ a \in gets /\ gets' = gets \ {a}
  /\ rows' = IF a = Error THEN rows ELSE a[1]
  /\ view' = [loading |-> FALSE, error |-> a = Error]
  /\ UNCHANGED <<page, docStatus, upload, ingestLog, changes>> /\ DocStep

\* A file is dropped or picked, or the choice is given up, at any time.
ChooseFile ==
  /\ page = "open" /\ "choose" \in DocumentsOffer /\ changes < MaxChanges /\ changes' = changes + 1
  /\ \E chosen \in BOOLEAN : upload' = [upload EXCEPT !.file = chosen]
  /\ UNCHANGED <<page, view, docStatus, rows, gets, ingestLog>> /\ DocStep

ClearFile ==
  /\ page = "open" /\ "clear" \in DocumentsOffer /\ upload' = [upload EXCEPT !.file = FALSE]
  /\ UNCHANGED <<page, view, docStatus, rows, gets, ingestLog, changes>> /\ DocStep

\* upload(): nothing asks whether an earlier stream has ended.
PostFile ==
  /\ page = "open" /\ "upload" \in DocumentsOffer
  /\ changes < MaxChanges /\ changes' = changes + 1
  /\ upload' = [upload EXCEPT !.posting = TRUE] /\ ingestLog' = 0
  /\ view' = [view EXCEPT !.error = FALSE]
  /\ UNCHANGED <<page, docStatus, rows, gets>> /\ DocStep

\* upload() after its POST.  When it succeeds proxy() has taken the reader of the
\* body, so res.text() rejects: no toast, no refresh, and the file stays chosen,
\* while the events of the stream go on to be shown.
PostAnswered ==
  /\ upload.posting
  /\ \E ok \in BOOLEAN :
       /\ upload' = [upload EXCEPT !.posting = FALSE, !.draining = IF ok THEN @ + 1 ELSE @]
       /\ view' = [view EXCEPT !.error = @ \/ ~ok]
  /\ UNCHANGED <<page, docStatus, rows, gets, ingestLog, changes>> /\ DocStep

\* An event of a stream, and the end of a stream.
DrainSse ==
  /\ upload.draining > 0
  /\ \/ ingestLog' = 1 /\ UNCHANGED upload
     \/ upload' = [upload EXCEPT !.draining = @ - 1] /\ UNCHANGED ingestLog
  /\ UNCHANGED <<page, view, docStatus, rows, gets, changes>> /\ DocStep

\* The server: a document comes in by another way, and its job goes on.
Ingested(d) ==
  /\ \/ docStatus[d] = "absent" /\ docStatus' = [docStatus EXCEPT ![d] = "pending"]
     \/ docStatus[d] = "pending" /\ docStatus' = [docStatus EXCEPT ![d] = "indexing"]
     \/ docStatus[d] = "indexing" /\ \E s \in {"ready", "failed"} :
          docStatus' = [docStatus EXCEPT ![d] = s]
  /\ UNCHANGED <<page, view, rows, gets, upload, ingestLog, changes>> /\ DocStep

-----------------------------------------------------------------------------
(* Lists and forms that are loaded again after a change                    *)

PanelStep == tab \in Panels /\ UNCHANGED <<tab, docVars, wizardVars, login, landingVars>>

\* What the panels offer: the share dialog and the members their forms at any time and
\* their rows once they are loaded; the settings a form, and the memory page its buttons,
\* only once they are loaded.  A save and a vacuum are disabled until they are answered,
\* a refresh while one is loading.
Rows == IF shown = -1 THEN {} ELSE {"edit"}
ShareOffers == {"add"} \cup Rows
MembersOffer == {"add"} \cup Rows
SettingsOffer == IF shown = -1 \/ owed > 0 THEN {} ELSE {"save"}
MemoryOffers ==
  {b \in {"vacuum", "refresh"} : shown # -1 /\ IF b = "vacuum" THEN owed = 0 ELSE ~view.loading}

PanelOffers ==
  CASE tab = "principals" -> ShareOffers [] tab = "members" -> MembersOffer
    [] tab = "settings" -> SettingsOffer [] tab = "stats" -> MemoryOffers

\* The memory page shows that it loads every time, the others the first time.
SendPanelGet ==
  /\ Cardinality(panelGets) < MaxGets /\ panelGets' = panelGets \cup {server}
  /\ view' = [view EXCEPT !.loading = @ \/ tab = "stats"]

\* A panel is opened.  The memory page and the share dialog ask for no cookie.
MountPanel ==
  /\ page = "mounting"
  /\ IF tab \in {"members", "settings"} /\ ~Visible
     THEN page' = "sign-in" /\ UNCHANGED <<panelGets, view>>
     ELSE page' = "open" /\ SendPanelGet
  /\ UNCHANGED <<cookie, changes, server, shown, owed, storedKey>> /\ PanelStep

\* A change is answered, and its reload sent and served; or the Refresh button.
LoadPanel ==
  /\ tab \in Panels /\ page = "open" /\ SendPanelGet
  /\ \/ owed > 0 /\ owed' = owed - 1 /\ UNCHANGED changes
     \/ /\ "refresh" \in PanelOffers /\ UNCHANGED owed
        /\ changes < MaxChanges /\ changes' = changes + 1
  /\ UNCHANGED <<cookie, page, server, shown, storedKey>> /\ PanelStep

\* The answer: a list or an error, which the share dialog and the members do not show.
ShowPanel(v) ==
  /\ page = "open" /\ v \in panelGets /\ panelGets' = panelGets \ {v}
  /\ \/ shown' = v /\ view' = [loading |-> FALSE, error |-> view.error /\ tab = "settings"]
     \/ shown' = shown /\ view' = [loading |-> FALSE, error |-> tab \in {"settings", "stats"}]
  /\ UNCHANGED <<cookie, page, changes, server, owed, storedKey>> /\ PanelStep

\* A change is sent and served.
Changed(p, button, ok, reloads) ==
  /\ tab = p /\ page = "open" /\ button \in PanelOffers
  /\ changes < MaxChanges /\ changes' = changes + 1
  /\ server' = IF ok THEN server + 1 ELSE server
  /\ owed' = IF reloads THEN owed + 1 ELSE owed
  /\ UNCHANGED <<cookie, page, shown, panelGets>> /\ PanelStep

\* addPrincipal reloads after a success, removePrincipal in any case.
GrantAccess(ok) == Changed("principals", "add", ok, ok) /\ UNCHANGED <<view, storedKey>>
RevokeAccess(ok) == Changed("principals", "edit", ok, TRUE) /\ UNCHANGED <<view, storedKey>>

\* invite, changeRole and remove.  (That a second invitation waits for the first is left out.)
InviteMember(ok) == Changed("members", "add", ok, ok) /\ UNCHANGED <<view, storedKey>>
EditMember(ok) == Changed("members", "edit", ok, TRUE) /\ UNCHANGED <<view, storedKey>>

\* save() sends the key only if one was typed, and PUT /v1/settings/llm stores
\* what it gets: a save of another field removes the key.
SaveSettings(ok, typed) ==
  /\ Changed("settings", "save", ok, ok) /\ storedKey' = IF ok THEN typed ELSE storedKey
  /\ view' = [view EXCEPT !.error = ~ok]

\* vacuum()
Vacuum(ok) ==
  /\ Changed("stats", "vacuum", ok, ok) /\ view' = [view EXCEPT !.error = @ \/ ~ok]
  /\ UNCHANGED storedKey

\* signOut() of the shell, which the menu of a known user has: only the answer of the
\* server removes an HttpOnly cookie, but the tab goes to /sign-in without one, too.
SignOut(ok) ==
  /\ tab \in Panels \ {"principals"} /\ page = "open" /\ page' = "sign-in"
  /\ cookie' = IF ok \/ Visible THEN "none" ELSE cookie
  /\ UNCHANGED <<view, changes, panelVars>> /\ PanelStep

-----------------------------------------------------------------------------
(* The sign-in form and the onboarding wizard                              *)

SignInStep == tab = "sign-in" /\ UNCHANGED <<frameVars, docVars, panelVars, wizardVars, landingVars>>

TypeLogin(f) ==
  /\ \E t \in {"", "p"} : login' = [login EXCEPT ![f] = t, !.errors = @ \ {f}]
  /\ SignInStep

\* submit(), which the browser calls when the `required` fields are filled in, and
\* validate(), which asks again.
SubmitLogin ==
  LET missing == {f \in LoginFields : login[f] = ""} IN
  /\ ~login.submitting /\ missing = {}
  /\ login' = [login EXCEPT !.errors = missing, !.submitting = missing = {}]
  /\ SignInStep

\* The answer: an error, or the way to /chat.
LoginAnswered ==
  /\ login.submitting /\ login' = [login EXCEPT !.submitting = FALSE] /\ SignInStep

WizardStep == tab = "wizard" /\ UNCHANGED <<frameVars, docVars, panelVars, login, landingVars>>

\* The tests of a step: what it asks for, and the same passphrase twice.
CanAdvance(i) ==
  /\ \A f \in Fields[i] : form[f] # ""
  /\ i = 4 => form["passphrase"] = form["passphraseConfirm"]

\* A field of the current step is edited.
EditField(f) ==
  /\ f \in Fields[wizard] /\ \E t \in TextsFor(f) : form' = [form EXCEPT ![f] = t]
  /\ UNCHANGED <<wizard, busy, registered>> /\ WizardStep

\* A provider comes with a model and an address of its own.
ChooseProvider ==
  /\ Steps[wizard] = "llm" /\ form' = [form EXCEPT !["llmModel"] = "p"]
  /\ UNCHANGED <<wizard, busy, registered>> /\ WizardStep

GoNext ==
  /\ wizard < Len(Steps) /\ CanAdvance(wizard) /\ ~busy /\ wizard' = wizard + 1
  /\ UNCHANGED <<form, busy, registered>> /\ WizardStep

GoPrev ==
  /\ wizard > 1 /\ ~busy /\ wizard' = wizard - 1
  /\ UNCHANGED <<form, busy, registered>> /\ WizardStep

\* Mutant: the stepper jumps to any step.
MayJump_Any(i) == TRUE

MayJump(i) == i <= wizard

Jump(i) ==
  /\ MayJump(i) /\ wizard' = i
  /\ UNCHANGED <<form, busy, registered>> /\ WizardStep

SubmitWizard ==
  /\ wizard = Len(Steps) /\ ~busy /\ busy' = TRUE
  /\ registered' = registered \cup {\A i \in DOMAIN Steps : CanAdvance(i)}
  /\ UNCHANGED <<wizard, form>> /\ WizardStep

\* The answer: an error, or the way to /chat, on which the button works again.
WizardAnswered ==
  /\ busy /\ busy' = FALSE
  /\ UNCHANGED <<wizard, form, registered>> /\ WizardStep

-----------------------------------------------------------------------------
(* The landing pages                                                       *)

LandingStep(t) ==
  tab = t /\ UNCHANGED <<tab, cookie, page, view, docVars, panelVars, wizardVars, login>>

\* Mutant: nothing unlocks the form but the end of a demo answer.
Rendered_Held(l) == l

\* The effect of LiveQuery after a render: without a stream the form is unlocked.
Rendered(l) == [l EXCEPT !.locked = @ /\ l.streaming]

\* submit(): a POST that only tries whether there is a server.  (A stream that is
\* not there yet unlocks the form at once.)
AskLive ==
  /\ ~live.locked /\ changes < MaxChanges /\ changes' = changes + 1
  /\ live' = Rendered([live EXCEPT !.locked = TRUE, !.probes = @ \cup {changes'}])
  /\ UNCHANGED <<demo, theme>> /\ LandingStep("live")

\* Its answer: start() posts the question again and aborts the run it knows of.
ProbeAnswered(n) ==
  /\ n \in live.probes
  /\ live' = Rendered([live EXCEPT !.probes = @ \ {n}, !.runs = @ \cup {n}, !.current = n,
                                   !.aborted = @ \cup ({live.current} \ {0}), !.streaming = TRUE])
  /\ UNCHANGED <<changes, demo, theme>> /\ LandingStep("live")

\* An error, or nothing for 1200 ms: a demo answer is typed.
ProbeFails(n) ==
  /\ n \in live.probes
  /\ live' = Rendered([live EXCEPT !.probes = @ \ {n}, !.typing = @ \cup {n}])
  /\ UNCHANGED <<changes, demo, theme>> /\ LandingStep("live")

\* finally of start(), which does not look whose controller it clears.
RunEnds(n) ==
  /\ n \in live.runs
  /\ live' = Rendered([live EXCEPT !.runs = @ \ {n}, !.aborted = @ \ {n}, !.current = 0,
                                   !.streaming = FALSE])
  /\ UNCHANGED <<changes, demo, theme>> /\ LandingStep("live")

\* The last letter of a demo answer.
DemoTyped(n) ==
  /\ n \in live.typing /\ live' = [live EXCEPT !.typing = @ \ {n}, !.locked = FALSE]
  /\ UNCHANGED <<changes, demo, theme>> /\ LandingStep("live")

\* Mutant: submit() as the key handler first captured it.
MayType_Always == TRUE

MayType == ~demo.streaming

\* submit() of site, from the form, a button or the key: a question of the demo
\* is answered by timers, the first tick at once.
AskDemo(d) ==
  /\ MayType
  /\ demo' = [streaming |-> TRUE, active |-> d, typed |-> d, ticks |-> demo.ticks \cup {d}]
  /\ UNCHANGED <<changes, live, theme>> /\ LandingStep("site")

\* tick(): more of the text, or the rest of it.
Tick(d) ==
  /\ d \in demo.ticks
  /\ \E over \in BOOLEAN :
       demo' = [demo EXCEPT !.typed = d, !.streaming = @ /\ ~over,
                            !.ticks = IF over THEN @ \ {d} ELSE @]
  /\ UNCHANGED <<changes, live, theme>> /\ LandingStep("site")

\* set(t) of one component: its own state, then the effect, if that changed.  (The
\* footer also offers the theme it has, which does nothing.)
PressTheme(c, t) ==
  /\ theme.state[c] # t
  /\ theme' = [theme EXCEPT !.state[c] = t, !.root = t, !.chosen = t,
                            !.stored = IF theme.storage THEN t ELSE @]
  /\ UNCHANGED <<changes, live, demo>> /\ LandingStep("theme")

\* Mutant: the listener does not ask for a stored theme.
MayFollow_Always == TRUE

MayFollow == theme.stored = "none"

\* The system changes its scheme: every component follows, or none.
OsChanges ==
  /\ \E t \in Themes \ {theme.os} :
       theme' = IF MayFollow
                THEN [theme EXCEPT !.os = t, !.state = [c \in Switches |-> t], !.root = t,
                                   !.stored = IF theme.storage THEN t ELSE @]
                ELSE [theme EXCEPT !.os = t]
  /\ UNCHANGED <<changes, live, demo>> /\ LandingStep("theme")

Reload ==
  /\ theme' = Mounted(theme.storage, theme.stored, theme.os, theme.chosen)
  /\ UNCHANGED <<changes, live, demo>> /\ LandingStep("theme")

LandingNext ==
  \/ AskLive \/ OsChanges \/ Reload
  \/ \E n \in live.probes : ProbeAnswered(n) \/ ProbeFails(n)
  \/ \E n \in live.runs : RunEnds(n)
  \/ \E n \in live.typing : DemoTyped(n)
  \/ \E d \in DemoQueries : AskDemo(d) \/ Tick(d)
  \/ \E c \in Switches : \E t \in Themes : PressTheme(c, t)

PagesNext ==
  \/ Mount \/ Poll \/ Retry \/ ChooseFile \/ ClearFile \/ PostFile \/ PostAnswered \/ DrainSse
  \/ \E a \in gets : ShowDocuments(a)
  \/ \E d \in PageDocs : Ingested(d)
  \/ MountPanel \/ LoadPanel
  \/ \E v \in panelGets : ShowPanel(v)
  \/ \E ok \in BOOLEAN : \/ GrantAccess(ok) \/ RevokeAccess(ok) \/ InviteMember(ok)
                         \/ EditMember(ok) \/ Vacuum(ok) \/ SignOut(ok)
                         \/ \E typed \in BOOLEAN : SaveSettings(ok, typed)
  \/ SubmitLogin \/ LoginAnswered
  \/ \E f \in LoginFields : TypeLogin(f)
  \/ ChooseProvider \/ GoNext \/ GoPrev \/ SubmitWizard \/ WizardAnswered
  \/ \E f \in FormFields : EditField(f)
  \/ \E i \in DOMAIN Steps : Jump(i)
  \/ LandingNext

\* The interval fires, answers arrive, and the worker goes on.  An error is
\* not the only answer for ever.
PagesFairness ==
  /\ WF_pagesVars(Mount)
  /\ SF_pagesVars(Poll /\ <<docStatus>> \in gets')
  /\ \A a \in {<<l>> : l \in Lists} \cup {Error} : WF_pagesVars(ShowDocuments(a))

PagesSpec == PagesInit /\ [][PagesNext]_pagesVars
PagesFairSpec == PagesSpec /\ PagesFairness

-----------------------------------------------------------------------------
(* Properties                                                              *)

\* A document that the page shows as unfinished does not stay so once its job
\* has ended, whatever answers are lost, late or out of order.
ShownPendingSettles ==
  \A d \in PageDocs :
    [](docStatus[d] \in {"ready", "failed"} /\ rows[d] \in {"pending", "indexing"} =>
         <>(rows[d] \notin {"pending", "indexing"}))

\* The form of apps/web is locked only while a stream runs that will unlock it;
\* what site types is the answer to the question it shows, and it takes the next
\* one when no timer is left; a theme that was chosen stays on the page, and
\* through reloads and changes of the system, where there is a storage; and a
\* registration is only sent when every step of the wizard is valid, although users
\* go back, jump and edit.
PagesHold ==
  /\ FALSE \notin registered
  /\ live.locked => live.runs # {}
  /\ demo.typed = demo.active /\ (demo.streaming <=> demo.ticks # {})
  /\ theme.storage /\ theme.chosen # "none" => theme.root = theme.chosen

\* (Not kept.)  One stream at a time: a run that was aborted clears the
\* controller of the next one, which then nothing aborts.
OneLiveRun == Cardinality(live.runs \ live.aborted) <= 1

\* (Not kept.)  A page at rest shows what the server has, saving keeps the key, and a
\* page whose first load failed can load again.
PanelsSettle == panelGets = {} /\ owed = 0 /\ shown # -1 => shown = server
KeySurvives == storedKey
PanelsRecover == tab = "settings" /\ shown = -1 => page # "open" \/ panelGets # {}

\* (Not kept.)  Whoever has signed in sees the page, and who has signed out has no cookie.
SignedInStays == page = "sign-in" => cookie = "none"
=============================================================================
