-------------------------------- MODULE MCWeb -------------------------------
(* An instance of what a user sees, for TLC: the event streams of the        *)
(* server, the chat page that reads one, and the other pages.  They share no *)
(* state here, so a behaviour follows one of them.  Uploads and questions    *)
(* share nothing but the process, so that they are mixed in pairs only.      *)
EXTENDS EventStreams, WebPages, WebChat

CONSTANTS q1, q2, p1, d1

MCMixes == {{q1, q2}, {q1, p1}, {q1, d1}}

VARIABLE subject   \* the component this behaviour is about

Init ==
  /\ StreamInit /\ PagesInit /\ ChatInit
  /\ subject \in {"streams", "pages", "chat"}
  /\ subject # "streams" => \A r \in Requests : pc[r] = "new" <=> r \in {q1, q2}
  /\ subject # "pages" => tab = "documents" /\ cookie = "script"
  /\ tab # "theme" => theme.storage /\ theme.os = "light"

Next ==
  \/ subject = "streams" /\ StreamNext /\ UNCHANGED <<pagesVars, chatVars, subject>>
  \/ subject = "pages" /\ PagesNext /\ UNCHANGED <<streamVars, chatVars, subject>>
  \/ subject = "chat" /\ ChatNext /\ UNCHANGED <<streamVars, pagesVars, subject>>

\* StreamFairness and PagesFairness, each of the behaviours it is about.
Fairness ==
  LET streams(A) == subject = "streams" /\ A
      pages(A) == subject = "pages" /\ A
  IN  /\ \A r \in Requests : WF_streamVars(streams(Up /\ TaskStep(r)))
      /\ \A s \in Streams : WF_streamVars(streams(Up /\ WriterStep(s)))
      /\ WF_pagesVars(pages(Mount))
      /\ SF_pagesVars(pages(Poll /\ <<docStatus>> \in gets'))
      /\ \A a \in {<<l>> : l \in Lists} \cup {Error} : WF_pagesVars(pages(ShowDocuments(a)))

FairSpec == Init /\ [][Next]_<<streamVars, pagesVars, chatVars, subject>> /\ Fairness

TypeOK == PagesTypeOK /\ ChatTypeOK
=============================================================================
