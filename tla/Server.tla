------------------------------- MODULE Server -------------------------------
(***************************************************************************)
(* The handler of internal/server: the pattern that a request matches      *)
(* decides whether it becomes a WebSocket connection (Connection) or is    *)
(* answered with a file (FileHandler).  The two share nothing: what the    *)
(* connections of several requests share is in ReloadHub.                  *)
(***************************************************************************)
EXTENDS Connection

CONSTANT MaxEdits      \* of FileHandler

ASSUME FileAssumption == MaxEdits \in Nat

webSocketPath == "/__ws"

VARIABLES
    pattern,           \* the pattern of the mux that the request matches
    kind, edits, url, first, calm, hpc, answer   \* of FileHandler

F == INSTANCE FileHandler

connectionVars == <<vars, upgradeVars>>
fileVars == <<kind, edits, url, first, calm, hpc, answer>>
serverVars == <<pattern, connectionVars, fileVars>>

\* The other handler is not called, whatever the tree and the request are.
ServerInit ==
    /\ pattern \in {webSocketPath, "/"}
    /\ ConnectionInit
    /\ F!Init
    /\ pattern = webSocketPath => kind = CHOOSE tree \in F!Trees : TRUE
    /\ pattern = "/" => met = {} /\ ~hijacker

handleWebSocket ==
    /\ pattern = webSocketPath
    /\ ConnectionNext
    /\ UNCHANGED <<pattern, fileVars>>

handleFile ==
    /\ pattern = "/"
    /\ F!Next
    /\ UNCHANGED <<pattern, connectionVars>>

ServerNext == handleWebSocket \/ handleFile

\* net/http runs the goroutine of the request, and its client follows redirects.
ServerSpec ==
    /\ ServerInit
    /\ [][ServerNext]_serverVars
    /\ WF_serverVars(handleWebSocket /\ Upgrading)
    /\ WF_serverVars(handleFile /\ F!HandleFile)

-----------------------------------------------------------------------------

ServerTypeOK == pattern \in {webSocketPath, "/"} /\ ConnectionTypeOK /\ F!TypeOK

\* While the tree is left alone, whatever redirects were taken, the client
\* ends with what its URL means, 404 exactly for what does not exist, never
\* an error; the script is in every page of the extension .html, and in no
\* style sheet.
QuietAnswerRight == F!QuietAnswerRight

\* "injected into served HTML pages" (server.go): every file that a browser is
\* sent as text/html has the script in it.
HTMLPagesHaveScript == F!HTMLPagesHaveScript

\* Redirects come to an end: every request for a file is answered.
RedirectsEnd == F!RedirectsEnd

\* Unless an edit has come between Stat and its use, every step of handleFile
\* is the answer or leaves fewer steps to it.
NearerAnswer == F!NearerAnswer
=============================================================================
