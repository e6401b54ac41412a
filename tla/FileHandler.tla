---------------------------- MODULE FileHandler ----------------------------
(***************************************************************************)
(* handleFile of internal/server: which file a request is answered with,   *)
(* by which of three ways, and whether the page carries the reload script. *)
(* A client follows the redirects it gets, and editors change the tree     *)
(* between the handler's look at a file and the use of it.                 *)
(*                                                                         *)
(* A node of the tree stands for its path; a request is a path, cleaned,   *)
(* and whether the URL ends in a slash.                                    *)
(***************************************************************************)
EXTENDS Integers, Sequences

CONSTANTS
    MaxEdits           \* bound: changes made to the tree

Root  == <<>>
Index == "index.html"
About == "about.html"
Docs  == <<"docs">>
Page  == <<About>>
Style == <<"app.css">>
Old   == <<"old.htm">>
Nodes == {Root, <<Index>>, Docs, Docs \o <<Index>>, Page, Style, Old}

Parent(n) == SubSeq(n, 1, Len(n) - 1)

\* Paths a client may ask for; below a file or in a missing directory too.
Paths == Nodes \cup {Style \o <<Index>>}
Urls  == {u \in [path : Paths, slash : BOOLEAN] : u.path = Root => u.slash}

NoUrl == [path |-> Root, slash |-> FALSE]

VARIABLES
    kind,              \* what each node is: "none", "file" or "dir"
    edits,             \* how many changes were made
    url,               \* the request being handled
    first,             \* the client's request before any redirect
    calm,              \* the tree has not changed since that request
    hpc,               \* where handleFile is
    answer             \* the answer the client ends with

vars == <<kind, edits, url, first, calm, hpc, answer>>
treeVars == <<kind, edits>>

KindOf(n) == IF n \in Nodes THEN kind[n] ELSE "none"

IsTree(k) ==
    /\ k[Root] = "dir"
    /\ \A n \in Nodes \ {Root} : k[n] # "none" => k[Parent(n)] = "dir"
    /\ k[Old] = "file"
    /\ k[Style] # "dir" /\ k[Page] # "dir"

Kinds == {"none", "file", "dir"}

Trees == {k \in [Nodes -> Kinds] : IsTree(k)}

NoAnswer == [status |-> 0, node |-> Root, script |-> FALSE]

Init ==
    /\ kind \in Trees
    /\ edits = 0
    /\ url = NoUrl
    /\ first = NoUrl
    /\ calm = TRUE
    /\ hpc = "idle"
    /\ answer = NoAnswer

-----------------------------------------------------------------------------
(* The tree and the client.                                                *)

\* Another process changes one node, and all below it.
Edit ==
    /\ edits < MaxEdits
    /\ edits' = edits + 1
    /\ \E n \in Nodes \ {Root} :
          \E k \in [{n} \cup {m \in Nodes \ {Root} : Parent(m) = n} -> Kinds] :
              /\ kind' = [m \in Nodes |-> IF m \in DOMAIN k THEN k[m] ELSE kind[m]]
              /\ kind' # kind /\ IsTree(kind')
    /\ calm' = FALSE
    /\ UNCHANGED <<url, first, hpc, answer>>

Ask(u) ==
    /\ hpc = "idle"
    /\ url' = u
    /\ first' = u
    /\ calm' = TRUE
    /\ answer' = NoAnswer
    /\ hpc' = "stat"
    /\ UNCHANGED treeVars

Redirect(u) ==
    /\ url' = u
    /\ hpc' = "stat"
    /\ UNCHANGED answer

Answer(status, n, script) ==
    /\ answer' = [status |-> status, node |-> n, script |-> script]
    /\ hpc' = "idle"
    /\ UNCHANGED url

-----------------------------------------------------------------------------
(* handleFile.                                                             *)

EndsIn(n, name) == n # <<>> /\ n[Len(n)] = name

\* Mistake: the default file is only used for the root.
RelRootOnly(u) == IF u.path = Root THEN <<Index>> ELSE u.path

\* The file a URL stands for.
Rel(u) == IF u.path = Root \/ u.slash THEN u.path \o <<Index>> ELSE u.path

\* Mistake: the index pages are taken for the only pages.
IsIndex(n) == EndsIn(n, Index)

\* The test of the extension, ".html" and nothing else.
IsHTML(n) == EndsIn(n, Index) \/ EndsIn(n, About)

\* Mistake: the file server is given the file's path in place of the URL's.
StatRewritesUrl ==
    /\ hpc = "stat"
    /\ IF KindOf(Rel(url)) # "file"
       THEN hpc' = "fileServer" /\ url' = [path |-> Rel(url), slash |-> FALSE]
       ELSE /\ hpc' = IF IsHTML(Rel(url)) THEN "readPage" ELSE "serveFile"
            /\ UNCHANGED url
    /\ UNCHANGED <<treeVars, first, calm, answer>>

\* s.root.Stat(rel) decides who answers.
Stat ==
    /\ hpc = "stat"
    /\ hpc' = IF KindOf(Rel(url)) # "file" THEN "fileServer"
              ELSE IF IsHTML(Rel(url)) THEN "readPage"
              ELSE "serveFile"
    /\ UNCHANGED <<treeVars, url, first, calm, answer>>

\* s.root.ReadFile(rel), and the page with the script appended, or a 500.
ReadPage ==
    /\ hpc = "readPage"
    /\ IF KindOf(Rel(url)) = "file"
       THEN Answer(200, Rel(url), TRUE)
       ELSE Answer(500, Root, FALSE)
    /\ UNCHANGED <<treeVars, first, calm>>

\* The node a directory is answered with: its index, or its listing.
DirAnswer(n) == IF KindOf(n \o <<Index>>) # "none" THEN n \o <<Index>> ELSE n

\* http.ServeFileFS, of a path without a slash that is not an index page.
ServeFile ==
    /\ hpc = "serveFile"
    /\ CASE KindOf(url.path) = "file" -> Answer(200, url.path, FALSE)
         [] KindOf(url.path) = "none" -> Answer(404, Root, FALSE)
         [] KindOf(url.path) = "dir"  -> Redirect([url EXCEPT !.slash = TRUE])
    /\ UNCHANGED <<treeVars, first, calm>>

\* http.FileServerFS: an index page is redirected to its directory, a
\* directory to its URL with a slash, a file to the one without.
FileServer ==
    /\ hpc = "fileServer"
    /\ LET n == url.path
       IN  \/ /\ ~ url.slash /\ EndsIn(n, Index)
              /\ Redirect([path |-> Parent(n), slash |-> TRUE])
           \/ /\ url.slash \/ ~ EndsIn(n, Index)
              /\ CASE KindOf(n) = "none" -> Answer(404, Root, FALSE)
                   [] KindOf(n) = "dir" /\ url.slash -> Answer(200, DirAnswer(n), FALSE)
                   [] KindOf(n) = "file" /\ ~ url.slash -> Answer(200, n, FALSE)
                   [] OTHER -> Redirect([url EXCEPT !.slash = ~ @])
    /\ UNCHANGED <<treeVars, first, calm>>

-----------------------------------------------------------------------------

HandleFile == Stat \/ ReadPage \/ ServeFile \/ FileServer

Next == Edit \/ (\E u \in Urls : Ask(u)) \/ HandleFile

Spec == Init /\ [][Next]_vars

\* The request's goroutine runs, and the client follows redirects.
FairSpec == Spec /\ WF_vars(HandleFile)

-----------------------------------------------------------------------------
(* Properties.                                                             *)

TypeOK ==
    /\ kind \in [Nodes -> Kinds] /\ IsTree(kind)
    /\ edits \in 0..MaxEdits
    /\ url \in Urls \cup {NoUrl} /\ first \in Urls \cup {NoUrl}
    /\ calm \in BOOLEAN
    /\ hpc \in {"idle", "stat", "readPage", "serveFile", "fileServer"}
    /\ answer \in [status : {0, 200, 404, 500}, node : Nodes, script : BOOLEAN]

\* What a URL means in a tree, without redirects: a directory, or an index
\* page that its directory does not have, is the directory's index or listing.
Target(u) ==
    IF EndsIn(u.path, Index) /\ ~ u.slash /\ KindOf(u.path) # "file"
    THEN Parent(u.path) ELSE u.path

Meaning(n) == IF KindOf(n) = "dir" THEN DirAnswer(n) ELSE n

\* The nodes with the extension .html.
Pages == {<<Index>>, Docs \o <<Index>>, Page}

\* While the tree is left alone, whatever redirects were taken, the client
\* ends with what its URL means, 404 exactly for what does not exist, never
\* an error; the script is in every page of the extension .html, and in no
\* style sheet.
QuietAnswerRight ==
    hpc = "idle" /\ calm /\ answer.status # 0 =>
        IF KindOf(Target(first)) = "none"
        THEN answer.status = 404
        ELSE /\ answer.status = 200
             /\ answer.node = Meaning(Target(first))
             /\ answer.node \in Pages /\ KindOf(answer.node) = "file" => answer.script
             /\ answer.node = Style => ~ answer.script

\* The files that net/http sends as text/html.
HTMLPages == {n \in Pages \cup {Old} : KindOf(n) = "file"}

\* "injected into served HTML pages" (server.go, and README.md of the program):
\* every page answered while the tree is left alone has the script in it.
HTMLPagesHaveScript ==
    hpc = "idle" /\ calm /\ answer.status = 200 /\ answer.node \in HTMLPages => answer.script

\* Redirects come to an end: every request is answered.
RedirectsEnd == hpc # "idle" ~> hpc = "idle"

\* What Stat has seen, and chosen a handler by, is still true.
Chosen ==
    /\ hpc = "readPage" => KindOf(Rel(url)) = "file" /\ IsHTML(Rel(url))
    /\ hpc = "serveFile" => KindOf(Rel(url)) = "file" /\ ~ IsHTML(Rel(url))
    /\ hpc = "fileServer" => KindOf(Rel(url)) # "file"

\* The redirects that a request for u still meets, at most.
RedirectsLeft(u) ==
    IF EndsIn(u.path, Index) /\ ~ u.slash /\ KindOf(u.path) # "file" THEN 2
    ELSE IF KindOf(u.path) = (IF u.slash THEN "file" ELSE "dir") THEN 1
    ELSE 0

StepsLeft == 2 * RedirectsLeft(url) + (IF hpc = "stat" THEN 1 ELSE 0)

\* Unless an edit has come between Stat and its use, every step of handleFile
\* is the answer or leaves fewer steps to it: no two of the three ways to
\* answer send the client back and forth.
NearerAnswer ==
    [][HandleFile /\ Chosen => Chosen' /\ (hpc' = "idle" \/ StepsLeft' < StepsLeft)]_vars
=============================================================================
