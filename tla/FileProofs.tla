----------------------------- MODULE FileProofs -----------------------------
(***************************************************************************)
(* What a client ends with when it asks Server for a file: while nobody    *)
(* changes the tree, each redirect keeps what the URL means, and each of   *)
(* the three ways to answer is taken for the files it is right for.  With  *)
(* the connection's proofs this gives the types of the whole of Server.    *)
(***************************************************************************)
EXTENDS ChannelProofs

(***************************************************************************)
(* Paths.                                                                  *)
(***************************************************************************)

IndexOf(n) == n \o <<F!Index>>

LEMMA Below ==
    ASSUME NEW S, NEW s \in Seq(S), NEW e \in S
    PROVE  /\ SubSeq(s \o <<e>>, 1, Len(s \o <<e>>) - 1) = s
           /\ s \o <<e>> # <<>>
           /\ (s \o <<e>>)[Len(s \o <<e>>)] = e
           /\ s \o <<e>> \in Seq(S)
<1> DEFINE t == s \o <<e>>
           r == SubSeq(t, 1, Len(s))
<1>1. Len(s) \in Nat
  BY LenProperties
<1>2. <<e>> \in Seq(S) /\ Len(<<e>>) = 1 /\ <<e>>[1] = e
  OBVIOUS
<1>3. /\ t \in Seq(S) /\ Len(t) = Len(s) + 1
      /\ \A i \in 1..(Len(s) + 1) : t[i] = IF i <= Len(s) THEN s[i] ELSE <<e>>[i - Len(s)]
  BY <1>1, <1>2, ConcatProperties
<1> HIDE DEF t
<1>4. t # <<>>
  BY <1>1, <1>3, EmptySeq
<1>5. t[Len(t)] = e
  BY <1>1, <1>2, <1>3
<1>6. \A i \in 1..Len(s) : t[i] = s[i] /\ t[i] \in S
  BY <1>1, <1>3, ElementOfSeq
<1>7. r \in Seq(S) /\ Len(r) = Len(s) /\ \A i \in 1..Len(s) : r[i] = t[i]
  BY <1>1, <1>6, SubSeqProperties
<1> HIDE DEF r
<1>8. r = s
  BY <1>6, <1>7, SeqEqual
<1>9. Len(t) - 1 = Len(s)
  BY <1>1, <1>3
<1> QED BY <1>3, <1>4, <1>5, <1>8, <1>9 DEF t, r

LEMMA OneElement == ASSUME NEW S, NEW e \in S PROVE <<e>> \in Seq(S)
  OBVIOUS

Names == {"index.html", "about.html", "docs", "app.css", "old.htm"}

LEMMA PathsAreSequences == \A n \in F!Paths : n \in Seq(Names)
<1>1. <<>> \in Seq(Names)
  BY EmptySeq
<1>2. \A e \in Names : <<e>> \in Seq(Names)
  BY OneElement
<1>3. \A e, f \in Names : <<e>> \o <<f>> \in Seq(Names)
  BY <1>2, Below
<1>4. /\ <<"index.html">> \in Seq(Names) /\ <<"docs">> \in Seq(Names)
      /\ <<"about.html">> \in Seq(Names)
      /\ <<"app.css">> \in Seq(Names) /\ <<"old.htm">> \in Seq(Names)
      /\ <<"docs">> \o <<"index.html">> \in Seq(Names)
      /\ <<"app.css">> \o <<"index.html">> \in Seq(Names)
  BY <1>2, <1>3 DEF Names
<1>5. QED
  BY <1>1, <1>4, Zenon DEF F!Paths, F!Nodes, F!Root, F!Index, F!About, F!Docs, F!Page, F!Style,
     F!Old

\* The index of a path is below it, and is an index.
LEMMA IndexIsBelow ==
    \A n \in F!Paths :
        /\ F!Parent(IndexOf(n)) = n
        /\ IndexOf(n) # F!Root
        /\ F!EndsIn(IndexOf(n), F!Index)
<1> SUFFICES ASSUME NEW n \in F!Paths
             PROVE  /\ F!Parent(IndexOf(n)) = n
                    /\ IndexOf(n) # F!Root
                    /\ F!EndsIn(IndexOf(n), F!Index)
  OBVIOUS
<1>1. n \in Seq(Names) /\ F!Index \in Names
  BY PathsAreSequences DEF F!Index, Names
<1>2. /\ SubSeq(n \o <<F!Index>>, 1, Len(n \o <<F!Index>>) - 1) = n
      /\ n \o <<F!Index>> # <<>>
      /\ (n \o <<F!Index>>)[Len(n \o <<F!Index>>)] = F!Index
  BY <1>1, Below
<1>3. QED
  BY <1>2 DEF IndexOf, F!Parent, F!Root, F!EndsIn

\* The directory of an index is a node, and only the index of a node can be
\* a node.
LEMMA IndexPaths ==
    \A n \in F!Paths :
        /\ F!EndsIn(n, F!Index) => n # F!Root /\ F!Parent(n) \in F!Nodes
        /\ IndexOf(n) \in F!Nodes => n \in F!Nodes
<1>1. F!Paths = {F!Root, <<F!Index>>, F!Docs, IndexOf(F!Docs), F!Page, F!Style, F!Old,
                 IndexOf(F!Style)}
  BY Zenon DEF F!Paths, F!Nodes, IndexOf
<1>2. F!Root \in F!Nodes /\ F!Docs \in F!Nodes /\ F!Style \in F!Nodes /\ F!Nodes \subseteq F!Paths
  BY Zenon DEF F!Nodes, F!Paths
<1>3. ~ F!EndsIn(F!Root, F!Index)
  BY DEF F!EndsIn, F!Root
<1>4. F!EndsIn(<<F!Index>>, F!Index) /\ F!Parent(<<F!Index>>) = F!Root
  <2>1. F!Index \in Names
    BY DEF Names, F!Index
  <2>2. /\ SubSeq(<<>> \o <<F!Index>>, 1, Len(<<>> \o <<F!Index>>) - 1) = <<>>
        /\ <<>> \o <<F!Index>> # <<>>
        /\ (<<>> \o <<F!Index>>)[Len(<<>> \o <<F!Index>>)] = F!Index
    BY <2>1, EmptySeq, Below
  <2>3. <<>> \o <<F!Index>> = <<F!Index>>
    BY <2>1, OneElement, ConcatEmptySeq
  <2>4. QED
    BY <2>2, <2>3 DEF F!EndsIn, F!Parent, F!Root
<1>5. /\ ~ F!EndsIn(F!Docs, F!Index)
      /\ ~ F!EndsIn(F!Style, F!Index)
      /\ ~ F!EndsIn(F!Old, F!Index)
      /\ ~ F!EndsIn(F!Page, F!Index)
  BY DEF F!EndsIn, F!Docs, F!Style, F!Old, F!Page, F!Index, F!About
<1>6. ASSUME NEW n \in F!Paths, F!EndsIn(n, F!Index)
      PROVE  F!Parent(n) \in F!Nodes
  <2>1. n \in {<<F!Index>>, IndexOf(F!Docs), IndexOf(F!Style)}
    BY <1>1, <1>3, <1>5, <1>6
  <2>2. QED
    BY <1>2, <1>4, <2>1, IndexIsBelow
<1>7. ASSUME NEW n \in F!Paths, IndexOf(n) \in F!Nodes
      PROVE  n \in F!Nodes
  <2>1. F!EndsIn(IndexOf(n), F!Index) /\ F!Parent(IndexOf(n)) = n
    BY IndexIsBelow
  <2>2. IndexOf(n) \in F!Paths
    BY <1>2, <1>7
  <2>3. QED
    BY <1>6, <2>1, <2>2
<1>8. QED
  BY <1>3, <1>6, <1>7

LEMMA NodesArePaths == F!Root \in F!Nodes /\ F!Nodes \subseteq F!Paths
  BY Zenon DEF F!Nodes, F!Paths

-----------------------------------------------------------------------------
(* The invariant.                                                          *)

\* What a client should end with, in this tree.
Right(code, n, script) ==
    IF F!KindOf(F!Target(first)) = "none"
    THEN code = 404
    ELSE /\ code = 200
         /\ n = F!Meaning(F!Target(first))
         /\ script = (F!IsHTML(n) /\ F!KindOf(n) = "file")

\* More than QuietAnswerRight: which answers have the script, exactly.
AnswerExact ==
    hpc = "idle" /\ calm /\ answer.status # 0 => Right(answer.status, answer.node, answer.script)

\* While the tree is calm, a redirect leads to a URL with the same target, and
\* what Stat has seen is still true.
FileInv ==
    /\ F!TypeOK
    /\ hpc # "idle" => url \in F!Urls
    /\ calm /\ hpc # "idle" => F!Target(url) = F!Target(first) /\ F!Chosen
    /\ AnswerExact

LEMMA InitFile == F!Init => FileInv
<1> SUFFICES ASSUME F!Init PROVE FileInv
  OBVIOUS
<1>1. kind \in [F!Nodes -> F!Kinds] /\ F!IsTree(kind)
  BY DEF F!Init, F!Trees
<1>2. edits \in 0..MaxEdits
  BY FileAssumption DEF F!Init
<1>3. answer \in [status : {0, 200, 404, 500}, node : F!Nodes, script : BOOLEAN]
  BY NodesArePaths DEF F!Init, F!NoAnswer
<1>4. F!TypeOK
  BY <1>1, <1>2, <1>3 DEF F!TypeOK, F!Init
<1>5. QED
  BY <1>4 DEF FileInv, F!Init, AnswerExact, Right, F!NoAnswer

\* In a tree, what is below something is below a directory.
LEMMA TreeKinds ==
    ASSUME F!TypeOK
    PROVE  /\ \A n : F!KindOf(n) \in F!Kinds
           /\ \A n : F!KindOf(n) # "none" => n \in F!Nodes
           /\ F!KindOf(F!Root) = "dir"
           /\ \A n \in F!Paths : F!KindOf(IndexOf(n)) # "none" => F!KindOf(n) = "dir"
<1>1. kind \in [F!Nodes -> F!Kinds] /\ kind[F!Root] = "dir"
  BY DEF F!TypeOK, F!IsTree
<1>2. \A n : F!KindOf(n) \in F!Kinds
  BY <1>1 DEF F!KindOf, F!Kinds
<1>3. \A n : F!KindOf(n) # "none" => n \in F!Nodes
  BY DEF F!KindOf
<1>4. F!KindOf(F!Root) = "dir"
  BY <1>1, NodesArePaths DEF F!KindOf
<1>5. ASSUME NEW n \in F!Paths, F!KindOf(IndexOf(n)) # "none"
      PROVE  F!KindOf(n) = "dir"
  <2>1. IndexOf(n) \in F!Nodes /\ kind[IndexOf(n)] # "none"
    BY <1>5 DEF F!KindOf
  <2>2. IndexOf(n) # F!Root /\ F!Parent(IndexOf(n)) = n
    BY IndexIsBelow
  <2>3. kind[n] = "dir"
    BY <2>1, <2>2 DEF F!TypeOK, F!IsTree
  <2>4. n \in F!Nodes
    BY <2>1, IndexPaths
  <2>5. QED
    BY <2>3, <2>4 DEF F!KindOf
<1>6. QED
  BY <1>2, <1>3, <1>4, <1>5

\* The file of a URL, as a path.
LEMMA RelCases ==
    ASSUME NEW u \in F!Urls
    PROVE  /\ u.path \in F!Paths /\ u.slash \in BOOLEAN
           /\ u.slash => F!Rel(u) = IndexOf(u.path)
           /\ ~ u.slash => F!Rel(u) = u.path /\ u.path # F!Root
  BY DEF F!Urls, F!Rel, IndexOf

Undisturbed == UNCHANGED <<kind, edits, first, calm>>

LEMMA Redirected ==
    ASSUME FileInv, Undisturbed, NEW u \in F!Urls, F!Redirect(u),
           calm => F!Target(u) = F!Target(first)
    PROVE  FileInv'
<1>1. url' = u /\ hpc' = "stat" /\ answer' = answer
  BY DEF F!Redirect
<1>2. F!TypeOK'
  BY <1>1 DEF FileInv, F!TypeOK, Undisturbed
<1>3. calm' => F!Target(url)' = F!Target(first)'
  BY <1>1 DEF Undisturbed, F!Target, F!KindOf
<1>4. QED
  BY <1>1, <1>2, <1>3 DEF FileInv, F!Chosen, AnswerExact, Right

LEMMA AnsweredRight ==
    ASSUME FileInv, Undisturbed, hpc' = "idle", url' = url,
           answer' \in [status : {200, 404, 500}, node : F!Nodes, script : BOOLEAN],
           calm => Right(answer'.status, answer'.node, answer'.script)
    PROVE  FileInv'
<1>1. F!TypeOK'
  BY DEF FileInv, F!TypeOK, Undisturbed
<1>2. AnswerExact'
  BY DEF Undisturbed, Right, AnswerExact, F!Target, F!Meaning, F!DirAnswer, F!KindOf
<1>3. QED
  BY <1>1, <1>2 DEF FileInv

LEMMA ServedRight ==
    ASSUME FileInv, Undisturbed, NEW n \in F!Nodes, NEW script \in BOOLEAN,
           F!Answer(200, n, script), calm => Right(200, n, script)
    PROVE  FileInv'
<1>1. /\ answer' = [status |-> 200, node |-> n, script |-> script]
      /\ hpc' = "idle" /\ url' = url
  BY DEF F!Answer
<1>2. /\ answer' \in [status : {200, 404, 500}, node : F!Nodes, script : BOOLEAN]
      /\ answer'.status = 200 /\ answer'.node = n /\ answer'.script = script
  BY <1>1
<1>3. calm => Right(answer'.status, answer'.node, answer'.script)
  BY <1>2 DEF Right
<1>4. QED
  BY <1>1, <1>2, <1>3, AnsweredRight

LEMMA StatStep == FileInv /\ F!Stat => FileInv'
<1> SUFFICES ASSUME FileInv, F!Stat PROVE FileInv'
  OBVIOUS
<1>1. hpc = "stat" /\ UNCHANGED <<kind, edits, url, first, calm, answer>>
  BY DEF F!Stat, F!treeVars
<1>2. hpc' = IF F!KindOf(F!Rel(url)) # "file" THEN "fileServer"
             ELSE IF F!IsHTML(F!Rel(url)) THEN "readPage"
             ELSE "serveFile"
  BY DEF F!Stat
<1>3. F!TypeOK'
  BY <1>1, <1>2 DEF FileInv, F!TypeOK
<1>4. F!Chosen'
  BY <1>1, <1>2 DEF F!Chosen, F!KindOf, F!Rel, F!IsHTML
<1>5. calm' => F!Target(url)' = F!Target(first)'
  BY <1>1 DEF FileInv, F!Target, F!KindOf
<1>6. QED
  BY <1>1, <1>2, <1>3, <1>4, <1>5 DEF FileInv, AnswerExact, Right

LEMMA ReadPageStep == FileInv /\ F!ReadPage => FileInv'
<1> SUFFICES ASSUME FileInv, F!ReadPage PROVE FileInv'
  OBVIOUS
<1> DEFINE n == F!Rel(url)
<1>1. hpc = "readPage" /\ Undisturbed /\ url \in F!Urls
  BY DEF FileInv, F!ReadPage, F!treeVars, Undisturbed
<1>2. F!TypeOK
  BY DEF FileInv
<1>3. CASE F!KindOf(n) = "file"
  <2>1. F!Answer(200, n, TRUE)
    BY <1>3 DEF F!ReadPage
  <2>2. n \in F!Nodes
    BY <1>2, <1>3, TreeKinds
  <2>3. ASSUME calm
        PROVE  Right(200, n, TRUE)
    <3>1. F!Target(url) = F!Target(first) /\ F!IsHTML(n)
      BY <1>1, <2>3 DEF FileInv, F!Chosen
    <3>2. CASE url.slash
      <4>1. n = IndexOf(url.path) /\ F!KindOf(url.path) = "dir"
        BY <1>1, <1>2, <1>3, <3>2, RelCases, TreeKinds
      <4>2. F!Target(url) = url.path
        BY <3>2 DEF F!Target
      <4>3. F!Meaning(url.path) = n
        BY <1>3, <4>1 DEF F!Meaning, F!DirAnswer, IndexOf
      <4>4. QED
        BY <1>3, <3>1, <4>1, <4>2, <4>3 DEF Right
    <3>3. CASE ~ url.slash
      <4>1. n = url.path
        BY <1>1, <3>3, RelCases
      <4>2. F!Target(url) = n
        BY <1>3, <4>1 DEF F!Target
      <4>3. F!Meaning(n) = n
        BY <1>3 DEF F!Meaning
      <4>4. QED
        BY <1>3, <3>1, <4>2, <4>3 DEF Right
    <3>4. QED
      BY <3>2, <3>3
  <2>4. QED
    BY <1>1, <2>1, <2>2, <2>3, ServedRight, Zenon
<1>4. CASE F!KindOf(n) # "file"
  <2>1. F!Answer(500, F!Root, FALSE)
    BY <1>4 DEF F!ReadPage
  <2>2. ~ calm
    BY <1>1, <1>4 DEF FileInv, F!Chosen
  <2>3. QED
    BY <1>1, <2>1, <2>2, NodesArePaths, AnsweredRight DEF F!Answer, Right
<1>5. QED
  BY <1>3, <1>4

LEMMA ServeFileStep == FileInv /\ F!ServeFile => FileInv'
<1> SUFFICES ASSUME FileInv, F!ServeFile PROVE FileInv'
  OBVIOUS
<1> DEFINE n == url.path
<1>1. hpc = "serveFile" /\ Undisturbed /\ url \in F!Urls
  BY DEF FileInv, F!ServeFile, F!treeVars, Undisturbed
<1>2. F!TypeOK
  BY DEF FileInv
<1>3. F!KindOf(n) \in {"none", "file", "dir"}
  BY <1>2, TreeKinds DEF F!Kinds
\* The index below a URL with a slash is a page, which ReadPage answers with.
<1>4. ASSUME calm
      PROVE  F!KindOf(n) = "file" /\ ~ F!IsHTML(n) /\ F!Target(first) = n
  <2>1. /\ F!KindOf(F!Rel(url)) = "file" /\ ~ F!IsHTML(F!Rel(url))
        /\ F!Target(url) = F!Target(first)
    BY <1>1, <1>4 DEF FileInv, F!Chosen
  <2>2. ~ url.slash
    BY <1>1, <2>1, RelCases, IndexIsBelow DEF F!IsHTML
  <2>3. F!Rel(url) = n
    BY <1>1, <2>2, RelCases
  <2>4. QED
    BY <2>1, <2>3 DEF F!Target
<1>5. CASE F!KindOf(n) = "file"
  <2>1. F!Answer(200, n, FALSE)
    BY <1>3, <1>5 DEF F!ServeFile
  <2>2. n \in F!Nodes
    BY <1>2, <1>5, TreeKinds
  <2>3. calm => Right(200, n, FALSE)
    BY <1>4, <1>5 DEF Right, F!Meaning
  <2>4. QED
    BY <1>1, <2>1, <2>2, <2>3, ServedRight, Zenon
<1>6. CASE F!KindOf(n) = "none"
  <2>1. F!Answer(404, F!Root, FALSE)
    BY <1>6 DEF F!ServeFile
  <2>2. QED
    BY <1>1, <1>4, <1>6, <2>1, NodesArePaths, AnsweredRight DEF F!Answer, Right
<1>7. CASE F!KindOf(n) = "dir"
  <2>1. F!Redirect([url EXCEPT !.slash = TRUE])
    BY <1>7 DEF F!ServeFile
  <2>2. [url EXCEPT !.slash = TRUE] \in F!Urls
    BY <1>1 DEF F!Urls
  <2>3. QED
    BY <1>1, <1>4, <1>7, <2>1, <2>2, Redirected
<1>8. QED
  BY <1>3, <1>5, <1>6, <1>7

LEMMA FileServerStep == FileInv /\ F!FileServer => FileInv'
<1> SUFFICES ASSUME FileInv, F!FileServer PROVE FileInv'
  OBVIOUS
<1> DEFINE n == url.path
<1>1. hpc = "fileServer" /\ Undisturbed /\ url \in F!Urls
  BY DEF FileInv, F!FileServer, F!treeVars, Undisturbed
<1>2. F!TypeOK
  BY DEF FileInv
<1>3. F!KindOf(n) \in {"none", "file", "dir"} /\ n \in F!Paths /\ url.slash \in BOOLEAN
  BY <1>1, <1>2, TreeKinds, RelCases DEF F!Kinds
<1>4. calm => F!KindOf(F!Rel(url)) # "file" /\ F!Target(url) = F!Target(first)
  BY <1>1 DEF FileInv, F!Chosen
<1>5. CASE ~ url.slash /\ F!EndsIn(n, F!Index)
  <2> DEFINE u == [path |-> F!Parent(n), slash |-> TRUE]
  <2>1. F!Redirect(u)
    BY <1>5 DEF F!FileServer
  <2>2. u \in F!Urls
    BY <1>3, <1>5, IndexPaths, NodesArePaths DEF F!Urls
  <2>3. calm => F!Target(url) = F!Parent(n)
    BY <1>1, <1>4, <1>5, RelCases DEF F!Target
  <2>4. F!Target(u) = F!Parent(n)
    BY DEF F!Target
  <2>5. QED
    BY <1>1, <1>4, <2>1, <2>2, <2>3, <2>4, Redirected
<1>6. CASE url.slash \/ ~ F!EndsIn(n, F!Index)
  <2>1. F!Target(url) = n
    BY <1>6 DEF F!Target
  <2>2. CASE F!KindOf(n) = "none"
    <3>1. F!Answer(404, F!Root, FALSE)
      BY <1>6, <2>2 DEF F!FileServer
    <3>2. QED
      BY <1>1, <1>4, <2>1, <2>2, <3>1, NodesArePaths, AnsweredRight DEF F!Answer, Right
  <2>3. CASE F!KindOf(n) = "dir" /\ url.slash
    <3> DEFINE d == F!DirAnswer(n)
    <3>1. F!Answer(200, d, FALSE)
      BY <1>6, <2>3 DEF F!FileServer
    <3>2. d \in F!Nodes
      BY <1>2, <2>3, TreeKinds DEF F!DirAnswer
    <3>3. calm => F!KindOf(d) # "file"
      BY <1>1, <1>4, <2>3, RelCases DEF F!DirAnswer, IndexOf
    <3>4. calm => Right(200, d, FALSE)
      BY <1>4, <2>1, <2>3, <3>3 DEF Right, F!Meaning
    <3>5. QED
      BY <1>1, <3>1, <3>2, <3>4, ServedRight, Zenon
  <2>4. CASE F!KindOf(n) = "file" /\ ~ url.slash
    <3>1. F!Answer(200, n, FALSE)
      BY <1>6, <2>4 DEF F!FileServer
    <3>2. n \in F!Nodes
      BY <1>2, <2>4, TreeKinds
    <3>3. ~ calm
      BY <1>1, <1>4, <2>4, RelCases
    <3>4. QED
      BY <1>1, <3>1, <3>2, <3>3, ServedRight, Zenon
  <2>5. CASE (F!KindOf(n) = "dir" /\ ~ url.slash) \/ (F!KindOf(n) = "file" /\ url.slash)
    <3> DEFINE u == [url EXCEPT !.slash = ~ @]
    <3>1. F!Redirect(u)
      BY <1>6, <2>5 DEF F!FileServer
    <3>2. u \in F!Urls /\ u.path = n /\ u.slash = ~ url.slash
      BY <1>1, <1>2, <2>5, TreeKinds DEF F!Urls
    <3>3. F!Target(u) = n
      BY <1>6, <2>5, <3>2 DEF F!Target
    <3>4. QED
      BY <1>1, <1>4, <2>1, <3>1, <3>2, <3>3, Redirected
  <2>6. QED
    BY <1>3, <2>2, <2>3, <2>4, <2>5
<1>7. QED
  BY <1>5, <1>6

LEMMA AskStep == ASSUME FileInv, NEW u \in F!Urls, F!Ask(u) PROVE FileInv'
<1>1. /\ url' = u /\ first' = u /\ hpc' = "stat" /\ calm' = TRUE
      /\ answer' = F!NoAnswer /\ UNCHANGED <<kind, edits>>
  BY DEF F!Ask, F!treeVars
<1>2. answer' \in [status : {0, 200, 404, 500}, node : F!Nodes, script : BOOLEAN]
  BY <1>1, NodesArePaths DEF F!NoAnswer
<1>3. F!TypeOK'
  BY <1>1, <1>2 DEF FileInv, F!TypeOK
<1>4. F!Target(url)' = F!Target(first)'
  BY <1>1 DEF F!Target, F!KindOf
<1>5. QED
  BY <1>1, <1>3, <1>4 DEF FileInv, F!Chosen, AnswerExact, Right

LEMMA EditStep == FileInv /\ F!Edit => FileInv'
<1> SUFFICES ASSUME FileInv, F!Edit PROVE FileInv'
  OBVIOUS
<1>1. /\ calm' = FALSE /\ UNCHANGED <<url, first, hpc, answer>>
      /\ edits < MaxEdits /\ edits' = edits + 1
  BY DEF F!Edit
<1>2. edits' \in 0..MaxEdits
  BY <1>1, FileAssumption DEF FileInv, F!TypeOK
<1>3. kind' \in [F!Nodes -> F!Kinds] /\ F!IsTree(kind')
  <2>1. PICK n \in F!Nodes \ {F!Root} :
          \E k \in [{n} \cup {m \in F!Nodes \ {F!Root} : F!Parent(m) = n} -> F!Kinds] :
              /\ kind' = [m \in F!Nodes |-> IF m \in DOMAIN k THEN k[m] ELSE kind[m]]
              /\ F!IsTree(kind')
    BY DEF F!Edit
  <2>2. PICK k \in [{n} \cup {m \in F!Nodes \ {F!Root} : F!Parent(m) = n} -> F!Kinds] :
              /\ kind' = [m \in F!Nodes |-> IF m \in DOMAIN k THEN k[m] ELSE kind[m]]
              /\ F!IsTree(kind')
    BY <2>1
  <2>3. \A m \in DOMAIN k : k[m] \in F!Kinds
    OBVIOUS
  <2>4. \A m \in F!Nodes : kind[m] \in F!Kinds
    BY DEF FileInv, F!TypeOK
  <2>5. QED
    BY <2>2, <2>3, <2>4
<1>4. F!TypeOK'
  BY <1>1, <1>2, <1>3 DEF FileInv, F!TypeOK
<1>5. QED
  BY <1>1, <1>4 DEF FileInv, AnswerExact

LEMMA SameFile == FileInv /\ UNCHANGED fileVars => FileInv'
  BY DEF fileVars, FileInv, F!TypeOK, F!Chosen, AnswerExact, Right, F!Target, F!Meaning,
         F!DirAnswer, F!KindOf, F!Rel, F!IsHTML

LEMMA NextFile == FileInv /\ [ServerNext]_serverVars => FileInv'
<1> SUFFICES ASSUME FileInv, [ServerNext]_serverVars PROVE FileInv'
  OBVIOUS
<1>1. CASE F!Next
  BY <1>1, EditStep, AskStep, StatStep, ReadPageStep, ServeFileStep, FileServerStep
  DEF F!Next, F!HandleFile
<1>2. CASE UNCHANGED fileVars
  BY <1>2, SameFile
<1>3. F!Next \/ UNCHANGED fileVars
  BY DEF ServerNext, handleWebSocket, handleFile, serverVars
<1>4. QED
  BY <1>1, <1>2, <1>3

-----------------------------------------------------------------------------
(* Redirects.                                                              *)

\* Each redirect leaves fewer of them.
LEMMA FewerRedirects ==
    ASSUME F!TypeOK, F!HandleFile, F!Chosen, url \in F!Urls, hpc # "stat", hpc' # "idle"
    PROVE  hpc' = "stat" /\ F!RedirectsLeft(url') < F!RedirectsLeft(url)
<1> DEFINE n == url.path
<1>1. F!KindOf(n) \in {"none", "file", "dir"}
  BY TreeKinds DEF F!Kinds
<1>2. CASE F!ReadPage
  BY <1>2 DEF F!ReadPage, F!Answer
<1>3. CASE F!ServeFile
  <2>1. F!KindOf(n) = "file"
    BY <1>3, RelCases, IndexIsBelow DEF F!ServeFile, F!Chosen, F!IsHTML
  <2>2. QED
    BY <1>3, <2>1 DEF F!ServeFile, F!Answer
<1>4. CASE F!FileServer
  <2>1. hpc = "fileServer" /\ F!KindOf(F!Rel(url)) # "file"
    BY <1>4 DEF F!FileServer, F!Chosen
  <2>2. CASE ~ url.slash /\ F!EndsIn(n, F!Index)
    <3>1. hpc' = "stat" /\ url' = [path |-> F!Parent(n), slash |-> TRUE]
      BY <1>4, <2>2 DEF F!FileServer, F!Redirect
    <3>2. F!RedirectsLeft(url) = 2
      BY <2>1, <2>2, RelCases DEF F!RedirectsLeft
    <3>3. F!RedirectsLeft(url') \in {0, 1}
      BY <3>1 DEF F!RedirectsLeft
    <3>4. QED
      BY <3>1, <3>2, <3>3
  <2>3. CASE url.slash \/ ~ F!EndsIn(n, F!Index)
    <3>1. CASE F!KindOf(n) = (IF url.slash THEN "file" ELSE "dir")
      <4>1. F!RedirectsLeft(url) = 1
        BY <2>3, <3>1 DEF F!RedirectsLeft
      <4>2. ~ url.slash => n # F!Root /\ F!Rel(url) = n
        BY RelCases
      <4>3. hpc' = "stat" /\ url' = [url EXCEPT !.slash = ~ @]
        BY <1>4, <2>3, <3>1 DEF F!FileServer, F!Redirect, F!Answer
      <4>4. url'.path = n /\ url'.slash = ~ url.slash
        BY <4>3 DEF F!Urls
      <4>5. F!RedirectsLeft(url') = 0
        BY <2>3, <3>1, <4>4 DEF F!RedirectsLeft
      <4>6. QED
        BY <4>1, <4>3, <4>5
    <3>2. CASE F!KindOf(n) # (IF url.slash THEN "file" ELSE "dir")
      BY <1>1, <1>4, <2>3, <3>2 DEF F!FileServer, F!Answer
    <3>3. QED
      BY <3>1, <3>2
  <2>4. QED
    BY <2>2, <2>3
<1>5. QED
  BY <1>2, <1>3, <1>4 DEF F!HandleFile, F!Stat

LEMMA StepIsNearer ==
    ASSUME FileInv, F!HandleFile, F!Chosen
    PROVE  F!Chosen' /\ (hpc' = "idle" \/ F!StepsLeft' < F!StepsLeft)
<1>1. F!TypeOK /\ url \in F!Urls /\ kind' = kind
  BY DEF FileInv, F!HandleFile, F!Stat, F!ReadPage, F!ServeFile, F!FileServer, F!treeVars
<1>2. F!RedirectsLeft(url) \in Nat /\ F!RedirectsLeft(url') \in Nat
  BY DEF F!RedirectsLeft
<1>3. F!StepsLeft' = 2 * F!RedirectsLeft(url') + (IF hpc' = "stat" THEN 1 ELSE 0)
  BY <1>1 DEF F!StepsLeft, F!RedirectsLeft, F!KindOf
<1>4. CASE hpc = "stat"
  <2>1. F!Stat
    BY <1>4 DEF F!HandleFile, F!ReadPage, F!ServeFile, F!FileServer
  <2>2. url' = url /\ hpc' # "stat"
    BY <2>1 DEF F!Stat
  <2>3. F!Chosen'
    BY <1>1, <2>1 DEF F!Stat, F!Chosen, F!KindOf, F!Rel, F!IsHTML
  <2>4. QED
    BY <1>2, <1>3, <1>4, <2>2, <2>3 DEF F!StepsLeft
<1>5. CASE hpc # "stat"
  <2>1. hpc' \in {"idle", "stat"}
    BY <1>1, <1>5, FewerRedirects
  <2>2. F!Chosen'
    BY <2>1 DEF F!Chosen
  <2>3. CASE hpc' # "idle"
    <3>1. F!RedirectsLeft(url') < F!RedirectsLeft(url) /\ hpc' = "stat"
      BY <1>1, <1>5, <2>3, FewerRedirects
    <3>2. QED
      BY <1>2, <1>3, <1>5, <2>2, <3>1 DEF F!StepsLeft
  <2>4. QED
    BY <2>2, <2>3
<1>6. QED
  BY <1>4, <1>5

-----------------------------------------------------------------------------
(* The theorems.                                                           *)

\* Stat's choice and the redirects fit each other while the tree is calm.
THEOREM FileInvariance == ServerSpec => []FileInv
<1>1. ServerInit => FileInv
  BY InitFile DEF ServerInit
<1>2. FileInv /\ [ServerNext]_serverVars => FileInv'
  BY NextFile
<1>3. QED
  BY <1>1, <1>2, PTL DEF ServerSpec

\* A client that asks while nobody changes the tree ends with what its URL
\* means, whatever the tree is and however it is redirected.
THEOREM QuietAnswersRight == ServerSpec => []QuietAnswerRight
<1>1. FileInv => QuietAnswerRight
  <2>1. ~ F!IsHTML(F!Style) /\ \A n \in F!Pages : F!IsHTML(n)
    BY DEF F!IsHTML, F!EndsIn, F!Pages, F!Page, F!Docs, F!Style, F!Index, F!About
  <2>2. QED
    BY <2>1, Zenon DEF FileInv, AnswerExact, Right, QuietAnswerRight, F!QuietAnswerRight
<1>2. QED
  BY <1>1, FileInvariance, PTL

\* The three ways to answer agree: redirects are a chain that grows shorter,
\* whatever the tree is.
THEOREM AnswersComeNearer == ServerSpec => NearerAnswer
<1>1. FileInv /\ [ServerNext]_serverVars
      => [F!HandleFile /\ F!Chosen => F!Chosen' /\ (hpc' = "idle" \/ F!StepsLeft' < F!StepsLeft)]_F!vars
  BY StepIsNearer
<1>2. QED
  BY <1>1, FileInvariance, PTL DEF ServerSpec, NearerAnswer, F!NearerAnswer

-----------------------------------------------------------------------------
(* Types.                                                                  *)

\* The bounds of the counters of the handshake follow from its invariant.
LEMMA UpgradingTypes == HandInv /\ H!TypeOK /\ Upgrading => H!TypeOK'
<1> SUFFICES ASSUME HandInv, H!TypeOK, Upgrading PROVE H!TypeOK'
  OBVIOUS
<1> DEFINE Counters == buffered \in 0..Pieces /\ response \in 0..Pieces
<1>1. Pieces \in Nat \ {0}
  BY ConnectionAssumption
<1>2. met' = met /\ hijacker' = hijacker
  BY DEF Upgrading, H!Next, H!Upgrade, H!CheckRequest, H!Hijack, H!WriteResponse,
         H!FlushResponse, H!ServerFinishes
<1>3. met' \subseteq H!Conditions /\ hijacker' \in BOOLEAN
  BY <1>2, Zenon DEF H!TypeOK
<1>4. CASE H!CheckRequest
  BY <1>3, <1>4 DEF H!TypeOK, H!CheckRequest, H!Refuse, H!Return, H!connVars
<1>5. CASE H!Hijack
  <2>1. buffered' = buffered /\ response' = response /\ fd' = fd
    BY <1>5 DEF H!Hijack, H!Refuse, H!connVars
  <2>2. /\ upc' \in {"respond", "returned"} /\ owner' \in {owner, "handler"}
        /\ status' \in {status, 500} /\ outcome' \in {outcome, "error", "ErrNotWebSocket"}
    BY <1>5 DEF H!Hijack, H!Refuse, H!Return, H!connVars
  <2>3. QED
    BY <1>3, <2>1, <2>2 DEF H!TypeOK
<1>6. CASE H!WriteResponse
  <2>1. owner' = owner /\ status' = status
    BY <1>6 DEF H!WriteResponse
  <2>2. PICK k \in 0..(Pieces - 1) :
           /\ response' = k
           /\ \/ buffered' = Pieces - k /\ upc' = "flush" /\ UNCHANGED <<fd, outcome>>
              \/ fd' = "closed" /\ upc' = "returned" /\ outcome' = "error" /\ buffered' = buffered
    BY <1>6 DEF H!WriteResponse, H!Fail, H!Return
  <2>3. QED
    BY <1>1, <1>3, <2>1, <2>2 DEF H!TypeOK
<1>7. CASE H!FlushResponse
  <2>1. owner' = owner /\ status' = status /\ upc' = "returned"
    BY <1>7 DEF H!FlushResponse, H!Fail, H!Return
  <2>2. response + buffered = Pieces
    BY <1>7 DEF HandInv, H!FlushResponse
  <2>3. \/ response' = response + buffered /\ buffered' = 0 /\ outcome' = "conn" /\ fd' = fd
        \/ /\ \E k \in 0..(buffered - 1) : response' = response + k
           /\ buffered' = buffered /\ fd' = "closed" /\ outcome' = "error"
    BY <1>7 DEF H!FlushResponse, H!Fail, H!Return
  <2>4. buffered' \in 0..Pieces /\ response' \in 0..Pieces
    BY <1>1, <2>2, <2>3 DEF H!TypeOK
  <2>5. QED
    BY <1>3, <2>1, <2>3, <2>4 DEF H!TypeOK
<1>8. CASE H!ServerFinishes
  BY <1>3, <1>8 DEF H!TypeOK, H!ServerFinishes
<1>9. QED
  BY <1>4, <1>5, <1>6, <1>7, <1>8 DEF Upgrading, H!Next, H!Upgrade

\* The buffer never holds more than it has place for.
LEMMA BufferFits ==
    ASSUME CallInv, Len(buf) <= BufCap, [Next]_vars
    PROVE  Len(buf') <= BufCap
<1>1. BufCap \in Nat \ {0}
  BY ConnAssumption
<1>2. ~ bufErr => buf \in Seq(WholePieces)
  BY DEF CallInv, Streaming, Sound
<1>3. ASSUME NEW ps \in Seq(WholePieces), Len(ps) <= 1, BufWrite(ps)
      PROVE  Len(buf') <= BufCap
  <2>1. \/ buf' = buf
        \/ ~ bufErr /\ buf' = buf \o ps /\ Len(buf) + Len(ps) <= BufCap
        \/ buf' = ps
    BY <1>3, Zenon DEF BufWrite
  <2>2. CASE ~ bufErr /\ buf' = buf \o ps /\ Len(buf) + Len(ps) <= BufCap
    BY <1>2, <1>3, <2>2, ConcatProperties
  <2>3. Len(ps) \in Nat
    BY <1>3, LenProperties
  <2>4. CASE buf' = ps
    BY <1>1, <1>3, <2>3, <2>4
  <2>5. QED
    BY <2>1, <2>2, <2>4
<1>4. ASSUME BufFlush PROVE Len(buf') <= BufCap
  <2>1. buf' = buf \/ buf' = <<>>
    BY <1>4, Zenon DEF BufFlush
  <2>2. QED
    BY <1>1, <2>1
<1>5. ASSUME NEW c \in Calls, WriteHeader(c) \/ WritePayload(c)
      PROVE  Len(buf') <= BufCap
  <2>1. HeaderPiece(c) \in WholePieces /\ PayloadPiece(c) \in WholePieces
    BY DEF WholePieces
  <2>2. PICK ps \in {<<>>, <<HeaderPiece(c)>>, <<PayloadPiece(c)>>} : BufWrite(ps)
    BY <1>5, Zenon DEF WriteHeader, WritePayload
  <2>3. ps \in Seq(WholePieces) /\ Len(ps) <= 1
    <3>1. \A p \in WholePieces : <<p>> \in Seq(WholePieces) /\ Len(<<p>>) = 1
      BY OneElement
    <3>2. <<>> \in Seq(WholePieces) /\ Len(<<>>) <= 1
      BY EmptySeq
    <3>3. \A p \in WholePieces : <<p>> \in Seq(WholePieces) /\ Len(<<p>>) <= 1
      BY <3>1
    <3>4. QED
      BY <2>1, <2>2, <3>2, <3>3, Zenon
  <2>4. QED
    BY <1>3, <2>2, <2>3
<1>6. ASSUME NEW c \in Calls, Lock(c) \/ CloseNet(c) \/ Unlock(c)
      PROVE  buf' = buf
  BY <1>6 DEF Lock, CloseNet, Unlock
<1>7. ASSUME NEW c \in Calls, Flush(c) PROVE Len(buf') <= BufCap
  BY <1>4, <1>7 DEF Flush
<1>8. CASE UNCHANGED vars
  BY <1>8 DEF vars
<1>9. QED
  BY <1>5, <1>6, <1>7, <1>8 DEF Next, AllReturned

LEMMA NetAndLock ==
    ASSUME net \in {"open", "broken", "closed"}, mu \in Calls \cup {NoCall}, [Next]_vars
    PROVE  net' \in {"open", "broken", "closed"} /\ mu' \in Calls \cup {NoCall}
<1>1. ASSUME NEW ps, BufWrite(ps) \/ NetWrite(ps) \/ BufFlush PROVE net' \in {net, "broken"}
  BY <1>1, Zenon DEF BufWrite, BufFlush, NetWrite
<1>2. ASSUME NEW c \in Calls, Lock(c) \/ CloseNet(c) \/ Unlock(c)
      PROVE  net' \in {net, "closed"} /\ mu' \in Calls \cup {NoCall}
  BY <1>2 DEF Lock, CloseNet, Unlock
<1>3. ASSUME NEW c \in Calls, WriteHeader(c) \/ WritePayload(c) \/ Flush(c)
      PROVE  net' \in {net, "broken"} /\ mu' = mu
  BY <1>1, <1>3, Zenon DEF WriteHeader, WritePayload, Flush
<1>4. CASE UNCHANGED vars
  BY <1>4 DEF vars
<1>5. QED
  BY <1>2, <1>3, <1>4 DEF Next, AllReturned

\* What TypeOK says of a connection beyond its invariants.
ConnTypes ==
    /\ mu \in Calls \cup {NoCall}
    /\ Len(buf) <= BufCap
    /\ net \in {"open", "broken", "closed"}
    /\ H!TypeOK

LEMMA NextTypes == CallInv /\ HandInv /\ ConnTypes /\ [ServerNext]_serverVars => ConnTypes'
<1> SUFFICES ASSUME CallInv, HandInv, ConnTypes, [ServerNext]_serverVars PROVE ConnTypes'
  OBVIOUS
<1>1. [Next]_vars /\ (Upgrading \/ UNCHANGED upgradeVars)
  BY DEF ServerNext, handleWebSocket, handleFile, ConnectionNext, Upgrading, Talking,
         serverVars, connectionVars
<1>2. Len(buf') <= BufCap
  BY <1>1, BufferFits DEF ConnTypes
<1>3. net' \in {"open", "broken", "closed"} /\ mu' \in Calls \cup {NoCall}
  BY <1>1, NetAndLock DEF ConnTypes
<1>4. CASE Upgrading
  BY <1>2, <1>3, <1>4, UpgradingTypes DEF ConnTypes
<1>5. CASE UNCHANGED upgradeVars
  BY <1>2, <1>3, <1>5 DEF ConnTypes, H!TypeOK, upgradeVars
<1>6. QED
  BY <1>1, <1>4, <1>5

\* Type correctness of the whole server: the buffer within its capacity, the
\* response within its pieces, the tree a tree, and every URL a redirect leads
\* to one of those a client may ask for.
THEOREM ServerTypeCorrect == ServerSpec => []ServerTypeOK
<1> DEFINE PatternOK == pattern \in {webSocketPath, "/"}
<1>1. ServerInit => ConnTypes /\ PatternOK
  <2> SUFFICES ASSUME ServerInit PROVE ConnTypes /\ PatternOK
    OBVIOUS
  <2>1. Pieces \in Nat \ {0} /\ BufCap \in Nat \ {0}
    BY ConnectionAssumption, ConnAssumption
  <2>2. H!TypeOK
    <3>1. met \subseteq H!Conditions /\ hijacker \in BOOLEAN
      BY Zenon DEF ServerInit, ConnectionInit, H!Init
    <3>2. QED
      BY <2>1, <3>1 DEF ServerInit, ConnectionInit, H!Init, H!TypeOK
  <2>3. QED
    BY <2>1, <2>2 DEF ServerInit, ConnectionInit, Init, ConnTypes
<1>2. CallInv /\ HandInv /\ ConnTypes /\ PatternOK /\ [ServerNext]_serverVars
      => ConnTypes' /\ PatternOK'
  BY NextTypes DEF ServerNext, handleWebSocket, handleFile, serverVars
<1>3. ServerSpec => [](ConnTypes /\ PatternOK)
  BY <1>1, <1>2, ConnectionInvariance, PTL DEF ServerSpec
<1>4. CallInv /\ Answering /\ Genuine(wire) /\ ConnTypes /\ PatternOK /\ FileInv => ServerTypeOK
  <2> SUFFICES ASSUME CallInv, Answering, Genuine(wire), ConnTypes, PatternOK, FileInv
               PROVE  ServerTypeOK
    OBVIOUS
  <2>1. TypeOK
    BY Zenon DEF CallInv, Calling, Inside, Answering, Genuine, ConnTypes, TypeOK
  <2>2. QED
    BY <2>1 DEF ServerTypeOK, ConnectionTypeOK, ConnTypes, FileInv
<1>5. ChannelInv => CallInv /\ Answering
  BY DEF ChannelInv
<1>6. QED
  BY <1>3, <1>4, <1>5, ChannelInvariance, GenuineWire, FileInvariance, PTL
=============================================================================
