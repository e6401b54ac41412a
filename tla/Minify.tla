------------------------------- MODULE Minify -------------------------------
(***************************************************************************)
(* Bytes of internal/minify: the media type of a file decides which pass   *)
(* its contents go through.  The file is read one item at a time, by the   *)
(* pass of CSSMinifier or HTMLMinifier, or by the scan of JSScan, which is *)
(* the first stage of JS; module JS has the others.                        *)
(***************************************************************************)
EXTENDS Integers, Sequences, FiniteSets, SequencesExt

CONSTANTS
    Items, MaxLen,                  \* of CSSMinifier
    Minify(_), Beginnings, MaxMore, \* of HTMLMinifier
    Starts, Endings, MaxChars       \* of JSScan

MediaTypeHTML == "text/html"
MediaTypeCSS == "text/css"
MediaTypeJS == "application/javascript"
Unknown == "image/png"              \* any other

VARIABLES
    mediaType,                      \* that of the file
    input, state,                   \* of CSSMinifier
    doc, more, pass,                \* of HTMLMinifier
    script, chars, reader           \* of JSScan

cssVars == <<input, state>>
htmlVars == <<doc, more, pass>>
jsVars == <<script, chars, reader>>
vars == <<mediaType, cssVars, htmlVars, jsVars>>

C == INSTANCE CSSMinifier
H == INSTANCE HTMLMinifier
S == INSTANCE JSScan

ASSUME CSSAssumption ==
    /\ Items \subseteq {"sp", "a", "+", "semi", ":", "lbrace", "rbrace", "(", ")", "comment"}
    /\ MaxLen \in Nat

ASSUME HTMLAssumption == MaxMore \in Nat /\ Beginnings \subseteq Seq(H!DocItems)

ASSUME ScanAssumption ==
    /\ MaxChars \in Nat
    /\ Starts \subseteq Seq(S!Chars) /\ <<>> \in Starts /\ <<>> \in Endings

\* Mistake: the pass for stylesheets is the one for what is unknown, too.
BytesDefault(type, in) == IF type = MediaTypeHTML THEN H!HTML(in) ELSE C!CSS(in)

\* For files that are no scripts.
Bytes(type, in) ==
    CASE type = MediaTypeHTML -> H!HTML(in)
      [] type = MediaTypeCSS  -> C!CSS(in)
      [] OTHER -> in

\* A file of a type that no pass is for begins like a document.
Init ==
    /\ mediaType \in {MediaTypeHTML, MediaTypeCSS, MediaTypeJS, Unknown}
    /\ C!Init
    /\ H!Init
    /\ S!Init
    /\ mediaType \in {MediaTypeCSS, MediaTypeJS} => doc = <<>>
    /\ mediaType # MediaTypeJS => script = <<>>

ReadHTML ==
    /\ mediaType = MediaTypeHTML
    /\ H!Next
    /\ UNCHANGED <<mediaType, cssVars, jsVars>>

ReadCSS ==
    /\ mediaType = MediaTypeCSS
    /\ C!Next
    /\ UNCHANGED <<mediaType, htmlVars, jsVars>>

ReadJS ==
    /\ mediaType = MediaTypeJS
    /\ S!Next
    /\ UNCHANGED <<mediaType, cssVars, htmlVars>>

Next == ReadHTML \/ ReadCSS \/ ReadJS

Spec == Init /\ [][Next]_vars

-----------------------------------------------------------------------------
(* Properties.                                                             *)

Source == IF mediaType = MediaTypeCSS THEN input ELSE doc

TypeOK ==
    /\ mediaType \in {MediaTypeHTML, MediaTypeCSS, MediaTypeJS, Unknown}
    /\ C!TypeOK /\ H!TypeOK /\ S!TypeOK

\* Whatever the file is, its output says what it says: a stylesheet by the
\* reading of CSSMinifier, a document by that of HTMLMinifier ("valid input is
\* never structurally changed", minify.go); and every other file is left alone
\* ("unknown media types are returned unchanged").
StructureKept ==
    CASE mediaType = MediaTypeHTML -> H!StructureKept
      [] mediaType = MediaTypeCSS  -> C!StructureKept
      [] mediaType = Unknown       -> Bytes(mediaType, Source) = Source
      [] mediaType = MediaTypeJS   -> TRUE  \* module JS

\* The scan of a script ends each literal and comment where JavaScript does,
\* however they nest ("braces and quotes inside them never desynchronize the
\* scan", js.go); it fails exactly where a string, template or comment is not
\* closed, and is not clean where a regular expression is not.
ScansAgree == mediaType = MediaTypeJS => S!ScansAgree

\* "minifying the output again must succeed and change nothing" (fuzz_test.go),
\* but for a document with a stray quote or with a script of which the minifier
\* of scripts would itself make something else the second time.
Idempotent ==
    LET out == Bytes(mediaType, Source)
    IN  /\ mediaType # MediaTypeJS
        /\ mediaType = MediaTypeHTML => H!NoStrayQuote(doc) /\ H!ScriptsWell(doc)
        => Bytes(mediaType, out) = out
=============================================================================
