------------------------------ MODULE MCMinify ------------------------------
(***************************************************************************)
(* Stylesheets, documents that begin in each of the places where the pass  *)
(* may be, and scripts that begin in code or in a substitution.            *)
(***************************************************************************)
EXTENDS Minify

\* "/" is a license banner, which gets line breaks; the other spaces are
\* dropped.
Spaced(contents) ==
    FoldLeft(LAMBDA out, c :
                 CASE c = "sp" -> out
                   [] c = "/" -> (IF out = <<>> THEN out ELSE Append(out, "sp")) \o <<c, "sp">>
                   [] OTHER -> Append(out, c),
             <<>>, contents)

\* A script with "json" in it is one of those in which JS finds something more
\* to do every time: one space goes.
OneSpaceLess(contents) ==
    LET i == SelectInSeq(contents, LAMBDA c : c = "sp")
    IN  IF i = 0 THEN contents ELSE RemoveAt(contents, i)

\* JS fails at a string that is not closed.
MCMinify(contents) ==
    IF Contains(contents, "'") THEN contents
    ELSE IF Contains(contents, "json") THEN OneSpaceLess(contents)
    ELSE Spaced(contents)

ASSUME MinifyAssumption == H!IsMinifier(BoundedSeq(H!DocItems, 3))

MCBeginnings ==
    {<<>>,
     <<"a", "sp", "<!--">>, <<"<!--", "[if">>,
     <<"<p", "sp", "a", "=", "sp", "'", "sp">>,
     <<"<pre", ">", "sp", "sp">>, <<"<pre", "sp">>,
     <<"<script", ">", "a", "sp">>, <<"<script", "sp", "json", ">", "sp">>}

MCStarts == {<<>>, <<"|", "$", "lbrace">>, <<"|", "$", "lbrace", "|", "$", "lbrace">>}

\* What closes a substitution, and what is open in it.
MCEndings ==
    {<<>>, <<"rbrace", "|">>, <<"'", "rbrace", "|">>, <<"*", "/", "rbrace", "|">>,
     <<"/", "rbrace", "|">>, <<"rbrace", "|", "rbrace", "|">>}
=============================================================================
