------------------------------ MODULE JSTokens ------------------------------
(***************************************************************************)
(* The tokens of a script and the scan that produces them (tokenizeJS of   *)
(* internal/minify/js.go).                                                 *)
(*                                                                         *)
(* A script is a sequence of pieces: a lexeme of JavaScript with the gap   *)
(* that is in front of it.  A string, a template, a comment or a regular   *)
(* expression is whole: that the scan finds its end is in JSScan.          *)
(***************************************************************************)
EXTENDS Integers, Sequences, SequencesExt, FiniteSets

(* One lexeme stands for its kind; the template with a substitution reads   *)
(* the variable "name".                                                    *)
Strings == {"'s'"}
Templates == {"|t|", "|${name}|"}   \* a bar for the backquote
Regexes == {"/r/"}
Banners == {"/*!*/"}

\* Punctuators of JavaScript, of one character and of several.
Puncts ==
    {"(", ")", "[", "]", "{", "}", ";", ",", ".", "?", ":", "=", "+", "-", "/", "!",
     "~", "<", ">", "&", "++", "--", "==", "!=", "+=", "&&"}

FirstChar(text) == SubSeq(text, 1, 1)
LastChar(text) == SubSeq(text, Len(text), Len(text))

Digits == {"0", "1", "2", "3", "4", "5", "6", "7", "8", "9"}

isJSIdentChar(c) == c \notin Puncts \cup {"*", "'", "|"}

IsNumber(text) == FirstChar(text) \in Digits

-----------------------------------------------------------------------------
(* Words.                                                                  *)

jsRegexKeywords ==
    {"return", "case", "typeof", "instanceof", "in", "of", "new", "delete",
     "void", "throw", "do", "else", "yield", "await"}

jsKeywords ==
    {"var", "function", "return", "if", "else", "for", "while", "do", "switch",
     "case", "default", "break", "continue", "new", "delete", "typeof",
     "instanceof", "in", "void", "this", "null", "true", "false", "try", "catch",
     "finally", "throw", "debugger", "with"}

jsBailIdents ==
    {"let", "const", "class", "extends", "import", "export", "yield", "await", "super"}

jsNeverRename == {"arguments", "eval", "undefined", "NaN", "Infinity"}

-----------------------------------------------------------------------------
(* Tokens.                                                                 *)

NoToken == [kind |-> "none", text |-> "", nlBefore |-> FALSE, wsBefore |-> FALSE]

TokenAt(tokens, i) == IF i = 0 THEN NoToken ELSE tokens[i]

IsPunct(tokens, i, text) == i # 0 /\ tokens[i].kind = "punct" /\ tokens[i].text = text

\* The next token after i that is no banner, or 0.
jsNextSig(tokens, i) ==
    LET later == {j \in (i + 1)..Len(tokens) : tokens[j].kind # "banner"}
    IN  IF later = {} THEN 0 ELSE Min(later)

-----------------------------------------------------------------------------
(* The scan.                                                               *)

NewlineGaps == {"\n", "// \n", "/* \n */"}
SpaceGaps == {" ", "// \n", "/* */"}

\* Whether a slash after the token starts a regular expression.
jsRegexAllowedTok(prev) ==
    \/ prev.kind \in {"none", "banner"}
    \/ prev.kind = "ident" /\ ~IsNumber(prev.text) /\ prev.text \in jsRegexKeywords
    \/ prev.kind = "punct" /\ prev.text \notin {")", "]", "}", "++", "--"}

KindOf(text) ==
    CASE text \in Strings -> "string"
      [] text \in Templates -> "template"
      [] text \in Banners -> "banner"
      [] text \in Puncts -> "punct"
      [] OTHER -> "ident"

\* The tokens of one lexeme.  Only ++ and -- are punctuation of two characters,
\* and a regular expression where none may start is read as divisions.
Scan(text, prev) ==
    CASE text \in Regexes ->
            IF jsRegexAllowedTok(prev) THEN <<<<"regex", text>>>>
            ELSE <<<<"punct", "/">>, <<"ident", SubSeq(text, 2, Len(text) - 1)>>, <<"punct", "/">>>>
      [] text \in Puncts \ {"++", "--"} ->
            [k \in 1..Len(text) |-> <<"punct", SubSeq(text, k, k)>>]
      [] OTHER -> <<<<KindOf(text), text>>>>

\* Where the regular expression ends that the slash of piece i would begin: at
\* the next slash of its line, or behind the word that follows as its flags; 0
\* when there is none.  The scripts have no comment, bracket or literal there.
RegexEnd(source, i) ==
    LET closing == {j \in (i + 1)..Len(source) :
                        /\ source[j].text = "/"
                        /\ \A k \in (i + 1)..j : source[k].gap \notin NewlineGaps}
        j       == Min(closing)
        flags   == /\ j < Len(source)
                   /\ source[j + 1].gap = "" /\ isJSIdentChar(FirstChar(source[j + 1].text))
    IN  IF closing = {} THEN 0 ELSE IF flags THEN j + 1 ELSE j

\* The pieces from i to j as they are in the source.
Written(source, i, j) ==
    FoldLeft(LAMBDA text, p : text \o p.gap \o p.text, source[i].text, SubSeq(source, i + 1, j))

\* One lexeme of the source: the gap before it is recorded with its first
\* token, and a banner counts as a line break for what follows it.  A slash in
\* the place of a regular expression takes all that follows up to the next one
\* of the line, and makes the scan unclean where there is none.
ScanPiece(st, source, i) ==
    LET piece == source[i]
        prev  == TokenAt(st.tokens, Len(st.tokens))
        nl    == piece.gap \in NewlineGaps \/ prev.kind = "banner"
        ws    == piece.gap \in SpaceGaps
        end   == IF piece.text = "/" /\ jsRegexAllowedTok(prev) THEN RegexEnd(source, i) ELSE i
        found == IF end > i THEN <<<<"regex", Written(source, i, end)>>>> ELSE Scan(piece.text, prev)
    IN  IF i <= st.read THEN st
        ELSE [tokens |-> st.tokens \o
                 [k \in 1..Len(found) |->
                     [kind |-> found[k][1], text |-> found[k][2],
                      nlBefore |-> nl /\ k = 1, wsBefore |-> ws /\ k = 1]],
              clean  |-> st.clean /\ end # 0,
              read   |-> Max({i, end})]

tokenizeJS(source) ==
    FoldLeft(LAMBDA st, i : ScanPiece(st, source, i),
             [tokens |-> <<>>, clean |-> TRUE, read |-> 0], [i \in 1..Len(source) |-> i])
=============================================================================
