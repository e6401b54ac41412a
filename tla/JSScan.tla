------------------------------- MODULE JSScan -------------------------------
(***************************************************************************)
(* The scan of a script into tokens, character by character (tokenizeJS of *)
(* internal/minify/js.go): where strings, templates, comments and regular  *)
(* expressions end, and what happens when they do not.                     *)
(*                                                                         *)
(* "'" is either quote, a bar the backquote, "a" any character of a name,  *)
(* "return" a keyword after which an operand follows, "+" a sign that may  *)
(* be doubled, "*" and "[" any operator, "]" a parenthesis too, "lbrace"   *)
(* and "rbrace" the braces, and the line break any space.  No backslash    *)
(* occurs in code, and no banner (module JSTokens has them).  Both the     *)
(* scan and the reference take every closing brace and parenthesis for the *)
(* end of an operand, also that of if(x): only a parser could tell.        *)
(*                                                                         *)
(* The script grows by one character at a time.  The reader that follows   *)
(* it is the reference: an automaton with a stack, after the lexical       *)
(* grammar of JavaScript, that never looks ahead.                          *)
(***************************************************************************)
EXTENDS Integers, Sequences, SequencesExt

CONSTANTS
    Starts,            \* what a script may begin with
    Endings,           \* what may be put after it to close what is open
    MaxChars           \* bound: the characters that may follow the beginning

Chars == {"'", "|", "\\", "\n", "/", "*", "[", "]", "$", "lbrace", "rbrace",
          "a", "return", "+"}

VARIABLES
    script,            \* the characters read
    chars,             \* how many of them came after the beginning
    reader             \* where the reference is after them

vars == <<script, chars, reader>>

isJSIdentChar(c) == c \in {"a", "$", "return"}

-----------------------------------------------------------------------------
(* The scans.  Each gives the index just past what begins at i, or         *)
(* Unterminated.                                                           *)

Unterminated == 0

Is(in, i, c) == i <= Len(in) /\ in[i] = c

StringEnd(in, from) ==
    LET end[j \in Nat] ==
            CASE j > Len(in)  -> Unterminated
              [] Is(in, j, "\\") -> end[j + 2]
              [] Is(in, j, "'")  -> j + 1
              [] Is(in, j, "\n") -> Unterminated
              [] OTHER -> end[j + 1]
    IN  end[from]

scanJSString(in, i) == StringEnd(in, i + 1)

\* The end of the word that begins at j, j itself if none does.
WordEnd(in, j) ==
    Min({k \in j..(Len(in) + 1) : k > Len(in) \/ ~ isJSIdentChar(in[k])})

RegexEnd(in, from) ==
    LET end[j \in Nat, inClass \in BOOLEAN] ==
            CASE j > Len(in)  -> Unterminated
              [] Is(in, j, "\\") -> end[j + 2, inClass]
              [] Is(in, j, "\n") -> Unterminated
              [] Is(in, j, "/") /\ ~ inClass -> WordEnd(in, j + 1)
              [] OTHER -> end[j + 1, (inClass \/ in[j] = "[") /\ in[j] # "]"]
    IN  end[from, FALSE]

scanJSRegex(in, i) == RegexEnd(in, i + 1)

LineEnd(in, i) == Min({k \in i..(Len(in) + 1) : k > Len(in) \/ in[k] = "\n"})

CommentEnd(in, i) ==
    LET closers == {k \in (i + 2)..(Len(in) - 1) : in[k] = "*" /\ in[k + 1] = "/"}
    IN  IF closers = {} THEN Unterminated ELSE Min(closers) + 2

Tokens == [kind : STRING, text : Seq(Chars)]
NoToken == [kind |-> "none", text |-> <<>>]

jsRegexAllowedTok(prev) ==
    \/ prev.kind = "none"
    \/ prev.kind = "ident" /\ prev.text = <<"return">>
    \/ prev.kind = "punct" /\ prev.text \notin {<<"]">>, <<"rbrace">>, <<"+", "+">>}

\* What begins at i, after the token prev: its kind, and the index past it,
\* which is template if a template begins there.  tokenizeJS and
\* scanJSTemplateExpr have these rules once each.
Lexeme(in, i, prev, template) ==
    LET Take(kind, end) == [kind |-> kind, end |-> end, text |-> SubSeq(in, i, end - 1)]
        c == in[i]
    IN  CASE c = "\n" -> Take("gap", i + 1)
          [] c = "/" /\ Is(in, i + 1, "/") -> Take("comment", LineEnd(in, i))
          [] c = "/" /\ Is(in, i + 1, "*") -> Take("comment", CommentEnd(in, i))
          [] c = "'" -> Take("string", scanJSString(in, i))
          [] c = "|" -> Take("template", template)
          [] c = "/" /\ ~ (Is(in, i + 1, "/") \/ Is(in, i + 1, "*")) ->
                IF jsRegexAllowedTok(prev) /\ scanJSRegex(in, i) # Unterminated
                THEN Take("regex", scanJSRegex(in, i))
                ELSE Take("punct", i + 1)
          [] isJSIdentChar(c) -> Take("ident", WordEnd(in, i))
          [] c = "+" /\ Is(in, i + 1, "+") -> Take("punct", i + 2)
          [] OTHER -> Take("punct", i + 1)

\* Mistake: a comment is a token.
AfterComment(prev, found) ==
    IF found.kind = "gap" THEN prev ELSE [kind |-> found.kind, text |-> found.text]

\* The token before the next one.
After(prev, found) ==
    IF found.kind \in {"gap", "comment"} THEN prev
    ELSE [kind |-> found.kind, text |-> found.text]

\* scanJSTemplate from within the literal, at j; end is TemplateEnd's.
LiteralEnd(in, end, j) ==
    CASE j > Len(in)  -> Unterminated
      [] Is(in, j, "\\") -> end[j + 2, 0, NoToken]
      [] Is(in, j, "|")  -> j + 1
      [] Is(in, j, "$") /\ Is(in, j + 1, "lbrace") ->
            LET e == end[j + 2, 1, NoToken]
            IN  IF e = Unterminated THEN e ELSE end[e, 0, NoToken]
      [] OTHER -> end[j + 1, 0, NoToken]

\* Mistake: the first brace ends the expression, wherever it is.
ExprEndAnywhere(in, end, j, depth, prev) ==
    LET closers == {k \in j..Len(in) : in[k] = "rbrace"}
    IN  IF closers = {} THEN Unterminated ELSE Min(closers) + 1

\* scanJSTemplateExpr from within the expression, at j: it ends with the brace
\* that brings the depth back to zero.
ExprEnd(in, end, j, depth, prev) ==
    IF j > Len(in) THEN Unterminated
    ELSE LET found == Lexeme(in, j, prev, end[j + 1, 0, NoToken])
             deeper == CASE found.text = <<"lbrace">> -> depth + 1
                         [] found.text = <<"rbrace">> -> depth - 1
                         [] OTHER -> depth
         IN  CASE found.end = Unterminated -> Unterminated
               [] found.end # Unterminated /\ deeper = 0 -> found.end
               [] OTHER -> end[found.end, deeper, After(prev, found)]

\* The index past a template, from within: in its text at depth 0, else in an
\* expression, which may have templates in it.
TemplateEnd(in, from) ==
    LET end[j \in Nat, depth \in Nat, prev \in Tokens] ==
            IF depth = 0 THEN LiteralEnd(in, end, j) ELSE ExprEnd(in, end, j, depth, prev)
    IN  end[from, 0, NoToken]

\* Each character's place: in a literal, in a comment or in code.
PlaceOf(kind) == IF kind \in {"gap", "ident", "punct"} THEN "code" ELSE kind

NothingLeft == [clean |-> TRUE, failed |-> FALSE, place |-> <<>>]

\* The loop of tokenizeJS.  A slash where a regular expression ought to begin
\* and none does is taken for an operator, and the scan is not clean.
tokenizeJS(in) ==
    LET scan[i \in Nat, prev \in Tokens] ==
            IF i > Len(in) THEN NothingLeft
            ELSE LET found == Lexeme(in, i, prev, TemplateEnd(in, i + 1))
                     rest  == scan[found.end, After(prev, found)]
                     slash == found.text = <<"/">> /\ jsRegexAllowedTok(prev)
                 IN  IF found.end = Unterminated THEN [NothingLeft EXCEPT !.failed = TRUE]
                     ELSE [rest EXCEPT
                             !.clean = @ /\ ~ slash,
                             !.place = [k \in 1..(found.end - i) |-> PlaceOf(found.kind)] \o @]
    IN  scan[1, NoToken]

-----------------------------------------------------------------------------
(* The reference.                                                          *)

\* Whether the reader is in code, or in what, and which substitutions are open
\* around it, each with the braces open in it; whether an operand has just
\* ended; the word or sign it is reading; and the place of each character.
Begin == [at |-> "code", open |-> <<>>, operand |-> FALSE, word |-> <<>>, place |-> <<>>]

\* What belongs to a substitution is a part of the outermost template.
Placed(r, place) ==
    [r EXCEPT !.place = Append(@, IF r.open = <<>> THEN place ELSE "template")]

\* The slash before, which might have been an operator, was the first of place.
SlashWas(r, place) ==
    IF r.open = <<>> THEN [r EXCEPT !.place = Append(Front(@), place)] ELSE r

Enter(r, at) == [r EXCEPT !.at = at, !.word = <<>>]

\* A literal ends, and is an operand.
Ended(r) == [Enter(r, "code") EXCEPT !.operand = TRUE]

InCode(r, c) ==
    CASE c = "/" -> Placed(Enter(r, "slash"), "code")
      [] c = "'" -> Placed(Enter(r, "string"), "string")
      [] c = "|" -> Placed(Enter(r, "template"), "template")
      [] c = "\n" -> Placed(Enter(r, "code"), "code")
      [] c = "\\" -> Enter(r, "invalid")
      [] isJSIdentChar(c) ->
            LET word == (IF r.word = <<"+">> THEN <<>> ELSE r.word) \o <<c>>
            IN  [Placed(r, "code") EXCEPT !.word = word, !.operand = word # <<"return">>]
      [] c = "+" ->
            IF r.word = <<"+">> THEN Placed(Ended(r), "code")
            ELSE [Placed(r, "code") EXCEPT !.word = <<"+">>, !.operand = FALSE]
      [] c = "rbrace" /\ r.open # <<>> /\ Last(r.open) = 0 ->
            [Placed(Enter(r, "template"), "template") EXCEPT !.open = Front(@)]
      [] c = "rbrace" /\ ~ (r.open # <<>> /\ Last(r.open) = 0) ->
            [Placed(Ended(r), "code") EXCEPT
                !.open = IF @ = <<>> THEN @ ELSE Append(Front(@), Last(@) - 1)]
      [] c = "lbrace" ->
            [Placed(Enter(r, "code"), "code") EXCEPT
                !.operand = FALSE,
                !.open = IF @ = <<>> THEN @ ELSE Append(Front(@), Last(@) + 1)]
      [] c \in {"*", "[", "]"} ->
            [Placed(Enter(r, "code"), "code") EXCEPT !.operand = c = "]"]

InRegex(r, c) ==
    CASE c = "\n" -> Enter(r, "badRegex")
      [] c = "\\" -> Placed(Enter(r, "regexEscape"), "regex")
      [] c = "["  -> Placed(Enter(r, "class"), "regex")
      [] c = "/"  -> Placed(Enter(r, "flags"), "regex")
      [] OTHER    -> Placed(Enter(r, "regex"), "regex")

InTemplate(r, c) ==
    CASE c = "|"  -> Placed(Ended(r), "template")
      [] c = "\\" -> Placed(Enter(r, "templateEscape"), "template")
      [] c = "$"  -> Placed(Enter(r, "dollar"), "template")
      [] OTHER    -> Placed(Enter(r, "template"), "template")

\* A slash begins a comment, divides an operand, or begins a regular expression.
AfterSlash(r, c) ==
    CASE c = "/" -> Placed(Enter(SlashWas(r, "comment"), "line"), "comment")
      [] c = "*" -> Placed(Enter(SlashWas(r, "comment"), "block"), "comment")
      [] c \notin {"/", "*"} /\ r.operand ->
            InCode([Enter(r, "code") EXCEPT !.operand = FALSE], c)
      [] c \notin {"/", "*"} /\ ~ r.operand -> InRegex(SlashWas(r, "regex"), c)

InString(r, c) ==
    CASE c = "'"  -> Placed(Ended(r), "string")
      [] c = "\\" -> Placed(Enter(r, "stringEscape"), "string")
      [] c = "\n" -> Enter(r, "badString")
      [] OTHER    -> Placed(r, "string")

InClass(r, c) ==
    CASE c = "\n" -> Enter(r, "badRegex")
      [] c = "\\" -> Placed(Enter(r, "classEscape"), "regex")
      [] c = "]"  -> Placed(Enter(r, "regex"), "regex")
      [] OTHER    -> Placed(r, "regex")

AfterStar(c) == CASE c = "/" -> "code" [] c = "*" -> "star" [] OTHER -> "block"

\* The reader reads one more character.
Read(r, c) ==
    CASE r.at = "code" -> InCode(r, c)
      [] r.at = "slash" -> AfterSlash(r, c)
      [] r.at = "line" ->
            IF c = "\n" THEN InCode(Enter(r, "code"), c) ELSE Placed(r, "comment")
      [] r.at = "block" -> Placed(Enter(r, IF c = "*" THEN "star" ELSE "block"), "comment")
      [] r.at = "star" -> Placed(Enter(r, AfterStar(c)), "comment")
      [] r.at = "string" -> InString(r, c)
      [] r.at = "stringEscape" -> Placed(Enter(r, "string"), "string")
      [] r.at = "template" -> InTemplate(r, c)
      [] r.at = "templateEscape" -> Placed(Enter(r, "template"), "template")
      [] r.at = "dollar" ->
            IF c = "lbrace"
            THEN [Placed(Enter(r, "code"), "template") EXCEPT
                     !.open = Append(@, 0), !.operand = FALSE]
            ELSE InTemplate(r, c)
      [] r.at = "regex" -> InRegex(r, c)
      [] r.at = "class" -> InClass(r, c)
      [] r.at \in {"regexEscape", "classEscape"} ->
            IF c = "\n" THEN Enter(r, "badRegex")
            ELSE Placed(Enter(r, IF r.at = "classEscape" THEN "class" ELSE "regex"), "regex")
      [] r.at = "flags" ->
            IF isJSIdentChar(c) THEN Placed(r, "regex") ELSE InCode(Ended(r), c)
      [] OTHER -> r

ReadAll(r, more) ==
    LET read[i \in 0..Len(more)] == IF i = 0 THEN r ELSE Read(read[i - 1], more[i])
    IN  read[Len(more)]

-----------------------------------------------------------------------------

Init ==
    /\ script \in Starts
    /\ chars = 0
    /\ reader = ReadAll(Begin, script)

Invalid == {"invalid", "badString", "badRegex"}

\* One more character, unless no script goes on like this.
Next ==
    /\ reader.at \notin Invalid
    /\ chars < MaxChars
    /\ \E c \in Chars :
          /\ script' = Append(script, c)
          /\ reader' = Read(reader, c)
    /\ chars' = chars + 1

-----------------------------------------------------------------------------
(* Properties.                                                             *)

TypeOK == chars \in 0..MaxChars /\ Len(reader.place) <= Len(script)

InLiteral(r) == r.at \in {"string", "stringEscape", "template", "templateEscape", "dollar"}
InRegular(r) ==
    \/ r.at \in {"regex", "regexEscape", "class", "classEscape"}
    \/ r.at = "slash" /\ ~ r.operand

\* What the scan must say of a script after which the reader is r.
Agrees(scan, r) ==
    CASE r.at = "invalid" -> TRUE
      [] r.at = "badString" -> scan.failed
      [] InRegular(r) \/ r.at = "badRegex" ->
            r.open = <<>> => scan.failed \/ ~ scan.clean
      [] InLiteral(r) \/ r.at \in {"block", "star"} -> scan.failed
      [] OTHER ->
            IF r.open # <<>> THEN scan.failed
            ELSE ~ scan.failed /\ scan.clean /\ scan.place = r.place

\* The scan ends each literal and each comment where JavaScript does, however
\* templates, substitutions, strings, comments and regular expressions nest
\* ("braces and quotes inside them never desynchronize the scan", js.go); it
\* fails exactly where a string, template or comment is not closed, and is not
\* clean where a regular expression is not.
ScansAgree ==
    \A e \in Endings : Agrees(tokenizeJS(script \o e), ReadAll(reader, e))
=============================================================================
