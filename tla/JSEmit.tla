------------------------------- MODULE JSEmit -------------------------------
(***************************************************************************)
(* emitJS (internal/minify/js.go): the output of a script from its tokens  *)
(* and the facts of the analysis, and JS, which puts the stages together.  *)
(***************************************************************************)
EXTENDS JSMangle

jsRestricted == {"return", "break", "continue", "throw", "debugger"}

\* What stands for the line break before token i: ";" where it ends a statement.
jsNewlineAction(tokens, i, prevText, prevEnds) ==
    LET tok == tokens[i]
    IN  IF prevText \in jsRestricted
        THEN IF tok.kind = "punct" /\ tok.text \in {"}", ";"} THEN " " ELSE ";"
        ELSE IF /\ prevEnds
                /\ tok.kind = "ident" => tok.text \notin {"in", "instanceof"}
                /\ tok.kind = "punct" => tok.text \in {"++", "--", "!", "~", "{"}
        THEN ";" ELSE " "

\* Mistake: every closing parenthesis and brace ends an expression.
jsTokenEndsExprAnyClose(tokens, i, info, prevEnds) ==
    LET tok == tokens[i]
    IN  \/ tok.kind \in {"string", "template", "regex"}
        \/ tok.kind = "ident" /\ tok.text \notin jsKeywords \ {"this", "null", "true", "false"}
        \/ tok.kind = "punct" /\ tok.text \in {"]", ")", "}"}
        \/ tok.kind = "punct" /\ tok.text \in {"++", "--"} /\ prevEnds /\ ~tok.nlBefore

\* Whether token i can end an expression; ++ and -- do as postfix operators.
jsTokenEndsExpr(tokens, i, info, prevEnds) ==
    LET tok == tokens[i]
    IN  \/ tok.kind \in {"string", "template", "regex"}
        \/ tok.kind = "ident" /\ tok.text \notin jsKeywords \ {"this", "null", "true", "false"}
        \/ IsPunct(tokens, i, "]")
        \/ tok.kind = "punct" /\ tok.text \in {")", "}"} /\ (info.ok => i \in info.exprClose)
        \/ tok.kind = "punct" /\ tok.text \in {"++", "--"} /\ prevEnds /\ ~tok.nlBefore

\* Whether the two would be read as one token.
jsNeedsSep(prev, next_) ==
    LET l == LastChar(prev)
        f == FirstChar(next_)
    IN  \/ isJSIdentChar(l) /\ isJSIdentChar(f)
        \/ l \in {"+", "-"} /\ f = l
        \/ l = "/" /\ f \in {"/", "*"}

\* A semicolon that ends the last statement of a block or of the file.
IsRedundant(tokens, i, info, prevEnds) ==
    LET j == jsNextSig(tokens, i)
    IN  info.ok /\ IsPunct(tokens, i, ";") /\ prevEnds /\ (j = 0 \/ IsPunct(tokens, j, "}"))

\* prevText is "" at the beginning and after a banner.
Gap(st, tokens, i, info) ==
    LET tok  == tokens[i]
        act  == jsNewlineAction(tokens, i, st.prevText, st.prevEnds)
        sep  == jsNeedsSep(st.prevText, info.text[i])
    IN  CASE st.out = <<>> -> ""
          [] st.out # <<>> /\ st.prevText = "" -> "\n"
          [] st.prevText # "" /\ tok.nlBefore /\ ~info.ok -> "\n"
          [] st.prevText # "" /\ tok.nlBefore /\ info.ok ->
                IF act = ";" THEN ";" ELSE IF sep THEN " " ELSE ""
          [] st.prevText # "" /\ ~tok.nlBefore -> IF tok.wsBefore /\ sep THEN " " ELSE ""

EmitToken(st, tokens, i, info) ==
    LET tok == tokens[i]
        gap == Gap(st, tokens, i, info)
    IN  IF tok.kind = "banner"
        THEN [out |-> Append(st.out, [text |-> tok.text, gap |-> IF st.out = <<>> THEN "" ELSE "\n"]),
              prevText |-> "", prevEnds |-> FALSE]
        ELSE IF IsRedundant(tokens, i, info, st.prevEnds) THEN st
        ELSE [out |-> IF gap = ";"
                      THEN st.out \o <<[text |-> ";", gap |-> ""], [text |-> info.text[i], gap |-> ""]>>
                      ELSE Append(st.out, [text |-> info.text[i], gap |-> gap]),
              prevText |-> info.text[i],
              prevEnds |-> jsTokenEndsExpr(tokens, i, info, st.prevEnds)]

emitJS(tokens, info) ==
    FoldLeft(LAMBDA st, i : EmitToken(st, tokens, i, info),
             [out |-> <<>>, prevText |-> "", prevEnds |-> FALSE],
             [i \in 1..Len(tokens) |-> i]).out

-----------------------------------------------------------------------------

\* What was scanned uncleanly is not analysed.
Compress(scan) ==
    emitJS(scan.tokens, IF scan.clean THEN mangleJS(scan.tokens) ELSE NoAnalysis(scan.tokens))

JS(source) == Compress(tokenizeJS(source))
=============================================================================
