------------------------------ MODULE JSReader ------------------------------
(***************************************************************************)
(* What a script means to JavaScript: a predictive reader of the language  *)
(* that the minifier is meant for, with automatic semicolon insertion and  *)
(* the scopes of var, functions and catch.  It knows nothing of how the    *)
(* minifier works and is what its output is compared with.                 *)
(*                                                                         *)
(* The reader keeps a stack of grammar symbols.  A symbol of Nonterminals  *)
(* is replaced by its production for the next lexeme; the actions "enter", *)
(* "leave", ... change the scope or the reading; any other symbol is       *)
(* matched with the lexeme.  What has been read is a sequence of readings: *)
(* words, declarations, uses and ends of statements.                       *)
(***************************************************************************)
EXTENDS JSTokens, TLC

Eof == "eof"

IsWord(text) == isJSIdentChar(FirstChar(text)) /\ ~IsNumber(text) /\ text # Eof
IsName(text) == IsWord(text) /\ text \notin jsKeywords

PrefixOps == {"!", "~", "+", "-", "++", "--", "typeof", "void", "new", "delete"}
InfixOps == {"+", "-", "/", "<", "==", "!=", "&&", "=", "+=", "in", "instanceof"}
Literals == Strings \cup Templates \cup Regexes \cup {"this", "null", "true", "false"}

Function == <<"enter", "own name?", "(", "Params", ")", "{", "Stmts", "}", "leave">>
Method == <<"enter", "(", "Params", ")", "{", "Stmts", "}", "leave">>

\* The statements that begin with a word or sign of their own.
Statement ==
    (";"        :> <<";">>) @@
    ("{"        :> <<"{", "Stmts", "}">>) @@
    ("var"      :> <<"var", "var name", "VarRest", "End">>) @@
    ("function" :> <<"function", "var name", "enter", "(", "Params", ")",
                     "{", "Stmts", "}", "leave">>) @@
    ("if"       :> <<"if", "(", "Expr", ")", "Stmt", "Else">>) @@
    ("while"    :> <<"while", "(", "Expr", ")", "Stmt">>) @@
    ("do"       :> <<"do", "Stmt", "while", "(", "Expr", ")", "DoEnd">>) @@
    ("for"      :> <<"for", "(", "ForHead", ")", "Stmt">>) @@
    ("switch"   :> <<"switch", "(", "Expr", ")", "{", "Cases", "}">>) @@
    ("try"      :> <<"try", "{", "Stmts", "}", "catch", "Catch">>) @@
    ("return"   :> <<"return", "Result", "End">>) @@
    ("throw"    :> <<"throw", "Thrown", "End">>) @@
    ("break"    :> <<"break", "Target", "End">>)

Operand(t) ==
    CASE t = "(" -> <<"(", "Expr", ")">>
      [] t = "[" -> <<"[", "Args", "]">>
      [] t = "{" -> <<"{", "Props", "}">>
      [] t = "function" -> <<"function">> \o Function
      [] t \in PrefixOps -> <<t, "Operand">>
      [] t \in Literals \/ IsNumber(t) -> <<t>>
      [] IsName(t) -> <<"name">>
      [] OTHER -> <<"reject">>

Nonterminals ==
    {"Stmts", "Cases", "Stmt", "End", "DoEnd", "Else", "ForHead", "ForRest", "Catch", "Result",
     "Thrown", "Target", "LabelOrRest", "VarRest", "Params", "MoreParams", "Expr", "Commas",
     "Assign", "Operand", "Tail", "Args", "Props", "MoreProps", "KeyRest", "own name?"}

\* What a nonterminal stands for when lexeme t comes next, on a new line or not.
Production(symbol, t, nl) ==
    CASE symbol = "Stmts" ->
            IF t \in {"}", Eof} THEN <<>>
            ELSE IF t = ";" THEN <<"empty", "Stmts">> ELSE <<"Stmt", "Stmts">>
      [] symbol = "Cases" ->
            IF t = "}" THEN <<>>
            ELSE IF t = "case" THEN <<"case", "Expr", ":", "Cases">>
            ELSE IF t = ";" THEN <<"empty", "Cases">> ELSE <<"Stmt", "Cases">>
      [] symbol = "Stmt" ->
            IF t \in DOMAIN Statement THEN Statement[t]
            ELSE IF IsName(t) THEN <<"name", "LabelOrRest">> ELSE <<"Expr", "End">>
      [] symbol = "LabelOrRest" ->
            IF t = ":" THEN <<"label", ":", "Stmt">> ELSE <<"Tail", "Commas", "End">>
      [] symbol = "End" -> IF t = ";" THEN <<"end">>
                           ELSE IF (nl /\ t \notin Regexes) \/ t \in {"}", Eof} THEN <<"asi">> ELSE <<"reject">>
      [] symbol = "DoEnd" -> IF t = ";" THEN <<"end">> ELSE <<"asi">>
      [] symbol = "Else" -> IF t = "else" THEN <<"else", "Stmt">> ELSE <<>>
      [] symbol = "ForHead" ->
            IF t = "var" THEN <<"var", "var name", "ForRest">>
            ELSE <<"Result", ";", "Result", ";", "Args">>
      [] symbol = "ForRest" ->
            IF t = "in" THEN <<"in", "Expr">> ELSE <<"VarRest", ";", "Result", ";", "Args">>
      [] symbol = "Catch" ->
            IF t = "(" THEN <<"enter catch", "(", "own name", ")", "{", "Stmts", "}", "leave">>
            ELSE <<"{", "Stmts", "}">>
      [] symbol = "Result" -> IF nl \/ t \in {";", "}", Eof} THEN <<>> ELSE <<"Expr">>
      [] symbol = "Thrown" -> IF nl THEN <<"reject">> ELSE <<"Expr">>
      [] symbol = "Target" -> IF ~nl /\ IsName(t) THEN <<"word">> ELSE <<>>
      [] symbol = "VarRest" ->
            IF t = "=" THEN <<"=", "Assign", "VarRest">>
            ELSE IF t = "," THEN <<",", "var name", "VarRest">> ELSE <<>>
      [] symbol = "Params" -> IF t = ")" THEN <<>> ELSE <<"own name", "MoreParams">>
      [] symbol = "MoreParams" -> IF t = "," THEN <<",", "own name", "MoreParams">> ELSE <<>>
      [] symbol = "own name?" -> IF IsName(t) THEN <<"own name">> ELSE <<>>
      [] symbol = "Expr" -> <<"Assign", "Commas">>
      [] symbol = "Commas" -> IF t = "," THEN <<",", "Assign", "Commas">> ELSE <<>>
      [] symbol = "Assign" -> <<"Operand", "Tail">>
      [] symbol = "Operand" -> Operand(t)
      [] symbol = "Args" -> IF t \in {")", "]"} THEN <<>> ELSE <<"Expr">>
      [] symbol = "Tail" ->
            CASE t \in {"++", "--"} /\ ~nl -> <<t, "Tail">>
              [] t \in InfixOps -> <<t, "Assign">>
              [] t = "?" -> <<"?", "Assign", ":", "Assign">>
              [] t = "." -> <<".", "word", "Tail">>
              [] t = "(" -> <<"(", "Args", ")", "Tail">>
              [] t = "[" -> <<"[", "Expr", "]", "Tail">>
              [] t \in Templates -> <<t, "Tail">>
              [] OTHER -> <<>>
      [] symbol = "Props" -> IF t = "}" THEN <<>> ELSE <<"word", "KeyRest">>
      [] symbol = "MoreProps" -> IF t = "," THEN <<",", "Props">> ELSE <<>>
      [] symbol = "KeyRest" ->
            CASE t = ":" -> <<":", "Assign", "MoreProps">>
              [] t = "(" -> Method \o <<"MoreProps">>
              [] t \in {",", "}"} -> <<"shorthand", "MoreProps">>
              [] OTHER -> <<"accessor", "word">> \o Method \o <<"MoreProps">>

-----------------------------------------------------------------------------

ReaderStart ==
    [stack |-> <<"Stmts", Eof>>, read |-> <<>>, scope |-> 1,
     scopes |-> <<[parent |-> 0, function |-> TRUE]>>, nl |-> FALSE]

Rejected == [ReaderStart EXCEPT !.stack = <<"reject">>]

\* A var belongs to the function around it, a catch clause is none.
VarScope(st) ==
    LET around[s \in Nat] == IF st.scopes[s].function THEN s ELSE around[st.scopes[s].parent]
    IN  around[st.scope]

Note(st, role, text, scope) ==
    [st EXCEPT !.read = Append(@, [role |-> role, text |-> text, scope |-> scope])]

\* The last reading was of another role than it seemed.
Renote(st, role) == [st EXCEPT !.read[Len(st.read)].role = role]

Act(st, action) ==
    CASE action \in {"enter", "enter catch"} ->
            [st EXCEPT !.scopes = Append(@, [parent |-> st.scope, function |-> action = "enter"]),
                       !.scope = Len(st.scopes) + 1]
      [] action = "leave" -> [st EXCEPT !.scope = st.scopes[st.scope].parent]
      [] action = "asi" -> Note(st, "end", "", 0)
      [] action = "label" -> Renote(st, "word")
      [] action = "shorthand" -> Note(st, "use", st.read[Len(st.read)].text, st.scope)
      [] action = "accessor" ->
            IF st.read[Len(st.read)].text \in {"get", "set"} THEN st ELSE Rejected

Actions == {"enter", "enter catch", "leave", "asi", "label", "shorthand", "accessor"}

Match(st, symbol, t) ==
    CASE symbol = "name" /\ IsName(t) -> Note(st, "use", t, st.scope)
      [] symbol = "var name" /\ IsName(t) -> Note(st, "decl", t, VarScope(st))
      [] symbol = "own name" /\ IsName(t) -> Note(st, "decl", t, st.scope)
      [] symbol = "word" /\ IsWord(t) -> Note(st, "word", t, 0)
      [] symbol = "end" -> Note(st, "end", "", 0)
      [] symbol = "empty" \/ (symbol = Eof /\ t = Eof) -> st
      [] symbol = t /\ t = "|${name}|" -> Note(Note(st, "word", t, 0), "use", "name", st.scope)
      [] symbol = t /\ t \notin {"|${name}|", Eof} -> Note(st, "word", t, 0)
      [] OTHER -> Rejected

RECURSIVE Derive(_, _, _)
Derive(st, t, nl) ==
    LET symbol == Head(st.stack)
        popped == [st EXCEPT !.stack = Tail(@)]
    IN  CASE symbol \in Nonterminals ->
                Derive([st EXCEPT !.stack = Production(symbol, t, nl) \o Tail(@)], t, nl)
          [] symbol \in Actions -> Derive(Act(popped, symbol), t, nl)
          [] OTHER -> Match(popped, symbol, t)

\* A line break before a banner is one before what follows it.
Read(st, piece) ==
    LET nl == st.nl \/ piece.gap \in NewlineGaps
    IN  IF piece.text \in Banners THEN [st EXCEPT !.nl = nl]
        ELSE Derive([st EXCEPT !.nl = FALSE], piece.text, nl)

IsRejected(st) == st.stack # <<>> /\ Head(st.stack) = "reject"

Ended(st) == IF IsRejected(st) THEN st ELSE Derive(st, Eof, FALSE)

-----------------------------------------------------------------------------
(* The meaning of a script: its readings with every local variable replaced *)
(* by the place of its first declaration.                                   *)

\* Where a scope declares a name first, or 0.
DeclOf(st, name, scope) ==
    SelectInSeq(st.read, LAMBDA d : d = [role |-> "decl", text |-> name, scope |-> scope])

\* The scope that a name is found in from a scope on, or 0.
Resolve(st, name, scope) ==
    LET found[s \in Nat] ==
            IF s = 0 \/ DeclOf(st, name, s) # 0 THEN s ELSE found[st.scopes[s].parent]
    IN  found[scope]

\* A variable of the top level, or of no scope, is known by its name.
Meant(st, i) ==
    LET r  == st.read[i]
        s  == IF r.role \in {"use", "decl"} THEN Resolve(st, r.text, r.scope) ELSE 0
        at == Len(SelectSeq(SubSeq(st.read, 1, DeclOf(st, r.text, s)), LAMBDA d : d.role = "decl"))
        of == i < Len(st.read) /\ st.read[i + 1].role = "word"
                               /\ st.read[i + 1].text \in {".", "[", "(", "++", "--", "="} \cup Templates
        lit(a, b) == (IF of THEN <<[role |-> "word", text |-> "whole", at |-> 0]>> ELSE <<>>)
                     \o <<[role |-> "word", text |-> a, at |-> 0], [role |-> "word", text |-> b, at |-> 0]>>
    IN  CASE s > 1 -> <<[role |-> r.role, text |-> "", at |-> at]>>
          [] r.text = "true" /\ r.role = "word" -> lit("!", "0")
          [] r.text = "false" /\ r.role = "word" -> lit("!", "1")
          [] r.text = "undefined" /\ s = 0 /\ r.role = "use" -> lit("void", "0")
          [] OTHER -> <<[role |-> r.role, text |-> r.text, at |-> 0]>>

\* A direct eval sees the names of every scope around it.
Seen(st, i) ==
    SelectSeq(st.read, LAMBDA d : d.role = "decl" /\ Resolve(st, d.text, st.read[i].scope) = d.scope)

MeaningOf(st) ==
    FlattenSeq([i \in 1..Len(st.read) |->
        Meant(st, i) \o (IF st.read[i].role = "use" /\ st.read[i].text = "eval"
                         THEN Seen(st, i) ELSE <<>>)])

-----------------------------------------------------------------------------
(* The output of the minifier, which is characters, as lexemes.            *)

\* Whether two texts with nothing between them are read as one.
Runs(x, y) ==
    \/ isJSIdentChar(LastChar(x)) /\ isJSIdentChar(FirstChar(y))
    \/ x \o y \in Puncts
    \/ x \in {"+", "-"} /\ FirstChar(y) = x
    \/ LastChar(x) = "/" /\ FirstChar(y) = "/"
    \/ x \in Regexes /\ isJSIdentChar(FirstChar(y))
    \/ IsNumber(x) /\ y = "."

\* The lexemes of one character in a text, which may have spaces in it.
Characters(piece) ==
    LET char(k) == SubSeq(piece.text, k, k)
        written == SelectSeq([k \in 1..Len(piece.text) |-> k], LAMBDA k : char(k) # " ")
    IN  [n \in 1..Len(written) |->
            [text |-> char(written[n]),
             gap  |-> IF n = 1 THEN piece.gap ELSE IF char(written[n] - 1) = " " THEN " " ELSE ""]]

\* Divisions that were taken for a regular expression are one text.
Apart(piece) ==
    CASE piece.text \in {"!0", "!1"} ->
            <<[text |-> "!", gap |-> piece.gap], [text |-> LastChar(piece.text), gap |-> ""]>>
      [] piece.text = "void 0" ->
            <<[text |-> "void", gap |-> piece.gap], [text |-> "0", gap |-> " "]>>
      [] FirstChar(piece.text) = "/" /\ piece.text \notin Puncts \cup Regexes \cup Banners ->
            Characters(piece)
      [] OTHER -> <<piece>>

Lex(out) ==
    FoldLeft(LAMBDA read, p :
                IF read # <<>> /\ p.gap = "" /\ Runs(Last(read).text, p.text)
                THEN [read EXCEPT ![Len(read)].text = @ \o p.text]
                ELSE Append(read, p),
             <<>>, FlattenSeq([i \in 1..Len(out) |-> Apart(out[i])]))
=============================================================================
