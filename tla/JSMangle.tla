------------------------------ MODULE JSMangle ------------------------------
(***************************************************************************)
(* mangleJS (internal/minify/jsmangle.go): the scope analysis of a script  *)
(* and the short names it gives to local variables.                        *)
(*                                                                         *)
(* The analysis is a record a, the fields of jsAnalysis; a handler takes   *)
(* it with the tokens and the place of one and returns the next one.  A    *)
(* scope is its place in a.scopes.  a.end is the last token a handler has  *)
(* consumed beyond its own.                                                *)
(***************************************************************************)
EXTENDS JSTokens, NameGen

CONSTANT NameOrder     \* the names of the scripts in the order of their bytes

Root == 1              \* the scope of the top level

NoFrame == [kind |-> "none", scope |-> 0, ternary |-> 0, inCase |-> FALSE, expr |-> FALSE]
NoPending == [scope |-> 0, kind |-> "block", fnExp |-> FALSE]

Start ==
    [scopes |-> <<[parent |-> 0, declared |-> {}]>>, scope |-> Root,
     frames |-> <<>>, lists |-> <<>>, declared |-> {}, occs |-> {},
     exprClose |-> {}, subs |-> {}, undefSites |-> {}, bailed |-> FALSE,
     pending |-> NoPending, prev |-> 0, end |-> 0]

bail(a) == [a EXCEPT !.bailed = TRUE]

-----------------------------------------------------------------------------
(* Scopes, frames and var lists.                                           *)

newScope(a) ==
    [a EXCEPT !.scopes = Append(@, [parent |-> a.scope, declared |-> {}])]

\* A top-level binding is not recorded in its scope.
declare(a, scope, names) ==
    IF scope = Root THEN a ELSE [a EXCEPT !.scopes[scope].declared = @ \cup names]

covers(a, scope, name) ==
    LET within[s \in Nat] ==
            s # 0 /\ (name \in a.scopes[s].declared \/ within[a.scopes[s].parent])
    IN  within[scope]

top(a) == IF a.frames = <<>> THEN NoFrame ELSE Last(a.frames)

push(a, frame) == [a EXCEPT !.frames = Append(@, frame)]

\* Whether the innermost var list is one of the innermost frame.
AtList(a) == a.lists # <<>> /\ Last(a.lists).baseDepth = Len(a.frames)

endListAtDepth(a) == IF AtList(a) THEN [a EXCEPT !.lists = Front(@)] ELSE a

declareAt(a, tokens, places, scope) ==
    [declare(a, scope, {tokens[i].text : i \in places}) EXCEPT
        !.declared = @ \cup {[idx |-> i, name |-> tokens[i].text, scope |-> scope] : i \in places}]

\* A closed frame restores its scope and ends the var lists opened inside it.
popFrame(a, i) ==
    LET frame == top(a)
        depth == Len(a.frames) - 1
        ends  == frame.kind = "object" \/ (frame.kind \in {"paren", "func"} /\ frame.expr)
    IN  IF a.frames = <<>> THEN bail(a)
        ELSE [a EXCEPT !.frames = Front(@),
                       !.lists = SelectSeq(@, LAMBDA l : l.baseDepth <= depth),
                       !.scope = IF frame.scope # 0 THEN frame.scope ELSE @,
                       !.exprClose = IF ends THEN @ \cup {i} ELSE @]

-----------------------------------------------------------------------------
(* Punctuation.                                                            *)

\* Whether the '{' after the last token opens an object literal.
isObjectBrace(a, tokens) ==
    LET p == TokenAt(tokens, a.prev)
    IN  \/ p.kind = "ident" /\ p.text \in jsRegexKeywords \ {"do", "else"}
        \/ /\ p.kind = "punct"
           /\ p.text \notin {";", "{", "}", ")", "]", "++", "--"}
           /\ p.text = ":" => top(a).kind = "object"

openBrace(a, tokens) ==
    IF a.pending.scope # 0
    THEN [push(a, [NoFrame EXCEPT !.kind = a.pending.kind, !.expr = a.pending.fnExp,
                                  !.scope = a.scope])
            EXCEPT !.scope = a.pending.scope, !.pending = NoPending]
    ELSE push(a, [NoFrame EXCEPT !.kind = IF isObjectBrace(a, tokens) THEN "object" ELSE "block"])

punct(a, tokens, i) ==
    LET text == tokens[i].text
        j    == jsNextSig(tokens, i)
        p    == TokenAt(tokens, a.prev)
        n    == Len(a.frames)
        head == p.kind = "ident" /\ p.text \in {"if", "for", "while", "switch", "catch", "with"}
    IN  CASE text = "=" /\ IsPunct(tokens, j, ">") -> bail(a)
          [] text = "." /\ IsPunct(tokens, j, ".") /\ IsPunct(tokens, jsNextSig(tokens, j), ".") ->
                bail(a)
          [] text = "?" /\ n > 0 -> [a EXCEPT !.frames[n].ternary = @ + 1]
          [] text = ":" /\ top(a).ternary > 0 -> [a EXCEPT !.frames[n].ternary = @ - 1]
          [] text = ":" /\ n > 0 /\ top(a).ternary = 0 -> [a EXCEPT !.frames[n].inCase = FALSE]
          [] text = "(" -> push(a, [NoFrame EXCEPT !.kind = "paren", !.expr = ~head])
          [] text = "[" -> IF top(a).kind = "object" /\ p.text \in {"{", ","} THEN bail(a)
                           ELSE push(a, [NoFrame EXCEPT !.kind = "bracket"])
          [] text = "{" -> openBrace(a, tokens)
          [] text \in {")", "]", "}"} -> popFrame(a, i)
          [] text = ";" -> endListAtDepth(a)
          [] text = "," /\ AtList(a) -> [a EXCEPT !.lists[Len(a.lists)].expecting = TRUE]
          [] OTHER -> a

-----------------------------------------------------------------------------
(* Function heads, catch clauses and object keys.                          *)

awaitBody(a, scope, kind, fnExp) ==
    [a EXCEPT !.pending = [scope |-> scope, kind |-> kind, fnExp |-> fnExp]]

\* Plain names with commas between them up to the closing parenthesis.
paramList(a, tokens, open, scope) ==
    LET closes == {k \in (open + 1)..Len(tokens) : IsPunct(tokens, k, ")")}
        close  == IF closes = {} THEN 0 ELSE Min(closes)
        inner  == SelectSeq([k \in 1..(close - open - 1) |-> open + k],
                            LAMBDA k : tokens[k].kind # "banner")
        odd    == {k \in 1..Len(inner) : k % 2 = 1}
        simple == /\ \A k \in odd :
                        LET t == tokens[inner[k]]
                        IN  t.kind = "ident" /\ ~IsNumber(t.text)
                            /\ t.text \notin jsKeywords \cup jsBailIdents
                  /\ \A k \in (1..Len(inner)) \ odd : IsPunct(tokens, inner[k], ",")
    IN  IF IsPunct(tokens, open, "(") /\ close # 0 /\ simple
        THEN [declareAt(a, tokens, {inner[k] : k \in odd}, scope) EXCEPT !.end = close]
        ELSE bail(a)

\* A function whose name, if it has one, is outside of it.
method(a, tokens, open) ==
    LET scope == Len(a.scopes) + 1
    IN  awaitBody(paramList(newScope(a), tokens, open, scope), scope, "func", TRUE)

jsFuncIsDecl(a, tokens) ==
    LET p == TokenAt(tokens, a.prev)
    IN  \/ p.kind = "none"
        \/ p.kind = "punct" /\ p.text \in {";", "{", "}"}
        \/ p.kind = "punct" /\ p.text = ":" /\ top(a).kind # "object" /\ top(a).ternary = 0
        \/ p.kind = "ident" /\ p.text \in {"do", "else"}

\* The name of a declaration binds around the function, that of an expression
\* inside of it.
functionHead(a, tokens, i) ==
    LET isDecl == jsFuncIsDecl(a, tokens)
        scope  == Len(a.scopes) + 1
        j      == jsNextSig(tokens, i)
        named  == j # 0 /\ tokens[j].kind = "ident"
        open   == IF named THEN jsNextSig(tokens, j) ELSE j
        withName == IF named
                    THEN declareAt(newScope(a), tokens, {j}, IF isDecl THEN a.scope ELSE scope)
                    ELSE newScope(a)
    IN  IF named /\ tokens[j].text \in jsKeywords \cup jsBailIdents THEN bail(a)
        ELSE awaitBody(paramList(withName, tokens, open, scope), scope, "func", ~isDecl)

catchClause(a, tokens, i) ==
    LET scope == Len(a.scopes) + 1
        j     == jsNextSig(tokens, i)
        k     == jsNextSig(tokens, j)
        end   == jsNextSig(tokens, k)
    IN  IF ~IsPunct(tokens, j, "(") THEN a
        ELSE IF \/ k = 0 \/ TokenAt(tokens, k).kind # "ident"
                \/ TokenAt(tokens, k).text \in jsKeywords
                \/ ~IsPunct(tokens, end, ")")
        THEN bail(a)
        ELSE awaitBody([declareAt(newScope(a), tokens, {k}, scope) EXCEPT !.end = end],
                       scope, "block", FALSE)

\* A key, an accessor or a method; a shorthand property is not analysed.
objectKey(a, tokens, i) ==
    LET j     == jsNextSig(tokens, i)
        after == jsNextSig(tokens, j)
    IN  CASE j = 0 \/ IsPunct(tokens, j, ":") -> a
          [] IsPunct(tokens, j, "(") -> method(a, tokens, j)
          [] /\ tokens[i].text \in {"get", "set"} /\ TokenAt(tokens, j).kind \in {"ident", "string"}
             /\ IsPunct(tokens, after, "(") -> method(a, tokens, after)
          [] OTHER -> bail(a)

-----------------------------------------------------------------------------
(* Identifiers.                                                            *)

\* Whether the token can be the last one of an expression.
jsEndsExpr(tok) ==
    \/ tok.kind \in {"string", "regex", "template"}
    \/ tok.kind = "ident" /\ tok.text \notin jsKeywords \ {"this", "null", "true", "false"}
    \/ tok.kind = "punct" /\ tok.text \in {")", "]", "}", "++", "--"}

\* Whether !0, !1 or void 0 can stand where the literal i is.
literalReplaceable(tokens, i) ==
    LET j == jsNextSig(tokens, i)
        t == TokenAt(tokens, j)
    IN  /\ t.kind # "template"
        /\ t.kind = "punct" =>
              /\ t.text \notin {".", "[", "++", "--"}
              /\ t.text = "=" => IsPunct(tokens, jsNextSig(tokens, j), "=")

AfterKeySign(a, tokens) ==
    top(a).kind = "object" /\ TokenAt(tokens, a.prev).text \in {"{", ","}

literalSite(a, tokens, i) ==
    LET key == AfterKeySign(a, tokens) /\ TokenAt(tokens, jsNextSig(tokens, i)).text = ":"
    IN  IF ~key /\ literalReplaceable(tokens, i) THEN [a EXCEPT !.subs = @ \cup {i}] ELSE a

\* "name:" at a statement position, or a name after break or continue.
IsLabel(a, tokens, i) ==
    \/ /\ IsPunct(tokens, jsNextSig(tokens, i), ":")
       /\ top(a).kind \in {"none", "block", "func"}
       /\ top(a).ternary = 0 /\ ~top(a).inCase
    \/ TokenAt(tokens, a.prev).text \in {"break", "continue"} /\ ~tokens[i].nlBefore

keyword(a, tokens, i) ==
    LET name == tokens[i].text
    IN  CASE name = "with" -> bail(a)
          [] name = "var" ->
                [a EXCEPT !.lists = Append(@, [baseDepth |-> Len(a.frames), expecting |-> TRUE])]
          [] name = "function" -> functionHead(a, tokens, i)
          [] name = "catch" -> catchClause(a, tokens, i)
          [] name = "case" /\ a.frames # <<>> -> [a EXCEPT !.frames[Len(a.frames)].inCase = TRUE]
          [] name \in {"true", "false"} -> literalSite(a, tokens, i)
          [] OTHER -> a

\* A name that is a variable: one that a var list declares, or a use.
variable(a, tokens, i) ==
    IF AtList(a) /\ Last(a.lists).expecting
    THEN declareAt([a EXCEPT !.lists[Len(a.lists)].expecting = FALSE], tokens, {i}, a.scope)
    ELSE [a EXCEPT
            !.occs = @ \cup {[idx |-> i, name |-> tokens[i].text, scope |-> a.scope]},
            !.undefSites = IF tokens[i].text = "undefined" /\ literalReplaceable(tokens, i)
                           THEN @ \cup {i} ELSE @]

\* A name on a new line after what can end an expression starts a statement.
ident(was, tokens, i) ==
    LET name == tokens[i].text
        p    == TokenAt(tokens, was.prev)
        a    == IF tokens[i].nlBefore /\ jsEndsExpr(p) THEN endListAtDepth(was) ELSE was
    IN  IF IsNumber(name) \/ p.text = "." THEN was
        ELSE IF name \in jsBailIdents THEN bail(a)
        ELSE IF name = "async"
        THEN IF TokenAt(tokens, jsNextSig(tokens, i)).text = "function" THEN bail(a) ELSE a
        ELSE IF name \in jsKeywords THEN keyword(a, tokens, i)
        ELSE IF AfterKeySign(a, tokens) THEN objectKey(a, tokens, i)
        ELSE IF IsLabel(a, tokens, i) THEN a
        ELSE IF name = "eval" THEN bail(a)
        ELSE variable(a, tokens, i)

-----------------------------------------------------------------------------
(* The loop over the tokens, and the names.                                *)

\* Token i, unless a handler has consumed it.  A function head must be followed
\* by its body.
Analyse(a, tokens, i) ==
    LET tok   == tokens[i]
        after == CASE a.pending.scope # 0 /\ ~IsPunct(tokens, i, "{") -> bail(a)
                   [] tok.kind = "template" /\ tok.text = "|${name}|" -> bail(a)
                   [] tok.kind = "punct" -> punct(a, tokens, i)
                   [] tok.kind = "ident" /\ a.pending.scope = 0 -> ident(a, tokens, i)
                   [] OTHER -> a
    IN  IF a.bailed \/ i <= a.end \/ tok.kind = "banner" THEN a
        ELSE [after EXCEPT !.prev = IF after.end > i THEN after.end ELSE i]

run(tokens) ==
    FoldLeft(LAMBDA a, i : Analyse(a, tokens, i), Start, [i \in 1..Len(tokens) |-> i])

\* Mistake: a use that no declaration covers does not count.
IsEligibleUncovered(a, name) ==
    /\ \E d \in a.declared : d.name = name
    /\ \A d \in a.declared : d.name = name => d.scope # Root
    /\ name \notin jsNeverRename

\* Every occurrence is covered by a declaration inside a function, and the name
\* is not declared at the top level.
IsEligible(a, name) ==
    /\ \E d \in a.declared : d.name = name
    /\ \A d \in a.declared : d.name = name => d.scope # Root
    /\ \A o \in a.occs : o.name = name => covers(a, o.scope, name)
    /\ name \notin jsNeverRename

\* How often a name is declared or used.
occCount(a, name) == Cardinality({s \in a.declared \cup a.occs : s.name = name})

Place(name) == CHOOSE k \in 1..Len(NameOrder) : NameOrder[k] = name

Precedes(a, m, n) ==
    \/ occCount(a, m) > occCount(a, n)
    \/ occCount(a, m) = occCount(a, n) /\ Place(m) < Place(n)

\* The eligible names, the most frequent first.
Ranked(a) ==
    SetToSortSeq({n \in {d.name : d \in a.declared} : IsEligible(a, n)},
                 LAMBDA m, n : Precedes(a, m, n))

newJSNameGen(a) ==
    [taken |-> {s.name : s \in a.declared \cup a.occs} \cup jsKeywords \cup jsBailIdents \cup jsNeverRename,
     n |-> 0, given |-> <<>>]

\* Mistake: a name is given although it is no shorter.
MappingAny(ranked, given) ==
    [name \in ToSet(ranked) |-> given[CHOOSE k \in 1..Len(ranked) : ranked[k] = name]]

\* The names that get a shorter one.
Mapping(ranked, given) ==
    LET short == {k \in 1..Len(ranked) : Len(given[k]) < Len(ranked[k])}
    IN  [name \in {ranked[k] : k \in short} |-> given[CHOOSE k \in short : ranked[k] = name]]

\* A name is drawn from the generator for every eligible one, used or not.
mapping(a) ==
    LET ranked == Ranked(a)
    IN  Mapping(ranked, FoldLeft(LAMBDA g, name : next(g), newJSNameGen(a), ranked).given)

\* The text of a token once the names are given and the literals shortened.
Text(a, names, tok, i) ==
    CASE i \in a.subs -> IF tok.text = "true" THEN "!0" ELSE "!1"
      [] i \in a.undefSites /\ \A d \in a.declared : d.name # "undefined" -> "void 0"
      [] /\ \E s \in a.declared \cup a.occs : s.idx = i
         /\ tok.text \in DOMAIN names -> names[tok.text]
      [] OTHER -> tok.text

assign(a, tokens) ==
    LET names == mapping(a)
    IN  [i \in 1..Len(tokens) |-> Text(a, names, tokens[i], i)]

NoAnalysis(tokens) ==
    [ok |-> FALSE, exprClose |-> {}, text |-> [i \in 1..Len(tokens) |-> tokens[i].text]]

Analysed(a, tokens) ==
    IF a.bailed THEN NoAnalysis(tokens)
    ELSE [ok |-> TRUE, exprClose |-> a.exprClose, text |-> assign(a, tokens)]

mangleJS(tokens) == Analysed(run(tokens), tokens)
=============================================================================
