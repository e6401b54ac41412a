--------------------------------- MODULE JS ---------------------------------
(***************************************************************************)
(* JS (internal/minify/js.go) at work: scripts that are valid JavaScript   *)
(* are written lexeme by lexeme and minified, and the output is minified   *)
(* again.                                                                  *)
(***************************************************************************)
EXTENDS JSEmit, JSReader

CONSTANT Corpora     \* sets of scripts, each a record made by Corpus

VARIABLES
    corpus,            \* the one that the script is from
    source, reader,    \* the script, and the reader after it
    outs               \* the outputs of the first and the second pass

vars == <<corpus, source, reader, outs>>

\* Lexemes in a row after others, with a space where two would run together.
Spelled(before, gap, texts) ==
    FoldLeft(LAMBDA s, t :
                LET g == IF Len(s) = Len(before) THEN gap ELSE ""
                IN  Append(s, [text |-> t,
                               gap |-> IF g = "" /\ s # <<>> /\ Runs(Last(s).text, t) THEN " " ELSE g]),
             before, texts)

ReadOn(st, pieces) == FoldLeft(LAMBDA s, p : IF IsRejected(s) THEN s ELSE Read(s, p), st, pieces)

\* The scripts that are a prefix, up to bound lexemes in items with gaps before
\* them and a suffix, which closes what the prefix opens.
Corpus(prefix, items, gaps, suffix, bound) ==
    LET begun == ReadOn(ReaderStart, Spelled(<<>>, "", prefix))
    IN  [prefix |-> prefix, items |-> items, gaps |-> gaps, suffix |-> suffix,
         longest |-> Len(prefix) + bound,
         open |-> IF suffix = <<>> THEN 0 ELSE Len(begun.stack) - 1]

Init ==
    /\ corpus \in Corpora
    /\ source = Spelled(<<>>, "", corpus.prefix)
    /\ reader = ReadOn(ReaderStart, source)
    /\ outs = <<>>

\* The reader has seen the end of the script.
IsComplete == reader.stack = <<>>

Write ==
    /\ ~IsComplete
    /\ \E item \in corpus.items, gap \in corpus.gaps :
        /\ Len(source) + Len(item) <= corpus.longest
        /\ source' = Spelled(source, gap, item)
        /\ reader' = ReadOn(reader, SubSeq(source', Len(source) + 1, Len(source')))
        /\ ~IsRejected(reader') /\ Len(reader'.stack) >= corpus.open
    /\ UNCHANGED <<corpus, outs>>

\* What the prefix opened is closed, and the script ends.
Close ==
    /\ ~IsComplete
    /\ source' = Spelled(source, "", corpus.suffix)
    /\ reader' = Ended(ReadOn(reader, SubSeq(source', Len(source) + 1, Len(source'))))
    /\ ~IsRejected(reader')
    /\ UNCHANGED <<corpus, outs>>

\* A complete script is minified, and so is the output.
Minify ==
    /\ IsComplete
    /\ Len(outs) < 2
    /\ outs' = Append(outs, JS(IF outs = <<>> THEN source ELSE Lex(Last(outs))))
    /\ UNCHANGED <<corpus, source, reader>>

Next == Write \/ Close \/ Minify

Spec == Init /\ [][Next]_vars

-----------------------------------------------------------------------------
(* Properties.                                                             *)

Output == Ended(ReadOn(ReaderStart, Lex(outs[1])))

\* The words and the ends of statements, without the names of variables.
Shape(meaning) ==
    [i \in 1..Len(meaning) |->
        IF meaning[i].role \in {"use", "decl"} THEN meaning[i].role
        ELSE <<meaning[i].role, meaning[i].text>>]

\* The output is JavaScript again and says the same: no two lexemes have run
\* together, every statement ends where automatic semicolon insertion ended it,
\* and every word, label, property and literal is there ("valid input is never
\* structurally changed", minify.go; js.go on line breaks).
StatementsKept ==
    Len(outs) = 1 => ~IsRejected(Output) /\ Shape(MeaningOf(Output)) = Shape(MeaningOf(reader))

\* Every use of a variable finds the declaration that it found, in the scope it
\* found it in, and a name of the top level, or of no scope, keeps its spelling:
\* a new name captures nothing ("preserves all shadowing and closure
\* relationships", jsmangle.go).
BindingsKept ==
    Len(outs) = 1 /\ ~IsRejected(Output) => MeaningOf(Output) = MeaningOf(reader)

\* "minifying the output again must succeed and change nothing" (fuzz_test.go).
Idempotent == Len(outs) = 2 => Lex(outs[2]) = Lex(outs[1])
=============================================================================
