---------------------------- MODULE CSSMinifier ----------------------------
(***************************************************************************)
(* CSS of internal/minify: one pass over a stylesheet that drops comments, *)
(* whitespace and semicolons that mean nothing.                            *)
(*                                                                         *)
(* The pass reads one item at a time.  "sp" is a whitespace byte; "a" is a *)
(* byte that no case of the code names, a whole string or a license        *)
(* banner; "+" stands for itself, ">", "~" and ",", of which the code      *)
(* makes no difference; "comment" is a comment that is dropped; "semi",    *)
(* "lbrace" and "rbrace" are a semicolon and the braces; the others are    *)
(* themselves.  Where a string ends, at a backslash or without a closing   *)
(* quote, is inside its item.  A comment without an end drops the rest of  *)
(* the stylesheet, which then becomes what it does without that rest: a    *)
(* shorter input.  input is what has been read so far, so that every state *)
(* is the end of a run on one possible stylesheet.                         *)
(***************************************************************************)
EXTENDS Integers, Sequences, FiniteSets, SequencesExt

CONSTANTS
    Items,             \* the items a stylesheet is made of
    MaxLen             \* bound: the items of a stylesheet

VARIABLES
    input,             \* the items read
    state              \* CSS's out, parenDepth and pendingSpace

vars == <<input, state>>

Start == [out |-> <<>>, depth |-> 0, space |-> FALSE]

-----------------------------------------------------------------------------
(* The pass.                                                               *)

\* Mistake: the space before a colon is dropped like the one after it.
SeparatesNotColon(prev, next, depth) ==
    IF depth > 0
    THEN prev # "(" /\ next # ")"
    ELSE /\ {prev, next} \cap {"lbrace", "rbrace", "semi", "+", ":"} = {}
         /\ prev # "(" /\ next # ")"

\* flushSpace, next to an item already written and before the item next.
Separates(prev, next, depth) ==
    IF depth > 0
    THEN prev # "(" /\ next # ")"
    ELSE /\ prev \notin {"lbrace", "rbrace", "semi", "+", ":", "("}
         /\ next \notin {"lbrace", "rbrace", "semi", "+", ")"}

\* Mistake: a space is written whether or not one is pending.
FlushedAlways(m, next) ==
    IF m.out # <<>> /\ Last(m.out) # "sp" /\ Separates(Last(m.out), next, m.depth)
    THEN Append(m.out, "sp") ELSE m.out

\* Mistake: the last byte of out is taken for an item, never for a space that
\* a semicolon taken back has left there.
FlushedTwice(m, next) ==
    IF m.space /\ m.out # <<>> /\ Separates(Last(m.out), next, m.depth)
    THEN Append(m.out, "sp") ELSE m.out

\* out with the pending space, if it has to be there before next.
Flushed(m, next) ==
    IF m.space /\ m.out # <<>> /\ Last(m.out) # "sp"
       /\ Separates(Last(m.out), next, m.depth)
    THEN Append(m.out, "sp") ELSE m.out

Emit(m, c) ==
    [out |-> Append(Flushed(m, c), c), depth |-> m.depth, space |-> FALSE]

\* A leading or repeated semicolon is dropped.
Semicolon(m) ==
    IF m.out = <<>> THEN m
    ELSE IF Last(m.out) \in {"semi", "lbrace"} THEN [m EXCEPT !.space = FALSE]
    ELSE Emit(m, "semi")

\* The semicolon before a closing brace is taken back.
CloseBrace(m) ==
    Emit([m EXCEPT !.out = IF @ # <<>> /\ Last(@) = "semi" THEN Front(@) ELSE @], "rbrace")

Step(m, c) ==
    CASE c \in {"sp", "comment"} -> [m EXCEPT !.space = TRUE]
      [] c = "(" -> Emit([m EXCEPT !.depth = @ + 1], c)
      [] c = ")" -> Emit([m EXCEPT !.depth = IF @ > 0 THEN @ - 1 ELSE 0], c)
      [] c = "semi" -> Semicolon(m)
      [] c = "rbrace" -> CloseBrace(m)
      [] OTHER   -> Emit(m, c)

\* The pass over in, after each of its items.
Passes(in) ==
    LET pass[i \in 0..Len(in)] == IF i = 0 THEN Start ELSE Step(pass[i - 1], in[i])
    IN  pass

\* CSS(in).
CSS(in) == Passes(in)[Len(in)].out

-----------------------------------------------------------------------------

Init == input = <<>> /\ state = Start

Read(c) ==
    /\ Len(input) < MaxLen
    /\ input' = Append(input, c)
    /\ state' = Step(state, c)

Next == \E c \in Items : Read(c)

Spec == Init /\ [][Next]_vars

-----------------------------------------------------------------------------
(* What a stylesheet says, whatever its spacing: the reference the output  *)
(* is held against.                                                        *)

\* The code reads a comment as a space; CSS reads it as nothing (README of this
\* project).
CommentsAsSpaces(s) == [i \in DOMAIN s |-> IF s[i] = "comment" THEN "sp" ELSE s[i]]

\* How many parentheses are open after each item.
Open(s) ==
    LET d[i \in 0..Len(s)] ==
            IF i = 0 THEN 0
            ELSE CASE s[i] = "(" -> d[i - 1] + 1
                   [] s[i] = ")" /\ d[i - 1] > 0 -> d[i - 1] - 1
                   [] OTHER -> d[i - 1]
    IN  d

\* A semicolon says nothing before anything else, after an opening brace or
\* another semicolon, and before a closing brace.
Idle(s, i) ==
    /\ s[i] = "semi"
    /\ \/ \A j \in 1..(i - 1) : s[j] \in {"sp", "semi"}
       \/ \E j \in 1..(i - 1) :
             s[j] \in {"semi", "lbrace"} /\ \A k \in (j + 1)..(i - 1) : s[k] = "sp"
       \/ \E j \in (i + 1)..Len(s) :
             s[j] = "rbrace" /\ \A k \in (i + 1)..(j - 1) : s[k] \in {"sp", "semi"}

Kept(s) ==
    SelectSeq([i \in DOMAIN s |-> i], LAMBDA i : s[i] # "sp" /\ ~ Idle(s, i))

\* Whether a space between items i and j says anything: between two words, as
\* around the operators of calc, and before the colon of "div :hover".
Says(s, i, j) ==
    /\ s[i] \notin {"lbrace", "rbrace", "semi", "("}
    /\ s[j] \notin {"lbrace", "rbrace", "semi", ")"}
    /\ Open(s)[j - 1] = 0 => s[i] \notin {"+", ":"} /\ s[j] # "+"

\* The items that count, each with whether a space that counts precedes it.
Structure(s) ==
    LET kept == Kept(s)
    IN  [k \in DOMAIN kept |->
            <<s[kept[k]],
              /\ k > 1
              /\ \E j \in (kept[k - 1] + 1)..(kept[k] - 1) : s[j] = "sp"
              /\ Says(s, kept[k - 1], kept[k])>>]

-----------------------------------------------------------------------------
(* Properties.                                                             *)

TypeOK ==
    /\ input \in Seq(Items)
    /\ state.out \in Seq((Items \cup {"sp"}) \ {"comment"})
    /\ state.depth \in 0..MaxLen /\ state.space \in BOOLEAN
    /\ Len(state.out) <= Len(input)

\* The output says what the stylesheet says: the same items in the same
\* order, but for idle semicolons, with a space exactly where one counts; so
\* calc(a + b) never becomes calc(a+b) ("valid input is never structurally
\* changed", minify.go).  A comment counts as the space the code takes it for.
StructureKept == Structure(state.out) = Structure(CommentsAsSpaces(input))
=============================================================================
