---------------------------- MODULE HTMLMinifier ----------------------------
(***************************************************************************)
(* HTML of internal/minify: one pass over a document that drops comments,  *)
(* collapses whitespace in text and tags, and takes the contents of raw    *)
(* elements as they are or through another minifier.                       *)
(*                                                                         *)
(* The pass reads one item at a time.  "sp" is a whitespace byte; "<p" the *)
(* beginning of a tag that is not special, opening or closing; "<pre"      *)
(* stands for <textarea too, and "<script" for <style; "'" for either      *)
(* quote; "[if" for "[endif]" too; "json" is a type attribute that names   *)
(* no script; "a" is a byte no case names, nor does one name "=".  The     *)
(* code looks ahead for the end of a comment or of a raw element: the pass *)
(* holds those back instead.  doc is what has been read so far, so that    *)
(* every state is the end of a run on one possible document.               *)
(***************************************************************************)
EXTENDS Integers, Sequences, FiniteSets, SequencesExt

CONSTANTS
    Minify(_),         \* JS or CSS, on the contents of an element; the
                       \* contents themselves, if it fails
    Beginnings,        \* the items a document may begin with
    MaxMore            \* bound: the items that may follow them

DocItems == {"sp", "a", "=", "<p", "<pre", "</pre", "<script", "</script", ">", "/",
             "'", "<!--", "-->", "[if", "json"}

VARIABLES
    doc,               \* the items read
    more,              \* how many of them came after the beginning
    pass               \* HTML's out, and where the pass is

vars == <<doc, more, pass>>

Tags  == {"<p", "<pre", "</pre", "<script", "</script"}
Ends  == {">", "-->"}              \* what has the '>' that ends a tag
Delim == {"sp", ">", "/"}           \* what may follow a tag's name

CloserOf(opener) == IF opener = "<pre" THEN "</pre" ELSE "</script"

Start == [out |-> <<>>, at |-> "text", space |-> FALSE, tag |-> <<>>, held |-> <<>>]

-----------------------------------------------------------------------------
(* Text and comments.                                                      *)

\* Mistake: the space is written whatever out ends with.
SpacedTwice(m) ==
    IF m.space THEN [m EXCEPT !.out = Append(@, "sp"), !.space = FALSE] ELSE m

\* writeSpace, if whitespace is pending.
Spaced(m) ==
    IF m.space /\ (m.out = <<>> \/ Last(m.out) # "sp")
    THEN [m EXCEPT !.out = Append(@, "sp"), !.space = FALSE]
    ELSE [m EXCEPT !.space = FALSE]

Text(m, c) ==
    CASE c = "sp"    -> [m EXCEPT !.space = TRUE]
      [] c = "<!--" -> [Spaced(m) EXCEPT !.at = "comment", !.held = <<c>>]
      [] c \in Tags -> [Spaced(m) EXCEPT !.at = "tag", !.tag = <<c>>,
                                         !.out = Append(@, c)]
      [] OTHER      -> [Spaced(m) EXCEPT !.out = Append(@, c)]

\* A comment is over at "-->", also at that of "<!-->".
CommentOver(m, c) == c = "-->" \/ (Len(m.held) = 1 /\ c = ">")

\* Mistake: every comment is dropped.
CommentDropped(m, c) ==
    IF CommentOver(m, c)
    THEN [m EXCEPT !.at = "text", !.held = <<>>]
    ELSE [m EXCEPT !.held = Append(@, c)]

Comment(m, c) ==
    LET held == Append(m.held, c)
    IN  IF CommentOver(m, c)
        THEN [m EXCEPT !.at = "text", !.held = <<>>,
                       !.out = IF Contains(held, "[if") THEN @ \o held ELSE @]
        ELSE [m EXCEPT !.held = held]

-----------------------------------------------------------------------------
(* Tags and raw elements.                                                  *)

SelfClosing(tag) ==
    \E k \in DOMAIN tag :
        tag[k] = "/" /\ \A j \in (k + 1)..Len(tag) : tag[j] \in {"sp", ">"}

\* isTagAt, and no '/' at its end: the element has raw content.
OpensRaw(tag) ==
    tag[1] \in {"<pre", "<script"} /\ tag[2] \in Delim /\ ~ SelfClosing(tag)

\* writeTag outside quotes.  A space is written before neither a quote nor
\* the '>'.
Tag(m, c) ==
    LET tag == Append(m.tag, c)
        out == IF m.space /\ c \notin {"'", ">"} THEN Append(m.out, "sp") ELSE m.out
    IN  CASE c = "sp"    -> [m EXCEPT !.space = TRUE, !.tag = tag]
          [] c \in Ends -> [m EXCEPT !.space = FALSE, !.tag = tag, !.out = Append(out, c),
                                     !.at = IF OpensRaw(tag) THEN "raw" ELSE "text"]
          [] OTHER      -> [m EXCEPT !.space = FALSE, !.tag = tag, !.out = Append(out, c),
                                     !.at = IF c = "'" THEN "quoted" ELSE "tag"]

\* Mistake: whitespace is dropped in a quoted value, too.
QuotedCollapsed(m, c) ==
    [m EXCEPT !.out = IF c = "sp" THEN @ ELSE Append(@, c), !.tag = Append(@, c),
              !.at = IF c = "'" THEN "tag" ELSE "quoted"]

Quoted(m, c) ==
    [m EXCEPT !.out = Append(@, c), !.tag = Append(@, c),
              !.at = IF c = "'" THEN "tag" ELSE "quoted"]

\* Whether a minifier is given and the type attribute lets it at the contents.
Minifiable(tag) == tag[1] = "<script" /\ ~ Contains(tag, "json")

\* What writeRawElement writes for the contents of the element of m.tag.
Contents(m, held) == IF Minifiable(m.tag) THEN Minify(held) ELSE held

Closer(m) == m.held # <<>> /\ Last(m.held) = CloserOf(m.tag[1])

\* Mistake: what was held is not let go.
RawHeldKept(m, c) ==
    IF Closer(m) /\ c \in Delim
    THEN [m EXCEPT !.out = @ \o Contents(m, Front(m.held)) \o <<Last(m.held), c>>,
                   !.at = IF c = ">" THEN "text" ELSE "close"]
    ELSE [m EXCEPT !.held = Append(@, c)]

\* The contents are held until their closing tag has begun.
Raw(m, c) ==
    IF Closer(m) /\ c \in Delim
    THEN [m EXCEPT !.out = @ \o Contents(m, Front(m.held)) \o <<Last(m.held), c>>,
                   !.held = <<>>,
                   !.at = IF c = ">" THEN "text" ELSE "close"]
    ELSE [m EXCEPT !.held = Append(@, c)]

Close(m, c) ==
    [m EXCEPT !.out = Append(@, c), !.at = IF c \in Ends THEN "text" ELSE "close"]

-----------------------------------------------------------------------------

Step(m, c) ==
    CASE m.at = "text"    -> Text(m, c)
      [] m.at = "comment" -> Comment(m, c)
      [] m.at = "tag"     -> Tag(m, c)
      [] m.at = "quoted"  -> Quoted(m, c)
      [] m.at = "raw"     -> Raw(m, c)
      [] m.at = "close"   -> Close(m, c)

\* The end of the input: a comment that is open is dropped, an element that
\* is open is written as it is.
Finish(m) ==
    CASE m.at = "text" -> Spaced(m).out
      [] m.at = "raw"  -> IF Closer(m)
                          THEN m.out \o Contents(m, Front(m.held)) \o <<Last(m.held)>>
                          ELSE m.out \o m.held
      [] OTHER         -> m.out

TrimSpace(s) ==
    LET kept == {k \in DOMAIN s : s[k] # "sp"}
    IN  IF kept = {} THEN <<>>
        ELSE SubSeq(s, CHOOSE k \in kept : \A j \in kept : k <= j,
                       CHOOSE k \in kept : \A j \in kept : k >= j)

\* The pass over in, after each of its items.
Passes(in) ==
    LET after[i \in 0..Len(in)] == IF i = 0 THEN Start ELSE Step(after[i - 1], in[i])
    IN  after

HTML(in) == TrimSpace(Finish(Passes(in)[Len(in)]))

Init ==
    /\ doc \in Beginnings
    /\ more = 0
    /\ pass = Passes(doc)[Len(doc)]

Read(c) ==
    /\ more < MaxMore
    /\ doc' = Append(doc, c)
    /\ more' = more + 1
    /\ pass' = Step(pass, c)

Next == \E c \in DocItems : Read(c)

Spec == Init /\ [][Next]_vars

Output == TrimSpace(Finish(pass))

-----------------------------------------------------------------------------
(* What a document says, whatever its spacing: the reference the output is *)
(* held against.                                                           *)

\* Whether a closing tag of the element opened by opener begins at i.
ClosesAt(d, i, opener) ==
    d[i] = CloserOf(opener) /\ (i = Len(d) \/ d[i + 1] \in Delim)

\* Where the items of d stand: what is open after each of them, and the item
\* it began with.
Standing(d) ==
    LET st[i \in 0..Len(d)] ==
          IF i = 0 THEN [in |-> "text", from |-> 0]
          ELSE LET in   == st[i - 1].in
                   from == st[i - 1].from
                   tag  == SubSeq(d, from, i)
                   last == SelectLastInSeq(tag, LAMBDA x : x \notin {"sp", ">"})
               IN  CASE in = "text" /\ d[i] = "<!--" -> [in |-> "comment", from |-> i]
                     [] in = "text" /\ d[i] \in Tags -> [in |-> "tag", from |-> i]
                     [] \/ in = "comment" /\ d[i] = "-->"
                        \/ in = "comment" /\ d[i] = ">" /\ i = from + 1
                        \/ in = "close" /\ d[i] \in Ends ->
                            [in |-> "text", from |-> 0]
                     [] in = "tag" /\ d[i] \in Ends ->
                            IF /\ tag[1] \in {"<pre", "<script"}
                               /\ tag[2] \in Delim
                               /\ tag[last] # "/"
                            THEN [in |-> "raw", from |-> from]
                            ELSE [in |-> "text", from |-> 0]
                     [] in \in {"tag", "quoted"} /\ d[i] = "'" ->
                            [in |-> IF in = "tag" THEN "quoted" ELSE "tag", from |-> from]
                     [] in = "raw" /\ ClosesAt(d, i, d[from]) ->
                            [in |-> "close", from |-> from]
                     [] OTHER -> [in |-> in, from |-> from]
    IN  st

\* The items a reader of the page may tell from nothing: not a space in text
\* or between attributes, nothing of a comment, unless it is conditional; of
\* a script, that it is one with those items, but for its spacing.
Matters(d, st, i) ==
    LET in   == st[i - 1].in
        from == st[i - 1].from
        conditional(j) ==
            \E k \in j..Len(d) :
                /\ d[k] = "[if" /\ \A h \in j..k : st[h].in = "comment"
                /\ \E h \in k..Len(d) : st[h].in = "text"
    IN  CASE in = "text" /\ d[i] = "<!--" -> conditional(i)
          [] in = "comment" -> conditional(from)
          [] in \in {"text", "tag"} -> d[i] # "sp"
          [] in = "raw" -> \/ d[i] # "sp" \/ d[from] = "<pre"
                           \/ \E k \in from..i : d[k] = "json" /\ st[k].in = "tag"
          [] OTHER -> TRUE

\* Whether whitespace that counts stands before item i, and after item k, the
\* last before it that matters; whitespace before the end of a tag does not,
\* nor between "=" and a quoted value.
Parted(d, st, k, i) ==
    /\ k > 0
    /\ st[i - 1].in # "raw"
    /\ \E j \in (k + 1)..(i - 1) : d[j] = "sp" /\ st[j].in \in {"text", "tag"}
    /\ st[i - 1].in = "tag" => d[i] # ">" /\ ~ (d[k] = "=" /\ d[i] = "'")

Reading(d) ==
    LET st == Standing(d)
        kept == SelectSeq([i \in DOMAIN d |-> i], LAMBDA i : Matters(d, st, i))
    IN  [n \in DOMAIN kept |->
            <<d[kept[n]], Parted(d, st, IF n = 1 THEN 0 ELSE kept[n - 1], kept[n])>>]

\* The minifier returns contents.
IsMinifier(S) == \A s \in S : Minify(s) \in Seq(DocItems)

StaysOpen(s, closer) ==
    \A i \in 1..(Len(s) - 1) : s[i] = closer => s[i + 1] \notin Delim

\* The minifier finds nothing more to do in what it has made of contents, and
\* has put no closing tag into it.
MinifiesWell(contents) ==
    /\ Minify(Minify(contents)) = Minify(contents)
    /\ StaysOpen(Minify(contents), "</script")

\* It does so with the contents that m would give it.
ContentsWell(m) ==
    m.at = "raw" /\ Closer(m) /\ Minifiable(m.tag) => MinifiesWell(Front(m.held))

\* With those of every script of d: one ends at its closing tag.
ScriptsWell(d) ==
    /\ ContentsWell(Passes(d)[Len(d)])
    /\ \A i \in DOMAIN d : d[i] \in Delim => ContentsWell(Passes(d)[i - 1])

\* In a tag, a quote comes right after whitespace only behind an "=".
NoStrayQuote(d) ==
    \A i \in 2..Len(d) :
        LET m == Passes(d)[i - 1]
        IN  d[i] = "'" /\ d[i - 1] = "sp" /\ m.at = "tag" => Last(m.out) = "="

-----------------------------------------------------------------------------
(* Properties.                                                             *)

TypeOK ==
    /\ doc \in Seq(DocItems)
    /\ more \in 0..MaxMore
    /\ pass.at \in {"text", "comment", "tag", "quoted", "raw", "close"}
    /\ pass.space \in BOOLEAN
    /\ pass.tag \in Seq(DocItems) /\ pass.held \in Seq(DocItems)
    /\ Contains(doc, "<script") \/ Len(pass.out) + Len(pass.held) <= Len(doc)

\* The output says what the document says: every word and tag, the contents
\* of pre and of conditional comments verbatim, and whitespace where it parts
\* words ("valid input is never structurally changed", minify.go), if
\* everything opened is closed.  Where whitespace stands before a quote that
\* belongs to no attribute, it does not (README of this project).
StructureKept ==
    pass.at = "text" /\ NoStrayQuote(doc) => Reading(Output) = Reading(doc)
=============================================================================
