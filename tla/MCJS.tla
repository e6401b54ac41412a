-------------------------------- MODULE MCJS --------------------------------
(***************************************************************************)
(* Scripts for the minifier of JavaScript.  Two characters may begin a     *)
(* name, so that the generator comes to names of two characters, and finds *)
(* the global "a" taken.                                                   *)
(***************************************************************************)
EXTENDS JS

Order == <<"a", "a0", "aa", "ab", "b", "b0", "ba", "bb", "f", "name", "other">>

FirstChars == <<"a", "b">>
RestChars == <<"a", "b", "0">>

NoGap == {""}
Lines == {"", "\n"}

Inside == <<"function", "f", "(", "name", ")", "{">>

\* Var lists, their ends at line breaks, and functions in functions.
Lists ==
    Corpus(Inside,
           {<<"var", "other">>, <<"=", "name">>, <<",", "other">>, <<";">>, <<"}">>, <<"other">>},
           Lines, <<"}">>, 6)

\* Names that shadow others and the global "a".
Shadows ==
    Corpus(<<"var", "a", ";">> \o Inside,
           {<<"function", "other", "(", "name", ")", "{">>, <<"}">>, <<"name">>, <<"other">>, <<"a">>,
            <<";">>, <<"=", "function", "name", "(", ")", "{">>, <<"var", "a">>},
           NoGap, <<"}">>, 9)

\* Objects with methods and accessors, properties, and what mangling gives up at.
Objects ==
    Corpus(Inside \o <<"return", "(">>,
           {<<"{", "name", ":">>, <<"name">>, <<"}">>, <<",">>,
            <<"{", "other", "(", "name", ")", "{", "return">>,
            <<"{", "get", "name", "(", ")", "{", "return">>,
            <<"function", "name", "(", ")", "{", "return">>,
            <<".", "name">>, <<"{", "name">>, <<"|${name}|">>, <<"eval">>},
           NoGap, <<")", "}">>, 9)

\* Labels, cases, conditionals and catch clauses, all with colons or braces.
Labels ==
    Corpus(Inside,
           {<<"name", ":">>, <<"break", "name">>, <<"switch", "(", "name", ")", "{", "case">>, <<":">>,
            <<"try", "{", "}", "catch", "(", "other", ")", "{">>, <<"?", "name", ":">>, <<"other">>,
            <<";">>, <<"}">>, <<"name">>},
           NoGap, <<"}">>, 9)

\* Literals with shorter spellings, and an undefined that is a variable.
Shortenings ==
    Corpus(Inside \o <<"return">>,
           {<<"true">>, <<"undefined">>, <<".", "name">>, <<"=">>, <<"==">>, <<"|t|">>, <<"+">>, <<"[">>,
            <<"]">>, <<"}">>, <<"function", "(", "undefined", ")", "{", "return">>},
           NoGap, <<"}">>, 6)

\* The top level, whose names are public.
TopLevel ==
    Corpus(<<>>,
           {<<"var", "name">>, <<"=", "function", "name", "(", "other", ")", "{">>,
            <<"function", "other", "(", "name", ")", "{">>, <<"}">>, <<"other">>, <<"name">>, <<"a">>,
            <<";">>},
           NoGap, <<>>, 9)

\* Operators that run together, and line breaks between them.
Operators ==
    Corpus(<<"name">>,
           {<<"++">>, <<"-">>, <<"(">>, <<")">>, <<"[">>, <<"]">>, <<"'s'">>, <<"!">>, <<"in">>, <<"name">>},
           {"", " ", "\n"}, <<>>, 3)

\* Statements within statements, and the line breaks between them.
Blocks ==
    Corpus(<<"function", "f", "(", ")", "{">>,
           {<<"if", "(", "name", ")">>, <<"else">>, <<"{">>, <<"}">>, <<"name", ";">>, <<"return">>},
           Lines, <<"}">>, 6)

Loops ==
    Corpus(<<"do">>,
           {<<"while", "(", "name", ")">>, <<"{">>, <<"}">>, <<"name">>, <<"name", ";">>},
           Lines, <<>>, 7)

\* What a slash may begin: a comment, a regular expression, a division.
Slashes ==
    Corpus(<<"name">>, {<<"/">>, <<"=">>, <<"/r/">>, <<"name">>, <<"1">>, <<"+">>},
           {"", "// \n", "/* \n */", "/* */"}, <<>>, 3)

\* License banners, which are kept, among comments that are not.
Licenses ==
    Corpus(<<"name">>, {<<"/*!*/">>, <<"=">>, <<"/r/">>, <<"name">>, <<"1">>, <<"+">>},
           {"", "// \n", "/* \n */", "/* */"}, <<>>, 3)

\* Divisions after a banner, where the scan looks for a regular expression.
Divisions ==
    Corpus(<<"name", "/*!*/", "/">>, {<<"name">>, <<"1">>, <<"/", "name">>, <<"+">>, <<";">>},
           Lines, <<>>, 5)

Scripts ==
    {Lists, Shadows, Objects, Labels, Shortenings, TopLevel, Operators, Blocks, Loops, Slashes,
     Licenses, Divisions}

-----------------------------------------------------------------------------
(* Where the output says something else.                                   *)

\* A statement that begins with a parenthesis after a declaration, or with a
\* negation's sign that belongs to an operator.
BrokenLines ==
    {Corpus(<<"var", "name">>, {<<"(", "other", ")">>, <<"!=", "name">>, <<";">>}, Lines, <<>>, 4)}

\* A public function after a statement that a line break ends.
PublicFunctions ==
    {Corpus(<<"name", "(", ")">>, {<<"function", "other", "(", ")", "{", "}">>, <<";">>},
            Lines, <<>>, 7)}
=============================================================================
