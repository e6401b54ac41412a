------------------------------ MODULE NameGen ------------------------------
(***************************************************************************)
(* jsNameGen of internal/minify: the generator of short identifiers that   *)
(* the mangler gives to the local variables of a script.                   *)
(***************************************************************************)
EXTENDS Integers, Sequences

CONSTANTS jsNameFirst, jsNameRest   \* the characters of names, as sequences

ASSUME NameGenAssumption ==
    /\ jsNameFirst # <<>>
    /\ \A i \in 1..Len(jsNameFirst) : \E j \in 1..Len(jsNameRest) : jsNameRest[j] = jsNameFirst[i]

\* The length of name n and the place of the name among those of its length:
\* the blocks of shorter names are taken off the counter.
Shortened(n) ==
    LET block[l \in Nat] == IF l = 1 THEN Len(jsNameFirst) ELSE block[l - 1] * Len(jsNameRest)
        shorten[l \in Nat, k \in Nat] ==
            IF k < block[l] THEN <<l, k>> ELSE shorten[l + 1, k - block[l]]
    IN  shorten[1, n]

\* The last characters are drawn from jsNameRest, the first one is not.
jsNameFor(n) ==
    LET spell[l \in Nat, k \in Nat] ==
            IF l = 1 THEN jsNameFirst[(k % Len(jsNameFirst)) + 1]
            ELSE spell[l - 1, k \div Len(jsNameRest)] \o jsNameRest[(k % Len(jsNameRest)) + 1]
    IN  spell[Shortened(n)]

Give(gen, n) ==
    [taken |-> gen.taken \cup {jsNameFor(n)}, n |-> n + 1, given |-> Append(gen.given, jsNameFor(n))]

\* The generator after it has gone to its first name that is not taken, which
\* is the last of given.
next(gen) ==
    LET free[k \in Nat] == IF jsNameFor(k) \in gen.taken THEN free[k + 1] ELSE k
    IN  Give(gen, free[gen.n])
=============================================================================
