--------------------------- MODULE ChannelProofs ---------------------------
(***************************************************************************)
(* What a client of Conn reads, for every set of messages, every length of *)
(* them and every way in which the network breaks: that WebSocketConn      *)
(* implements FrameChannel, and that every header tells its length.        *)
(***************************************************************************)
EXTENDS ServerProofs, FiniteSetTheorems

-----------------------------------------------------------------------------
(* A finite set of numbers in order.                                       *)

Rank(S, i) == Cardinality({j \in S : j < i})

LEMMA RankBounds ==
    ASSUME NEW S \in SUBSET Nat, IsFiniteSet(S), NEW i \in S
    PROVE  Rank(S, i) \in 0..(Cardinality(S) - 1)
<1> DEFINE below == {j \in S : j < i}
<1>1. below \in SUBSET S /\ below # S
  OBVIOUS
<1> HIDE DEF below
<1>2. IsFiniteSet(below) /\ Cardinality(below) <= Cardinality(S) /\ Cardinality(below) # Cardinality(S)
  BY <1>1, FS_Subset
<1>3. Cardinality(below) \in Nat /\ Cardinality(S) \in Nat
  BY <1>2, FS_CardinalityType
<1>4. QED
  BY <1>2, <1>3 DEF Rank, below

LEMMA RankGrows ==
    ASSUME NEW S \in SUBSET Nat, IsFiniteSet(S), NEW i \in S, NEW j \in S, i < j
    PROVE  Rank(S, i) < Rank(S, j)
<1> DEFINE low  == {k \in S : k < i}
           high == {k \in S : k < j}
<1>1. low \in SUBSET high /\ low # high
  <2>1. i \in high /\ i \notin low
    OBVIOUS
  <2>2. \A k \in S : k < i => k < j
    OBVIOUS
  <2>3. low \subseteq high
    BY <2>2
  <2>4. QED
    BY <2>1, <2>3
<1>2. high \in SUBSET S
  OBVIOUS
<1> HIDE DEF low, high
<1>3. IsFiniteSet(high)
  BY <1>2, FS_Subset
<1>4. IsFiniteSet(low) /\ Cardinality(low) <= Cardinality(high) /\ Cardinality(low) # Cardinality(high)
  BY <1>1, <1>3, FS_Subset
<1>5. Cardinality(low) \in Nat /\ Cardinality(high) \in Nat
  BY <1>3, <1>4, FS_CardinalityType
<1>6. QED
  BY <1>4, <1>5 DEF Rank, low, high

\* Every number below the cardinality is the rank of one member.
LEMMA RankIsOnto ==
    ASSUME NEW S \in SUBSET Nat, IsFiniteSet(S), NEW k \in 1..Cardinality(S)
    PROVE  \E i \in S : Rank(S, i) = k - 1
<1> DEFINE n == Cardinality(S)
           T == 0..(n - 1)
           f == [i \in S |-> Rank(S, i)]
<1>1. n \in Nat
  BY FS_CardinalityType
<1>2. \A i \in S : Rank(S, i) \in T
  BY RankBounds
<1>3. \A i, j \in S : Rank(S, i) = Rank(S, j) => i = j
  <2> SUFFICES ASSUME NEW i \in S, NEW j \in S, Rank(S, i) = Rank(S, j), i # j PROVE FALSE
    OBVIOUS
  <2>1. i \in Nat /\ j \in Nat /\ Rank(S, i) \in T
    BY <1>2
  <2>2. CASE i < j
    <3>1. Rank(S, i) < Rank(S, j)
      BY <2>2, RankGrows
    <3>2. QED
      BY <1>1, <2>1, <3>1
  <2>3. CASE j < i
    <3>1. Rank(S, j) < Rank(S, i)
      BY <2>3, RankGrows
    <3>2. QED
      BY <1>1, <2>1, <3>1
  <2>4. QED
    BY <2>1, <2>2, <2>3
<1>4. k \in 1..n
  OBVIOUS
<1> HIDE DEF n
<1>5. IsFiniteSet(T) /\ Cardinality(T) = n
  <2>1. /\ 0 \in Int /\ n - 1 \in Int
        /\ (IF 0 > n - 1 THEN 0 ELSE (n - 1) - 0 + 1) = n
    BY <1>1
  <2>2. QED
    BY <2>1, FS_Interval
<1>6. f \in Injection(S, T)
  <2>1. f \in [S -> T]
    BY <1>2
  <2>2. DOMAIN f = S /\ \A i, j \in S : f[i] = f[j] => i = j
    BY <1>3
  <2> HIDE DEF f, T
  <2>3. IsInjective(f)
    BY <2>2 DEF IsInjective
  <2>4. QED
    BY <2>1, <2>3 DEF Injection
<1> HIDE DEF f, T
<1>7. Cardinality(S) = Cardinality(T) <=> f \in Surjection(S, T)
  BY <1>5, <1>6, FS_Injection
<1>8. f \in Surjection(S, T)
  BY <1>5, <1>7 DEF n
<1>9. k - 1 \in T
  BY <1>1, <1>4 DEF T
<1>10. PICK i \in S : f[i] = k - 1
  BY <1>8, <1>9 DEF Surjection
<1>11. QED
  BY <1>10 DEF f

LEMMA InOrderIsRank ==
    ASSUME NEW S \in SUBSET Nat, IsFiniteSet(S)
    PROVE  /\ DOMAIN InOrder(S) = 1..Cardinality(S)
           /\ \A k \in 1..Cardinality(S) : InOrder(S)[k] \in S /\ Rank(S, InOrder(S)[k]) = k - 1
           /\ \A i \in S : Rank(S, i) + 1 \in 1..Cardinality(S) /\ InOrder(S)[Rank(S, i) + 1] = i
<1>1. DOMAIN InOrder(S) = 1..Cardinality(S)
  BY DEF InOrder
<1>2. ASSUME NEW k \in 1..Cardinality(S)
      PROVE  InOrder(S)[k] \in S /\ Rank(S, InOrder(S)[k]) = k - 1
  <2>1. InOrder(S)[k] = CHOOSE i \in S : Rank(S, i) = k - 1
    BY DEF InOrder, Rank
  <2>2. QED
    BY <2>1, RankIsOnto
<1>3. ASSUME NEW i \in S
      PROVE  Rank(S, i) + 1 \in 1..Cardinality(S) /\ InOrder(S)[Rank(S, i) + 1] = i
  <2> DEFINE r == Rank(S, i)
             j == InOrder(S)[r + 1]
  <2>1. Cardinality(S) \in Nat
    BY FS_CardinalityType
  <2>2. r \in 0..(Cardinality(S) - 1)
    BY RankBounds
  <2> HIDE DEF r
  <2>3. r + 1 \in 1..Cardinality(S) /\ (r + 1) - 1 = r
    BY <2>1, <2>2
  <2>4. j \in S /\ Rank(S, j) = r
    BY <1>2, <2>3
  <2> HIDE DEF j
  <2>5. i \in Nat /\ j \in Nat
    BY <2>4
  <2>6. ~(i < j)
    <3> SUFFICES ASSUME i < j PROVE FALSE
      OBVIOUS
    <3>1. r < r
      BY <2>4, RankGrows DEF r
    <3>2. QED
      BY <2>1, <2>2, <3>1
  <2>7. ~(j < i)
    <3> SUFFICES ASSUME j < i PROVE FALSE
      OBVIOUS
    <3>1. r < r
      BY <2>4, RankGrows DEF r
    <3>2. QED
      BY <2>1, <2>2, <3>1
  <2>8. QED
    BY <2>3, <2>5, <2>6, <2>7 DEF r, j
<1>4. QED
  BY <1>1, <1>2, <1>3

\* A larger number comes last and leaves the order of the others alone.
LEMMA InOrderAppends ==
    ASSUME NEW S \in SUBSET Nat, IsFiniteSet(S), NEW n \in Nat, \A i \in S : i < n
    PROVE  LET T == S \cup {n}
           IN  /\ Cardinality(T) = Cardinality(S) + 1
               /\ \A k \in 1..Cardinality(S) : InOrder(T)[k] = InOrder(S)[k]
               /\ InOrder(T)[Cardinality(S) + 1] = n
<1> DEFINE T == S \cup {n}
<1>1. n \notin S
  OBVIOUS
<1>2. IsFiniteSet(T) /\ Cardinality(T) = Cardinality(S) + 1
  BY <1>1, FS_AddElement
<1>3. T \in SUBSET Nat /\ S \subseteq T /\ n \in T /\ Cardinality(S) \in Nat
  BY FS_CardinalityType
<1>4. ASSUME NEW i \in S PROVE Rank(T, i) = Rank(S, i)
  <2>1. {j \in T : j < i} = {j \in S : j < i}
    OBVIOUS
  <2>2. QED
    BY <2>1 DEF Rank
<1>5. Rank(T, n) = Cardinality(S)
  <2>1. S \subseteq {j \in T : j < n} /\ ~(n < n)
    OBVIOUS
  <2>2. {j \in T : j < n} = S
    BY <2>1
  <2>3. QED
    BY <2>2 DEF Rank
<1> HIDE DEF T
<1>6. ASSUME NEW k \in 1..Cardinality(S) PROVE InOrder(T)[k] = InOrder(S)[k]
  <2> DEFINE i == InOrder(S)[k]
  <2>1. i \in S /\ Rank(S, i) = k - 1
    BY InOrderIsRank
  <2> HIDE DEF i
  <2>2. i \in T /\ Rank(T, i) + 1 = k
    BY <1>3, <1>4, <2>1
  <2>3. InOrder(T)[k] = i
    BY <1>2, <1>3, <2>2, InOrderIsRank
  <2>4. QED
    BY <2>3 DEF i
<1>7. InOrder(T)[Cardinality(S) + 1] = n
  BY <1>2, <1>3, <1>5, InOrderIsRank
<1>8. QED
  BY <1>2, <1>6, <1>7 DEF T

-----------------------------------------------------------------------------
(* Whole messages in a stream.                                             *)

\* What FrameAt, Arrived and WholeMessages say of the wire, for any sequence.
Ends(w, i) == IF PayloadLength(w[i].call) = 0 THEN i ELSE i + 1

WholeAt(w, i) ==
    /\ w[i].part = "header" /\ w[i].whole
    /\ Ends(w, i) <= Len(w)
    /\ w[Ends(w, i)].call = w[i].call
    /\ w[Ends(w, i)].whole

Starts(w) == {i \in DOMAIN w : WholeAt(w, i) /\ w[i].call \in Messages}

Sent(w) == [k \in 1..Cardinality(Starts(w)) |-> w[InOrder(Starts(w))[k]].call]

LEMMA StartsIsArrived == Starts(wire) = Arrived /\ Sent(wire) = WholeMessages
<1>1. Starts(wire) = Arrived
  BY DEF Starts, WholeAt, Ends, Arrived, FrameAt, EndOfFrame
<1>2. QED
  BY <1>1 DEF Sent, WholeMessages

LEMMA StartsIsArrivedNext == Starts(wire') = Arrived' /\ Sent(wire') = WholeMessages'
<1>1. Starts(wire') = Arrived'
  BY DEF Starts, WholeAt, Ends, Arrived, FrameAt, EndOfFrame
<1>2. InOrder(Arrived)' = InOrder(Arrived')
  BY DEF InOrder
<1>3. QED
  BY <1>1, <1>2 DEF Sent, WholeMessages

IsStream(w) == Len(w) \in Nat /\ DOMAIN w = 1..Len(w)

LEMMA StartsFinite ==
    ASSUME NEW w, IsStream(w)
    PROVE  Starts(w) \in SUBSET Nat /\ IsFiniteSet(Starts(w))
<1>1. Starts(w) \in SUBSET (1..Len(w))
  BY DEF Starts, IsStream
<1>2. IsFiniteSet(1..Len(w))
  BY FS_Interval DEF IsStream
<1>3. IsFiniteSet(Starts(w))
  BY <1>1, <1>2, FS_Subset
<1>4. QED
  BY <1>1, <1>3 DEF IsStream

\* A message is among the whole ones when a frame of it begins somewhere.
LEMMA SentMembers ==
    ASSUME NEW w, IsStream(w), NEW m
    PROVE  /\ Sent(w) \in Seq(Messages)
           /\ Len(Sent(w)) = Cardinality(Starts(w))
           /\ (\E k \in 1..Len(Sent(w)) : Sent(w)[k] = m) <=> \E i \in Starts(w) : w[i].call = m
<1> DEFINE S == Starts(w)
           n == Cardinality(S)
<1>1. S \in SUBSET Nat /\ IsFiniteSet(S)
  BY StartsFinite
<1>2. n \in Nat
  BY <1>1, FS_CardinalityType
<1>3. \A i \in S : w[i].call \in Messages
  BY DEF Starts
<1> HIDE DEF S
<1>4. \A k \in 1..n : InOrder(S)[k] \in S
  BY <1>1, InOrderIsRank
<1>5. \A i \in S : \E k \in 1..n : InOrder(S)[k] = i
  BY <1>1, InOrderIsRank
<1>6. Sent(w) = [k \in 1..n |-> w[InOrder(S)[k]].call]
  BY DEF Sent, S
<1> HIDE DEF n
<1>7. Sent(w) \in Seq(Messages) /\ Len(Sent(w)) = n
  BY <1>2, <1>3, <1>4, <1>6, IsASeq
<1>8. \A k \in 1..n : Sent(w)[k] = w[InOrder(S)[k]].call
  BY <1>6
<1>9. (\E k \in 1..n : Sent(w)[k] = m) <=> \E i \in S : w[i].call = m
  BY <1>4, <1>5, <1>8
<1>10. QED
  BY <1>7, <1>9 DEF S, n

\* A frame that begins after all the others appends its message.
LEMMA SentAppends ==
    ASSUME NEW v, IsStream(v), NEW w, IsStream(w), NEW h \in Nat, w[h].call \in Messages,
           Starts(w) = Starts(v) \cup {h}, \A i \in Starts(v) : i < h /\ w[i].call = v[i].call
    PROVE  Sent(w) = Append(Sent(v), w[h].call)
<1> DEFINE S == Starts(v)
           T == S \cup {h}
           n == Cardinality(S)
           m == w[h].call
<1>1. S \in SUBSET Nat /\ IsFiniteSet(S) /\ n \in Nat
  BY StartsFinite, FS_CardinalityType
<1>2. Sent(v) \in Seq(Messages) /\ Len(Sent(v)) = n
  BY SentMembers
<1>3. \A k \in 1..n : Sent(v)[k] = v[InOrder(S)[k]].call
  BY DEF Sent
<1>4. Starts(w) = T /\ \A i \in S : i < h /\ w[i].call = v[i].call
  OBVIOUS
<1> HIDE DEF S
<1>5. \A k \in 1..n : InOrder(S)[k] \in S
  BY <1>1, InOrderIsRank
<1>6. /\ Cardinality(T) = n + 1
      /\ \A k \in 1..n : InOrder(T)[k] = InOrder(S)[k]
      /\ InOrder(T)[n + 1] = h
  BY <1>1, <1>4, InOrderAppends
<1> HIDE DEF T, n
<1>7. Sent(w) = [k \in 1..(n + 1) |-> w[InOrder(T)[k]].call]
  BY <1>4, <1>6 DEF Sent
<1>8. Sent(w) \in Seq(Messages) /\ Len(Sent(w)) = Cardinality(Starts(w)) /\ Cardinality(T) = n + 1
  BY <1>6, SentMembers
<1>9. m \in Messages
  OBVIOUS
<1> HIDE DEF m
<1>10. /\ Append(Sent(v), m) \in Seq(Messages)
       /\ Len(Append(Sent(v), m)) = n + 1
       /\ \A k \in 1..n : Append(Sent(v), m)[k] = Sent(v)[k]
       /\ Append(Sent(v), m)[n + 1] = m
  BY <1>2, <1>9, AppendProperties
<1>11. ASSUME NEW k \in 1..(n + 1) PROVE Sent(w)[k] = Append(Sent(v), m)[k]
  <2>1. CASE k = n + 1
    BY <1>1, <1>6, <1>7, <1>10, <2>1 DEF m
  <2>2. CASE k # n + 1
    <3>1. k \in 1..n
      BY <1>1, <2>2
    <3>2. Sent(w)[k] = w[InOrder(S)[k]].call
      BY <1>6, <1>7, <3>1
    <3>3. QED
      BY <1>3, <1>4, <1>5, <1>10, <3>1, <3>2
  <2>3. QED
    BY <2>1, <2>2
<1>12. Sent(w) = Append(Sent(v), m)
  BY <1>4, <1>8, <1>10, <1>11, SeqEqual
<1>13. QED
  BY <1>12 DEF m

LEMMA SentStays ==
    ASSUME NEW v, IsStream(v), NEW w, Starts(w) = Starts(v),
           \A i \in Starts(v) : w[i].call = v[i].call
    PROVE  Sent(w) = Sent(v)
<1>1. Starts(v) \in SUBSET Nat /\ IsFiniteSet(Starts(v))
  BY StartsFinite
<1>2. \A k \in 1..Cardinality(Starts(v)) : InOrder(Starts(v))[k] \in Starts(v)
  BY <1>1, InOrderIsRank
<1>3. QED
  BY <1>2 DEF Sent

\* v is the first l pieces of the stream s.
Begins(v, s, l) ==
    l \in 0..Len(s) /\ DOMAIN v = 1..l /\ Len(v) = l /\ \A i \in 1..l : v[i] = s[i]

\* When l pieces of the stream s are sent, the frame of call c, which begins at
\* h, is the last one and is not complete.
UnderWay(s, l, c, h) ==
    /\ h \in 1..Len(s)
    /\ h = l \/ h = l + 1
    /\ s[h] = HeaderPiece(c)
    /\ h = l => PayloadLength(c) # 0
    /\ \A i \in (h + 1)..Len(s) : s[i].part = "payload"

\* w has the whole frames of v, and no other but one of c that begins at h.
Completes(v, w, c, h) ==
    /\ IsStream(v) /\ IsStream(w)
    /\ \A i \in Starts(v) : i < h /\ w[i] = v[i]
    /\ Starts(w) = Starts(v) \/ (h \in Starts(w) /\ Starts(w) = Starts(v) \cup {h})
    /\ h \in Starts(w) => w[h].call = c

\* A write can complete the frame under way and no other.
LEMMA CutStarts ==
    ASSUME NEW s \in Seq(WholePieces), InFrames(s), NEW v, NEW l, Begins(v, s, l),
           NEW c \in Calls, NEW h, UnderWay(s, l, c, h), NEW w, Cuts(w, s, l)
    PROVE  Completes(v, w, c, h)
<1>0. /\ l \in 0..Len(s) /\ DOMAIN v = 1..l /\ Len(v) = l /\ \A i \in 1..l : v[i] = s[i]
      /\ h \in 1..Len(s) /\ (h = l \/ h = l + 1) /\ s[h] = HeaderPiece(c)
      /\ h = l => PayloadLength(c) # 0
      /\ \A i \in (h + 1)..Len(s) : s[i].part = "payload"
  BY DEF Begins, UnderWay
<1>1. PICK n \in l..Len(s) :
         /\ DOMAIN w = 1..n
         /\ Len(w) = n
         /\ \A i \in 1..n :
               w[i] = s[i] \/ (i = n /\ i > l /\ w[i] = [s[i] EXCEPT !.whole = FALSE])
  BY DEF Cuts
<1>2. Len(s) \in Nat /\ l \in Nat /\ n \in Nat /\ h \in Nat /\ l <= n /\ n <= Len(s)
  BY <1>0, LenProperties
<1>3. \A i \in 1..Len(s) : s[i] \in WholePieces
  BY ElementOfSeq
<1>4. ASSUME NEW i \in 1..n PROVE w[i].part = s[i].part /\ w[i].call = s[i].call
  <2>1. s[i] \in WholePieces
    BY <1>0, <1>2, <1>3
  <2>2. w[i] = s[i] \/ w[i] = [s[i] EXCEPT !.whole = FALSE]
    BY <1>1
  <2>3. QED
    BY <2>1, <2>2, PieceFields
<1>5. \A i \in 1..l : w[i] = s[i] /\ w[i] = v[i]
  BY <1>0, <1>1, <1>2
<1>6. ASSUME NEW i \in 1..l, i # h PROVE WholeAt(w, i) <=> WholeAt(v, i)
  <2>1. w[i] = v[i] /\ w[i] = s[i] /\ Ends(w, i) = Ends(v, i) /\ Ends(v, i) \in {i, i + 1}
    BY <1>5 DEF Ends
  <2>2. CASE Ends(v, i) \in 1..l
    <3>1. w[Ends(v, i)] = v[Ends(v, i)] /\ Ends(v, i) <= Len(v) /\ Ends(v, i) <= Len(w)
      BY <1>0, <1>1, <1>2, <1>5, <2>2
    <3>2. QED
      BY <2>1, <3>1 DEF WholeAt
  <2>3. CASE Ends(v, i) \notin 1..l
    <3>1. i = l /\ Ends(v, i) = l + 1 /\ PayloadLength(s[i].call) # 0
      BY <1>0, <1>2, <2>1, <2>3 DEF Ends
    <3>2. ~WholeAt(v, i)
      BY <1>0, <1>2, <3>1 DEF WholeAt
    <3>3. h = i + 1 /\ i \in 1..(Len(s) - 1)
      BY <1>0, <1>2, <1>6, <3>1
    <3>4. s[i + 1].part = "header"
      BY <1>0, <3>3 DEF HeaderPiece
    <3>5. s[i].part # "header"
      BY <3>1, <3>3, <3>4 DEF InFrames
    <3>6. QED
      BY <2>1, <3>2, <3>5 DEF WholeAt
  <2>4. QED
    BY <2>2, <2>3
<1>7. ASSUME NEW i \in 1..n, i > l, i # h PROVE ~WholeAt(w, i)
  <2>1. i \in (h + 1)..Len(s)
    BY <1>0, <1>2, <1>7
  <2>2. w[i].part = "payload"
    BY <1>0, <1>4, <2>1
  <2>3. QED
    BY <2>2 DEF WholeAt
<1>8. h \notin Starts(v)
  <2>1. CASE h = l
    <3>1. Ends(v, h) = l + 1
      BY <1>0, <1>2, <2>1 DEF Ends, HeaderPiece
    <3>2. QED
      BY <1>0, <1>2, <3>1 DEF Starts, WholeAt
  <2>2. CASE h = l + 1
    BY <1>0, <1>2, <2>2 DEF Starts
  <2>3. QED
    BY <1>0, <2>1, <2>2
<1>9. ASSUME NEW i, i # h PROVE i \in Starts(w) <=> i \in Starts(v)
  <2>1. CASE i \in 1..l
    <3>1. i \in DOMAIN w /\ i \in DOMAIN v /\ w[i].call = v[i].call
      BY <1>0, <1>1, <1>2, <1>5, <2>1
    <3>2. WholeAt(w, i) <=> WholeAt(v, i)
      BY <1>6, <1>9, <2>1
    <3>3. QED
      BY <3>1, <3>2 DEF Starts
  <2>2. CASE i \notin 1..l
    <3>1. i \notin Starts(v)
      BY <1>0, <2>2 DEF Starts
    <3>2. i \in DOMAIN w => i \in 1..n /\ i > l
      BY <1>0, <1>1, <1>2, <2>2
    <3>3. i \notin Starts(w)
      BY <1>7, <1>9, <3>2 DEF Starts
    <3>4. QED
      BY <3>1, <3>3
  <2>3. QED
    BY <2>1, <2>2
<1>10. \A i \in Starts(v) : i < h /\ w[i] = v[i]
  <2> SUFFICES ASSUME NEW i \in Starts(v) PROVE i < h /\ w[i] = v[i]
    OBVIOUS
  <2>1. i \in 1..l /\ i # h
    BY <1>0, <1>8 DEF Starts
  <2>2. QED
    BY <1>0, <1>2, <1>5, <2>1
<1>11. h \in Starts(w) => w[h].call = c
  <2>1. h \in Starts(w) => h \in 1..n
    BY <1>1 DEF Starts
  <2>2. QED
    BY <1>0, <1>4, <2>1 DEF HeaderPiece
<1>12. Starts(w) = Starts(v) \/ (h \in Starts(w) /\ Starts(w) = Starts(v) \cup {h})
  <2>1. CASE h \in Starts(w)
    BY <1>9, <2>1
  <2>2. CASE h \notin Starts(w)
    <3>1. \A i : i \in Starts(w) <=> i \in Starts(v)
      BY <1>8, <1>9, <2>2
    <3>2. Starts(w) = Starts(v)
      BY <3>1, Zenon
    <3>3. QED
      BY <3>2
  <2>3. QED
    BY <2>1, <2>2
<1>13. QED
  BY <1>0, <1>1, <1>2, <1>10, <1>11, <1>12 DEF IsStream, Completes

-----------------------------------------------------------------------------
(* The strengthened invariant.                                             *)

Untouched(c) == \A i \in DOMAIN wire : wire[i].call # c

\* All of the frame of call c.
Frame(c) ==
    IF PayloadLength(c) = 0 THEN <<HeaderPiece(c)>> ELSE <<HeaderPiece(c), PayloadPiece(c)>>

\* The buffer has flushed the header of call c, and holds its payload.
HeaderAhead(c) ==
    /\ PayloadLength(c) # 0
    /\ buf = <<PayloadPiece(c)>>
    /\ wire # <<>> /\ wire[Len(wire)] = HeaderPiece(c)
    /\ \A i \in 1..(Len(wire) - 1) : wire[i].call # c

\* While nothing has failed, the buffer holds what the call with the lock has
\* written and not yet flushed, and nothing of a frame is sent before its call.
Buffered ==
    ~bufErr =>
        /\ \A c \in Calls : cpc[c] \in {"start", "header"} => Untouched(c)
        /\ \A c \in Calls : cpc[c] = "payload" => Untouched(c) /\ buf = <<HeaderPiece(c)>>
        /\ \A c \in Calls : cpc[c] = "flush" =>
              (Untouched(c) /\ buf = Frame(c)) \/ HeaderAhead(c)
        /\ (\A c \in Calls : cpc[c] \notin {"payload", "flush"}) => buf = <<>>

\* A call has its result from the step that leads to its unlock, and nil only
\* if its message has arrived.
Answering ==
    /\ result \in [Calls -> {"pending", "nil", "error"}]
    /\ \A c \in Calls : result[c] # "pending" <=> cpc[c] \in {"unlock", "returned"}
    /\ \A m \in Messages : cpc[m] # "closeNet"
    /\ \A m \in Messages : result[m] = "nil" => \E i \in Arrived : wire[i].call = m

ChannelInv == CallInv /\ IsStream(wire) /\ Buffered /\ Answering

\* The frame under way: where it begins in the stream, and that only its
\* payload can follow.
LEMMA FrameUnderWay ==
    ASSUME ChannelInv, ~bufErr, NEW c \in Calls, cpc[c] \in {"payload", "flush"}
    PROVE  \E h \in 1..Len(wire \o buf) :
              /\ UnderWay(wire \o buf, Len(wire), c, h)
              /\ \A i \in DOMAIN wire : i # h => wire[i].call # c
              /\ cpc[c] = "flush" =>
                    IF PayloadLength(c) = 0 THEN Len(wire \o buf) = h
                    ELSE Len(wire \o buf) = h + 1 /\ (wire \o buf)[h + 1] = PayloadPiece(c)
<1> DEFINE s == wire \o buf
<1>1. wire \in Seq(WholePieces) /\ buf \in Seq(WholePieces)
  BY DEF ChannelInv, CallInv, Streaming, Sound
<1>2. /\ s \in Seq(WholePieces)
      /\ Len(s) = Len(wire) + Len(buf)
      /\ \A i \in 1..(Len(wire) + Len(buf)) :
            s[i] = IF i <= Len(wire) THEN wire[i] ELSE buf[i - Len(wire)]
  BY <1>1, ConcatProperties
<1>3. Len(wire) \in Nat /\ DOMAIN wire = 1..Len(wire)
  BY DEF ChannelInv, IsStream
<1>4. HeaderPiece(c).part = "header" /\ PayloadPiece(c).part = "payload"
  BY DEF HeaderPiece, PayloadPiece
<1>5. \/ Untouched(c) /\ cpc[c] = "payload" /\ buf = <<HeaderPiece(c)>>
      \/ Untouched(c) /\ cpc[c] = "flush" /\ buf = Frame(c)
      \/ cpc[c] = "flush" /\ HeaderAhead(c)
  BY DEF ChannelInv, Buffered
<1>6. CASE Untouched(c) /\ buf = <<HeaderPiece(c)>>
           /\ (cpc[c] = "payload" \/ PayloadLength(c) = 0)
  <2>1. Len(buf) = 1 /\ buf[1] = HeaderPiece(c)
    BY <1>6
  <2>2. Len(s) = Len(wire) + 1 /\ s[Len(wire) + 1] = HeaderPiece(c)
    BY <1>2, <1>3, <2>1
  <2> HIDE DEF s
  <2>3. /\ Len(wire) + 1 \in 1..Len(s)
        /\ \A i \in ((Len(wire) + 1) + 1)..Len(s) : FALSE
        /\ Len(wire) + 1 # Len(wire)
    <3> DEFINE n == Len(wire)
               k == Len(s)
    <3>1. n \in Nat /\ k = n + 1
      BY <1>3, <2>2
    <3> HIDE DEF n, k
    <3>2. n + 1 \in 1..k /\ (\A i \in ((n + 1) + 1)..k : FALSE) /\ n + 1 # n
      BY <3>1
    <3>3. QED
      BY <3>2 DEF n, k
  <2>4. \A i \in DOMAIN wire : i # Len(wire) + 1 => wire[i].call # c
    BY <1>6 DEF Untouched
  <2>5. QED
    BY <1>6, <2>2, <2>3, <2>4 DEF s, UnderWay
<1>7. CASE Untouched(c) /\ buf = <<HeaderPiece(c), PayloadPiece(c)>> /\ PayloadLength(c) # 0
  <2>1. Len(buf) = 2 /\ buf[1] = HeaderPiece(c) /\ buf[2] = PayloadPiece(c)
    BY <1>7
  <2>2. Len(s) = Len(wire) + 2 /\ s[Len(wire) + 1] = HeaderPiece(c)
        /\ s[Len(wire) + 2] = PayloadPiece(c)
    BY <1>2, <1>3, <2>1
  <2> HIDE DEF s
  <2>3. /\ Len(wire) + 1 \in 1..Len(s) /\ (Len(wire) + 1) + 1 = Len(wire) + 2
        /\ \A i \in (Len(wire) + 2)..Len(s) : i = Len(wire) + 2
        /\ Len(wire) + 1 # Len(wire)
    <3> DEFINE n == Len(wire)
               k == Len(s)
    <3>1. n \in Nat /\ k = n + 2
      BY <1>3, <2>2
    <3> HIDE DEF n, k
    <3>2. n + 1 \in 1..k /\ (n + 1) + 1 = n + 2 /\ (\A i \in (n + 2)..k : i = n + 2) /\ n + 1 # n
      BY <3>1
    <3>3. QED
      BY <3>2 DEF n, k
  <2>4. \A i \in DOMAIN wire : i # Len(wire) + 1 => wire[i].call # c
    BY <1>7 DEF Untouched
  <2>5. QED
    BY <1>4, <1>7, <2>2, <2>3, <2>4 DEF s, UnderWay
<1>8. CASE cpc[c] = "flush" /\ HeaderAhead(c)
  <2>1. Len(buf) = 1 /\ buf[1] = PayloadPiece(c) /\ Len(wire) # 0
    BY <1>1, <1>8, EmptySeq DEF HeaderAhead
  <2>2. Len(s) = Len(wire) + 1 /\ s[Len(wire)] = HeaderPiece(c)
        /\ s[Len(wire) + 1] = PayloadPiece(c)
    BY <1>2, <1>3, <1>8, <2>1 DEF HeaderAhead
  <2> HIDE DEF s
  <2>3. /\ Len(wire) \in 1..Len(s)
        /\ \A i \in DOMAIN wire : i # Len(wire) => wire[i].call # c
        /\ (Len(wire) + 1)..Len(s) = {Len(wire) + 1}
    BY <1>3, <1>8, <2>1, <2>2 DEF HeaderAhead
  <2>4. PayloadLength(c) # 0
    BY <1>8 DEF HeaderAhead
  <2>5. QED
    BY <1>4, <1>8, <2>2, <2>3, <2>4 DEF s, UnderWay
<1>9. QED
  BY <1>5, <1>6, <1>7, <1>8 DEF Frame

-----------------------------------------------------------------------------
(* The steps of a call, each with what it is on the abstract channel.      *)

\* What each call of WriteMessage has returned.
Answered == [m \in Messages |-> IF cpc[m] = "returned" THEN result[m] ELSE "pending"]

ChannelStep == Channel!Next \/ UNCHANGED <<WholeMessages, Answered, net = "closed">>

LEMMA MessagesAreCalls == \A m \in Messages : m \in Calls /\ m # Closer
  BY ConnAssumption DEF Calls

LEMMA SameWire ==
    ASSUME wire' = wire
    PROVE  Arrived' = Arrived /\ WholeMessages' = WholeMessages
  BY StartsIsArrived, StartsIsArrivedNext

\* Whole messages are members of what the client has.
LEMMA InSentIsArrived ==
    ASSUME IsStream(wire), NEW m
    PROVE  Channel!InSent(m) <=> \E i \in Arrived : wire[i].call = m
<1>1. (\E k \in 1..Len(Sent(wire)) : Sent(wire)[k] = m)
         <=> \E i \in Starts(wire) : wire[i].call = m
  BY SentMembers
<1>2. QED
  BY <1>1, StartsIsArrived DEF Channel!InSent

\* What a write of the buffer to the network brings to the client: no message,
\* or the one of the call that has the lock, and all of it if nothing failed.
LEMMA NetWriteArrives ==
    ASSUME ChannelInv, ~bufErr, NEW c \in Calls, cpc[c] \in {"payload", "flush"}, NetWrite(buf)
    PROVE  /\ IsStream(wire')
           /\ \A i \in Arrived : i \in Arrived' /\ wire'[i] = wire[i]
           /\ net' = "closed" <=> net = "closed"
           /\ \/ WholeMessages' = WholeMessages
              \/ /\ c \in Messages /\ net = "open" /\ \A i \in Arrived : wire[i].call # c
                 /\ WholeMessages' = Append(WholeMessages, c)
           /\ cpc[c] = "flush" /\ ~bufErr' /\ c \in Messages
                => \E i \in Arrived' : wire'[i].call = c
<1> DEFINE s == wire \o buf
           l == Len(wire)
<1>1. Sound /\ wire \in Seq(WholePieces) /\ buf \in Seq(WholePieces) /\ InFrames(s)
  BY DEF ChannelInv, CallInv, Streaming, Sound
<1>2. /\ s \in Seq(WholePieces)
      /\ Len(s) = Len(wire) + Len(buf)
      /\ \A i \in 1..(Len(wire) + Len(buf)) :
            s[i] = IF i <= Len(wire) THEN wire[i] ELSE buf[i - Len(wire)]
  BY <1>1, ConcatProperties
<1>3. /\ l \in 0..Len(s) /\ l \in Nat /\ DOMAIN wire = 1..l /\ Len(wire) = l
      /\ \A i \in 1..l : wire[i] = s[i]
  BY <1>1, <1>2, LenProperties
<1>4. PICK h \in 1..Len(s) :
         /\ UnderWay(s, l, c, h)
         /\ \A i \in DOMAIN wire : i # h => wire[i].call # c
         /\ cpc[c] = "flush" =>
               IF PayloadLength(c) = 0 THEN Len(s) = h
               ELSE Len(s) = h + 1 /\ s[h + 1] = PayloadPiece(c)
  BY FrameUnderWay
<1>5. Cuts(wire', s, l) /\ ((bufErr' = bufErr /\ wire' = s) \/ bufErr' = TRUE)
  BY <1>1, NetWriteCuts
<1> HIDE DEF s, l
<1>6. /\ IsStream(wire) /\ IsStream(wire')
      /\ \A i \in Starts(wire) : i < h /\ wire'[i] = wire[i]
      /\ Starts(wire') = Starts(wire)
         \/ (h \in Starts(wire') /\ Starts(wire') = Starts(wire) \cup {h})
      /\ h \in Starts(wire') => wire'[h].call = c
  <2>1. Begins(wire, s, l)
    BY <1>3 DEF Begins
  <2>2. Completes(wire, wire', c, h)
    BY <1>1, <1>2, <1>4, <1>5, <2>1, CutStarts
  <2>3. QED
    BY <2>2 DEF Completes
<1>7. /\ net' = "closed" <=> net = "closed"
      /\ net # "open" => wire' = wire
  BY DEF NetWrite
<1>8. \A i \in Starts(wire) : wire[i].call # c
  <2> SUFFICES ASSUME NEW i \in Starts(wire) PROVE wire[i].call # c
    OBVIOUS
  <2>1. i \in DOMAIN wire /\ i < h /\ i \in Nat
    BY <1>3, <1>6 DEF Starts
  <2>2. h \in Nat
    BY <1>2, <1>4
  <2>3. QED
    BY <1>4, <2>1, <2>2
<1>9. \/ Sent(wire') = Sent(wire)
      \/ c \in Messages /\ net = "open" /\ Sent(wire') = Append(Sent(wire), c)
  <2>1. CASE Starts(wire') = Starts(wire)
    BY <1>6, <2>1, SentStays
  <2>2. CASE net # "open"
    BY <1>7, <2>2
  <2>3. CASE net = "open" /\ h \in Starts(wire') /\ Starts(wire') = Starts(wire) \cup {h}
    <3>1. wire'[h].call = c /\ c \in Messages /\ h \in Nat
      BY <1>6, <2>3 DEF Starts
    <3>2. Sent(wire') = Append(Sent(wire), wire'[h].call)
      BY <1>6, <2>3, <3>1, SentAppends
    <3>3. QED
      BY <2>3, <3>1, <3>2
  <2>4. QED
    BY <1>6, <2>1, <2>2, <2>3
<1>10. ASSUME cpc[c] = "flush", ~bufErr', c \in Messages
       PROVE  h \in Starts(wire') /\ wire'[h].call = c
  <2>1. wire' = s /\ DOMAIN s = 1..Len(s) /\ Len(s) \in Nat
    BY <1>2, <1>5, <1>10, LenProperties
  <2>2. s[h].call = c /\ s[h].part = "header" /\ s[h].whole = TRUE
    BY <1>4 DEF HeaderPiece, UnderWay
  <2>3. Ends(s, h) <= Len(s) /\ s[Ends(s, h)].call = c /\ s[Ends(s, h)].whole = TRUE
    <3>1. CASE PayloadLength(c) = 0
      <4>1. Ends(s, h) = h /\ Len(s) = h
        BY <1>4, <1>10, <2>2, <3>1 DEF Ends
      <4>2. QED
        BY <2>2, <4>1
    <3>2. CASE PayloadLength(c) # 0
      <4>1. Ends(s, h) = h + 1 /\ Len(s) = h + 1 /\ s[h + 1] = PayloadPiece(c)
        BY <1>4, <1>10, <2>2, <3>2 DEF Ends
      <4>2. QED
        BY <2>1, <4>1 DEF PayloadPiece
    <3>3. QED
      BY <3>1, <3>2
  <2>4. WholeAt(s, h)
    BY <2>2, <2>3 DEF WholeAt
  <2>5. QED
    BY <1>10, <2>1, <2>2, <2>4 DEF Starts
<1>11. QED
  BY <1>6, <1>7, <1>8, <1>9, <1>10, StartsIsArrived, StartsIsArrivedNext

\* A call that goes on to a place between its lock and its unlock.
Moves(c, x) ==
    /\ cpc[c] \in Inside \ {"unlock"}
    /\ x \in Inside
    /\ cpc' = [cpc EXCEPT ![c] = x]
    /\ x = "closeNet" => c = Closer
    /\ \/ x # "unlock" /\ result' = result
       \/ /\ x = "unlock"
          /\ \/ result' = [result EXCEPT ![c] = "error"]
             \/ /\ result' = [result EXCEPT ![c] = "nil"]
                /\ c \in Messages => \E i \in Arrived' : wire'[i].call = c

LEMMA MovesAnswering ==
    ASSUME ChannelInv, NEW c \in Calls, NEW x, Moves(c, x),
           \A i \in Arrived : i \in Arrived' /\ wire'[i] = wire[i]
    PROVE  Answering' /\ Answered' = Answered
<1>1. /\ cpc \in [Calls -> Inside \cup {"start", "returned"}]
      /\ result \in [Calls -> {"pending", "nil", "error"}]
      /\ \A d \in Calls : result[d] # "pending" <=> cpc[d] \in {"unlock", "returned"}
      /\ \A m \in Messages : cpc[m] # "closeNet"
      /\ \A m \in Messages : result[m] = "nil" => \E i \in Arrived : wire[i].call = m
  BY DEF ChannelInv, CallInv, Calling, Answering
<1>2. cpc[c] \notin {"unlock", "returned", "start"} /\ x \notin {"returned", "start"}
  BY DEF Moves, Inside
<1>3. \A d \in Calls : cpc'[d] = IF d = c THEN x ELSE cpc[d]
  BY <1>1 DEF Moves
<1>4. /\ result' \in [Calls -> {"pending", "nil", "error"}]
      /\ \A d \in Calls : d # c => result'[d] = result[d]
      /\ result'[c] = "nil" /\ c \in Messages => \E i \in Arrived' : wire'[i].call = c
      /\ result'[c] # "pending" <=> x = "unlock"
  <2>1. CASE x # "unlock" /\ result' = result
    BY <1>1, <1>2, <2>1
  <2>2. CASE x = "unlock" /\ result' = [result EXCEPT ![c] = "error"]
    BY <1>1, <2>2
  <2>3. CASE x = "unlock" /\ result' = [result EXCEPT ![c] = "nil"]
             /\ (c \in Messages => \E i \in Arrived' : wire'[i].call = c)
    BY <1>1, <2>3
  <2>4. QED
    BY <2>1, <2>2, <2>3 DEF Moves
<1>5. \A d \in Calls : result'[d] # "pending" <=> cpc'[d] \in {"unlock", "returned"}
  BY <1>1, <1>2, <1>3, <1>4
<1>6. \A m \in Messages : cpc'[m] # "closeNet"
  BY <1>1, <1>3, MessagesAreCalls DEF Moves
<1>7. \A m \in Messages : result'[m] = "nil" => \E i \in Arrived' : wire'[i].call = m
  <2> SUFFICES ASSUME NEW m \in Messages, result'[m] = "nil"
               PROVE  \E i \in Arrived' : wire'[i].call = m
    OBVIOUS
  <2>1. CASE m = c
    BY <1>4, <2>1
  <2>2. CASE m # c
    <3>1. result[m] = "nil"
      BY <1>4, <2>2, MessagesAreCalls
    <3>2. PICK i \in Arrived : wire[i].call = m
      BY <1>1, <3>1
    <3>3. QED
      BY <3>2
  <2>3. QED
    BY <2>1, <2>2
<1>8. Answering'
  BY <1>4, <1>5, <1>6, <1>7 DEF Answering
<1>9. \A m \in Messages : (IF cpc'[m] = "returned" THEN result'[m] ELSE "pending")
                         = IF cpc[m] = "returned" THEN result[m] ELSE "pending"
  BY <1>2, <1>3, <1>4, MessagesAreCalls
<1>10. Answered' = Answered
  BY <1>9 DEF Answered
<1>11. QED
  BY <1>8, <1>10

\* Once a write has failed, the wire stays as it is.
LEMMA FailedStep ==
    ASSUME ChannelInv, CallInv', bufErr' = TRUE, IsStream(wire'), NEW c \in Calls, NEW x, Moves(c, x),
           \A i \in Arrived : i \in Arrived' /\ wire'[i] = wire[i]
    PROVE  ChannelInv' /\ Answered' = Answered
<1>1. Answering' /\ Answered' = Answered
  BY MovesAnswering
<1>2. Buffered'
  BY DEF Buffered
<1>3. IsStream(wire)'
  BY DEF IsStream
<1>4. QED
  BY <1>1, <1>2, <1>3 DEF ChannelInv

\* The place to which an error sends a call.
LEMMA FailMoves ==
    ASSUME ChannelInv, NEW c \in Calls, cpc[c] \in {"header", "payload"}, Fail(c)
    PROVE  \E x : Moves(c, x)
  BY DEF Fail, Leave, Goto, Moves, Inside

\* What a step of the call with the lock brings to the channel, if it only
\* writes: nothing, or its message.
Brings(c) ==
    /\ net' = "closed" <=> net = "closed"
    /\ \/ WholeMessages' = WholeMessages
       \/ /\ c \in Messages /\ net = "open" /\ \A i \in Arrived : wire[i].call # c
          /\ WholeMessages' = Append(WholeMessages, c)

LEMMA BringsStep ==
    ASSUME ChannelInv, NEW c \in Calls, cpc[c] \in Inside, Brings(c), Answered' = Answered
    PROVE  ChannelStep
<1>1. CASE WholeMessages' = WholeMessages
  BY <1>1 DEF ChannelStep, Brings
<1>2. CASE /\ c \in Messages /\ net = "open" /\ \A i \in Arrived : wire[i].call # c
           /\ WholeMessages' = Append(WholeMessages, c)
  <2>1. ~Channel!InSent(c)
    BY <1>2, InSentIsArrived DEF ChannelInv
  <2>2. Answered[c] = "pending"
    BY <1>2 DEF Answered, Inside
  <2>3. Channel!Arrive(c)
    BY <1>2, <2>1, <2>2 DEF Channel!Arrive, Answered, Brings
  <2>4. QED
    BY <1>2, <2>3 DEF ChannelStep, Channel!Next
<1>3. QED
  BY <1>1, <1>2 DEF Brings

\* The steps of the call with the lock leave the places of the others.
LEMMA OthersWait ==
    ASSUME ChannelInv, NEW c \in Calls, cpc[c] \in Inside, NEW x, cpc' = [cpc EXCEPT ![c] = x]
    PROVE  /\ \A d \in Calls : d # c => cpc[d] \in {"start", "returned"} /\ cpc'[d] = cpc[d]
           /\ cpc'[c] = x
  BY DEF ChannelInv, CallInv, Calling

LEMMA UnchangedBrings ==
    ASSUME ChannelInv, wire' = wire, net' = net, NEW c
    PROVE  /\ Brings(c)
           /\ IsStream(wire')
           /\ \A i \in Arrived : i \in Arrived' /\ wire'[i] = wire[i]
  BY SameWire DEF Brings, ChannelInv

\* After an error each write fails at once.
LEMMA AfterErrorStep ==
    ASSUME ChannelInv, CallInv', bufErr, bufErr' = bufErr, wire' = wire, net' = net,
           NEW c \in Calls, NEW x, Moves(c, x)
    PROVE  ChannelInv' /\ ChannelStep
<1>1. bufErr' = TRUE
  <2>1. bufErr \in BOOLEAN
    BY DEF ChannelInv, CallInv, Calling
  <2>2. QED
    BY <2>1, Zenon
<1>2. /\ Brings(c) /\ IsStream(wire')
      /\ \A i \in Arrived : i \in Arrived' /\ wire'[i] = wire[i]
  BY UnchangedBrings
<1>3. ChannelInv' /\ Answered' = Answered
  BY <1>1, <1>2, FailedStep
<1>4. cpc[c] \in Inside
  BY DEF Moves
<1>5. QED
  BY <1>2, <1>3, <1>4, BringsStep

LEMMA WriteHeaderStep ==
    ASSUME ChannelInv, CallInv', NEW c \in Calls, WriteHeader(c)
    PROVE  ChannelInv' /\ ChannelStep
<1>1. /\ cpc[c] = "header" /\ BufWrite(<<HeaderPiece(c)>>)
      /\ bufErr' => Fail(c)
      /\ ~bufErr' => cpc' = [cpc EXCEPT ![c] = "payload"] /\ result' = result
  BY DEF WriteHeader, Goto
<1>2. CASE bufErr
  <2>1. bufErr' = bufErr /\ wire' = wire /\ net' = net
    BY <1>1, <1>2 DEF BufWrite
  <2>2. PICK x : Moves(c, x)
    BY <1>1, <1>2, <2>1, FailMoves
  <2>3. QED
    BY <1>2, <2>1, <2>2, AfterErrorStep
<1>3. CASE ~bufErr
  <2>1. \A d \in Calls : cpc[d] \notin {"payload", "flush"}
    BY <1>1 DEF ChannelInv, CallInv, Calling, Inside
  <2>2. buf = <<>> /\ Untouched(c) /\ BufCap \in Nat \ {0}
    BY <1>1, <1>3, <2>1, ConnAssumption DEF ChannelInv, Buffered
  <2>3. ~(Len(buf) + Len(<<HeaderPiece(c)>>) > BufCap)
    BY <2>2
  <2>4. buf' = buf \o <<HeaderPiece(c)>> /\ UNCHANGED <<bufErr, net, wire>>
    BY <1>1, <1>3, <2>3, Zenon DEF BufWrite
  <2>5. buf' = <<HeaderPiece(c)>>
    BY <2>2, <2>4
  <2>6. cpc' = [cpc EXCEPT ![c] = "payload"] /\ result' = result
    BY <1>1, <1>3, <2>4
  <2>7. Moves(c, "payload")
    BY <1>1, <2>6 DEF Moves, Inside
  <2>8. /\ Brings(c) /\ IsStream(wire')
        /\ \A i \in Arrived : i \in Arrived' /\ wire'[i] = wire[i]
    BY <2>4, UnchangedBrings
  <2>9. Answering' /\ Answered' = Answered
    BY <2>7, <2>8, MovesAnswering
  <2>10. Buffered'
    <3>1. /\ \A d \in Calls : d # c => cpc[d] \in {"start", "returned"} /\ cpc'[d] = cpc[d]
          /\ cpc'[c] = "payload"
      BY <1>1, <2>6, OthersWait DEF Inside
    <3>2. \A d \in Calls : cpc[d] \in {"start", "header"} => Untouched(d)'
      BY <1>3, <2>4 DEF ChannelInv, Buffered, Untouched
    <3>3. QED
      BY <1>1, <2>5, <3>1, <3>2 DEF Buffered
  <2>11. ChannelInv'
    BY <2>8, <2>9, <2>10 DEF ChannelInv, IsStream
  <2>12. cpc[c] \in Inside
    BY <1>1 DEF Inside
  <2>13. QED
    BY <2>8, <2>9, <2>11, <2>12, BringsStep
<1>4. QED
  BY <1>2, <1>3

LEMMA WritePayloadStep ==
    ASSUME ChannelInv, CallInv', NEW c \in Calls, WritePayload(c)
    PROVE  ChannelInv' /\ ChannelStep
<1> DEFINE ps == IF PayloadLength(c) = 0 THEN <<>> ELSE <<PayloadPiece(c)>>
<1>1. /\ cpc[c] = "payload" /\ cpc[c] \in Inside /\ BufWrite(ps)
      /\ bufErr' => Fail(c)
      /\ ~bufErr' => cpc' = [cpc EXCEPT ![c] = "flush"] /\ result' = result
  BY DEF WritePayload, Goto, Inside
<1> HIDE DEF ps
<1>2. CASE bufErr
  <2>1. bufErr' = bufErr /\ wire' = wire /\ net' = net
    BY <1>1, <1>2 DEF BufWrite
  <2>2. PICK x : Moves(c, x)
    BY <1>1, <1>2, <2>1, FailMoves
  <2>3. QED
    BY <1>2, <2>1, <2>2, AfterErrorStep
<1>3. CASE ~bufErr
  <2>1. buf = <<HeaderPiece(c)>> /\ Untouched(c) /\ Len(buf) = 1
    BY <1>1, <1>3 DEF ChannelInv, Buffered
  <2>2. \A d \in Calls : cpc[d] \in {"start", "header"} => Untouched(d)
    BY <1>3 DEF ChannelInv, Buffered
  <2>3. CASE buf' = buf \o ps /\ UNCHANGED <<bufErr, net, wire>>
    <3>1. buf' = Frame(c)
      <4>1. CASE PayloadLength(c) = 0
        BY <2>1, <2>3, <4>1 DEF ps, Frame
      <4>2. CASE PayloadLength(c) # 0
        <5>1. ASSUME NEW h, NEW p PROVE <<h>> \o <<p>> = <<h, p>>
          <6>1. /\ <<h>> \in Seq({h, p}) /\ <<p>> \in Seq({h, p}) /\ <<h, p>> \in Seq({h, p})
                /\ Len(<<h>>) = 1 /\ Len(<<p>>) = 1 /\ Len(<<h, p>>) = 2
            OBVIOUS
          <6>2. /\ <<h>> \o <<p>> \in Seq({h, p}) /\ Len(<<h>> \o <<p>>) = 2
                /\ (<<h>> \o <<p>>)[1] = h /\ (<<h>> \o <<p>>)[2] = p
            BY <6>1, ConcatProperties
          <6>3. \A i \in 1..2 : (<<h>> \o <<p>>)[i] = <<h, p>>[i]
            BY <6>2
          <6>4. QED
            BY <6>1, <6>2, <6>3, SeqEqual
        <5>2. QED
          BY <2>1, <2>3, <4>2, <5>1, Zenon DEF ps, Frame
      <4>3. QED
        BY <4>1, <4>2
    <3>2. cpc' = [cpc EXCEPT ![c] = "flush"] /\ result' = result
      BY <1>1, <1>3, <2>3
    <3>3. Moves(c, "flush")
      BY <1>1, <3>2 DEF Moves, Inside
    <3>4. /\ Brings(c) /\ IsStream(wire')
          /\ \A i \in Arrived : i \in Arrived' /\ wire'[i] = wire[i]
      BY <2>3, UnchangedBrings
    <3>5. Answering' /\ Answered' = Answered
      BY <3>3, <3>4, MovesAnswering
    <3>6. Buffered'
      <4>1. /\ \A d \in Calls : d # c => cpc[d] \in {"start", "returned"} /\ cpc'[d] = cpc[d]
            /\ cpc'[c] = "flush"
        BY <1>1, <3>2, OthersWait
      <4>2. /\ Untouched(c)'
            /\ \A d \in Calls : cpc[d] \in {"start", "header"} => Untouched(d)'
        BY <2>1, <2>2, <2>3 DEF Untouched
      <4>3. Frame(c)' = Frame(c)
        BY DEF Frame, PayloadLength, HeaderPiece, PayloadPiece
      <4>4. QED
        BY <3>1, <4>1, <4>2, <4>3 DEF Buffered
    <3>7. ChannelInv'
      BY <3>4, <3>5, <3>6 DEF ChannelInv, IsStream
    <3>8. QED
      BY <1>1, <3>4, <3>5, <3>7, BringsStep
  <2>4. CASE Len(buf) + Len(ps) > BufCap /\ NetWrite(buf) /\ buf' = IF bufErr' THEN buf ELSE ps
    <3>1. /\ IsStream(wire')
          /\ \A i \in Arrived : i \in Arrived' /\ wire'[i] = wire[i]
          /\ Brings(c)
      BY <1>1, <1>3, <2>4, NetWriteArrives DEF Brings
    <3>2. Sound
      BY <1>3 DEF ChannelInv, CallInv, Streaming
    <3>3. (bufErr' = bufErr /\ wire' = wire \o buf) \/ bufErr' = TRUE
      BY <1>3, <2>4, <3>2, NetWriteCuts
    <3>4. CASE bufErr' = TRUE
      <4>1. PICK x : Moves(c, x)
        BY <1>1, <3>4, FailMoves
      <4>2. ChannelInv' /\ Answered' = Answered
        BY <3>1, <3>4, <4>1, FailedStep
      <4>3. QED
        BY <1>1, <3>1, <4>2, BringsStep
    <3>5. CASE bufErr' = bufErr /\ wire' = wire \o buf
      <4>1. PayloadLength(c) # 0 /\ ps = <<PayloadPiece(c)>>
        <5>1. SUFFICES ASSUME PayloadLength(c) = 0 PROVE FALSE
          BY DEF ps
        <5>2. Len(ps) = 0 /\ BufCap \in Nat \ {0}
          BY <5>1, ConnAssumption DEF ps
        <5>3. QED
          BY <2>1, <2>4, <5>2
      <4>2. cpc' = [cpc EXCEPT ![c] = "flush"] /\ result' = result /\ buf' = <<PayloadPiece(c)>>
        BY <1>1, <1>3, <2>4, <3>5, <4>1
      <4>3. Moves(c, "flush")
        BY <1>1, <4>2 DEF Moves, Inside
      <4>4. Answering' /\ Answered' = Answered
        BY <3>1, <4>3, MovesAnswering
      <4>5. /\ Len(wire) \in Nat /\ DOMAIN wire = 1..Len(wire)
            /\ Len(wire') = Len(wire) + 1 /\ wire' # <<>> /\ DOMAIN wire' = 1..Len(wire')
            /\ \A i \in 1..Len(wire) : wire'[i] = wire[i]
            /\ wire'[Len(wire) + 1] = HeaderPiece(c)
        <5>1. wire \in Seq(WholePieces) /\ buf \in Seq(WholePieces)
          BY <3>2 DEF Sound
        <5>2. /\ wire' \in Seq(WholePieces)
              /\ Len(wire') = Len(wire) + 1
              /\ \A i \in 1..(Len(wire) + 1) :
                    wire'[i] = IF i <= Len(wire) THEN wire[i] ELSE buf[i - Len(wire)]
          BY <2>1, <3>5, <5>1, ConcatProperties
        <5>3. Len(wire) \in Nat /\ DOMAIN wire = 1..Len(wire)
          BY <5>1, LenProperties
        <5>4. QED
          BY <2>1, <5>2, <5>3, LenProperties, EmptySeq
      <4>6. Buffered'
        <5>1. /\ \A d \in Calls : d # c => cpc[d] \in {"start", "returned"} /\ cpc'[d] = cpc[d]
              /\ cpc'[c] = "flush"
          BY <1>1, <4>2, OthersWait
        <5>2. ASSUME NEW d \in Calls, d # c, cpc[d] = "start" PROVE Untouched(d)'
          <6>1. HeaderPiece(c).call # d /\ Untouched(d)
            BY <2>2, <5>2 DEF HeaderPiece
          <6>2. QED
            BY <4>5, <6>1 DEF Untouched
        <5>3. HeaderAhead(c)'
          <6>1. \A i \in 1..(Len(wire') - 1) : wire'[i].call # c
            BY <2>1, <4>5 DEF Untouched
          <6>2. wire'[Len(wire')] = HeaderPiece(c)
            BY <4>5
          <6>3. QED
            BY <4>1, <4>2, <4>5, <6>1, <6>2 DEF HeaderAhead, PayloadLength, HeaderPiece, PayloadPiece
        <5>4. QED
          BY <5>1, <5>2, <5>3 DEF Buffered
      <4>7. ChannelInv'
        BY <3>1, <4>4, <4>6 DEF ChannelInv, IsStream
      <4>8. QED
        BY <1>1, <3>1, <4>4, <4>7, BringsStep
    <3>6. QED
      BY <3>3, <3>4, <3>5
  <2>5. QED
    BY <1>1, <1>3, <2>3, <2>4 DEF BufWrite
<1>4. QED
  BY <1>2, <1>3

LEMMA FlushStep ==
    ASSUME ChannelInv, CallInv', NEW c \in Calls, Flush(c)
    PROVE  ChannelInv' /\ ChannelStep
<1> DEFINE r == IF bufErr' THEN "error" ELSE "nil"
           x == IF c = Closer THEN "closeNet" ELSE "unlock"
<1>1. /\ cpc[c] = "flush" /\ cpc[c] \in Inside /\ BufFlush
      /\ cpc' = [cpc EXCEPT ![c] = x]
      /\ result' = IF c = Closer THEN result ELSE [result EXCEPT ![c] = r]
  BY DEF Flush, Goto, Leave, Inside
<1>2. ASSUME \/ bufErr'
             \/ c \in Messages => \E i \in Arrived' : wire'[i].call = c
      PROVE  Moves(c, x)
  <2>1. x \in Inside /\ (x = "closeNet" <=> c = Closer) /\ (x = "unlock" <=> c # Closer)
    BY DEF Inside
  <2>2. r = "error" \/ (r = "nil" /\ (c \in Messages => \E i \in Arrived' : wire'[i].call = c))
    BY <1>2, Zenon
  <2> HIDE DEF x, r
  <2>3. QED
    BY <1>1, <2>1, <2>2 DEF Moves
<1> HIDE DEF x, r
<1>3. CASE bufErr
  <2>1. bufErr' = bufErr /\ wire' = wire /\ net' = net
    BY <1>1, <1>3 DEF BufFlush
  <2>2. Moves(c, x)
    BY <1>2, <1>3, <2>1
  <2>3. QED
    BY <1>3, <2>1, <2>2, AfterErrorStep
<1>4. CASE ~bufErr
  <2>1. (Untouched(c) /\ buf = Frame(c)) \/ HeaderAhead(c)
    BY <1>1, <1>4 DEF ChannelInv, Buffered
  <2>2. /\ buf # <<>>
        /\ \A i \in 1..Len(buf) : buf[i].call = c
    <3>1. CASE buf = <<HeaderPiece(c)>> \/ buf = <<PayloadPiece(c)>>
      BY <3>1 DEF HeaderPiece, PayloadPiece
    <3>2. CASE buf = <<HeaderPiece(c), PayloadPiece(c)>>
      BY <3>2 DEF HeaderPiece, PayloadPiece
    <3>3. QED
      BY <2>1, <3>1, <3>2 DEF Frame, HeaderAhead
  <2>3. NetWrite(buf) /\ buf' = IF bufErr' THEN buf ELSE <<>>
    BY <1>1, <1>4, <2>2 DEF BufFlush
  <2>4. /\ IsStream(wire')
        /\ \A i \in Arrived : i \in Arrived' /\ wire'[i] = wire[i]
        /\ Brings(c)
        /\ ~bufErr' /\ c \in Messages => \E i \in Arrived' : wire'[i].call = c
    BY <1>1, <1>4, <2>3, NetWriteArrives DEF Brings
  <2>5. Sound
    BY <1>4 DEF ChannelInv, CallInv, Streaming
  <2>6. (bufErr' = bufErr /\ wire' = wire \o buf) \/ bufErr' = TRUE
    BY <1>4, <2>3, <2>5, NetWriteCuts
  <2>7. Moves(c, x)
    BY <1>2, <2>4
  <2>8. CASE bufErr' = TRUE
    <3>1. ChannelInv' /\ Answered' = Answered
      BY <2>4, <2>7, <2>8, FailedStep
    <3>2. QED
      BY <1>1, <2>4, <3>1, BringsStep
  <2>9. CASE bufErr' = bufErr /\ wire' = wire \o buf
    <3>1. Answering' /\ Answered' = Answered
      BY <2>4, <2>7, MovesAnswering
    <3>2. buf' = <<>>
      BY <1>4, <2>3, <2>9
    <3>3. /\ wire' \in Seq(WholePieces)
          /\ Len(wire') = Len(wire) + Len(buf)
          /\ \A i \in 1..(Len(wire) + Len(buf)) :
                wire'[i] = IF i <= Len(wire) THEN wire[i] ELSE buf[i - Len(wire)]
      BY <2>5, <2>9, ConcatProperties DEF Sound
    <3>4. /\ Len(wire) \in Nat /\ DOMAIN wire = 1..Len(wire) /\ Len(buf) \in Nat
          /\ DOMAIN wire' = 1..Len(wire')
      BY <2>5, <3>3, LenProperties DEF Sound
    <3>5. Buffered'
      <4>1. /\ \A d \in Calls : d # c => cpc[d] \in {"start", "returned"} /\ cpc'[d] = cpc[d]
            /\ cpc'[c] \in {"closeNet", "unlock"}
        BY <1>1, OthersWait DEF x
      <4>2. ASSUME NEW d \in Calls, d # c, cpc[d] = "start" PROVE Untouched(d)'
        <5>1. Untouched(d)
          BY <1>4, <4>2 DEF ChannelInv, Buffered
        <5>2. ASSUME NEW i \in 1..Len(wire') PROVE wire'[i].call # d
          <6>1. CASE i <= Len(wire)
            BY <3>3, <3>4, <5>1, <6>1 DEF Untouched
          <6>2. CASE i > Len(wire)
            <7>1. i - Len(wire) \in 1..Len(buf) /\ wire'[i] = buf[i - Len(wire)]
              BY <3>3, <3>4, <6>2
            <7>2. QED
              BY <2>2, <4>2, <7>1
          <6>3. QED
            BY <3>4, <6>1, <6>2
        <5>3. QED
          BY <3>4, <5>2 DEF Untouched
      <4>3. QED
        BY <3>2, <4>1, <4>2 DEF Buffered
    <3>6. ChannelInv'
      BY <2>4, <3>1, <3>5 DEF ChannelInv, IsStream
    <3>7. QED
      BY <1>1, <2>4, <3>1, <3>6, BringsStep
  <2>10. QED
    BY <2>6, <2>8, <2>9
<1>5. QED
  BY <1>3, <1>4

\* A step that leaves the buffer and the wire alone, of a call that is not
\* writing a frame.
LEMMA QuietBuffered ==
    ASSUME ChannelInv, UNCHANGED <<buf, bufErr, wire>>, NEW c \in Calls,
           cpc[c] \notin {"payload", "flush"}, NEW x, x \notin {"payload", "flush"},
           x \in {"start", "header"} => cpc[c] \in {"start", "header"},
           cpc' = [cpc EXCEPT ![c] = x]
    PROVE  Buffered' /\ IsStream(wire)'
<1>1. \A d \in Calls : cpc'[d] = IF d = c THEN x ELSE cpc[d]
  BY DEF ChannelInv, CallInv, Calling
<1>2. \A d \in Calls : Untouched(d)' = Untouched(d) /\ HeaderAhead(d)' = HeaderAhead(d)
                       /\ Frame(d)' = Frame(d)
  BY DEF Untouched, HeaderAhead, Frame, PayloadLength, HeaderPiece, PayloadPiece
<1>3. CASE bufErr
  BY <1>3 DEF Buffered, ChannelInv, IsStream
<1>4. CASE ~bufErr
  <2>1. /\ \A d \in Calls : cpc'[d] \in {"start", "header"} => cpc[d] \in {"start", "header"}
        /\ \A d \in Calls : cpc'[d] \in {"payload", "flush"} => cpc'[d] = cpc[d]
        /\ \A d \in Calls : cpc[d] \in {"payload", "flush"} => cpc'[d] = cpc[d]
    BY <1>1
  <2>2. QED
    BY <1>2, <1>4, <2>1 DEF Buffered, ChannelInv, IsStream
<1>5. QED
  BY <1>3, <1>4

LEMMA LockStep ==
    ASSUME ChannelInv, CallInv', NEW c \in Calls, Lock(c)
    PROVE  ChannelInv' /\ ChannelStep
<1>1. /\ cpc[c] = "start" /\ cpc' = [cpc EXCEPT ![c] = "header"]
      /\ UNCHANGED <<buf, bufErr, net, wire, result>>
  BY DEF Lock, Goto
<1>2. \A d \in Calls : cpc'[d] = IF d = c THEN "header" ELSE cpc[d]
  BY <1>1 DEF ChannelInv, CallInv, Calling
<1>3. Buffered' /\ IsStream(wire)'
  BY <1>1, QuietBuffered
<1>4. Arrived' = Arrived /\ WholeMessages' = WholeMessages
  BY <1>1, SameWire
<1>5. \A m \in Messages : (cpc'[m] = "returned" <=> cpc[m] = "returned")
  BY <1>1, <1>2, MessagesAreCalls
<1>6. Answering'
  <2>1. \A d \in Calls : cpc'[d] \in {"unlock", "returned"} <=> cpc[d] \in {"unlock", "returned"}
    BY <1>1, <1>2
  <2>2. \A m \in Messages : cpc'[m] # "closeNet"
    BY <1>2, MessagesAreCalls DEF ChannelInv, Answering
  <2>3. QED
    BY <1>1, <1>4, <2>1, <2>2 DEF ChannelInv, Answering
<1>7. Answered' = Answered
  BY <1>1, <1>5 DEF Answered
<1>8. QED
  BY <1>1, <1>3, <1>4, <1>6, <1>7 DEF ChannelInv, ChannelStep

LEMMA CloseNetStep ==
    ASSUME ChannelInv, CallInv', NEW c \in Calls, CloseNet(c)
    PROVE  ChannelInv' /\ ChannelStep
<1>1. /\ cpc[c] = "closeNet" /\ cpc' = [cpc EXCEPT ![c] = "unlock"] /\ net' = "closed"
      /\ UNCHANGED <<buf, bufErr, wire>>
      /\ result' = [result EXCEPT ![c] = "nil"] \/ result' = [result EXCEPT ![c] = "error"]
  BY DEF CloseNet, Leave, Goto
<1>2. c \notin Messages /\ c = Closer
  BY <1>1 DEF ChannelInv, Answering, Calls
<1>3. Buffered' /\ IsStream(wire)'
  BY <1>1, QuietBuffered
<1>4. Arrived' = Arrived /\ WholeMessages' = WholeMessages
  BY <1>1, SameWire
<1>5. Moves(c, "unlock")
  BY <1>1, <1>2 DEF Moves, Inside
<1>6. Answering' /\ Answered' = Answered
  BY <1>1, <1>4, <1>5, MovesAnswering
<1>7. Channel!Close
  BY <1>1, <1>4, <1>6 DEF Channel!Close, Answered
<1>8. QED
  BY <1>3, <1>6, <1>7 DEF ChannelInv, ChannelStep, Channel!Next

LEMMA UnlockStep ==
    ASSUME ChannelInv, CallInv', NEW c \in Calls, Unlock(c)
    PROVE  ChannelInv' /\ ChannelStep
<1>1. /\ cpc[c] = "unlock" /\ cpc' = [cpc EXCEPT ![c] = "returned"]
      /\ UNCHANGED <<buf, bufErr, net, wire, result>>
  BY DEF Unlock, Goto
<1>2. \A d \in Calls : cpc'[d] = IF d = c THEN "returned" ELSE cpc[d]
  BY <1>1 DEF ChannelInv, CallInv, Calling
<1>3. Buffered' /\ IsStream(wire)'
  BY <1>1, QuietBuffered
<1>4. Arrived' = Arrived /\ WholeMessages' = WholeMessages
  BY <1>1, SameWire
<1>5. Answering'
  <2>1. \A d \in Calls : cpc'[d] \in {"unlock", "returned"} <=> cpc[d] \in {"unlock", "returned"}
    BY <1>1, <1>2
  <2>2. \A m \in Messages : cpc'[m] # "closeNet"
    BY <1>2, MessagesAreCalls DEF ChannelInv, Answering
  <2>3. QED
    BY <1>1, <1>4, <2>1, <2>2 DEF ChannelInv, Answering
<1>6. ChannelStep
  <2>1. CASE c \notin Messages
    <3>1. \A m \in Messages : cpc'[m] = cpc[m]
      BY <1>2, <2>1, MessagesAreCalls
    <3>2. Answered' = Answered
      BY <1>1, <3>1 DEF Answered
    <3>3. QED
      BY <1>1, <1>4, <3>2 DEF ChannelStep
  <2>2. CASE c \in Messages
    <3>1. Answered[c] = "pending" /\ Answered \in [Messages -> {"pending", "nil", "error"}]
      BY <1>1, <2>2, MessagesAreCalls DEF Answered, ChannelInv, Answering
    <3>2. Answered' = [Answered EXCEPT ![c] = result[c]]
      <4>1. Answered' = [m \in Messages |-> IF m = c THEN result[c] ELSE Answered[m]]
        BY <1>1, <1>2, MessagesAreCalls DEF Answered
      <4>2. QED
        BY <2>2, <3>1, <4>1 DEF Answered
    <3>3. result[c] \in {"nil", "error"}
      BY <1>1 DEF ChannelInv, Answering
    <3>4. CASE result[c] = "nil"
      <4>1. Channel!InSent(c)
        BY <2>2, <3>4, InSentIsArrived DEF ChannelInv, Answering
      <4>2. Channel!ReturnNil(c)
        BY <1>1, <1>4, <3>1, <3>2, <3>4, <4>1 DEF Channel!ReturnNil, Answered
      <4>3. QED
        BY <2>2, <4>2 DEF ChannelStep, Channel!Next
    <3>5. CASE result[c] = "error"
      <4>1. Channel!ReturnError(c)
        BY <1>1, <1>4, <3>1, <3>2, <3>5 DEF Channel!ReturnError, Answered
      <4>2. QED
        BY <2>2, <4>1 DEF ChannelStep, Channel!Next
    <3>6. QED
      BY <3>3, <3>4, <3>5
  <2>3. QED
    BY <2>1, <2>2
<1>7. QED
  BY <1>3, <1>5, <1>6 DEF ChannelInv

LEMMA StutterStep ==
    ASSUME ChannelInv, CallInv', UNCHANGED vars
    PROVE  ChannelInv' /\ ChannelStep
<1>1. UNCHANGED <<cpc, buf, bufErr, net, wire, result>>
  BY DEF vars
<1>2. Arrived' = Arrived /\ WholeMessages' = WholeMessages
  BY <1>1, SameWire
<1>3. Answered' = Answered
  BY <1>1 DEF Answered
<1>4. IsStream(wire)'
  BY <1>1 DEF IsStream, ChannelInv
<1>5. Answering'
  BY <1>1, <1>2 DEF Answering, ChannelInv
<1>6. Buffered'
  <2>1. \A d \in Calls : Untouched(d)' = Untouched(d) /\ HeaderAhead(d)' = HeaderAhead(d)
                         /\ Frame(d)' = Frame(d)
    BY <1>1 DEF Untouched, HeaderAhead, Frame, PayloadLength, HeaderPiece, PayloadPiece
  <2>2. CASE bufErr
    BY <1>1, <2>2 DEF Buffered
  <2>3. CASE ~bufErr
    BY <1>1, <2>1, <2>3 DEF Buffered, ChannelInv
  <2>4. QED
    BY <2>2, <2>3
<1>7. QED
  BY <1>1, <1>2, <1>3, <1>4, <1>5, <1>6 DEF ChannelInv, ChannelStep

LEMMA NextChannel == ChannelInv /\ [Next]_vars => ChannelInv' /\ ChannelStep
<1> SUFFICES ASSUME ChannelInv, [Next]_vars PROVE ChannelInv' /\ ChannelStep
  OBVIOUS
<1>1. CallInv'
  BY NextCalls DEF ChannelInv
<1>2. \/ \E c \in Calls : \/ Lock(c) \/ WriteHeader(c) \/ WritePayload(c) \/ Flush(c)
                          \/ CloseNet(c) \/ Unlock(c)
      \/ UNCHANGED vars
  BY DEF Next, AllReturned
<1>3. QED
  BY <1>1, <1>2, LockStep, WriteHeaderStep, WritePayloadStep, FlushStep, CloseNetStep,
     UnlockStep, StutterStep

LEMMA InitChannel == Init => ChannelInv /\ Channel!Init
<1> SUFFICES ASSUME Init PROVE ChannelInv /\ Channel!Init
  OBVIOUS
<1>1. CallInv
  BY InitCalls
<1>2. /\ wire = <<>> /\ buf = <<>> /\ net = "open"
      /\ cpc = [c \in Calls |-> "start"] /\ result = [c \in Calls |-> "pending"]
  BY DEF Init
<1>3. IsStream(wire)
  BY <1>2 DEF IsStream
<1>4. Buffered
  BY <1>2 DEF Buffered, Untouched
<1>5. Answering
  BY <1>2, MessagesAreCalls DEF Answering
<1>6. WholeMessages = <<>>
  <2>1. Starts(wire) = {}
    BY <1>2 DEF Starts
  <2>2. Len(Sent(wire)) = 0 /\ Sent(wire) \in Seq(Messages)
    BY <1>3, <2>1, SentMembers, FS_EmptySet
  <2>3. QED
    BY <2>2, EmptySeq, StartsIsArrived
<1>7. Answered = [m \in Messages |-> "pending"]
  BY <1>2, MessagesAreCalls DEF Answered
<1>8. Channel!Init
  BY <1>2, <1>6, <1>7 DEF Channel!Init, Answered
<1>9. QED
  BY <1>1, <1>3, <1>4, <1>5, <1>8 DEF ChannelInv

LEMMA ServerChannel ==
    ChannelInv /\ [ServerNext]_serverVars => ChannelInv' /\ [Channel!Next]_(Channel!vars)
<1> SUFFICES ASSUME ChannelInv, [ServerNext]_serverVars
             PROVE  ChannelInv' /\ [Channel!Next]_(Channel!vars)
  OBVIOUS
<1>1. [Next]_vars
  BY DEF ServerNext, handleWebSocket, handleFile, ConnectionNext, Upgrading, Talking,
         serverVars, connectionVars
<1>2. ChannelInv' /\ ChannelStep
  BY <1>1, NextChannel
<1>3. QED
  BY <1>2 DEF ChannelStep, Channel!vars, Answered

\* While nothing fails, the buffer and the end of the wire hold exactly the one
\* frame under way; a call has nil only if its message has arrived.
THEOREM ChannelInvariance == ServerSpec => []ChannelInv
<1>1. ServerInit => ChannelInv
  BY InitChannel DEF ServerInit, ConnectionInit
<1>2. QED
  BY <1>1, ServerChannel, PTL DEF ServerSpec

\* Conn implements FrameChannel: each message reaches the client as one whole
\* frame or not at all, a nil result means that it did, and nothing follows
\* the close.
THEOREM ConnImplementsChannel == ServerSpec => KeepsChannel
<1>1. ServerInit => Channel!Init
  BY InitChannel DEF ServerInit, ConnectionInit
<1>2. QED
  BY <1>1, ServerChannel, ChannelInvariance, PTL DEF ServerSpec, KeepsChannel, Channel!Spec

-----------------------------------------------------------------------------
(* The length in the header.                                               *)

LEMMA Quotients ==
    ASSUME NEW n \in Nat
    PROVE  \E q \in Nat, r \in 0..255 :
              q = n \div 256 /\ r = n % 256 /\ n = 256 * q + r
<1>1. n \div 256 \in Nat /\ n % 256 \in 0..255
  OBVIOUS
<1>2. PICK q \in Nat, r \in 0..255 : q = n \div 256 /\ r = n % 256
  BY <1>1
<1>3. n = 256 * q + r
  BY <1>2, SMT
<1>4. QED
  BY <1>2, <1>3

\* Two bytes hold a length below 2^16.
LEMMA TwoBytes ==
    ASSUME NEW n \in Nat, n < 256 * 256
    PROVE  Byte(n, 256) * 256 + Byte(n, 1) = n
<1>1. PICK q \in Nat, r \in 0..255 : q = n \div 256 /\ r = n % 256 /\ n = 256 * q + r
  BY Quotients
<1>2. q < 256
  BY <1>1
<1>3. q % 256 = q /\ n \div 1 = n
  BY <1>2
<1>4. Byte(n, 256) = q /\ Byte(n, 1) = r
  BY <1>1, <1>3 DEF Byte
<1>5. q * 256 + r = n
  BY <1>1
<1>6. QED
  BY <1>4, <1>5

\* The number that BE32 writes.
Low(n) == ((Byte(n, 256 * 256 * 256) * 256 + Byte(n, 256 * 256)) * 256 + Byte(n, 256)) * 256
          + Byte(n, 1)

\* Four bytes hold what High leaves out.
LEMMA FourBytes ==
    ASSUME NEW n \in Nat
    PROVE  n = High(n) * 65536 * 65536 + Low(n)
<1>1. PICK q1 \in Nat, r1 \in 0..255 : q1 = n \div 256 /\ r1 = n % 256 /\ n = 256 * q1 + r1
  BY Quotients
<1>2. PICK q2 \in Nat, r2 \in 0..255 : q2 = q1 \div 256 /\ r2 = q1 % 256 /\ q1 = 256 * q2 + r2
  BY Quotients
<1>3. PICK q3 \in Nat, r3 \in 0..255 : q3 = q2 \div 256 /\ r3 = q2 % 256 /\ q2 = 256 * q3 + r3
  BY Quotients
<1>4. PICK q4 \in Nat, r4 \in 0..255 : q4 = q3 \div 256 /\ r4 = q3 % 256 /\ q3 = 256 * q4 + r4
  BY Quotients
<1>5. n \div (256 * 256) = q2 /\ n \div 65536 = q2
  BY <1>1, <1>2, SMT
<1>6. n \div (256 * 256 * 256) = q3
  BY <1>1, <1>2, <1>3, SMT
<1>7. High(n) = q4
  <2>1. q2 \div 65536 = q4
    BY <1>3, <1>4, SMT
  <2>2. QED
    BY <1>5, <2>1 DEF High
<1>8. n \div 1 = n
  OBVIOUS
<1>9. /\ Byte(n, 256 * 256 * 256) = r4 /\ Byte(n, 256 * 256) = r3
      /\ Byte(n, 256) = r2 /\ Byte(n, 1) = r1
  BY <1>1, <1>2, <1>3, <1>4, <1>5, <1>6, <1>8 DEF Byte
<1>10. Low(n) = ((r4 * 256 + r3) * 256 + r2) * 256 + r1
  BY <1>9 DEF Low
<1>11. n = q4 * 65536 * 65536 + (((r4 * 256 + r3) * 256 + r2) * 256 + r1)
  BY <1>1, <1>2, <1>3, <1>4
<1>12. QED
  BY <1>7, <1>10, <1>11

\* Eight bytes hold a length of 63 bits.
LEMMA EightBytes ==
    ASSUME NEW n \in Nat, High(n) \div 65536 < 32768
    PROVE  n = Low(High(n)) * 65536 * 65536 + Low(n)
<1> DEFINE h == High(n)
<1>1. h \in Nat
  BY DEF High
<1>2. h \div 65536 \in Nat /\ h \div 65536 < 32768
  BY <1>1
<1>3. High(h) = 0
  <2> HIDE DEF h
  <2>1. ASSUME NEW k \in Nat, k < 32768 PROVE k \div 65536 = 0
    BY <2>1
  <2>2. QED
    BY <1>2, <2>1 DEF High
<1>4. Low(h) \in Nat
  <2> HIDE DEF h
  <2>1. ASSUME NEW w \in {256 * 256 * 256, 256 * 256, 256, 1} PROVE Byte(h, w) \in Nat
    BY <1>1, <2>1 DEF Byte
  <2>2. QED
    BY <2>1 DEF Low
<1>5. h = Low(h)
  <2> HIDE DEF h
  <2>1. h = High(h) * 65536 * 65536 + Low(h)
    BY <1>1, FourBytes
  <2>2. QED
    BY <1>3, <1>4, <2>1
<1>6. n = h * 65536 * 65536 + Low(n)
  BY FourBytes
<1>7. QED
  BY <1>5, <1>6

\* The header that writeFrame builds is the shortest that RFC 6455 allows for
\* the payload's length, and is read as that length.
LEMMA HeaderIsRead ==
    ASSUME NEW c \in Calls
    PROVE  /\ Len(Header(c)) = HeaderSize(PayloadLength(c))
           /\ LengthRead(Header(c)) = PayloadLength(c)
<1> DEFINE l == PayloadLength(c)
<1>1. l \in Nat /\ High(l) \div 65536 < 32768
  <2>1. High(0) \div 65536 < 32768
    BY DEF High
  <2>2. QED
    BY <2>1, LengthAssumption DEF PayloadLength, Calls
<1>2. CASE l < 126
  <2>1. Header(c) = <<OpByte(c)>> \o <<l>>
    BY <1>2 DEF Header
  <2> HIDE DEF l
  <2>2. Len(Header(c)) = 2 /\ Header(c)[2] = l
    BY <2>1
  <2>3. HeaderSize(l) = 2
    BY <1>1, <1>2 DEF HeaderSize
  <2>4. LengthRead(Header(c)) = l
    BY <1>2, <2>2 DEF LengthRead
  <2>5. QED
    BY <2>2, <2>3, <2>4 DEF l
<1>3. CASE ~(l < 126) /\ l < 256 * 256
  <2>1. Header(c) = <<OpByte(c)>> \o (<<126>> \o BE16(l))
    BY <1>3 DEF Header
  <2> HIDE DEF l
  <2>2. /\ Len(Header(c)) = 4
        /\ Header(c)[2] = 126 /\ Header(c)[3] = Byte(l, 256) /\ Header(c)[4] = Byte(l, 1)
    BY <2>1 DEF BE16
  <2>3. HeaderSize(l) = 4
    BY <1>1, <1>3 DEF HeaderSize
  <2>4. LengthRead(Header(c)) = Byte(l, 256) * 256 + Byte(l, 1)
    BY <2>2 DEF LengthRead
  <2>5. QED
    BY <1>1, <1>3, <2>2, <2>3, <2>4, TwoBytes DEF l
<1>4. CASE ~(l < 126) /\ ~(l < 256 * 256)
  <2>1. Header(c) = <<OpByte(c)>> \o (<<127>> \o BE64(l))
    BY <1>4 DEF Header
  <2> HIDE DEF l
  <2>2. /\ Len(Header(c)) = 10
        /\ Header(c)[2] = 127
        /\ \A i \in 1..8 : Header(c)[i + 2] = BE64(l)[i]
    BY <2>1 DEF BE64, BE32
  <2>3. HeaderSize(l) = 10
    BY <1>1, <1>4 DEF HeaderSize
  <2>4. Word(Header(c), 3) = Low(High(l)) /\ Word(Header(c), 7) = Low(l)
    <3>1. \A i \in 1..4 : Header(c)[i + 2] = BE32(High(l))[i] /\ Header(c)[i + 6] = BE32(l)[i]
      BY <2>2 DEF BE64, BE32
    <3>2. QED
      BY <3>1 DEF Word, Low, BE32
  <2>5. LengthRead(Header(c)) = Low(High(l)) * 65536 * 65536 + Low(l)
    BY <2>2, <2>4 DEF LengthRead
  <2>6. QED
    BY <1>1, <2>2, <2>3, <2>5, EightBytes DEF l
<1>5. QED
  BY <1>2, <1>3, <1>4

\* Whole or torn, a piece on the wire is from the frame of its call.
Genuine(w) ==
    \A i \in DOMAIN w : w[i].call \in Calls /\ (w[i].part = "header" => w[i].bytes = Header(w[i].call))

\* Only a write of the buffer, before any has failed, adds to the wire.
LEMMA WireSteps ==
    ASSUME [Next]_vars
    PROVE  wire' = wire \/ (~bufErr /\ NetWrite(buf))
<1>1. ASSUME NEW ps, BufWrite(ps) PROVE wire' = wire \/ (~bufErr /\ NetWrite(buf))
  BY <1>1, Zenon DEF BufWrite
<1>2. ASSUME BufFlush PROVE wire' = wire \/ (~bufErr /\ NetWrite(buf))
  BY <1>2, Zenon DEF BufFlush
<1>3. CASE UNCHANGED vars
  BY <1>3 DEF vars
<1>4. ASSUME NEW c \in Calls, Lock(c) \/ CloseNet(c) \/ Unlock(c) PROVE wire' = wire
  BY <1>4 DEF Lock, CloseNet, Unlock
<1>5. ASSUME NEW c \in Calls, WriteHeader(c) \/ WritePayload(c) \/ Flush(c)
      PROVE  wire' = wire \/ (~bufErr /\ NetWrite(buf))
  BY <1>1, <1>2, <1>5, Zenon DEF WriteHeader, WritePayload, Flush
<1>6. QED
  BY <1>3, <1>4, <1>5 DEF Next, AllReturned

LEMMA NextGenuine == CallInv /\ Genuine(wire) /\ [Next]_vars => Genuine(wire')
<1> SUFFICES ASSUME CallInv, Genuine(wire), [Next]_vars PROVE Genuine(wire')
  OBVIOUS
<1>1. CASE wire' = wire
  BY <1>1
<1>2. CASE ~bufErr /\ NetWrite(buf)
  <2> DEFINE s == wire \o buf
  <2>1. Sound
    BY <1>2 DEF CallInv, Streaming
  <2>2. s \in Seq(WholePieces) /\ Cuts(wire', s, Len(wire))
    BY <1>2, <2>1, NetWriteCuts, ConcatProperties DEF Sound
  <2> HIDE DEF s
  <2>3. PICK n \in Len(wire)..Len(s) :
           /\ DOMAIN wire' = 1..n
           /\ \A i \in 1..n : wire'[i] = s[i] \/ wire'[i] = [s[i] EXCEPT !.whole = FALSE]
    BY <2>2 DEF Cuts
  <2>4. ASSUME NEW i \in 1..n
        PROVE  /\ wire'[i].call \in Calls
               /\ wire'[i].part = "header" => wire'[i].bytes = Header(wire'[i].call)
    <3>1. s[i] \in WholePieces
      <4>1. Len(wire) \in Nat /\ Len(s) \in Nat
        BY <2>1, <2>2, LenProperties DEF Sound
      <4>2. QED
        BY <2>2, <4>1, ElementOfSeq
    <3>2. /\ s[i].call \in Calls
          /\ s[i].part = "header" => s[i].bytes = Header(s[i].call)
      BY <3>1 DEF WholePieces, HeaderPiece, PayloadPiece
    <3>3. LET t == [s[i] EXCEPT !.whole = FALSE]
          IN  t.call = s[i].call /\ t.part = s[i].part /\ t.bytes = s[i].bytes
      BY <3>1 DEF WholePieces, HeaderPiece, PayloadPiece
    <3>4. QED
      BY <2>3, <3>2, <3>3
  <2>5. QED
    BY <2>3, <2>4 DEF Genuine
<1>3. QED
  BY <1>1, <1>2, WireSteps

\* What reaches the client was sent by one of the calls, as its frame has it.
LEMMA GenuineWire == ServerSpec => []Genuine(wire)
<1>1. ServerInit => Genuine(wire)
  BY DEF ServerInit, ConnectionInit, Init, Genuine
<1>2. CallInv /\ Genuine(wire) /\ [ServerNext]_serverVars => Genuine(wire)'
  <2>h. ASSUME NEW CONSTANT c PROVE Header(c)' = Header(c)
    BY DEF Header, OpByte, PayloadLength, BE16, BE32, BE64, High, Byte
  <2> SUFFICES ASSUME CallInv, Genuine(wire), [ServerNext]_serverVars PROVE Genuine(wire')
    BY <2>h DEF Genuine
  <2>1. [Next]_vars
    BY DEF ServerNext, handleWebSocket, handleFile, ConnectionNext, Upgrading, Talking,
           serverVars, connectionVars
  <2>2. QED
    BY <2>1, NextGenuine
<1>3. QED
  BY <1>1, <1>2, ConnectionInvariance, PTL DEF ServerSpec

\* Every header that reaches the client, torn or not, tells the length of the
\* payload behind it in the shortest of the three forms.
THEOREM HeadersTellLengths == ServerSpec => []HeaderTellsLength
<1>1. Genuine(wire) => HeaderTellsLength
  <2> SUFFICES ASSUME Genuine(wire), NEW i \in DOMAIN wire, wire[i].part = "header"
               PROVE  /\ Len(wire[i].bytes) = HeaderSize(PayloadLength(wire[i].call))
                      /\ LengthRead(wire[i].bytes) = PayloadLength(wire[i].call)
    BY DEF HeaderTellsLength
  <2>1. wire[i].call \in Calls /\ wire[i].bytes = Header(wire[i].call)
    BY DEF Genuine
  <2>2. QED
    BY <2>1, HeaderIsRead
<1>2. QED
  BY <1>1, GenuineWire, PTL
=============================================================================
