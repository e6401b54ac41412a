---------------------------- MODULE ServerProofs ----------------------------
(***************************************************************************)
(* Theorems about the connections of Server, for every set of calls,       *)
(* every length of their messages, every size of the buffer and every      *)
(* moment at which the network breaks.                                     *)
(***************************************************************************)
EXTENDS Server, SequenceTheorems, TLAPS

-----------------------------------------------------------------------------
(* Frames in a stream.                                                     *)

WholePieces == {HeaderPiece(c) : c \in Calls} \cup {PayloadPiece(c) : c \in Calls}

LEMMA PieceFields ==
    ASSUME NEW p \in WholePieces
    PROVE  /\ p.call \in Calls
           /\ p.whole = TRUE
           /\ p.part \in {"header", "payload"}
           /\ p.part = "header" => p = HeaderPiece(p.call)
           /\ LET t == [p EXCEPT !.whole = FALSE]
              IN  t.call = p.call /\ t.part = p.part
  BY DEF WholePieces, HeaderPiece, PayloadPiece

\* Each header is followed by its payload, but for the last one.
InFrames(s) ==
    /\ \A i \in 1..Len(s) : s[i].part = "payload" => i > 1 /\ s[i - 1] = HeaderPiece(s[i].call)
    /\ \A i \in 1..(Len(s) - 1) :
          s[i].part = "header" => PayloadLength(s[i].call) = 0 \/ s[i + 1].part = "payload"

\* The last header waits for its payload.
Waits(s, c) == s # <<>> /\ s[Len(s)] = HeaderPiece(c) /\ PayloadLength(c) # 0

\* What FramesUnmixed says of the wire, for any sequence.
Unmixed(w) ==
    \A i \in DOMAIN w :
        /\ w[i].part = "payload" => i > 1 /\ w[i - 1] = HeaderPiece(w[i].call)
        /\ i < Len(w) => w[i].whole
        /\ i < Len(w) /\ w[i].part = "header"
             => PayloadLength(w[i].call) = 0 \/ w[i + 1].part = "payload"

LEMMA UnmixedIsFramesUnmixed == Unmixed(wire) <=> FramesUnmixed
  BY DEF Unmixed, FramesUnmixed, EndOfFrame

\* w is the stream s, cut off somewhere after its first k pieces, perhaps within
\* a piece.
Cuts(w, s, k) ==
    \E n \in k..Len(s) :
        /\ DOMAIN w = 1..n
        /\ Len(w) = n
        /\ \A i \in 1..n :
              w[i] = s[i] \/ (i = n /\ i > k /\ w[i] = [s[i] EXCEPT !.whole = FALSE])

\* A stream of frames that is cut off is unmixed.
LEMMA CutIsUnmixed ==
    ASSUME NEW s \in Seq(WholePieces), InFrames(s), NEW k \in Nat, NEW w, Cuts(w, s, k)
    PROVE  Unmixed(w)
<1>0. PICK n \in k..Len(s) :
         /\ DOMAIN w = 1..n
         /\ Len(w) = n
         /\ \A i \in 1..n : w[i] = s[i] \/ (i = n /\ w[i] = [s[i] EXCEPT !.whole = FALSE])
  BY DEF Cuts
<1> SUFFICES ASSUME NEW i \in 1..n
             PROVE  /\ w[i].part = "payload" => i > 1 /\ w[i - 1] = HeaderPiece(w[i].call)
                    /\ i < n => w[i].whole
                    /\ i < n /\ w[i].part = "header"
                         => PayloadLength(w[i].call) = 0 \/ w[i + 1].part = "payload"
  BY <1>0 DEF Unmixed
<1>1. Len(s) \in Nat /\ \A j \in 1..n : s[j] \in WholePieces /\ j \in 1..Len(s)
  BY LenProperties, ElementOfSeq
<1>2. \A j \in 1..n : w[j].part = s[j].part /\ w[j].call = s[j].call
  BY <1>0, <1>1, PieceFields
<1>3. \A j \in 1..n : j < n => w[j] = s[j] /\ w[j].whole
  <2> SUFFICES ASSUME NEW j \in 1..n, j < n PROVE w[j] = s[j] /\ w[j].whole
    OBVIOUS
  <2>1. w[j] = s[j]
    BY <1>0
  <2>2. s[j].whole = TRUE
    BY <1>1, PieceFields
  <2>3. QED
    BY <2>1, <2>2, Zenon
<1>4. w[i].part = "payload" => i > 1 /\ w[i - 1] = HeaderPiece(w[i].call)
  <2> SUFFICES ASSUME w[i].part = "payload" PROVE i > 1 /\ w[i - 1] = HeaderPiece(w[i].call)
    OBVIOUS
  <2>1. i > 1 /\ s[i - 1] = HeaderPiece(s[i].call)
    BY <1>1, <1>2 DEF InFrames
  <2>2. QED
    BY <2>1, <1>2, <1>3
<1>5. i < n /\ w[i].part = "header" => PayloadLength(w[i].call) = 0 \/ w[i + 1].part = "payload"
  <2> SUFFICES ASSUME i < n, w[i].part = "header"
               PROVE  PayloadLength(w[i].call) = 0 \/ w[i + 1].part = "payload"
    OBVIOUS
  <2>1. i \in 1..(Len(s) - 1) /\ i + 1 \in 1..n
    BY <1>1
  <2>2. QED
    BY <2>1, <1>2 DEF InFrames
<1>6. QED
  BY <1>3, <1>4, <1>5

LEMMA StreamIsUnmixed ==
    ASSUME NEW s \in Seq(WholePieces), NEW t \in Seq(WholePieces), InFrames(s \o t)
    PROVE  Unmixed(s)
<1>1. /\ s \o t \in Seq(WholePieces)
      /\ Len(s \o t) = Len(s) + Len(t)
      /\ \A i \in 1..(Len(s) + Len(t)) : (s \o t)[i] = IF i <= Len(s) THEN s[i] ELSE t[i - Len(s)]
  BY ConcatProperties
<1>2. Len(s) \in Nat /\ Len(t) \in Nat /\ DOMAIN s = 1..Len(s)
  BY LenProperties
<1>3. \A i \in 1..Len(s) : s[i] = (s \o t)[i]
  BY <1>1, <1>2
<1>4. Cuts(s, s \o t, Len(s))
  BY <1>1, <1>2, <1>3 DEF Cuts
<1>5. QED
  BY <1>1, <1>2, <1>4, CutIsUnmixed

-----------------------------------------------------------------------------
(* The buffered writer.                                                    *)

\* While nothing has failed, the pieces are whole and in frames.
Sound ==
    /\ wire \in Seq(WholePieces)
    /\ buf \in Seq(WholePieces)
    /\ InFrames(wire \o buf)

\* A write on the network connection delivers everything, or cuts the stream off.
LEMMA NetWriteCuts ==
    ASSUME Sound, ~bufErr, NetWrite(buf)
    PROVE  /\ (bufErr' = bufErr /\ wire' = wire \o buf) \/ bufErr' = TRUE
           /\ Cuts(wire', wire \o buf, Len(wire))
<1> DEFINE s == wire \o buf
<1>1. /\ s \in Seq(WholePieces)
      /\ Len(s) = Len(wire) + Len(buf)
      /\ \A i \in 1..(Len(wire) + Len(buf)) :
            s[i] = IF i <= Len(wire) THEN wire[i] ELSE buf[i - Len(wire)]
  BY ConcatProperties DEF Sound
<1>2. Len(wire) \in Nat /\ Len(buf) \in Nat /\ InFrames(s)
  BY LenProperties DEF Sound
<1>3. CASE net = "open" /\ wire' = wire \o buf /\ UNCHANGED <<net, bufErr>>
  <2>1. DOMAIN s = 1..Len(s) /\ Len(s) \in Len(wire)..Len(s)
    BY <1>1, <1>2, LenProperties
  <2> HIDE DEF s
  <2>2. Cuts(s, s, Len(wire))
    BY <2>1 DEF Cuts
  <2>3. QED
    BY <1>3, <2>2 DEF s
<1>4. ASSUME NEW k \in 0..(Len(buf) - 1), bufErr' = TRUE, wire' = wire \o SubSeq(buf, 1, k)
      PROVE  Cuts(wire', s, Len(wire))
  <2>1. /\ SubSeq(buf, 1, k) \in Seq(WholePieces)
        /\ Len(SubSeq(buf, 1, k)) = k
        /\ \A i \in 1..k : SubSeq(buf, 1, k)[i] = buf[i]
    <3>1. \A i \in 1..k : buf[i] \in WholePieces
      BY <1>2, ElementOfSeq DEF Sound
    <3>2. QED
      BY <1>2, <3>1, SubSeqProperties
  <2>2. /\ wire' \in Seq(WholePieces)
        /\ Len(wire') = Len(wire) + k
        /\ \A i \in 1..(Len(wire) + k) :
              wire'[i] = IF i <= Len(wire) THEN wire[i] ELSE SubSeq(buf, 1, k)[i - Len(wire)]
    <3> DEFINE t == SubSeq(buf, 1, k)
    <3>1. wire \in Seq(WholePieces) /\ t \in Seq(WholePieces) /\ Len(t) = k /\ wire' = wire \o t
      BY <1>4, <2>1 DEF Sound
    <3> HIDE DEF t
    <3>2. /\ wire' \in Seq(WholePieces)
          /\ Len(wire') = Len(wire) + k
          /\ \A i \in 1..(Len(wire) + k) :
                wire'[i] = IF i <= Len(wire) THEN wire[i] ELSE t[i - Len(wire)]
      BY <3>1, ConcatProperties
    <3>3. QED
      BY <3>2 DEF t
  <2>3. DOMAIN wire' = 1..(Len(wire) + k)
    BY <2>2, LenProperties
  <2>4. \A i \in 1..(Len(wire) + k) : wire'[i] = s[i]
    BY <1>1, <1>2, <2>1, <2>2
  <2>5. Len(wire) + k \in Len(wire)..Len(s)
    BY <1>1, <1>2
  <2>6. QED
    BY <2>2, <2>3, <2>4, <2>5 DEF Cuts
<1>5. ASSUME NEW k \in 0..(Len(buf) - 1), bufErr' = TRUE, wire' = wire \o Torn(buf, k)
      PROVE  Cuts(wire', s, Len(wire))
  <2> DEFINE torn == [buf[k + 1] EXCEPT !.whole = FALSE]
             n == Len(wire) + k + 1
             Bits == WholePieces \cup {torn}
  <2>1. /\ SubSeq(buf, 1, k) \in Seq(Bits)
        /\ Len(SubSeq(buf, 1, k)) = k
        /\ \A i \in 1..k : SubSeq(buf, 1, k)[i] = buf[i]
    <3>1. \A i \in 1..k : buf[i] \in Bits
      BY <1>2, ElementOfSeq DEF Sound
    <3> HIDE DEF torn, Bits
    <3>2. QED
      BY <1>2, <3>1, SubSeqProperties
  <2>2. /\ <<torn>> \in Seq(Bits) /\ Len(<<torn>>) = 1 /\ <<torn>>[1] = torn
    OBVIOUS
  <2>3. /\ Torn(buf, k) \in Seq(Bits)
        /\ Len(Torn(buf, k)) = k + 1
        /\ \A i \in 1..(k + 1) : Torn(buf, k)[i] = IF i <= k THEN buf[i] ELSE torn
    <3> HIDE DEF torn, Bits
    <3>1. /\ SubSeq(buf, 1, k) \o <<torn>> \in Seq(Bits)
          /\ Len(SubSeq(buf, 1, k) \o <<torn>>) = k + 1
          /\ \A i \in 1..(k + 1) : (SubSeq(buf, 1, k) \o <<torn>>)[i] =
                IF i <= k THEN SubSeq(buf, 1, k)[i] ELSE <<torn>>[i - k]
      BY <2>1, <2>2, ConcatProperties
    <3>2. Torn(buf, k) = SubSeq(buf, 1, k) \o <<torn>>
      BY DEF Torn, torn
    <3>3. QED
      BY <2>1, <2>2, <3>1, <3>2
  <2>4. wire \in Seq(Bits)
    BY SeqMonotonic DEF Sound
  <2>5. /\ wire' \in Seq(Bits)
        /\ Len(wire') = n
        /\ \A i \in 1..n : wire'[i] = IF i <= Len(wire) THEN wire[i] ELSE Torn(buf, k)[i - Len(wire)]
    <3> HIDE DEF torn, Bits
    <3>1. QED
      BY <1>2, <1>5, <2>3, <2>4, ConcatProperties
  <2>6. DOMAIN wire' = 1..n
    BY <2>5, LenProperties
  <2>7. \A i \in 1..n : wire'[i] = s[i]
           \/ (i = n /\ i > Len(wire) /\ wire'[i] = [s[i] EXCEPT !.whole = FALSE])
    <3> SUFFICES ASSUME NEW i \in 1..n
                 PROVE  wire'[i] = s[i]
                        \/ (i = n /\ i > Len(wire) /\ wire'[i] = [s[i] EXCEPT !.whole = FALSE])
      OBVIOUS
    <3> HIDE DEF s, Bits
    <3>1. s[i] = IF i <= Len(wire) THEN wire[i] ELSE buf[i - Len(wire)]
      BY <1>1, <1>2
    <3>2. CASE i <= Len(wire)
      BY <2>5, <3>1, <3>2
    <3>3. CASE i > Len(wire)
      <4>1. i - Len(wire) \in 1..(k + 1)
        BY <1>2, <3>3
      <4>2. /\ wire'[i] = IF i - Len(wire) <= k THEN buf[i - Len(wire)] ELSE torn
            /\ s[i] = buf[i - Len(wire)]
        BY <1>2, <2>3, <2>5, <3>1, <3>3, <4>1
      <4>3. CASE i = n
        <5>1. i - Len(wire) = k + 1 /\ ~(k + 1 <= k)
          BY <1>2, <4>3
        <5>2. wire'[i] = torn /\ s[i] = buf[k + 1]
          BY <4>2, <5>1
        <5>3. QED
          BY <3>3, <4>3, <5>2
      <4>4. CASE i # n
        <5>1. i - Len(wire) <= k
          BY <1>2, <4>4
        <5>2. QED
          BY <4>2, <5>1
      <4>5. QED
        BY <4>3, <4>4
    <3>4. QED
      BY <1>2, <3>2, <3>3
  <2>8. n \in Len(wire)..Len(s)
    BY <1>1, <1>2
  <2> HIDE DEF s, n, torn, Bits
  <2>9. QED
    BY <2>5, <2>6, <2>7, <2>8 DEF Cuts
<1>6. CASE net # "open" /\ bufErr' = TRUE /\ UNCHANGED wire
  <2>1. DOMAIN wire = 1..Len(wire) /\ Len(wire) \in Len(wire)..Len(s)
    BY <1>1, <1>2, LenProperties DEF Sound
  <2>2. \A i \in 1..Len(wire) : wire[i] = s[i]
    BY <1>1, <1>2
  <2> HIDE DEF s
  <2>3. QED
    BY <1>6, <2>1, <2>2 DEF Cuts
<1> HIDE DEF s
<1>7. \/ net = "open" /\ wire' = wire \o buf /\ UNCHANGED <<net, bufErr>>
      \/ \E k \in 0..(Len(buf) - 1) :
            bufErr' = TRUE /\ (wire' = wire \o SubSeq(buf, 1, k) \/ wire' = wire \o Torn(buf, k))
      \/ net # "open" /\ bufErr' = TRUE /\ UNCHANGED wire
  BY Zenon DEF NetWrite
<1>8. QED
  BY <1>3, <1>4, <1>5, <1>6, <1>7, Zenon DEF s

\* Where a write breaks off, it leaves the wire unmixed.
LEMMA NetWriteDelivers ==
    ASSUME Sound, ~bufErr, NetWrite(buf)
    PROVE  \/ bufErr' = bufErr /\ wire' = wire \o buf
           \/ bufErr' = TRUE /\ FramesUnmixed'
<1>1. wire \o buf \in Seq(WholePieces) /\ InFrames(wire \o buf) /\ Len(wire) \in Nat
  BY ConcatProperties, LenProperties DEF Sound
<1>2. Unmixed(wire')
  BY <1>1, NetWriteCuts, CutIsUnmixed
<1>3. FramesUnmixed'
  BY <1>2 DEF Unmixed, FramesUnmixed, EndOfFrame
<1>4. QED
  BY <1>3, NetWriteCuts, Zenon

\* One piece, or none, written to the buffer extends the stream of the wire and
\* the buffer, unless the network has failed.
LEMMA BufWriteExtends ==
    ASSUME Sound, ~bufErr, NEW ps \in Seq(WholePieces), BufWrite(ps)
    PROVE  \/ /\ ~bufErr'
              /\ wire' \in Seq(WholePieces) /\ buf' \in Seq(WholePieces)
              /\ wire' \o buf' = (wire \o buf) \o ps
           \/ bufErr' = TRUE /\ FramesUnmixed'
<1>1. wire \in Seq(WholePieces) /\ buf \in Seq(WholePieces)
  BY DEF Sound
<1>2. CASE buf' = buf \o ps /\ UNCHANGED <<bufErr, net, wire>>
  <2>1. buf' \in Seq(WholePieces)
    BY <1>1, <1>2, ConcatProperties
  <2>2. wire' \o buf' = (wire \o buf) \o ps
    BY <1>1, <1>2, ConcatAssociative
  <2>3. QED
    BY <1>1, <1>2, <2>1, <2>2
<1>3. CASE NetWrite(buf) /\ buf' = IF bufErr' THEN buf ELSE ps
  <2>1. CASE bufErr' = bufErr /\ wire' = wire \o buf
    <3>1. buf' = ps
      BY <1>3, <2>1
    <3>2. wire' \in Seq(WholePieces)
      BY <1>1, <2>1, ConcatProperties
    <3>3. QED
      BY <2>1, <3>1, <3>2
  <2>2. QED
    BY <1>3, <2>1, NetWriteDelivers
<1>4. QED
  BY <1>2, <1>3 DEF BufWrite

LEMMA BufFlushKeeps ==
    ASSUME Sound, ~bufErr, BufFlush
    PROVE  \/ /\ ~bufErr'
              /\ wire' \in Seq(WholePieces) /\ buf' \in Seq(WholePieces)
              /\ wire' \o buf' = wire \o buf
           \/ bufErr' = TRUE /\ FramesUnmixed'
<1>1. wire \in Seq(WholePieces) /\ buf \in Seq(WholePieces)
  BY DEF Sound
<1>2. CASE UNCHANGED <<buf, bufErr, net, wire>>
  BY <1>1, <1>2
<1>3. CASE NetWrite(buf) /\ buf' = IF bufErr' THEN buf ELSE <<>>
  <2>1. CASE bufErr' = bufErr /\ wire' = wire \o buf
    <3>1. buf' = <<>>
      BY <1>3, <2>1
    <3>2. wire \o buf \in Seq(WholePieces)
      BY <1>1, ConcatProperties
    <3>3. wire' \o buf' = wire \o buf
      BY <2>1, <3>1, <3>2, ConcatEmptySeq
    <3>4. QED
      BY <2>1, <3>1, <3>2, <3>3, EmptySeq
  <2>2. QED
    BY <1>3, <2>1, NetWriteDelivers
<1>4. QED
  BY <1>2, <1>3 DEF BufFlush

\* A header goes where none waits for its payload, and a payload after its header.
LEMMA HeaderFits ==
    ASSUME NEW s \in Seq(WholePieces), InFrames(s), \A d \in Calls : ~Waits(s, d),
           NEW c \in Calls
    PROVE  LET t == s \o <<HeaderPiece(c)>>
           IN  InFrames(t) /\ \A d \in Calls : Waits(t, d) <=> d = c /\ PayloadLength(c) # 0
<1> DEFINE h == HeaderPiece(c)
           t == s \o <<h>>
<1>1. h \in WholePieces /\ h.part = "header" /\ h.call = c
  BY DEF WholePieces, HeaderPiece
<1>2. Len(s) \in Nat
  BY LenProperties
<1>3. /\ t \in Seq(WholePieces)
      /\ Len(t) = Len(s) + 1
      /\ \A i \in 1..Len(s) : t[i] = s[i]
      /\ t[Len(s) + 1] = h
  <2> HIDE DEF h
  <2>1. <<h>> \in Seq(WholePieces) /\ Len(<<h>>) = 1 /\ <<h>>[1] = h
    BY <1>1
  <2>2. QED
    BY <1>2, <2>1, ConcatProperties
<1>4. \A i \in 1..Len(s) : s[i] \in WholePieces
  BY ElementOfSeq
<1> HIDE DEF h, t
<1>5. InFrames(t)
  <2>1. ASSUME NEW i \in 1..Len(t), t[i].part = "payload"
        PROVE  i > 1 /\ t[i - 1] = HeaderPiece(t[i].call)
    <3>1. i \in 1..Len(s)
      BY <1>1, <1>2, <1>3, <2>1
    <3>2. i > 1 /\ s[i - 1] = HeaderPiece(s[i].call)
      BY <1>3, <2>1, <3>1 DEF InFrames
    <3>3. QED
      BY <1>2, <1>3, <3>1, <3>2
  <2>2. ASSUME NEW i \in 1..(Len(t) - 1), t[i].part = "header"
        PROVE  PayloadLength(t[i].call) = 0 \/ t[i + 1].part = "payload"
    <3>1. i \in 1..Len(s) /\ t[i] = s[i]
      BY <1>2, <1>3
    <3>2. CASE i = Len(s)
      <4>1. s # <<>> /\ s[Len(s)] = HeaderPiece(s[i].call) /\ s[i].call \in Calls
        <5>1. s[i] \in WholePieces /\ s[i].part = "header"
          BY <1>4, <2>2, <3>1
        <5>2. s[i].call \in Calls /\ s[i] = HeaderPiece(s[i].call)
          BY <5>1, PieceFields
        <5>3. s # <<>>
          BY <1>2, <3>1, EmptySeq
        <5>4. QED
          BY <3>2, <5>2, <5>3
      <4>2. ~Waits(s, s[i].call)
        BY <4>1
      <4>3. QED
        BY <3>1, <4>1, <4>2 DEF Waits
    <3>3. CASE i # Len(s)
      <4>1. i \in 1..(Len(s) - 1) /\ t[i + 1] = s[i + 1]
        BY <1>2, <1>3, <3>1, <3>3
      <4>2. QED
        BY <2>2, <3>1, <4>1 DEF InFrames
    <3>4. QED
      BY <3>2, <3>3
  <2>3. QED
    BY <2>1, <2>2 DEF InFrames
<1>6. ASSUME NEW d \in Calls PROVE Waits(t, d) <=> d = c /\ PayloadLength(c) # 0
  <2>1. t # <<>> /\ t[Len(t)] = h
    BY <1>2, <1>3, EmptySeq
  <2>2. h = HeaderPiece(d) <=> d = c
    BY <1>1 DEF h, HeaderPiece
  <2>3. QED
    BY <2>1, <2>2 DEF Waits
<1>7. QED
  BY <1>5, <1>6 DEF t, h

LEMMA PayloadFits ==
    ASSUME NEW s \in Seq(WholePieces), InFrames(s), NEW c \in Calls, Waits(s, c)
    PROVE  LET t == s \o <<PayloadPiece(c)>>
           IN  InFrames(t) /\ \A d \in Calls : ~Waits(t, d)
<1> DEFINE p == PayloadPiece(c)
           t == s \o <<p>>
<1>1. p \in WholePieces /\ p.part = "payload" /\ p.call = c
  BY DEF WholePieces, PayloadPiece
<1>2. Len(s) \in Nat \ {0} /\ s[Len(s)] = HeaderPiece(c)
  BY EmptySeq DEF Waits
<1>3. /\ t \in Seq(WholePieces)
      /\ Len(t) = Len(s) + 1
      /\ \A i \in 1..Len(s) : t[i] = s[i]
      /\ t[Len(s) + 1] = p
  <2> HIDE DEF p
  <2>1. <<p>> \in Seq(WholePieces) /\ Len(<<p>>) = 1 /\ <<p>>[1] = p
    BY <1>1
  <2>2. QED
    BY <1>2, <2>1, ConcatProperties
<1> HIDE DEF p, t
<1>4. InFrames(t)
  <2>1. ASSUME NEW i \in 1..Len(t), t[i].part = "payload"
        PROVE  i > 1 /\ t[i - 1] = HeaderPiece(t[i].call)
    <3>1. CASE i \in 1..Len(s)
      <4>1. i > 1 /\ s[i - 1] = HeaderPiece(s[i].call)
        BY <1>3, <2>1, <3>1 DEF InFrames
      <4>2. QED
        BY <1>2, <1>3, <3>1, <4>1
    <3>2. CASE i = Len(s) + 1
      <4>1. i - 1 = Len(s) /\ i - 1 \in 1..Len(s) /\ t[i] = p
        BY <1>2, <1>3, <3>2
      <4>2. QED
        BY <1>1, <1>2, <1>3, <4>1
    <3>3. QED
      BY <1>2, <1>3, <3>1, <3>2
  <2>2. ASSUME NEW i \in 1..(Len(t) - 1), t[i].part = "header"
        PROVE  PayloadLength(t[i].call) = 0 \/ t[i + 1].part = "payload"
    <3>1. i \in 1..Len(s) /\ t[i] = s[i]
      BY <1>2, <1>3
    <3>2. CASE i = Len(s)
      BY <1>1, <1>3, <3>2
    <3>3. CASE i # Len(s)
      <4>1. i \in 1..(Len(s) - 1) /\ t[i + 1] = s[i + 1]
        BY <1>2, <1>3, <3>1, <3>3
      <4>2. QED
        BY <2>2, <3>1, <4>1 DEF InFrames
    <3>4. QED
      BY <3>2, <3>3
  <2>3. QED
    BY <2>1, <2>2 DEF InFrames
<1>5. ASSUME NEW d \in Calls PROVE ~Waits(t, d)
  <2>1. t[Len(t)] = p
    BY <1>2, <1>3
  <2>2. p # HeaderPiece(d)
    BY <1>1 DEF HeaderPiece
  <2>3. QED
    BY <2>1, <2>2 DEF Waits
<1>6. QED
  BY <1>4, <1>5 DEF t, p

-----------------------------------------------------------------------------
(* The calls of WriteMessage and Close.                                    *)

Inside == {"header", "payload", "flush", "closeNet", "unlock"}

\* Between its lock and its unlock a call is the only one.
Calling ==
    /\ cpc \in [Calls -> Inside \cup {"start", "returned"}]
    /\ bufErr \in BOOLEAN
    /\ \A c \in Calls : mu = c <=> cpc[c] \in Inside

\* A header waits for its payload exactly while its call is about to write it.
Streaming ==
    ~bufErr =>
        /\ Sound
        /\ \A c \in Calls :
              Waits(wire \o buf, c) <=> cpc[c] = "payload" /\ PayloadLength(c) # 0

CallInv == Calling /\ Streaming /\ FramesUnmixed

LEMMA InitCalls == Init => CallInv
<1> SUFFICES ASSUME Init PROVE CallInv
  OBVIOUS
<1>1. Calling
  <2>1. bufErr \in BOOLEAN
    BY Zenon DEF Init
  <2>2. NoCall \notin Calls
    BY ConnAssumption
  <2>3. QED
    BY <2>1, <2>2 DEF Calling, Init, Inside
<1>2. wire = <<>> /\ buf = <<>> /\ wire \o buf = <<>>
  <2>1. <<>> \in Seq(WholePieces)
    BY EmptySeq
  <2>2. QED
    BY <2>1, ConcatEmptySeq DEF Init
<1>3. Streaming
  BY <1>2 DEF Streaming, Sound, InFrames, Waits, Init
<1>4. FramesUnmixed
  BY <1>2 DEF FramesUnmixed
<1>5. QED
  BY <1>1, <1>3, <1>4 DEF CallInv

\* A call that stays between its lock and its unlock.
LEMMA StaysInside ==
    ASSUME Calling, NEW c \in Calls, cpc[c] \in Inside, NEW x \in Inside,
           cpc' = [cpc EXCEPT ![c] = x], mu' = mu, bufErr' \in BOOLEAN
    PROVE  Calling'
  BY DEF Calling

\* Whatever the step, an unmixed wire results from an unfailed stream.
LEMMA SoundIsUnmixed == Sound => FramesUnmixed
  BY StreamIsUnmixed, UnmixedIsFramesUnmixed DEF Sound

\* A step of the call inside that ends with a failed network, or follows one.
LEMMA FailedKeeps ==
    ASSUME Calling, NEW c \in Calls, cpc[c] \in Inside, NEW x \in Inside,
           cpc' = [cpc EXCEPT ![c] = x], mu' = mu, bufErr' = TRUE, FramesUnmixed'
    PROVE  CallInv'
<1>1. bufErr' \in BOOLEAN
  OBVIOUS
<1>2. Calling'
  BY <1>1, StaysInside
<1>3. Streaming'
  BY DEF Streaming
<1>4. QED
  BY <1>2, <1>3 DEF CallInv

\* A step of the call inside that leaves the stream in frames.
LEMMA FlowingKeeps ==
    ASSUME Calling, NEW c \in Calls, cpc[c] \in Inside, NEW x \in Inside,
           cpc' = [cpc EXCEPT ![c] = x], mu' = mu, ~bufErr', bufErr' \in BOOLEAN,
           NEW s, s = wire' \o buf',
           wire' \in Seq(WholePieces), buf' \in Seq(WholePieces), InFrames(s),
           \A d \in Calls : Waits(s, d) <=> d = c /\ x = "payload" /\ PayloadLength(d) # 0
    PROVE  CallInv'
<1>1. Calling'
  BY StaysInside
<1>2. \A d \in Calls : cpc'[d] = "payload" <=> d = c /\ x = "payload"
  <2>1. \A d \in Calls : d # c => cpc[d] \notin Inside
    BY DEF Calling
  <2>2. QED
    BY <2>1 DEF Calling, Inside
<1>3. Sound'
  BY DEF Sound
<1>4. Unmixed(wire')
  BY StreamIsUnmixed
<1>5. FramesUnmixed'
  BY <1>4 DEF Unmixed, FramesUnmixed, EndOfFrame
<1>6. Streaming'
  BY <1>2, <1>3 DEF Streaming
<1>7. QED
  BY <1>1, <1>5, <1>6 DEF CallInv

\* A call that has the lock while the network has not failed writes to a stream
\* in frames, in which only its own header can wait.
LEMMA OwnStream ==
    ASSUME CallInv, ~bufErr, NEW c \in Calls, cpc[c] \in Inside
    PROVE  /\ Sound
           /\ wire \o buf \in Seq(WholePieces)
           /\ InFrames(wire \o buf)
           /\ \A d \in Calls : Waits(wire \o buf, d)
                 <=> d = c /\ cpc[c] = "payload" /\ PayloadLength(d) # 0
<1>1. \A d \in Calls : d # c => cpc[d] # "payload"
  BY DEF CallInv, Calling, Inside
<1>2. Sound /\ \A d \in Calls : Waits(wire \o buf, d)
                  <=> cpc[d] = "payload" /\ PayloadLength(d) # 0
  BY DEF CallInv, Streaming
<1>3. wire \o buf \in Seq(WholePieces)
  BY <1>2, ConcatProperties DEF Sound
<1>4. QED
  BY <1>1, <1>2, <1>3 DEF Sound

\* After the first error the wire no longer changes.
LEMMA NothingAfterError ==
    ASSUME CallInv, bufErr, \/ BufFlush
                            \/ \E ps \in Seq(WholePieces) : BufWrite(ps)
    PROVE  bufErr' = TRUE /\ FramesUnmixed'
<1>1. UNCHANGED wire /\ bufErr' = bufErr
  BY DEF BufFlush, BufWrite
<1>2. FramesUnmixed'
  BY <1>1 DEF CallInv, FramesUnmixed, EndOfFrame
<1>3. bufErr = TRUE
  BY Zenon DEF CallInv, Calling
<1>4. QED
  BY <1>1, <1>2, <1>3

LEMMA BufErrIsBoolean ==
    ASSUME CallInv, \/ BufFlush
                    \/ \E ps \in Seq(WholePieces) : BufWrite(ps)
    PROVE  bufErr' \in BOOLEAN
<1>1. bufErr' = bufErr \/ bufErr' = TRUE
  BY Zenon DEF BufFlush, BufWrite, NetWrite
<1>2. QED
  BY <1>1, Zenon DEF CallInv, Calling

\* The place to which a failed write sends a call.
LEMMA FailStays ==
    ASSUME NEW c \in Calls, Fail(c)
    PROVE  \E x \in Inside \ {"payload"} : cpc' = [cpc EXCEPT ![c] = x]
  BY DEF Fail, Leave, Goto, Inside

LEMMA WriteHeaderKeeps ==
    ASSUME CallInv, NEW c \in Calls, WriteHeader(c)
    PROVE  CallInv'
<1> DEFINE ps == <<HeaderPiece(c)>>
<1>1. ps \in Seq(WholePieces)
  <2>1. HeaderPiece(c) \in WholePieces
    BY DEF WholePieces
  <2>2. QED
    BY <2>1
<1>2. /\ Calling /\ cpc[c] = "header" /\ cpc[c] \in Inside /\ mu' = mu
      /\ BufWrite(ps)
      /\ bufErr' => Fail(c)
      /\ ~bufErr' => cpc' = [cpc EXCEPT ![c] = "payload"]
  BY DEF WriteHeader, CallInv, Inside, Goto
<1> HIDE DEF ps
<1>3. ASSUME bufErr' = TRUE, FramesUnmixed' PROVE CallInv'
  <2>1. PICK x \in Inside : cpc' = [cpc EXCEPT ![c] = x]
    BY <1>2, <1>3, FailStays
  <2>2. QED
    BY <1>2, <1>3, <2>1, FailedKeeps
<1>4. CASE bufErr
  BY <1>1, <1>2, <1>3, <1>4, NothingAfterError
<1>5. CASE ~bufErr
  <2>1. /\ Sound
        /\ wire \o buf \in Seq(WholePieces)
        /\ InFrames(wire \o buf)
        /\ \A d \in Calls : ~Waits(wire \o buf, d)
    BY <1>2, <1>5, OwnStream
  <2>2. CASE bufErr' = TRUE /\ FramesUnmixed'
    BY <1>3, <2>2
  <2>3. CASE /\ ~bufErr'
             /\ wire' \in Seq(WholePieces) /\ buf' \in Seq(WholePieces)
             /\ wire' \o buf' = (wire \o buf) \o ps
    <3> DEFINE s == (wire \o buf) \o ps
    <3>1. InFrames(s) /\ \A d \in Calls : Waits(s, d) <=> d = c /\ PayloadLength(c) # 0
      BY <2>1, HeaderFits DEF ps
    <3>2. bufErr' \in BOOLEAN
      BY <1>1, <1>2, BufErrIsBoolean
    <3>3. "payload" \in Inside /\ cpc' = [cpc EXCEPT ![c] = "payload"]
      BY <1>2, <2>3 DEF Inside
    <3> HIDE DEF s
    <3>4. s = wire' \o buf'
      BY <2>3 DEF s
    <3>5. \A d \in Calls : Waits(s, d) <=> d = c /\ "payload" = "payload" /\ PayloadLength(d) # 0
      BY <3>1
    <3>6. QED
      BY <1>2, <2>3, <3>1, <3>2, <3>3, <3>4, <3>5, FlowingKeeps
  <2>4. QED
    BY <1>1, <1>2, <1>5, <2>1, <2>2, <2>3, BufWriteExtends
<1>6. QED
  BY <1>4, <1>5

LEMMA WritePayloadKeeps ==
    ASSUME CallInv, NEW c \in Calls, WritePayload(c)
    PROVE  CallInv'
<1> DEFINE ps == IF PayloadLength(c) = 0 THEN <<>> ELSE <<PayloadPiece(c)>>
<1>1. ps \in Seq(WholePieces)
  <2>1. PayloadPiece(c) \in WholePieces
    BY DEF WholePieces
  <2>2. QED
    BY <2>1, EmptySeq
<1>2. /\ Calling /\ cpc[c] = "payload" /\ cpc[c] \in Inside /\ mu' = mu
      /\ BufWrite(ps)
      /\ bufErr' => Fail(c)
      /\ ~bufErr' => cpc' = [cpc EXCEPT ![c] = "flush"]
  BY DEF WritePayload, CallInv, Inside, Goto
<1> HIDE DEF ps
<1>3. ASSUME bufErr' = TRUE, FramesUnmixed' PROVE CallInv'
  <2>1. PICK x \in Inside : cpc' = [cpc EXCEPT ![c] = x]
    BY <1>2, <1>3, FailStays
  <2>2. QED
    BY <1>2, <1>3, <2>1, FailedKeeps
<1>4. CASE bufErr
  BY <1>1, <1>2, <1>3, <1>4, NothingAfterError
<1>5. CASE ~bufErr
  <2>1. /\ Sound
        /\ wire \o buf \in Seq(WholePieces)
        /\ InFrames(wire \o buf)
        /\ \A d \in Calls : Waits(wire \o buf, d) <=> d = c /\ PayloadLength(d) # 0
    BY <1>2, <1>5, OwnStream
  <2>2. CASE bufErr' = TRUE /\ FramesUnmixed'
    BY <1>3, <2>2
  <2>3. CASE /\ ~bufErr'
             /\ wire' \in Seq(WholePieces) /\ buf' \in Seq(WholePieces)
             /\ wire' \o buf' = (wire \o buf) \o ps
    <3> DEFINE s == (wire \o buf) \o ps
    <3>1. InFrames(s) /\ \A d \in Calls : ~Waits(s, d)
      <4>1. CASE PayloadLength(c) = 0
        <5>1. s = wire \o buf
          BY <2>1, <4>1, ConcatEmptySeq DEF ps
        <5> HIDE DEF s
        <5>2. QED
          BY <2>1, <4>1, <5>1
      <4>2. CASE PayloadLength(c) # 0
        <5>1. Waits(wire \o buf, c)
          BY <2>1, <4>2
        <5>2. s = (wire \o buf) \o <<PayloadPiece(c)>>
          BY <4>2 DEF ps
        <5> HIDE DEF s
        <5>3. QED
          BY <2>1, <5>1, <5>2, PayloadFits
      <4>3. QED
        BY <4>1, <4>2
    <3>2. bufErr' \in BOOLEAN
      BY <1>1, <1>2, BufErrIsBoolean
    <3>3. "flush" \in Inside /\ cpc' = [cpc EXCEPT ![c] = "flush"]
      BY <1>2, <2>3 DEF Inside
    <3> HIDE DEF s
    <3>4. s = wire' \o buf'
      BY <2>3 DEF s
    <3>5. \A d \in Calls : Waits(s, d) <=> d = c /\ "flush" = "payload" /\ PayloadLength(d) # 0
      BY <3>1
    <3>6. QED
      BY <1>2, <2>3, <3>1, <3>2, <3>3, <3>4, <3>5, FlowingKeeps
  <2>4. QED
    BY <1>1, <1>2, <1>5, <2>1, <2>2, <2>3, BufWriteExtends
<1>6. QED
  BY <1>4, <1>5

LEMMA FlushKeeps ==
    ASSUME CallInv, NEW c \in Calls, Flush(c)
    PROVE  CallInv'
<1>1. /\ Calling /\ cpc[c] = "flush" /\ cpc[c] \in Inside /\ mu' = mu /\ BufFlush
      /\ \E x \in {"closeNet", "unlock"} : cpc' = [cpc EXCEPT ![c] = x]
  BY DEF Flush, CallInv, Inside, Goto, Leave
<1>2. PICK x \in {"closeNet", "unlock"} : cpc' = [cpc EXCEPT ![c] = x]
  BY <1>1
<1>3. x \in Inside /\ x # "payload"
  BY DEF Inside
<1>4. CASE bufErr' = TRUE /\ FramesUnmixed'
  BY <1>1, <1>2, <1>3, <1>4, FailedKeeps
<1>5. CASE bufErr
  BY <1>1, <1>4, <1>5, NothingAfterError
<1>6. CASE ~bufErr
  <2>1. /\ Sound
        /\ InFrames(wire \o buf)
        /\ \A d \in Calls : ~Waits(wire \o buf, d)
    BY <1>1, <1>6, OwnStream
  <2>2. CASE /\ ~bufErr'
             /\ wire' \in Seq(WholePieces) /\ buf' \in Seq(WholePieces)
             /\ wire' \o buf' = wire \o buf
    <3> DEFINE s == wire \o buf
    <3>1. InFrames(s) /\ \A d \in Calls : Waits(s, d) <=> d = c /\ x = "payload" /\ PayloadLength(d) # 0
      BY <1>3, <2>1
    <3>2. bufErr' \in BOOLEAN
      BY <1>1, BufErrIsBoolean
    <3>3. s = wire' \o buf'
      BY <2>2
    <3> HIDE DEF s
    <3>4. QED
      BY <1>1, <1>2, <1>3, <2>2, <3>1, <3>2, <3>3, FlowingKeeps
  <2>3. QED
    BY <1>1, <1>4, <1>6, <2>1, <2>2, BufFlushKeeps
<1>7. QED
  BY <1>5, <1>6

\* A step that leaves the stream alone.
LEMMA SameStream ==
    ASSUME CallInv, UNCHANGED <<buf, bufErr, wire>>, Calling',
           \A d \in Calls : cpc'[d] = "payload" <=> cpc[d] = "payload"
    PROVE  CallInv'
<1>1. FramesUnmixed'
  BY DEF CallInv, FramesUnmixed, EndOfFrame
<1>2. Streaming'
  <2>1. CASE bufErr
    BY <2>1 DEF Streaming
  <2>2. CASE ~bufErr
    <3>1. Sound'
      BY <2>2 DEF CallInv, Streaming, Sound
    <3>2. QED
      BY <2>2, <3>1 DEF CallInv, Streaming
  <2>3. QED
    BY <2>1, <2>2
<1>3. QED
  BY <1>1, <1>2 DEF CallInv

LEMMA NextCalls == CallInv /\ [Next]_vars => CallInv'
<1> SUFFICES ASSUME CallInv, [Next]_vars PROVE CallInv'
  OBVIOUS
<1>1. Calling /\ NoCall \notin Calls
  BY ConnAssumption DEF CallInv
<1>2. ASSUME NEW c \in Calls, Lock(c) PROVE CallInv'
  <2>1. /\ cpc[c] = "start" /\ \A d \in Calls : cpc[d] \notin Inside
        /\ cpc' = [cpc EXCEPT ![c] = "header"] /\ mu' = c
        /\ UNCHANGED <<buf, bufErr, wire>>
    BY <1>1, <1>2 DEF Lock, Goto, Calling
  <2>2. bufErr' \in BOOLEAN
    BY <1>1, <2>1, Zenon DEF Calling
  <2>3. Calling'
    BY <1>1, <2>1, <2>2 DEF Calling, Inside
  <2>4. \A d \in Calls : cpc'[d] = "payload" <=> cpc[d] = "payload"
    BY <1>1, <2>1 DEF Calling, Inside
  <2>5. QED
    BY <2>1, <2>3, <2>4, SameStream
<1>3. ASSUME NEW c \in Calls, CloseNet(c) PROVE CallInv'
  <2>1. /\ cpc[c] = "closeNet" /\ cpc' = [cpc EXCEPT ![c] = "unlock"] /\ mu' = mu
        /\ UNCHANGED <<buf, bufErr, wire>>
    BY <1>3 DEF CloseNet, Leave, Goto
  <2>2. bufErr' \in BOOLEAN
    BY <1>1, <2>1, Zenon DEF Calling
  <2>3. Calling'
    BY <1>1, <2>1, <2>2, StaysInside DEF Inside
  <2>4. \A d \in Calls : cpc'[d] = "payload" <=> cpc[d] = "payload"
    BY <1>1, <2>1 DEF Calling
  <2>5. QED
    BY <2>1, <2>3, <2>4, SameStream
<1>4. ASSUME NEW c \in Calls, Unlock(c) PROVE CallInv'
  <2>1. /\ cpc[c] = "unlock" /\ cpc' = [cpc EXCEPT ![c] = "returned"] /\ mu' = NoCall
        /\ UNCHANGED <<buf, bufErr, wire>>
    BY <1>4 DEF Unlock, Goto
  <2>2. bufErr' \in BOOLEAN
    BY <1>1, <2>1, Zenon DEF Calling
  <2>3. \A d \in Calls : d # c => cpc[d] \notin Inside
    BY <1>1, <2>1 DEF Calling, Inside
  <2>4. Calling'
    BY <1>1, <2>1, <2>2, <2>3 DEF Calling, Inside
  <2>5. \A d \in Calls : cpc'[d] = "payload" <=> cpc[d] = "payload"
    BY <1>1, <2>1 DEF Calling
  <2>6. QED
    BY <2>1, <2>4, <2>5, SameStream
<1>5. CASE UNCHANGED vars
  <2>1. UNCHANGED <<cpc, mu, buf, bufErr, wire>>
    BY <1>5 DEF vars
  <2>2. bufErr' \in BOOLEAN
    BY <1>1, <2>1, Zenon DEF Calling
  <2>3. Calling'
    BY <1>1, <2>1, <2>2 DEF Calling
  <2>4. QED
    BY <2>1, <2>3, SameStream
<1>6. QED
  BY <1>2, <1>3, <1>4, <1>5, WriteHeaderKeeps, WritePayloadKeeps, FlushKeeps
  DEF Next, AllReturned

-----------------------------------------------------------------------------
(* The handshake, and the connection that it hands out.                    *)

\* Until Upgrade has taken the connection over, nothing was written on it; once
\* it has, net/http sends no status; and all of the 101 response is in the
\* buffer or on the wire when it is flushed.
HandInv ==
    /\ upc \in {"check", "hijack", "respond", "flush", "returned"}
    /\ upc \in {"check", "hijack"} => owner = "server" /\ buffered = 0
    /\ upc \in {"respond", "flush"} => owner = "handler"
    /\ upc # "returned" => fd = "open" /\ outcome = "none" /\ status = 0
    /\ upc = "flush" => buffered \in Nat /\ response \in Nat /\ response + buffered = Pieces
    /\ owner = "server" => response = 0
    /\ status # 0 => owner = "server"
    /\ outcome = "conn" =>
          upc = "returned" /\ fd = "open" /\ owner = "handler" /\ response = Pieces /\ buffered = 0
    /\ wire # <<>> => outcome = "conn"

LEMMA InitHand == ConnectionInit => HandInv
  BY DEF ConnectionInit, Init, H!Init, HandInv

LEMMA UpgradingHand == HandInv /\ Upgrading => HandInv'
<1> SUFFICES ASSUME HandInv, Upgrading PROVE HandInv'
  OBVIOUS
<1>1. wire' = wire
  BY DEF Upgrading, vars
<1>2. CASE H!CheckRequest
  BY <1>1, <1>2 DEF HandInv, H!CheckRequest, H!Refuse, H!Return, H!connVars
<1>3. CASE H!Hijack
  <2>1. upc = "hijack" /\ buffered' = buffered /\ response' = response /\ fd' = fd
    BY <1>3 DEF H!Hijack, H!Refuse, H!connVars
  <2>2. \/ upc' = "respond" /\ owner' = "handler" /\ UNCHANGED <<status, outcome>>
        \/ upc' = "returned" /\ owner' = owner /\ outcome' \in {"error", "ErrNotWebSocket"}
    BY <1>3 DEF H!Hijack, H!Refuse, H!Return, H!connVars
  <2>3. QED
    BY <1>1, <2>1, <2>2 DEF HandInv
<1>4. CASE H!WriteResponse
  <2>1. Pieces \in Nat \ {0}
    BY ConnectionAssumption
  <2>2. upc = "respond" /\ owner' = owner /\ status' = status
    BY <1>4 DEF H!WriteResponse
  <2>3. PICK k \in 0..(Pieces - 1) :
           /\ response' = k
           /\ \/ buffered' = Pieces - k /\ upc' = "flush" /\ UNCHANGED <<fd, outcome>>
              \/ upc' = "returned" /\ outcome' = "error"
    BY <1>4 DEF H!WriteResponse, H!Fail, H!Return
  <2>4. QED
    BY <1>1, <2>1, <2>2, <2>3 DEF HandInv
<1>5. CASE H!FlushResponse
  <2>1. upc = "flush" /\ owner' = owner /\ status' = status /\ upc' = "returned"
    BY <1>5 DEF H!FlushResponse, H!Fail, H!Return
  <2>2. \/ response' = response + buffered /\ buffered' = 0 /\ outcome' = "conn" /\ fd' = fd
        \/ outcome' = "error"
    BY <1>5 DEF H!FlushResponse, H!Fail, H!Return
  <2>3. QED
    BY <1>1, <2>1, <2>2 DEF HandInv
<1>6. CASE H!ServerFinishes
  BY <1>1, <1>6 DEF HandInv, H!ServerFinishes
<1>7. QED
  BY <1>2, <1>3, <1>4, <1>5, <1>6 DEF Upgrading, H!Next, H!Upgrade

LEMMA InitServer == ServerInit => CallInv /\ HandInv
  BY InitCalls, InitHand DEF ServerInit, ConnectionInit

LEMMA SameConnection ==
    CallInv /\ HandInv /\ UNCHANGED connectionVars => CallInv' /\ HandInv'
<1> SUFFICES ASSUME CallInv, HandInv, UNCHANGED connectionVars PROVE CallInv' /\ HandInv'
  OBVIOUS
<1>1. UNCHANGED vars /\ UNCHANGED upgradeVars
  BY DEF connectionVars
<1>2. CallInv'
  BY <1>1, NextCalls
<1>3. HandInv'
  BY <1>1 DEF vars, upgradeVars, HandInv
<1>4. QED
  BY <1>2, <1>3

LEMMA NextServer == CallInv /\ HandInv /\ [ServerNext]_serverVars => CallInv' /\ HandInv'
<1> SUFFICES ASSUME CallInv, HandInv, [ServerNext]_serverVars PROVE CallInv' /\ HandInv'
  OBVIOUS
<1>1. CASE Upgrading
  <2>1. UNCHANGED vars
    BY <1>1 DEF Upgrading
  <2>2. QED
    BY <1>1, <2>1, NextCalls, UpgradingHand
<1>2. CASE Talking
  <2>1. UNCHANGED upgradeVars /\ outcome = "conn" /\ Next
    BY <1>2 DEF Talking
  <2>2. HandInv'
    BY <2>1 DEF upgradeVars, HandInv
  <2>3. QED
    BY <2>1, <2>2, NextCalls
<1>3. CASE UNCHANGED connectionVars
  BY <1>3, SameConnection
<1>4. Upgrading \/ Talking \/ UNCHANGED connectionVars
  BY DEF ServerNext, handleWebSocket, handleFile, ConnectionNext, serverVars
<1>5. QED
  BY <1>1, <1>2, <1>3, <1>4

\* Conn.mu keeps the frames of concurrent calls apart, and the handshake keeps
\* the connection either net/http's or the handler's.
THEOREM ConnectionInvariance == ServerSpec => [](CallInv /\ HandInv)
<1>1. ServerInit => CallInv /\ HandInv
  BY InitServer
<1>2. CallInv /\ HandInv /\ [ServerNext]_serverVars => (CallInv /\ HandInv)'
  BY NextServer
<1>3. QED
  BY <1>1, <1>2, PTL DEF ServerSpec

\* However the calls of WriteMessage and Close interleave, and wherever the
\* network breaks, every header on the wire is followed by its own payload.
THEOREM FramesStayUnmixed == ServerSpec => []FramesUnmixed
<1>1. CallInv /\ HandInv => FramesUnmixed
  BY DEF CallInv
<1>2. QED
  BY <1>1, ConnectionInvariance, PTL

\* A connection that Upgrade hands out, or on which a frame was sent, is open,
\* is the handler's to close, and has had the whole 101 response.
THEOREM HandedOutReady == ServerSpec => []ConnIsReady
<1>1. CallInv /\ HandInv => ConnIsReady
  BY DEF HandInv, ConnIsReady
<1>2. QED
  BY <1>1, ConnectionInvariance, PTL

\* net/http sends a status only where no piece of the 101 response was sent.
THEOREM AnsweredOnce == ServerSpec => []OneAnswer
<1>1. CallInv /\ HandInv => OneAnswer
  BY DEF HandInv, OneAnswer
<1>2. QED
  BY <1>1, ConnectionInvariance, PTL
=============================================================================
