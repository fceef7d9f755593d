-------------------------- MODULE FrameCodecProofs --------------------------
(***************************************************************************)
(* Theorems about FrameCodec, for every choice of payloads, bytes and      *)
(* bounds.                                                                 *)
(***************************************************************************)
EXTENDS FrameCodec, SequenceTheorems, FiniteSetTheorems, WellFoundedInduction, TLAPS

(* What a cell may hold: a number, or a checksum of numbers, of which no   *)
(* more is said.                                                           *)
Values == Nat \cup {crc16_ccitt(c) : c \in Seq(Nat)}
Cells == [val : Values, frame : Nat]
Events == [kind : {"error"}]
          \cup [kind : {"frame"}, sequence : Values, payload : Seq(Values)]

(* The first and the last of a frame's cells, its header and its payload.  *)
LEMMA EncodeShape ==
    ASSUME NEW n \in Nat, NEW p \in Payloads
    PROVE  /\ Encode(4, n, p) \in Seq(Values)
           /\ Len(p) \in 0 .. MaxPayload
           /\ Len(Encode(4, n, p)) = HEADER_BYTES + Len(p) + CRC_BYTES
           /\ Encode(4, n, p)[1] = C /\ Encode(4, n, p)[2] = M
           /\ Encode(4, n, p)[3] = VERSION /\ Encode(4, n, p)[4] = 4
           /\ Encode(4, n, p)[5] = n /\ Encode(4, n, p)[6] = Len(p)
           /\ \A k \in 1 .. Len(p) : Encode(4, n, p)[HEADER_BYTES + k] = p[k]
           /\ Encode(4, n, p)[HEADER_BYTES + Len(p) + CRC_BYTES]
                = crc16_ccitt(SubSeq(Encode(4, n, p), 1, HEADER_BYTES + Len(p)))
<1> DEFINE header == <<C, M, VERSION, 4, n, Len(p)>>
           covered == header \o p
<1>1. p \in Seq(0 .. 99) /\ Len(p) \in Nat /\ Len(p) <= MaxPayload /\ MaxPayload \in Nat
  BY CodecAssumption
<1>2. p \in Seq(Nat)
  <2>1. 0 .. 99 \subseteq Nat
    OBVIOUS
  <2> QED
    BY <1>1, <2>1, SeqMonotonic
<1>3. header \in Seq(Nat) /\ Len(header) = 6
  BY <1>1 DEF C, M, VERSION
<1>4. /\ covered \in Seq(Nat) /\ Len(covered) = 6 + Len(p)
      /\ \A k \in 1 .. 6 + Len(p) :
            covered[k] = IF k <= 6 THEN header[k] ELSE p[k - 6]
  <2>1. header \o p \in Seq(Nat) /\ Len(header \o p) = Len(header) + Len(p)
    BY <1>2, <1>3, ConcatProperties
  <2>2. \A k \in 1 .. Len(header) + Len(p) :
          (header \o p)[k] = IF k <= Len(header) THEN header[k] ELSE p[k - Len(header)]
    BY <1>2, <1>3, ConcatProperties
  <2> QED
    BY <1>3, <2>1, <2>2
<1>5. crc16_ccitt(covered) \in Values /\ Nat \subseteq Values
  BY <1>4 DEF Values
<1>6. covered \in Seq(Values)
  BY <1>4, <1>5, SeqMonotonic
<1> DEFINE crc == crc16_ccitt(covered)
           enc == Encode(4, n, p)
<1>7. enc = Append(covered, crc)
  BY DEF Encode
<1>8. /\ enc \in Seq(Values) /\ Len(enc) = Len(covered) + 1
      /\ enc[Len(covered) + 1] = crc
      /\ \A k \in 1 .. Len(covered) : enc[k] = covered[k]
  <2> HIDE DEF covered, crc, enc
  <2> QED
    BY <1>5, <1>6, <1>7, AppendProperties DEF crc
<1>9. SubSeq(enc, 1, Len(covered)) = covered
  <2> HIDE DEF covered, crc, enc
  <2>1. Len(covered) \in Nat
    BY <1>6
  <2> QED
    BY <1>6, <1>8, <2>1
<1>10. \A k \in 1 .. Len(p) : enc[6 + k] = p[k]
  <2> SUFFICES ASSUME NEW k \in 1 .. Len(p) PROVE enc[6 + k] = p[k]
    OBVIOUS
  <2>1. 6 + k \in 1 .. 6 + Len(p) /\ ~(6 + k <= 6) /\ 6 + k - 6 = k
    BY <1>1
  <2>2. covered[6 + k] = p[k]
    BY <1>4, <2>1
  <2> QED
    BY <1>4, <1>8, <2>1, <2>2
<1>11. \A k \in 1 .. 6 : enc[k] = header[k]
  <2> SUFFICES ASSUME NEW k \in 1 .. 6 PROVE enc[k] = header[k]
    OBVIOUS
  <2>1. k \in 1 .. 6 + Len(p) /\ k <= 6
    BY <1>1
  <2>2. covered[k] = header[k]
    BY <1>4, <2>1
  <2> QED
    BY <1>4, <1>8, <2>1, <2>2
<1>12. /\ enc[1] = C /\ enc[2] = M /\ enc[3] = VERSION /\ enc[4] = 4
       /\ enc[5] = n /\ enc[6] = Len(p)
  <2> HIDE DEF enc
  <2> QED
    BY <1>11
<1>13. /\ Len(enc) = HEADER_BYTES + Len(p) + CRC_BYTES
       /\ enc[HEADER_BYTES + Len(p) + CRC_BYTES]
            = crc16_ccitt(SubSeq(enc, 1, HEADER_BYTES + Len(p)))
  <2>1. HEADER_BYTES + Len(p) + CRC_BYTES = Len(covered) + 1
        /\ HEADER_BYTES + Len(p) = Len(covered)
    BY <1>1, <1>4 DEF HEADER_BYTES, CRC_BYTES
  <2> HIDE DEF covered, enc
  <2> QED
    BY <1>8, <1>9, <2>1 DEF crc
<1> QED
  BY <1>1, <1>8, <1>10, <1>12, <1>13 DEF HEADER_BYTES

(* A frame on the wire: the cells of its encoding, each with its number.   *)
LEMMA FramedShape ==
    ASSUME NEW n \in Nat, NEW p \in Payloads
    PROVE  /\ Framed(n, p) \in Seq(Cells)
           /\ Len(Framed(n, p)) = Len(Encode(4, n, p))
           /\ \A k \in 1 .. Len(Encode(4, n, p)) :
                 Framed(n, p)[k] = Cell(Encode(4, n, p)[k], n)
<1> DEFINE enc == Encode(4, n, p)
<1>1. enc \in Seq(Values)
  BY EncodeShape
<1>2. Len(enc) \in Nat /\ DOMAIN enc = 1 .. Len(enc)
  BY <1>1, LenProperties
<1>3. \A k \in 1 .. Len(enc) : enc[k] \in Values
  BY <1>1, ElementOfSeq
<1>4. \A k \in 1 .. Len(enc) : Cell(enc[k], n) \in Cells
  BY <1>3 DEF Cell, Cells
<1>5. Framed(n, p) = [k \in 1 .. Len(enc) |-> Cell(enc[k], n)]
  BY <1>2 DEF Framed
<1> HIDE DEF enc
<1>6. Framed(n, p) \in [1 .. Len(enc) -> Cells]
  BY <1>4, <1>5
<1>7. Framed(n, p) \in Seq(Cells) /\ Len(Framed(n, p)) = Len(enc)
  BY <1>2, <1>6
<1> QED
  BY <1>5, <1>7 DEF enc

-----------------------------------------------------------------------------
(* What is left of cells without the first ones.                           *)

LEMMA FromShape ==
    ASSUME NEW s \in Seq(Cells), NEW d \in 0 .. Len(s)
    PROVE  /\ From(s, d + 1) \in Seq(Cells)
           /\ Len(From(s, d + 1)) = Len(s) - d
           /\ \A k \in 1 .. Len(s) - d : From(s, d + 1)[k] = s[d + k]
<1>1. Len(s) \in Nat
  OBVIOUS
<1>2. CASE d = Len(s)
  <2>1. From(s, d + 1) = <<>>
    BY <1>1, <1>2 DEF From
  <2>2. <<>> \in Seq(Cells) /\ Len(<<>>) = 0
    OBVIOUS
  <2>3. Len(s) - d = 0
    BY <1>1, <1>2
  <2>4. \A k \in 1 .. Len(s) - d : From(s, d + 1)[k] = s[d + k]
    BY <2>3
  <2> QED
    BY <2>1, <2>2, <2>3, <2>4
<1>3. CASE d < Len(s)
  <2>1. SubSeq(s, d + 1, Len(s)) \in Seq(Cells)
        /\ Len(SubSeq(s, d + 1, Len(s))) = Len(s) - (d + 1) + 1
    BY <1>1, <1>3, SubSeqProperties
  <2>2. \A k \in 1 .. Len(s) - (d + 1) + 1 :
          SubSeq(s, d + 1, Len(s))[k] = s[d + 1 + k - 1]
    BY <1>1, <1>3, SubSeqProperties
  <2> QED
    BY <1>1, <1>3, <2>1, <2>2 DEF From
<1> QED
  BY <1>1, <1>2, <1>3

LEMMA FromFrom ==
    ASSUME NEW s \in Seq(Cells), NEW d \in 0 .. Len(s), NEW e \in 0 .. Len(s) - d
    PROVE  From(From(s, d + 1), e + 1) = From(s, d + e + 1)
<1> DEFINE t == From(s, d + 1)
           u == From(t, e + 1)
           v == From(s, d + e + 1)
<1>0. Len(s) \in Nat /\ d + e \in 0 .. Len(s)
  OBVIOUS
<1>1. t \in Seq(Cells) /\ Len(t) = Len(s) - d /\ \A k \in 1 .. Len(s) - d : t[k] = s[d + k]
  BY FromShape
<1>2. u \in Seq(Cells) /\ Len(u) = Len(t) - e /\ \A k \in 1 .. Len(t) - e : u[k] = t[e + k]
  <2> HIDE DEF t
  <2> QED
    BY <1>0, <1>1, FromShape DEF u
<1>3. /\ v \in Seq(Cells) /\ Len(v) = Len(s) - (d + e)
      /\ \A k \in 1 .. Len(s) - (d + e) : v[k] = s[d + e + k]
  BY <1>0, FromShape
<1> HIDE DEF t, u, v
<1>4. Len(u) = Len(v)
  BY <1>0, <1>1, <1>2, <1>3
<1>5. \A k \in 1 .. Len(u) : u[k] = v[k]
  <2> SUFFICES ASSUME NEW k \in 1 .. Len(s) - (d + e) PROVE u[k] = v[k]
    BY <1>0, <1>1, <1>2
  <2>1. k \in 1 .. Len(t) - e /\ e + k \in 1 .. Len(s) - d /\ d + (e + k) = d + e + k
    BY <1>0, <1>1
  <2>2. u[k] = t[e + k]
    BY <1>2, <2>1
  <2>3. t[e + k] = s[d + (e + k)]
    BY <1>1, <2>1
  <2> QED
    BY <1>3, <2>1, <2>2, <2>3
<1>6. u = v
  BY <1>2, <1>3, <1>4, <1>5, SeqEqual
<1> QED
  BY <1>6 DEF t, u, v

(* Dropping cells of the buffer is dropping them of the stream.            *)
LEMMA FromConcat ==
    ASSUME NEW s \in Seq(Cells), NEW t \in Seq(Cells), NEW d \in 0 .. Len(s)
    PROVE  From(s, d + 1) \o t = From(s \o t, d + 1)
<1> DEFINE u == From(s, d + 1) \o t
           v == From(s \o t, d + 1)
<1>0. Len(s) \in Nat /\ Len(t) \in Nat
  OBVIOUS
<1>1. /\ From(s, d + 1) \in Seq(Cells) /\ Len(From(s, d + 1)) = Len(s) - d
      /\ \A k \in 1 .. Len(s) - d : From(s, d + 1)[k] = s[d + k]
  BY FromShape
<1>2. /\ u \in Seq(Cells) /\ Len(u) = Len(s) - d + Len(t)
      /\ \A k \in 1 .. Len(s) - d + Len(t) :
            u[k] = IF k <= Len(s) - d THEN s[d + k] ELSE t[k - (Len(s) - d)]
  <2> DEFINE w == From(s, d + 1)
  <2>1. w \in Seq(Cells) /\ Len(w) = Len(s) - d /\ \A k \in 1 .. Len(s) - d : w[k] = s[d + k]
    BY <1>1
  <2> HIDE DEF w
  <2>2. w \o t \in Seq(Cells) /\ Len(w \o t) = Len(w) + Len(t)
    BY <2>1, ConcatProperties
  <2>3. \A k \in 1 .. Len(w) + Len(t) :
           (w \o t)[k] = IF k <= Len(w) THEN w[k] ELSE t[k - Len(w)]
    BY <2>1, ConcatProperties
  <2>4. \A k \in 1 .. Len(s) - d + Len(t) :
           (w \o t)[k] = IF k <= Len(s) - d THEN s[d + k] ELSE t[k - (Len(s) - d)]
    <3> SUFFICES ASSUME NEW k \in 1 .. Len(s) - d + Len(t)
                 PROVE  (w \o t)[k] = IF k <= Len(s) - d THEN s[d + k] ELSE t[k - (Len(s) - d)]
      OBVIOUS
    <3>1. (w \o t)[k] = IF k <= Len(s) - d THEN w[k] ELSE t[k - (Len(s) - d)]
      BY <2>1, <2>3
    <3>2. k <= Len(s) - d => w[k] = s[d + k]
      BY <1>0, <2>1
    <3> QED
      BY <3>1, <3>2
  <2>5. w \o t = u
    BY DEF w
  <2> QED
    BY <2>1, <2>2, <2>4, <2>5
<1>3. /\ s \o t \in Seq(Cells) /\ Len(s \o t) = Len(s) + Len(t)
      /\ \A k \in 1 .. Len(s) + Len(t) :
            (s \o t)[k] = IF k <= Len(s) THEN s[k] ELSE t[k - Len(s)]
  <2>1. s \o t \in Seq(Cells) /\ Len(s \o t) = Len(s) + Len(t)
    BY ConcatProperties
  <2>2. \A k \in 1 .. Len(s) + Len(t) :
           (s \o t)[k] = IF k <= Len(s) THEN s[k] ELSE t[k - Len(s)]
    BY ConcatProperties
  <2> QED
    BY <2>1, <2>2
<1>4. /\ v \in Seq(Cells) /\ Len(v) = Len(s) + Len(t) - d
      /\ \A k \in 1 .. Len(s) + Len(t) - d : v[k] = (s \o t)[d + k]
  <2> DEFINE w == s \o t
  <2>1. w \in Seq(Cells) /\ d \in 0 .. Len(w) /\ Len(w) = Len(s) + Len(t)
    BY <1>0, <1>3
  <2> HIDE DEF w
  <2>2. /\ From(w, d + 1) \in Seq(Cells) /\ Len(From(w, d + 1)) = Len(w) - d
        /\ \A k \in 1 .. Len(w) - d : From(w, d + 1)[k] = w[d + k]
    BY <2>1, FromShape
  <2> QED
    BY <2>1, <2>2 DEF w
<1> HIDE DEF u, v
<1>5. \A k \in 1 .. Len(u) : u[k] = v[k]
  <2> SUFFICES ASSUME NEW k \in 1 .. Len(s) - d + Len(t) PROVE u[k] = v[k]
    BY <1>2
  <2>1. k \in 1 .. Len(s) + Len(t) - d /\ d + k \in 1 .. Len(s) + Len(t)
    BY <1>0
  <2>2. v[k] = IF d + k <= Len(s) THEN s[d + k] ELSE t[d + k - Len(s)]
    BY <1>3, <1>4, <2>1
  <2>3. u[k] = IF k <= Len(s) - d THEN s[d + k] ELSE t[k - (Len(s) - d)]
    BY <1>2
  <2>4. (d + k <= Len(s) <=> k <= Len(s) - d) /\ d + k - Len(s) = k - (Len(s) - d)
    BY <1>0
  <2> QED
    BY <2>2, <2>3, <2>4
<1>6. Len(u) = Len(v)
  BY <1>0, <1>2, <1>4
<1>7. u = v
  BY <1>2, <1>4, <1>5, <1>6, SeqEqual
<1> QED
  BY <1>7 DEF u, v

-----------------------------------------------------------------------------
(* The state: what its types give the later lemmas.                        *)

TypeInv ==
    /\ TypeOK
    /\ Len(sent) <= MaxFrames
    /\ buffer \in Seq(Cells) /\ wire \in Seq(Cells)
    /\ got \in Seq(Events)

LEMMA StreamShape ==
    ASSUME TypeInv
    PROVE  /\ Stream \in Seq(Cells) /\ Len(Stream) = Len(buffer) + Len(wire)
           /\ Len(buffer) \in Nat /\ Len(wire) \in Nat
           /\ \A k \in 1 .. Len(buffer) : Stream[k] = buffer[k]
           /\ \A k \in 1 .. Len(wire) : Stream[Len(buffer) + k] = wire[k]
<1>1. buffer \in Seq(Cells) /\ wire \in Seq(Cells)
  BY DEF TypeInv
<1>2. Len(buffer) \in Nat /\ Len(wire) \in Nat
  BY <1>1
<1>3. Stream \in Seq(Cells) /\ Len(Stream) = Len(buffer) + Len(wire)
  BY <1>1, ConcatProperties DEF Stream
<1>4. \A k \in 1 .. Len(buffer) + Len(wire) :
         Stream[k] = IF k <= Len(buffer) THEN buffer[k] ELSE wire[k - Len(buffer)]
  BY <1>1, ConcatProperties DEF Stream
<1>5. ASSUME NEW k \in 1 .. Len(wire) PROVE Stream[Len(buffer) + k] = wire[k]
  <2>1. Len(buffer) + k \in 1 .. Len(buffer) + Len(wire)
        /\ ~(Len(buffer) + k <= Len(buffer)) /\ Len(buffer) + k - Len(buffer) = k
    BY <1>2
  <2> QED
    BY <1>4, <2>1
<1> QED
  BY <1>2, <1>3, <1>4, <1>5

LEMMA SentShape ==
    ASSUME TypeInv, NEW n \in DOMAIN sent
    PROVE  /\ n \in Nat /\ n \in 1 .. Len(sent) /\ Len(sent) \in Nat
           /\ sent[n] \in Payloads /\ Len(sent[n]) \in 0 .. MaxPayload
           /\ FrameLength(n) \in Nat /\ FrameLength(n) = Len(sent[n]) + 7
           /\ FrameLength(n) = Len(Encode(4, n, sent[n]))
           /\ \A k \in 1 .. FrameLength(n) :
                 Framed(n, sent[n])[k] = Cell(Encode(4, n, sent[n])[k], n)
<1>1. sent \in Seq(Payloads)
  BY DEF TypeInv, TypeOK
<1>2. n \in 1 .. Len(sent) /\ Len(sent) \in Nat /\ sent[n] \in Payloads
  BY <1>1, LenProperties, ElementOfSeq
<1>3. n \in Nat
  BY <1>2
<1>4. /\ Len(sent[n]) \in 0 .. MaxPayload
      /\ Len(Encode(4, n, sent[n])) = HEADER_BYTES + Len(sent[n]) + CRC_BYTES
  BY <1>2, <1>3, EncodeShape
<1>5. FrameLength(n) = Len(Encode(4, n, sent[n]))
  BY <1>4 DEF FrameLength
<1>6. FrameLength(n) \in Nat /\ FrameLength(n) = Len(sent[n]) + 7
  BY <1>4, CodecAssumption DEF FrameLength, HEADER_BYTES, CRC_BYTES
<1>7. \A k \in 1 .. FrameLength(n) :
         Framed(n, sent[n])[k] = Cell(Encode(4, n, sent[n])[k], n)
  BY <1>2, <1>3, <1>5, FramedShape
<1> QED
  BY <1>2, <1>3, <1>4, <1>5, <1>6, <1>7

(* A frame that stands begins with a magic and a good header, and all its  *)
(* cells are its own.                                                      *)
LEMMA StandsShape ==
    ASSUME TypeInv, NEW n \in DOMAIN sent, NEW p \in Nat, NEW s \in Seq(Cells),
           Stands(n, p, s)
    PROVE  /\ p + FrameLength(n) <= Len(s)
           /\ s[p + 1].val = C /\ s[p + 2].val = M /\ s[p + 3].val = VERSION
           /\ s[p + 4].val = 4 /\ s[p + 5].val = n /\ s[p + 6].val = Len(sent[n])
           /\ \A k \in 1 .. FrameLength(n) : s[p + k] = Cell(Encode(4, n, sent[n])[k], n)
           /\ \A k \in 1 .. FrameLength(n) : s[p + k].frame = n
<1> DEFINE enc == Encode(4, n, sent[n])
<1>1. /\ n \in Nat /\ sent[n] \in Payloads /\ FrameLength(n) \in Nat
      /\ FrameLength(n) = Len(sent[n]) + 7 /\ Len(sent[n]) \in 0 .. MaxPayload
      /\ \A k \in 1 .. FrameLength(n) : Framed(n, sent[n])[k] = Cell(enc[k], n)
  BY SentShape
<1>2. MaxPayload \in Nat
  BY CodecAssumption
<1>3. \A k \in 1 .. FrameLength(n) : p + k <= Len(s) /\ s[p + k] = Cell(enc[k], n)
  BY <1>1 DEF Stands
<1>4. FrameLength(n) \in 1 .. FrameLength(n) /\ \A k \in 1 .. 6 : k \in 1 .. FrameLength(n)
  BY <1>1, <1>2
<1>5. /\ enc[1] = C /\ enc[2] = M /\ enc[3] = VERSION
      /\ enc[4] = 4 /\ enc[5] = n /\ enc[6] = Len(sent[n])
  <2> DEFINE q == sent[n]
  <2>1. n \in Nat /\ q \in Payloads
    BY <1>1
  <2> HIDE DEF q
  <2>2. /\ Encode(4, n, q)[1] = C /\ Encode(4, n, q)[2] = M
        /\ Encode(4, n, q)[3] = VERSION /\ Encode(4, n, q)[4] = 4
        /\ Encode(4, n, q)[5] = n /\ Encode(4, n, q)[6] = Len(q)
    BY <2>1, EncodeShape
  <2> QED
    BY <2>2 DEF q
<1>6. \A k \in 1 .. 6 : s[p + k] = Cell(enc[k], n)
  BY <1>3, <1>4
<1>7. \A k \in 1 .. 6 : s[p + k].val = enc[k]
  BY <1>6 DEF Cell
<1> HIDE DEF enc
<1>8. \A k \in 1 .. FrameLength(n) : s[p + k].frame = n
  <2> SUFFICES ASSUME NEW k \in 1 .. FrameLength(n) PROVE s[p + k].frame = n
    OBVIOUS
  <2>1. s[p + k] = Cell(enc[k], n)
    BY <1>3
  <2> QED
    BY <2>1 DEF Cell
<1>9. /\ s[p + 1].val = C /\ s[p + 2].val = M /\ s[p + 3].val = VERSION
      /\ s[p + 4].val = 4 /\ s[p + 5].val = n /\ s[p + 6].val = Len(sent[n])
  <2>1. /\ s[p + 1].val = enc[1] /\ s[p + 2].val = enc[2] /\ s[p + 3].val = enc[3]
        /\ s[p + 4].val = enc[4] /\ s[p + 5].val = enc[5] /\ s[p + 6].val = enc[6]
    <3>1. 1 \in 1 .. 6 /\ 2 \in 1 .. 6 /\ 3 \in 1 .. 6
          /\ 4 \in 1 .. 6 /\ 5 \in 1 .. 6 /\ 6 \in 1 .. 6
      OBVIOUS
    <3> QED
      BY <1>7, <3>1
  <2> QED
    BY <1>5, <2>1
<1>10. p + FrameLength(n) <= Len(s)
  BY <1>3, <1>4
<1>11. \A k \in 1 .. FrameLength(n) : s[p + k] = Cell(Encode(4, n, sent[n])[k], n)
  BY <1>3 DEF enc
<1> QED
  BY <1>8, <1>9, <1>10, <1>11

(***************************************************************************)
(* Every non-empty set of numbers has a least element: well-foundedness of *)
(* the subset ordering on the intervals 0 .. n, in the library's form for  *)
(* sets.                                                                   *)
(***************************************************************************)
LEMMA LeastNumber ==
    ASSUME NEW A \in SUBSET Nat, A # {}
    PROVE  \E m \in A : \A n \in A : m <= n
<1> DEFINE T == {0 .. n : n \in A}
<1>1. T \subseteq FiniteSubsetsOf(Nat)
  <2> SUFFICES ASSUME NEW n \in A PROVE 0 .. n \in FiniteSubsetsOf(Nat)
    OBVIOUS
  <2>1. IsFiniteSet(0 .. n)
    BY FS_Interval
  <2> QED
    BY <2>1 DEF FiniteSubsetsOf
<1>2. T # {}
  OBVIOUS
<1>3. IsWellFoundedOn(StrictSubsetOrdering(Nat), FiniteSubsetsOf(Nat))
  BY FS_StrictSubsetOrderingWellFounded
<1>4. PICK x \in T : \A y \in T : <<y, x>> \notin StrictSubsetOrdering(Nat)
  <2> HIDE DEF T
  <2> QED
    BY <1>1, <1>2, <1>3, WFMin
<1>5. PICK m \in A : x = 0 .. m
  OBVIOUS
<1>6. ASSUME NEW n \in A PROVE m <= n
  <2> SUFFICES ASSUME n < m PROVE FALSE
    OBVIOUS
  <2>1. 0 .. n \in T
    OBVIOUS
  <2>2. 0 .. n \subseteq 0 .. m /\ m \in 0 .. m /\ m \notin 0 .. n
    OBVIOUS
  <2>3. <<0 .. n, 0 .. m>> \in StrictSubsetOrdering(Nat)
    BY <2>2 DEF StrictSubsetOrdering
  <2> QED
    BY <1>4, <1>5, <2>1, <2>3
<1> QED
  BY <1>6

(* The decoder aligns to the first magic in its buffer.                    *)
LEMMA AlignedShape ==
    ASSUME TypeInv, Found
    PROVE  \E a \in 1 .. Len(buffer) - 1 :
              /\ Aligned = From(buffer, a)
              /\ buffer[a].val = C /\ buffer[a + 1].val = M
              /\ \A j \in 1 .. Len(buffer) - 1 :
                    buffer[j].val = C /\ buffer[j + 1].val = M => a <= j
<1> DEFINE first == CHOOSE k \in MagicAt(buffer) : \A j \in MagicAt(buffer) : k <= j
<1>1. Len(buffer) \in Nat
  BY StreamShape
<1>2. MagicAt(buffer) \in SUBSET Nat /\ MagicAt(buffer) # {}
  BY <1>1 DEF MagicAt, Found
<1>3. \E k \in MagicAt(buffer) : \A j \in MagicAt(buffer) : k <= j
  <2> DEFINE A == MagicAt(buffer)
  <2>1. A \in SUBSET Nat /\ A # {}
    BY <1>2
  <2> HIDE DEF A
  <2>2. \E m \in A : \A n \in A : m <= n
    BY <2>1, LeastNumber
  <2> QED
    BY <2>2 DEF A
<1>4. first \in MagicAt(buffer) /\ \A j \in MagicAt(buffer) : first <= j
  BY <1>3
<1>5. Aligned = From(buffer, first)
  BY DEF Aligned
<1> HIDE DEF first
<1> QED
  BY <1>4, <1>5 DEF MagicAt

(* No intact frame begins before the first magic.                          *)
LEMMA MagicFirst ==
    ASSUME TypeInv, NEW n \in DOMAIN sent, NEW p \in Nat, Stands(n, p, Stream)
    PROVE  \/ p + 1 \in 1 .. Len(buffer) - 1
              /\ buffer[p + 1].val = C /\ buffer[p + 2].val = M
           \/ p + 1 >= Len(buffer)
<1>1. /\ Stream \in Seq(Cells) /\ Len(buffer) \in Nat
      /\ \A k \in 1 .. Len(buffer) : Stream[k] = buffer[k]
  BY StreamShape
<1>2. Stream[p + 1].val = C /\ Stream[p + 2].val = M
  BY <1>1, StandsShape
<1> SUFFICES ASSUME p + 1 < Len(buffer)
             PROVE  /\ p + 1 \in 1 .. Len(buffer) - 1
                    /\ buffer[p + 1].val = C /\ buffer[p + 2].val = M
  BY <1>1
<1>3. p + 1 \in 1 .. Len(buffer) - 1 /\ p + 1 \in 1 .. Len(buffer) /\ p + 2 \in 1 .. Len(buffer)
  BY <1>1
<1> QED
  BY <1>1, <1>2, <1>3

LEMMA ValsShape ==
    ASSUME NEW s \in Seq(Cells)
    PROVE  /\ Vals(s) \in Seq(Values) /\ Len(Vals(s)) = Len(s)
           /\ \A k \in 1 .. Len(s) : Vals(s)[k] = s[k].val
<1>1. DOMAIN s = 1 .. Len(s) /\ Len(s) \in Nat
  BY LenProperties
<1>2. \A k \in 1 .. Len(s) : s[k].val \in Values
  <2> SUFFICES ASSUME NEW k \in 1 .. Len(s) PROVE s[k].val \in Values
    OBVIOUS
  <2>1. s[k] \in Cells
    BY ElementOfSeq
  <2> QED
    BY <2>1 DEF Cells
<1>3. Vals(s) = [k \in 1 .. Len(s) |-> s[k].val]
  BY <1>1 DEF Vals
<1>4. Vals(s) \in [1 .. Len(s) -> Values]
  BY <1>2, <1>3
<1>5. Vals(s) \in Seq(Values) /\ Len(Vals(s)) = Len(s)
  BY <1>1, <1>4
<1> QED
  BY <1>3, <1>5

(* The decoder recognises a frame that stands in front of it: header,      *)
(* checksum, type, number and payload.                                     *)
LEMMA FrontFrame ==
    ASSUME TypeInv, NEW n \in DOMAIN sent, NEW s \in Seq(Cells), Stands(n, 0, s)
    PROVE  /\ Payload(s) = Len(sent[n]) /\ Total(s) = FrameLength(n)
           /\ GoodHeader(s) /\ CrcMatches(s)
           /\ s[4].val = 4 /\ s[5].val = n
           /\ SubSeq(Vals(s), HEADER_BYTES + 1, Total(s) - CRC_BYTES) = sent[n]
<1> DEFINE pay == sent[n]
           enc == Encode(4, n, pay)
           L == FrameLength(n)
<1>1. /\ n \in Nat /\ pay \in Payloads /\ L \in Nat /\ L = Len(pay) + 7
      /\ Len(pay) \in 0 .. MaxPayload /\ L = Len(enc)
  BY SentShape
<1>2. MaxPayload \in Nat /\ pay \in Seq(0 .. 99)
  BY <1>1, CodecAssumption
<1>3. /\ 0 + L <= Len(s)
      /\ s[0 + 3].val = VERSION /\ s[0 + 4].val = 4 /\ s[0 + 5].val = n
      /\ s[0 + 6].val = Len(pay)
      /\ \A k \in 1 .. L : s[0 + k] = Cell(enc[k], n)
  BY 0 \in Nat, StandsShape
<1>4. L <= Len(s) /\ Len(s) \in Nat
  BY <1>1, <1>3
<1>5. s[3].val = VERSION /\ s[4].val = 4 /\ s[5].val = n /\ s[6].val = Len(pay)
  BY <1>3
<1>6. Payload(s) = Len(pay) /\ Total(s) = L
  BY <1>1, <1>5 DEF Payload, Total, HEADER_BYTES, CRC_BYTES
<1>7. GoodHeader(s)
  BY <1>1, <1>5, <1>6 DEF GoodHeader
<1>8. /\ enc \in Seq(Values) /\ enc[HEADER_BYTES + Len(pay) + CRC_BYTES]
            = crc16_ccitt(SubSeq(enc, 1, HEADER_BYTES + Len(pay)))
      /\ \A k \in 1 .. Len(pay) : enc[HEADER_BYTES + k] = pay[k]
  <2> HIDE DEF pay
  <2> QED
    BY <1>1, EncodeShape
<1>9. HEADER_BYTES + Len(pay) + CRC_BYTES = L /\ HEADER_BYTES + Len(pay) = L - 1
      /\ HEADER_BYTES = 6 /\ CRC_BYTES = 1
  BY <1>1 DEF HEADER_BYTES, CRC_BYTES
<1>10. /\ Vals(s) \in Seq(Values) /\ Len(Vals(s)) = Len(s)
       /\ \A k \in 1 .. Len(s) : Vals(s)[k] = s[k].val
  BY ValsShape
<1> HIDE DEF enc, pay, L
<1>11. \A k \in 1 .. L : s[k].val = enc[k]
  <2> SUFFICES ASSUME NEW k \in 1 .. L PROVE s[k].val = enc[k]
    OBVIOUS
  <2>1. s[0 + k] = Cell(enc[k], n) /\ 0 + k = k
    BY <1>1, <1>3
  <2> QED
    BY <2>1 DEF Cell
<1>12. \A k \in 1 .. L : Vals(s)[k] = enc[k]
  <2> SUFFICES ASSUME NEW k \in 1 .. L PROVE Vals(s)[k] = enc[k]
    OBVIOUS
  <2>1. k \in 1 .. Len(s)
    BY <1>1, <1>4
  <2> QED
    BY <1>10, <1>11, <2>1
<1>13. SubSeq(Vals(s), 1, L - 1) = SubSeq(enc, 1, L - 1)
  <2> DEFINE v == SubSeq(Vals(s), 1, L - 1)
             w == SubSeq(enc, 1, L - 1)
  <2>1. L - 1 \in 1 .. Len(s) /\ L - 1 \in 1 .. Len(enc) /\ L - 1 - 1 + 1 = L - 1
    BY <1>1, <1>2, <1>4
  <2>2. v \in Seq(Values) /\ Len(v) = L - 1 /\ \A k \in 1 .. L - 1 : v[k] = Vals(s)[k]
    <3> DEFINE x == Vals(s)
    <3>1. x \in Seq(Values) /\ L - 1 \in 1 .. Len(x)
      BY <1>10, <2>1
    <3> HIDE DEF x
    <3>2. SubSeq(x, 1, L - 1) \in Seq(Values) /\ Len(SubSeq(x, 1, L - 1)) = L - 1
          /\ \A k \in 1 .. L - 1 : SubSeq(x, 1, L - 1)[k] = x[k]
      BY <3>1
    <3> QED
      BY <3>2 DEF x
  <2>3. w \in Seq(Values) /\ Len(w) = L - 1 /\ \A k \in 1 .. L - 1 : w[k] = enc[k]
    BY <1>8, <2>1
  <2> HIDE DEF v, w
  <2>4. \A k \in 1 .. L - 1 : k \in 1 .. L
    BY <1>1
  <2>5. \A k \in 1 .. Len(v) : v[k] = w[k]
    BY <1>12, <2>2, <2>3, <2>4
  <2>6. v = w
    BY <2>2, <2>3, <2>5, SeqEqual
  <2> QED
    BY <2>6 DEF v, w
<1>14. CrcMatches(s)
  <2>1. L \in 1 .. L
    BY <1>1, <1>2
  <2>2. s[L].val = crc16_ccitt(SubSeq(enc, 1, L - 1))
    BY <1>8, <1>9, <1>11, <2>1
  <2>3. Total(s) - CRC_BYTES = L - 1
    BY <1>6, <1>9
  <2> QED
    BY <1>6, <1>13, <2>2, <2>3 DEF CrcMatches
<1>15. SubSeq(Vals(s), HEADER_BYTES + 1, Total(s) - CRC_BYTES) = pay
  <2> DEFINE x == Vals(s)
             v == SubSeq(x, 7, L - 1)
  <2>0. HEADER_BYTES + 1 = 7 /\ Total(s) - CRC_BYTES = L - 1
    BY <1>6, <1>9
  <2>1. x \in Seq(Values) /\ Len(x) = Len(s) /\ Len(pay) \in Nat /\ L - 1 <= Len(x)
    BY <1>1, <1>2, <1>4, <1>10
  <2>2. pay \in Seq(Values)
    <3>1. 0 .. 99 \subseteq Values
      BY DEF Values
    <3> QED
      BY <1>2, <3>1, SeqMonotonic
  <2>3. CASE Len(pay) = 0
    <3>1. v = <<>>
      BY <1>1, <2>1, <2>3
    <3>2. pay = <<>>
      BY <1>2, <2>3
    <3> QED
      BY <2>0, <3>1, <3>2
  <2>4. CASE Len(pay) > 0
    <3>1. 7 \in 1 .. Len(x) /\ L - 1 \in 7 - 1 .. Len(x)
      BY <1>1, <1>4, <2>1, <2>4
    <3> HIDE DEF x
    <3>2. v \in Seq(Values) /\ Len(v) = L - 1 - 7 + 1
          /\ \A k \in 1 .. L - 1 - 7 + 1 : v[k] = x[7 + k - 1]
      BY <1>1, <2>1, <3>1, SubSeqProperties
    <3>3. L - 1 - 7 + 1 = Len(pay)
      BY <1>1, <2>1
    <3> HIDE DEF v
    <3>4. \A k \in 1 .. Len(v) : v[k] = pay[k]
      <4> SUFFICES ASSUME NEW k \in 1 .. Len(pay) PROVE v[k] = pay[k]
        BY <3>2, <3>3
      <4>1. 7 + k - 1 = 6 + k /\ 6 + k \in 1 .. L
        BY <1>1, <2>1
      <4>2. v[k] = x[6 + k]
        BY <3>2, <3>3, <4>1
      <4>3. x[6 + k] = enc[6 + k]
        BY <1>12, <4>1 DEF x
      <4> QED
        BY <1>8, <1>9, <4>2, <4>3
    <3>5. v = pay
      BY <2>2, <3>2, <3>3, <3>4, SeqEqual
    <3> QED
      BY <2>0, <3>5 DEF v, x
  <2> QED
    BY <2>1, <2>3, <2>4
<1> QED
  BY <1>5, <1>6, <1>7, <1>14, <1>15 DEF pay, L

-----------------------------------------------------------------------------
(* What each step of the decoder drops.                                    *)

(* Position a of the buffer is its first magic.                            *)
View(a) ==
    /\ a \in 1 .. Len(buffer) - 1
    /\ Aligned \in Seq(Cells) /\ Len(Aligned) = Len(buffer) - a + 1
    /\ \A k \in 1 .. Len(Aligned) : Aligned[k] = Stream[a - 1 + k]
    /\ Aligned[1].val = C /\ Aligned[2].val = M
    /\ \A e \in 0 .. Len(Aligned) : From(Aligned, e + 1) = From(buffer, a - 1 + e + 1)
    /\ \A n \in DOMAIN sent, p \in Nat : Stands(n, p, Stream) => p >= a - 1

LEMMA AlignedView ==
    ASSUME TypeInv, Found
    PROVE  \E a \in Nat : View(a)
<1>1. PICK a \in 1 .. Len(buffer) - 1 :
         /\ Aligned = From(buffer, a)
         /\ buffer[a].val = C /\ buffer[a + 1].val = M
         /\ \A j \in 1 .. Len(buffer) - 1 :
               buffer[j].val = C /\ buffer[j + 1].val = M => a <= j
  BY AlignedShape
<1>2. /\ buffer \in Seq(Cells) /\ Len(buffer) \in Nat
      /\ \A k \in 1 .. Len(buffer) : Stream[k] = buffer[k]
  BY StreamShape DEF TypeInv
<1>3. a - 1 \in 0 .. Len(buffer) /\ a = a - 1 + 1 /\ a \in Nat
  BY <1>2
<1>4. /\ Aligned \in Seq(Cells) /\ Len(Aligned) = Len(buffer) - (a - 1)
      /\ \A k \in 1 .. Len(buffer) - (a - 1) : Aligned[k] = buffer[a - 1 + k]
  <2> DEFINE d == a - 1
  <2>1. d \in 0 .. Len(buffer) /\ Aligned = From(buffer, d + 1)
    BY <1>1, <1>3
  <2> HIDE DEF d
  <2>2. /\ From(buffer, d + 1) \in Seq(Cells)
        /\ Len(From(buffer, d + 1)) = Len(buffer) - d
        /\ \A k \in 1 .. Len(buffer) - d : From(buffer, d + 1)[k] = buffer[d + k]
    BY <1>2, <2>1, FromShape
  <2> QED
    BY <2>1, <2>2 DEF d
<1>5. Len(Aligned) = Len(buffer) - a + 1
  BY <1>2, <1>4
<1>6. \A k \in 1 .. Len(Aligned) : Aligned[k] = Stream[a - 1 + k]
  <2> SUFFICES ASSUME NEW k \in 1 .. Len(Aligned) PROVE Aligned[k] = Stream[a - 1 + k]
    OBVIOUS
  <2>1. k \in 1 .. Len(buffer) - (a - 1) /\ a - 1 + k \in 1 .. Len(buffer)
    BY <1>2, <1>3, <1>4
  <2> QED
    BY <1>2, <1>4, <2>1
<1>7. Aligned[1].val = C /\ Aligned[2].val = M
  <2>1. 1 \in 1 .. Len(buffer) - (a - 1) /\ 2 \in 1 .. Len(buffer) - (a - 1)
        /\ a - 1 + 1 = a /\ a - 1 + 2 = a + 1
    BY <1>2
  <2> QED
    BY <1>1, <1>4, <2>1
<1>8. \A e \in 0 .. Len(Aligned) : From(Aligned, e + 1) = From(buffer, a - 1 + e + 1)
  <2> SUFFICES ASSUME NEW e \in 0 .. Len(Aligned)
               PROVE  From(Aligned, e + 1) = From(buffer, a - 1 + e + 1)
    OBVIOUS
  <2>1. e \in 0 .. Len(buffer) - (a - 1)
    BY <1>4
  <2>2. From(From(buffer, a - 1 + 1), e + 1) = From(buffer, a - 1 + e + 1)
    BY <1>2, <1>3, <2>1, FromFrom
  <2> QED
    BY <1>1, <1>3, <2>2
<1>9. ASSUME NEW n \in DOMAIN sent, NEW p \in Nat, Stands(n, p, Stream)
      PROVE  p >= a - 1
  <2>1. CASE /\ p + 1 \in 1 .. Len(buffer) - 1
             /\ buffer[p + 1].val = C /\ buffer[p + 2].val = M
    <3>1. p + 1 + 1 = p + 2
      OBVIOUS
    <3>2. a <= p + 1
      BY <1>1, <2>1, <3>1
    <3> QED
      BY <1>3, <3>2
  <2>2. CASE p + 1 >= Len(buffer)
    BY <1>2, <2>2
  <2> QED
    BY <1>9, <2>1, <2>2, MagicFirst
<1> QED
  BY <1>1, <1>3, <1>4, <1>5, <1>6, <1>7, <1>8, <1>9 DEF View

(* A frame that stands at the first magic stands in front of the aligned   *)
(* buffer, as far as that reaches.                                         *)
LEMMA AtTheMagic ==
    ASSUME TypeInv, NEW a \in Nat, View(a), NEW n \in DOMAIN sent,
           Stands(n, a - 1, Stream), Len(Aligned) >= HEADER_BYTES
    PROVE  /\ GoodHeader(Aligned) /\ Total(Aligned) = FrameLength(n)
           /\ Len(Aligned) >= Total(Aligned) => Stands(n, 0, Aligned)
<1>1. /\ a - 1 \in Nat /\ Aligned \in Seq(Cells) /\ Len(Aligned) \in Nat
      /\ \A k \in 1 .. Len(Aligned) : Aligned[k] = Stream[a - 1 + k]
  BY DEF View
<1>2. Stream \in Seq(Cells)
  BY StreamShape
<1>3. /\ Stream[a - 1 + 3].val = VERSION /\ Stream[a - 1 + 6].val = Len(sent[n])
      /\ \A k \in 1 .. FrameLength(n) :
            Stream[a - 1 + k] = Cell(Encode(4, n, sent[n])[k], n)
  BY <1>1, <1>2, StandsShape
<1>4. 3 \in 1 .. Len(Aligned) /\ 6 \in 1 .. Len(Aligned)
  BY <1>1 DEF HEADER_BYTES
<1>5. Aligned[3].val = VERSION /\ Aligned[6].val = Len(sent[n])
  BY <1>1, <1>3, <1>4
<1>6. /\ Len(sent[n]) \in 0 .. MaxPayload /\ FrameLength(n) = Len(sent[n]) + 7
      /\ FrameLength(n) \in Nat
      /\ \A k \in 1 .. FrameLength(n) :
            Framed(n, sent[n])[k] = Cell(Encode(4, n, sent[n])[k], n)
  BY SentShape
<1>7. Payload(Aligned) = Len(sent[n]) /\ Total(Aligned) = FrameLength(n)
  BY <1>5, <1>6 DEF Payload, Total, HEADER_BYTES, CRC_BYTES
<1>8. GoodHeader(Aligned)
  BY <1>5, <1>6, <1>7 DEF GoodHeader
<1>9. ASSUME Len(Aligned) >= Total(Aligned) PROVE Stands(n, 0, Aligned)
  <2> SUFFICES ASSUME NEW k \in 1 .. FrameLength(n)
               PROVE  0 + k <= Len(Aligned) /\ Aligned[0 + k] = Framed(n, sent[n])[k]
    BY DEF Stands
  <2>1. 0 + k = k /\ k \in 1 .. Len(Aligned)
    BY <1>1, <1>6, <1>7, <1>9
  <2> QED
    BY <1>1, <1>3, <1>6, <2>1
<1> QED
  BY <1>7, <1>8, <1>9

(* The first d cells of the stream go, and no frame stands among them.     *)
Drops(d) ==
    /\ d \in 0 .. Len(buffer)
    /\ buffer' = From(buffer, d + 1)
    /\ UNCHANGED <<sent, hurt, wire, faults>>
DropsNone(d) == \A n \in DOMAIN sent, p \in Nat : Stands(n, p, Stream) => p >= d

LEMMA NoMagicDrops ==
    ASSUME TypeInv, NoMagic
    PROVE  \E d \in Nat : Drops(d) /\ DropsNone(d) /\ d >= Len(buffer) - 1
<1>1. /\ buffer \in Seq(Cells) /\ Len(buffer) \in Nat
      /\ \A k \in 1 .. Len(buffer) : Stream[k] = buffer[k]
  BY StreamShape DEF TypeInv
<1>2. ASSUME NEW n \in DOMAIN sent, NEW p \in Nat, Stands(n, p, Stream)
      PROVE  p + 1 >= Len(buffer)
  <2> SUFFICES ASSUME p + 1 \in 1 .. Len(buffer) - 1,
                      buffer[p + 1].val = C, buffer[p + 2].val = M
               PROVE  FALSE
    BY <1>2, MagicFirst
  <2>1. p + 1 + 1 = p + 2
    OBVIOUS
  <2>2. p + 1 \in MagicAt(buffer)
    BY <2>1 DEF MagicAt
  <2> QED
    BY <2>2 DEF NoMagic, Found
<1>3. UNCHANGED <<sent, hurt, wire, faults>>
  BY DEF NoMagic
<1>4. CASE buffer # <<>> /\ Last(buffer).val = C
  <2>1. Len(buffer) >= 1
    BY <1>1, <1>4
  <2>2. buffer' = <<buffer[Len(buffer)]>>
    BY <1>4 DEF NoMagic, Last
  <2> DEFINE d == Len(buffer) - 1
             t == From(buffer, d + 1)
  <2>3. d \in Nat /\ d \in 0 .. Len(buffer) /\ Len(buffer) - d = 1 /\ d + 1 = Len(buffer)
    BY <1>1, <2>1
  <2>4. t \in Seq(Cells) /\ Len(t) = 1 /\ t[1] = buffer[Len(buffer)]
    <3>1. /\ t \in Seq(Cells) /\ Len(t) = Len(buffer) - d
          /\ \A k \in 1 .. Len(buffer) - d : t[k] = buffer[d + k]
      BY <1>1, <2>3, FromShape
    <3> QED
      BY <2>3, <3>1
  <2>5. t = <<buffer[Len(buffer)]>>
    <3> HIDE DEF t
    <3> QED
      BY <2>4
  <2>6. \A n \in DOMAIN sent, p \in Nat : Stands(n, p, Stream) => p >= d
    BY <1>1, <1>2
  <2>7. buffer' = t
    BY <2>2, <2>5
  <2>8. d \in Nat /\ d \in 0 .. Len(buffer) /\ d >= Len(buffer) - 1
    BY <1>1, <2>3
  <2> HIDE DEF d
  <2> QED
    BY <1>3, <2>6, <2>7, <2>8 DEF Drops, DropsNone
<1>5. CASE ~(buffer # <<>> /\ Last(buffer).val = C)
  <2>1. buffer' = <<>>
    BY <1>5 DEF NoMagic
  <2>2. From(buffer, Len(buffer) + 1) = <<>>
    BY <1>1 DEF From
  <2>3. ASSUME NEW n \in DOMAIN sent, NEW p \in Nat, Stands(n, p, Stream)
        PROVE  p >= Len(buffer)
    <3> SUFFICES ASSUME p + 1 = Len(buffer) PROVE FALSE
      BY <1>1, <1>2, <2>3
    <3>1. Stream[p + 1].val = C
      BY <2>3, StreamShape, StandsShape
    <3>2. p + 1 \in 1 .. Len(buffer)
      OBVIOUS
    <3>3. buffer[Len(buffer)].val = C /\ buffer # <<>>
      BY <1>1, <3>1, <3>2
    <3> QED
      BY <1>5, <3>3 DEF Last
  <2> QED
    BY <1>1, <1>3, <2>1, <2>2, <2>3 DEF Drops, DropsNone
<1> QED
  BY <1>4, <1>5

LEMMA IncompleteDrops ==
    ASSUME TypeInv, Incomplete
    PROVE  \E a \in Nat : View(a) /\ Drops(a - 1) /\ DropsNone(a - 1)
<1>1. PICK a \in Nat : View(a)
  BY AlignedView DEF Incomplete
<1>2. /\ Len(buffer) \in Nat /\ a \in 1 .. Len(buffer) - 1
      /\ Len(Aligned) = Len(buffer) - a + 1 /\ Aligned \in Seq(Cells)
      /\ \A e \in 0 .. Len(Aligned) : From(Aligned, e + 1) = From(buffer, a - 1 + e + 1)
  BY <1>1, StreamShape DEF View
<1>3. Aligned = From(buffer, a - 1 + 1)
  <2>1. From(Aligned, 0 + 1) = From(buffer, a - 1 + 0 + 1)
    BY <1>2
  <2>2. a - 1 + 0 + 1 = a - 1 + 1 /\ 0 + 1 = 1
    BY <1>2
  <2>3. From(Aligned, 1) = Aligned
    BY <1>2 DEF From
  <2> QED
    BY <2>1, <2>2, <2>3
<1>4. Drops(a - 1)
  BY <1>2, <1>3 DEF Drops, Incomplete
<1>5. DropsNone(a - 1)
  BY <1>1 DEF View, DropsNone
<1> QED
  BY <1>1, <1>4, <1>5

(* The step drops e cells from the first magic on.                         *)
LEMMA EmitDrops ==
    ASSUME TypeInv, NEW a \in Nat, View(a), NEW event, NEW e \in 0 .. Len(Aligned),
           Emit(event, From(Aligned, e + 1))
    PROVE  a - 1 + e \in Nat /\ Drops(a - 1 + e)
<1>1. /\ Len(buffer) \in Nat /\ a \in 1 .. Len(buffer) - 1
      /\ Len(Aligned) = Len(buffer) - a + 1
      /\ From(Aligned, e + 1) = From(buffer, a - 1 + e + 1)
  BY StreamShape DEF View
<1>2. a - 1 + e \in 0 .. Len(buffer) /\ a - 1 + e \in Nat
  BY <1>1
<1> QED
  BY <1>1, <1>2 DEF Emit, Drops

(* The two cells of a magic that no good header follows belong to no frame *)
(* that still stands.                                                      *)
LEMMA BadHeaderDrops ==
    ASSUME TypeInv, BadHeader
    PROVE  \E d \in Nat : Drops(d) /\ DropsNone(d)
<1>1. PICK a \in Nat : View(a)
  BY AlignedView DEF BadHeader
<1>2. /\ Len(Aligned) \in Nat /\ Len(Aligned) >= HEADER_BYTES /\ ~GoodHeader(Aligned)
      /\ Len(buffer) \in Nat /\ a \in 1 .. Len(buffer) - 1
      /\ Aligned[1].val = C /\ Aligned[2].val = M
      /\ \A k \in 1 .. Len(Aligned) : Aligned[k] = Stream[a - 1 + k]
  BY <1>1, StreamShape DEF View, BadHeader
<1>3. 2 \in 0 .. Len(Aligned) /\ 2 \in 1 .. Len(Aligned)
  BY <1>2 DEF HEADER_BYTES
<1>4. Drops(a - 1 + 2) /\ a - 1 + 2 \in Nat
  <2>1. Emit([kind |-> "error"], From(Aligned, 2 + 1))
    BY DEF BadHeader
  <2> QED
    BY <1>1, <1>3, <2>1, EmitDrops
<1>5. ASSUME NEW n \in DOMAIN sent, NEW p \in Nat, Stands(n, p, Stream)
      PROVE  p >= a - 1 + 2
  <2>1. p >= a - 1
    BY <1>1, <1>5 DEF View
  <2>2. p # a - 1
    BY <1>1, <1>2, <1>5, AtTheMagic
  <2>3. p # a
    <3> SUFFICES ASSUME p = a PROVE FALSE
      OBVIOUS
    <3>1. Stream[p + 1].val = C
      BY <1>5, StreamShape, StandsShape
    <3>2. a - 1 + 2 = p + 1
      BY <1>2
    <3>3. Aligned[2] = Stream[p + 1]
      BY <1>2, <1>3, <3>2
    <3>4. C # M
      BY DEF C, M
    <3> QED
      BY <1>2, <3>1, <3>3, <3>4
  <2> QED
    BY <1>2, <2>1, <2>2, <2>3
<1> QED
  BY <1>4, <1>5 DEF DropsNone

(* A frame that stands in front passes its checksum.                       *)
LEMMA CrcMismatchDrops ==
    ASSUME TypeInv, CrcMismatch
    PROVE  \E d \in Nat : Drops(d) /\ DropsNone(d)
<1>1. PICK a \in Nat : View(a)
  BY AlignedView DEF CrcMismatch, Whole
<1>2. /\ Len(Aligned) \in Nat /\ Len(Aligned) >= HEADER_BYTES
      /\ Len(Aligned) >= Total(Aligned) /\ ~CrcMatches(Aligned)
      /\ Len(buffer) \in Nat /\ a \in 1 .. Len(buffer) - 1 /\ Aligned \in Seq(Cells)
  BY <1>1, StreamShape DEF View, CrcMismatch, Whole
<1>3. 1 \in 0 .. Len(Aligned)
  BY <1>2 DEF HEADER_BYTES
<1>4. Drops(a - 1 + 1) /\ a - 1 + 1 \in Nat
  <2>1. Emit([kind |-> "error"], From(Aligned, 1 + 1))
    BY DEF CrcMismatch
  <2> QED
    BY <1>1, <1>3, <2>1, EmitDrops
<1>5. ASSUME NEW n \in DOMAIN sent, NEW p \in Nat, Stands(n, p, Stream)
      PROVE  p >= a - 1 + 1
  <2>1. p >= a - 1
    BY <1>1, <1>5 DEF View
  <2>2. p # a - 1
    <3> SUFFICES ASSUME p = a - 1 PROVE FALSE
      OBVIOUS
    <3>1. Stands(n, 0, Aligned)
      BY <1>1, <1>2, <1>5, AtTheMagic
    <3> QED
      BY <1>2, <3>1, FrontFrame
  <2> QED
    BY <1>2, <2>1, <2>2
<1> QED
  BY <1>4, <1>5 DEF DropsNone

(* What Deliver hands over when it is no collision: frame n, which stood   *)
(* behind d - FrameLength(n) cells of the stream and goes with them.       *)
Hands(n, d) ==
    /\ Drops(d)
    /\ got' = Append(got, [kind |-> "frame", sequence |-> n, payload |-> sent[n]])
    /\ d - FrameLength(n) \in Nat
    /\ Stands(n, d - FrameLength(n), Stream)
    /\ DropsNone(d - FrameLength(n))
    /\ \A m \in DOMAIN sent \ {n}, p \in Nat : Stands(m, p, Stream) => p >= d

LEMMA DeliverHands ==
    ASSUME TypeInv, Deliver, ~Collision
    PROVE  \E n \in DOMAIN sent, d \in Nat : Hands(n, d)
<1>1. PICK n \in DOMAIN sent : Total(Aligned) = FrameLength(n) /\ Stands(n, 0, Aligned)
  BY DEF Collision, Deliver
<1>2. PICK a \in Nat : View(a)
  BY AlignedView DEF Deliver, Whole
<1>3. /\ Len(Aligned) \in Nat /\ Aligned \in Seq(Cells) /\ Len(Aligned) >= Total(Aligned)
      /\ Len(buffer) \in Nat /\ a \in 1 .. Len(buffer) - 1
      /\ \A k \in 1 .. Len(Aligned) : Aligned[k] = Stream[a - 1 + k]
      /\ Len(Aligned) = Len(buffer) - a + 1
  BY <1>2, StreamShape DEF View, Deliver, Whole
<1>4. /\ n \in Nat /\ sent[n] \in Payloads /\ FrameLength(n) \in Nat
      /\ FrameLength(n) = Len(sent[n]) + 7 /\ Len(sent[n]) \in 0 .. MaxPayload
  BY SentShape
<1> DEFINE d == a - 1 + FrameLength(n)
<1>5. Aligned[4].val = 4 /\ Aligned[5].val = n
      /\ SubSeq(Vals(Aligned), HEADER_BYTES + 1, Total(Aligned) - CRC_BYTES) = sent[n]
  BY <1>1, <1>3, FrontFrame
<1>6. got' = Append(got, [kind |-> "frame", sequence |-> n, payload |-> sent[n]])
  BY <1>5 DEF Deliver, Emit, Known
<1>7. Drops(d) /\ d \in Nat
  <2>1. FrameLength(n) \in 0 .. Len(Aligned)
    BY <1>1, <1>3, <1>4
  <2>2. PICK event : Emit(event, From(Aligned, FrameLength(n) + 1))
    BY <1>1 DEF Deliver
  <2> QED
    BY <1>2, <2>1, <2>2, EmitDrops
<1>8. d - FrameLength(n) = a - 1 /\ a - 1 \in Nat
  BY <1>3, <1>4
<1>9. Stands(n, a - 1, Stream)
  <2> SUFFICES ASSUME NEW k \in 1 .. FrameLength(n)
               PROVE  a - 1 + k <= Len(Stream) /\ Stream[a - 1 + k] = Framed(n, sent[n])[k]
    BY DEF Stands
  <2>1. 0 + k <= Len(Aligned) /\ Aligned[0 + k] = Framed(n, sent[n])[k]
    BY <1>1 DEF Stands
  <2>2. 0 + k = k /\ k \in 1 .. Len(Aligned)
    BY <1>3, <1>4, <2>1
  <2>3. a - 1 + k <= Len(Stream)
    BY <1>3, <2>2, StreamShape
  <2> QED
    BY <1>3, <2>1, <2>2, <2>3
<1>10. DropsNone(a - 1)
  BY <1>2 DEF View, DropsNone
<1>11. ASSUME NEW m \in DOMAIN sent \ {n}, NEW p \in Nat, Stands(m, p, Stream)
       PROVE  p >= d
  <2> SUFFICES ASSUME p < d PROVE FALSE
    BY <1>7
  <2>1. p >= a - 1
    BY <1>10, <1>11 DEF DropsNone
  <2> DEFINE k == p + 1 - (a - 1)
  <2>2. k \in 1 .. FrameLength(n) /\ a - 1 + k = p + 1
    BY <1>3, <1>4, <2>1
  <2>3. Stream[a - 1 + k].frame = n
    <3> HIDE DEF k
    <3>1. Stream \in Seq(Cells)
      BY StreamShape
    <3>2. PICK q \in Nat : q = a - 1
      BY <1>8
    <3>3. \A j \in 1 .. FrameLength(n) : Stream[q + j].frame = n
      BY <1>9, <3>1, <3>2, StandsShape
    <3> QED
      BY <2>2, <3>2, <3>3
  <2>4. Stream[p + 1].frame = m
    <3>0. m \in DOMAIN sent /\ Stream \in Seq(Cells) /\ Stands(m, p, Stream)
      BY <1>11, StreamShape
    <3>1. 1 \in 1 .. FrameLength(m)
      BY <3>0, SentShape
    <3>2. \A j \in 1 .. FrameLength(m) : Stream[p + j].frame = m
      BY <3>0, StandsShape
    <3> QED
      BY <3>1, <3>2
  <2> QED
    BY <2>2, <2>3, <2>4
<1> QED
  BY <1>6, <1>7, <1>8, <1>9, <1>10, <1>11 DEF Hands

LEMMA DeliverDrops ==
    ASSUME TypeInv, Deliver
    PROVE  \E d \in Nat : Drops(d)
<1>1. PICK a \in Nat : View(a)
  BY AlignedView DEF Deliver, Whole
<1>2. /\ Len(Aligned) \in Nat /\ Len(Aligned) >= Total(Aligned)
      /\ Payload(Aligned) \in 0 .. MaxPayload
  BY <1>1 DEF View, Deliver, Whole, GoodHeader
<1>3. Total(Aligned) \in 0 .. Len(Aligned)
  BY <1>2, CodecAssumption DEF Total, HEADER_BYTES, CRC_BYTES
<1>4. PICK event : Emit(event, From(Aligned, Total(Aligned) + 1))
  BY DEF Deliver
<1> QED
  BY <1>1, <1>3, <1>4, EmitDrops

LEMMA ScanDrops ==
    ASSUME TypeInv, Scan
    PROVE  \E d \in Nat : Drops(d)
<1>1. CASE NoMagic
  BY <1>1, NoMagicDrops
<1>2. CASE Incomplete
  <2>1. PICK a \in Nat : View(a) /\ Drops(a - 1)
    BY <1>2, IncompleteDrops
  <2>2. a - 1 \in Nat
    BY <2>1 DEF View
  <2> QED
    BY <2>1, <2>2
<1>3. CASE BadHeader
  BY <1>3, BadHeaderDrops
<1>4. CASE CrcMismatch
  BY <1>4, CrcMismatchDrops
<1>5. CASE Deliver
  BY <1>5, DeliverDrops
<1> QED
  BY <1>1, <1>2, <1>3, <1>4, <1>5 DEF Scan

LEMMA RemoveAtShape ==
    ASSUME NEW s \in Seq(Cells), NEW i \in 1 .. Len(s)
    PROVE  /\ RemoveAt(s, i) \in Seq(Cells) /\ Len(RemoveAt(s, i)) = Len(s) - 1
           /\ \A j \in 1 .. Len(s) - 1 :
                 RemoveAt(s, i)[j] = IF j < i THEN s[j] ELSE s[j + 1]
<1> DEFINE u == SubSeq(s, 1, i - 1)
           v == From(s, i + 1)
<1>1. Len(s) \in Nat /\ i \in Nat /\ i - 1 \in 0 .. Len(s) /\ i \in 0 .. Len(s)
  OBVIOUS
<1>2. u \in Seq(Cells) /\ Len(u) = i - 1 /\ \A j \in 1 .. i - 1 : u[j] = s[j]
  BY <1>1
<1>3. v \in Seq(Cells) /\ Len(v) = Len(s) - i /\ \A j \in 1 .. Len(s) - i : v[j] = s[i + j]
  BY <1>1, FromShape
<1>4. RemoveAt(s, i) = u \o v
  BY DEF RemoveAt, From
<1> HIDE DEF u, v
<1>5. u \o v \in Seq(Cells) /\ Len(u \o v) = Len(s) - 1
  <2>1. u \o v \in Seq(Cells) /\ Len(u \o v) = Len(u) + Len(v)
    BY <1>2, <1>3, ConcatProperties
  <2>2. Len(u) + Len(v) = Len(s) - 1
    BY <1>1, <1>2, <1>3
  <2> QED
    BY <2>1, <2>2
<1>6. \A j \in 1 .. Len(u) + Len(v) : (u \o v)[j] = IF j <= Len(u) THEN u[j] ELSE v[j - Len(u)]
  BY <1>2, <1>3, ConcatProperties
<1>7. ASSUME NEW j \in 1 .. Len(s) - 1
      PROVE  (u \o v)[j] = IF j < i THEN s[j] ELSE s[j + 1]
  <2>1. j \in 1 .. Len(u) + Len(v) /\ (j <= Len(u) <=> j < i)
    BY <1>1, <1>2, <1>3
  <2>2. CASE j < i
    <3>1. j \in 1 .. i - 1
      BY <1>1, <2>2
    <3> QED
      BY <1>2, <1>6, <2>1, <2>2, <3>1
  <2>3. CASE ~(j < i)
    <3>1. j - (i - 1) \in 1 .. Len(s) - i /\ i + (j - (i - 1)) = j + 1
      BY <1>1, <2>3
    <3>2. (u \o v)[j] = v[j - (i - 1)]
      BY <1>2, <1>6, <2>1, <2>3
    <3>3. v[j - (i - 1)] = s[i + (j - (i - 1))]
      BY <1>3, <3>1
    <3> QED
      BY <2>3, <3>1, <3>2, <3>3
  <2> QED
    BY <2>2, <2>3
<1> QED
  BY <1>4, <1>5, <1>7

-----------------------------------------------------------------------------
(* Types.                                                                  *)

LEMMA InitTypes == Init => TypeInv
<1> SUFFICES ASSUME Init PROVE TypeInv
  OBVIOUS
<1>1. sent = <<>> /\ wire = <<>> /\ buffer = <<>> /\ got = <<>>
      /\ hurt = {} /\ faults = 0 /\ scanning = FALSE
  BY DEF Init
<1>2. <<>> \in Seq(Payloads) /\ <<>> \in Seq(Cells) /\ <<>> \in Seq(Events)
      /\ Len(<<>>) = 0
  OBVIOUS
<1>3. DOMAIN <<>> = {}
  <2>1. DOMAIN <<>> = 1 .. Len(<<>>)
    BY <1>2, LenProperties
  <2> QED
    BY <1>2, <2>1
<1>4. TypeOK
  <2>1. DOMAIN wire = {} /\ DOMAIN buffer = {}
    BY <1>1, <1>3
  <2>2. sent \in Seq(Payloads) /\ hurt \subseteq 1 .. MaxFrames /\ scanning \in BOOLEAN
    BY <1>1, <1>2
  <2>3. faults \in 0 .. MaxFaults
    BY <1>1, CodecAssumption
  <2> QED
    BY <2>1, <2>2, <2>3 DEF TypeOK
<1> QED
  BY <1>1, <1>2, <1>4, CodecAssumption DEF TypeInv

LEMMA FrameTyped ==
    ASSUME TypeInv
    PROVE  /\ Len(sent) \in Nat /\ Len(sent) <= MaxFrames /\ MaxFrames \in Nat
           /\ DOMAIN sent = 1 .. Len(sent) /\ MaxFaults \in Nat /\ MaxPayload \in Nat
           /\ DOMAIN wire = 1 .. Len(wire) /\ DOMAIN buffer = 1 .. Len(buffer)
           /\ Len(wire) \in Nat /\ Len(buffer) \in Nat
           /\ \A k \in 1 .. Len(wire) : wire[k].frame \in 1 .. Len(sent)
           /\ \A k \in 1 .. Len(buffer) : buffer[k].frame \in 1 .. Len(sent)
<1>1. sent \in Seq(Payloads) /\ wire \in Seq(Cells) /\ buffer \in Seq(Cells)
  BY DEF TypeInv, TypeOK
<1>2. DOMAIN sent = 1 .. Len(sent) /\ DOMAIN wire = 1 .. Len(wire)
      /\ DOMAIN buffer = 1 .. Len(buffer)
      /\ Len(sent) \in Nat /\ Len(wire) \in Nat /\ Len(buffer) \in Nat
  BY <1>1, LenProperties
<1> QED
  BY <1>2, CodecAssumption DEF TypeInv, TypeOK

LEMMA SendTypes ==
    ASSUME TypeInv, NEW p \in Payloads, Send(p)
    PROVE  TypeInv'
<1> DEFINE n == Len(sent) + 1
           cells == Framed(n, p)
<1>1. n \in Nat /\ n <= MaxFrames /\ n \in 1 .. n
  BY FrameTyped DEF Send
<1>2. sent' \in Seq(Payloads) /\ Len(sent') = n
  BY DEF TypeInv, TypeOK, Send
<1>3. cells \in Seq(Cells) /\ \A k \in 1 .. Len(cells) : cells[k].frame = n
  <2>1. /\ cells \in Seq(Cells) /\ Len(cells) = Len(Encode(4, n, p))
        /\ \A k \in 1 .. Len(Encode(4, n, p)) : cells[k] = Cell(Encode(4, n, p)[k], n)
    <3> HIDE DEF n
    <3> QED
      BY <1>1, FramedShape
  <2> HIDE DEF cells, n
  <2>2. ASSUME NEW k \in 1 .. Len(cells) PROVE cells[k].frame = n
    <3>1. cells[k] = Cell(Encode(4, n, p)[k], n)
      BY <2>1
    <3> QED
      BY <3>1 DEF Cell
  <2> QED
    BY <2>1, <2>2
<1>4. /\ wire' = wire \o cells /\ buffer' = buffer /\ got' = got
      /\ hurt' = hurt /\ faults' = faults /\ scanning' = scanning
  BY DEF Send
<1> HIDE DEF cells
<1>5. wire \in Seq(Cells)
  BY DEF TypeInv
<1>6. wire' \in Seq(Cells) /\ Len(wire') = Len(wire) + Len(cells)
      /\ \A k \in 1 .. Len(wire) + Len(cells) :
            wire'[k] = IF k <= Len(wire) THEN wire[k] ELSE cells[k - Len(wire)]
  <2>1. wire \o cells \in Seq(Cells) /\ Len(wire \o cells) = Len(wire) + Len(cells)
    BY <1>3, <1>5, ConcatProperties
  <2>2. \A k \in 1 .. Len(wire) + Len(cells) :
            (wire \o cells)[k] = IF k <= Len(wire) THEN wire[k] ELSE cells[k - Len(wire)]
    BY <1>3, <1>5, ConcatProperties
  <2> QED
    BY <1>4, <2>1, <2>2
<1>7. \A k \in DOMAIN wire' : wire'[k].frame \in 1 .. Len(sent')
  <2> SUFFICES ASSUME NEW k \in 1 .. Len(wire) + Len(cells)
               PROVE  wire'[k].frame \in 1 .. n
    BY <1>2, <1>6, LenProperties
  <2>1. CASE k <= Len(wire)
    <3>1. k \in 1 .. Len(wire) /\ wire'[k] = wire[k]
      BY <1>6, <2>1, FrameTyped
    <3>2. wire[k].frame \in 1 .. Len(sent)
      BY <3>1, FrameTyped
    <3> QED
      BY <3>1, <3>2, FrameTyped
  <2>2. CASE ~(k <= Len(wire))
    <3>1. k - Len(wire) \in 1 .. Len(cells) /\ wire'[k] = cells[k - Len(wire)]
      <4>1. Len(cells) \in Nat
        BY <1>3
      <4> QED
        BY <1>6, <2>2, <4>1, FrameTyped
    <3> QED
      BY <1>1, <1>3, <3>1
  <2> QED
    BY <2>1, <2>2
<1>8. \A k \in DOMAIN buffer' : buffer'[k].frame \in 1 .. Len(sent')
  <2> SUFFICES ASSUME NEW k \in 1 .. Len(buffer) PROVE buffer[k].frame \in 1 .. n
    BY <1>2, <1>4, FrameTyped
  <2>1. buffer[k].frame \in 1 .. Len(sent)
    BY FrameTyped
  <2> QED
    BY <2>1, FrameTyped
<1>9. TypeOK'
  BY <1>2, <1>4, <1>7, <1>8 DEF TypeInv, TypeOK
<1> QED
  BY <1>1, <1>2, <1>4, <1>6, <1>9 DEF TypeInv

LEMMA LoseTypes ==
    ASSUME TypeInv, NEW k \in DOMAIN wire, Lose(k)
    PROVE  TypeInv'
<1>1. k \in 1 .. Len(wire) /\ wire \in Seq(Cells) /\ Len(wire) \in Nat
  BY FrameTyped DEF TypeInv
<1>2. /\ wire' = RemoveAt(wire, k) /\ hurt' = hurt \cup {wire[k].frame}
      /\ faults' = faults + 1 /\ faults < MaxFaults
      /\ UNCHANGED <<sent, buffer, scanning, got>>
  BY DEF Lose
<1>3. /\ wire' \in Seq(Cells) /\ Len(wire') = Len(wire) - 1
      /\ \A j \in 1 .. Len(wire) - 1 : wire'[j] = IF j < k THEN wire[j] ELSE wire[j + 1]
  BY <1>1, <1>2, RemoveAtShape
<1>4. \A j \in DOMAIN wire' : wire'[j].frame \in 1 .. Len(sent)
  <2> SUFFICES ASSUME NEW j \in 1 .. Len(wire) - 1 PROVE wire'[j].frame \in 1 .. Len(sent)
    BY <1>3, LenProperties
  <2>1. j \in 1 .. Len(wire) /\ j + 1 \in 1 .. Len(wire)
    BY <1>1
  <2>2. wire[j].frame \in 1 .. Len(sent) /\ wire[j + 1].frame \in 1 .. Len(sent)
    BY <2>1, FrameTyped
  <2> QED
    BY <1>3, <2>2
<1>5. hurt' \subseteq 1 .. MaxFrames
  <2>1. wire[k].frame \in 1 .. Len(sent)
    BY <1>1, FrameTyped
  <2>2. wire[k].frame \in 1 .. MaxFrames
    BY <2>1, FrameTyped
  <2> QED
    BY <1>2, <2>2 DEF TypeInv, TypeOK
<1>6. faults' \in 0 .. MaxFaults
  BY <1>2, FrameTyped DEF TypeInv, TypeOK
<1>7. TypeOK'
  BY <1>2, <1>4, <1>5, <1>6 DEF TypeInv, TypeOK
<1> QED
  BY <1>2, <1>3, <1>7 DEF TypeInv

LEMMA DamageTypes ==
    ASSUME TypeInv, NEW k \in DOMAIN wire, NEW b \in Bytes, Damage(k, b)
    PROVE  TypeInv'
<1>1. k \in 1 .. Len(wire) /\ wire \in Seq(Cells) /\ Len(wire) \in Nat
  BY FrameTyped DEF TypeInv
<1>2. /\ wire' = [wire EXCEPT ![k].val = b] /\ hurt' = hurt \cup {wire[k].frame}
      /\ faults' = faults + 1 /\ faults < MaxFaults
      /\ UNCHANGED <<sent, buffer, scanning, got>>
  BY DEF Damage
<1>3. wire[k] \in Cells /\ b \in Values
  BY <1>1, ElementOfSeq, CodecAssumption DEF Values
<1> DEFINE hit == [wire[k] EXCEPT !.val = b]
<1>4. hit \in Cells /\ hit.frame = wire[k].frame
  BY <1>3 DEF Cells
<1>5. wire' = [wire EXCEPT ![k] = hit]
  BY <1>2
<1> HIDE DEF hit
<1>6. /\ wire' \in Seq(Cells) /\ Len(wire') = Len(wire)
      /\ \A j \in 1 .. Len(wire) : wire'[j] = IF j = k THEN hit ELSE wire[j]
  BY <1>1, <1>4, <1>5, ExceptSeq
<1>7. \A j \in DOMAIN wire' : wire'[j].frame \in 1 .. Len(sent)
  <2> SUFFICES ASSUME NEW j \in 1 .. Len(wire) PROVE wire'[j].frame \in 1 .. Len(sent)
    BY <1>6, LenProperties
  <2>1. wire[j].frame \in 1 .. Len(sent) /\ wire[k].frame \in 1 .. Len(sent)
    BY <1>1, FrameTyped
  <2> QED
    BY <1>4, <1>6, <2>1
<1>8. hurt' \subseteq 1 .. MaxFrames
  <2>1. wire[k].frame \in 1 .. Len(sent)
    BY <1>1, FrameTyped
  <2>2. wire[k].frame \in 1 .. MaxFrames
    BY <2>1, FrameTyped
  <2> QED
    BY <1>2, <2>2 DEF TypeInv, TypeOK
<1>9. faults' \in 0 .. MaxFaults
  BY <1>2, FrameTyped DEF TypeInv, TypeOK
<1>10. TypeOK'
  BY <1>2, <1>7, <1>8, <1>9 DEF TypeInv, TypeOK
<1> QED
  BY <1>2, <1>6, <1>10 DEF TypeInv

LEMMA ReadShape ==
    ASSUME TypeInv, NEW n \in 1 .. Len(wire)
    PROVE  LET x == SubSeq(wire, 1, n)
               y == From(wire, n + 1)
           IN  /\ x \in Seq(Cells) /\ Len(x) = n /\ \A k \in 1 .. n : x[k] = wire[k]
               /\ y \in Seq(Cells) /\ Len(y) = Len(wire) - n
               /\ \A k \in 1 .. Len(wire) - n : y[k] = wire[n + k]
<1>1. wire \in Seq(Cells) /\ Len(wire) \in Nat /\ n \in 0 .. Len(wire)
  BY FrameTyped DEF TypeInv
<1>2. /\ SubSeq(wire, 1, n) \in Seq(Cells) /\ Len(SubSeq(wire, 1, n)) = n
      /\ \A k \in 1 .. n : SubSeq(wire, 1, n)[k] = wire[k]
  BY <1>1
<1>3. /\ From(wire, n + 1) \in Seq(Cells) /\ Len(From(wire, n + 1)) = Len(wire) - n
      /\ \A k \in 1 .. Len(wire) - n : From(wire, n + 1)[k] = wire[n + k]
  BY <1>1, FromShape
<1> QED
  BY <1>2, <1>3

LEMMA ReadTypes ==
    ASSUME TypeInv, NEW n \in 1 .. Len(wire), Read(n)
    PROVE  TypeInv'
<1> DEFINE x == SubSeq(wire, 1, n)
           y == From(wire, n + 1)
<1>1. /\ x \in Seq(Cells) /\ Len(x) = n /\ \A k \in 1 .. n : x[k] = wire[k]
      /\ y \in Seq(Cells) /\ Len(y) = Len(wire) - n
      /\ \A k \in 1 .. Len(wire) - n : y[k] = wire[n + k]
  BY ReadShape
<1>2. /\ buffer' = buffer \o x /\ wire' = y /\ scanning' = TRUE
      /\ UNCHANGED <<sent, hurt, faults, got>>
  BY DEF Read
<1> HIDE DEF x, y
<1>3. buffer \in Seq(Cells) /\ Len(buffer) \in Nat /\ Len(wire) \in Nat
  BY FrameTyped DEF TypeInv
<1>4. /\ buffer' \in Seq(Cells) /\ Len(buffer') = Len(buffer) + n
      /\ \A k \in 1 .. Len(buffer) + n :
            buffer'[k] = IF k <= Len(buffer) THEN buffer[k] ELSE x[k - Len(buffer)]
  <2>1. buffer \o x \in Seq(Cells) /\ Len(buffer \o x) = Len(buffer) + Len(x)
    BY <1>1, <1>3, ConcatProperties
  <2>2. \A k \in 1 .. Len(buffer) + Len(x) :
           (buffer \o x)[k] = IF k <= Len(buffer) THEN buffer[k] ELSE x[k - Len(buffer)]
    BY <1>1, <1>3, ConcatProperties
  <2> QED
    BY <1>1, <1>2, <2>1, <2>2
<1>5. \A k \in DOMAIN buffer' : buffer'[k].frame \in 1 .. Len(sent)
  <2> SUFFICES ASSUME NEW k \in 1 .. Len(buffer) + n
               PROVE  buffer'[k].frame \in 1 .. Len(sent)
    BY <1>4, LenProperties
  <2>1. CASE k <= Len(buffer)
    <3>1. k \in 1 .. Len(buffer) /\ buffer'[k] = buffer[k]
      BY <1>3, <1>4, <2>1
    <3> QED
      BY <3>1, FrameTyped
  <2>2. CASE ~(k <= Len(buffer))
    <3>1. k - Len(buffer) \in 1 .. n /\ k - Len(buffer) \in 1 .. Len(wire)
      BY <1>3, <2>2
    <3>2. buffer'[k] = wire[k - Len(buffer)]
      BY <1>1, <1>4, <2>2, <3>1
    <3> QED
      BY <3>1, <3>2, FrameTyped
  <2> QED
    BY <2>1, <2>2
<1>6. \A k \in DOMAIN wire' : wire'[k].frame \in 1 .. Len(sent)
  <2> SUFFICES ASSUME NEW k \in 1 .. Len(wire) - n PROVE y[k].frame \in 1 .. Len(sent)
    BY <1>1, <1>2, LenProperties
  <2>1. n + k \in 1 .. Len(wire) /\ y[k] = wire[n + k]
    BY <1>1, <1>3
  <2> QED
    BY <2>1, FrameTyped
<1>7. TypeOK'
  BY <1>2, <1>5, <1>6 DEF TypeInv, TypeOK
<1> QED
  BY <1>1, <1>2, <1>4, <1>7 DEF TypeInv

(* What a step of the decoder hands over is an error or a frame.           *)
LEMMA ScanEvents ==
    ASSUME TypeInv, Scan
    PROVE  got' \in Seq(Events) /\ scanning' \in BOOLEAN
<1>1. got \in Seq(Events) /\ scanning \in BOOLEAN
  BY DEF TypeInv, TypeOK
<1>2. CASE NoMagic \/ Incomplete
  BY <1>1, <1>2 DEF NoMagic, Incomplete
<1>3. ASSUME NEW event \in Events, NEW cells, Emit(event, cells)
      PROVE  got' \in Seq(Events) /\ scanning' \in BOOLEAN
  <2>1. got' = Append(got, event) /\ scanning' = scanning
    BY <1>3 DEF Emit
  <2> QED
    BY <1>1, <2>1
<1>4. [kind |-> "error"] \in Events
  BY DEF Events
<1>5. CASE BadHeader
  BY <1>3, <1>4, <1>5 DEF BadHeader
<1>6. CASE CrcMismatch
  BY <1>3, <1>4, <1>6 DEF CrcMismatch
<1>7. CASE Deliver
  <2>1. PICK a \in Nat : View(a)
    BY <1>7, AlignedView DEF Deliver, Whole
  <2>2. /\ Len(Aligned) \in Nat /\ Aligned \in Seq(Cells) /\ Len(Aligned) >= HEADER_BYTES
        /\ Len(Aligned) >= Total(Aligned) /\ Payload(Aligned) \in 0 .. MaxPayload
    BY <1>7, <2>1 DEF View, Deliver, Whole, GoodHeader
  <2> DEFINE v == Vals(Aligned)
             last == Total(Aligned) - CRC_BYTES
             payload == SubSeq(v, HEADER_BYTES + 1, last)
  <2>3. v \in Seq(Values) /\ Len(v) = Len(Aligned) /\ \A k \in 1 .. Len(v) : v[k] \in Values
    <3>1. v \in Seq(Values) /\ Len(v) = Len(Aligned)
      BY <2>2, ValsShape
    <3> HIDE DEF v
    <3> QED
      BY <3>1, ElementOfSeq
  <2>4. HEADER_BYTES + 1 \in Int /\ last \in Int /\ last <= Len(v) /\ HEADER_BYTES + 1 >= 1
    BY <2>2, <2>3, CodecAssumption DEF Total, HEADER_BYTES, CRC_BYTES
  <2>5. payload \in Seq(Values)
    <3>1. \A k \in HEADER_BYTES + 1 .. last : v[k] \in Values
      <4> SUFFICES ASSUME NEW k \in HEADER_BYTES + 1 .. last PROVE k \in 1 .. Len(v)
        BY <2>3
      <4> HIDE DEF v, last
      <4> QED
        BY <2>2, <2>3, <2>4
    <3> HIDE DEF v, last
    <3> QED
      BY <2>4, <3>1, SubSeqProperties
  <2>6. Aligned[5].val \in Values
    <3>1. 5 \in 1 .. Len(Aligned)
      BY <2>2 DEF HEADER_BYTES
    <3>2. Aligned[5] \in Cells
      BY <2>2, <3>1, ElementOfSeq
    <3> QED
      BY <3>2 DEF Cells
  <2> DEFINE frame == [kind |-> "frame", sequence |-> Aligned[5].val, payload |-> payload]
  <2>7. frame \in Events
    <3> HIDE DEF payload
    <3> QED
      BY <2>5, <2>6 DEF Events
  <2>8. CASE Aligned[4].val \in Known
    <3>1. Emit(frame, From(Aligned, Total(Aligned) + 1))
      BY <1>7, <2>8 DEF Deliver
    <3> HIDE DEF frame
    <3> QED
      BY <1>3, <2>7, <3>1
  <2>9. CASE Aligned[4].val \notin Known
    <3>1. Emit([kind |-> "error"], From(Aligned, Total(Aligned) + 1))
      BY <1>7, <2>9 DEF Deliver
    <3> QED
      BY <1>3, <1>4, <3>1
  <2> QED
    BY <2>8, <2>9
<1> QED
  BY <1>2, <1>5, <1>6, <1>7 DEF Scan

LEMMA ScanTypes ==
    ASSUME TypeInv, Scan
    PROVE  TypeInv'
<1>1. PICK d \in Nat : Drops(d)
  BY ScanDrops
<1>2. d \in 0 .. Len(buffer) /\ buffer' = From(buffer, d + 1)
      /\ UNCHANGED <<sent, hurt, wire, faults>>
  BY <1>1 DEF Drops
<1>3. buffer \in Seq(Cells) /\ Len(buffer) \in Nat
  BY FrameTyped DEF TypeInv
<1>4. /\ buffer' \in Seq(Cells) /\ Len(buffer') = Len(buffer) - d
      /\ \A k \in 1 .. Len(buffer) - d : buffer'[k] = buffer[d + k]
  BY <1>2, <1>3, FromShape
<1>5. \A k \in DOMAIN buffer' : buffer'[k].frame \in 1 .. Len(sent)
  <2> SUFFICES ASSUME NEW k \in 1 .. Len(buffer) - d
               PROVE  buffer'[k].frame \in 1 .. Len(sent)
    BY <1>4, LenProperties
  <2>1. d + k \in 1 .. Len(buffer) /\ buffer'[k] = buffer[d + k]
    BY <1>2, <1>3, <1>4
  <2> QED
    BY <2>1, FrameTyped
<1>6. got' \in Seq(Events) /\ scanning' \in BOOLEAN
  BY ScanEvents
<1>7. TypeOK'
  BY <1>2, <1>5, <1>6 DEF TypeInv, TypeOK
<1> QED
  BY <1>2, <1>4, <1>6, <1>7 DEF TypeInv

LEMMA StepTypes == TypeInv /\ [Next]_vars => TypeInv'
<1> SUFFICES ASSUME TypeInv, [Next]_vars PROVE TypeInv'
  OBVIOUS
<1>1. ASSUME NEW p \in Payloads, Send(p) PROVE TypeInv'
  BY <1>1, SendTypes
<1>2. ASSUME NEW k \in DOMAIN wire, Lose(k) PROVE TypeInv'
  BY <1>2, LoseTypes
<1>3. ASSUME NEW k \in DOMAIN wire, NEW b \in Bytes, Damage(k, b) PROVE TypeInv'
  BY <1>3, DamageTypes
<1>4. ASSUME NEW n \in 1 .. Len(wire), Read(n) PROVE TypeInv'
  BY <1>4, ReadTypes
<1>5. CASE Scan
  BY <1>5, ScanTypes
<1>6. CASE UNCHANGED vars
  BY <1>6 DEF vars, TypeInv, TypeOK
<1> QED
  BY <1>1, <1>2, <1>3, <1>4, <1>5, <1>6 DEF Next, Firmware, Faults

(***************************************************************************)
(* Every variable keeps its type; in particular a cell is always one of a  *)
(* frame that was sent.                                                    *)
(***************************************************************************)
THEOREM TypeCorrect == Spec => []TypeOK
<1>1. Init => TypeInv
  BY InitTypes
<1>2. TypeInv /\ [Next]_vars => TypeInv'
  BY StepTypes
<1>3. TypeInv => TypeOK
  BY DEF TypeInv
<1> QED
  BY <1>1, <1>2, <1>3, PTL DEF Spec

(***************************************************************************)
(* Between two reads less than one frame of the greatest size waits in the *)
(* buffer (FrameDecoder::feed leaves its loop only when it cannot go on).  *)
(* Nothing is assumed of the checksum or of the faults.                    *)
(***************************************************************************)
THEOREM LittleWaits == Spec => []LessThanAFrameWaits
<1>1. Init => TypeInv /\ LessThanAFrameWaits
  <2> SUFFICES ASSUME Init PROVE LessThanAFrameWaits
    BY InitTypes
  <2>1. buffer = <<>> /\ Len(<<>>) = 0 /\ MaxPayload \in Nat
    BY CodecAssumption DEF Init
  <2> QED
    BY <2>1 DEF LessThanAFrameWaits, HEADER_BYTES, CRC_BYTES
<1>2. TypeInv /\ LessThanAFrameWaits /\ [Next]_vars => LessThanAFrameWaits'
  <2> SUFFICES ASSUME TypeInv, LessThanAFrameWaits, [Next]_vars
               PROVE  LessThanAFrameWaits'
    OBVIOUS
  <2>1. Len(buffer) \in Nat /\ buffer \in Seq(Cells) /\ MaxPayload \in Nat
    BY FrameTyped DEF TypeInv
  <2>2. CASE UNCHANGED <<buffer, scanning>>
    BY <2>2 DEF LessThanAFrameWaits
  <2>3. CASE scanning' # FALSE
    <3>1. ~(~scanning')
      BY <2>3, StepTypes DEF TypeInv, TypeOK
    <3> QED
      BY <3>1 DEF LessThanAFrameWaits
  <2>4. CASE NoMagic
    <3>1. PICK d \in Nat : Drops(d) /\ d >= Len(buffer) - 1
      BY <2>4, NoMagicDrops
    <3>2. Len(buffer') = Len(buffer) - d
      BY <2>1, <3>1, FromShape DEF Drops
    <3> QED
      BY <2>1, <3>1, <3>2 DEF LessThanAFrameWaits, HEADER_BYTES, CRC_BYTES
  <2>5. CASE Incomplete
    <3>1. PICK a \in Nat : View(a)
      BY <2>5, IncompleteDrops
    <3>2. Len(Aligned) \in Nat
      BY <3>1 DEF View
    <3>3. Len(Aligned) < HEADER_BYTES + MaxPayload + CRC_BYTES
      <4>1. CASE Len(Aligned) < HEADER_BYTES
        BY <2>1, <3>2, <4>1 DEF HEADER_BYTES, CRC_BYTES
      <4>2. CASE GoodHeader(Aligned) /\ Len(Aligned) < Total(Aligned)
        <5>1. Payload(Aligned) \in 0 .. MaxPayload
          BY <4>2 DEF GoodHeader
        <5> QED
          BY <2>1, <3>2, <4>2, <5>1 DEF Total, HEADER_BYTES, CRC_BYTES
      <4> QED
        BY <2>5, <4>1, <4>2 DEF Incomplete
    <3>4. buffer' = Aligned
      BY <2>5 DEF Incomplete
    <3> QED
      BY <3>3, <3>4 DEF LessThanAFrameWaits
  <2>6. CASE BadHeader \/ CrcMismatch \/ Deliver
    <3>1. scanning = TRUE /\ scanning' = scanning
      BY <2>6 DEF BadHeader, CrcMismatch, Deliver, Whole, Emit, TypeInv, TypeOK
    <3> QED
      BY <3>1 DEF LessThanAFrameWaits
  <2>7. ASSUME NEW n \in 1 .. Len(wire), Read(n) PROVE scanning' = TRUE
    BY <2>7 DEF Read
  <2>8. CASE Firmware \/ Faults
    <3>1. UNCHANGED <<buffer, scanning>>
      BY <2>8 DEF Firmware, Faults, Send, Lose, Damage
    <3> QED
      BY <2>2, <3>1
  <2>9. CASE UNCHANGED vars
    BY <2>2, <2>9 DEF vars
  <2> QED
    BY <2>3, <2>4, <2>5, <2>6, <2>7, <2>8, <2>9 DEF Next, Scan
<1> QED
  BY <1>1, <1>2, StepTypes, PTL DEF Spec

(***************************************************************************)
(* FrameDecoder::feed comes to an end: each way round its loop that does   *)
(* not leave it takes cells off the buffer, whatever is in it.             *)
(***************************************************************************)
THEOREM FeedEnds == Spec => [][Scan /\ scanning' => Len(buffer') < Len(buffer)]_vars
<1>1. ASSUME TypeInv, Scan, scanning'
      PROVE  Len(buffer') < Len(buffer)
  <2>1. ~NoMagic /\ ~Incomplete
    BY <1>1 DEF NoMagic, Incomplete
  <2>2. BadHeader \/ CrcMismatch \/ Deliver
    BY <1>1, <2>1 DEF Scan
  <2>3. PICK a \in Nat : View(a)
    BY <1>1, <2>2, AlignedView DEF BadHeader, CrcMismatch, Deliver, Whole
  <2>4. /\ Len(buffer) \in Nat /\ Len(Aligned) \in Nat /\ a \in 1 .. Len(buffer) - 1
        /\ Len(Aligned) >= HEADER_BYTES
    BY <1>1, <2>2, <2>3, StreamShape
       DEF View, BadHeader, CrcMismatch, Deliver, Whole
  <2>5. \E e \in 1 .. Len(Aligned) : \E event : Emit(event, From(Aligned, e + 1))
    <3>1. CASE BadHeader
      <4>1. 2 \in 1 .. Len(Aligned) /\ 2 + 1 = 3
        BY <2>4 DEF HEADER_BYTES
      <4>2. Emit([kind |-> "error"], From(Aligned, 2 + 1))
        BY <3>1, <4>1 DEF BadHeader
      <4> QED
        BY <4>1, <4>2
    <3>2. CASE CrcMismatch
      <4>1. 1 \in 1 .. Len(Aligned) /\ 1 + 1 = 2
        BY <2>4 DEF HEADER_BYTES
      <4>2. Emit([kind |-> "error"], From(Aligned, 1 + 1))
        BY <3>2, <4>1 DEF CrcMismatch
      <4> QED
        BY <4>1, <4>2
    <3>3. CASE Deliver
      <4>1. Len(Aligned) >= Total(Aligned) /\ Payload(Aligned) \in 0 .. MaxPayload
        BY <3>3 DEF Deliver, Whole, GoodHeader
      <4>2. Total(Aligned) \in 1 .. Len(Aligned)
        BY <2>4, <4>1, CodecAssumption DEF Total, HEADER_BYTES, CRC_BYTES
      <4>3. \E event : Emit(event, From(Aligned, Total(Aligned) + 1))
        BY <3>3 DEF Deliver
      <4> QED
        BY <4>2, <4>3
    <3> QED
      BY <2>2, <3>1, <3>2, <3>3
  <2>6. PICK e \in 1 .. Len(Aligned) : Drops(a - 1 + e)
    <3>0. PICK e \in 1 .. Len(Aligned) : \E event : Emit(event, From(Aligned, e + 1))
      BY <2>5
    <3>1. PICK event : Emit(event, From(Aligned, e + 1))
      BY <3>0
    <3>2. e \in 0 .. Len(Aligned)
      OBVIOUS
    <3>3. Drops(a - 1 + e)
      BY <1>1, <2>3, <3>1, <3>2, EmitDrops
    <3> QED
      BY <3>3
  <2>7. PICK d \in Nat : d = a - 1 + e /\ d >= 1
    BY <2>4
  <2>8. buffer \in Seq(Cells) /\ d \in 0 .. Len(buffer) /\ buffer' = From(buffer, d + 1)
    BY <1>1, <2>6, <2>7 DEF Drops, TypeInv
  <2>9. Len(From(buffer, d + 1)) = Len(buffer) - d
    BY <2>8, FromShape
  <2> QED
    BY <2>4, <2>7, <2>8, <2>9
<1>2. TypeInv /\ [Next]_vars => [Scan /\ scanning' => Len(buffer') < Len(buffer)]_vars
  BY <1>1
<1> QED
  BY <1>2, InitTypes, StepTypes, PTL DEF Spec

-----------------------------------------------------------------------------
(* What each step makes of the stream.                                     *)

LEMMA ConcatShape ==
    ASSUME NEW s \in Seq(Cells), NEW t \in Seq(Cells)
    PROVE  /\ s \o t \in Seq(Cells) /\ Len(s \o t) = Len(s) + Len(t)
           /\ Len(s) \in Nat /\ Len(t) \in Nat
           /\ \A k \in 1 .. Len(s) + Len(t) :
                 (s \o t)[k] = IF k <= Len(s) THEN s[k] ELSE t[k - Len(s)]
<1>1. s \o t \in Seq(Cells) /\ Len(s \o t) = Len(s) + Len(t)
  BY ConcatProperties
<1>2. \A k \in 1 .. Len(s) + Len(t) :
         (s \o t)[k] = IF k <= Len(s) THEN s[k] ELSE t[k - Len(s)]
  BY ConcatProperties
<1> QED
  BY <1>1, <1>2

LEMMA StreamTags ==
    ASSUME TypeInv
    PROVE  \A i \in 1 .. Len(Stream) :
              /\ Stream[i].frame \in 1 .. Len(sent) /\ Stream[i].frame \in DOMAIN sent
              /\ Stream[i].frame \in Nat
<1> SUFFICES ASSUME NEW i \in 1 .. Len(Stream) PROVE Stream[i].frame \in 1 .. Len(sent)
  BY FrameTyped
<1>1. /\ Len(Stream) = Len(buffer) + Len(wire)
      /\ Len(buffer) \in Nat /\ Len(wire) \in Nat
      /\ \A k \in 1 .. Len(buffer) : Stream[k] = buffer[k]
      /\ \A k \in 1 .. Len(wire) : Stream[Len(buffer) + k] = wire[k]
  BY StreamShape
<1>2. CASE i <= Len(buffer)
  <2>1. i \in 1 .. Len(buffer)
    BY <1>1, <1>2
  <2> QED
    BY <1>1, <2>1, FrameTyped
<1>3. CASE ~(i <= Len(buffer))
  <2> DEFINE k == i - Len(buffer)
  <2>1. k \in 1 .. Len(wire) /\ Len(buffer) + k = i
    BY <1>1, <1>3
  <2>2. wire[k].frame \in 1 .. Len(sent)
    BY <2>1, FrameTyped
  <2>3. Stream[Len(buffer) + k] = wire[k]
    BY <1>1, <2>1
  <2> QED
    BY <2>1, <2>2, <2>3
<1> QED
  BY <1>2, <1>3

LEMMA DropStream ==
    ASSUME TypeInv, NEW d \in Nat, Drops(d)
    PROVE  /\ d \in 0 .. Len(Stream) /\ Stream' \in Seq(Cells)
           /\ Len(Stream') = Len(Stream) - d
           /\ \A j \in 1 .. Len(Stream) - d : Stream'[j] = Stream[d + j]
<1>1. buffer \in Seq(Cells) /\ wire \in Seq(Cells) /\ d \in 0 .. Len(buffer)
      /\ buffer' = From(buffer, d + 1) /\ wire' = wire
  BY DEF Drops, TypeInv
<1>2. From(buffer, d + 1) \o wire = From(buffer \o wire, d + 1)
  BY <1>1, FromConcat
<1>3. Stream' = From(Stream, d + 1)
  BY <1>1, <1>2 DEF Stream
<1>4. Stream \in Seq(Cells) /\ d \in 0 .. Len(Stream)
  BY <1>1, StreamShape
<1>5. /\ From(Stream, d + 1) \in Seq(Cells) /\ Len(From(Stream, d + 1)) = Len(Stream) - d
      /\ \A k \in 1 .. Len(Stream) - d : From(Stream, d + 1)[k] = Stream[d + k]
  BY <1>4, FromShape
<1> QED
  BY <1>3, <1>4, <1>5

LEMMA LoseStream ==
    ASSUME TypeInv, NEW k \in DOMAIN wire, Lose(k)
    PROVE  LET i == Len(buffer) + k
           IN  /\ i \in 1 .. Len(Stream) /\ Stream[i] = wire[k]
               /\ Stream' \in Seq(Cells) /\ Len(Stream') = Len(Stream) - 1
               /\ \A j \in 1 .. Len(Stream) - 1 :
                     Stream'[j] = IF j < i THEN Stream[j] ELSE Stream[j + 1]
<1> DEFINE i == Len(buffer) + k
<1>1. buffer \in Seq(Cells) /\ wire \in Seq(Cells) /\ k \in 1 .. Len(wire)
      /\ buffer' = buffer /\ wire' = RemoveAt(wire, k)
      /\ Len(buffer) \in Nat /\ Len(wire) \in Nat
  BY FrameTyped DEF Lose, TypeInv
<1>2. /\ wire' \in Seq(Cells) /\ Len(wire') = Len(wire) - 1
      /\ \A j \in 1 .. Len(wire) - 1 : wire'[j] = IF j < k THEN wire[j] ELSE wire[j + 1]
  BY <1>1, RemoveAtShape
<1>3. /\ Stream' \in Seq(Cells) /\ Len(Stream') = Len(buffer) + Len(wire')
      /\ \A j \in 1 .. Len(buffer) + Len(wire') :
            Stream'[j] = IF j <= Len(buffer) THEN buffer[j] ELSE wire'[j - Len(buffer)]
  BY <1>1, <1>2, ConcatShape DEF Stream
<1>4. /\ Len(Stream) = Len(buffer) + Len(wire)
      /\ \A j \in 1 .. Len(buffer) : Stream[j] = buffer[j]
      /\ \A j \in 1 .. Len(wire) : Stream[Len(buffer) + j] = wire[j]
  BY StreamShape
<1>5. i \in 1 .. Len(Stream) /\ Stream[i] = wire[k]
  <2>1. Stream[Len(buffer) + k] = wire[k]
    BY <1>1, <1>4
  <2>2. Len(buffer) + k \in 1 .. Len(Stream)
    BY <1>1, <1>4
  <2> QED
    BY <2>1, <2>2
<1>6. ASSUME NEW j \in 1 .. Len(Stream) - 1
      PROVE  Stream'[j] = IF j < i THEN Stream[j] ELSE Stream[j + 1]
  <2>1. CASE j <= Len(buffer)
    <3>1. j \in 1 .. Len(buffer) /\ j < i
      BY <1>1, <2>1
    <3>2. j \in 1 .. Len(buffer) + Len(wire')
      BY <1>1, <1>2, <1>4
    <3> QED
      BY <1>3, <1>4, <2>1, <3>1, <3>2
  <2>2. CASE ~(j <= Len(buffer))
    <3> DEFINE h == j - Len(buffer)
    <3>1. /\ h \in 1 .. Len(wire) - 1 /\ h \in 1 .. Len(wire) /\ h + 1 \in 1 .. Len(wire)
          /\ (h < k <=> j < i) /\ Len(buffer) + h = j /\ Len(buffer) + (h + 1) = j + 1
      <4>1. j \in Nat /\ Len(buffer) \in Nat /\ Len(wire) \in Nat /\ k \in Nat
            /\ j > Len(buffer) /\ j <= Len(buffer) + Len(wire) - 1
        BY <1>1, <1>4, <2>2
      <4> QED
        BY <4>1
    <3>2. j \in 1 .. Len(buffer) + Len(wire')
      BY <1>1, <1>2, <1>4
    <3>3. Stream'[j] = wire'[h]
      BY <1>3, <2>2, <3>2
    <3>4. wire'[h] = IF h < k THEN wire[h] ELSE wire[h + 1]
      BY <1>2, <3>1
    <3>5. wire[h] = Stream[j]
      BY <1>4, <3>1
    <3>6. wire[h + 1] = Stream[j + 1]
      <4> DEFINE g == h + 1
      <4>1. g \in 1 .. Len(wire) /\ Len(buffer) + g = j + 1
        BY <3>1
      <4> HIDE DEF g
      <4>2. wire[g] = Stream[j + 1]
        BY <1>4, <4>1
      <4> QED
        BY <4>2 DEF g
    <3> QED
      BY <3>1, <3>3, <3>4, <3>5, <3>6
  <2> QED
    BY <2>1, <2>2
<1>7. Len(Stream') = Len(Stream) - 1
  BY <1>1, <1>2, <1>3, <1>4
<1> QED
  BY <1>3, <1>5, <1>6, <1>7

LEMMA DamageStream ==
    ASSUME TypeInv, NEW k \in DOMAIN wire, NEW b \in Bytes, Damage(k, b)
    PROVE  LET i == Len(buffer) + k
           IN  /\ i \in 1 .. Len(Stream) /\ Stream[i] = wire[k]
               /\ Stream' \in Seq(Cells) /\ Len(Stream') = Len(Stream)
               /\ Stream'[i].frame = Stream[i].frame
               /\ \A j \in 1 .. Len(Stream) : j # i => Stream'[j] = Stream[j]
<1> DEFINE i == Len(buffer) + k
<1>1. buffer \in Seq(Cells) /\ wire \in Seq(Cells) /\ k \in 1 .. Len(wire)
      /\ buffer' = buffer /\ wire' = [wire EXCEPT ![k].val = b]
      /\ Len(buffer) \in Nat /\ Len(wire) \in Nat
  BY FrameTyped DEF Damage, TypeInv
<1>2. wire[k] \in Cells /\ b \in Values
  <2>1. wire[k] \in Cells
    BY <1>1, ElementOfSeq
  <2>2. b \in Nat
    BY CodecAssumption
  <2> QED
    BY <2>1, <2>2 DEF Values
<1> DEFINE hit == [wire[k] EXCEPT !.val = b]
<1>3. hit \in Cells /\ hit.frame = wire[k].frame /\ wire' = [wire EXCEPT ![k] = hit]
  BY <1>1, <1>2 DEF Cells
<1> HIDE DEF hit
<1>4. /\ wire' \in Seq(Cells) /\ Len(wire') = Len(wire)
      /\ \A j \in 1 .. Len(wire) : wire'[j] = IF j = k THEN hit ELSE wire[j]
  BY <1>1, <1>3, ExceptSeq
<1>5. /\ Stream' \in Seq(Cells) /\ Len(Stream') = Len(buffer) + Len(wire')
      /\ \A j \in 1 .. Len(buffer) + Len(wire') :
            Stream'[j] = IF j <= Len(buffer) THEN buffer[j] ELSE wire'[j - Len(buffer)]
  BY <1>1, <1>4, ConcatShape DEF Stream
<1>6. /\ Len(Stream) = Len(buffer) + Len(wire)
      /\ \A j \in 1 .. Len(buffer) : Stream[j] = buffer[j]
      /\ \A j \in 1 .. Len(wire) : Stream[Len(buffer) + j] = wire[j]
  BY StreamShape
<1>7. i \in 1 .. Len(Stream) /\ Stream[i] = wire[k]
  <2>1. Stream[Len(buffer) + k] = wire[k]
    BY <1>1, <1>6
  <2>2. Len(buffer) + k \in 1 .. Len(Stream)
    BY <1>1, <1>6
  <2> QED
    BY <2>1, <2>2
<1>8. Stream'[i].frame = Stream[i].frame
  <2>1. i \in 1 .. Len(buffer) + Len(wire') /\ ~(i <= Len(buffer)) /\ i - Len(buffer) = k
    BY <1>1, <1>4
  <2>2. Stream'[i] = wire'[k]
    BY <1>5, <2>1
  <2>3. wire'[k] = hit
    BY <1>1, <1>4
  <2> QED
    BY <1>3, <1>7, <2>2, <2>3
<1>9. ASSUME NEW j \in 1 .. Len(Stream), j # i PROVE Stream'[j] = Stream[j]
  <2>0. j \in 1 .. Len(buffer) + Len(wire')
    BY <1>4, <1>6
  <2>1. CASE j <= Len(buffer)
    <3>1. j \in 1 .. Len(buffer)
      BY <1>1, <2>1
    <3> QED
      BY <1>5, <1>6, <2>0, <2>1, <3>1
  <2>2. CASE ~(j <= Len(buffer))
    <3> DEFINE h == j - Len(buffer)
    <3>1. h \in 1 .. Len(wire) /\ h # k /\ Len(buffer) + h = j
      BY <1>1, <1>6, <1>9, <2>2
    <3>2. Stream'[j] = wire'[h]
      BY <1>5, <2>0, <2>2
    <3>3. wire'[h] = wire[h]
      BY <1>4, <3>1
    <3>4. wire[h] = Stream[j]
      BY <1>6, <3>1
    <3> QED
      BY <3>2, <3>3, <3>4
  <2> QED
    BY <2>1, <2>2
<1> QED
  BY <1>4, <1>5, <1>6, <1>7, <1>8, <1>9

LEMMA ReadStream ==
    ASSUME TypeInv, NEW n \in 1 .. Len(wire), Read(n)
    PROVE  Stream' = Stream
<1> DEFINE x == SubSeq(wire, 1, n)
           y == From(wire, n + 1)
<1>1. /\ x \in Seq(Cells) /\ Len(x) = n /\ \A k \in 1 .. n : x[k] = wire[k]
      /\ y \in Seq(Cells) /\ Len(y) = Len(wire) - n
      /\ \A k \in 1 .. Len(wire) - n : y[k] = wire[n + k]
  BY ReadShape
<1>2. buffer' = buffer \o x /\ wire' = y
  BY DEF Read
<1>3. buffer \in Seq(Cells) /\ wire \in Seq(Cells) /\ Len(wire) \in Nat
  BY FrameTyped DEF TypeInv
<1> HIDE DEF x, y
<1>4. (buffer \o x) \o y = buffer \o (x \o y)
  <2>1. buffer \in Seq(Cells) /\ x \in Seq(Cells) /\ y \in Seq(Cells)
    BY <1>1, <1>3
  <2> QED
    BY <2>1, ConcatAssociative
<1>5. x \o y = wire
  <2>1. /\ x \o y \in Seq(Cells) /\ Len(x \o y) = Len(x) + Len(y)
        /\ \A k \in 1 .. Len(x) + Len(y) :
              (x \o y)[k] = IF k <= Len(x) THEN x[k] ELSE y[k - Len(x)]
    BY <1>1, ConcatShape
  <2>2. Len(x) + Len(y) = Len(wire)
    BY <1>1, <1>3
  <2>3. ASSUME NEW k \in 1 .. Len(wire) PROVE (x \o y)[k] = wire[k]
    <3>1. CASE k <= n
      BY <1>1, <2>1, <2>2, <3>1
    <3>2. CASE ~(k <= n)
      <4>1. k - n \in 1 .. Len(wire) - n /\ n + (k - n) = k
        BY <1>3, <3>2
      <4>2. (x \o y)[k] = y[k - n]
        BY <1>1, <2>1, <2>2, <3>2
      <4>3. y[k - n] = wire[n + (k - n)]
        BY <1>1, <4>1
      <4> QED
        BY <4>1, <4>2, <4>3
    <3> QED
      BY <3>1, <3>2
  <2> QED
    BY <1>3, <2>1, <2>2, <2>3, SeqEqual
<1> QED
  BY <1>2, <1>4, <1>5 DEF Stream

LEMMA SendStream ==
    ASSUME TypeInv, NEW p \in Payloads, Send(p)
    PROVE  LET n == Len(sent) + 1
           IN  /\ n \in Nat /\ sent' = Append(sent, p) /\ n \in DOMAIN sent'
               /\ sent'[n] = p /\ \A m \in DOMAIN sent : sent'[m] = sent[m] /\ m \in DOMAIN sent'
               /\ DOMAIN sent' = DOMAIN sent \cup {n}
               /\ Framed(n, p) \in Seq(Cells)
               /\ Stream' = Stream \o Framed(n, p)
<1> DEFINE n == Len(sent) + 1
<1>1. n \in Nat /\ sent \in Seq(Payloads) /\ Len(sent) \in Nat
  BY FrameTyped DEF TypeInv, TypeOK
<1>2. sent' = Append(sent, p)
  BY DEF Send
<1>3. /\ sent' \in Seq(Payloads) /\ Len(sent') = n /\ sent'[n] = p
      /\ \A m \in 1 .. Len(sent) : sent'[m] = sent[m]
  BY <1>1, <1>2, AppendProperties
<1>4. DOMAIN sent = 1 .. Len(sent) /\ DOMAIN sent' = 1 .. n
  BY <1>1, <1>3, LenProperties
<1>5. Framed(n, p) \in Seq(Cells)
  <2> HIDE DEF n
  <2> QED
    BY <1>1, FramedShape
<1>6. buffer \in Seq(Cells) /\ wire \in Seq(Cells)
      /\ buffer' = buffer /\ wire' = wire \o Framed(n, p)
  BY DEF Send, TypeInv
<1>7. Stream' = Stream \o Framed(n, p)
  <2> DEFINE t == Framed(n, p)
  <2> HIDE DEF t
  <2>1. buffer \o (wire \o t) = (buffer \o wire) \o t
    BY <1>5, <1>6, ConcatAssociative DEF t
  <2> QED
    BY <1>6, <2>1 DEF Stream, t
<1>8. n \in 1 .. n /\ 1 .. n = 1 .. Len(sent) \cup {n}
  BY <1>1
<1> QED
  BY <1>1, <1>2, <1>3, <1>4, <1>5, <1>7, <1>8

-----------------------------------------------------------------------------
(* The invariant.  Frames stand in the stream in the order they were sent, *)
(* cells of one frame no further apart than the frame is long, and what    *)
(* was handed over came before all that is left.                           *)

Ordered(s) ==
    \A i, j \in 1 .. Len(s) : i <= j => s[i].frame <= s[j].frame
Compact(s) ==
    \A i, j \in 1 .. Len(s) :
        s[i].frame = s[j].frame => j - i < FrameLength(s[i].frame)
Behind(s) ==
    \A k \in DOMAIN got, i \in 1 .. Len(s) :
        IsFrame(k) => got[k].sequence < s[i].frame

StreamInv == TypeInv /\ Ordered(Stream) /\ Compact(Stream)

CodecInv ==
    /\ StreamInv
    /\ Behind(Stream)
    /\ FramesAreGenuine
    /\ IntactFramesSurvive

(* The cells of s are cells of the stream, in its order.                   *)
Thin(s) ==
    \E f \in [1 .. Len(s) -> 1 .. Len(Stream)] :
        /\ \A j \in 1 .. Len(s) : s[j].frame = Stream[f[j]].frame
        /\ \A j, k \in 1 .. Len(s) : j <= k => k - j <= f[k] - f[j]

LEMMA ThinKeeps ==
    ASSUME TypeInv, NEW s, Len(s) \in Nat, Thin(s)
    PROVE  /\ Ordered(Stream) => Ordered(s)
           /\ Ordered(Stream) /\ Compact(Stream) => Compact(s)
           /\ Behind(Stream) => Behind(s)
<1>1. PICK f \in [1 .. Len(s) -> 1 .. Len(Stream)] :
         /\ \A j \in 1 .. Len(s) : s[j].frame = Stream[f[j]].frame
         /\ \A j, k \in 1 .. Len(s) : j <= k => k - j <= f[k] - f[j]
  BY DEF Thin
<1>2. \A j \in 1 .. Len(s) : f[j] \in 1 .. Len(Stream) /\ f[j] \in Nat
  <2>1. Len(Stream) \in Nat
    BY StreamShape
  <2> QED
    BY <1>1, <2>1
<1>3. ASSUME Ordered(Stream), NEW i \in 1 .. Len(s), NEW j \in 1 .. Len(s), i <= j
      PROVE  s[i].frame <= s[j].frame
  <2>1. f[i] \in 1 .. Len(Stream) /\ f[j] \in 1 .. Len(Stream)
        /\ f[i] \in Nat /\ f[j] \in Nat /\ j - i <= f[j] - f[i]
    BY <1>1, <1>2, <1>3
  <2>2. f[i] <= f[j]
    BY <1>3, <2>1
  <2>3. Stream[f[i]].frame <= Stream[f[j]].frame
    BY <1>3, <2>1, <2>2 DEF Ordered
  <2> QED
    BY <1>1, <2>3
<1>4. ASSUME Compact(Stream), NEW i \in 1 .. Len(s), NEW j \in 1 .. Len(s),
             s[i].frame = s[j].frame
      PROVE  j - i < FrameLength(s[i].frame)
  <2>1. /\ f[i] \in 1 .. Len(Stream) /\ f[j] \in 1 .. Len(Stream)
        /\ f[i] \in Nat /\ f[j] \in Nat
        /\ s[i].frame = Stream[f[i]].frame /\ s[j].frame = Stream[f[j]].frame
    BY <1>1, <1>2
  <2>2. f[j] - f[i] < FrameLength(s[i].frame)
    BY <1>4, <2>1 DEF Compact
  <2>3. FrameLength(s[i].frame) \in Nat /\ FrameLength(s[i].frame) >= 7
    <3>1. s[i].frame \in DOMAIN sent
      BY <2>1, StreamTags
    <3> DEFINE n == s[i].frame
    <3> HIDE DEF n
    <3>2. FrameLength(n) \in Nat /\ FrameLength(n) = Len(sent[n]) + 7
          /\ Len(sent[n]) \in 0 .. MaxPayload
      BY <3>1, SentShape DEF n
    <3>3. FrameLength(n) >= 7
      BY <3>2, CodecAssumption
    <3> QED
      BY <3>2, <3>3 DEF n
  <2>4. CASE i <= j
    <3>1. j - i <= f[j] - f[i]
      BY <1>1, <2>4
    <3> QED
      BY <2>1, <2>2, <2>3, <3>1
  <2>5. CASE ~(i <= j)
    BY <2>3, <2>5
  <2> QED
    BY <2>4, <2>5
<1>5. ASSUME Behind(Stream), NEW k \in DOMAIN got, NEW i \in 1 .. Len(s), IsFrame(k)
      PROVE  got[k].sequence < s[i].frame
  <2>1. f[i] \in 1 .. Len(Stream) /\ s[i].frame = Stream[f[i]].frame
    BY <1>1, <1>2
  <2> QED
    BY <1>5, <2>1 DEF Behind
<1>6. Ordered(Stream) => Ordered(s)
  BY <1>3 DEF Ordered
<1>7. Compact(Stream) => Compact(s)
  BY <1>4 DEF Compact
<1>8. Behind(Stream) => Behind(s)
  BY <1>5 DEF Behind
<1> QED
  BY <1>6, <1>7, <1>8

(* Faults, reads and the decoder only take cells away.                     *)
LEMMA LoseThins ==
    ASSUME TypeInv, NEW k \in DOMAIN wire, Lose(k)
    PROVE  Thin(Stream') /\ Len(Stream') \in Nat
<1>1. PICK i \in Int :
         /\ i \in 1 .. Len(Stream) /\ Stream' \in Seq(Cells)
         /\ Len(Stream') = Len(Stream) - 1
         /\ \A j \in 1 .. Len(Stream) - 1 :
               Stream'[j] = IF j < i THEN Stream[j] ELSE Stream[j + 1]
  <2>1. Len(buffer) + k \in Int
    BY FrameTyped
  <2> QED
    BY <2>1, LoseStream
<1>2. Len(Stream) \in Nat /\ Len(Stream') \in Nat
  BY <1>1, StreamShape
<1> DEFINE f == [j \in 1 .. Len(Stream) - 1 |-> IF j < i THEN j ELSE j + 1]
<1>3. f \in [1 .. Len(Stream') -> 1 .. Len(Stream)]
  BY <1>1, <1>2
<1>4. \A j \in 1 .. Len(Stream') : Stream'[j].frame = Stream[f[j]].frame
  BY <1>1, <1>2
<1>5. \A j, h \in 1 .. Len(Stream') : j <= h => h - j <= f[h] - f[j]
  <2> SUFFICES ASSUME NEW j \in 1 .. Len(Stream) - 1, NEW h \in 1 .. Len(Stream) - 1, j <= h
               PROVE  h - j <= f[h] - f[j]
    BY <1>1
  <2>1. f[h] = (IF h < i THEN h ELSE h + 1) /\ f[j] = (IF j < i THEN j ELSE j + 1)
    OBVIOUS
  <2>2. j \in Int /\ h \in Int
    BY <1>2
  <2> HIDE DEF f
  <2> QED
    BY <1>1, <2>1, <2>2
<1> HIDE DEF f
<1> QED
  BY <1>2, <1>3, <1>4, <1>5 DEF Thin

LEMMA SameThins ==
    ASSUME TypeInv, NEW s, Len(s) = Len(Stream),
           \A j \in 1 .. Len(Stream) : s[j].frame = Stream[j].frame
    PROVE  Thin(s) /\ Len(s) \in Nat
<1> DEFINE f == [j \in 1 .. Len(Stream) |-> j]
<1>1. Len(Stream) \in Nat
  BY StreamShape
<1>2. f \in [1 .. Len(s) -> 1 .. Len(Stream)]
  OBVIOUS
<1>3. \A j \in 1 .. Len(s) : s[j].frame = Stream[f[j]].frame
  OBVIOUS
<1>4. \A j, k \in 1 .. Len(s) : j <= k => k - j <= f[k] - f[j]
  <2> SUFFICES ASSUME NEW j \in 1 .. Len(Stream), NEW k \in 1 .. Len(Stream)
               PROVE  k - j <= f[k] - f[j]
    OBVIOUS
  <2>1. f[k] = k /\ f[j] = j
    OBVIOUS
  <2> HIDE DEF f
  <2> QED
    BY <1>1, <2>1
<1> HIDE DEF f
<1> QED
  BY <1>1, <1>2, <1>3, <1>4 DEF Thin

LEMMA DropThins ==
    ASSUME TypeInv, NEW d \in Nat, Drops(d)
    PROVE  Thin(Stream') /\ Len(Stream') \in Nat
<1>1. /\ d \in 0 .. Len(Stream) /\ Stream' \in Seq(Cells)
      /\ Len(Stream') = Len(Stream) - d
      /\ \A j \in 1 .. Len(Stream) - d : Stream'[j] = Stream[d + j]
  BY DropStream
<1>2. Len(Stream) \in Nat /\ Len(Stream') \in Nat
  BY <1>1, StreamShape
<1> DEFINE f == [j \in 1 .. Len(Stream) - d |-> d + j]
<1>3. f \in [1 .. Len(Stream') -> 1 .. Len(Stream)]
  BY <1>1, <1>2
<1>4. \A j \in 1 .. Len(Stream') : Stream'[j].frame = Stream[f[j]].frame
  BY <1>1, <1>2
<1>5. \A j, h \in 1 .. Len(Stream') : j <= h => h - j <= f[h] - f[j]
  <2> SUFFICES ASSUME NEW j \in 1 .. Len(Stream) - d, NEW h \in 1 .. Len(Stream) - d
               PROVE  h - j <= f[h] - f[j]
    BY <1>1
  <2>1. f[h] = d + h /\ f[j] = d + j
    OBVIOUS
  <2>2. j \in Int /\ h \in Int
    BY <1>2
  <2> HIDE DEF f
  <2> QED
    BY <2>1, <2>2
<1> HIDE DEF f
<1> QED
  BY <1>2, <1>3, <1>4, <1>5 DEF Thin

LEMMA ThinStep ==
    ASSUME TypeInv, [Next]_vars, ~Firmware
    PROVE  Thin(Stream') /\ Len(Stream') \in Nat /\ sent' = sent
<1>1. ASSUME NEW k \in DOMAIN wire, Lose(k)
      PROVE  Thin(Stream') /\ Len(Stream') \in Nat /\ sent' = sent
  BY <1>1, LoseThins DEF Lose
<1>2. ASSUME NEW k \in DOMAIN wire, NEW b \in Bytes, Damage(k, b)
      PROVE  Thin(Stream') /\ Len(Stream') \in Nat /\ sent' = sent
  <2>1. Len(Stream') = Len(Stream)
    BY <1>2, DamageStream
  <2>2. \A j \in 1 .. Len(Stream) : Stream'[j].frame = Stream[j].frame
    BY <1>2, DamageStream
  <2>3. sent' = sent
    BY <1>2 DEF Damage
  <2> QED
    BY <2>1, <2>2, <2>3, SameThins
<1>3. ASSUME NEW n \in 1 .. Len(wire), Read(n)
      PROVE  Thin(Stream') /\ Len(Stream') \in Nat /\ sent' = sent
  <2>1. Stream' = Stream /\ sent' = sent
    BY <1>3, ReadStream DEF Read
  <2> QED
    BY <2>1, SameThins
<1>4. CASE Scan
  <2>1. PICK d \in Nat : Drops(d)
    BY <1>4, ScanDrops
  <2> QED
    BY <2>1, DropThins DEF Drops
<1>5. CASE UNCHANGED vars
  <2>1. Stream' = Stream /\ sent' = sent
    BY <1>5 DEF vars, Stream
  <2> QED
    BY <2>1, SameThins
<1> QED
  BY <1>1, <1>2, <1>3, <1>4, <1>5 DEF Next, Faults

LEMMA SentStays ==
    ASSUME sent' = sent
    PROVE  /\ \A n : FrameLength(n)' = FrameLength(n)
           /\ \A s : Compact(s) => Compact(s)'
<1>1. \A n : FrameLength(n)' = FrameLength(n)
  BY DEF FrameLength
<1> QED
  BY <1>1 DEF Compact

LengthIn(t, n) == HEADER_BYTES + Len(t[n]) + CRC_BYTES

(* The new frame joins the stream at its end.                              *)
LEMMA SendShape ==
    ASSUME TypeInv, NEW p \in Payloads, Send(p)
    PROVE  LET n == Len(sent) + 1
               F == Framed(n, p)
           IN  /\ Len(F) \in Nat /\ Len(F) >= 1 /\ LengthIn(sent', n) = Len(F)
               /\ \A k \in 1 .. Len(F) : F[k].frame = n
               /\ \A m \in DOMAIN sent : LengthIn(sent', m) = FrameLength(m) /\ m < n
               /\ Len(Stream) \in Nat /\ Len(Stream') = Len(Stream) + Len(F)
               /\ \A i \in 1 .. Len(Stream) : Stream'[i] = Stream[i]
               /\ \A k \in 1 .. Len(F) : Stream'[Len(Stream) + k] = F[k]
<1> DEFINE n == Len(sent) + 1
           F == Framed(n, p)
           enc == Encode(4, n, p)
<1>1. /\ n \in Nat /\ sent'[n] = p /\ F \in Seq(Cells) /\ Stream' = Stream \o F
      /\ \A m \in DOMAIN sent : sent'[m] = sent[m]
  BY SendStream
<1>2. /\ Len(enc) = HEADER_BYTES + Len(p) + CRC_BYTES /\ Len(p) \in 0 .. MaxPayload
      /\ Len(F) = Len(enc) /\ \A k \in 1 .. Len(enc) : F[k] = Cell(enc[k], n)
  <2> HIDE DEF n
  <2> QED
    BY <1>1, EncodeShape, FramedShape
<1>3. MaxPayload \in Nat
  BY CodecAssumption
<1>4. LengthIn(sent', n) = Len(F)
  BY <1>1, <1>2 DEF LengthIn
<1>5. Len(F) \in Nat /\ Len(F) >= 1
  BY <1>2, <1>3 DEF HEADER_BYTES, CRC_BYTES
<1> HIDE DEF F, enc
<1>6. ASSUME NEW k \in 1 .. Len(F) PROVE F[k].frame = n
  <2>1. F[k] = Cell(enc[k], n)
    BY <1>2
  <2> QED
    BY <2>1 DEF Cell
<1>7. ASSUME NEW m \in DOMAIN sent PROVE LengthIn(sent', m) = FrameLength(m) /\ m < n
  <2>1. LengthIn(sent', m) = FrameLength(m)
    BY <1>1 DEF FrameLength, LengthIn
  <2>2. m < n
    BY FrameTyped
  <2> QED
    BY <2>1, <2>2
<1>8. Stream \in Seq(Cells)
  BY StreamShape
<1>9. /\ Len(Stream) \in Nat /\ Len(Stream') = Len(Stream) + Len(F)
      /\ \A k \in 1 .. Len(Stream) + Len(F) :
            Stream'[k] = IF k <= Len(Stream) THEN Stream[k] ELSE F[k - Len(Stream)]
  BY <1>1, <1>8, ConcatShape
<1>10. ASSUME NEW i \in 1 .. Len(Stream) PROVE Stream'[i] = Stream[i]
  <2>1. i \in 1 .. Len(Stream) + Len(F) /\ i <= Len(Stream)
    BY <1>5, <1>9
  <2> QED
    BY <1>9, <2>1
<1>11. ASSUME NEW k \in 1 .. Len(F) PROVE Stream'[Len(Stream) + k] = F[k]
  <2> DEFINE i == Len(Stream) + k
  <2>1. i \in 1 .. Len(Stream) + Len(F) /\ ~(i <= Len(Stream)) /\ i - Len(Stream) = k
    BY <1>5, <1>9
  <2> HIDE DEF i
  <2>2. Stream'[i] = F[k]
    BY <1>9, <2>1
  <2> QED
    BY <2>2 DEF i
<1> QED
  BY <1>4, <1>5, <1>6, <1>7, <1>9, <1>10, <1>11 DEF F

LEMMA SendStreamInv ==
    ASSUME StreamInv, NEW p \in Payloads, Send(p)
    PROVE  Ordered(Stream)' /\ Compact(Stream)'
<1> DEFINE n == Len(sent) + 1
           F == Framed(n, p)
<1>0. TypeInv /\ Ordered(Stream) /\ Compact(Stream)
  BY DEF StreamInv
<1>1. /\ Len(F) \in Nat /\ Len(F) >= 1 /\ LengthIn(sent', n) = Len(F)
      /\ \A k \in 1 .. Len(F) : F[k].frame = n
      /\ \A m \in DOMAIN sent : LengthIn(sent', m) = FrameLength(m) /\ m < n
      /\ Len(Stream) \in Nat /\ Len(Stream') = Len(Stream) + Len(F)
      /\ \A i \in 1 .. Len(Stream) : Stream'[i] = Stream[i]
      /\ \A k \in 1 .. Len(F) : Stream'[Len(Stream) + k] = F[k]
  BY <1>0, SendShape
<1>2. n \in Nat
  BY <1>0, FrameTyped
<1> HIDE DEF n, F
<1>3. ASSUME NEW i \in 1 .. Len(Stream')
      PROVE  \/ /\ i \in 1 .. Len(Stream) /\ Stream'[i] = Stream[i]
                /\ Stream[i].frame \in DOMAIN sent /\ Stream[i].frame \in Nat
                /\ Stream[i].frame < n
             \/ i > Len(Stream) /\ i \in Nat /\ Stream'[i].frame = n
  <2>1. CASE i <= Len(Stream)
    <3>1. i \in 1 .. Len(Stream)
      BY <1>1, <2>1
    <3>2. Stream[i].frame \in DOMAIN sent /\ Stream[i].frame \in Nat
      BY <1>0, <3>1, StreamTags
    <3> QED
      BY <1>1, <3>1, <3>2
  <2>2. CASE ~(i <= Len(Stream))
    <3> DEFINE k == i - Len(Stream)
    <3>1. k \in 1 .. Len(F) /\ Len(Stream) + k = i
      BY <1>1, <2>2
    <3>2. Stream'[Len(Stream) + k] = F[k]
      BY <1>1, <3>1
    <3> QED
      BY <1>1, <2>2, <3>1, <3>2
  <2> QED
    BY <2>1, <2>2
<1>4. ASSUME NEW i \in 1 .. Len(Stream'), NEW j \in 1 .. Len(Stream'), i <= j
      PROVE  Stream'[i].frame <= Stream'[j].frame
  <2>1. CASE j \in 1 .. Len(Stream) /\ Stream'[j] = Stream[j]
    <3>1. i \in 1 .. Len(Stream)
      BY <1>1, <1>4, <2>1
    <3>2. Stream'[i] = Stream[i]
      BY <1>1, <3>1
    <3>3. Stream[i].frame <= Stream[j].frame
      BY <1>0, <1>4, <2>1, <3>1 DEF Ordered
    <3> QED
      BY <2>1, <3>2, <3>3
  <2>2. CASE Stream'[j].frame = n
    <3>1. Stream'[i].frame \in Nat /\ Stream'[i].frame <= n
      BY <1>2, <1>3
    <3> QED
      BY <2>2, <3>1
  <2> QED
    BY <1>3, <2>1, <2>2
<1>5. ASSUME NEW i \in 1 .. Len(Stream'), NEW j \in 1 .. Len(Stream'),
             Stream'[i].frame = Stream'[j].frame
      PROVE  j - i < LengthIn(sent', Stream'[i].frame)
  <2>1. CASE i \in 1 .. Len(Stream) /\ Stream'[i] = Stream[i]
             /\ Stream[i].frame \in DOMAIN sent /\ Stream[i].frame \in Nat
             /\ Stream[i].frame < n
    <3>1. j \in 1 .. Len(Stream) /\ Stream'[j] = Stream[j]
      BY <1>2, <1>3, <1>5, <2>1
    <3>2. j - i < FrameLength(Stream[i].frame)
      BY <1>0, <1>5, <2>1, <3>1 DEF Compact
    <3>3. LengthIn(sent', Stream'[i].frame) = FrameLength(Stream[i].frame)
      BY <1>1, <2>1
    <3> QED
      BY <3>2, <3>3
  <2>2. CASE i > Len(Stream) /\ i \in Nat /\ Stream'[i].frame = n
    <3>1. j - i < Len(F)
      BY <1>1, <2>2
    <3> QED
      BY <1>1, <2>2, <3>1
  <2> QED
    BY <1>3, <2>1, <2>2
<1>6. Ordered(Stream)'
  BY <1>4 DEF Ordered
<1>7. Compact(Stream)'
  BY <1>5 DEF Compact, FrameLength, LengthIn
<1> QED
  BY <1>6, <1>7

LEMMA StreamStep == StreamInv /\ [Next]_vars => StreamInv'
<1> SUFFICES ASSUME StreamInv, [Next]_vars PROVE StreamInv'
  OBVIOUS
<1>1. TypeInv /\ Ordered(Stream) /\ Compact(Stream)
  BY DEF StreamInv
<1>2. TypeInv'
  BY <1>1, StepTypes
<1>3. CASE Firmware
  <2>1. PICK p \in Payloads : Send(p)
    BY <1>3 DEF Firmware
  <2> QED
    BY <1>2, <2>1, SendStreamInv DEF StreamInv
<1>4. CASE ~Firmware
  <2>1. Thin(Stream') /\ Len(Stream') \in Nat /\ sent' = sent
    BY <1>1, <1>4, ThinStep
  <2>2. Ordered(Stream') /\ Compact(Stream')
    BY <1>1, <2>1, ThinKeeps
  <2>3. Ordered(Stream)'
    BY <2>2 DEF Ordered
  <2>4. Compact(Stream)'
    BY <2>1, <2>2 DEF Compact, FrameLength
  <2> QED
    BY <1>2, <2>3, <2>4 DEF StreamInv
<1> QED
  BY <1>3, <1>4

(* A step that hands over no frame leaves what was handed over behind all  *)
(* that is in the stream, and genuine.                                     *)
NoFrame ==
    \/ got' = got
    \/ got' = Append(got, [kind |-> "error"])

LEMMA GotShape ==
    ASSUME TypeInv, NEW e, got' = Append(got, e), e \in Events
    PROVE  /\ Len(got) \in Nat /\ DOMAIN got = 1 .. Len(got)
           /\ DOMAIN got' = 1 .. Len(got) + 1
           /\ got'[Len(got) + 1] = e
           /\ \A k \in 1 .. Len(got) : got'[k] = got[k]
<1>1. got \in Seq(Events)
  BY DEF TypeInv
<1>2. /\ got' \in Seq(Events) /\ Len(got') = Len(got) + 1 /\ got'[Len(got) + 1] = e
      /\ \A k \in 1 .. Len(got) : got'[k] = got[k]
  BY <1>1, AppendProperties
<1> QED
  BY <1>1, <1>2, LenProperties

(* What is in got' that is not in got is no frame.                         *)
LEMMA NoFrameShape ==
    ASSUME TypeInv, NoFrame
    PROVE  /\ \A k \in DOMAIN got' :
                 got'[k].kind = "frame" => k \in DOMAIN got /\ got'[k] = got[k]
           /\ \A k \in DOMAIN got : k \in DOMAIN got' /\ got'[k] = got[k]
<1>1. CASE got' = got
  BY <1>1
<1>2. CASE got' = Append(got, [kind |-> "error"])
  <2> DEFINE e == [kind |-> "error"]
  <2>1. e \in Events /\ e.kind # "frame"
    BY DEF Events
  <2> HIDE DEF e
  <2>2. /\ Len(got) \in Nat /\ DOMAIN got = 1 .. Len(got)
        /\ DOMAIN got' = 1 .. Len(got) + 1
        /\ got'[Len(got) + 1] = e
        /\ \A k \in 1 .. Len(got) : got'[k] = got[k]
    BY <1>2, <2>1, GotShape DEF e
  <2>3. ASSUME NEW k \in DOMAIN got', got'[k].kind = "frame"
        PROVE  k \in DOMAIN got /\ got'[k] = got[k]
    <3>1. k # Len(got) + 1
      BY <2>1, <2>2, <2>3
    <3> QED
      BY <2>2, <3>1
  <2>4. \A k \in DOMAIN got : k \in DOMAIN got' /\ got'[k] = got[k]
    BY <2>2
  <2> QED
    BY <2>3, <2>4
<1> QED
  BY <1>1, <1>2 DEF NoFrame

LEMMA NoFrameKeeps ==
    ASSUME TypeInv, NoFrame, FramesAreGenuine,
           \A m \in DOMAIN sent : m \in DOMAIN sent' /\ sent'[m] = sent[m]
    PROVE  FramesAreGenuine' /\ \A n : Delivered(n) => Delivered(n)'
<1>1. /\ \A k \in DOMAIN got' :
            got'[k].kind = "frame" => k \in DOMAIN got /\ got'[k] = got[k]
      /\ \A k \in DOMAIN got : k \in DOMAIN got' /\ got'[k] = got[k]
  BY NoFrameShape
<1>2. ASSUME NEW k \in DOMAIN got', got'[k].kind = "frame"
      PROVE  /\ got'[k].sequence \in DOMAIN sent'
             /\ got'[k].payload = sent'[got'[k].sequence]
  <2>1. k \in DOMAIN got /\ got'[k] = got[k] /\ IsFrame(k)
    BY <1>1, <1>2 DEF IsFrame
  <2>2. got[k].sequence \in DOMAIN sent /\ got[k].payload = sent[got[k].sequence]
    BY <2>1 DEF FramesAreGenuine
  <2> QED
    BY <2>1, <2>2
<1>3. ASSUME NEW j \in DOMAIN got', NEW k \in DOMAIN got', j < k,
             got'[j].kind = "frame", got'[k].kind = "frame"
      PROVE  got'[j].sequence < got'[k].sequence
  <2>1. j \in DOMAIN got /\ got'[j] = got[j] /\ IsFrame(j)
    BY <1>1, <1>3 DEF IsFrame
  <2>2. k \in DOMAIN got /\ got'[k] = got[k] /\ IsFrame(k)
    BY <1>1, <1>3 DEF IsFrame
  <2> QED
    BY <1>3, <2>1, <2>2 DEF FramesAreGenuine
<1>4. FramesAreGenuine'
  BY <1>2, <1>3 DEF FramesAreGenuine, IsFrame
<1>5. ASSUME NEW n, Delivered(n) PROVE Delivered(n)'
  <2>1. PICK k \in DOMAIN got : IsFrame(k) /\ got[k].sequence = n
    BY <1>5 DEF Delivered
  <2>2. k \in DOMAIN got' /\ got'[k] = got[k]
    BY <1>1
  <2>3. IsFrame(k)' /\ got'[k].sequence = n
    BY <2>1, <2>2 DEF IsFrame
  <2> QED
    BY <2>2, <2>3 DEF Delivered
<1> QED
  BY <1>4, <1>5

LEMMA NoFrameBehind ==
    ASSUME TypeInv, NoFrame, NEW s, s = Stream',
           \A k \in DOMAIN got, i \in 1 .. Len(s) : IsFrame(k) => got[k].sequence < s[i].frame
    PROVE  Behind(Stream)'
<1>1. \A k \in DOMAIN got' :
         got'[k].kind = "frame" => k \in DOMAIN got /\ got'[k] = got[k]
  BY NoFrameShape
<1>2. ASSUME NEW k \in DOMAIN got', NEW i \in 1 .. Len(Stream'), got'[k].kind = "frame"
      PROVE  got'[k].sequence < Stream'[i].frame
  <2>1. k \in DOMAIN got /\ got'[k] = got[k] /\ IsFrame(k)
    BY <1>1, <1>2 DEF IsFrame
  <2> QED
    BY <2>1
<1> QED
  BY <1>2 DEF Behind, IsFrame

-----------------------------------------------------------------------------
(* Where a frame stands after a step.                                      *)

LEMMA StandsNext ==
    ASSUME TypeInv, NEW n \in DOMAIN sent, NEW q \in Nat, Len(Stream') \in Nat,
           sent'[n] = sent[n],
           \A k \in 1 .. FrameLength(n) :
              q + k <= Len(Stream') /\ Stream'[q + k] = Framed(n, sent[n])[k]
    PROVE  q \in 0 .. Len(Stream') /\ Stands(n, q, Stream)'
<1>1. FrameLength(n) \in Nat /\ FrameLength(n) = Len(sent[n]) + 7
      /\ Len(sent[n]) \in 0 .. MaxPayload /\ MaxPayload \in Nat
  BY SentShape, CodecAssumption
<1>2. 1 \in 1 .. FrameLength(n)
  BY <1>1
<1>3. q \in 0 .. Len(Stream')
  BY <1>2
<1>4. HEADER_BYTES + Len(sent'[n]) + CRC_BYTES = FrameLength(n)
  BY DEF FrameLength
<1>5. \A k \in 1 .. HEADER_BYTES + Len(sent'[n]) + CRC_BYTES :
         q + k <= Len(Stream') /\ Stream'[q + k] = Framed(n, sent'[n])[k]
  BY <1>4
<1>6. Stands(n, q, Stream)'
  BY <1>5 DEF Stands, FrameLength, Framed, Cell, HEADER_BYTES, CRC_BYTES
<1> QED
  BY <1>3, <1>6

LEMMA StandsCells ==
    ASSUME TypeInv, NEW n \in DOMAIN sent, NEW p \in Nat, Stands(n, p, Stream)
    PROVE  /\ FrameLength(n) \in Nat /\ p + FrameLength(n) <= Len(Stream)
           /\ Len(Stream) \in Nat
           /\ \A k \in 1 .. FrameLength(n) :
                 p + k <= Len(Stream) /\ Stream[p + k] = Framed(n, sent[n])[k]
           /\ \A k \in 1 .. FrameLength(n) : Stream[p + k].frame = n
<1>1. Stream \in Seq(Cells) /\ Len(Stream) \in Nat
  BY StreamShape
<1>2. FrameLength(n) \in Nat
  BY SentShape
<1>3. /\ p + FrameLength(n) <= Len(Stream)
      /\ \A k \in 1 .. FrameLength(n) : Stream[p + k].frame = n
  BY <1>1, StandsShape
<1> QED
  BY <1>1, <1>2, <1>3 DEF Stands

LEMMA StandsDrop ==
    ASSUME TypeInv, NEW d \in Nat, Drops(d), NEW n \in DOMAIN sent, NEW p \in Nat,
           p >= d, Stands(n, p, Stream)
    PROVE  p - d \in 0 .. Len(Stream') /\ Stands(n, p - d, Stream)'
<1>1. /\ d \in 0 .. Len(Stream) /\ Len(Stream') = Len(Stream) - d
      /\ \A j \in 1 .. Len(Stream) - d : Stream'[j] = Stream[d + j]
  BY DropStream
<1>2. /\ FrameLength(n) \in Nat /\ p + FrameLength(n) <= Len(Stream) /\ Len(Stream) \in Nat
      /\ \A k \in 1 .. FrameLength(n) :
            p + k <= Len(Stream) /\ Stream[p + k] = Framed(n, sent[n])[k]
  BY StandsCells
<1> DEFINE q == p - d
<1>3. q \in Nat /\ Len(Stream') \in Nat /\ d + q = p
  BY <1>1, <1>2
<1>4. ASSUME NEW k \in 1 .. FrameLength(n)
      PROVE  q + k <= Len(Stream') /\ Stream'[q + k] = Framed(n, sent[n])[k]
  <2>1. q + k \in 1 .. Len(Stream) - d /\ d + (q + k) = p + k
    BY <1>1, <1>2, <1>3
  <2>2. Stream'[q + k] = Stream[d + (q + k)]
    BY <1>1, <2>1
  <2> QED
    BY <1>1, <1>2, <2>1, <2>2
<1>5. sent'[n] = sent[n]
  BY DEF Drops
<1> HIDE DEF q
<1>6. q \in 0 .. Len(Stream') /\ Stands(n, q, Stream)'
  BY <1>3, <1>4, <1>5, StandsNext
<1> QED
  BY <1>6 DEF q

LEMMA StandsLose ==
    ASSUME TypeInv, NEW h \in DOMAIN wire, Lose(h), NEW n \in DOMAIN sent, NEW p \in Nat,
           n # wire[h].frame, Stands(n, p, Stream)
    PROVE  \E q \in 0 .. Len(Stream') : Stands(n, q, Stream)'
<1>1. PICK i \in Int :
         /\ i \in 1 .. Len(Stream) /\ Stream[i] = wire[h]
         /\ Len(Stream') = Len(Stream) - 1
         /\ \A j \in 1 .. Len(Stream) - 1 :
               Stream'[j] = IF j < i THEN Stream[j] ELSE Stream[j + 1]
  <2>1. Len(buffer) + h \in Int
    BY FrameTyped
  <2> QED
    BY <2>1, LoseStream
<1>2. /\ FrameLength(n) \in Nat /\ p + FrameLength(n) <= Len(Stream) /\ Len(Stream) \in Nat
      /\ \A k \in 1 .. FrameLength(n) :
            p + k <= Len(Stream) /\ Stream[p + k] = Framed(n, sent[n])[k]
      /\ \A k \in 1 .. FrameLength(n) : Stream[p + k].frame = n
  BY StandsCells
<1>3. i <= p \/ i > p + FrameLength(n)
  <2> SUFFICES ASSUME i > p, i <= p + FrameLength(n) PROVE FALSE
    BY <1>1, <1>2
  <2>1. i - p \in 1 .. FrameLength(n) /\ p + (i - p) = i
    BY <1>1, <1>2
  <2>2. Stream[p + (i - p)].frame = n
    BY <1>2, <2>1
  <2> QED
    BY <1>1, <2>1, <2>2
<1>4. sent'[n] = sent[n] /\ Len(Stream') \in Nat
  BY <1>1, <1>2 DEF Lose
<1>5. CASE i <= p
  <2> DEFINE q == p - 1
  <2>1. q \in Nat
    BY <1>1, <1>5
  <2>2. ASSUME NEW k \in 1 .. FrameLength(n)
        PROVE  q + k <= Len(Stream') /\ Stream'[q + k] = Framed(n, sent[n])[k]
    <3>1. q + k \in 1 .. Len(Stream) - 1 /\ ~(q + k < i) /\ q + k + 1 = p + k
      BY <1>1, <1>2, <1>5, <2>1
    <3>2. Stream'[q + k] = Stream[q + k + 1]
      BY <1>1, <3>1
    <3> QED
      BY <1>1, <1>2, <3>1, <3>2
  <2> HIDE DEF q
  <2> QED
    BY <1>4, <2>1, <2>2, StandsNext
<1>6. CASE i > p + FrameLength(n)
  <2>1. ASSUME NEW k \in 1 .. FrameLength(n)
        PROVE  p + k <= Len(Stream') /\ Stream'[p + k] = Framed(n, sent[n])[k]
    <3>1. p + k \in 1 .. Len(Stream) - 1 /\ p + k < i
      BY <1>1, <1>2, <1>6
    <3>2. Stream'[p + k] = Stream[p + k]
      BY <1>1, <3>1
    <3> QED
      BY <1>1, <1>2, <3>1, <3>2
  <2> QED
    BY <1>4, <2>1, StandsNext
<1> QED
  BY <1>3, <1>5, <1>6

LEMMA StandsDamage ==
    ASSUME TypeInv, NEW h \in DOMAIN wire, NEW b \in Bytes, Damage(h, b),
           NEW n \in DOMAIN sent, NEW p \in Nat,
           n # wire[h].frame, Stands(n, p, Stream)
    PROVE  \E q \in 0 .. Len(Stream') : Stands(n, q, Stream)'
<1>1. PICK i \in Int :
         /\ i \in 1 .. Len(Stream) /\ Stream[i] = wire[h]
         /\ Len(Stream') = Len(Stream)
         /\ \A j \in 1 .. Len(Stream) : j # i => Stream'[j] = Stream[j]
  <2>1. Len(buffer) + h \in Int
    BY FrameTyped
  <2> QED
    BY <2>1, DamageStream
<1>2. /\ FrameLength(n) \in Nat /\ p + FrameLength(n) <= Len(Stream) /\ Len(Stream) \in Nat
      /\ \A k \in 1 .. FrameLength(n) :
            p + k <= Len(Stream) /\ Stream[p + k] = Framed(n, sent[n])[k]
      /\ \A k \in 1 .. FrameLength(n) : Stream[p + k].frame = n
  BY StandsCells
<1>3. sent'[n] = sent[n] /\ Len(Stream') \in Nat
  BY <1>1, <1>2 DEF Damage
<1>4. ASSUME NEW k \in 1 .. FrameLength(n)
      PROVE  p + k <= Len(Stream') /\ Stream'[p + k] = Framed(n, sent[n])[k]
  <2>1. p + k \in 1 .. Len(Stream)
    BY <1>2
  <2>2. p + k # i
    BY <1>1, <1>2
  <2>3. Stream'[p + k] = Stream[p + k]
    BY <1>1, <2>1, <2>2
  <2> QED
    BY <1>1, <1>2, <2>3
<1> QED
  BY <1>3, <1>4, StandsNext

LEMMA StandsSend ==
    ASSUME TypeInv, NEW v \in Payloads, Send(v), NEW n \in DOMAIN sent, NEW p \in Nat,
           Stands(n, p, Stream)
    PROVE  p \in 0 .. Len(Stream') /\ Stands(n, p, Stream)'
<1>1. /\ Len(Stream) \in Nat /\ Len(Framed(Len(sent) + 1, v)) \in Nat
      /\ Len(Stream') = Len(Stream) + Len(Framed(Len(sent) + 1, v))
      /\ \A i \in 1 .. Len(Stream) : Stream'[i] = Stream[i]
  BY SendShape
<1>2. /\ FrameLength(n) \in Nat /\ p + FrameLength(n) <= Len(Stream)
      /\ \A k \in 1 .. FrameLength(n) :
            p + k <= Len(Stream) /\ Stream[p + k] = Framed(n, sent[n])[k]
  BY StandsCells
<1>3. sent'[n] = sent[n]
  BY SendStream
<1>4. ASSUME NEW k \in 1 .. FrameLength(n)
      PROVE  p + k <= Len(Stream') /\ Stream'[p + k] = Framed(n, sent[n])[k]
  <2>1. p + k \in 1 .. Len(Stream)
    BY <1>1, <1>2
  <2> QED
    BY <1>1, <1>2, <2>1
<1>5. Len(Stream') \in Nat
  BY <1>1
<1> QED
  BY <1>3, <1>4, <1>5, StandsNext

(* A frame stands at the end of the stream once it has been sent.          *)
LEMMA StandsNew ==
    ASSUME TypeInv, NEW v \in Payloads, Send(v)
    PROVE  \E n, q \in Nat : /\ n = Len(sent) + 1 /\ q = Len(Stream)
                             /\ DOMAIN sent' = DOMAIN sent \cup {n}
                             /\ q \in 0 .. Len(Stream') /\ Stands(n, q, Stream)'
<1> DEFINE m == Len(sent) + 1
<1>1. PICK n \in Nat : n = m
  BY FrameTyped
<1> DEFINE F == Framed(n, v)
<1>2. /\ Len(F) \in Nat /\ LengthIn(sent', n) = Len(F)
      /\ Len(Stream) \in Nat /\ Len(Stream') = Len(Stream) + Len(F)
      /\ \A k \in 1 .. Len(F) : Stream'[Len(Stream) + k] = F[k]
  BY <1>1, SendShape
<1>3. sent'[n] = v /\ DOMAIN sent' = DOMAIN sent \cup {n}
  BY <1>1, SendStream
<1>4. PICK q \in Nat : q = Len(Stream)
  BY <1>2
<1>5. q \in 0 .. Len(Stream')
  BY <1>2, <1>4
<1>6. \A k \in 1 .. HEADER_BYTES + Len(sent'[n]) + CRC_BYTES :
         q + k <= Len(Stream') /\ Stream'[q + k] = Framed(n, sent'[n])[k]
  BY <1>2, <1>3, <1>4 DEF LengthIn
<1>7. Stands(n, q, Stream)'
  BY <1>6 DEF Stands, FrameLength, Framed, Cell, HEADER_BYTES, CRC_BYTES
<1> QED
  BY <1>1, <1>3, <1>4, <1>5, <1>7

-----------------------------------------------------------------------------
(* The invariant is kept.                                                  *)

LEMMA GenuineNumbers ==
    ASSUME TypeInv, FramesAreGenuine, NEW k \in DOMAIN got, IsFrame(k)
    PROVE  got[k].sequence \in 1 .. Len(sent) /\ got[k].sequence \in Nat
<1>1. got[k].sequence \in DOMAIN sent
  BY DEF FramesAreGenuine
<1> QED
  BY <1>1, FrameTyped

LEMMA FirmwareKeeps ==
    ASSUME CodecInv, NEW v \in Payloads, Send(v)
    PROVE  Behind(Stream)' /\ FramesAreGenuine' /\ IntactFramesSurvive'
<1>1. /\ TypeInv /\ Behind(Stream) /\ FramesAreGenuine /\ IntactFramesSurvive
  BY DEF CodecInv, StreamInv
<1>2. got' = got /\ hurt' = hurt /\ NoFrame
  BY DEF Send, NoFrame
<1>3. \A m \in DOMAIN sent : m \in DOMAIN sent' /\ sent'[m] = sent[m]
  BY <1>1, SendStream
<1>4. FramesAreGenuine' /\ \A n : Delivered(n) => Delivered(n)'
  BY <1>1, <1>2, <1>3, NoFrameKeeps
<1> DEFINE n == Len(sent) + 1
           F == Framed(n, v)
<1>5. /\ Len(F) \in Nat /\ \A k \in 1 .. Len(F) : F[k].frame = n
      /\ Len(Stream) \in Nat /\ Len(Stream') = Len(Stream) + Len(F)
      /\ \A i \in 1 .. Len(Stream) : Stream'[i] = Stream[i]
      /\ \A k \in 1 .. Len(F) : Stream'[Len(Stream) + k] = F[k]
  BY <1>1, SendShape
<1>6. Behind(Stream)'
  <2> DEFINE s == Stream'
  <2>1. ASSUME NEW k \in DOMAIN got, NEW i \in 1 .. Len(s), IsFrame(k)
        PROVE  got[k].sequence < s[i].frame
    <3>1. CASE i <= Len(Stream)
      <4>1. i \in 1 .. Len(Stream)
        BY <1>5, <3>1
      <4> QED
        BY <1>1, <1>5, <2>1, <4>1 DEF Behind
    <3>2. CASE ~(i <= Len(Stream))
      <4> DEFINE j == i - Len(Stream)
      <4> HIDE DEF F
      <4>1. j \in 1 .. Len(F) /\ Len(Stream) + j = i
        BY <1>5, <3>2
      <4>2. Stream'[Len(Stream) + j] = F[j]
        BY <1>5, <4>1
      <4>3. s[i].frame = n
        BY <1>5, <4>1, <4>2
      <4>4. got[k].sequence < n
        BY <1>1, <2>1, GenuineNumbers, FrameTyped
      <4> QED
        BY <4>3, <4>4
    <3> QED
      BY <3>1, <3>2
  <2> HIDE DEF s
  <2>2. s = Stream'
    BY DEF s
  <2>3. \A k \in DOMAIN got, i \in 1 .. Len(s) : IsFrame(k) => got[k].sequence < s[i].frame
    BY <2>1
  <2> QED
    BY <1>1, <1>2, <2>2, <2>3, NoFrameBehind
<1>7. IntactFramesSurvive'
  <2>1. PICK m, r \in Nat : /\ DOMAIN sent' = DOMAIN sent \cup {m}
                            /\ r \in 0 .. Len(Stream') /\ Stands(m, r, Stream)'
    BY <1>1, StandsNew
  <2>2. ASSUME NEW h \in DOMAIN sent \ hurt
        PROVE  Delivered(h)' \/ \E q \in 0 .. Len(Stream') : Stands(h, q, Stream)'
    <3>1. CASE Delivered(h)
      BY <1>4, <3>1
    <3>2. CASE \E p \in 0 .. Len(Stream) : Stands(h, p, Stream)
      <4>1. PICK p \in Nat : Stands(h, p, Stream)
        BY <1>5, <3>2
      <4> QED
        BY <1>1, <4>1, StandsSend
    <3> QED
      BY <1>1, <3>1, <3>2 DEF IntactFramesSurvive
  <2>3. \A h \in DOMAIN sent' \ hurt' :
           Delivered(h)' \/ \E q \in 0 .. Len(Stream') : Stands(h, q, Stream)'
    BY <1>2, <2>1, <2>2
  <2> QED
    BY <2>3 DEF IntactFramesSurvive
<1> QED
  BY <1>4, <1>6, <1>7

(* A step that is not the firmware's and hands over no frame, and after    *)
(* which every intact frame still stands.                                  *)
LEMMA QuietKeeps ==
    ASSUME CodecInv, [Next]_vars, ~Firmware, NoFrame, hurt \subseteq hurt',
           \A n \in DOMAIN sent \ hurt', p \in Nat :
              Stands(n, p, Stream) => \E q \in 0 .. Len(Stream') : Stands(n, q, Stream)'
    PROVE  Behind(Stream)' /\ FramesAreGenuine' /\ IntactFramesSurvive'
<1>1. /\ TypeInv /\ Behind(Stream) /\ FramesAreGenuine /\ IntactFramesSurvive
  BY DEF CodecInv, StreamInv
<1>2. Thin(Stream') /\ Len(Stream') \in Nat /\ sent' = sent
  BY <1>1, ThinStep
<1>3. FramesAreGenuine' /\ \A n : Delivered(n) => Delivered(n)'
  BY <1>1, <1>2, NoFrameKeeps
<1>4. Behind(Stream)'
  <2> DEFINE s == Stream'
  <2>1. s = Stream'
    OBVIOUS
  <2>2. Thin(s) /\ Len(s) \in Nat
    BY <1>2
  <2> HIDE DEF s
  <2>3. \A k \in DOMAIN got, i \in 1 .. Len(s) : IsFrame(k) => got[k].sequence < s[i].frame
    BY <1>1, <2>2, ThinKeeps DEF Behind
  <2> QED
    BY <1>1, <2>1, <2>3, NoFrameBehind
<1>5. ASSUME NEW n \in DOMAIN sent \ hurt'
      PROVE  Delivered(n)' \/ \E q \in 0 .. Len(Stream') : Stands(n, q, Stream)'
  <2>1. CASE Delivered(n)
    BY <1>3, <2>1
  <2>2. CASE \E p \in 0 .. Len(Stream) : Stands(n, p, Stream)
    <3>1. PICK p \in 0 .. Len(Stream) : Stands(n, p, Stream)
      BY <2>2
    <3>2. p \in Nat
      BY <1>1, StreamShape
    <3> QED
      BY <3>1, <3>2
  <2> QED
    BY <1>1, <2>1, <2>2 DEF IntactFramesSurvive
<1>6. IntactFramesSurvive'
  BY <1>2, <1>5 DEF IntactFramesSurvive
<1> QED
  BY <1>3, <1>4, <1>6

LEMMA FaultsKeep ==
    ASSUME CodecInv, Faults
    PROVE  Behind(Stream)' /\ FramesAreGenuine' /\ IntactFramesSurvive'
<1>1. TypeInv
  BY DEF CodecInv, StreamInv
<1>2. PICK h \in DOMAIN wire : Lose(h) \/ \E b \in Bytes : Damage(h, b)
  BY DEF Faults
<1>3. got' = got /\ hurt' = hurt \cup {wire[h].frame} /\ sent' = sent
  BY <1>2 DEF Lose, Damage
<1>4. [Next]_vars /\ NoFrame /\ hurt \subseteq hurt'
  BY <1>3 DEF Next, NoFrame
<1>5. ~Firmware
  <2>1. ASSUME Firmware PROVE FALSE
    <3>1. PICK v \in Payloads : Send(v)
      BY <2>1 DEF Firmware
    <3>2. Len(sent') = Len(sent) + 1 /\ Len(sent) \in Nat
      BY <1>1, <3>1, FrameTyped DEF Send, TypeInv, TypeOK
    <3> QED
      BY <1>3, <3>2
  <2> QED
    BY <2>1
<1>6. ASSUME NEW n \in DOMAIN sent \ hurt', NEW p \in Nat, Stands(n, p, Stream)
      PROVE  \E q \in 0 .. Len(Stream') : Stands(n, q, Stream)'
  <2>1. n \in DOMAIN sent /\ n # wire[h].frame
    BY <1>3
  <2>2. CASE Lose(h)
    BY <1>1, <1>6, <2>1, <2>2, StandsLose
  <2>3. ASSUME NEW b \in Bytes, Damage(h, b)
        PROVE  \E q \in 0 .. Len(Stream') : Stands(n, q, Stream)'
    BY <1>1, <1>6, <2>1, <2>3, StandsDamage
  <2> QED
    BY <1>2, <2>2, <2>3
<1> QED
  BY <1>4, <1>5, <1>6, QuietKeeps

LEMMA NotFirmware ==
    ASSUME TypeInv, sent' = sent
    PROVE  ~Firmware
<1> SUFFICES ASSUME Firmware PROVE FALSE
  OBVIOUS
<1>1. PICK v \in Payloads : Send(v)
  BY DEF Firmware
<1>2. Len(sent') = Len(sent) + 1 /\ Len(sent) \in Nat
  BY <1>1, FrameTyped DEF Send, TypeInv, TypeOK
<1> QED
  BY <1>2

LEMMA SameStreamKeeps ==
    ASSUME CodecInv, [Next]_vars, Stream' = Stream, UNCHANGED <<sent, hurt, got>>
    PROVE  Behind(Stream)' /\ FramesAreGenuine' /\ IntactFramesSurvive'
<1>1. TypeInv
  BY DEF CodecInv, StreamInv
<1>2. ~Firmware /\ NoFrame /\ hurt \subseteq hurt'
  BY <1>1, NotFirmware DEF NoFrame
<1>3. ASSUME NEW n \in DOMAIN sent \ hurt', NEW p \in Nat, Stands(n, p, Stream)
      PROVE  \E q \in 0 .. Len(Stream') : Stands(n, q, Stream)'
  <2>1. /\ Len(Stream) \in Nat
        /\ \A k \in 1 .. FrameLength(n) :
              p + k <= Len(Stream) /\ Stream[p + k] = Framed(n, sent[n])[k]
    BY <1>1, <1>3, StandsCells
  <2>2. sent'[n] = sent[n] /\ Len(Stream') \in Nat
    BY <2>1
  <2>3. \A k \in 1 .. FrameLength(n) :
           p + k <= Len(Stream') /\ Stream'[p + k] = Framed(n, sent[n])[k]
    BY <2>1
  <2> QED
    BY <1>1, <2>2, <2>3, StandsNext
<1> QED
  BY <1>2, <1>3, QuietKeeps

LEMMA DropsKeep ==
    ASSUME CodecInv, Scan, NoFrame, NEW d \in Nat, Drops(d), DropsNone(d)
    PROVE  Behind(Stream)' /\ FramesAreGenuine' /\ IntactFramesSurvive'
<1>1. TypeInv
  BY DEF CodecInv, StreamInv
<1>2. sent' = sent /\ hurt' = hurt
  BY DEF Drops
<1>3. ~Firmware /\ [Next]_vars
  BY <1>1, <1>2, NotFirmware DEF Next
<1>4. ASSUME NEW n \in DOMAIN sent \ hurt', NEW p \in Nat, Stands(n, p, Stream)
      PROVE  \E q \in 0 .. Len(Stream') : Stands(n, q, Stream)'
  <2>1. p >= d
    BY <1>4 DEF DropsNone
  <2> QED
    BY <1>1, <1>4, <2>1, StandsDrop
<1> QED
  BY <1>2, <1>3, <1>4, QuietKeeps

(* The steps of the decoder that hand over an error or nothing.            *)
LEMMA QuietScanKeeps ==
    ASSUME CodecInv, NoMagic \/ Incomplete \/ BadHeader \/ CrcMismatch
    PROVE  Behind(Stream)' /\ FramesAreGenuine' /\ IntactFramesSurvive'
<1>1. TypeInv /\ Scan
  BY DEF CodecInv, StreamInv, Scan
<1>2. NoFrame
  BY DEF NoFrame, NoMagic, Incomplete, BadHeader, CrcMismatch, Emit
<1>3. PICK d \in Nat : Drops(d) /\ DropsNone(d)
  <2>1. CASE NoMagic
    BY <1>1, <2>1, NoMagicDrops
  <2>2. CASE Incomplete
    <3>1. PICK a \in Nat : View(a) /\ Drops(a - 1) /\ DropsNone(a - 1)
      BY <1>1, <2>2, IncompleteDrops
    <3>2. a - 1 \in Nat
      BY <3>1 DEF View
    <3> QED
      BY <3>1, <3>2
  <2>3. CASE BadHeader
    BY <1>1, <2>3, BadHeaderDrops
  <2>4. CASE CrcMismatch
    BY <1>1, <2>4, CrcMismatchDrops
  <2> QED
    BY <2>1, <2>2, <2>3, <2>4
<1> QED
  BY <1>1, <1>2, <1>3, DropsKeep

(* The frame handed over comes after all that were, and before every cell  *)
(* left in the stream; an intact frame sent before it has been delivered.  *)
LEMMA HandsOrder ==
    ASSUME CodecInv, NEW n \in DOMAIN sent, NEW d \in Nat, Hands(n, d)
    PROVE  /\ \A k \in DOMAIN got : IsFrame(k) => got[k].sequence < n
           /\ \A i \in 1 .. Len(Stream') : n < Stream'[i].frame
           /\ \A m \in DOMAIN sent \ hurt : m < n => Delivered(m)
<1>1. TypeInv /\ Ordered(Stream) /\ Compact(Stream) /\ Behind(Stream)
      /\ IntactFramesSurvive
  BY DEF CodecInv, StreamInv
<1> DEFINE L == FrameLength(n)
           p == d - L
<1>2. p \in Nat /\ Stands(n, p, Stream) /\ Drops(d)
      /\ \A m \in DOMAIN sent \ {n}, q \in Nat : Stands(m, q, Stream) => q >= d
  BY DEF Hands
<1>3. L \in Nat /\ L >= 7 /\ n \in Nat
  BY <1>1, SentShape
<1>4. p + L = d
  BY <1>3
<1> HIDE DEF L, p
<1>5. /\ p + L <= Len(Stream) /\ Len(Stream) \in Nat
      /\ \A k \in 1 .. L : Stream[p + k].frame = n
  BY <1>1, <1>2, StandsCells DEF L
<1>6. p + 1 \in 1 .. Len(Stream) /\ Stream[p + 1].frame = n
  <2>1. 1 \in 1 .. L
    BY <1>3
  <2> QED
    BY <1>2, <1>3, <1>5, <2>1
<1>7. /\ d \in 0 .. Len(Stream) /\ Len(Stream') = Len(Stream) - d
      /\ \A j \in 1 .. Len(Stream) - d : Stream'[j] = Stream[d + j]
  BY <1>1, <1>2, DropStream
<1>8. ASSUME NEW k \in DOMAIN got, IsFrame(k) PROVE got[k].sequence < n
  BY <1>1, <1>6, <1>8 DEF Behind
<1>9. ASSUME NEW j \in 1 .. Len(Stream), j > d PROVE n < Stream[j].frame
  <2>1. p + 1 <= j /\ j - (p + 1) >= L
    BY <1>2, <1>3, <1>4, <1>9
  <2>2. n <= Stream[j].frame
    BY <1>1, <1>6, <2>1 DEF Ordered
  <2>3. n # Stream[j].frame
    <3> SUFFICES ASSUME n = Stream[j].frame PROVE FALSE
      OBVIOUS
    <3>1. j - (p + 1) < FrameLength(Stream[p + 1].frame)
      BY <1>1, <1>6 DEF Compact
    <3> QED
      BY <1>2, <1>3, <1>6, <2>1, <3>1 DEF L
  <2>4. Stream[j].frame \in Nat
    BY <1>1, StreamTags
  <2> QED
    BY <1>3, <2>2, <2>3, <2>4
<1>10. ASSUME NEW i \in 1 .. Len(Stream') PROVE n < Stream'[i].frame
  <2>1. d + i \in 1 .. Len(Stream) /\ d + i > d /\ i \in 1 .. Len(Stream) - d
    BY <1>5, <1>7
  <2> QED
    BY <1>7, <1>9, <2>1
<1>11. ASSUME NEW m \in DOMAIN sent \ hurt, m < n PROVE Delivered(m)
  <2> SUFFICES ASSUME NEW q \in 0 .. Len(Stream), Stands(m, q, Stream) PROVE FALSE
    BY <1>1 DEF IntactFramesSurvive
  <2>1. q \in Nat /\ m \in DOMAIN sent \ {n} /\ m \in Nat
    BY <1>1, <1>3, <1>5, <1>11, SentShape
  <2>2. q >= d
    BY <1>2, <2>1
  <2>3. /\ q + FrameLength(m) <= Len(Stream) /\ FrameLength(m) \in Nat
        /\ \A k \in 1 .. FrameLength(m) : Stream[q + k].frame = m
    BY <1>1, <2>1, StandsCells
  <2>4. 1 \in 1 .. FrameLength(m)
    BY <1>1, SentShape
  <2>5. q + 1 \in 1 .. Len(Stream) /\ q + 1 > d /\ Stream[q + 1].frame = m
    BY <1>5, <2>1, <2>2, <2>3, <2>4
  <2>6. n < m
    BY <1>9, <2>5
  <2> QED
    BY <1>3, <1>11, <2>1, <2>6
<1> QED
  BY <1>8, <1>10, <1>11

LEMMA DeliverKeeps ==
    ASSUME CodecInv, Deliver, ~Collision
    PROVE  Behind(Stream)' /\ FramesAreGenuine' /\ IntactFramesSurvive'
<1>1. TypeInv /\ FramesAreGenuine /\ Behind(Stream) /\ IntactFramesSurvive
  BY DEF CodecInv, StreamInv
<1>2. PICK n \in DOMAIN sent, d \in Nat : Hands(n, d)
  BY <1>1, DeliverHands
<1> DEFINE e == [kind |-> "frame", sequence |-> n, payload |-> sent[n]]
           N == Len(got) + 1
<1>3. /\ \A k \in DOMAIN got : IsFrame(k) => got[k].sequence < n
      /\ \A i \in 1 .. Len(Stream') : n < Stream'[i].frame
  BY <1>2, HandsOrder
<1>4. n \in Nat /\ Len(Stream) \in Nat /\ got \in Seq(Events)
  BY <1>1, SentShape, StreamShape DEF TypeInv
<1>5. got' = Append(got, e) /\ Drops(d) /\ sent' = sent /\ hurt' = hurt
      /\ \A m \in DOMAIN sent \ {n}, q \in Nat : Stands(m, q, Stream) => q >= d
  BY <1>2 DEF Hands, Drops
<1>6. e.kind = "frame" /\ e.sequence = n /\ e.payload = sent[n]
  OBVIOUS
<1> HIDE DEF e
<1>7. /\ DOMAIN got = 1 .. Len(got) /\ Len(got) \in Nat /\ DOMAIN got' = 1 .. N
      /\ got'[N] = e /\ \A k \in 1 .. Len(got) : got'[k] = got[k]
  <2>2. /\ Len(got) \in Nat /\ Len(Append(got, e)) = N /\ Append(got, e)[N] = e
        /\ \A k \in 1 .. Len(got) : Append(got, e)[k] = got[k]
        /\ DOMAIN Append(got, e) = 1 .. N
    BY <1>4
  <2>3. DOMAIN got = 1 .. Len(got)
    BY <1>4
  <2> QED
    BY <1>5, <2>2, <2>3
<1>8. \A k \in DOMAIN got' : k = N \/ (k \in DOMAIN got /\ got'[k] = got[k])
  BY <1>7
<1>9. ASSUME NEW k \in DOMAIN got', got'[k].kind = "frame"
      PROVE  /\ got'[k].sequence \in DOMAIN sent'
             /\ got'[k].payload = sent'[got'[k].sequence]
             /\ got'[k].sequence <= n
             /\ k # N => got'[k].sequence < n
  <2>1. CASE k = N
    BY <1>4, <1>5, <1>6, <1>7, <2>1
  <2>2. CASE k # N
    <3>1. k \in DOMAIN got /\ got'[k] = got[k] /\ IsFrame(k)
      BY <1>8, <1>9, <2>2 DEF IsFrame
    <3>2. got[k].sequence \in DOMAIN sent /\ got[k].payload = sent[got[k].sequence]
      BY <1>1, <3>1 DEF FramesAreGenuine
    <3>3. got[k].sequence < n /\ got[k].sequence \in Nat
      BY <1>1, <1>3, <3>1, <3>2, SentShape
    <3> QED
      BY <1>4, <1>5, <3>1, <3>2, <3>3
  <2> QED
    BY <2>1, <2>2
<1>10. ASSUME NEW j \in DOMAIN got', NEW k \in DOMAIN got', j < k,
              got'[j].kind = "frame", got'[k].kind = "frame"
       PROVE  got'[j].sequence < got'[k].sequence
  <2>1. j # N
    BY <1>7, <1>10
  <2>2. j \in DOMAIN got /\ got'[j] = got[j] /\ IsFrame(j)
    BY <1>8, <1>10, <2>1 DEF IsFrame
  <2>3. CASE k = N
    BY <1>6, <1>7, <1>9, <1>10, <2>1, <2>3
  <2>4. CASE k # N
    <3>1. k \in DOMAIN got /\ got'[k] = got[k] /\ IsFrame(k)
      BY <1>8, <1>10, <2>4 DEF IsFrame
    <3> QED
      BY <1>1, <1>10, <2>2, <3>1 DEF FramesAreGenuine
  <2> QED
    BY <2>3, <2>4
<1>11. FramesAreGenuine'
  BY <1>9, <1>10 DEF FramesAreGenuine, IsFrame
<1>12. ASSUME NEW k \in DOMAIN got', NEW i \in 1 .. Len(Stream'), got'[k].kind = "frame"
       PROVE  got'[k].sequence < Stream'[i].frame
  <2>1. got'[k].sequence <= n /\ got'[k].sequence \in DOMAIN sent
    BY <1>5, <1>9, <1>12
  <2>2. got'[k].sequence \in Nat
    BY <1>1, <2>1, SentShape
  <2>3. n < Stream'[i].frame /\ Stream'[i].frame \in Nat
    <3>1. /\ d \in 0 .. Len(Stream) /\ Len(Stream') = Len(Stream) - d
          /\ \A j \in 1 .. Len(Stream) - d : Stream'[j] = Stream[d + j]
      BY <1>1, <1>5, DropStream
    <3>2. d + i \in 1 .. Len(Stream) /\ i \in 1 .. Len(Stream) - d
      BY <1>4, <3>1
    <3>3. Stream[d + i].frame \in Nat
      BY <1>1, <3>2, StreamTags
    <3> QED
      BY <1>3, <3>1, <3>2, <3>3
  <2> QED
    BY <1>4, <2>1, <2>2, <2>3
<1>13. Behind(Stream)'
  BY <1>12 DEF Behind, IsFrame
<1>14. ASSUME NEW m \in DOMAIN sent \ hurt
       PROVE  Delivered(m)' \/ \E q \in 0 .. Len(Stream') : Stands(m, q, Stream)'
  <2>1. CASE m = n
    <3>1. N \in DOMAIN got' /\ got'[N].kind = "frame" /\ got'[N].sequence = m
      BY <1>6, <1>7, <2>1
    <3>2. Delivered(m)'
      BY <3>1 DEF Delivered, IsFrame
    <3> QED
      BY <3>2
  <2>2. CASE Delivered(m)
    <3>1. PICK k \in DOMAIN got : IsFrame(k) /\ got[k].sequence = m
      BY <2>2 DEF Delivered
    <3>2. k \in DOMAIN got' /\ got'[k] = got[k]
      BY <1>7
    <3>3. got'[k].kind = "frame" /\ got'[k].sequence = m
      BY <3>1, <3>2 DEF IsFrame
    <3>4. Delivered(m)'
      BY <3>2, <3>3 DEF Delivered, IsFrame
    <3> QED
      BY <3>4
  <2>3. ASSUME m # n, NEW p \in 0 .. Len(Stream), Stands(m, p, Stream)
        PROVE  \E q \in 0 .. Len(Stream') : Stands(m, q, Stream)'
    <3>1. p \in Nat /\ p >= d
      BY <1>4, <1>5, <2>3
    <3> QED
      BY <1>1, <1>5, <2>3, <3>1, StandsDrop
  <2> QED
    BY <1>1, <2>1, <2>2, <2>3 DEF IntactFramesSurvive
<1>15. IntactFramesSurvive'
  BY <1>5, <1>14 DEF IntactFramesSurvive
<1> QED
  BY <1>11, <1>13, <1>15

LEMMA CodecInit == Init => CodecInv
<1> SUFFICES ASSUME Init PROVE CodecInv
  OBVIOUS
<1>1. TypeInv
  BY InitTypes
<1>2. Stream = <<>> /\ got = <<>> /\ sent = <<>>
  BY DEF Init, Stream
<1>3. Len(Stream) = 0 /\ DOMAIN got = {} /\ DOMAIN sent = {}
  BY <1>2
<1>4. Ordered(Stream) /\ Compact(Stream) /\ Behind(Stream)
  BY <1>3 DEF Ordered, Compact, Behind
<1>5. FramesAreGenuine /\ IntactFramesSurvive
  BY <1>3 DEF FramesAreGenuine, IntactFramesSurvive
<1> QED
  BY <1>1, <1>4, <1>5 DEF CodecInv, StreamInv

LEMMA CodecStep == CodecInv /\ ~Collision /\ [Next]_vars => CodecInv'
<1> SUFFICES ASSUME CodecInv, ~Collision, [Next]_vars PROVE CodecInv'
  OBVIOUS
<1>1. StreamInv /\ TypeInv /\ StreamInv'
  BY StreamStep DEF CodecInv, StreamInv
<1> DEFINE Kept == Behind(Stream)' /\ FramesAreGenuine' /\ IntactFramesSurvive'
<1>2. ASSUME Firmware PROVE Kept
  BY <1>2, FirmwareKeeps DEF Firmware
<1>3. ASSUME Faults PROVE Kept
  BY <1>3, FaultsKeep
<1>4. ASSUME NEW n \in 1 .. Len(wire), Read(n) PROVE Kept
  <2>1. Stream' = Stream /\ UNCHANGED <<sent, hurt, got>>
    BY <1>1, <1>4, ReadStream DEF Read
  <2> QED
    BY <2>1, SameStreamKeeps
<1>5. ASSUME NoMagic \/ Incomplete \/ BadHeader \/ CrcMismatch PROVE Kept
  BY <1>5, QuietScanKeeps
<1>6. ASSUME Deliver PROVE Kept
  BY <1>6, DeliverKeeps
<1>7. ASSUME UNCHANGED vars PROVE Kept
  <2>1. Stream' = Stream /\ UNCHANGED <<sent, hurt, got>>
    BY <1>7 DEF vars, Stream
  <2> QED
    BY <2>1, SameStreamKeeps
<1>8. Kept
  BY <1>2, <1>3, <1>4, <1>5, <1>6, <1>7 DEF Next, Scan
<1> QED
  BY <1>1, <1>8 DEF CodecInv

(***************************************************************************)
(* Whatever is lost or damaged, as long as no checksum collides, the       *)
(* daemon is handed only frames as they were sent, each once and in their  *)
(* order (FrameDecoder::feed).                                             *)
(***************************************************************************)
THEOREM OnlyGenuine == Spec /\ []~Collision => []FramesAreGenuine
<1>1. CodecInv => FramesAreGenuine
  BY DEF CodecInv
<1> QED
  BY <1>1, CodecInit, CodecStep, PTL DEF Spec

(***************************************************************************)
(* And no resynchronisation runs over a frame that no fault has hit: it is *)
(* delivered, or stands whole in what is still to be scanned.              *)
(***************************************************************************)
THEOREM IntactSurvives == Spec /\ []~Collision => []IntactFramesSurvive
<1>1. CodecInv => IntactFramesSurvive
  BY DEF CodecInv
<1> QED
  BY <1>1, CodecInit, CodecStep, PTL DEF Spec

-----------------------------------------------------------------------------
(* The refinement: what each step is for the daemon.                       *)

LEMMA NoFrameReceived ==
    ASSUME TypeInv, NoFrame
    PROVE  Received' = Received
<1>1. /\ \A k \in DOMAIN got' :
            got'[k].kind = "frame" => k \in DOMAIN got /\ got'[k] = got[k]
      /\ \A k \in DOMAIN got : k \in DOMAIN got' /\ got'[k] = got[k]
  BY NoFrameShape
<1> DEFINE J == {j \in DOMAIN got : got[j].kind = "frame"}
<1>2. {j \in DOMAIN got' : got'[j].kind = "frame"} = J
  BY <1>1
<1>3. Received = {got[k] : k \in J}
  BY DEF Received, IsFrame
<1>4. Received' = {got'[k] : k \in J}
  BY <1>2 DEF Received, IsFrame
<1>5. \A k \in J : got'[k] = got[k]
  BY <1>1
<1> HIDE DEF J
<1> QED
  BY <1>3, <1>4, <1>5

(* A frame handed over is received as the firmware sent it.                *)
LEMMA DeliveredReceived ==
    ASSUME TypeInv, FramesAreGenuine, NEW m, Delivered(m)
    PROVE  [kind |-> "frame", sequence |-> m, payload |-> sent[m]] \in Received
<1>1. PICK k \in DOMAIN got : IsFrame(k) /\ got[k].sequence = m
  BY DEF Delivered
<1>2. got[k].payload = sent[m]
  BY <1>1 DEF FramesAreGenuine
<1>3. got[k] \in Events
  <2>1. got \in Seq(Events)
    BY DEF TypeInv
  <2> QED
    BY <1>1, <2>1, ElementOfSeq, LenProperties
<1>4. got[k].kind = "frame"
  BY <1>1 DEF IsFrame
<1>5. got[k] \in [kind : {"frame"}, sequence : Values, payload : Seq(Values)]
  BY <1>3, <1>4 DEF Events
<1>6. got[k] = [kind |-> "frame", sequence |-> m, payload |-> sent[m]]
  BY <1>1, <1>2, <1>4, <1>5
<1> QED
  BY <1>1, <1>6 DEF Received

LEMMA SendRefines ==
    ASSUME TypeInv, NEW v \in Payloads, Send(v)
    PROVE  Link!Send(v)
<1>1. sent' = Append(sent, v) /\ hurt' = hurt /\ NoFrame
  BY DEF Send, NoFrame
<1>2. Received' = Received
  BY <1>1, NoFrameReceived
<1> QED
  BY <1>1, <1>2 DEF Link!Send

LEMMA FaultRefines ==
    ASSUME CodecInv, Faults
    PROVE  \E n \in DOMAIN sent : Link!Hit(n)
<1>1. TypeInv /\ Behind(Stream)
  BY DEF CodecInv, StreamInv
<1>2. PICK h \in DOMAIN wire : Lose(h) \/ \E b \in Bytes : Damage(h, b)
  BY DEF Faults
<1>3. hurt' = hurt \cup {wire[h].frame} /\ sent' = sent /\ NoFrame
  BY <1>2 DEF Lose, Damage, NoFrame
<1>4. Received' = Received
  BY <1>1, <1>3, NoFrameReceived
<1>5. /\ h \in 1 .. Len(wire) /\ Len(buffer) \in Nat /\ Len(wire) \in Nat
      /\ wire[h].frame \in DOMAIN sent
  BY <1>1, FrameTyped
<1>6. Len(buffer) + h \in 1 .. Len(Stream) /\ Stream[Len(buffer) + h] = wire[h]
  BY <1>1, <1>5, StreamShape
<1>7. \A k \in DOMAIN got : IsFrame(k) => got[k].sequence < wire[h].frame
  BY <1>1, <1>6 DEF Behind
<1>8. Link!Ahead(wire[h].frame)
  BY <1>7 DEF Link!Ahead, Received
<1>9. Link!Hit(wire[h].frame)
  BY <1>3, <1>4, <1>8 DEF Link!Hit
<1> QED
  BY <1>5, <1>9

LEMMA DeliverRefines ==
    ASSUME CodecInv, Deliver, ~Collision
    PROVE  \E n \in DOMAIN sent : Link!Receive(n)
<1>1. TypeInv /\ FramesAreGenuine
  BY DEF CodecInv, StreamInv
<1>2. PICK n \in DOMAIN sent, d \in Nat : Hands(n, d)
  BY <1>1, DeliverHands
<1> DEFINE e == [kind |-> "frame", sequence |-> n, payload |-> sent[n]]
           N == Len(got) + 1
           J == {j \in DOMAIN got : got[j].kind = "frame"}
<1>3. /\ \A k \in DOMAIN got : IsFrame(k) => got[k].sequence < n
      /\ \A m \in DOMAIN sent \ hurt : m < n => Delivered(m)
  BY <1>2, HandsOrder
<1>4. got' = Append(got, e) /\ sent' = sent /\ hurt' = hurt
  BY <1>2 DEF Hands, Drops
<1>5. e.kind = "frame"
  OBVIOUS
<1>6. Link!Ahead(n)
  BY <1>3 DEF Link!Ahead, Received
<1>7. ASSUME NEW m \in 1 .. n - 1 PROVE m \in hurt \/ Link!Frame(m) \in Received
  <2>1. n \in 1 .. Len(sent) /\ Len(sent) \in Nat /\ DOMAIN sent = 1 .. Len(sent)
    BY <1>1, SentShape, FrameTyped
  <2>2. m \in DOMAIN sent /\ m < n
    BY <2>1
  <2>3. m \in hurt \/ Delivered(m)
    BY <1>3, <2>2
  <2> QED
    BY <1>1, <2>3, DeliveredReceived DEF Link!Frame
<1>8. got \in Seq(Events)
  BY <1>1 DEF TypeInv
<1> HIDE DEF e
<1>9. /\ DOMAIN got = 1 .. Len(got) /\ Len(got) \in Nat /\ DOMAIN got' = 1 .. N
      /\ got'[N] = e /\ \A k \in 1 .. Len(got) : got'[k] = got[k]
  <2>1. /\ Len(got) \in Nat /\ DOMAIN Append(got, e) = 1 .. N /\ Append(got, e)[N] = e
        /\ \A k \in 1 .. Len(got) : Append(got, e)[k] = got[k]
    BY <1>8
  <2>2. DOMAIN got = 1 .. Len(got)
    BY <1>8
  <2> QED
    BY <1>4, <2>1, <2>2
<1>10. {j \in DOMAIN got' : got'[j].kind = "frame"} = J \cup {N}
  BY <1>5, <1>9
<1>11. Received = {got[k] : k \in J}
  BY DEF Received, IsFrame
<1>12. Received' = {got'[k] : k \in J \cup {N}}
  BY <1>10 DEF Received, IsFrame
<1>13. \A k \in J : got'[k] = got[k]
  BY <1>9
<1>14. Received' = Received \cup {e}
  <2> HIDE DEF J, N
  <2> QED
    BY <1>9, <1>11, <1>12, <1>13
<1>15. Link!Receive(n)
  BY <1>4, <1>6, <1>7, <1>14 DEF Link!Receive, Link!Frame, e
<1> QED
  BY <1>15

LEMMA StepRefines ==
    CodecInv /\ ~Collision /\ [Next]_vars => [Link!Next]_<<sent, hurt, Received>>
<1> SUFFICES ASSUME CodecInv, ~Collision, [Next]_vars
             PROVE  [Link!Next]_<<sent, hurt, Received>>
  OBVIOUS
<1>1. TypeInv
  BY DEF CodecInv, StreamInv
<1>2. ASSUME NEW v \in Payloads, Send(v) PROVE Link!Next
  BY <1>1, <1>2, SendRefines DEF Link!Next
<1>3. CASE Faults
  BY <1>3, FaultRefines DEF Link!Next
<1>4. CASE Deliver
  BY <1>4, DeliverRefines DEF Link!Next
<1>5. ASSUME UNCHANGED <<sent, hurt>>, NoFrame
      PROVE  UNCHANGED <<sent, hurt, Received>>
  BY <1>1, <1>5, NoFrameReceived
<1>6. ASSUME NEW n \in 1 .. Len(wire), Read(n) PROVE UNCHANGED <<sent, hurt, Received>>
  BY <1>5, <1>6 DEF Read, NoFrame
<1>7. CASE NoMagic \/ Incomplete
  BY <1>5, <1>7 DEF NoMagic, Incomplete, NoFrame
<1>8. CASE BadHeader \/ CrcMismatch
  BY <1>5, <1>8 DEF BadHeader, CrcMismatch, Emit, NoFrame
<1>9. CASE UNCHANGED vars
  BY <1>5, <1>9 DEF vars, NoFrame
<1> QED
  BY <1>2, <1>3, <1>4, <1>6, <1>7, <1>8, <1>9 DEF Next, Firmware, Scan

(***************************************************************************)
(* As long as no checksum collides the codec makes of the wire a link that *)
(* drops the frames that were hit and no others, and neither reorders nor  *)
(* repeats: every step maps to one of LossyLink or to none.                *)
(***************************************************************************)
THEOREM Implements == Spec /\ []~Collision => IsALossyLink
<1>1. Init => Link!Init
  BY DEF Init, Link!Init, Received
<1> QED
  BY <1>1, StepRefines, CodecInit, CodecStep, PTL DEF Spec, IsALossyLink, Link!Spec

-----------------------------------------------------------------------------
(* The link without faults: the stream is nothing but whole frames, and    *)
(* the decoder never comes across a checksum that collides.                *)

Tiled(s) ==
    \A i \in 1 .. Len(s) : \E n \in DOMAIN sent, p \in Nat :
        p < i /\ i <= p + FrameLength(n) /\ Stands(n, p, s)

(* The daemon has been handed the first frames sent, and no error.         *)
Exact ==
    \A k \in DOMAIN got :
        got[k] = [kind |-> "frame", sequence |-> k, payload |-> sent[k]]

CleanInv == CodecInv /\ hurt = {} /\ Tiled(Stream) /\ Exact

LEMMA FrontOfStream ==
    ASSUME TypeInv, Tiled(Stream), Len(buffer) >= 1
    PROVE  \E n \in DOMAIN sent :
              /\ Stands(n, 0, Stream) /\ buffer[1].val = C
              /\ Len(buffer) >= 2 => buffer[2].val = M
<1>1. /\ Stream \in Seq(Cells) /\ Len(Stream) = Len(buffer) + Len(wire)
      /\ Len(buffer) \in Nat /\ Len(wire) \in Nat
      /\ \A k \in 1 .. Len(buffer) : Stream[k] = buffer[k]
  BY StreamShape
<1>2. 1 \in 1 .. Len(Stream) /\ 1 \in 1 .. Len(buffer)
  BY <1>1
<1>3. PICK n \in DOMAIN sent, p \in Nat : p < 1 /\ Stands(n, p, Stream)
  BY <1>2 DEF Tiled
<1>5. p = 0 /\ 0 \in Nat
  BY <1>3
<1>6. Stands(n, 0, Stream)
  BY <1>3, <1>5
<1>7. Stream[0 + 1].val = C /\ Stream[0 + 2].val = M
  BY <1>1, <1>5, <1>6, StandsShape
<1>8. Len(buffer) >= 2 => 2 \in 1 .. Len(buffer)
  BY <1>1
<1>9. 0 + 1 = 1 /\ 0 + 2 = 2
  OBVIOUS
<1>10. buffer[1].val = C /\ (Len(buffer) >= 2 => buffer[2].val = M)
  BY <1>1, <1>2, <1>7, <1>8, <1>9
<1> QED
  BY <1>6, <1>10

(* The first magic is at the first cell, and a frame stands there.         *)
LEMMA CleanView ==
    ASSUME TypeInv, Tiled(Stream), Found
    PROVE  /\ View(1)
           /\ \E n \in DOMAIN sent :
                 /\ Stands(n, 0, Stream)
                 /\ Len(Aligned) >= HEADER_BYTES =>
                       /\ GoodHeader(Aligned) /\ Total(Aligned) = FrameLength(n)
                       /\ Len(Aligned) >= Total(Aligned) =>
                             Stands(n, 0, Aligned) /\ CrcMatches(Aligned)
<1>1. PICK a \in Nat : View(a)
  BY AlignedView
<1>2. a \in 1 .. Len(buffer) - 1 /\ Len(buffer) \in Nat
      /\ \A n \in DOMAIN sent, p \in Nat : Stands(n, p, Stream) => p >= a - 1
  BY <1>1, StreamShape DEF View
<1>3. PICK n \in DOMAIN sent : Stands(n, 0, Stream)
  BY <1>2, FrontOfStream
<1>4. a = 1
  <2>1. 0 \in Nat
    OBVIOUS
  <2>2. 0 >= a - 1
    BY <1>2, <1>3, <2>1
  <2> QED
    BY <1>2, <2>2
<1>5. View(1) /\ 1 \in Nat /\ 1 - 1 = 0
  BY <1>1, <1>4
<1>6. Aligned \in Seq(Cells)
  BY <1>5 DEF View
<1>7. ASSUME Len(Aligned) >= HEADER_BYTES
      PROVE  /\ GoodHeader(Aligned) /\ Total(Aligned) = FrameLength(n)
             /\ Len(Aligned) >= Total(Aligned) => Stands(n, 0, Aligned)
  <2>1. Stands(n, 1 - 1, Stream)
    BY <1>3, <1>5
  <2> QED
    BY <1>5, <1>7, <2>1, AtTheMagic
<1>8. Stands(n, 0, Aligned) => CrcMatches(Aligned)
  BY <1>6, FrontFrame
<1> QED
  BY <1>3, <1>5, <1>7, <1>8

LEMMA CleanSteps ==
    ASSUME TypeInv, Tiled(Stream)
    PROVE  ~BadHeader /\ ~CrcMismatch /\ ~Collision
<1> SUFFICES ASSUME Found, Len(Aligned) >= HEADER_BYTES
             PROVE  ~BadHeader /\ ~CrcMismatch /\ ~Collision
  BY DEF BadHeader, CrcMismatch, Collision, Whole
<1>1. PICK n \in DOMAIN sent :
         /\ GoodHeader(Aligned) /\ Total(Aligned) = FrameLength(n)
         /\ Len(Aligned) >= Total(Aligned) => Stands(n, 0, Aligned) /\ CrcMatches(Aligned)
  BY CleanView
<1> QED
  BY <1>1 DEF BadHeader, CrcMismatch, Collision, Whole

(* The decoder that waits keeps its buffer as it is.                       *)
LEMMA CleanWaits ==
    ASSUME TypeInv, Tiled(Stream), NoMagic \/ Incomplete
    PROVE  Stream' = Stream /\ UNCHANGED <<sent, hurt, got>>
<1>1. buffer \in Seq(Cells) /\ Len(buffer) \in Nat
  BY FrameTyped DEF TypeInv
<1>2. wire' = wire /\ UNCHANGED <<sent, hurt, got>>
  BY DEF NoMagic, Incomplete
<1>3. CASE Incomplete
  <2>1. View(1)
    BY <1>3, CleanView DEF Incomplete
  <2>2. \A e \in 0 .. Len(Aligned) : From(Aligned, e + 1) = From(buffer, 1 - 1 + e + 1)
    BY <2>1 DEF View
  <2>3. Aligned \in Seq(Cells) /\ Len(Aligned) \in Nat
    BY <2>1 DEF View
  <2>4. From(Aligned, 0 + 1) = From(buffer, 1 - 1 + 0 + 1)
    BY <2>2, <2>3
  <2>5. 0 + 1 = 1 /\ 1 - 1 + 0 + 1 = 1
    OBVIOUS
  <2>6. From(Aligned, 1) = Aligned /\ From(buffer, 1) = buffer
    BY <1>1, <2>3 DEF From
  <2>7. buffer' = buffer
    BY <1>3, <2>4, <2>5, <2>6 DEF Incomplete
  <2> QED
    BY <1>2, <2>7 DEF Stream
<1>4. CASE NoMagic
  <2>1. CASE Len(buffer) = 0
    <3>1. buffer = <<>>
      BY <1>1, <2>1, EmptySeq
    <3>2. buffer' = buffer
      BY <1>4, <3>1 DEF NoMagic
    <3> QED
      BY <1>2, <3>2 DEF Stream
  <2>2. CASE Len(buffer) >= 1
    <3>1. buffer[1].val = C /\ (Len(buffer) >= 2 => buffer[2].val = M)
      BY <2>2, FrontOfStream
    <3>2. ~(Len(buffer) >= 2)
      <4> SUFFICES ASSUME Len(buffer) >= 2 PROVE FALSE
        OBVIOUS
      <4>1. 1 \in 1 .. Len(buffer) - 1 /\ 1 + 1 = 2
        BY <1>1
      <4>2. 1 \in MagicAt(buffer)
        BY <3>1, <4>1 DEF MagicAt
      <4> QED
        BY <1>4, <4>2 DEF NoMagic, Found
    <3>3. Len(buffer) = 1 /\ buffer # <<>>
      <4>1. \A N \in Nat : N >= 1 /\ ~(N >= 2) => N = 1
        OBVIOUS
      <4>2. Len(<<>>) = 0
        OBVIOUS
      <4> QED
        BY <1>1, <2>2, <3>2, <4>1, <4>2
    <3>4. Last(buffer) = buffer[1]
      BY <3>3 DEF Last
    <3>5. buffer' = <<buffer[1]>>
      BY <1>4, <3>1, <3>3, <3>4 DEF NoMagic
    <3>6. <<buffer[1]>> = buffer
      BY <1>1, <3>3
    <3> QED
      BY <1>2, <3>5, <3>6 DEF Stream
  <2> QED
    BY <1>1, <2>1, <2>2
<1> QED
  BY <1>3, <1>4

(* A block of the tiling that still stands covers the cells it did.        *)
LEMMA TiledBy ==
    ASSUME \A i \in 1 .. Len(Stream') : \E n \in DOMAIN sent', p \in Nat :
              p < i /\ i <= p + LengthIn(sent', n) /\ Stands(n, p, Stream)'
    PROVE  Tiled(Stream)'
<1>1. \A n : FrameLength(n)' = LengthIn(sent', n)
  BY DEF FrameLength, LengthIn
<1> QED
  BY <1>1 DEF Tiled

LEMMA SendTiles ==
    ASSUME TypeInv, Tiled(Stream), NEW v \in Payloads, Send(v)
    PROVE  Tiled(Stream)'
<1>1. PICK m, r \in Nat : /\ m = Len(sent) + 1 /\ r = Len(Stream)
                          /\ DOMAIN sent' = DOMAIN sent \cup {m}
                          /\ Stands(m, r, Stream)'
  BY StandsNew
<1> DEFINE F == Framed(Len(sent) + 1, v)
<1>2. /\ Len(F) \in Nat /\ LengthIn(sent', Len(sent) + 1) = Len(F)
      /\ \A k \in 1 .. Len(F) : F[k].frame = Len(sent) + 1
      /\ \A n \in DOMAIN sent : LengthIn(sent', n) = FrameLength(n)
      /\ Len(Stream) \in Nat /\ Len(Stream') = Len(Stream) + Len(F)
      /\ \A i \in 1 .. Len(Stream) : Stream'[i] = Stream[i]
      /\ \A k \in 1 .. Len(F) : Stream'[Len(Stream) + k] = F[k]
  BY SendShape
<1> HIDE DEF F
<1>3. ASSUME NEW i \in 1 .. Len(Stream')
      PROVE  \E n \in DOMAIN sent', p \in Nat :
                p < i /\ i <= p + LengthIn(sent', n) /\ Stands(n, p, Stream)'
  <2>1. CASE i <= Len(Stream)
    <3>1. i \in 1 .. Len(Stream)
      BY <1>2, <2>1
    <3>2. PICK n \in DOMAIN sent, p \in Nat :
             p < i /\ i <= p + FrameLength(n) /\ Stands(n, p, Stream)
      BY <3>1 DEF Tiled
    <3>3. Stands(n, p, Stream)'
      BY <3>2, StandsSend
    <3>4. i <= p + LengthIn(sent', n) /\ n \in DOMAIN sent'
      BY <1>1, <1>2, <3>2
    <3> QED
      BY <3>2, <3>3, <3>4
  <2>2. CASE ~(i <= Len(Stream))
    <3>1. r < i /\ i <= r + LengthIn(sent', m)
      BY <1>1, <1>2, <2>2
    <3>2. m \in DOMAIN sent'
      BY <1>1
    <3> QED
      BY <1>1, <3>1, <3>2
  <2> QED
    BY <2>1, <2>2
<1> QED
  BY <1>3, TiledBy

LEMMA SameTiles ==
    ASSUME TypeInv, Tiled(Stream), Stream' = Stream, sent' = sent
    PROVE  Tiled(Stream)'
<1>1. Len(Stream) \in Nat
  BY StreamShape
<1>2. ASSUME NEW i \in 1 .. Len(Stream')
      PROVE  \E n \in DOMAIN sent', p \in Nat :
                p < i /\ i <= p + LengthIn(sent', n) /\ Stands(n, p, Stream)'
  <2>2. PICK n \in DOMAIN sent, p \in Nat :
           p < i /\ i <= p + FrameLength(n) /\ Stands(n, p, Stream)
    BY <1>2 DEF Tiled
  <2>3. \A k \in 1 .. FrameLength(n) :
           p + k <= Len(Stream') /\ Stream'[p + k] = Framed(n, sent[n])[k]
    BY <2>2, StandsCells
  <2>4. Len(Stream') \in Nat /\ sent'[n] = sent[n]
    BY <1>1
  <2>5. Stands(n, p, Stream)'
    BY <2>3, <2>4, StandsNext
  <2>6. LengthIn(sent', n) = FrameLength(n)
    BY DEF LengthIn, FrameLength
  <2> QED
    BY <2>2, <2>5, <2>6
<1> QED
  BY <1>2, TiledBy

LEMMA DeliverTiles ==
    ASSUME CodecInv, Tiled(Stream), NEW n \in DOMAIN sent, NEW d \in Nat, Hands(n, d)
    PROVE  Tiled(Stream)'
<1>1. TypeInv /\ Drops(d) /\ sent' = sent
      /\ \A m \in DOMAIN sent \ {n}, q \in Nat : Stands(m, q, Stream) => q >= d
  BY DEF CodecInv, StreamInv, Hands, Drops
<1>2. /\ d \in 0 .. Len(Stream) /\ Len(Stream') = Len(Stream) - d
      /\ \A j \in 1 .. Len(Stream) - d : Stream'[j] = Stream[d + j]
  BY <1>1, DropStream
<1>6. Len(Stream) \in Nat
  BY <1>1, StreamShape
<1>3. \A i \in 1 .. Len(Stream') : n < Stream'[i].frame
  BY HandsOrder
<1>4. n \in Nat
  BY <1>1, SentShape
<1>5. ASSUME NEW i \in 1 .. Len(Stream')
      PROVE  \E m \in DOMAIN sent', p \in Nat :
                p < i /\ i <= p + LengthIn(sent', m) /\ Stands(m, p, Stream)'
  <2>1. d + i \in 1 .. Len(Stream) /\ i \in 1 .. Len(Stream) - d
    BY <1>2, <1>6
  <2>2. Stream'[i] = Stream[d + i]
    BY <1>2, <2>1
  <2>5. PICK m \in DOMAIN sent, q \in Nat :
           q < d + i /\ d + i <= q + FrameLength(m) /\ Stands(m, q, Stream)
    BY <2>1 DEF Tiled
  <2>3. Stream[d + i].frame = m
    <3>1. \A k \in 1 .. FrameLength(m) : Stream[q + k].frame = m
      BY <1>1, <2>5, StandsCells
    <3>2. FrameLength(m) \in Nat
      BY <1>1, SentShape
    <3>3. d + i - q \in 1 .. FrameLength(m) /\ q + (d + i - q) = d + i
      BY <2>1, <2>5, <3>2
    <3>4. Stream[q + (d + i - q)].frame = m
      BY <3>1, <3>3
    <3> QED
      BY <3>3, <3>4
  <2>4. m \in DOMAIN sent \ {n}
    BY <1>3, <1>4, <2>2, <2>3
  <2>6. q >= d
    BY <1>1, <2>4, <2>5
  <2>7. Stands(m, q - d, Stream)'
    BY <1>1, <2>5, <2>6, StandsDrop
  <2>8. FrameLength(m) \in Nat /\ LengthIn(sent', m) = FrameLength(m)
    BY <1>1, SentShape DEF LengthIn, FrameLength
  <2> DEFINE p == q - d
  <2>9. p \in Nat /\ p < i
    BY <2>1, <2>5, <2>6
  <2>10. i <= p + FrameLength(m)
    BY <2>1, <2>5, <2>6, <2>8
  <2> QED
    BY <1>1, <2>7, <2>8, <2>9, <2>10
<1> QED
  BY <1>5, TiledBy

(* What is delivered is the next frame after those that were.              *)
LEMMA DeliverExact ==
    ASSUME CleanInv, NEW n \in DOMAIN sent, NEW d \in Nat, Hands(n, d)
    PROVE  Exact'
<1>1. TypeInv /\ FramesAreGenuine /\ hurt = {} /\ Exact
  BY DEF CleanInv, CodecInv, StreamInv
<1> DEFINE e == [kind |-> "frame", sequence |-> n, payload |-> sent[n]]
           N == Len(got) + 1
<1>2. got' = Append(got, e) /\ sent' = sent
  BY DEF Hands, Drops
<1>3. got \in Seq(Events) /\ Len(got) \in Nat /\ DOMAIN got = 1 .. Len(got)
  BY <1>1, LenProperties DEF TypeInv
<1>4. /\ \A k \in DOMAIN got : IsFrame(k) => got[k].sequence < n
      /\ \A m \in DOMAIN sent \ hurt : m < n => Delivered(m)
  BY HandsOrder DEF CleanInv
<1>5. \A k \in DOMAIN got : IsFrame(k) /\ got[k].sequence = k
  BY <1>1 DEF Exact, IsFrame
<1>6. n \in 1 .. Len(sent) /\ Len(sent) \in Nat /\ DOMAIN sent = 1 .. Len(sent)
  BY <1>1, SentShape, FrameTyped
<1>7. n = N
  <2>1. Len(got) < n
    <3>1. CASE Len(got) = 0
      BY <1>6, <3>1
    <3>2. CASE Len(got) # 0
      <4>1. Len(got) \in DOMAIN got
        BY <1>3, <3>2
      <4> QED
        BY <1>4, <1>5, <4>1
    <3> QED
      BY <3>1, <3>2
  <2>2. n - 1 <= Len(got)
    <3>1. CASE n = 1
      BY <1>3, <3>1
    <3>2. CASE n # 1
      <4>1. n - 1 \in DOMAIN sent \ hurt /\ n - 1 < n
        BY <1>1, <1>6, <3>2
      <4>2. Delivered(n - 1)
        BY <1>4, <4>1
      <4>3. PICK k \in DOMAIN got : got[k].sequence = n - 1
        BY <4>2 DEF Delivered
      <4>4. k = n - 1
        BY <1>5, <4>3
      <4>5. n - 1 \in DOMAIN got
        BY <4>4
      <4> QED
        BY <1>3, <4>5
    <3> QED
      BY <3>1, <3>2
  <2> QED
    BY <1>3, <1>6, <2>1, <2>2
<1> HIDE DEF e
<1>8. /\ DOMAIN got' = 1 .. N /\ got'[N] = e
      /\ \A k \in 1 .. Len(got) : got'[k] = got[k]
  <2>1. /\ DOMAIN Append(got, e) = 1 .. N /\ Append(got, e)[N] = e
        /\ \A k \in 1 .. Len(got) : Append(got, e)[k] = got[k]
    BY <1>3
  <2> QED
    BY <1>2, <2>1
<1>9. ASSUME NEW k \in DOMAIN got'
      PROVE  got'[k] = [kind |-> "frame", sequence |-> k, payload |-> sent'[k]]
  <2>1. CASE k = N
    BY <1>2, <1>7, <1>8, <2>1 DEF e
  <2>2. CASE k # N
    <3>1. k \in DOMAIN got /\ got'[k] = got[k]
      BY <1>3, <1>8, <2>2
    <3> QED
      BY <1>1, <1>2, <3>1 DEF Exact
  <2> QED
    BY <2>1, <2>2
<1> QED
  BY <1>9 DEF Exact

LEMMA CleanStep ==
    ASSUME CleanInv, [Next]_vars, ~Faults
    PROVE  CleanInv'
<1>1. CodecInv /\ TypeInv /\ hurt = {} /\ Tiled(Stream) /\ Exact
  BY DEF CleanInv, CodecInv, StreamInv
<1>2. ~BadHeader /\ ~CrcMismatch /\ ~Collision
  BY <1>1, CleanSteps
<1>3. CodecInv'
  BY <1>1, <1>2, CodecStep
<1> DEFINE Clean == hurt' = {} /\ Tiled(Stream)' /\ Exact'
<1>4. ASSUME Stream' = Stream, UNCHANGED <<sent, hurt, got>> PROVE Clean
  <2>1. Exact'
    BY <1>1, <1>4 DEF Exact
  <2> QED
    BY <1>1, <1>4, <2>1, SameTiles
<1>5. ASSUME NEW v \in Payloads, Send(v) PROVE Clean
  <2>1. got' = got /\ hurt' = hurt
    BY <1>5 DEF Send
  <2>2. ASSUME NEW k \in DOMAIN got
        PROVE  got[k] = [kind |-> "frame", sequence |-> k, payload |-> sent'[k]]
    <3>1. got[k] = [kind |-> "frame", sequence |-> k, payload |-> sent[k]]
      BY <1>1 DEF Exact
    <3>2. IsFrame(k) /\ got[k].sequence = k
      BY <3>1 DEF IsFrame
    <3>3. k \in DOMAIN sent
      BY <1>1, <3>2 DEF CodecInv, FramesAreGenuine
    <3>4. sent'[k] = sent[k]
      BY <1>1, <1>5, <3>3, SendStream
    <3> QED
      BY <3>1, <3>4
  <2>3. Exact'
    BY <2>1, <2>2 DEF Exact
  <2> QED
    BY <1>1, <1>5, <2>1, <2>3, SendTiles
<1>6. ASSUME NEW n \in 1 .. Len(wire), Read(n) PROVE Clean
  <2>1. Stream' = Stream /\ UNCHANGED <<sent, hurt, got>>
    BY <1>1, <1>6, ReadStream DEF Read
  <2> QED
    BY <1>4, <2>1
<1>7. ASSUME NoMagic \/ Incomplete PROVE Clean
  BY <1>1, <1>4, <1>7, CleanWaits
<1>8. ASSUME Deliver PROVE Clean
  <2>1. PICK n \in DOMAIN sent, d \in Nat : Hands(n, d)
    BY <1>1, <1>2, <1>8, DeliverHands
  <2>2. hurt' = hurt
    BY <2>1 DEF Hands, Drops
  <2> QED
    BY <1>1, <2>1, <2>2, DeliverTiles, DeliverExact
<1>9. ASSUME UNCHANGED vars PROVE Clean
  <2>1. Stream' = Stream /\ UNCHANGED <<sent, hurt, got>>
    BY <1>9 DEF vars, Stream
  <2> QED
    BY <1>4, <2>1
<1>10. Clean
  BY <1>2, <1>5, <1>6, <1>7, <1>8, <1>9 DEF Next, Firmware, Scan
<1> QED
  BY <1>3, <1>10 DEF CleanInv

(* Less than a frame waits in front between two reads.                     *)
Waits ==
    ~scanning =>
        \/ Len(buffer) = 0
        \/ \E n \in DOMAIN sent : Stands(n, 0, Stream) /\ FrameLength(n) > Len(buffer)

LEMMA WaitsStep ==
    ASSUME CleanInv, Waits, [Next]_vars, ~Faults
    PROVE  Waits'
<1>1. TypeInv /\ Tiled(Stream)
  BY DEF CleanInv, CodecInv, StreamInv
<1>2. ~BadHeader /\ ~CrcMismatch /\ ~Collision
  BY <1>1, CleanSteps
<1>3. Len(buffer) \in Nat
  BY <1>1, FrameTyped
<1>4. CASE scanning' = TRUE
  BY <1>4 DEF Waits
<1>5. ASSUME NEW n \in DOMAIN sent, Stands(n, 0, Stream)', buffer' = buffer,
             sent'[n] = sent[n], n \in DOMAIN sent', FrameLength(n) > Len(buffer)
      PROVE  Waits'
  <2>1. FrameLength(n)' = FrameLength(n)
    BY <1>5 DEF FrameLength
  <2> QED
    BY <1>5, <2>1 DEF Waits
<1>6. ASSUME NEW v \in Payloads, Send(v) PROVE Waits'
  <2>1. buffer' = buffer /\ scanning' = scanning
    BY <1>6 DEF Send
  <2>2. CASE ~(~scanning) \/ Len(buffer) = 0
    BY <2>1, <2>2 DEF Waits
  <2>3. ASSUME NEW n \in DOMAIN sent, Stands(n, 0, Stream), FrameLength(n) > Len(buffer)
        PROVE  Waits'
    <3>1. Stands(n, 0, Stream)'
      BY <1>1, <1>6, <2>3, StandsSend
    <3>2. sent'[n] = sent[n] /\ n \in DOMAIN sent'
      BY <1>1, <1>6, SendStream
    <3> QED
      BY <1>5, <2>1, <2>3, <3>1, <3>2
  <2> QED
    BY <2>2, <2>3 DEF Waits
<1>7. ASSUME NEW n \in 1 .. Len(wire), Read(n) PROVE Waits'
  BY <1>4, <1>7 DEF Read
<1>8. ASSUME NoMagic \/ Incomplete PROVE Waits'
  <2>1. Stream' = Stream /\ sent' = sent /\ wire' = wire
    BY <1>1, <1>8, CleanWaits DEF NoMagic, Incomplete
  <2>2. Len(buffer') \in Nat /\ Len(buffer') <= Len(buffer)
    <3>1. PICK d \in Nat : Drops(d)
      BY <1>1, <1>8, ScanDrops DEF Scan
    <3>2. buffer \in Seq(Cells) /\ d \in 0 .. Len(buffer) /\ buffer' = From(buffer, d + 1)
      BY <1>1, <3>1 DEF Drops, TypeInv
    <3>3. Len(From(buffer, d + 1)) = Len(buffer) - d
      BY <3>2, FromShape
    <3> QED
      BY <1>3, <3>2, <3>3
  <2>3. ASSUME NEW n \in DOMAIN sent, Stands(n, 0, Stream), FrameLength(n) > Len(buffer)
        PROVE  Waits'
    <3>1. /\ Len(Stream) \in Nat
          /\ \A k \in 1 .. FrameLength(n) :
                0 + k <= Len(Stream) /\ Stream[0 + k] = Framed(n, sent[n])[k]
      BY <1>1, <2>3, StandsCells
    <3>2. Stands(n, 0, Stream)'
      BY <1>1, <2>1, <3>1, StandsNext
    <3>3. FrameLength(n)' > Len(buffer') /\ n \in DOMAIN sent'
      <4>1. FrameLength(n)' = FrameLength(n) /\ FrameLength(n) \in Nat
        BY <1>1, <2>1, SentShape DEF FrameLength
      <4> QED
        BY <1>3, <2>1, <2>2, <2>3, <4>1
    <3> QED
      BY <3>2, <3>3 DEF Waits
  <2>4. CASE Len(buffer) = 0
    <3>1. Len(buffer') = 0
      BY <2>2, <2>4
    <3> QED
      BY <3>1 DEF Waits
  <2>5. ASSUME Len(buffer) >= 1, NoMagic PROVE Waits'
    <3>1. PICK n \in DOMAIN sent :
             /\ Stands(n, 0, Stream) /\ buffer[1].val = C
             /\ Len(buffer) >= 2 => buffer[2].val = M
      BY <1>1, <2>5, FrontOfStream
    <3>2. ~(Len(buffer) >= 2)
      <4> SUFFICES ASSUME Len(buffer) >= 2 PROVE FALSE
        OBVIOUS
      <4>1. 1 \in 1 .. Len(buffer) - 1 /\ 1 + 1 = 2
        BY <1>3
      <4>2. 1 \in MagicAt(buffer)
        BY <3>1, <4>1 DEF MagicAt
      <4> QED
        BY <2>5, <4>2 DEF NoMagic, Found
    <3>3. FrameLength(n) \in Nat /\ FrameLength(n) >= 7
      BY <1>1, SentShape
    <3>4. FrameLength(n) > Len(buffer)
      BY <1>3, <3>2, <3>3
    <3> QED
      BY <2>3, <3>1, <3>4
  <2>6. ASSUME Incomplete PROVE Waits'
    <3>1. PICK n \in DOMAIN sent :
             /\ Stands(n, 0, Stream)
             /\ Len(Aligned) >= HEADER_BYTES => Total(Aligned) = FrameLength(n)
      BY <1>1, <2>6, CleanView DEF Incomplete
    <3>2. FrameLength(n) \in Nat /\ FrameLength(n) >= 7
      BY <1>1, SentShape
    <3>3. View(1)
      BY <1>1, <2>6, CleanView DEF Incomplete
    <3>4. Len(Aligned) = Len(buffer)
      BY <1>3, <3>3 DEF View
    <3>5. Len(buffer) < HEADER_BYTES \/ Len(buffer) < FrameLength(n)
      BY <2>6, <3>1, <3>4 DEF Incomplete
    <3>6. FrameLength(n) > Len(buffer)
      BY <1>3, <3>2, <3>5 DEF HEADER_BYTES
    <3> QED
      BY <2>3, <3>1, <3>6
  <2> QED
    BY <1>3, <1>8, <2>4, <2>5, <2>6
<1>9. ASSUME Deliver PROVE Waits'
  BY <1>4, <1>9 DEF Deliver, Whole, Emit, Waits
<1>10. ASSUME UNCHANGED vars PROVE Waits'
  <2>1. Stream' = Stream
    BY <1>10 DEF vars, Stream
  <2> QED
    BY <1>10, <2>1 DEF vars, Waits, Stands, FrameLength, Framed, Cell
<1> QED
  BY <1>2, <1>6, <1>7, <1>8, <1>9, <1>10 DEF Next, Firmware, Scan

(* Between two reads no frame is held of which all has been read.          *)
Prompt ==
    ~scanning =>
        \A n \in DOMAIN sent, p \in Nat :
            Stands(n, p, Stream) => p + FrameLength(n) > Len(buffer)

LEMMA WaitsPrompts ==
    ASSUME TypeInv, Waits
    PROVE  Prompt
<1> SUFFICES ASSUME ~scanning, NEW m \in DOMAIN sent, NEW p \in Nat, Stands(m, p, Stream)
             PROVE  p + FrameLength(m) > Len(buffer)
  BY DEF Prompt
<1>1. /\ FrameLength(m) \in Nat /\ FrameLength(m) >= 7 /\ Len(buffer) \in Nat
      /\ \A k \in 1 .. FrameLength(m) : Stream[p + k].frame = m
  BY SentShape, StandsCells, FrameTyped
<1>2. CASE Len(buffer) = 0
  BY <1>1, <1>2
<1>3. ASSUME NEW n \in DOMAIN sent, Stands(n, 0, Stream), FrameLength(n) > Len(buffer)
      PROVE  p + FrameLength(m) > Len(buffer)
  <2>1. /\ FrameLength(n) \in Nat
        /\ \A k \in 1 .. FrameLength(n) : Stream[0 + k].frame = n
    BY <1>3, SentShape, StandsCells
  <2>2. CASE m = n
    BY <1>1, <1>3, <2>2
  <2>3. CASE m # n
    <3>1. Stream[p + 1].frame = m
      <4>1. 1 \in 1 .. FrameLength(m)
        BY <1>1
      <4> QED
        BY <1>1, <4>1
    <3>2. ~(p + 1 <= FrameLength(n))
      <4> SUFFICES ASSUME p + 1 <= FrameLength(n) PROVE FALSE
        OBVIOUS
      <4>1. p + 1 \in 1 .. FrameLength(n) /\ 0 + (p + 1) = p + 1
        BY <2>1
      <4>2. Stream[0 + (p + 1)].frame = n
        BY <2>1, <4>1
      <4> QED
        BY <2>3, <3>1, <4>1, <4>2
    <3> QED
      BY <1>1, <1>3, <2>1, <3>2
  <2> QED
    BY <2>2, <2>3
<1> QED
  BY <1>2, <1>3 DEF Waits

(***************************************************************************)
(* As long as nothing was lost or damaged no checksum collides, whatever   *)
(* the payloads and wherever the port cuts the chunks; the daemon has been *)
(* handed the first frames sent, each as it was, and no error; the rest    *)
(* stand whole in what is to be scanned, and between two reads none is     *)
(* held of which every byte has been read (FrameDecoder::feed).            *)
(***************************************************************************)
THEOREM CleanLink ==
    Spec => [](faults = 0 => /\ ~Collision /\ Exact /\ Prompt
                             /\ FramesAreGenuine /\ IntactFramesSurvive)
<1> DEFINE Good == /\ ~Collision /\ Exact /\ Prompt
                   /\ FramesAreGenuine /\ IntactFramesSurvive
           CInv == TypeInv /\ (faults = 0 => CleanInv /\ Waits)
<1>1. Init => CInv
  <2> SUFFICES ASSUME Init PROVE CInv
    OBVIOUS
  <2>1. TypeInv /\ CodecInv
    BY InitTypes, CodecInit
  <2>2. hurt = {} /\ got = <<>> /\ Stream = <<>> /\ buffer = <<>>
    BY DEF Init, Stream
  <2>3. Len(Stream) = 0 /\ DOMAIN got = {} /\ Len(buffer) = 0
    BY <2>2
  <2>4. Tiled(Stream) /\ Exact /\ Waits
    BY <2>3 DEF Tiled, Exact, Waits
  <2> QED
    BY <2>1, <2>2, <2>4 DEF CleanInv
<1>2. CInv /\ [Next]_vars => CInv'
  <2> SUFFICES ASSUME CInv, [Next]_vars, faults' = 0 PROVE CleanInv' /\ Waits'
    BY StepTypes
  <2>1. faults \in Nat
    BY FrameTyped DEF TypeInv, TypeOK
  <2>2. ~Faults
    BY <2>1 DEF Faults, Lose, Damage
  <2>3. faults' = faults
    BY <2>2 DEF Next, Firmware, Send, Read, Scan, NoMagic, Incomplete, BadHeader,
                CrcMismatch, Deliver, Emit, vars
  <2> QED
    BY <2>2, <2>3, CleanStep, WaitsStep
<1>3. CInv => (faults = 0 => Good)
  BY CleanSteps, WaitsPrompts DEF CleanInv, CodecInv
<1> QED
  BY <1>1, <1>2, <1>3, PTL DEF Spec
=============================================================================
