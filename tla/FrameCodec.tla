----------------------------- MODULE FrameCodec ------------------------------
(***************************************************************************)
(* Frames on the CDC link: Frame::encode and FrameDecoder::feed (wire.rs), *)
(* as the reader thread of serial.rs runs them on whatever chunks the port *)
(* returns.  bridge_protocol.c parses the other direction the same way.    *)
(*                                                                         *)
(* A header has one cell for each of the six things it holds; the CRC is   *)
(* one cell, a checksum that tells the frames of an instance apart.        *)
(***************************************************************************)
EXTENDS Integers, Sequences, SequencesExt

CONSTANTS
    MaxPayload,   \* MAX_PAYLOAD
    Payloads,     \* what the firmware may send
    Bytes,        \* what a damaged cell may become
    MaxFrames,    \* bound on the frames sent
    MaxFaults     \* bound on the cells lost or damaged

ASSUME CodecAssumption ==
    /\ MaxPayload \in Nat /\ MaxFrames \in Nat /\ MaxFaults \in Nat
    /\ Bytes \subseteq 0 .. 99
    /\ \A p \in Payloads : p \in Seq(0 .. 99) /\ Len(p) <= MaxPayload

C == 1                  \* MAGIC
M == 2
VERSION == 3
Known == {4}            \* values FrameType::try_from accepts
HEADER_BYTES == 6
CRC_BYTES == 1

(* A cell and the frame it was sent in; the decoder looks at val only. *)
Cell(val, frame) == [val |-> val, frame |-> frame]

VARIABLES
    sent,      \* the payloads sent; a frame's sequence number is its index
    hurt,      \* the frames a fault has hit
    wire,      \* cells the port has not returned yet
    faults,
    buffer,    \* FrameDecoder::buffer
    scanning,  \* feed is in its loop
    got        \* what the reader has sent to the daemon

vars == <<sent, hurt, wire, faults, buffer, scanning, got>>

crc16_ccitt(cells) == FoldSeq(LAMBDA b, crc : (crc * 31 + b) % 9973, 7, cells) + 100

Encode(frame_type, sequence, payload) ==
    LET covered == <<C, M, VERSION, frame_type, sequence, Len(payload)>> \o payload
    IN  Append(covered, crc16_ccitt(covered))

(* The cells of the n-th frame as they leave the firmware. *)
Framed(n, payload) ==
    LET cells == Encode(4, n, payload)
    IN  [k \in DOMAIN cells |-> Cell(cells[k], n)]

Vals(cells) == [k \in DOMAIN cells |-> cells[k].val]
From(cells, k) == SubSeq(cells, k, Len(cells))

Init ==
    /\ sent = <<>> /\ hurt = {} /\ wire = <<>> /\ faults = 0
    /\ buffer = <<>> /\ scanning = FALSE /\ got = <<>>

-----------------------------------------------------------------------------
(* The link. *)

Send(p) ==
    /\ Len(sent) < MaxFrames
    /\ sent' = Append(sent, p)
    /\ wire' = wire \o Framed(Len(sent) + 1, p)
    /\ UNCHANGED <<hurt, faults, buffer, scanning, got>>

Lose(k) ==
    /\ faults < MaxFaults
    /\ wire' = RemoveAt(wire, k)
    /\ hurt' = hurt \cup {wire[k].frame}
    /\ faults' = faults + 1
    /\ UNCHANGED <<sent, buffer, scanning, got>>

Damage(k, b) ==
    /\ faults < MaxFaults
    /\ b # wire[k].val
    /\ wire' = [wire EXCEPT ![k].val = b]
    /\ hurt' = hurt \cup {wire[k].frame}
    /\ faults' = faults + 1
    /\ UNCHANGED <<sent, buffer, scanning, got>>

-----------------------------------------------------------------------------
(* The reader thread. *)

Read(n) ==
    /\ ~scanning
    /\ buffer' = buffer \o SubSeq(wire, 1, n)
    /\ wire' = From(wire, n + 1)
    /\ scanning' = TRUE
    /\ UNCHANGED <<sent, hurt, faults, got>>

MagicAt(cells) ==
    {k \in 1 .. Len(cells) - 1 : cells[k].val = C /\ cells[k + 1].val = M}

Found == MagicAt(buffer) # {}
Aligned == From(buffer, CHOOSE k \in MagicAt(buffer) :
                            \A j \in MagicAt(buffer) : k <= j)

(* Mutant: half a magic at the end of a chunk is forgotten. *)
ForgetHalf ==
    /\ scanning /\ ~Found
    /\ buffer' = <<>> /\ scanning' = FALSE
    /\ UNCHANGED <<sent, hurt, wire, faults, got>>

(* No magic: only a trailing first half of one is kept. *)
NoMagic ==
    /\ scanning /\ ~Found
    /\ buffer' = IF buffer # <<>> /\ Last(buffer).val = C
                 THEN <<Last(buffer)>> ELSE <<>>
    /\ scanning' = FALSE
    /\ UNCHANGED <<sent, hurt, wire, faults, got>>

Payload(cells) == cells[HEADER_BYTES].val
Total(cells) == HEADER_BYTES + Payload(cells) + CRC_BYTES

(* Mutant: a length the header claims is believed. *)
BelieveHeader(cells) == cells[3].val = VERSION

GoodHeader(cells) == cells[3].val = VERSION /\ Payload(cells) \in 0 .. MaxPayload

Incomplete ==
    /\ scanning /\ Found
    /\ \/ Len(Aligned) < HEADER_BYTES
       \/ /\ Len(Aligned) >= HEADER_BYTES
          /\ GoodHeader(Aligned) /\ Len(Aligned) < Total(Aligned)
    /\ buffer' = Aligned
    /\ scanning' = FALSE
    /\ UNCHANGED <<sent, hurt, wire, faults, got>>

Emit(event, cells) ==
    /\ got' = Append(got, event)
    /\ buffer' = cells
    /\ UNCHANGED <<sent, hurt, wire, faults, scanning>>

(* Another version or an impossible length: this was no header. *)
BadHeader ==
    /\ scanning /\ Found
    /\ Len(Aligned) >= HEADER_BYTES /\ ~GoodHeader(Aligned)
    /\ Emit([kind |-> "error"], From(Aligned, 3))

Whole ==
    /\ scanning /\ Found
    /\ Len(Aligned) >= HEADER_BYTES
    /\ GoodHeader(Aligned) /\ Len(Aligned) >= Total(Aligned)

(* Mutant: the checksum is not compared. *)
AlwaysMatches(cells) == TRUE

CrcMatches(cells) ==
    LET covered == SubSeq(Vals(cells), 1, Total(cells) - CRC_BYTES)
    IN  cells[Total(cells)].val = crc16_ccitt(covered)

(* Mutant: what failed its checksum is thrown away as a whole. *)
DropWhole ==
    /\ Whole /\ ~CrcMatches(Aligned)
    /\ Emit([kind |-> "error"], From(Aligned, Total(Aligned) + 1))

(* A checksum that fails gives up one cell: another frame may start inside. *)
CrcMismatch ==
    /\ Whole /\ ~CrcMatches(Aligned)
    /\ Emit([kind |-> "error"], From(Aligned, 2))

(* A frame, or one of an unknown type, which is consumed all the same. *)
Deliver ==
    /\ Whole /\ CrcMatches(Aligned)
    /\ Emit(IF Aligned[4].val \in Known
            THEN [kind |-> "frame", sequence |-> Aligned[5].val,
                  payload |-> SubSeq(Vals(Aligned), HEADER_BYTES + 1,
                                     Total(Aligned) - CRC_BYTES)]
            ELSE [kind |-> "error"],
            From(Aligned, Total(Aligned) + 1))

-----------------------------------------------------------------------------
Firmware == \E p \in Payloads : Send(p)
Faults ==
    \E k \in DOMAIN wire : Lose(k) \/ \E b \in Bytes : Damage(k, b)
Scan == NoMagic \/ Incomplete \/ BadHeader \/ CrcMismatch \/ Deliver

Next == Firmware \/ Faults \/ (\E n \in 1 .. Len(wire) : Read(n)) \/ Scan
Spec == Init /\ [][Next]_vars

-----------------------------------------------------------------------------
(* Properties.                                                             *)

FrameLength(n) == HEADER_BYTES + Len(sent[n]) + CRC_BYTES

(* What is still to be scanned, and whether frame n stands whole behind    *)
(* the first p cells of it.                                                *)
Stream == buffer \o wire
Stands(n, p, cells) ==
    \A k \in 1 .. FrameLength(n) :
        p + k <= Len(cells) /\ cells[p + k] = Framed(n, sent[n])[k]

(* A checksum that matches cells which are not one frame as it was sent:   *)
(* sixteen bits cannot exclude it, and a payload may hold a whole frame,   *)
(* which the decoder finds when the header around it was hit.              *)
Collision ==
    /\ Whole /\ CrcMatches(Aligned)
    /\ ~\E n \in DOMAIN sent :
           Total(Aligned) = FrameLength(n) /\ Stands(n, 0, Aligned)

IsFrame(k) == got[k].kind = "frame"
Delivered(n) == \E k \in DOMAIN got : IsFrame(k) /\ got[k].sequence = n

TypeOK ==
    /\ sent \in Seq(Payloads) /\ hurt \subseteq 1 .. MaxFrames
    /\ faults \in 0 .. MaxFaults /\ scanning \in BOOLEAN
    /\ \A k \in DOMAIN wire : wire[k].frame \in 1 .. Len(sent)
    /\ \A k \in DOMAIN buffer : buffer[k].frame \in 1 .. Len(sent)

(* Whatever was lost or damaged, the daemon is only handed frames that the *)
(* firmware sent, unchanged, each once and in order: no payload that looks *)
(* like a header and no resynchronisation invents one (FrameDecoder::feed).*)
FramesAreGenuine ==
    /\ \A k \in DOMAIN got : IsFrame(k) =>
          /\ got[k].sequence \in DOMAIN sent
          /\ got[k].payload = sent[got[k].sequence]
    /\ \A j, k \in DOMAIN got :
          j < k /\ IsFrame(j) /\ IsFrame(k) => got[j].sequence < got[k].sequence

(* A frame no fault has hit is delivered, or still stands in what is to be *)
(* scanned, whole and unchanged: no resynchronisation after the loss of    *)
(* another frame's bytes runs over it (FrameDecoder::feed).                *)
IntactFramesSurvive ==
    \A n \in DOMAIN sent \ hurt :
        Delivered(n) \/ \E p \in 0 .. Len(Stream) : Stands(n, p, Stream)

(* Between two reads the decoder holds less than one frame of the greatest *)
(* size: a frame waits for at most that many bytes behind it, and the      *)
(* fixed buffer of bridge_protocol.c is never full.                        *)
LessThanAFrameWaits ==
    ~scanning => Len(buffer) < HEADER_BYTES + MaxPayload + CRC_BYTES

-----------------------------------------------------------------------------
(* The link the decoder makes of the wire, for the daemon.                 *)

Received == {got[k] : k \in {j \in DOMAIN got : IsFrame(j)}}

Link == INSTANCE LossyLink WITH received <- Received

(* Faults or not, the daemon reads from a link that drops the frames hit   *)
(* and no other, and neither reorders nor repeats: a later frame is never  *)
(* handed over while one that was not hit is held up before it             *)
(* (FrameDecoder::feed).                                                   *)
IsALossyLink == Link!Spec
=============================================================================
