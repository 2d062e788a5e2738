----------------------------- MODULE UartFrames -----------------------------
(***************************************************************************)
(* The frames on the line between a uart device and the node               *)
(* (cp_encodemessage and cp_decodemessage of uart_protocolhandler.c,       *)
(* byteStuff of UartTest/uart.cpp, proxy_rx_callback of uarthandler.c).    *)
(* The line may flip a bit of a byte or lose a byte.                       *)
(***************************************************************************)
EXTENDS Integers, Sequences

CONSTANTS
    Messages,     \* the messages a device may send
    MaxFrames,    \* bounds of the checks
    MaxNoise

Byte == 0..255
END == 192
ESC == 219
ESC_END == 220
ESC_ESC == 221

VARIABLES
    line,      \* the bytes still on the line
    rxbuf,     \* the bytes of the active buffer
    last_c,    \* the byte received last
    sent,      \* history: the messages sent
    got,       \* history: the messages decoded
    joined,    \* history: an END was disturbed, its frame runs into the next
    noise      \* disturbances so far

frameVars == <<line, rxbuf, last_c, sent, got, joined, noise>>

(* The bits in which two numbers of 2, 4, 8 and 16 bits differ.            *)
Halves(Half(_, _), n, a, b) == Half(a % n, b % n) + n * Half(a \div n, b \div n)
Xor1(a, b) == (a + b) % 2
Xor2(a, b) == Halves(Xor1, 2, a, b)
Xor4(a, b) == Halves(Xor2, 4, a, b)
Xor8(a, b) == Halves(Xor4, 16, a, b)
Xor16(a, b) == Halves(Xor8, 256, a, b)

(* The checksum of the CCITT, a byte at a time, in 16 bits.                *)
Swapped(x) == x \div 256 + (x % 256) * 256
Up(x) == Xor16(x, ((x \div 256) * 4096) % 65536)
Down(x) == Xor16(x, x \div 4096)
Low(x) == Xor16(x, (x \div 256) * 8)
crc16_add(acc, b) == Low(Down(Up(Swapped(Xor16(acc, b)))))
crcUpTo(data) ==
    LET crc[n \in 0..Len(data)] == IF n = 0 THEN 0 ELSE crc16_add(crc[n - 1], data[n])
    IN crc
crc16_data(data) == crcUpTo(data)[Len(data)]

(* The length counts the sequence number, the command and the payload.     *)
Body(m) == <<m.seqno, m.cmd>> \o m.payload
Counted(m) == Append(Body(m), Len(Body(m)))
Checksum(bytes) == <<crc16_data(bytes) % 256, crc16_data(bytes) \div 256>>
cp_encodemessage(m) == Counted(m) \o Checksum(Counted(m))

Escape(c) == CASE c = END -> <<ESC, ESC_END>> [] c = ESC -> <<ESC, ESC_ESC>> [] OTHER -> <<c>>
stuffedUpTo(bytes) ==
    LET stuffed[n \in 0..Len(bytes)] ==
            IF n = 0 THEN <<>> ELSE stuffed[n - 1] \o Escape(bytes[n])
    IN stuffed
byteStuff(bytes) == stuffedUpTo(bytes)[Len(bytes)]
Escaped(m) == \E i \in DOMAIN cp_encodemessage(m) : cp_encodemessage(m)[i] \in {END, ESC}

(* A frame of two bytes is all checksum; one byte, or none, reads memory   *)
(* in front of the buffer, the top of a RAM address, which is not zero.    *)
(* Slip: the checksum is not compared with the one that was sent.          *)
IntactAny(bytes) == Len(bytes) > 1
Intact(bytes) ==
    LET n == Len(bytes) IN
    n > 1 /\ crc16_data(SubSeq(bytes, 1, n - 2)) = bytes[n - 1] + 256 * bytes[n]
msglen(bytes) == IF Len(bytes) > 2 THEN bytes[Len(bytes) - 2] ELSE 2
cp_decodemessage(bytes) ==
    [seqno |-> bytes[1], cmd |-> bytes[2],
     payload |-> [i \in 1..msglen(bytes) - 2 |-> IF i + 2 > Len(bytes) THEN 0 ELSE bytes[i + 2]]]

Init ==
    /\ line = <<>> /\ rxbuf = <<>> /\ last_c = 0
    /\ sent = <<>> /\ got = <<>> /\ joined = FALSE /\ noise = 0

transmit(m) ==
    /\ line = <<>> /\ Len(sent) < MaxFrames
    /\ line' = Append(byteStuff(cp_encodemessage(m)), END)
    /\ sent' = Append(sent, m)
    /\ UNCHANGED <<rxbuf, last_c, got, joined, noise>>

(* The ESC of a pair has been stored already when its second byte comes.   *)
proxy_rx_callback(c) ==
    /\ last_c' = c
    /\ IF c = END
       THEN /\ rxbuf' = <<>>
            /\ got' = IF Intact(rxbuf) THEN Append(got, cp_decodemessage(rxbuf)) ELSE got
       ELSE /\ rxbuf' = Append(rxbuf, CASE c = ESC_ESC /\ last_c = ESC -> ESC
                                        [] c = ESC_END /\ last_c = ESC -> END
                                        [] OTHER -> c)
            /\ UNCHANGED got

Receive ==
    /\ line # <<>>
    /\ line' = Tail(line)
    /\ proxy_rx_callback(Head(line))
    /\ UNCHANGED <<sent, joined, noise>>

Disturbed ==
    /\ line # <<>> /\ noise < MaxNoise
    /\ noise' = noise + 1
    /\ line' = Tail(line)
    /\ joined' = (joined \/ Head(line) = END)
FlipBit ==
    /\ Disturbed
    /\ \E bit \in {1, 2, 4, 8, 16, 32, 64, 128} : proxy_rx_callback(Xor8(Head(line), bit))
    /\ UNCHANGED sent

LoseByte ==
    /\ Disturbed
    /\ UNCHANGED <<rxbuf, last_c, sent, got>>

Next ==
    \/ \E m \in Messages : transmit(m)
    \/ Receive \/ FlipBit \/ LoseByte
Spec == Init /\ [][Next]_frameVars

-----------------------------------------------------------------------------

(* The value of every variable.                                            *)
TypeOK ==
    /\ line \in Seq(Byte) /\ rxbuf \in Seq(Byte) /\ last_c \in Byte
    /\ noise \in 0..MaxNoise /\ sent \in Seq(Messages)
    /\ got \in Seq([seqno : Byte, cmd : Byte, payload : Seq(Byte)])

(* What the node takes for a message was sent, once and in this order: a   *)
(* disturbed frame, and the two halves of one that a flipped bit has cut,  *)
(* are refused; of two that a disturbed END has joined, at least the       *)
(* sequence number and the command are the first one's (cp_decodemessage). *)
Within(which, s, t) ==
    \E at \in [which -> DOMAIN t] :
        \A i \in which : s[i] = t[at[i]] /\ \A j \in which : j < i => at[j] < at[i]
Heads(s) == [i \in DOMAIN s |-> <<s[i].seqno, s[i].cmd>>]
AcceptedIsSent ==
    /\ Within(DOMAIN got, Heads(got), Heads(sent))
    /\ joined \/ Within(DOMAIN got, got, sent)

(* All of it was sent.  It does not hold: the checksum of a frame and its  *)
(* own checksum is zero, so that of two joined frames is right, and the    *)
(* length is the second one's.                                             *)
JoinedIsRefused == Within(DOMAIN got, got, sent)

(* On a quiet line every frame that needs no escape arrives.               *)
PlainFramesArrive ==
    line = <<>> /\ noise = 0 => Within({i \in DOMAIN sent : ~Escaped(sent[i])}, sent, got)

(* On a quiet line every frame arrives.  It does not hold: the escaped     *)
(* byte comes out behind the ESC that announced it (proxy_rx_callback).    *)
FramesArrive == line = <<>> /\ noise = 0 => got = sent
=============================================================================
