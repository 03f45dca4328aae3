-------------------------------- MODULE SdCrc --------------------------------
(***************************************************************************)
(* The two checksums of the SD card driver, byte by byte as the driver     *)
(* computes them, and the definition the card goes by: the remainder of    *)
(* the message, as a polynomial over the two-element field, divided by     *)
(* x^7 + x^3 + 1 for a command and by x^16 + x^12 + x^5 + 1 for data.      *)
(***************************************************************************)
EXTENDS Integers, Sequences, SequencesExt, Bitwise

Byte == 0 .. 255

\* CRC7: d is shifted out at the left while the checksum takes its bits.
crc7Bit(s) ==
    LET crc == (s.crc * 2) % 256
        differ == (s.d \div 128) # (crc \div 128)
    IN  [crc |-> IF differ THEN crc ^^ 9 ELSE crc, d |-> (s.d * 2) % 256]
crc7Byte(crc, d) ==
    FoldLeft(LAMBDA s, j : crc7Bit(s), [crc |-> crc, d |-> d],
             <<1, 2, 3, 4, 5, 6, 7, 8>>).crc
CRC7(data) == (FoldLeft(crc7Byte, 0, data) * 2 + 1) % 256

\* The bytes of a command, and the checksum cardCommand sends behind them.
FrameOf(cmd, arg) ==
    <<64 + cmd, arg \div 2 ^ 24, (arg \div 65536) % 256, (arg \div 256) % 256, arg % 256>>
FrameCrc(cmd, arg) == CRC7(FrameOf(cmd, arg))

\* CRC_CCITT, in 16 bits, with the byte-wide shortcuts of the source.
swapped(crc) == (crc \div 256) + (crc % 256) * 256
right4(crc) == crc ^^ ((crc % 256) \div 16)
left12(crc) == crc ^^ ((crc * 4096) % 65536)
left5(crc)  == crc ^^ ((crc % 256) * 32)
ccittByte(crc, d) == left5(left12(right4(swapped(crc) ^^ d)))
CRC_CCITT(data) == FoldLeft(ccittByte, 0, data)

\* Long division, a bit at a time, of the message followed by width zeros.
BitsOf(byte) == [i \in 1 .. 8 |-> (byte \div 2 ^ (8 - i)) % 2]
Remainder(data, width, poly) ==
    LET message == FlattenSeq([i \in DOMAIN data |-> BitsOf(data[i])])
                       \o [i \in 1 .. width |-> 0]
        divide(r, b) == LET s == 2 * r + b
                        IN  IF s < 2 ^ width THEN s ELSE s ^^ (2 ^ width + poly)
    IN  FoldLeft(divide, 0, message)
CommandChecksum(cmd, arg) == 2 * Remainder(FrameOf(cmd, arg), 7, 9) + 1
BlockChecksum(block) == Remainder(block, 16, 4129)
=============================================================================
