------------------------------- MODULE Am2320 -------------------------------
(***************************************************************************)
(* drivers/am2320.c: what the driver makes of the eight bytes it reads: a  *)
(* function code, a count, humidity and temperature, each high byte first, *)
(* and a CRC-16, low byte first.  A uint16_t whose bits matter is the set  *)
(* of the positions of its ones.                                           *)
(***************************************************************************)
EXTENDS Integers

Byte     == 0 .. 255
Response == [1 .. 8 -> Byte]

Bits[n \in 0 .. 65535] == {b \in 0 .. 15 : (n \div 2^b) % 2 = 1}

\* crc ^= byte
Mix[crc \in SUBSET (0 .. 15), byte \in Byte] ==
    {b \in 0 .. 15 : (b \in crc) # (b \in Bits[byte])}

\* One bit of the CRC: a shift to the right, and the polynomial 0xA001.
CrcShift[crc \in SUBSET (0 .. 15)] ==
    {b \in 0 .. 15 : (b + 1 \in crc) # (0 \in crc /\ b \in Bits[40961])}

\* crc_16: every byte is mixed in before its eight shifts.
Crc16(bytes, len) ==
    LET crc[i \in 0 .. 8 * len] ==
            CASE i = 0     -> Bits[65535]
              [] i % 8 = 1 -> CrcShift[Mix[crc[i - 1], bytes[i \div 8 + 1]]]
              [] OTHER     -> CrcShift[crc[i - 1]]
    IN crc[8 * len]

\* Variant: only the low byte of the checksum is compared.
CheckLowByte(frame) == {b \in Crc16(frame, 6) : b < 8} = Bits[frame[7]]

\* am2320_check_crc
CheckCrc(frame) == Crc16(frame, 6) = Bits[frame[7] + 256 * frame[8]]

Int16(n) == IF n >= 32768 THEN n - 65536 ELSE n

\* Per mille of relative humidity.
RelativeHumidity(frame) == Int16(256 * frame[3] + frame[4])

\* Tenths of a degree: a sign and a magnitude.
Temperature(frame) ==
    LET raw == 256 * frame[5] + frame[6]
    IN  IF raw >= 32768 THEN -(raw - 32768) ELSE raw
=============================================================================
