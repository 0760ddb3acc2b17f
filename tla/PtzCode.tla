------------------------------ MODULE PtzCode ------------------------------
(***************************************************************************)
(* local_server::getPTZCode: the eight bytes that tell a camera where to   *)
(* turn. The code prints them as hexadecimal text, two digits each, which  *)
(* loses nothing and is left out.                                          *)
(***************************************************************************)
EXTENDS Integers, Sequences

SUB_UP == 0
SUB_DOWN == 1
SUB_LEFT == 2
SUB_RIGHT == 3
SUB_ZOOMIN == 4
SUB_ZOOMOUT == 5
SUB_STOP == 6

Byte == 0 .. 255

m_iSpeed == 200

\* PTZCMD[3]: one bit for each direction, none to stop.
Motion(m_iSubCMD) ==
  CASE m_iSubCMD = SUB_UP -> 8
    [] m_iSubCMD = SUB_DOWN -> 4
    [] m_iSubCMD = SUB_LEFT -> 2
    [] m_iSubCMD = SUB_RIGHT -> 1
    [] m_iSubCMD = SUB_ZOOMIN -> 16
    [] m_iSubCMD = SUB_ZOOMOUT -> 32
    [] OTHER -> 0

\* PTZCMD[4 .. 6]: the speed goes where the motion looks for it. The speed of
\* a zoom has the upper four bits of a byte, where 200 has no room.
Pan(m_iSubCMD) == IF m_iSubCMD \in {SUB_LEFT, SUB_RIGHT} THEN m_iSpeed ELSE 0
Tilt(m_iSubCMD) == IF m_iSubCMD \in {SUB_UP, SUB_DOWN} THEN m_iSpeed ELSE 0
Zoom(m_iSubCMD) ==
  IF m_iSubCMD \in {SUB_ZOOMIN, SUB_ZOOMOUT} THEN (m_iSpeed * 16) % 256 ELSE 0

\* PTZCMD[1]: version 0 and the check of the first byte and of the version.
Check == ((165 \div 16) + (165 % 16)) % 16

\* PTZCMD[7]: the sum of the other seven.
Sum7(code) ==
  (code[1] + code[2] + code[3] + code[4] + code[5] + code[6] + code[7]) % 256

getPTZCode(m) ==
  LET code == <<165, Check, 0, Motion(m), Pan(m), Tilt(m), Zoom(m), 0>>
  IN  [code EXCEPT ![8] = Sum7(code)]

-----------------------------------------------------------------------------
(* How a camera reads a code: the reference.                               *)

\* The bit of byte with weight w.
Bit(byte, w) == (byte \div w) % 2 = 1

WellFormed(code) ==
  /\ Len(code) = 8 /\ \A i \in 1 .. 8 : code[i] \in Byte
  /\ code[1] = 165 /\ code[2] % 16 = (10 + 5 + (code[2] \div 16)) % 16
  /\ code[8] = Sum7(code)

\* A camera moves where it is told to and at a speed above 0, so the speed has
\* to be given for the axis of the motion: pan, tilt or zoom.
Moves(code) ==
    {m \in {SUB_RIGHT} : Bit(code[4], 1) /\ code[5] > 0}
    \union {m \in {SUB_LEFT} : Bit(code[4], 2) /\ code[5] > 0}
    \union {m \in {SUB_DOWN} : Bit(code[4], 4) /\ code[6] > 0}
    \union {m \in {SUB_UP} : Bit(code[4], 8) /\ code[6] > 0}
    \union {m \in {SUB_ZOOMIN} : Bit(code[4], 16) /\ code[7] \div 16 > 0}
    \union {m \in {SUB_ZOOMOUT} : Bit(code[4], 32) /\ code[7] \div 16 > 0}

\* Every command is well formed and moves the camera where it says and nowhere
\* else; SUB_STOP, like every number that is no command, stops it.
CodesAreUnderstood ==
  \A m \in SUB_UP .. SUB_STOP :
    WellFormed(getPTZCode(m)) /\ Moves(getPTZCode(m)) = {m} \ {SUB_STOP}
=============================================================================
