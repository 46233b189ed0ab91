---------------------------- MODULE MCSFPFraming ----------------------------
(***************************************************************************)
(* Frames for SFPFraming: headers and payloads that need escaping (an RTX  *)
(* frame with sequence number 61 or 62 has a reserved header), the empty   *)
(* payload of control frames, and payloads as long as the buffer allows.   *)
(***************************************************************************)
EXTENDS SFPFraming

ShortTraffic ==
  { <<Octet("FLAG")>>,
    <<Octet("x"), Octet("ESC"), Octet("flag")>>,
    <<Octet("esc"), Octet("FLAG"), Octet("x")>> }

\* Payloads of MaxPacket - 1 and MaxPacket octets, for MaxPacket = 4.
LongTraffic ==
  { <<Octet("x"), Octet("x"), Octet("FLAG"), Octet("x")>>,
    <<Octet("x"), Octet("ESC"), Octet("x"), Octet("x"), Octet("X")>> }
=============================================================================
