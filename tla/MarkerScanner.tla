---------------------------- MODULE MarkerScanner ----------------------------
(***************************************************************************)
(* The text conversion of _drain_until_ready and _drain_response, and the  *)
(* marker scan built on it: MarkerWindow with Convert bound to ChunkText   *)
(* (see MC_MarkerScanner.cfg).  A chunk is decoded with                    *)
(* decode(errors="ignore") and its escape sequences are removed by         *)
(* _strip_ansi; both are applied per chunk, as in the code.  The reference *)
(* is the same two conversions applied to the whole stream.               *)
(***************************************************************************)
EXTENDS MarkerWindow

ASSUME MarkerScannerAssumption ==
    /\ Alphabet \subseteq 0..223
    /\ Markers \subseteq Seq(0..127)

-----------------------------------------------------------------------------
(* decode(errors="ignore") for UTF-8 on bytes below 0xE0: an ASCII byte is *)
(* its character; a lead byte 0xC2..0xDF followed by a continuation byte   *)
(* 0x80..0xBF is one character; any other byte (a lone continuation, a     *)
(* lead without its continuation, the cut end of a chunk) is dropped.      *)
IsLead2(b) == b \in 194..223
IsCont(b) == b \in 128..191

RECURSIVE Decode(_)
Decode(bs) ==
    IF bs = <<>> THEN <<>>
    ELSE IF Head(bs) < 128 THEN <<Head(bs)>> \o Decode(Tail(bs))
    ELSE IF IsLead2(Head(bs)) /\ Len(bs) >= 2 /\ IsCont(bs[2])
      THEN <<(Head(bs) % 32) * 64 + (bs[2] % 64)>> \o Decode(Tail(Tail(bs)))
    ELSE Decode(Tail(bs))

(* _ANSI_RE = \x1B\[[0-?]*[ -/]*[@-~]: ESC, '[', parameter bytes          *)
(* 0x30..0x3F, intermediate bytes 0x20..0x2F, one final byte 0x40..0x7E.  *)
(* The three classes are disjoint, so the greedy match is the longest run  *)
(* of each in turn, and fails if no final byte follows.                    *)
ESC == 27
LBRACKET == 91
Params == 48..63
Inters == 32..47
Finals == 64..126

RECURSIVE RunEnd(_, _, _)
RunEnd(t, i, S) == IF i <= Len(t) /\ t[i] \in S THEN RunEnd(t, i + 1, S) ELSE i

(* The length of the escape sequence at the start of t, 0 if none.        *)
CsiLen(t) ==
    IF Len(t) >= 2 /\ t[1] = ESC /\ t[2] = LBRACKET
      THEN LET f == RunEnd(t, RunEnd(t, 3, Params), Inters)
           IN  IF f <= Len(t) /\ t[f] \in Finals THEN f ELSE 0
      ELSE 0

(* _strip_ansi: re.sub scans left to right and removes each match.         *)
RECURSIVE StripAnsi(_)
StripAnsi(t) ==
    IF t = <<>> THEN <<>>
    ELSE IF CsiLen(t) > 0 THEN StripAnsi(SubSeq(t, CsiLen(t) + 1, Len(t)))
    ELSE <<Head(t)>> \o StripAnsi(Tail(t))

(* The text of one chunk: text = chunk.decode(errors="ignore"), then       *)
(* _strip_ansi(text).                                                      *)
ChunkText(bs) == StripAnsi(Decode(bs))

-----------------------------------------------------------------------------
(* Properties.                                                             *)

(* The text the device printed, as one string.                            *)
Reference(bs) == ChunkText(bs)

(* The design's promise for escape sequences split across reads: they may *)
(* leave a fragment in the window but never cause a false marker match.    *)
(* A match is only reported for a marker the printed text contains.        *)
NoFalseMatch == found => MarkerIn(Reference(received))

(* "Read UART output until any marker is seen": once the bytes read so far *)
(* contain a marker as text, the scan has reported it.                     *)
MarkerSeenWhenPrinted == MarkerIn(Reference(received)) => found
=============================================================================
