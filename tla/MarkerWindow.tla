----------------------------- MODULE MarkerWindow -----------------------------
(***************************************************************************)
(* The rolling window of _drain_until_ready and _drain_response, for any  *)
(* conversion of a chunk of bytes into text: each read returns a chunk of *)
(* 1..MaxChunk bytes, the chunk is converted (decode, then _strip_ansi:    *)
(* Convert, given by MarkerScanner), the text is appended to the window,   *)
(* the window is cut to its last Capacity characters (512 or 1024), and    *)
(* the reads stop being waited for once a marker is a substring of it.    *)
(*                                                                         *)
(* Bytes and characters are their integer codes.  The stream the device   *)
(* prints is chosen in Init.                                               *)
(***************************************************************************)
EXTENDS Naturals, Sequences

CONSTANTS
    Alphabet,   \* the byte values the device may print
    Markers,    \* the marker strings, as sequences of character codes
    Capacity,   \* the window size (512 in the ready wait, 1024 in the drain)
    MaxLen,     \* bound on the length of the printed stream
    MaxChunk,   \* bound on the bytes one read returns
    Convert(_)  \* the text of one chunk: _strip_ansi(chunk.decode(...))

(* Sequences over S of length at most n.                                   *)
SeqsUpTo(S, n) == UNION {[1..m -> S] : m \in 0..n}

(* decode() and _strip_ansi() return a str for every chunk a read can     *)
(* return.                                                                 *)
ASSUME MarkerWindowAssumption ==
    /\ Alphabet \subseteq Nat
    /\ Markers \subseteq Seq(Nat) /\ <<>> \notin Markers
    /\ Capacity \in Nat \ {0}
    /\ MaxLen \in Nat /\ MaxChunk \in Nat \ {0}
    /\ \A bs \in SeqsUpTo(Alphabet, MaxChunk) : Convert(bs) \in Seq(Nat)

(* s[-n:] *)
LastChars(s, n) == IF Len(s) <= n THEN s ELSE SubSeq(s, Len(s) - n + 1, Len(s))

(* any(marker in window for marker in markers) *)
MarkerIn(w) ==
    \E m \in Markers : \E i \in 0..(Len(w) - Len(m)) :
        SubSeq(w, i + 1, i + Len(m)) = m

VARIABLES
    pending,   \* bytes printed and not yet read
    received,  \* history: the bytes read so far
    seen,      \* history: the text of every chunk, concatenated
    window,    \* the local window
    found      \* a marker was seen (the return value / ack_seen)

vars == <<pending, received, seen, window, found>>

TypeOK ==
    /\ pending \in Seq(Alphabet)
    /\ received \in Seq(Alphabet)
    /\ seen \in Seq(Nat)
    /\ window \in Seq(Nat) /\ Len(window) <= Capacity
    /\ found \in BOOLEAN

Init ==
    /\ pending \in SeqsUpTo(Alphabet, MaxLen)
    /\ received = <<>>
    /\ seen = <<>>
    /\ window = <<>>
    /\ found = FALSE

(* Seeded fault for WindowIsSuffix: the window restarted with each chunk. *)
ReadChunkFresh(k) ==
    LET text == Convert(SubSeq(pending, 1, k))
    IN  /\ ~found
        /\ pending' = SubSeq(pending, k + 1, Len(pending))
        /\ received' = received \o SubSeq(pending, 1, k)
        /\ seen' = seen \o text
        /\ window' = LastChars(text, Capacity)
        /\ found' = MarkerIn(window')

(* Seeded fault for TypeOK: the window cut to one character too many.      *)
ReadChunkOffByOne(k) ==
    LET text == Convert(SubSeq(pending, 1, k))
    IN  /\ ~found
        /\ pending' = SubSeq(pending, k + 1, Len(pending))
        /\ received' = received \o SubSeq(pending, 1, k)
        /\ seen' = seen \o text
        /\ window' = LastChars(window \o text, Capacity + 1)
        /\ found' = MarkerIn(window')

(* One non-empty read: convert the chunk, append, truncate, test; a match  *)
(* ends the wait.                                                          *)
ReadChunk(k) ==
    LET text == Convert(SubSeq(pending, 1, k))
    IN  /\ ~found
        /\ pending' = SubSeq(pending, k + 1, Len(pending))
        /\ received' = received \o SubSeq(pending, 1, k)
        /\ seen' = seen \o text
        /\ window' = LastChars(window \o text, Capacity)
        /\ found' = MarkerIn(window')

Next == \E k \in 1..MaxChunk : k <= Len(pending) /\ ReadChunk(k)

Spec == Init /\ [][Next]_vars

-----------------------------------------------------------------------------
(* The rolling window of the design: after every read the window holds    *)
(* exactly the last Capacity characters of all text received so far,      *)
(* whatever the sizes of the chunks were.                                  *)
WindowIsSuffix == window = LastChars(seen, Capacity)
=============================================================================
