-------------------------- MODULE MarkerWindowProofs --------------------------
(***************************************************************************)
(* Proofs about the rolling window of MarkerWindow, for every conversion   *)
(* Convert that returns text, every window size and every bound.           *)
(***************************************************************************)
EXTENDS MarkerWindow, SequenceTheorems, TLAPS

USE MarkerWindowAssumption

(* Every sequence of at most n elements of S is a sequence over S.         *)
LEMMA SeqsUpToSeq ==
    ASSUME NEW S, NEW n \in Nat, NEW s \in SeqsUpTo(S, n)
    PROVE  s \in Seq(S) /\ Len(s) <= n
BY DEF SeqsUpTo

(* The first k elements of a sequence over S are at most n elements of S.  *)
LEMMA PrefixInSeqsUpTo ==
    ASSUME NEW S, NEW s \in Seq(S), NEW n \in Nat, NEW k \in 1..n, k <= Len(s)
    PROVE  SubSeq(s, 1, k) \in SeqsUpTo(S, n)
<1>1. SubSeq(s, 1, k) \in Seq(S) /\ Len(SubSeq(s, 1, k)) = k
  BY SubSeqProperties
<1>2. SubSeq(s, 1, k) \in [1..k -> S]
  BY <1>1, LenProperties
<1>. QED  BY <1>2 DEF SeqsUpTo

(* The last C elements of a sequence are a sequence of at most C of its   *)
(* kind.                                                                   *)
LEMMA LastCharsType ==
    ASSUME NEW S, NEW s \in Seq(S), NEW C \in Nat \ {0}
    PROVE  LastChars(s, C) \in Seq(S) /\ Len(LastChars(s, C)) <= C
BY DEF LastChars

(* A sequence longer than C is cut to its last C elements.               *)
LEMMA LastCharsLong ==
    ASSUME NEW S, NEW x \in Seq(S), NEW C \in Nat, Len(x) > C
    PROVE  LastChars(x, C) = SubSeq(x, Len(x) - C + 1, Len(x))
BY DEF LastChars

(* The C elements of x after its first a form a sequence of C elements.  *)
LEMMA SliceProperties ==
    ASSUME NEW S, NEW x \in Seq(S), NEW a \in Nat, NEW C \in Nat,
           a + C <= Len(x)
    PROVE  /\ SubSeq(x, a + 1, a + C) \in Seq(S)
           /\ Len(SubSeq(x, a + 1, a + C)) = C
           /\ \A i \in 1..C : SubSeq(x, a + 1, a + C)[i] = x[a + i]
<1>1. \A i \in a + 1 .. a + C : x[i] \in S
  BY LenProperties
<1>. QED  BY <1>1, SubSeqProperties

(* Cutting to the last C elements before appending t and cutting again    *)
(* gives the same as cutting once after the append: the window cut at     *)
(* each read is the cut of everything read.                               *)
LEMMA LastCharsConcat ==
    ASSUME NEW S, NEW s \in Seq(S), NEW t \in Seq(S), NEW C \in Nat \ {0}
    PROVE  LastChars(LastChars(s, C) \o t, C) = LastChars(s \o t, C)
<1> DEFINE w == LastChars(s, C)
<1>1. w \in Seq(S) /\ Len(w) <= C
  BY LastCharsType
<1>2. CASE Len(s) <= C
  BY <1>2 DEF LastChars
<1>3. CASE Len(s) > C
  <2> DEFINE L == Len(s)  T == Len(t)  u == w \o t  v == s \o t
             lhs == SubSeq(u, T + 1, T + C)  rhs == SubSeq(v, L + T - C + 1, L + T)
  <2>1. /\ w = SubSeq(s, L - C + 1, L)
        /\ Len(w) = C
        /\ \A i \in 1..C : w[i] = s[L - C + i]
    <3>1. w = SubSeq(s, L - C + 1, L)
      BY <1>3 DEF LastChars
    <3>2. \A i \in L - C + 1 .. L : s[i] \in S
      BY <1>3, LenProperties
    <3>. QED  BY <1>3, <3>1, <3>2, SubSeqProperties
  <2>2. /\ u \in Seq(S) /\ Len(u) = C + T
        /\ \A i \in 1..C + T : u[i] = IF i <= C THEN w[i] ELSE t[i - C]
    BY <1>1, <2>1, ConcatProperties
  <2>3. /\ v \in Seq(S) /\ Len(v) = L + T
        /\ \A i \in 1..L + T : v[i] = IF i <= L THEN s[i] ELSE t[i - L]
    BY ConcatProperties
  <2>4. CASE T = 0
    <3>1. t = <<>>
      BY <2>4, EmptySeq
    <3>2. u = w /\ v = s
      BY <3>1, <1>1, ConcatEmptySeq
    <3>3. LastChars(w, C) = w
      BY <2>1 DEF LastChars
    <3>. QED  BY <3>2, <3>3
  <2>5. CASE T > 0
    <3>1. LastChars(u, C) = lhs /\ LastChars(v, C) = rhs
      <4>1. Len(u) > C /\ Len(v) > C
        BY <1>3, <2>2, <2>3, <2>5
      <4>2. LastChars(u, C) = SubSeq(u, Len(u) - C + 1, Len(u))
        BY <4>1, <2>2, LastCharsLong
      <4>3. LastChars(v, C) = SubSeq(v, Len(v) - C + 1, Len(v))
        BY <4>1, <2>3, LastCharsLong
      <4>. QED  BY <4>2, <4>3, <2>2, <2>3
    <3>2. /\ lhs \in Seq(S) /\ Len(lhs) = C
          /\ \A i \in 1..C : lhs[i] = u[T + i]
      BY <2>2, SliceProperties
    <3>3. /\ rhs \in Seq(S) /\ Len(rhs) = C
          /\ \A i \in 1..C : rhs[i] = v[L + T - C + i]
      <4>1. L + T - C \in Nat /\ (L + T - C) + C = L + T
        BY <1>3
      <4>. QED  BY <4>1, <2>3, SliceProperties
    <3>4. \A i \in 1..C : lhs[i] = rhs[i]
      BY <1>3, <2>1, <2>2, <2>3, <3>2, <3>3
    <3>5. lhs = rhs
      BY <3>2, <3>3, <3>4, SeqEqual
    <3>. QED  BY <3>1, <3>5
  <2>. QED  BY <2>4, <2>5, LenProperties
<1>. QED  BY <1>2, <1>3

-----------------------------------------------------------------------------
(* The inductive invariant: TypeOK alone is not inductive, since the type  *)
(* of the window after a read depends on the conversion returning text,    *)
(* and WindowIsSuffix needs the types of seen and window; together they    *)
(* are.                                                                    *)
IInv == TypeOK /\ WindowIsSuffix

LEMMA InitIInv == Init => IInv
<1> SUFFICES ASSUME Init PROVE IInv
  OBVIOUS
<1>1. pending \in Seq(Alphabet)
  BY SeqsUpToSeq DEF Init
<1>2. LastChars(<<>>, Capacity) = <<>>
  BY DEF LastChars
<1>3. <<>> \in Seq(Alphabet) /\ <<>> \in Seq(Nat) /\ Len(<<>>) <= Capacity
  BY EmptySeq
<1>. QED  BY <1>1, <1>2, <1>3 DEF Init, IInv, TypeOK, WindowIsSuffix

(* One read keeps the window the last Capacity characters of the text.     *)
LEMMA ReadChunkIInv ==
    ASSUME IInv, NEW k \in 1..MaxChunk, k <= Len(pending), ReadChunk(k)
    PROVE  IInv'
<1> DEFINE chunk == SubSeq(pending, 1, k)
           text == Convert(chunk)
<1>1. /\ pending \in Seq(Alphabet) /\ received \in Seq(Alphabet)
      /\ seen \in Seq(Nat) /\ window \in Seq(Nat)
      /\ window = LastChars(seen, Capacity)
  BY DEF IInv, TypeOK, WindowIsSuffix
<1>2. chunk \in SeqsUpTo(Alphabet, MaxChunk) /\ chunk \in Seq(Alphabet)
  BY <1>1, PrefixInSeqsUpTo, SeqsUpToSeq
<1>3. text \in Seq(Nat)
  BY <1>2
<1>4. pending' = SubSeq(pending, k + 1, Len(pending)) /\ pending' \in Seq(Alphabet)
  <2>1. \A i \in k + 1 .. Len(pending) : pending[i] \in Alphabet
    BY <1>1, LenProperties
  <2>. QED  BY <2>1, SubSeqProperties DEF ReadChunk
<1>5. received' = received \o chunk /\ received' \in Seq(Alphabet)
  BY <1>1, <1>2, ConcatProperties DEF ReadChunk
<1>6. seen' = seen \o text /\ seen' \in Seq(Nat)
  BY <1>1, <1>3, ConcatProperties DEF ReadChunk
<1>7. window' = LastChars(window \o text, Capacity)
  BY DEF ReadChunk
<1>8. window' \in Seq(Nat) /\ Len(window') <= Capacity
  BY <1>1, <1>3, <1>7, ConcatProperties, LastCharsType
<1>9. found' \in BOOLEAN
  BY Zenon DEF ReadChunk, MarkerIn
<1>10. window' = LastChars(seen', Capacity)
  BY <1>1, <1>3, <1>6, <1>7, LastCharsConcat
<1>. QED  BY <1>4, <1>5, <1>6, <1>8, <1>9, <1>10 DEF IInv, TypeOK, WindowIsSuffix

LEMMA NextIInv == IInv /\ [Next]_vars => IInv'
<1> SUFFICES ASSUME IInv, [Next]_vars PROVE IInv'
  OBVIOUS
<1>1. CASE Next
  BY <1>1, ReadChunkIInv DEF Next
<1>2. CASE UNCHANGED vars
  BY <1>2 DEF vars, IInv, TypeOK, WindowIsSuffix
<1>. QED  BY <1>1, <1>2

(* Type correctness of the scan: the stream is read as bytes, the text is  *)
(* character codes, and the window never exceeds its Capacity, for every   *)
(* conversion that returns text.                                           *)
THEOREM MarkerTypeCorrect == Spec => []TypeOK
<1>1. IInv => TypeOK
  BY DEF IInv
<1>. QED  BY InitIInv, NextIInv, <1>1, PTL DEF Spec

(* The rolling window of _drain_until_ready / _drain_response: after every *)
(* read the window is exactly the last Capacity characters of all the text *)
(* received, whatever the chunk sizes, the window size and the conversion. *)
THEOREM WindowSound == Spec => []WindowIsSuffix
<1>1. IInv => WindowIsSuffix
  BY DEF IInv
<1>. QED  BY InitIInv, NextIInv, <1>1, PTL DEF Spec
=============================================================================
