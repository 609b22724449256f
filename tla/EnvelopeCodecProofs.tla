------------------------ MODULE EnvelopeCodecProofs ------------------------
(***************************************************************************)
(* decode against encode (src/envelope.rs), for any byte strings, any      *)
(* envelopes and any limits that fit their length prefix: the reader       *)
(* accepts exactly the encodings and reads back what was encoded.          *)
(*                                                                         *)
(* The argument: the encoding of an envelope is one piece after another,   *)
(* one piece to a field.  At every step the pieces of what was read lie on *)
(* the input up to the offset, and what is still to read is the rest of    *)
(* the layout.  And for every envelope that the input encodes, the reader  *)
(* is at the place of the envelope's own pieces and has read its values:   *)
(* so an input it refuses encodes nothing, and one it accepts encodes what *)
(* was read.                                                               *)
(***************************************************************************)
EXTENDS EnvelopeCodec, Recursion, SequenceTheorems, FiniteSetTheorems

-----------------------------------------------------------------------------
(* Pieces found in bytes *)

(* What is decoded, and what a string field holds. *)
Strings == Seq(Digit)

(* What the assumption on the limits says of each of them. *)
LEMMA LimitFacts ==
  /\ Base \in Nat /\ MaxEnvelope \in Nat /\ Digit \subseteq Nat
  /\ MaxVtxo \in Nat /\ MaxTransaction \in Nat /\ MaxScript \in Nat
  /\ MaxOutcome \in Nat /\ MaxPrevouts \in Nat /\ MaxPayouts \in Nat
  BY LimitAssumption DEF LimitSet, Digit

(* A piece is found in bytes, after the first at of them.                  *)
Holds(bytes, at, piece) ==
  /\ at + Len(piece) <= Len(bytes)
  /\ \A i \in 1..Len(piece) : bytes[at + i] = piece[i]

(* Two pieces found one after the other are found as one, and back.        *)
LEMMA HoldsBoth ==
  ASSUME NEW S, NEW bytes \in Seq(S), NEW at \in Nat, NEW u \in Seq(S), NEW v \in Seq(S)
  PROVE  /\ u \o v \in Seq(S) /\ Len(u \o v) = Len(u) + Len(v)
         /\ Holds(bytes, at, u \o v)
              <=> (Holds(bytes, at, u) /\ Holds(bytes, at + Len(u), v))
<1> DEFINE w == u \o v
<1>1. /\ w \in Seq(S) /\ Len(w) = Len(u) + Len(v)
      /\ \A i \in 1..Len(u) : w[i] = u[i]
      /\ \A i \in 1..Len(v) : w[Len(u) + i] = v[i]
      /\ Len(u) \in Nat /\ Len(v) \in Nat /\ Len(bytes) \in Nat
  OBVIOUS
<1> HIDE DEF w
<1>2. ASSUME Holds(bytes, at, w)
      PROVE  Holds(bytes, at, u) /\ Holds(bytes, at + Len(u), v)
  <2>1. at + Len(u) + Len(v) <= Len(bytes)
    BY <1>1, <1>2 DEF Holds
  <2>2. ASSUME NEW i \in 1..Len(u) PROVE bytes[at + i] = u[i]
    BY <1>1, <1>2 DEF Holds
  <2>3. ASSUME NEW i \in 1..Len(v) PROVE bytes[at + Len(u) + i] = v[i]
    <3>1. Len(u) + i \in 1..Len(w) /\ at + (Len(u) + i) = at + Len(u) + i
      BY <1>1
    <3>2. bytes[at + (Len(u) + i)] = w[Len(u) + i]
      BY <1>2, <3>1 DEF Holds
    <3> QED
      BY <1>1, <3>1, <3>2
  <2>4. Holds(bytes, at, u)
    <3>1. at + Len(u) <= Len(bytes)
      BY <1>1, <2>1
    <3> QED
      BY <2>2, <3>1 DEF Holds
  <2>5. Holds(bytes, at + Len(u), v)
    BY <2>1, <2>3 DEF Holds
  <2> QED
    BY <2>4, <2>5
<1>3. ASSUME Holds(bytes, at, u), Holds(bytes, at + Len(u), v)
      PROVE  Holds(bytes, at, w)
  <2>1. at + Len(w) <= Len(bytes)
    BY <1>1, <1>3 DEF Holds
  <2>2. ASSUME NEW i \in 1..Len(w) PROVE bytes[at + i] = w[i]
    <3>1. CASE i <= Len(u)
      BY <1>1, <1>3, <3>1 DEF Holds
    <3>2. CASE i > Len(u)
      <4> DEFINE j == i - Len(u)
      <4>1. j \in 1..Len(v) /\ i = Len(u) + j /\ at + Len(u) + j = at + i
        BY <1>1, <3>2
      <4> HIDE DEF j
      <4>2. bytes[at + Len(u) + j] = v[j]
        BY <1>3, <4>1 DEF Holds
      <4>3. w[Len(u) + j] = v[j]
        BY <1>1, <4>1
      <4> QED
        BY <4>1, <4>2, <4>3
    <3> QED
      BY <1>1, <3>1, <3>2
  <2> QED
    BY <2>1, <2>2 DEF Holds
<1> QED
  BY <1>1, <1>2, <1>3 DEF w

(* The same from left to right, and                                        *)
LEMMA HoldsJoined ==
  ASSUME NEW S, NEW bytes \in Seq(S), NEW at \in Nat, NEW u \in Seq(S), NEW v \in Seq(S),
         Holds(bytes, at, u), Holds(bytes, at + Len(u), v)
  PROVE  u \o v \in Seq(S) /\ Len(u \o v) = Len(u) + Len(v) /\ Holds(bytes, at, u \o v)
<1>1. u \o v \in Seq(S)
  BY HoldsBoth
<1>2. Len(u \o v) = Len(u) + Len(v)
  BY HoldsBoth
<1>3. Holds(bytes, at, u \o v)
  BY HoldsBoth
<1> QED
  BY <1>1, <1>2, <1>3

(* from right to left.                                                     *)
LEMMA HoldsParts ==
  ASSUME NEW S, NEW bytes \in Seq(S), NEW at \in Nat, NEW u \in Seq(S), NEW v \in Seq(S),
         Holds(bytes, at, u \o v)
  PROVE  /\ u \o v \in Seq(S) /\ Len(u \o v) = Len(u) + Len(v)
         /\ Holds(bytes, at, u) /\ Holds(bytes, at + Len(u), v)
<1>1. u \o v \in Seq(S)
  BY HoldsBoth
<1>2. Len(u \o v) = Len(u) + Len(v)
  BY HoldsBoth
<1>3. Holds(bytes, at, u) /\ Holds(bytes, at + Len(u), v)
  BY HoldsBoth
<1> QED
  BY <1>1, <1>2, <1>3

(* The first k pieces are found one after the other, from at on, and where *)
(* each of them ends.                                                      *)
Laid(bytes, at, parts, k, ends) ==
  /\ ends \in [0..k -> Nat]
  /\ ends[0] = at
  /\ \A q \in 1..k :
       /\ ends[q] = ends[q - 1] + Len(parts[q])
       /\ Holds(bytes, ends[q - 1], parts[q])

(* The recursion by which FlattenSeq puts pieces together.                 *)
Flattens(f, parts) ==
  /\ DOMAIN f = 1..Len(parts)
  /\ \A i \in 1..Len(parts) : f[i] = IF i = 1 THEN parts[1] ELSE f[i - 1] \o parts[i]

(* FlattenSeq computes the sequence that this recursion describes, whose   *)
(* values are all byte strings.                                            *)
LEMMA FlattenIs ==
  ASSUME NEW S, NEW parts \in Seq(Seq(S)), Len(parts) > 0
  PROVE  \E f \in [1..Len(parts) -> Seq(S)] :
           Flattens(f, parts) /\ FlattenSeq(parts) = f[Len(parts)]
<1> DEFINE n == Len(parts)
           step == [a \in (1..(n - 1)) \X Seq(S) |-> a[2] \o parts[a[1] + 1]]
<1>1. n \in Nat \ {0} /\ \A i \in 1..n : parts[i] \in Seq(S)
  OBVIOUS
<1>2. step \in [(1..(n - 1)) \X Seq(S) -> Seq(S)]
  BY <1>1
<1>3. \A i \in 1..(n - 1), s \in Seq(S) : step[<<i, s>>] = s \o parts[i + 1]
  OBVIOUS
<1> HIDE DEF step, n
<1>4. PICK g \in [0..(n - 1) -> Seq(S)] : Computes(g, n - 1, parts[1], step)
  <2>1. n - 1 \in Nat /\ parts[1] \in Seq(S)
    BY <1>1
  <2> QED
    BY <1>2, <2>1, Recursive
<1> DEFINE f == [i \in 1..n |-> g[i - 1]]
<1>5. f \in [1..n -> Seq(S)]
  BY <1>1, <1>4
<1>6. ASSUME NEW i \in 1..n
      PROVE  f[i] = IF i = 1 THEN parts[i] ELSE f[i - 1] \o parts[i]
  <2>1. CASE i = 1
    BY <1>4, <2>1 DEF Computes
  <2>2. CASE i # 1
    <3>1. i - 1 \in 1..(n - 1) /\ (i - 1) + 1 = i /\ (i - 1) - 1 \in 0..(n - 1)
          /\ i - 1 \in 1..n
      BY <1>1, <2>2
    <3>2. g[i - 1] = step[<<i - 1, g[(i - 1) - 1]>>]
      BY <1>4, <3>1 DEF Computes
    <3>3. step[<<i - 1, g[(i - 1) - 1]>>] = g[(i - 1) - 1] \o parts[(i - 1) + 1]
      BY <1>3, <1>4, <3>1
    <3>4. f[i - 1] = g[(i - 1) - 1] /\ f[i] = g[i - 1]
      BY <3>1
    <3> QED
      BY <2>2, <3>1, <3>2, <3>3, <3>4
  <2> QED
    BY <2>1, <2>2
<1> HIDE DEF f
<1> DEFINE Rec(h) == h = [i \in 1..n |-> IF i = 1 THEN parts[i] ELSE h[i - 1] \o parts[i]]
           flatten == CHOOSE h : Rec(h)
<1>7. Rec(f)
  BY <1>5, <1>6
<1>8. Rec(flatten)
  <2> HIDE DEF Rec
  <2> QED
    BY <1>7
<1>9. FlattenSeq(parts) = flatten[n]
  BY <1>1 DEF FlattenSeq, n
<1>10. \A i \in 1..n : flatten[i] = IF i = 1 THEN parts[i] ELSE flatten[i - 1] \o parts[i]
  <2> HIDE DEF flatten
  <2> QED
    BY <1>8
<1>11. DOMAIN flatten = 1..n
  <2> HIDE DEF flatten
  <2> QED
    BY <1>8
<1> HIDE DEF flatten, Rec
<1> DEFINE T == {i \in Nat : i \in 1..n => flatten[i] \in Seq(S)}
<1>12. \A i \in 0..n : i \in T
  <2>1. 0 \in T
    OBVIOUS
  <2>2. \A i \in 1..n : i - 1 \in T => i \in T
    <3> SUFFICES ASSUME NEW i \in 1..n, i - 1 \in T PROVE flatten[i] \in Seq(S)
      BY <1>1
    <3>1. CASE i = 1
      BY <1>1, <1>10, <3>1
    <3>2. CASE i # 1
      <4>1. i - 1 \in 1..n
        BY <1>1, <3>2
      <4>2. flatten[i - 1] \in Seq(S) /\ parts[i] \in Seq(S)
        BY <1>1, <4>1
      <4>3. flatten[i] = flatten[i - 1] \o parts[i]
        BY <1>10, <3>2
      <4> HIDE DEF flatten
      <4> QED
        BY <4>2, <4>3
    <3> QED
      BY <3>1, <3>2
  <2> HIDE DEF T
  <2> QED
    BY <1>1, <2>1, <2>2, InductiveUpTo
<1>13. \A i \in 1..n : flatten[i] \in Seq(S)
  BY <1>1, <1>12
<1>14. flatten \in [1..n -> Seq(S)]
  <2>1. flatten = [i \in 1..n |-> flatten[i]]
    BY <1>8 DEF Rec
  <2> QED
    BY <1>13, <2>1
<1>15. Flattens(flatten, parts)
  BY <1>10, <1>11 DEF Flattens, n
<1> QED
  BY <1>9, <1>14, <1>15 DEF n

(* Pieces found one after the other are found as one,                      *)
LEMMA LaidFlattens ==
  ASSUME NEW S, NEW bytes \in Seq(S), NEW at \in Nat, at <= Len(bytes),
         NEW parts \in Seq(Seq(S)), NEW ends, Laid(bytes, at, parts, Len(parts), ends)
  PROVE  /\ FlattenSeq(parts) \in Seq(S)
         /\ Holds(bytes, at, FlattenSeq(parts))
         /\ ends[Len(parts)] = at + Len(FlattenSeq(parts))
<1> DEFINE n == Len(parts)
<1>1. n \in Nat /\ (\A i \in 1..n : parts[i] \in Seq(S)) /\ Len(bytes) \in Nat
  OBVIOUS
<1>2. CASE n = 0
  <2>1. parts = << >> /\ FlattenSeq(parts) = parts
    BY <1>2 DEF FlattenSeq
  <2> DEFINE empty == << >>
  <2>2. empty \in Seq(S) /\ Len(empty) = 0
    OBVIOUS
  <2>3. ends[0] = at
    BY DEF Laid
  <2>4. FlattenSeq(parts) = empty /\ Len(parts) = 0
    BY <1>2, <2>1
  <2> HIDE DEF empty
  <2>5. Holds(bytes, at, empty)
    BY <1>1, <2>2 DEF Holds
  <2> QED
    BY <2>2, <2>3, <2>4, <2>5
<1>3. CASE n > 0
  <2>1. PICK f \in [1..n -> Seq(S)] : Flattens(f, parts) /\ FlattenSeq(parts) = f[n]
    BY <1>3, FlattenIs
  <2>2. ends[0] = at
        /\ \A q \in 1..n : /\ ends[q] = ends[q - 1] + Len(parts[q])
                           /\ Holds(bytes, ends[q - 1], parts[q])
    BY DEF Laid
  <2>3. \A i \in 1..n : f[i] = IF i = 1 THEN parts[1] ELSE f[i - 1] \o parts[i]
    BY <2>1 DEF Flattens
  <2> HIDE DEF n
  <2> DEFINE Good(i) == Holds(bytes, at, f[i]) /\ ends[i] = at + Len(f[i])
             T == {i \in Nat : i \in 1..n => Good(i)}
  <2>4. 0 \in T
    OBVIOUS
  <2>5. ASSUME NEW i \in 1..n, i - 1 \in T PROVE i \in T
    <3>1. CASE i = 1
      <4>1. f[1] = parts[1] /\ ends[1] = ends[0] + Len(parts[1]) /\ Holds(bytes, ends[0], parts[1])
        <5>1. 1 \in 1..n /\ 1 - 1 = 0
          BY <3>1
        <5> QED
          BY <2>2, <2>3, <5>1
      <4> QED
        BY <2>2, <3>1, <4>1
    <3>2. CASE i # 1
      <4>1. i - 1 \in 1..n /\ i - 1 \in 0..n /\ i \in 0..n
        BY <1>1, <3>2
      <4>2. Holds(bytes, at, f[i - 1]) /\ ends[i - 1] = at + Len(f[i - 1])
        BY <2>5, <4>1
      <4> HIDE DEF T, Good
      <4> DEFINE u == f[i - 1]
                 v == parts[i]
      <4>3. f[i] = u \o v /\ u \in Seq(S) /\ v \in Seq(S)
        BY <1>1, <2>3, <3>2, <4>1
      <4>4. ends[i] = ends[i - 1] + Len(v) /\ Holds(bytes, ends[i - 1], v)
        BY <2>2
      <4>5. Holds(bytes, at, u) /\ ends[i - 1] = at + Len(u)
        BY <4>2
      <4> HIDE DEF u, v
      <4>6. Len(u \o v) = Len(u) + Len(v) /\ Holds(bytes, at, u \o v)
        <5>1. Holds(bytes, at + Len(u), v)
          BY <4>4, <4>5
        <5> QED
          BY <4>3, <4>5, <5>1, HoldsJoined
      <4>7. Good(i)
        <5>1. Len(u) \in Nat /\ Len(v) \in Nat
          BY <4>3
        <5>2. Holds(bytes, at, f[i]) /\ Len(f[i]) = Len(u) + Len(v)
          BY <4>3, <4>6, Zenon
        <5> QED
          BY <4>4, <4>5, <5>1, <5>2 DEF Good
      <4> QED
        BY <4>7 DEF T
    <3> QED
      BY <3>1, <3>2
  <2>6. \A i \in 0..n : i \in T
    <3> HIDE DEF T
    <3> QED
      BY <1>1, <2>4, <2>5, InductiveUpTo
  <2>7. n \in 1..n
    BY <1>1, <1>3
  <2>8. Good(n)
    BY <1>1, <2>6, <2>7
  <2>9. f[n] \in Seq(S)
    BY <2>7
  <2> QED
    BY <2>1, <2>8, <2>9 DEF n
<1> QED
  BY <1>1, <1>2, <1>3

(* and what is found as one is found piece by piece.                       *)
LEMMA FlattenedLies ==
  ASSUME NEW S, NEW bytes \in Seq(S), NEW at \in Nat, NEW parts \in Seq(Seq(S)),
         Holds(bytes, at, FlattenSeq(parts))
  PROVE  \E ends : Laid(bytes, at, parts, Len(parts), ends)
<1> DEFINE n == Len(parts)
<1>1. n \in Nat /\ (\A i \in 1..n : parts[i] \in Seq(S)) /\ Len(bytes) \in Nat
  OBVIOUS
<1>2. CASE n = 0
  <2> DEFINE ends == [q \in 0..0 |-> at]
  <2>1. Laid(bytes, at, parts, n, ends)
    <3>1. ends \in [0..n -> Nat] /\ ends[0] = at /\ 1..n = {}
      BY <1>2
    <3> HIDE DEF n, ends
    <3> QED
      BY <3>1 DEF Laid
  <2> HIDE DEF ends
  <2> QED
    BY <2>1
<1>3. CASE n > 0
  <2>1. PICK f \in [1..n -> Seq(S)] : Flattens(f, parts) /\ FlattenSeq(parts) = f[n]
    BY <1>3, FlattenIs
  <2>2. \A i \in 1..n : f[i] = IF i = 1 THEN parts[1] ELSE f[i - 1] \o parts[i]
    BY <2>1 DEF Flattens
  <2> HIDE DEF n
  <2>3. ASSUME NEW i \in 2..n
        PROVE  f[i] = f[i - 1] \o parts[i] /\ f[i - 1] \in Seq(S) /\ parts[i] \in Seq(S)
    <3>1. i \in 1..n /\ i - 1 \in 1..n /\ i # 1
      BY <1>1
    <3> QED
      BY <1>1, <2>2, <3>1
  <2> DEFINE T == {j \in Nat : j \in 0..(n - 1) => Holds(bytes, at, f[n - j])}
  <2>4. 0 \in T
    <3>1. n - 0 = n
      BY <1>1
    <3>2. Holds(bytes, at, f[n])
      BY <2>1 DEF n
    <3> QED
      BY <3>1, <3>2
  <2>5. ASSUME NEW j \in 1..(n - 1), j - 1 \in T PROVE j \in T
    <3>1. n - (j - 1) \in 2..n /\ j - 1 \in 0..(n - 1) /\ n - j = (n - (j - 1)) - 1
      BY <1>1
    <3> DEFINE i == n - (j - 1)
    <3>2. Holds(bytes, at, f[i])
      BY <2>5, <3>1
    <3>3. i \in 2..n /\ n - j = i - 1
      BY <3>1
    <3> HIDE DEF i, T
    <3>4. f[i] = f[i - 1] \o parts[i] /\ f[i - 1] \in Seq(S) /\ parts[i] \in Seq(S)
      BY <2>3, <3>3
    <3>5. f[i - 1] \in Seq(S) /\ parts[i] \in Seq(S) /\ Holds(bytes, at, f[i - 1] \o parts[i])
      BY <3>2, <3>4
    <3>6. Holds(bytes, at, f[i - 1])
      BY <3>5, HoldsParts
    <3> QED
      BY <3>3, <3>6 DEF T
  <2>6. \A j \in 0..(n - 1) : j \in T
    <3> HIDE DEF T
    <3>1. n - 1 \in Nat
      BY <1>1, <1>3
    <3> QED
      BY <2>4, <2>5, <3>1, InductiveUpTo
  <2>7. ASSUME NEW i \in 1..n PROVE Holds(bytes, at, f[i])
    <3>1. n - i \in 0..(n - 1) /\ n - (n - i) = i
      BY <1>1
    <3>2. n - i \in T
      BY <2>6, <3>1
    <3> QED
      BY <3>1, <3>2
  <2> HIDE DEF T
  <2> DEFINE ends == [q \in 0..n |-> IF q = 0 THEN at ELSE at + Len(f[q])]
  <2>8. ends \in [0..n -> Nat] /\ ends[0] = at /\ \A q \in 1..n : ends[q] = at + Len(f[q])
    <3>1. \A q \in 1..n : Len(f[q]) \in Nat
      OBVIOUS
    <3> QED
      BY <3>1, <1>1, <1>3
  <2> HIDE DEF ends
  <2>9. ASSUME NEW q \in 1..n
        PROVE  ends[q] = ends[q - 1] + Len(parts[q]) /\ Holds(bytes, ends[q - 1], parts[q])
    <3>1. CASE q = 1
      <4>1. f[1] = parts[1] /\ ends[1] = at + Len(f[1]) /\ Holds(bytes, at, f[1])
        BY <2>2, <2>7, <2>8, <3>1
      <4> QED
        BY <2>8, <3>1, <4>1
    <3>2. CASE q # 1
      <4>1. q - 1 \in 1..n /\ q \in 2..n
        BY <1>1, <3>2
      <4> DEFINE u == f[q - 1]
                 v == parts[q]
      <4>2. f[q] = u \o v /\ u \in Seq(S) /\ v \in Seq(S)
        BY <2>3, <4>1
      <4>3. ends[q - 1] = at + Len(u) /\ ends[q] = at + Len(f[q])
        BY <2>8, <4>1
      <4>4. Holds(bytes, at, f[q])
        BY <2>7
      <4> HIDE DEF u, v
      <4>5. Holds(bytes, at + Len(u), v) /\ Len(f[q]) = Len(u) + Len(v)
        <5>1. Holds(bytes, at, u \o v)
          BY <4>2, <4>4
        <5> QED
          BY <4>2, <5>1, HoldsParts
      <4>6. Len(u) \in Nat /\ Len(v) \in Nat
        BY <4>2
      <4>7. ends[q] = ends[q - 1] + Len(v) /\ Holds(bytes, ends[q - 1], v)
        BY <4>3, <4>5, <4>6
      <4> QED
        BY <4>7 DEF v
    <3> QED
      BY <3>1, <3>2
  <2>10. Laid(bytes, at, parts, n, ends)
    BY <2>8, <2>9 DEF Laid
  <2> QED
    BY <2>10 DEF n
<1> QED
  BY <1>1, <1>2, <1>3

-----------------------------------------------------------------------------
(* The fields and what is put for them *)

ClaimKinds == {OwnerExit, VirtualCet}

DigitNames == {"header", "inputIndex", "context", "evidence", "pins"}
StringNames == {"vtxo", "anchor", "spend", "outcome"}
ListNames == {"prevouts", "payouts"}
FieldNames == {"kind"} \cup DigitNames \cup StringNames \cup ListNames

TxOut == [amount : Digit, script : Strings]

(* An envelope of which any part may have been read. *)
Raw ==
  [kind : {0} \cup ClaimKinds, header : Digit, vtxo : Strings,
   anchor : Strings, spend : Strings, inputIndex : Digit,
   prevouts : Seq(TxOut), context : Digit, evidence : Digit,
   outcome : Strings, payouts : Seq(TxOut), pins : Digit]

(* The limit a field is read with. *)
LimitOf(name) ==
  CASE name = "vtxo" -> MaxVtxo
    [] name = "outcome" -> MaxOutcome
    [] name = "prevouts" -> MaxPrevouts
    [] name = "payouts" -> MaxPayouts
    [] name \in {"anchor", "spend"} -> MaxTransaction
    [] OTHER -> 0

(* How many fields an envelope has, which one is where, *)
FieldCount(kind) == IF kind = OwnerExit THEN 12 ELSE 14

NameAt(kind, q) ==
  CASE q = 1 -> "magic" [] q = 2 -> "version" [] q = 3 -> "kind"
    [] q = 4 -> "header" [] q = 5 -> "vtxo" [] q = 6 -> "anchor"
    [] q = 7 -> "spend" [] q = 8 -> "inputIndex" [] q = 9 -> "prevouts"
    [] q = 10 -> "context" [] q = 11 -> "evidence"
    [] q = 12 -> (IF kind = OwnerExit THEN "pins" ELSE "outcome")
    [] q = 13 -> "payouts" [] OTHER -> "pins"

(* and the way back; an owner exit never gets to an outcome or payouts.    *)
Place(kind, name) ==
  CASE name = "kind" -> 3 [] name = "header" -> 4 [] name = "vtxo" -> 5
    [] name = "anchor" -> 6 [] name = "spend" -> 7
    [] name = "inputIndex" -> 8 [] name = "prevouts" -> 9
    [] name = "context" -> 10 [] name = "evidence" -> 11
    [] name = "outcome" -> (IF kind = OwnerExit THEN 15 ELSE 12)
    [] name = "payouts" -> (IF kind = OwnerExit THEN 15 ELSE 13)
    [] OTHER -> (IF kind = OwnerExit THEN 12 ELSE 14)

(* How a field is read and with which tag or limit. *)
FormOf(name) ==
  CASE name \in {"magic", "version"} -> "tag"
    [] name = "kind" -> "kind"
    [] name \in DigitNames -> "digit"
    [] name \in StringNames -> "bytes"
    [] OTHER -> "count"

MaxOf(name) ==
  CASE name = "magic" -> Magic [] name = "version" -> Version [] OTHER -> LimitOf(name)

FieldAt(kind, q) == Field(FormOf(NameAt(kind, q)), NameAt(kind, q), MaxOf(NameAt(kind, q)))

FieldSet ==
  [form : {"tag", "kind", "digit", "bytes", "count", "item"},
   name : {"magic", "version"} \cup FieldNames, max : Nat]

(* How each kind of field is read, and with which limit. *)
LEMMA Forms ==
  /\ \A name \in {"magic", "version"} : FormOf(name) = "tag"
  /\ FormOf("kind") = "kind"
  /\ \A name \in DigitNames : FormOf(name) = "digit"
  /\ \A name \in StringNames : FormOf(name) = "bytes"
  /\ \A name \in ListNames : FormOf(name) = "count"
  /\ \A name \in FieldNames : MaxOf(name) = LimitOf(name) /\ LimitOf(name) \in Nat
  /\ \A name \in DigitNames \cup {"kind"} : LimitOf(name) = 0
<1>1. FormOf("magic") = "tag" /\ FormOf("version") = "tag" /\ FormOf("kind") = "kind"
  BY DEF FormOf, DigitNames, StringNames
<1>2. \A name \in DigitNames : FormOf(name) = "digit"
  BY DEF FormOf, DigitNames, StringNames
<1>3. \A name \in StringNames : FormOf(name) = "bytes"
  BY DEF FormOf, DigitNames, StringNames
<1>4. \A name \in ListNames : FormOf(name) = "count"
  BY DEF FormOf, DigitNames, StringNames, ListNames
<1>5. \A name \in FieldNames : MaxOf(name) = LimitOf(name)
  BY DEF MaxOf, FieldNames, DigitNames, StringNames, ListNames
<1>6. \A name \in FieldNames : LimitOf(name) \in Nat
  BY LimitFacts DEF LimitOf, FieldNames, DigitNames, StringNames, ListNames
<1>7. \A name \in DigitNames \cup {"kind"} : LimitOf(name) = 0
  BY DEF LimitOf, DigitNames
<1> QED
  BY <1>1, <1>2, <1>3, <1>4, <1>5, <1>6, <1>7

(* What the field at a place is: the two tags, the kind, then digits,      *)
(* strings and lists.                                                      *)
LEMMA FieldsTyped ==
  ASSUME NEW kind, NEW q \in 1..14
  PROVE  /\ FieldAt(kind, q) \in FieldSet
         /\ FieldAt(kind, q).name = NameAt(kind, q)
         /\ q > 3 => NameAt(kind, q) \in FieldNames \ {"kind"}
         /\ q = 3 => NameAt(kind, q) = "kind"
         /\ FieldAt(kind, q).form = "tag" <=> q < 3
         /\ FieldAt(kind, q).form = "kind" <=> q = 3
         /\ FieldAt(kind, q).form = "digit" <=> NameAt(kind, q) \in DigitNames
         /\ FieldAt(kind, q).form = "bytes" <=> NameAt(kind, q) \in StringNames
         /\ FieldAt(kind, q).form = "count" <=> NameAt(kind, q) \in ListNames
         /\ FieldAt(kind, q).form # "item"
         /\ q > 2 => FieldAt(kind, q).max = LimitOf(NameAt(kind, q))
<1> DEFINE name == NameAt(kind, q)
<1>1. FieldAt(kind, q) = [form |-> FormOf(name), name |-> name, max |-> MaxOf(name)]
  BY DEF FieldAt, Field
<1>2. q = 1 \/ q = 2 \/ q = 3 \/ q = 4 \/ q = 5 \/ q = 6 \/ q = 7 \/ q = 8
      \/ q = 9 \/ q = 10 \/ q = 11 \/ q = 12 \/ q = 13 \/ q = 14
  OBVIOUS
<1>3. /\ q = 1 => name = "magic"
      /\ q = 2 => name = "version"
      /\ q = 3 => name = "kind"
      /\ q > 3 => name \in DigitNames \cup StringNames \cup ListNames
  BY <1>2 DEF NameAt, DigitNames, StringNames, ListNames
<1>4. /\ MaxOf("magic") \in Nat /\ MaxOf("version") \in Nat
      /\ \A other \in FieldNames : MaxOf(other) = LimitOf(other) /\ LimitOf(other) \in Nat
  BY Forms DEF MaxOf, Magic, Version
<1> HIDE DEF name
<1>5. /\ \A other \in DigitNames : other \notin StringNames \cup ListNames \cup {"magic", "version", "kind"}
      /\ \A other \in StringNames : other \notin DigitNames \cup ListNames \cup {"magic", "version", "kind"}
      /\ \A other \in ListNames : other \notin DigitNames \cup StringNames \cup {"magic", "version", "kind"}
  BY DEF DigitNames, StringNames, ListNames
<1>6. FieldNames = {"kind"} \cup DigitNames \cup StringNames \cup ListNames
  BY DEF FieldNames
<1>7. name \in {"magic", "version"} \cup FieldNames /\ MaxOf(name) \in Nat
  <2>1. q = 1 \/ q = 2 \/ q = 3 \/ q > 3
    OBVIOUS
  <2>2. CASE q > 3
    BY <1>3, <1>4, <1>6, <2>2
  <2> QED
    BY <1>3, <1>4, <1>6, <2>1, <2>2
<1>8. q > 2 => name \in FieldNames /\ MaxOf(name) = LimitOf(name)
  <2>1. q > 2 => name \in FieldNames
    <3>1. q > 2 => q = 3 \/ q > 3
      OBVIOUS
    <3> QED
      BY <1>3, <1>6, <3>1
  <2> QED
    BY <1>4, <2>1
<1>9. CASE q < 3
  <2>1. name \in {"magic", "version"} /\ FormOf(name) = "tag"
    BY <1>2, <1>3, <1>9, Forms
  <2> QED
    BY <1>1, <1>5, <1>7, <1>9, <2>1 DEF FieldSet, name
<1>10. CASE q = 3
  <2>1. name = "kind" /\ FormOf(name) = "kind"
    BY <1>3, <1>10, Forms
  <2> QED
    BY <1>1, <1>5, <1>7, <1>8, <1>10, <2>1 DEF FieldSet, name
<1>11. CASE q > 3 /\ name \in DigitNames
  <2>1. FormOf(name) = "digit" /\ name \notin StringNames \cup ListNames \cup {"kind"}
    BY <1>5, <1>11, Forms
  <2>2. q > 3 /\ q # 3 /\ ~(q < 3) /\ q > 2
    BY <1>11
  <2>3. name \in FieldNames \ {"kind"} /\ MaxOf(name) = LimitOf(name)
    BY <1>8, <2>1, <2>2
  <2>4. FieldAt(kind, q) \in FieldSet
    BY <1>1, <1>7, <2>1 DEF FieldSet
  <2> QED
    BY <1>1, <1>11, <2>1, <2>2, <2>3, <2>4 DEF name
<1>12. CASE q > 3 /\ name \in StringNames
  <2>1. FormOf(name) = "bytes" /\ name \notin DigitNames \cup ListNames \cup {"kind"}
    BY <1>5, <1>12, Forms
  <2>2. q > 3 /\ q # 3 /\ ~(q < 3) /\ q > 2
    BY <1>12
  <2>3. name \in FieldNames \ {"kind"} /\ MaxOf(name) = LimitOf(name)
    BY <1>8, <2>1, <2>2
  <2>4. FieldAt(kind, q) \in FieldSet
    BY <1>1, <1>7, <2>1 DEF FieldSet
  <2> QED
    BY <1>1, <1>12, <2>1, <2>2, <2>3, <2>4 DEF name
<1>13. CASE q > 3 /\ name \in ListNames
  <2>1. FormOf(name) = "count" /\ name \notin DigitNames \cup StringNames \cup {"kind"}
    BY <1>5, <1>13, Forms
  <2>2. q > 3 /\ q # 3 /\ ~(q < 3) /\ q > 2
    BY <1>13
  <2>3. name \in FieldNames \ {"kind"} /\ MaxOf(name) = LimitOf(name)
    BY <1>8, <2>1, <2>2
  <2>4. FieldAt(kind, q) \in FieldSet
    BY <1>1, <1>7, <2>1 DEF FieldSet
  <2> QED
    BY <1>1, <1>13, <2>1, <2>2, <2>3, <2>4 DEF name
<1> QED
  BY <1>2, <1>3, <1>9, <1>10, <1>11, <1>12, <1>13

(* Each field has its own name. *)
LEMMA PlacesMatch ==
  ASSUME NEW kind
  PROVE  /\ \A q \in 3..FieldCount(kind) : Place(kind, NameAt(kind, q)) = q
         /\ \A name \in FieldNames :
              /\ Place(kind, name) \in 3..15
              /\ Place(kind, name) = 3 <=> name = "kind"
              /\ Place(kind, name) > FieldCount(kind)
                   <=> kind = OwnerExit /\ name \in {"outcome", "payouts"}
              /\ Place(kind, name) <= FieldCount(kind)
                   => NameAt(kind, Place(kind, name)) = name
<1>1. ASSUME NEW q \in 3..FieldCount(kind) PROVE Place(kind, NameAt(kind, q)) = q
  <2>1. q = 3 \/ q = 4 \/ q = 5 \/ q = 6 \/ q = 7 \/ q = 8
        \/ q = 9 \/ q = 10 \/ q = 11 \/ q = 12
        \/ (q = 13 /\ kind # OwnerExit) \/ (q = 14 /\ kind # OwnerExit)
    BY DEF FieldCount
  <2> QED
    BY <2>1 DEF Place, NameAt
<1>2. ASSUME NEW name \in FieldNames
      PROVE  /\ Place(kind, name) \in 3..15
             /\ Place(kind, name) = 3 <=> name = "kind"
             /\ Place(kind, name) > FieldCount(kind)
                  <=> kind = OwnerExit /\ name \in {"outcome", "payouts"}
             /\ Place(kind, name) <= FieldCount(kind)
                  => NameAt(kind, Place(kind, name)) = name
  <2>1. name \in {"kind", "header", "vtxo", "anchor", "spend", "inputIndex",
                  "prevouts", "context", "evidence", "outcome", "payouts", "pins"}
    BY DEF FieldNames, DigitNames, StringNames, ListNames
  <2>2. /\ name = "kind" => Place(kind, name) = 3 /\ NameAt(kind, 3) = name
        /\ name = "header" => Place(kind, name) = 4 /\ NameAt(kind, 4) = name
        /\ name = "vtxo" => Place(kind, name) = 5 /\ NameAt(kind, 5) = name
        /\ name = "anchor" => Place(kind, name) = 6 /\ NameAt(kind, 6) = name
        /\ name = "spend" => Place(kind, name) = 7 /\ NameAt(kind, 7) = name
        /\ name = "inputIndex" => Place(kind, name) = 8 /\ NameAt(kind, 8) = name
        /\ name = "prevouts" => Place(kind, name) = 9 /\ NameAt(kind, 9) = name
        /\ name = "context" => Place(kind, name) = 10 /\ NameAt(kind, 10) = name
        /\ name = "evidence" => Place(kind, name) = 11 /\ NameAt(kind, 11) = name
    BY DEF Place, NameAt
  <2>3. CASE kind = OwnerExit
    <3>1. /\ name \in {"outcome", "payouts"} => Place(kind, name) = 15
          /\ name = "pins" => Place(kind, name) = 12 /\ NameAt(kind, 12) = name
          /\ FieldCount(kind) = 12
      BY <2>3 DEF Place, NameAt, FieldCount
    <3> QED
      BY <2>1, <2>2, <2>3, <3>1
  <2>4. CASE kind # OwnerExit
    <3>1. /\ name = "outcome" => Place(kind, name) = 12 /\ NameAt(kind, 12) = name
          /\ name = "payouts" => Place(kind, name) = 13 /\ NameAt(kind, 13) = name
          /\ name = "pins" => Place(kind, name) = 14 /\ NameAt(kind, 14) = name
          /\ FieldCount(kind) = 14
      BY <2>4 DEF Place, NameAt, FieldCount
    <3> QED
      BY <2>1, <2>2, <2>4, <3>1
  <2> QED
    BY <2>3, <2>4
<1> QED
  BY <1>1, <1>2

(* The lists of fields the reader starts with and goes on with. *)
LEMMA PreambleIs ==
  ASSUME NEW kind
  PROVE  /\ Preamble \in Seq(FieldSet) /\ Len(Preamble) = 3
         /\ \A i \in 1..3 : Preamble[i] = FieldAt(kind, i)
<1>1. Len(Preamble) = 3
  BY DEF Preamble
<1>2. \A i \in 1..3 : Preamble[i] = FieldAt(kind, i)
  <2>1. /\ Preamble[1] = Field("tag", "magic", Magic)
        /\ Preamble[2] = Field("tag", "version", Version)
        /\ Preamble[3] = Field("kind", "kind", 0)
    BY DEF Preamble
  <2>2. NameAt(kind, 1) = "magic" /\ NameAt(kind, 2) = "version" /\ NameAt(kind, 3) = "kind"
    BY DEF NameAt
  <2>3. MaxOf("magic") = Magic /\ MaxOf("version") = Version
    BY DEF MaxOf
  <2>4. MaxOf("kind") = 0
    BY Forms DEF FieldNames
  <2>5. /\ FieldAt(kind, 1) = Preamble[1] /\ FieldAt(kind, 2) = Preamble[2]
        /\ FieldAt(kind, 3) = Preamble[3]
    BY <2>1, <2>2, <2>3, <2>4, Forms DEF FieldAt
  <2> QED
    BY <2>5
<1>3. \A i \in 1..3 : FieldAt(kind, i) \in FieldSet
  BY FieldsTyped
<1>4. Preamble \in Seq({Preamble[1], Preamble[2], Preamble[3]})
  BY DEF Preamble
<1>5. {Preamble[1], Preamble[2], Preamble[3]} \subseteq FieldSet
  BY <1>2, <1>3
<1> QED
  BY <1>1, <1>2, <1>4, <1>5

(* Two sequences put together, *)
LEMMA Joins ==
  ASSUME NEW S, NEW s \in Seq(S), NEW t \in Seq(S)
  PROVE  /\ s \o t \in Seq(S) /\ Len(s \o t) = Len(s) + Len(t)
         /\ \A i \in 1..Len(s) : (s \o t)[i] = s[i]
         /\ \A i \in 1..Len(t) : (s \o t)[Len(s) + i] = t[i]
  OBVIOUS

(* and the fields after the kind, one by one.                              *)
LEMMA FieldIs ==
  ASSUME NEW kind
  PROVE  /\ FieldAt(kind, 4) = Field("digit", "header", 0)
         /\ FieldAt(kind, 5) = Field("bytes", "vtxo", MaxVtxo)
         /\ FieldAt(kind, 6) = Field("bytes", "anchor", MaxTransaction)
         /\ FieldAt(kind, 7) = Field("bytes", "spend", MaxTransaction)
         /\ FieldAt(kind, 8) = Field("digit", "inputIndex", 0)
         /\ FieldAt(kind, 9) = Field("count", "prevouts", MaxPrevouts)
         /\ FieldAt(kind, 10) = Field("digit", "context", 0)
         /\ FieldAt(kind, 11) = Field("digit", "evidence", 0)
         /\ kind = OwnerExit => FieldAt(kind, 12) = Field("digit", "pins", 0)
         /\ kind # OwnerExit => /\ FieldAt(kind, 12) = Field("bytes", "outcome", MaxOutcome)
                                /\ FieldAt(kind, 13) = Field("count", "payouts", MaxPayouts)
                                /\ FieldAt(kind, 14) = Field("digit", "pins", 0)
<1>1. /\ NameAt(kind, 4) = "header" /\ NameAt(kind, 5) = "vtxo" /\ NameAt(kind, 6) = "anchor"
      /\ NameAt(kind, 7) = "spend" /\ NameAt(kind, 8) = "inputIndex"
      /\ NameAt(kind, 9) = "prevouts" /\ NameAt(kind, 10) = "context"
      /\ NameAt(kind, 11) = "evidence"
  BY DEF NameAt
<1>2. kind = OwnerExit => NameAt(kind, 12) = "pins"
  BY DEF NameAt
<1>3. kind # OwnerExit => /\ NameAt(kind, 12) = "outcome" /\ NameAt(kind, 13) = "payouts"
                          /\ NameAt(kind, 14) = "pins"
  BY DEF NameAt
<1>4. ASSUME NEW q, NameAt(kind, q) \in DigitNames
      PROVE  FieldAt(kind, q) = Field("digit", NameAt(kind, q), 0)
  BY <1>4, Forms DEF FieldAt, FieldNames
<1>5. ASSUME NEW q, NameAt(kind, q) \in StringNames
      PROVE  FieldAt(kind, q) = Field("bytes", NameAt(kind, q), LimitOf(NameAt(kind, q)))
  BY <1>5, Forms DEF FieldAt, FieldNames
<1>6. ASSUME NEW q, NameAt(kind, q) \in ListNames
      PROVE  FieldAt(kind, q) = Field("count", NameAt(kind, q), LimitOf(NameAt(kind, q)))
  BY <1>6, Forms DEF FieldAt, FieldNames
<1>7. {"header", "inputIndex", "context", "evidence", "pins"} \subseteq DigitNames
  BY DEF DigitNames
<1>8. {"vtxo", "anchor", "spend", "outcome"} \subseteq StringNames
  BY DEF StringNames
<1>9. {"prevouts", "payouts"} \subseteq ListNames
  BY DEF ListNames
<1>10. /\ LimitOf("vtxo") = MaxVtxo /\ LimitOf("anchor") = MaxTransaction
       /\ LimitOf("spend") = MaxTransaction /\ LimitOf("outcome") = MaxOutcome
       /\ LimitOf("prevouts") = MaxPrevouts /\ LimitOf("payouts") = MaxPayouts
  BY DEF LimitOf
<1> QED
  BY <1>1, <1>2, <1>3, <1>4, <1>5, <1>6, <1>7, <1>8, <1>9, <1>10

(* The fields every claim has after its kind, *)
LEMMA BodyIs ==
  ASSUME NEW kind
  PROVE  /\ Body \in Seq(FieldSet) /\ Len(Body) = 8
         /\ \A i \in 1..8 : Body[i] = FieldAt(kind, i + 3)
<1>1. Len(Body) = 8
  BY DEF Body
<1>2. Body \in Seq({Body[1], Body[2], Body[3], Body[4], Body[5], Body[6], Body[7], Body[8]})
  BY DEF Body
<1>3. ASSUME NEW i \in 1..8 PROVE Body[i] = FieldAt(kind, i + 3)
  <2>1. /\ Body[1] = Field("digit", "header", 0)
        /\ Body[2] = Field("bytes", "vtxo", MaxVtxo)
        /\ Body[3] = Field("bytes", "anchor", MaxTransaction)
        /\ Body[4] = Field("bytes", "spend", MaxTransaction)
        /\ Body[5] = Field("digit", "inputIndex", 0)
        /\ Body[6] = Field("count", "prevouts", MaxPrevouts)
        /\ Body[7] = Field("digit", "context", 0)
        /\ Body[8] = Field("digit", "evidence", 0)
    BY DEF Body
  <2>2. \/ (i = 1 /\ i + 3 = 4) \/ (i = 2 /\ i + 3 = 5) \/ (i = 3 /\ i + 3 = 6)
        \/ (i = 4 /\ i + 3 = 7) \/ (i = 5 /\ i + 3 = 8) \/ (i = 6 /\ i + 3 = 9)
        \/ (i = 7 /\ i + 3 = 10) \/ (i = 8 /\ i + 3 = 11)
    OBVIOUS
  <2> QED
    BY <2>1, <2>2, FieldIs, ZenonT(40)
<1>4. \A q \in 1..14 : FieldAt(kind, q) \in FieldSet
  BY FieldsTyped
<1>5. {Body[1], Body[2], Body[3], Body[4], Body[5], Body[6], Body[7], Body[8]} \subseteq FieldSet
  BY <1>3, <1>4
<1> QED
  BY <1>1, <1>2, <1>3, <1>5

(* and those of a claim of a given kind. *)
LEMMA LayoutIs ==
  ASSUME NEW kind
  PROVE  /\ Layout(kind) \in Seq(FieldSet)
         /\ Len(Layout(kind)) = FieldCount(kind) - 3
         /\ \A i \in 1..(FieldCount(kind) - 3) : Layout(kind)[i] = FieldAt(kind, i + 3)
<1> DEFINE C == IF kind = OwnerExit THEN <<Field("digit", "pins", 0)>>
                ELSE <<Field("bytes", "outcome", MaxOutcome),
                       Field("count", "payouts", MaxPayouts), Field("digit", "pins", 0)>>
           c == FieldCount(kind) - 11
<1>1. /\ Body \in Seq(FieldSet) /\ Len(Body) = 8
      /\ \A i \in 1..8 : Body[i] = FieldAt(kind, i + 3)
  BY BodyIs
<1>2. \A q \in 1..14 : FieldAt(kind, q) \in FieldSet
  BY FieldsTyped
<1>3. c \in 1..3 /\ FieldCount(kind) - 3 = 8 + c /\ FieldCount(kind) = 11 + c
  BY DEF FieldCount
<1>4. Len(C) = c /\ \A i \in 1..c : C[i] = FieldAt(kind, 11 + i)
  <2>1. CASE kind = OwnerExit
    <3>1. C = <<FieldAt(kind, 12)>> /\ c = 1
      BY <2>1, FieldIs DEF FieldCount
    <3> QED
      BY <3>1
  <2>2. CASE kind # OwnerExit
    <3>1. C = <<FieldAt(kind, 12), FieldAt(kind, 13), FieldAt(kind, 14)>> /\ c = 3
      BY <2>2, FieldIs DEF FieldCount
    <3> HIDE DEF C
    <3>2. Len(C) = 3 /\ C[1] = FieldAt(kind, 12) /\ C[2] = FieldAt(kind, 13)
          /\ C[3] = FieldAt(kind, 14)
      BY <3>1
    <3>3. ASSUME NEW i \in 1..3 PROVE C[i] = FieldAt(kind, 11 + i)
      <4>1. (i = 1 /\ 11 + i = 12) \/ (i = 2 /\ 11 + i = 13) \/ (i = 3 /\ 11 + i = 14)
        OBVIOUS
      <4> QED
        BY <3>2, <4>1
    <3> QED
      BY <3>1, <3>2, <3>3
  <2> QED
    BY <2>1, <2>2
<1>5. C \in Seq(FieldSet)
  <2>1. CASE kind = OwnerExit
    <3>1. C = <<FieldAt(kind, 12)>> /\ FieldAt(kind, 12) \in FieldSet
      BY <1>2, <2>1, FieldIs
    <3> QED
      BY <3>1
  <2>2. CASE kind # OwnerExit
    <3>1. /\ C = <<FieldAt(kind, 12), FieldAt(kind, 13), FieldAt(kind, 14)>>
          /\ FieldAt(kind, 12) \in FieldSet /\ FieldAt(kind, 13) \in FieldSet
          /\ FieldAt(kind, 14) \in FieldSet
      BY <1>2, <2>2, FieldIs
    <3> QED
      BY <3>1
  <2> QED
    BY <2>1, <2>2
<1>6. Layout(kind) = Body \o C
  <2>1. CASE kind = OwnerExit
    <3>1. Layout(kind) = Append(Body, Field("digit", "pins", 0))
      BY <2>1 DEF Layout
    <3>2. Field("digit", "pins", 0) \in FieldSet
      BY <1>2, <2>1, FieldIs
    <3>3. Append(Body, Field("digit", "pins", 0)) = Body \o <<Field("digit", "pins", 0)>>
      BY <1>1, <3>2, AppendIsConcat
    <3> QED
      BY <2>1, <3>1, <3>3
  <2>2. CASE kind # OwnerExit
    BY <2>2 DEF Layout
  <2> QED
    BY <2>1, <2>2
<1> HIDE DEF C, c
<1>7. /\ Body \o C \in Seq(FieldSet) /\ Len(Body \o C) = 8 + c
      /\ \A i \in 1..8 : (Body \o C)[i] = Body[i]
      /\ \A i \in 1..c : (Body \o C)[8 + i] = C[i]
  <2>1. /\ Body \o C \in Seq(FieldSet) /\ Len(Body \o C) = Len(Body) + Len(C)
        /\ \A i \in 1..Len(Body) : (Body \o C)[i] = Body[i]
        /\ \A i \in 1..Len(C) : (Body \o C)[Len(Body) + i] = C[i]
    <3>1. Body \in Seq(FieldSet) /\ C \in Seq(FieldSet)
      BY <1>1, <1>5
    <3> QED
      BY <3>1, Joins
  <2>2. Len(Body) = 8 /\ Len(C) = c
    BY <1>1, <1>4
  <2> QED
    BY <2>1, <2>2, Zenon
<1>8. ASSUME NEW i \in 1..(8 + c) PROVE (Body \o C)[i] = FieldAt(kind, i + 3)
  <2>1. CASE i <= 8
    <3>1. i \in 1..8
      BY <1>3, <2>1
    <3> QED
      BY <1>1, <1>7, <3>1, Zenon
  <2>2. CASE i > 8
    <3> DEFINE j == i - 8
    <3>1. j \in 1..c /\ i = 8 + j /\ i + 3 = 11 + j
      BY <1>3, <2>2
    <3> HIDE DEF j
    <3> QED
      BY <1>4, <1>7, <3>1
  <2>3. i <= 8 \/ i > 8
    BY <1>3
  <2> QED
    BY <2>1, <2>2, <2>3, Zenon
<1> QED
  BY <1>3, <1>6, <1>7, <1>8

(* What is put for a field. *)
Piece(field, env) ==
  CASE field.form = "tag" -> <<field.max>>
    [] field.form \in {"kind", "digit"} -> <<env[field.name]>>
    [] field.form = "bytes" -> PutBytes(env[field.name])
    [] OTHER -> PutItems(env[field.name])

ItemPieces(items) == [i \in DOMAIN items |-> PutItem(items[i])]

(* What is put for one field after another, as a list. *)
Pieces(env) == [q \in 1..FieldCount(env.kind) |-> Piece(FieldAt(env.kind, q), env)]

(* Bytes are numbers, as lengths are. *)
LEMMA StringsAreBytes == Strings \subseteq Seq(Nat)
<1> SUFFICES ASSUME NEW s \in Seq(Digit) PROVE s \in Seq(Nat)
  BY DEF Strings
<1>1. \A i \in 1..Len(s) : s[i] \in Nat
  <2>1. Digit \subseteq Nat
    BY LimitFacts
  <2>2. \A i \in 1..Len(s) : s[i] \in Digit
    OBVIOUS
  <2> QED
    BY <2>1, <2>2, Zenon
<1> QED
  BY <1>1

(* The values of an envelope's fields. *)
LEMMA RawFields ==
  ASSUME NEW env \in Raw
  PROVE  /\ env.kind \in {0} \cup ClaimKinds
         /\ \A name \in DigitNames : env[name] \in Digit
         /\ \A name \in StringNames : env[name] \in Strings
         /\ \A name \in ListNames : env[name] \in Seq(TxOut)
  BY DEF Raw, DigitNames, StringNames, ListNames

(* A value that can be written into a field, and what it leaves.           *)
Suits(name, value) ==
  /\ name = "kind" => value \in ClaimKinds
  /\ name \in DigitNames => value \in Digit
  /\ name \in StringNames => value \in Strings /\ Len(value) <= LimitOf(name)
  /\ name \in ListNames =>
       value \in Seq(TxOut) /\ Len(value) <= LimitOf(name) /\ ScriptsWithin(value)

(* The envelope with one field written; two envelopes equal in the others. *)
With(env, name, value) == [env EXCEPT ![name] = value]

SameBut(new, env, name) == \A other \in FieldNames \ {name} : new[other] = env[other]

(* Writing a value that suits a field changes that field only. *)
LEMMA SetField ==
  ASSUME NEW env \in Raw, NEW name \in FieldNames, NEW value, Suits(name, value),
         NEW new, new = With(env, name, value)
  PROVE  /\ new \in Raw /\ new[name] = value /\ SameBut(new, env, name)
         /\ name # "kind" => new.kind = env.kind
<1>1. DOMAIN env = FieldNames
  BY DEF Raw, FieldNames, DigitNames, StringNames, ListNames
<1>2. new[name] = value /\ SameBut(new, env, name)
  BY <1>1 DEF SameBut, With
<1>3. new = [n \in FieldNames |-> IF n = name THEN value ELSE env[n]]
  BY <1>1 DEF With
<1>4. new \in Raw
  <2>1. name = "kind" \/ name \in DigitNames \/ name \in StringNames \/ name \in ListNames
    BY DEF FieldNames
  <2>2. CASE name = "kind"
    BY <2>2 DEF Raw, Suits, With
  <2>3. CASE name \in DigitNames
    BY <2>3 DEF Raw, DigitNames, Suits, With
  <2>4. CASE name \in StringNames
    BY <2>4 DEF Raw, StringNames, Suits, With
  <2>5. CASE name \in ListNames
    BY <2>5 DEF Raw, ListNames, Suits, With
  <2> QED
    BY <2>1, <2>2, <2>3, <2>4, <2>5
<1>5. name # "kind" => new.kind = env.kind
  BY <1>2 DEF FieldNames, SameBut
<1> QED
  BY <1>2, <1>4, <1>5

(* What is put for the items of a list, one by one: an amount, a length    *)
(* and a script each.                                                      *)
LEMMA ItemPiecesTyped ==
  ASSUME NEW items \in Seq(TxOut)
  PROVE  /\ ItemPieces(items) \in Seq(Seq(Nat)) /\ Len(ItemPieces(items)) = Len(items)
         /\ \A i \in 1..Len(items) :
              /\ ItemPieces(items)[i] = <<items[i].amount>> \o PutBytes(items[i].script)
              /\ Len(ItemPieces(items)[i]) = 2 + Len(items[i].script)
<1>1. ASSUME NEW i \in 1..Len(items)
      PROVE  PutItem(items[i]) \in Seq(Nat) /\ Len(PutItem(items[i])) = 2 + Len(items[i].script)
  <2> DEFINE a == items[i].amount
             s == items[i].script
  <2>1. a \in Nat /\ s \in Seq(Nat)
    <3>1. items[i] \in TxOut
      OBVIOUS
    <3>2. a \in Digit /\ s \in Strings /\ Digit \subseteq Nat
      BY <3>1, LimitFacts DEF TxOut
    <3> QED
      BY <3>2, StringsAreBytes
  <2> HIDE DEF a, s
  <2>2. <<a>> \in Seq(Nat) /\ Len(<<a>>) = 1 /\ <<Len(s)>> \in Seq(Nat) /\ Len(<<Len(s)>>) = 1
        /\ Len(s) \in Nat
    BY <2>1
  <2>3. PutBytes(s) \in Seq(Nat) /\ Len(PutBytes(s)) = 1 + Len(s)
    BY <2>1, <2>2 DEF PutBytes
  <2>4. <<a>> \o PutBytes(s) \in Seq(Nat) /\ Len(<<a>> \o PutBytes(s)) = 1 + (1 + Len(s))
    BY <2>2, <2>3
  <2> QED
    BY <2>2, <2>4 DEF PutItem, a, s
<1>2. DOMAIN items = 1..Len(items) /\ Len(items) \in Nat
  OBVIOUS
<1>3. ItemPieces(items) = [i \in 1..Len(items) |-> PutItem(items[i])]
  BY <1>2 DEF ItemPieces
<1> QED
  BY <1>1, <1>2, <1>3 DEF PutItem

(* A string takes its length prefix and its bytes. *)
LEMMA PutBytesTyped ==
  ASSUME NEW s \in Seq(Nat)
  PROVE  PutBytes(s) \in Seq(Nat) /\ Len(PutBytes(s)) = 1 + Len(s)
<1>1. <<Len(s)>> \in Seq(Nat) /\ Len(<<Len(s)>>) = 1 /\ Len(s) \in Nat
  OBVIOUS
<1> QED
  BY <1>1 DEF PutBytes

(* A list of pieces put together is a string of bytes. *)
LEMMA FlattenTyped ==
  ASSUME NEW S, NEW parts \in Seq(Seq(S))
  PROVE  FlattenSeq(parts) \in Seq(S)
<1>1. CASE Len(parts) = 0
  BY <1>1 DEF FlattenSeq
<1>2. CASE Len(parts) > 0
  <2>1. PICK f \in [1..Len(parts) -> Seq(S)] :
          Flattens(f, parts) /\ FlattenSeq(parts) = f[Len(parts)]
    BY <1>2, FlattenIs
  <2>2. Len(parts) \in 1..Len(parts)
    BY <1>2
  <2> QED
    BY <2>1, <2>2
<1> QED
  BY <1>1, <1>2

(* A list takes its count and its items. *)
LEMMA PutItemsTyped ==
  ASSUME NEW items \in Seq(TxOut)
  PROVE  /\ PutItems(items) = <<Len(items)>> \o FlattenSeq(ItemPieces(items))
         /\ PutItems(items) \in Seq(Nat)
         /\ FlattenSeq(ItemPieces(items)) \in Seq(Nat)
         /\ Len(PutItems(items)) = 1 + Len(FlattenSeq(ItemPieces(items)))
<1>1. PutItems(items) = <<Len(items)>> \o FlattenSeq(ItemPieces(items))
  BY DEF PutItems, ItemPieces
<1>2. FlattenSeq(ItemPieces(items)) \in Seq(Nat)
  <2>1. ItemPieces(items) \in Seq(Seq(Nat))
    BY ItemPiecesTyped
  <2> QED
    BY <2>1, FlattenTyped
<1> DEFINE f == FlattenSeq(ItemPieces(items))
<1> HIDE DEF f
<1>3. <<Len(items)>> \in Seq(Nat) /\ Len(<<Len(items)>>) = 1
  OBVIOUS
<1>4. f \in Seq(Nat)
  BY <1>2 DEF f
<1>5. <<Len(items)>> \o f \in Seq(Nat) /\ Len(<<Len(items)>> \o f) = 1 + Len(f)
  BY <1>3, <1>4
<1> QED
  BY <1>1, <1>2, <1>5 DEF f

(* What is put for any field is a string of numbers. *)
LEMMA PieceTyped ==
  ASSUME NEW env \in Raw, NEW q \in 1..14
  PROVE  Piece(FieldAt(env.kind, q), env) \in Seq(Nat)
<1> DEFINE field == FieldAt(env.kind, q)
           name == NameAt(env.kind, q)
<1>1. field.name = name /\ field \in FieldSet
  BY FieldsTyped
<1>2. \/ q < 3 /\ field.form = "tag"
      \/ q = 3 /\ field.form = "kind" /\ name = "kind"
      \/ field.form = "digit" /\ name \in DigitNames
      \/ field.form = "bytes" /\ name \in StringNames
      \/ field.form = "count" /\ name \in ListNames
  <2>1. q > 3 => name \in DigitNames \cup StringNames \cup ListNames
    BY FieldsTyped DEF FieldNames
  <2> QED
    BY <2>1, FieldsTyped
<1> HIDE DEF field, name
<1>3. Digit \subseteq Nat /\ {0} \cup ClaimKinds \subseteq Nat
  BY LimitFacts DEF ClaimKinds, OwnerExit, VirtualCet
<1>4. CASE field.form = "tag"
  <2>1. field.max \in Nat
    BY <1>1 DEF FieldSet
  <2> QED
    BY <1>4, <2>1 DEF Piece, field
<1>5. CASE field.form = "kind" /\ name = "kind"
  <2>1. env[field.name] \in Nat
    BY <1>1, <1>3, <1>5, RawFields
  <2> QED
    BY <1>5, <2>1 DEF Piece, field
<1>6. CASE field.form = "digit" /\ name \in DigitNames
  <2>1. env[field.name] \in Nat
    BY <1>1, <1>3, <1>6, RawFields
  <2> QED
    BY <1>6, <2>1 DEF Piece, field
<1>7. CASE field.form = "bytes" /\ name \in StringNames
  <2>1. env[field.name] \in Strings
    BY <1>1, <1>7, RawFields
  <2>2. env[field.name] \in Seq(Nat)
    BY <2>1, StringsAreBytes
  <2>3. PutBytes(env[field.name]) \in Seq(Nat)
    BY <2>2, PutBytesTyped
  <2> QED
    BY <1>7, <2>3 DEF Piece, field
<1>8. CASE field.form = "count" /\ name \in ListNames
  <2>1. env[field.name] \in Seq(TxOut)
    BY <1>1, <1>8, RawFields
  <2>2. PutItems(env[field.name]) \in Seq(Nat)
    BY <2>1, PutItemsTyped
  <2> QED
    BY <1>8, <2>2 DEF Piece, field
<1> QED
  BY <1>2, <1>4, <1>5, <1>6, <1>7, <1>8
(* The encoding is what is put for one field after another. *)
LEMMA PartsArePieces ==
  ASSUME NEW env \in Raw
  PROVE  Parts(env) = Pieces(env) /\ Pieces(env) \in Seq(Seq(Nat))
         /\ Len(Pieces(env)) = FieldCount(env.kind)
<1> DEFINE k == env.kind
           n == FieldCount(k)
           P(q) == Piece(FieldAt(k, q), env)
           H == << <<Magic>>, <<Version>>, <<env.kind>>, <<env.header>>, PutBytes(env.vtxo),
                   PutBytes(env.anchor), PutBytes(env.spend), <<env.inputIndex>>,
                   PutItems(env.prevouts), <<env.context>> >>
           E == EncodeEvidence(env)
           L == << <<env.pins>> >>
<1>1. n \in {12, 14} /\ \A q \in 1..14 : P(q) \in Seq(Nat)
  BY PieceTyped DEF FieldCount
<1>2. Parts(env) = (H \o E) \o L
  BY DEF Parts
<1>3. /\ P(1) = <<Magic>> /\ P(2) = <<Version>> /\ P(3) = <<env.kind>>
      /\ P(4) = <<env.header>> /\ P(5) = PutBytes(env.vtxo) /\ P(6) = PutBytes(env.anchor)
      /\ P(7) = PutBytes(env.spend) /\ P(8) = <<env.inputIndex>>
      /\ P(9) = PutItems(env.prevouts) /\ P(10) = <<env.context>>
      /\ P(11) = <<env.evidence>>
  <2>1. /\ FieldAt(k, 1) = Field("tag", "magic", Magic)
        /\ FieldAt(k, 2) = Field("tag", "version", Version)
        /\ FieldAt(k, 3) = Field("kind", "kind", 0)
    BY PreambleIs DEF Preamble
  <2> HIDE DEF k
  <2>2. P(1) = <<Magic>> /\ P(2) = <<Version>> /\ P(3) = <<env.kind>>
    BY <2>1 DEF Piece, Field
  <2>3. /\ P(4) = <<env.header>> /\ P(8) = <<env.inputIndex>> /\ P(10) = <<env.context>>
        /\ P(11) = <<env.evidence>>
    BY FieldIs DEF Piece, Field
  <2>4. P(5) = PutBytes(env.vtxo) /\ P(6) = PutBytes(env.anchor) /\ P(7) = PutBytes(env.spend)
    BY FieldIs DEF Piece, Field
  <2>5. P(9) = PutItems(env.prevouts)
    BY FieldIs DEF Piece, Field
  <2> QED
    BY <2>2, <2>3, <2>4, <2>5
<1>4. /\ k = OwnerExit => P(12) = <<env.pins>>
      /\ k # OwnerExit => /\ P(12) = PutBytes(env.outcome) /\ P(13) = PutItems(env.payouts)
                          /\ P(14) = <<env.pins>>
  BY FieldIs DEF Piece, Field
<1>5. H = <<P(1), P(2), P(3), P(4), P(5), P(6), P(7), P(8), P(9), P(10)>>
  BY <1>3
<1>6. H \in Seq(Seq(Nat)) /\ Len(H) = 10 /\ \A i \in 1..10 : H[i] = P(i)
  <2> HIDE DEF H, P
  <2>1. /\ Len(H) = 10 /\ H[1] = P(1) /\ H[2] = P(2) /\ H[3] = P(3) /\ H[4] = P(4)
        /\ H[5] = P(5) /\ H[6] = P(6) /\ H[7] = P(7) /\ H[8] = P(8) /\ H[9] = P(9)
        /\ H[10] = P(10) /\ H \in Seq({P(q) : q \in 1..10})
    BY <1>5
  <2>2. {P(q) : q \in 1..10} \subseteq Seq(Nat)
    <3>1. \A q \in 1..10 : P(q) \in Seq(Nat)
      <4>1. \A q \in 1..10 : q \in 1..14
        OBVIOUS
      <4> QED
        BY <1>1, <4>1, Zenon
    <3> QED
      BY <3>1, Zenon
  <2>3. H \in Seq(Seq(Nat))
    BY <2>1, <2>2
  <2>4. ASSUME NEW i \in 1..10 PROVE H[i] = P(i)
    <3>1. i = 1 \/ i = 2 \/ i = 3 \/ i = 4 \/ i = 5 \/ i = 6 \/ i = 7 \/ i = 8
          \/ i = 9 \/ i = 10
      OBVIOUS
    <3> QED
      BY <2>1, <3>1, Zenon
  <2> QED
    BY <2>1, <2>3, <2>4
<1>7. E \in Seq(Seq(Nat)) /\ Len(E) = n - 11 /\ \A i \in 1..(n - 11) : E[i] = P(10 + i)
  <2>1. CASE k = OwnerExit
    <3>1. E = <<P(11)>> /\ n = 12 /\ P(11) \in Seq(Nat)
      BY <1>1, <1>3, <2>1 DEF EncodeEvidence, FieldCount
    <3> HIDE DEF E, P, n
    <3>2. E \in Seq(Seq(Nat)) /\ Len(E) = 1 /\ E[1] = P(11)
      BY <3>1
    <3> QED
      BY <3>1, <3>2
  <2>2. CASE k # OwnerExit
    <3>1. E = <<P(11), P(12), P(13)>> /\ n = 14 /\ P(11) \in Seq(Nat) /\ P(12) \in Seq(Nat)
          /\ P(13) \in Seq(Nat)
      <4>1. E = << <<env.evidence>>, PutBytes(env.outcome), PutItems(env.payouts)>>
        BY <2>2 DEF EncodeEvidence
      <4>2. n = 14
        BY <2>2 DEF FieldCount
      <4>3. 11 \in 1..14 /\ 12 \in 1..14 /\ 13 \in 1..14
        OBVIOUS
      <4> HIDE DEF E, P, n, k
      <4>4. P(11) = <<env.evidence>> /\ P(12) = PutBytes(env.outcome)
            /\ P(13) = PutItems(env.payouts)
        BY <1>3, <1>4, <2>2
      <4>5. P(11) \in Seq(Nat) /\ P(12) \in Seq(Nat) /\ P(13) \in Seq(Nat)
        BY <1>1, <4>3, Zenon
      <4> QED
        BY <4>1, <4>2, <4>4, <4>5
    <3> HIDE DEF E, P, n
    <3>2. E \in Seq(Seq(Nat)) /\ Len(E) = 3 /\ E[1] = P(11) /\ E[2] = P(12) /\ E[3] = P(13)
      BY <3>1
    <3>3. ASSUME NEW i \in 1..3 PROVE E[i] = P(10 + i)
      <4>1. (i = 1 /\ 10 + i = 11) \/ (i = 2 /\ 10 + i = 12) \/ (i = 3 /\ 10 + i = 13)
        OBVIOUS
      <4> QED
        BY <3>2, <4>1
    <3> QED
      BY <3>1, <3>2, <3>3
  <2> QED
    BY <2>1, <2>2
<1>8. L \in Seq(Seq(Nat)) /\ Len(L) = 1 /\ L[1] = P(n)
  <2>1. P(n) = <<env.pins>> /\ P(n) \in Seq(Nat)
    <3>1. n \in 1..14 /\ (k = OwnerExit => n = 12) /\ (k # OwnerExit => n = 14)
      BY DEF FieldCount
    <3> HIDE DEF P, n, k
    <3> QED
      BY <1>1, <1>4, <3>1
  <2> HIDE DEF P, n
  <2> QED
    BY <2>1
<1> HIDE DEF H, E, L, P, n
<1>9. /\ H \o E \in Seq(Seq(Nat)) /\ Len(H \o E) = n - 1
      /\ \A i \in 1..(n - 1) : (H \o E)[i] = P(i)
  <2>1. /\ H \o E \in Seq(Seq(Nat)) /\ Len(H \o E) = Len(H) + Len(E)
        /\ \A i \in 1..Len(H) : (H \o E)[i] = H[i]
        /\ \A i \in 1..Len(E) : (H \o E)[Len(H) + i] = E[i]
    <3>1. H \in Seq(Seq(Nat)) /\ E \in Seq(Seq(Nat))
      BY <1>6, <1>7
    <3> QED
      BY <3>1, Joins
  <2> DEFINE HE == H \o E
  <2> HIDE DEF HE
  <2>2. /\ HE \in Seq(Seq(Nat)) /\ Len(HE) = 10 + (n - 11)
        /\ \A i \in 1..10 : HE[i] = P(i)
        /\ \A i \in 1..(n - 11) : HE[10 + i] = P(10 + i)
    <3>1. Len(H) = 10 /\ Len(E) = n - 11
      BY <1>6, <1>7
    <3>2. HE \in Seq(Seq(Nat)) /\ Len(HE) = 10 + (n - 11)
      BY <2>1, <3>1, Zenon DEF HE
    <3>3. \A i \in 1..10 : HE[i] = P(i)
      BY <1>6, <2>1, <3>1, Zenon DEF HE
    <3>4. \A i \in 1..(n - 11) : HE[10 + i] = P(10 + i)
      BY <1>7, <2>1, <3>1, Zenon DEF HE
    <3> QED
      BY <3>2, <3>3, <3>4
  <2>3. ASSUME NEW i \in 1..(n - 1) PROVE HE[i] = P(i)
    <3>1. CASE i <= 10
      <4>1. i \in 1..10
        BY <1>1, <3>1
      <4> QED
        BY <2>2, <4>1, Zenon
    <3>2. CASE i > 10
      <4> DEFINE j == i - 10
      <4>1. j \in 1..(n - 11) /\ i = 10 + j
        BY <1>1, <3>2
      <4> HIDE DEF j
      <4> QED
        BY <2>2, <4>1
    <3>3. i <= 10 \/ i > 10
      BY <1>1
    <3> QED
      BY <3>1, <3>2, <3>3
  <2>4. 10 + (n - 11) = n - 1
    BY <1>1
  <2> QED
    BY <2>2, <2>3, <2>4, Zenon DEF HE
<1> DEFINE HE == H \o E
           W == HE \o L
<1>10. HE \in Seq(Seq(Nat)) /\ Len(HE) = n - 1 /\ \A i \in 1..(n - 1) : HE[i] = P(i)
  BY <1>9
<1> HIDE DEF HE
<1>11. /\ W \in Seq(Seq(Nat)) /\ Len(W) = Len(HE) + Len(L)
       /\ \A i \in 1..Len(HE) : W[i] = HE[i]
       /\ \A i \in 1..Len(L) : W[Len(HE) + i] = L[i]
  <2>1. HE \in Seq(Seq(Nat)) /\ L \in Seq(Seq(Nat))
    BY <1>8, <1>10
  <2> QED
    BY <2>1, Joins
<1>12. W = Parts(env)
  BY <1>2 DEF HE
<1> HIDE DEF W
<1>13. Len(HE) = n - 1 /\ Len(L) = 1 /\ n - 1 + 1 = n /\ n \in 12..14
  BY <1>1, <1>8, <1>10
<1>14. Len(W) = n
  BY <1>11, <1>13
<1>15. ASSUME NEW i \in 1..n PROVE W[i] = P(i)
  <2>1. CASE i = n
    <3>1. W[(n - 1) + 1] = L[1]
      <4>1. 1 \in 1..Len(L)
        BY <1>13
      <4> QED
        BY <1>11, <1>13, <4>1
    <3> QED
      BY <1>8, <1>13, <2>1, <3>1
  <2>2. CASE i # n
    <3>1. i \in 1..(n - 1)
      BY <1>13, <2>2
    <3> QED
      BY <1>10, <1>11, <1>13, <3>1
  <2> QED
    BY <2>1, <2>2
<1>16. W = [i \in 1..n |-> P(i)]
  <2>1. W \in Seq(Seq(Nat)) /\ Len(W) = n
    BY <1>11, <1>14
  <2>2. DOMAIN W = 1..n /\ W = [i \in DOMAIN W |-> W[i]]
    BY <2>1
  <2> QED
    BY <1>15, <2>2
<1>17. Pieces(env) = [i \in 1..n |-> P(i)]
  BY DEF Pieces, n, P
<1> QED
  BY <1>11, <1>12, <1>14, <1>16, <1>17 DEF n

-----------------------------------------------------------------------------
(* Pieces found one after another *)

(* The first k pieces are found one after the other from at to o,          *)
LaidTo(bytes, at, parts, k, o) ==
  \E ends : Laid(bytes, at, parts, k, ends) /\ o = ends[k]

(* or all of them, with the end of the first k at o.                       *)
LaidPast(bytes, at, parts, k, o) ==
  \E ends : Laid(bytes, at, parts, Len(parts), ends) /\ o = ends[k]

(* The first k pieces are the same. *)
SameTo(parts, old, k) == \A q \in 1..k : parts[q] = old[q]

(* The pieces found stay inside the bytes they are found in. *)
LEMMA LaidEnds ==
  ASSUME NEW S, NEW in \in Seq(S), NEW at \in Nat, at <= Len(in), NEW parts \in Seq(Seq(S)),
         NEW k \in 0..Len(parts), NEW ends, Laid(in, at, parts, k, ends)
  PROVE  ends[k] \in Nat /\ ends[k] <= Len(in)
<1>1. k \in Nat /\ ends \in [0..k -> Nat]
  BY DEF Laid
<1>2. CASE k = 0
  BY <1>1, <1>2 DEF Laid
<1>3. CASE k # 0
  <2>1. k \in 1..k /\ k - 1 \in 0..k
    BY <1>1, <1>3
  <2>2. ends[k] = ends[k - 1] + Len(parts[k]) /\ Holds(in, ends[k - 1], parts[k])
    BY <2>1 DEF Laid
  <2> QED
    BY <1>1, <2>1, <2>2 DEF Holds
<1> QED
  BY <1>2, <1>3

(* What LaidTo means, without naming all the ends: where it starts,        *)
LEMMA LaidStart ==
  ASSUME NEW bytes, NEW at \in Nat, NEW parts
  PROVE  LaidTo(bytes, at, parts, 0, at)
<1> DEFINE ends == [q \in 0..0 |-> at]
<1>1. Laid(bytes, at, parts, 0, ends) /\ at = ends[0]
  BY DEF Laid
<1> HIDE DEF ends
<1> QED
  BY <1>1 DEF LaidTo

(* that it stays inside,                                                   *)
LEMMA LaidInside ==
  ASSUME NEW S, NEW in \in Seq(S), NEW at \in Nat, at <= Len(in), NEW parts \in Seq(Seq(S)),
         NEW k \in 0..Len(parts), NEW o, LaidTo(in, at, parts, k, o)
  PROVE  o \in Nat /\ o <= Len(in)
<1>1. PICK ends : Laid(in, at, parts, k, ends) /\ o = ends[k]
  BY DEF LaidTo
<1> QED
  BY <1>1, LaidEnds

(* how it goes on,                                                         *)
LEMMA LaidFurther ==
  ASSUME NEW S, NEW in \in Seq(S), NEW at \in Nat, NEW old, NEW parts, NEW k \in Nat,
         NEW o, LaidTo(in, at, old, k, o), SameTo(parts, old, k),
         parts[k + 1] \in Seq(S), Holds(in, o, parts[k + 1])
  PROVE  LaidTo(in, at, parts, k + 1, o + Len(parts[k + 1]))
<1>1. PICK ends : Laid(in, at, old, k, ends) /\ o = ends[k]
  BY DEF LaidTo
<1>2. (\A q \in 1..k : parts[q] = old[q]) /\ Holds(in, ends[k], parts[k + 1])
  BY <1>1 DEF SameTo
<1> DEFINE next == ends[k] + Len(parts[k + 1])
           new == [q \in 0..(k + 1) |-> IF q = k + 1 THEN next ELSE ends[q]]
<1>3. ends \in [0..k -> Nat] /\ ends[0] = at
  BY <1>1 DEF Laid
<1>4. Len(parts[k + 1]) \in Nat /\ ends[k] \in Nat
  BY <1>3
<1>5. next \in Nat
  BY <1>4
<1> HIDE DEF next
<1>6. new \in [0..(k + 1) -> Nat] /\ new[k + 1] = next /\ \A q \in 0..k : new[q] = ends[q]
  BY <1>3, <1>5
<1> HIDE DEF new
<1>7. ASSUME NEW q \in 1..(k + 1)
      PROVE  new[q] = new[q - 1] + Len(parts[q]) /\ Holds(in, new[q - 1], parts[q])
  <2>1. CASE q = k + 1
    <3>1. q - 1 = k /\ k \in 0..k
      BY <2>1
    <3>2. new[q - 1] = ends[k] /\ new[q] = next
      BY <1>6, <2>1, <3>1
    <3> QED
      BY <1>2, <2>1, <3>2 DEF next
  <2>2. CASE q # k + 1
    <3>1. q \in 1..k /\ q \in 0..k /\ q - 1 \in 0..k
      BY <2>2
    <3>2. /\ ends[q] = ends[q - 1] + Len(old[q]) /\ Holds(in, ends[q - 1], old[q])
          /\ parts[q] = old[q]
      BY <1>1, <1>2, <3>1 DEF Laid
    <3>3. new[q] = ends[q] /\ new[q - 1] = ends[q - 1]
      BY <1>6, <3>1
    <3> QED
      BY <3>2, <3>3
  <2> QED
    BY <2>1, <2>2
<1>8. 0 \in 0..k /\ new[0] = at
  BY <1>3, <1>6
<1>9. Laid(in, at, parts, k + 1, new)
  BY <1>6, <1>7, <1>8 DEF Laid
<1> QED
  BY <1>1, <1>6, <1>9 DEF next, LaidTo

(* that only the pieces matter,                                            *)
LEMMA LaidSame ==
  ASSUME NEW in, NEW at, NEW old, NEW parts, NEW k \in Nat, NEW o,
         LaidTo(in, at, old, k, o), SameTo(parts, old, k)
  PROVE  LaidTo(in, at, parts, k, o)
<1>1. PICK ends : Laid(in, at, old, k, ends) /\ o = ends[k]
  BY DEF LaidTo
<1>2. \A q \in 1..k : parts[q] = old[q]
  BY DEF SameTo
<1>3. Laid(in, at, parts, k, ends)
  BY <1>1, <1>2 DEF Laid
<1> QED
  BY <1>1, <1>3 DEF LaidTo

(* and where it ends.                                                      *)
LEMMA LaidOut ==
  ASSUME NEW S, NEW in \in Seq(S), NEW at \in Nat, at <= Len(in), NEW parts \in Seq(Seq(S)),
         NEW o, LaidTo(in, at, parts, Len(parts), o)
  PROVE  /\ FlattenSeq(parts) \in Seq(S)
         /\ Holds(in, at, FlattenSeq(parts))
         /\ o = at + Len(FlattenSeq(parts))
<1>1. PICK ends : Laid(in, at, parts, Len(parts), ends) /\ o = ends[Len(parts)]
  BY DEF LaidTo
<1> QED
  BY <1>1, LaidFlattens

(* The same for all the pieces: where they start,                          *)
LEMMA PastStart ==
  ASSUME NEW S, NEW in \in Seq(S), NEW at \in Nat, NEW parts \in Seq(Seq(S)),
         Holds(in, at, FlattenSeq(parts))
  PROVE  LaidPast(in, at, parts, 0, at)
<1>1. PICK ends : Laid(in, at, parts, Len(parts), ends)
  BY FlattenedLies
<1>2. ends[0] = at
  BY <1>1 DEF Laid
<1> QED
  BY <1>1, <1>2 DEF LaidPast

(* and that the next one is there.                                         *)
LEMMA PastNext ==
  ASSUME NEW in, NEW at, NEW parts, Len(parts) \in Nat, NEW k \in 0..(Len(parts) - 1), NEW o,
         LaidPast(in, at, parts, k, o)
  PROVE  /\ Holds(in, o, parts[k + 1])
         /\ LaidPast(in, at, parts, k + 1, o + Len(parts[k + 1]))
<1>1. PICK ends : Laid(in, at, parts, Len(parts), ends) /\ o = ends[k]
  BY DEF LaidPast
<1>2. k + 1 \in 1..Len(parts) /\ (k + 1) - 1 = k
  OBVIOUS
<1>3. /\ ends[k + 1] = ends[(k + 1) - 1] + Len(parts[k + 1])
      /\ Holds(in, ends[(k + 1) - 1], parts[k + 1])
  BY <1>1, <1>2 DEF Laid
<1>4. ends[k + 1] = o + Len(parts[k + 1]) /\ Holds(in, o, parts[k + 1])
  BY <1>1, <1>2, <1>3
<1> QED
  BY <1>1, <1>4 DEF LaidPast

(* The end of all of them.                                                 *)
LEMMA PastOut ==
  ASSUME NEW S, NEW in \in Seq(S), NEW at \in Nat, at <= Len(in), NEW parts \in Seq(Seq(S)),
         NEW o, LaidPast(in, at, parts, Len(parts), o)
  PROVE  o = at + Len(FlattenSeq(parts))
<1>1. PICK ends : Laid(in, at, parts, Len(parts), ends) /\ o = ends[Len(parts)]
  BY DEF LaidPast
<1> QED
  BY <1>1, LaidFlattens

(* An owner exit has twelve fields, a virtual CET fourteen. *)
LEMMA KindCount ==
  ASSUME NEW kind
  PROVE  FieldCount(kind) \in {12, 14} /\ FieldCount(kind) \in 1..14
  BY DEF FieldCount

(* Writing a field that is not read yet changes no piece put so far. *)
LEMMA KeepsPieces ==
  ASSUME NEW env \in Raw, NEW new \in Raw, new.kind = env.kind,
         NEW k \in 0..FieldCount(env.kind), NEW name,
         SameBut(new, env, name),
         \A q \in 3..k : NameAt(env.kind, q) # name
  PROVE  SameTo(Pieces(new), Pieces(env), k)
<1> SUFFICES ASSUME NEW q \in 1..k PROVE Pieces(new)[q] = Pieces(env)[q]
  BY DEF SameTo
<1>1. FieldCount(env.kind) \in 1..14 /\ q \in 1..14 /\ q \in 1..FieldCount(env.kind)
  BY KindCount
<1>2. /\ Pieces(new)[q] = Piece(FieldAt(env.kind, q), new)
      /\ Pieces(env)[q] = Piece(FieldAt(env.kind, q), env)
  BY <1>1 DEF Pieces
<1>3. CASE q < 3
  <2>1. FieldAt(env.kind, q).form = "tag"
    BY <1>1, <1>3, FieldsTyped
  <2> QED
    BY <1>2, <2>1 DEF Piece
<1>4. CASE q >= 3
  <2>1. NameAt(env.kind, q) \in FieldNames \ {name}
    <3>1. NameAt(env.kind, q) \in FieldNames
      BY <1>1, <1>4, FieldsTyped DEF FieldNames
    <3>2. NameAt(env.kind, q) # name
      BY <1>4
    <3> QED
      BY <3>1, <3>2
  <2>2. FieldAt(env.kind, q).name = NameAt(env.kind, q)
    BY <1>1, FieldsTyped
  <2>3. new[FieldAt(env.kind, q).name] = env[FieldAt(env.kind, q).name]
    BY <2>1, <2>2 DEF SameBut
  <2> QED
    BY <1>2, <2>3 DEF Piece
<1> QED
  BY <1>3, <1>4

(* A field within its limit keeps the envelope within them. *)
LEMMA KeepsLimits ==
  ASSUME NEW env \in Raw, NEW new \in Raw, new.kind = env.kind,
         NEW name \in FieldNames, ValidateLimits(env),
         SameBut(new, env, name), Suits(name, new[name])
  PROVE  ValidateLimits(new)
<1>1. /\ LimitOf("vtxo") = MaxVtxo /\ LimitOf("anchor") = MaxTransaction
      /\ LimitOf("spend") = MaxTransaction /\ LimitOf("outcome") = MaxOutcome
      /\ LimitOf("prevouts") = MaxPrevouts /\ LimitOf("payouts") = MaxPayouts
  BY DEF LimitOf
<1>2. /\ {"vtxo", "anchor", "spend", "outcome"} = StringNames
      /\ {"prevouts", "payouts"} = ListNames
      /\ StringNames \cup ListNames \subseteq FieldNames
  BY DEF StringNames, ListNames, FieldNames
<1>3. /\ Len(env.vtxo) <= MaxVtxo /\ Len(env.anchor) <= MaxTransaction
      /\ Len(env.spend) <= MaxTransaction
      /\ Len(env.prevouts) <= MaxPrevouts /\ ScriptsWithin(env.prevouts)
      /\ env.kind = VirtualCet =>
           /\ Len(env.outcome) <= MaxOutcome
           /\ Len(env.payouts) <= MaxPayouts /\ ScriptsWithin(env.payouts)
  BY DEF ValidateLimits
<1>4. Len(new["vtxo"]) <= MaxVtxo
  BY <1>1, <1>2, <1>3 DEF SameBut, Suits
<1>5. Len(new["anchor"]) <= MaxTransaction
  BY <1>1, <1>2, <1>3 DEF SameBut, Suits
<1>6. Len(new["spend"]) <= MaxTransaction
  BY <1>1, <1>2, <1>3 DEF SameBut, Suits
<1>7. Len(new["prevouts"]) <= MaxPrevouts /\ ScriptsWithin(new["prevouts"])
  BY <1>1, <1>2, <1>3 DEF SameBut, Suits
<1>8. ASSUME env.kind = VirtualCet
      PROVE  /\ Len(new["outcome"]) <= MaxOutcome
             /\ Len(new["payouts"]) <= MaxPayouts /\ ScriptsWithin(new["payouts"])
  BY <1>1, <1>2, <1>3, <1>8 DEF SameBut, Suits
<1> QED
  BY <1>4, <1>5, <1>6, <1>7, <1>8 DEF ValidateLimits

-----------------------------------------------------------------------------
(* How far the reader is *)

(* What was read into the first k fields is what the input has up to o. *)
Held(in, o, env, k) ==
  /\ env \in Raw
  /\ k \in 0..FieldCount(env.kind)
  /\ k < 3 <=> env.kind = 0
  /\ ValidateLimits(env)
  /\ LaidTo(in, 0, Pieces(env), k, o)

(* The fields after the first k are still blank. *)
Unread(env, k) ==
  \A name \in FieldNames : Place(env.kind, name) > k => env[name] = Blank[name]

(* How many fields are known to come.                                      *)
Known(kind, k) == IF k < 3 THEN 3 ELSE FieldCount(kind)

(* Left to read are m items of a list and the known fields after the first *)
(* k.                                                                      *)
Remains(td, m, name, k, kind) ==
  /\ td \in Seq(FieldSet)
  /\ Len(td) = m + (Known(kind, k) - k)
  /\ \A i \in 1..m : td[i] = Field("item", name, MaxScript)
  /\ \A i \in (m + 1)..Len(td) : td[i] = FieldAt(kind, k + (i - m))

(* The reader is between two fields,                                       *)
AtField(in, o, td, env, k) ==
  /\ Held(in, o, env, k)
  /\ Unread(env, k)
  /\ Remains(td, 0, "", k, env.kind)

(* or in the list that is the next one, which starts after start, with m   *)
(* items to go.                                                            *)
InList(in, o, td, env, k, m, start) ==
  LET name == NameAt(env.kind, k + 1) IN
  /\ Held(in, start, env, k)
  /\ k \in 3..(FieldCount(env.kind) - 1)
  /\ name \in ListNames
  /\ Unread(env, k + 1)
  /\ m \in Nat
  /\ Len(env[name]) + m <= LimitOf(name)
  /\ start < Len(in)
  /\ in[start + 1] = Len(env[name]) + m
  /\ LaidTo(in, start + 1, ItemPieces(env[name]), Len(env[name]), o)
  /\ Remains(td, m, name, k + 1, env.kind)

(* What is held was inside the input. *)
LEMMA HeldInside ==
  ASSUME NEW in \in Seq(Nat), NEW o, NEW env, NEW k, Held(in, o, env, k)
  PROVE  o \in Nat /\ o <= Len(in) /\ k \in Nat /\ k <= FieldCount(env.kind)
<1> DEFINE parts == Pieces(env)
<1>1. parts \in Seq(Seq(Nat)) /\ k \in 0..Len(parts) /\ LaidTo(in, 0, parts, k, o)
  BY PartsArePieces DEF Held
<1>2. 0 \in Nat /\ 0 <= Len(in)
  OBVIOUS
<1> HIDE DEF parts
<1>3. o \in Nat /\ o <= Len(in)
  BY <1>1, <1>2, LaidInside
<1> QED
  BY <1>3, KindCount DEF Held

(* One field more. *)
LEMMA HeldNext ==
  ASSUME NEW in \in Seq(Nat), NEW o, NEW env, NEW k, Held(in, o, env, k),
         NEW new \in Raw, k + 1 <= FieldCount(new.kind), k + 1 < 3 <=> new.kind = 0,
         ValidateLimits(new), SameTo(Pieces(new), Pieces(env), k),
         Holds(in, o, Pieces(new)[k + 1])
  PROVE  Held(in, o + Len(Pieces(new)[k + 1]), new, k + 1)
<1> DEFINE old == Pieces(env)
           parts == Pieces(new)
<1>1. k \in Nat /\ k + 1 \in 0..FieldCount(new.kind) /\ k + 1 \in 1..Len(parts)
  BY HeldInside, KindCount, PartsArePieces
<1>2. parts \in Seq(Seq(Nat)) /\ 0 \in Nat
  BY PartsArePieces
<1>3. LaidTo(in, 0, old, k, o) /\ SameTo(parts, old, k) /\ Holds(in, o, parts[k + 1])
  BY DEF Held
<1> HIDE DEF old, parts
<1>4. parts[k + 1] \in Seq(Nat)
  BY <1>1, <1>2
<1>5. LaidTo(in, 0, parts, k + 1, o + Len(parts[k + 1]))
  BY <1>1, <1>2, <1>3, <1>4, LaidFurther
<1> QED
  BY <1>1, <1>5 DEF Held, parts

(* What is not among the first k fields may change. *)
LEMMA HeldSame ==
  ASSUME NEW in, NEW o, NEW env, NEW k, Held(in, o, env, k),
         NEW new \in Raw, new.kind = env.kind, ValidateLimits(new),
         SameTo(Pieces(new), Pieces(env), k)
  PROVE  Held(in, o, new, k)
<1> DEFINE old == Pieces(env)
           parts == Pieces(new)
<1>1. k \in Nat
  BY KindCount DEF Held
<1>2. LaidTo(in, 0, old, k, o) /\ SameTo(parts, old, k)
  BY DEF Held
<1> HIDE DEF old, parts
<1>3. LaidTo(in, 0, parts, k, o)
  BY <1>1, <1>2, LaidSame
<1> QED
  BY <1>3 DEF Held, parts

-----------------------------------------------------------------------------
(* What is left to read *)

(* How many fields are known to come changes with the kind only. *)
LEMMA KnownCount ==
  ASSUME NEW kind, NEW k \in 0..FieldCount(kind)
  PROVE  /\ Known(kind, k) \in 3..14 /\ k <= Known(kind, k)
         /\ k = Known(kind, k) <=> k = FieldCount(kind)
         /\ k # 2 /\ k < FieldCount(kind) => Known(kind, k + 1) = Known(kind, k)
  BY KindCount DEF Known

(* When nothing is left, every field and every item was read. *)
LEMMA NothingLeft ==
  ASSUME NEW td, NEW m \in Nat, NEW name, NEW kind, NEW k \in 0..FieldCount(kind),
         Remains(td, m, name, k, kind), td = << >>
  PROVE  m = 0 /\ k = FieldCount(kind)
<1>1. Len(td) = 0 /\ Len(td) = m + (Known(kind, k) - k)
  BY DEF Remains
<1>2. Known(kind, k) \in 3..14 /\ k <= Known(kind, k) /\ k \in Int
  BY KnownCount, KindCount
<1>3. m = 0 /\ k = Known(kind, k)
  BY <1>1, <1>2, SMTT(30)
<1> QED
  BY <1>3, KnownCount

(* With items to go the next one is first, and one fewer is left after it; *)
LEMMA ItemLeft ==
  ASSUME NEW td, NEW m \in Nat \ {0}, NEW name, NEW kind, NEW k \in 0..FieldCount(kind),
         Remains(td, m, name, k, kind)
  PROVE  /\ td # << >>
         /\ Head(td) = Field("item", name, MaxScript)
         /\ Remains(Tail(td), m - 1, name, k, kind)
<1> DEFINE l == Len(td)
           known == Known(kind, k)
<1>1. known \in Nat /\ k \in Nat /\ known - k \in Nat
  BY KnownCount, KindCount
<1>2. td \in Seq(FieldSet) /\ l \in Nat /\ l = m + (known - k)
  BY DEF Remains
<1> HIDE DEF known
<1>3. l > 0 /\ td # << >> /\ Head(td) = td[1] /\ Tail(td) \in Seq(FieldSet)
      /\ Len(Tail(td)) = l - 1 /\ \A i \in 1..(l - 1) : Tail(td)[i] = td[i + 1]
  BY <1>1, <1>2
<1>4. td[1] = Field("item", name, MaxScript)
  BY <1>1 DEF Remains
<1>5. ASSUME NEW i \in 1..(m - 1) PROVE Tail(td)[i] = Field("item", name, MaxScript)
  <2>1. i + 1 \in 1..m /\ i \in 1..(l - 1)
    BY <1>1, <1>2
  <2>2. td[i + 1] = Field("item", name, MaxScript)
    BY <2>1 DEF Remains
  <2> QED
    BY <1>3, <2>1, <2>2
<1>6. ASSUME NEW i \in ((m - 1) + 1)..(l - 1) PROVE Tail(td)[i] = FieldAt(kind, k + (i - (m - 1)))
  <2>1. i + 1 \in (m + 1)..l /\ i \in 1..(l - 1) /\ (i + 1) - m = i - (m - 1)
    BY <1>1, <1>2
  <2>2. td[i + 1] = FieldAt(kind, k + ((i + 1) - m))
    BY <2>1 DEF Remains
  <2> QED
    BY <1>3, <2>1, <2>2
<1>7. Len(Tail(td)) = (m - 1) + (known - k)
  BY <1>1, <1>2, <1>3
<1> QED
  BY <1>3, <1>4, <1>5, <1>6, <1>7 DEF Remains, known

(* with none to go the next field is, and the kind alone changes what      *)
(* follows.                                                                *)
LEMMA FieldLeft ==
  ASSUME NEW td, NEW name, NEW kind, NEW k \in 0..FieldCount(kind),
         Remains(td, 0, name, k, kind), td # << >>
  PROVE  /\ k < FieldCount(kind)
         /\ Head(td) = FieldAt(kind, k + 1)
         /\ k # 2 => \A other : Remains(Tail(td), 0, other, k + 1, kind)
<1> DEFINE l == Len(td)
           known == Known(kind, k)
<1>1. known \in Nat /\ k \in Nat /\ known - k \in Nat /\ known - (k + 1) \in Int
  BY KnownCount, KindCount, SMTT(30)
<1>2. td \in Seq(FieldSet) /\ l \in Nat /\ l = known - k
  BY <1>1 DEF Remains
<1>3. l > 0 /\ Head(td) = td[1] /\ Tail(td) \in Seq(FieldSet)
      /\ Len(Tail(td)) = l - 1 /\ \A i \in 1..(l - 1) : Tail(td)[i] = td[i + 1]
  BY <1>2
<1>4. k < FieldCount(kind)
  BY <1>1, <1>2, <1>3, KnownCount, KindCount
<1>5. ASSUME NEW i \in 1..l PROVE td[i] = FieldAt(kind, k + i)
  <2>1. i \in (0 + 1)..Len(td) /\ k + (i - 0) = k + i
    BY <1>1
  <2> QED
    BY <2>1 DEF Remains
<1>6. Head(td) = FieldAt(kind, k + 1)
  BY <1>3, <1>2, <1>5
<1>7. ASSUME k # 2, NEW other PROVE Remains(Tail(td), 0, other, k + 1, kind)
  <2>1. Known(kind, k + 1) = known
    BY <1>4, <1>7, KnownCount
  <2>2. Len(Tail(td)) = 0 + (Known(kind, k + 1) - (k + 1))
    BY <1>1, <1>2, <1>3, <2>1
  <2>3. ASSUME NEW i \in (0 + 1)..Len(Tail(td))
        PROVE  Tail(td)[i] = FieldAt(kind, (k + 1) + (i - 0))
    <3>1. i \in 1..(l - 1) /\ i + 1 \in 1..l /\ (k + 1) + (i - 0) = k + (i + 1)
      BY <1>1, <1>2, <1>3
    <3> QED
      BY <1>3, <1>5, <3>1
  <2>4. \A i \in 1..0 : Tail(td)[i] = Field("item", other, MaxScript)
    OBVIOUS
  <2> QED
    BY <1>3, <2>2, <2>3, <2>4 DEF Remains
<1> QED
  BY <1>4, <1>6, <1>7

(* The fields of a kind, once it is known.                                 *)
LEMMA LayoutLeft ==
  ASSUME NEW kind \in ClaimKinds
  PROVE  Remains(Layout(kind), 0, "", 3, kind)
<1>1. Known(kind, 3) = FieldCount(kind) /\ FieldCount(kind) \in Nat
  BY KindCount DEF Known
<1>2. Layout(kind) \in Seq(FieldSet) /\ Len(Layout(kind)) = FieldCount(kind) - 3
      /\ \A i \in 1..(FieldCount(kind) - 3) : Layout(kind)[i] = FieldAt(kind, i + 3)
  BY LayoutIs
<1>3. ASSUME NEW i \in (0 + 1)..Len(Layout(kind))
      PROVE  Layout(kind)[i] = FieldAt(kind, 3 + (i - 0))
  <2>1. i \in 1..(FieldCount(kind) - 3) /\ 3 + (i - 0) = i + 3
    BY <1>1, <1>2
  <2> QED
    BY <1>2, <2>1
<1> QED
  BY <1>1, <1>2, <1>3 DEF Remains

(* Items in front of the fields.                                           *)
LEMMA ItemsLeft ==
  ASSUME NEW td, NEW name \in FieldNames, NEW kind, NEW k \in 0..FieldCount(kind), NEW n \in Nat,
         Remains(td, 0, name, k, kind)
  PROVE  Remains([i \in 1..n |-> Field("item", name, MaxScript)] \o td, n, name, k, kind)
<1> DEFINE items == [i \in 1..n |-> Field("item", name, MaxScript)]
           all == items \o td
<1>1. Field("item", name, MaxScript) \in FieldSet
  BY LimitFacts DEF Field, FieldSet
<1>2. items \in Seq(FieldSet) /\ Len(items) = n
      /\ \A i \in 1..n : items[i] = Field("item", name, MaxScript)
  BY <1>1
<1>3. td \in Seq(FieldSet) /\ Len(td) = Known(kind, k) - k
      /\ Known(kind, k) \in Nat /\ k \in Nat
  BY KnownCount, KindCount, SMTT(30) DEF Remains
<1> HIDE DEF items
<1>4. /\ all \in Seq(FieldSet) /\ Len(all) = n + Len(td)
      /\ \A i \in 1..n : all[i] = items[i]
      /\ \A i \in 1..Len(td) : all[n + i] = td[i]
  <2>1. items \in Seq(FieldSet) /\ td \in Seq(FieldSet)
    BY <1>2, <1>3
  <2>2. all \in Seq(FieldSet)
    BY <2>1
  <2>3. Len(all) = Len(items) + Len(td)
    BY <2>1
  <2>4. \A i \in 1..Len(items) : all[i] = items[i]
    BY <2>1
  <2>5. \A i \in 1..Len(td) : all[Len(items) + i] = td[i]
    BY <2>1
  <2> HIDE DEF all
  <2> QED
    BY <2>2, <2>3, <2>4, <2>5, <1>2
<1> HIDE DEF all
<1>5. ASSUME NEW i \in (n + 1)..Len(all) PROVE all[i] = FieldAt(kind, k + (i - n))
  <2> DEFINE j == i - n
  <2>1. j \in 1..Len(td) /\ n + j = i /\ j \in (0 + 1)..Len(td) /\ k + (j - 0) = k + (i - n)
    BY <1>3, <1>4
  <2>2. td[j] = FieldAt(kind, k + (j - 0))
    BY <2>1 DEF Remains
  <2>3. all[n + j] = td[j]
    BY <1>4, <2>1
  <2> QED
    BY <2>1, <2>2, <2>3
<1>6. \A i \in 1..n : all[i] = Field("item", name, MaxScript)
  BY <1>2, <1>4
<1>7. Len(all) = n + (Known(kind, k) - k)
  BY <1>3, <1>4
<1>8. Remains(all, n, name, k, kind)
  BY <1>4, <1>5, <1>6, <1>7 DEF Remains
<1> QED
  BY <1>8 DEF all, items

-----------------------------------------------------------------------------
(* One field read *)

(* What is put for the field at a place, by the kind of field. *)
LEMMA PieceIs ==
  ASSUME NEW env \in Raw, NEW q \in 1..FieldCount(env.kind)
  PROVE  LET name == NameAt(env.kind, q) IN
         /\ q < 3 => Pieces(env)[q] = <<FieldAt(env.kind, q).max>>
         /\ q = 3 => Pieces(env)[q] = <<env.kind>>
         /\ name \in DigitNames => Pieces(env)[q] = <<env[name]>>
         /\ name \in StringNames => Pieces(env)[q] = PutBytes(env[name])
         /\ name \in ListNames => Pieces(env)[q] = PutItems(env[name])
<1> DEFINE name == NameAt(env.kind, q)
           field == FieldAt(env.kind, q)
<1>1. q \in 1..14
  BY KindCount
<1>2. Pieces(env)[q] = Piece(field, env)
  BY DEF Pieces
<1>3. /\ field.name = name
      /\ q = 3 => name = "kind"
      /\ field.form = "tag" <=> q < 3
      /\ field.form = "kind" <=> q = 3
      /\ field.form = "digit" <=> name \in DigitNames
      /\ field.form = "bytes" <=> name \in StringNames
      /\ field.form = "count" <=> name \in ListNames
  BY <1>1, FieldsTyped
<1> HIDE DEF field, name
<1>4. q < 3 => Piece(field, env) = <<field.max>>
  BY <1>3 DEF Piece
<1>5. q = 3 => Piece(field, env) = <<env["kind"]>>
  BY <1>3 DEF Piece
<1>6. name \in DigitNames => Piece(field, env) = <<env[name]>>
  BY <1>3 DEF Piece
<1>7. name \in StringNames => Piece(field, env) = PutBytes(env[name])
  BY <1>3 DEF Piece
<1>8. name \in ListNames => Piece(field, env) = PutItems(env[name])
  BY <1>3 DEF Piece
<1> QED
  BY <1>2, <1>4, <1>5, <1>6, <1>7, <1>8 DEF field, name

(* Writing the next field into the envelope.                               *)
LEMMA Writes ==
  ASSUME NEW env \in Raw, ValidateLimits(env), NEW k \in 3..(FieldCount(env.kind) - 1),
         Unread(env, k + 1), NEW name, name = NameAt(env.kind, k + 1), NEW value,
         Suits(name, value),
         NEW new, new = With(env, name, value)
  PROVE  /\ new \in Raw /\ new.kind = env.kind /\ new[name] = value
         /\ SameBut(new, env, name)
         /\ ValidateLimits(new)
         /\ SameTo(Pieces(new), Pieces(env), k)
         /\ Unread(new, k + 1)
<1>1. /\ k \in 0..FieldCount(env.kind) /\ k + 1 \in 4..14
      /\ k + 1 \in 3..FieldCount(env.kind)
      /\ \A q \in 3..k : q \in 3..FieldCount(env.kind) /\ q # k + 1
  BY KindCount
<1>2. name \in FieldNames \ {"kind"}
  BY <1>1, FieldsTyped
<1>3. Place(env.kind, name) = k + 1
  BY <1>1, PlacesMatch
<1>4. new \in Raw /\ new[name] = value /\ new.kind = env.kind /\ SameBut(new, env, name)
  BY <1>2, SetField
<1>5. \A q \in 3..k : NameAt(env.kind, q) # name
  BY <1>1, <1>3, PlacesMatch
<1>6. SameTo(Pieces(new), Pieces(env), k)
  BY <1>1, <1>4, <1>5, KeepsPieces
<1>7. ValidateLimits(new)
  BY <1>2, <1>4, KeepsLimits
<1>8. ASSUME NEW other \in FieldNames, Place(new.kind, other) > k + 1
      PROVE  new[other] = Blank[other]
  <2>1. other # name /\ Place(env.kind, other) > k + 1
    BY <1>1, <1>3, <1>4, <1>8
  <2> QED
    BY <1>4, <1>8, <2>1 DEF Unread, SameBut
<1> QED
  BY <1>4, <1>6, <1>7, <1>8 DEF Unread

(* A field later is less left unread.                                      *)
LEMMA UnreadNext ==
  ASSUME NEW env, NEW k \in Nat, Unread(env, k)
  PROVE  Unread(env, k + 1)
<1> SUFFICES ASSUME NEW name \in FieldNames, Place(env.kind, name) > k + 1
             PROVE  env[name] = Blank[name]
  BY DEF Unread
<1>1. Place(env.kind, name) \in 3..15
  BY PlacesMatch
<1> QED
  BY <1>1 DEF Unread

(* Where the next field may be, past the preamble.                         *)
LEMMA NextField ==
  ASSUME NEW kind, NEW k \in 3..(FieldCount(kind) - 1)
  PROVE  /\ k \in Nat /\ k \in 0..FieldCount(kind) /\ k # 2 /\ ~(k < 3)
         /\ k + 1 \in 4..14 /\ k + 1 \in 1..FieldCount(kind)
         /\ k + 1 \in 3..FieldCount(kind)
         /\ k + 1 <= FieldCount(kind) /\ ~(k + 1 < 3)
<1>1. FieldCount(kind) \in 1..14
  BY KindCount
<1> QED
  BY <1>1

(* What being between two fields means.                                    *)
LEMMA AtFieldMeans ==
  ASSUME NEW in, NEW o, NEW td, NEW env, NEW k, AtField(in, o, td, env, k)
  PROVE  /\ env \in Raw /\ ValidateLimits(env)
         /\ k \in 0..FieldCount(env.kind) /\ k \in Nat
         /\ k < 3 <=> env.kind = 0
         /\ Held(in, o, env, k) /\ Unread(env, k) /\ Remains(td, 0, "", k, env.kind)
<1>1. Held(in, o, env, k) /\ Unread(env, k) /\ Remains(td, 0, "", k, env.kind)
  BY DEF AtField
<1>2. /\ env \in Raw /\ ValidateLimits(env)
      /\ k \in 0..FieldCount(env.kind)
      /\ k < 3 <=> env.kind = 0
  BY <1>1 DEF Held
<1>3. k \in Nat
  <2>1. FieldCount(env.kind) \in Nat /\ k \in 0..FieldCount(env.kind)
    BY <1>2, KindCount
  <2> QED
    BY <2>1
<1> QED
  BY <1>1, <1>2, <1>3

(* The fields after the next one.                                          *)
LEMMA LeftAfter ==
  ASSUME NEW in, NEW o, NEW td, NEW env, NEW k, AtField(in, o, td, env, k), td # << >>, k # 2
  PROVE  /\ k \in Nat /\ Unread(env, k + 1)
         /\ \A name : Remains(Tail(td), 0, name, k + 1, env.kind)
<1>1. /\ k \in 0..FieldCount(env.kind) /\ k \in Nat
      /\ Unread(env, k) /\ Remains(td, 0, "", k, env.kind)
  BY AtFieldMeans, Zenon
<1>2. Unread(env, k + 1)
  BY <1>1, UnreadNext, Zenon
<1>3. \A name : Remains(Tail(td), 0, name, k + 1, env.kind)
  BY <1>1, FieldLeft, Zenon
<1> QED
  BY <1>1, <1>2, <1>3

(* The next field is there, or all of the list that is.                    *)
LEMMA Advance ==
  ASSUME NEW in \in Seq(Nat), NEW o, NEW env, NEW k \in 3..(FieldCount(env.kind) - 1),
         Held(in, o, env, k),
         NEW new \in Raw, new.kind = env.kind, ValidateLimits(new),
         SameTo(Pieces(new), Pieces(env), k), Unread(new, k + 1),
         NEW td, Remains(td, 0, "", k + 1, env.kind),
         NEW piece, piece = Pieces(new)[k + 1], Holds(in, o, piece)
  PROVE  AtField(in, o + Len(piece), td, new, k + 1)
<1>1. k + 1 <= FieldCount(env.kind) /\ ~(k + 1 < 3) /\ ~(k < 3)
  BY NextField, Zenon
<1>2. new.kind # 0
  BY <1>1, Zenon DEF Held
<1>3. k + 1 <= FieldCount(new.kind) /\ (k + 1 < 3 <=> new.kind = 0)
  BY <1>1, <1>2, Zenon
<1>4. Holds(in, o, Pieces(new)[k + 1])
  BY Zenon
<1>5. Held(in, o + Len(Pieces(new)[k + 1]), new, k + 1)
  BY <1>3, <1>4, HeldNext, Zenon
<1>6. Held(in, o + Len(piece), new, k + 1) /\ Remains(td, 0, "", k + 1, new.kind)
  BY <1>5, Zenon
<1> QED
  BY <1>6, Zenon DEF AtField

(* A digit or a string: the next field as a whole.                         *)
LEMMA ValueRead ==
  ASSUME NEW in \in Seq(Nat), NEW o, NEW td, NEW env, NEW k \in 3..(FieldCount(env.kind) - 1),
         AtField(in, o, td, env, k), td # << >>,
         NEW name, name = NameAt(env.kind, k + 1), NEW value, NEW piece,
         \/ name \in DigitNames /\ value \in Digit /\ piece = <<value>>
         \/ name \in StringNames /\ value \in Strings /\ Len(value) <= LimitOf(name)
              /\ piece = PutBytes(value),
         Holds(in, o, piece)
  PROVE  AtField(in, o + Len(piece), Tail(td), With(env, name, value), k + 1)
<1> DEFINE new == With(env, name, value)
<1>1. env \in Raw /\ ValidateLimits(env) /\ Held(in, o, env, k)
  BY AtFieldMeans
<1>2. k # 2
  BY NextField, Zenon
<1>3. Unread(env, k + 1) /\ Remains(Tail(td), 0, "", k + 1, env.kind)
  BY <1>2, LeftAfter
<1>4. /\ DigitNames \cap StringNames = {} /\ DigitNames \cap ListNames = {}
      /\ StringNames \cap ListNames = {}
  BY DEF DigitNames, StringNames, ListNames
<1>5. Suits(name, value)
  <2>1. name # "kind" /\ name \notin ListNames
    BY <1>4 DEF DigitNames, StringNames
  <2> QED
    BY <1>4, <2>1 DEF Suits
<1>6. new = With(env, name, value)
  OBVIOUS
<1> HIDE DEF new
<1>7. /\ new \in Raw /\ new.kind = env.kind /\ new[name] = value
      /\ ValidateLimits(new)
      /\ SameTo(Pieces(new), Pieces(env), k)
      /\ Unread(new, k + 1)
  <2>1. /\ env \in Raw /\ ValidateLimits(env) /\ k \in 3..(FieldCount(env.kind) - 1)
        /\ Unread(env, k + 1) /\ name = NameAt(env.kind, k + 1)
        /\ Suits(name, value) /\ new = With(env, name, value)
    BY <1>1, <1>3, <1>5, <1>6
  <2> QED
    BY ONLY <2>1, Writes
<1>8. k + 1 \in 1..FieldCount(new.kind) /\ NameAt(new.kind, k + 1) = name
  BY <1>7, NextField, Zenon
<1>9. piece = Pieces(new)[k + 1]
  BY <1>4, <1>7, <1>8, PieceIs, SMTT(30)
<1>10. AtField(in, o + Len(piece), Tail(td), new, k + 1)
  BY <1>1, <1>3, <1>7, <1>9, Advance
<1> QED
  BY <1>10 DEF new

(* One of the tags, *)
LEMMA TagRead ==
  ASSUME NEW in \in Seq(Nat), NEW o, NEW td, NEW env, NEW k \in 0..1,
         AtField(in, o, td, env, k), td # << >>,
         o + 1 <= Len(in), in[o + 1] = FieldAt(env.kind, k + 1).max
  PROVE  AtField(in, o + 1, Tail(td), env, k + 1)
<1>1. env \in Raw /\ ValidateLimits(env) /\ Held(in, o, env, k) /\ env.kind = 0
  <2>1. k < 3 /\ k # 2
    OBVIOUS
  <2> QED
    BY <2>1, AtFieldMeans
<1> DEFINE piece == Pieces(env)[k + 1]
<1>2. k + 1 \in 1..FieldCount(env.kind) /\ k + 1 <= FieldCount(env.kind) /\ k + 1 < 3
  BY KindCount
<1>3. piece = <<FieldAt(env.kind, k + 1).max>>
  BY <1>1, <1>2, PieceIs
<1> HIDE DEF piece
<1>4. Len(piece) = 1 /\ Holds(in, o, piece)
  BY <1>3 DEF Holds
<1>5. SameTo(Pieces(env), Pieces(env), k)
  BY DEF SameTo
<1>6. Held(in, o + Len(piece), env, k + 1)
  BY <1>1, <1>2, <1>4, <1>5, HeldNext DEF piece
<1>7. Unread(env, k + 1) /\ Remains(Tail(td), 0, "", k + 1, env.kind)
  <2>1. k # 2
    OBVIOUS
  <2> QED
    BY <2>1, LeftAfter
<1> QED
  BY <1>4, <1>6, <1>7 DEF AtField

(* or the kind, which says what follows.                                   *)
LEMMA KindRead ==
  ASSUME NEW in \in Seq(Nat), NEW o, NEW td, NEW env, AtField(in, o, td, env, 2),
         o + 1 <= Len(in), NEW kind \in ClaimKinds, in[o + 1] = kind
  PROVE  AtField(in, o + 1, Layout(kind), With(env, "kind", kind), 3)
<1> DEFINE new == With(env, "kind", kind)
<1>1. /\ env \in Raw /\ ValidateLimits(env)
      /\ Held(in, o, env, 2) /\ Unread(env, 2) /\ env.kind = 0
  <2>1. 2 < 3
    OBVIOUS
  <2> QED
    BY <2>1, AtFieldMeans
<1>2. "kind" \in FieldNames /\ "kind" \notin DigitNames \cup StringNames \cup ListNames
  BY DEF FieldNames, DigitNames, StringNames, ListNames
<1>3. Suits("kind", kind) /\ new = With(env, "kind", kind)
  BY <1>2 DEF Suits
<1> HIDE DEF new
<1>4. new \in Raw /\ new["kind"] = kind /\ SameBut(new, env, "kind")
  BY <1>1, <1>2, <1>3, SetField
<1> HIDE DEF new
<1>5. new.kind = kind /\ kind # 0
  BY <1>4 DEF ClaimKinds, OwnerExit, VirtualCet
<1>6. \A name \in FieldNames \ {"kind"} : new[name] = Blank[name]
  <2> SUFFICES ASSUME NEW name \in FieldNames \ {"kind"} PROVE new[name] = Blank[name]
    OBVIOUS
  <2>1. Place(env.kind, name) \in 3..15
    BY PlacesMatch
  <2>2. env[name] = Blank[name]
    BY <1>1, <2>1 DEF Unread
  <2> QED
    BY <1>4, <2>2 DEF SameBut
<1>7. ValidateLimits(new)
  <2>1. /\ new["vtxo"] = << >> /\ new["anchor"] = << >> /\ new["spend"] = << >>
        /\ new["prevouts"] = << >> /\ new["outcome"] = << >> /\ new["payouts"] = << >>
    BY <1>6 DEF Blank, FieldNames, StringNames, ListNames
  <2> QED
    BY <2>1, LimitFacts DEF ValidateLimits, ScriptsWithin
<1>8. ASSUME NEW q \in 1..2 PROVE Pieces(new)[q] = Pieces(env)[q]
  <2>1. q \in 1..FieldCount(env.kind) /\ q \in 1..FieldCount(new.kind) /\ q < 3
    BY KindCount
  <2>2. FieldAt(env.kind, q).max = FieldAt(new.kind, q).max
    BY <1>8 DEF FieldAt, NameAt
  <2>3. Pieces(new)[q] = <<FieldAt(new.kind, q).max>>
    BY <1>4, <2>1, PieceIs
  <2>4. Pieces(env)[q] = <<FieldAt(env.kind, q).max>>
    BY <1>1, <2>1, PieceIs
  <2> QED
    BY <2>2, <2>3, <2>4
<1>9. SameTo(Pieces(new), Pieces(env), 2)
  BY <1>8 DEF SameTo
<1> DEFINE piece == Pieces(new)[3]
<1>10. piece = <<kind>> /\ 3 <= FieldCount(new.kind)
  <2>1. 3 \in 1..FieldCount(new.kind)
    BY KindCount
  <2> QED
    BY <1>4, <1>5, <2>1, PieceIs
<1> HIDE DEF piece
<1>11. Len(piece) = 1 /\ Holds(in, o, piece)
  BY <1>10 DEF Holds
<1>12. Held(in, o + Len(piece), new, 3)
  <2>1. /\ 2 + 1 <= FieldCount(new.kind) /\ (2 + 1 < 3 <=> new.kind = 0)
        /\ Holds(in, o, Pieces(new)[2 + 1]) /\ Pieces(new)[2 + 1] = piece /\ 2 + 1 = 3
    BY <1>5, <1>10, <1>11, SMTT(30) DEF piece
  <2>2. Held(in, o + Len(Pieces(new)[2 + 1]), new, 2 + 1)
    BY <1>1, <1>4, <1>7, <1>9, <2>1, HeldNext
  <2> QED
    BY <2>1, <2>2
<1>13. Unread(new, 3)
  <2> SUFFICES ASSUME NEW name \in FieldNames, Place(new.kind, name) > 3
               PROVE  new[name] = Blank[name]
    BY DEF Unread
  <2>1. name # "kind"
    <3>1. ASSUME name = "kind" PROVE FALSE
      <4>1. Place(new.kind, name) = 3
        BY <3>1 DEF Place
      <4> QED
        BY <4>1
    <3> QED
      BY <3>1
  <2> QED
    BY <1>6, <2>1
<1>14. Remains(Layout(kind), 0, "", 3, new.kind)
  BY <1>5, LayoutLeft
<1>15. AtField(in, o + 1, Layout(kind), new, 3)
  BY <1>11, <1>12, <1>13, <1>14 DEF AtField
<1> QED
  BY <1>15 DEF new

-----------------------------------------------------------------------------
(* Strings and items read *)

(* A string read where the reader is: its length and as many bytes. *)
LEMMA BytesHeld ==
  ASSUME NEW in \in Strings, NEW o \in Nat, o + 1 <= Len(in), o + 1 + in[o + 1] <= Len(in)
  PROVE  LET value == SubSeq(in, o + 2, o + 1 + in[o + 1]) IN
         /\ value \in Strings /\ Len(value) = in[o + 1] /\ in[o + 1] \in Nat
         /\ Holds(in, o, PutBytes(value)) /\ Len(PutBytes(value)) = 1 + in[o + 1]
<1> DEFINE len == in[o + 1]
           value == SubSeq(in, o + 2, o + 1 + len)
           piece == PutBytes(value)
<1>1. in \in Seq(Nat) /\ in \in Seq(Digit)
  BY StringsAreBytes DEF Strings
<1>2. len \in Nat /\ o + 1 + len <= Len(in)
  BY <1>1
<1> HIDE DEF len
<1>3. /\ value \in Seq(Digit) /\ Len(value) = len
      /\ \A i \in 1..len : value[i] = in[o + 1 + i]
  BY <1>1, <1>2
<1>4. value \in Seq(Nat)
  BY <1>3, StringsAreBytes DEF Strings
<1> HIDE DEF value
<1>5. /\ piece \in Seq(Nat) /\ Len(piece) = 1 + len /\ piece[1] = len
      /\ \A i \in 2..(1 + len) : piece[i] = value[i - 1]
  BY <1>2, <1>3, <1>4 DEF PutBytes
<1> HIDE DEF piece
<1>6. ASSUME NEW i \in 1..(1 + len) PROVE in[o + i] = piece[i]
  <2>1. CASE i = 1
    BY <1>5, <2>1 DEF len
  <2>2. CASE i # 1
    <3>1. i \in 2..(1 + len) /\ i - 1 \in 1..len /\ o + 1 + (i - 1) = o + i
      BY <1>2, <2>2
    <3> QED
      BY <1>3, <1>5, <3>1
  <2> QED
    BY <2>1, <2>2
<1>7. Holds(in, o, piece)
  BY <1>2, <1>5, <1>6 DEF Holds
<1>8. value \in Strings
  BY <1>3 DEF Strings
<1> QED
  BY <1>2, <1>3, <1>5, <1>7, <1>8 DEF len, value, piece

(* The other way: a string put is the string read.                         *)
LEMMA HeldBytes ==
  ASSUME NEW in \in Strings, NEW o \in Nat, NEW value \in Strings, Holds(in, o, PutBytes(value))
  PROVE  /\ o + 1 <= Len(in) /\ in[o + 1] = Len(value)
         /\ o + 1 + in[o + 1] <= Len(in)
         /\ SubSeq(in, o + 2, o + 1 + in[o + 1]) = value
         /\ Len(PutBytes(value)) = 1 + in[o + 1]
<1> DEFINE piece == PutBytes(value)
           len == Len(value)
<1>1. value \in Seq(Nat) /\ len \in Nat /\ in \in Seq(Nat) /\ in \in Seq(Digit)
      /\ value \in Seq(Digit)
  BY StringsAreBytes DEF Strings
<1>2. /\ piece \in Seq(Nat) /\ Len(piece) = 1 + len /\ piece[1] = len
      /\ \A i \in 1..len : piece[1 + i] = value[i]
  BY <1>1 DEF PutBytes
<1>3. /\ o + Len(piece) <= Len(in)
      /\ \A i \in 1..Len(piece) : in[o + i] = piece[i]
  BY DEF Holds
<1> HIDE DEF piece, len
<1>4. in[o + 1] = len /\ o + 1 + len <= Len(in) /\ o + 1 <= Len(in)
  BY <1>1, <1>2, <1>3, SMTT(30)
<1> DEFINE part == SubSeq(in, o + 2, o + 1 + len)
<1>5. /\ part \in Seq(Digit) /\ Len(part) = len
      /\ \A i \in 1..len : part[i] = in[o + 1 + i]
  BY <1>1, <1>4
<1> HIDE DEF part
<1>6. ASSUME NEW i \in 1..len PROVE part[i] = value[i]
  <2>1. 1 + i \in 1..Len(piece) /\ o + (1 + i) = o + 1 + i
    BY <1>1, <1>2
  <2> QED
    BY <1>2, <1>3, <1>5, <2>1
<1>7. part = value
  <2>1. Len(part) = Len(value)
    BY <1>5 DEF len
  <2>2. \A i \in 1..Len(part) : part[i] = value[i]
    BY <1>5, <1>6
  <2> QED
    BY <1>1, <1>5, <2>1, <2>2, SeqEqual, Zenon
<1> QED
  BY <1>2, <1>4, <1>7 DEF part, len, piece

(* An item is its amount and a string after it.                            *)
LEMMA ItemPut ==
  ASSUME NEW item \in TxOut
  PROVE  /\ PutItem(item) = <<item.amount>> \o PutBytes(item.script)
         /\ <<item.amount>> \in Seq(Nat) /\ Len(<<item.amount>>) = 1
         /\ PutBytes(item.script) \in Seq(Nat)
         /\ item.script \in Strings /\ item.amount \in Digit
<1>1. item.script \in Strings /\ item.amount \in Digit
  BY DEF TxOut
<1>2. item.script \in Seq(Nat) /\ item.amount \in Nat
  BY <1>1, StringsAreBytes, LimitFacts
<1> QED
  BY <1>1, <1>2, PutBytesTyped DEF PutItem

(* An item read where the reader is, *)
LEMMA ItemHeld ==
  ASSUME NEW in \in Strings, NEW o \in Nat, o + 2 <= Len(in), o + 2 + in[o + 2] <= Len(in),
         NEW item, item = [amount |-> in[o + 1],
                           script |-> SubSeq(in, o + 3, o + 2 + in[o + 2])]
  PROVE  /\ item \in TxOut /\ Len(item.script) = in[o + 2]
         /\ Holds(in, o, PutItem(item)) /\ Len(PutItem(item)) = 2 + in[o + 2]
<1> DEFINE p == o + 1
           value == SubSeq(in, p + 2, p + 1 + in[p + 1])
           first == <<item.amount>>
           rest == PutBytes(item.script)
<1>1. p \in Nat /\ p + 1 = o + 2 /\ p + 2 = o + 3 /\ p + 1 <= Len(in)
      /\ p + 1 + in[p + 1] <= Len(in)
  OBVIOUS
<1>2. item.amount = in[o + 1] /\ item.script = value
  BY <1>1
<1>3. /\ value \in Strings /\ Len(value) = in[p + 1] /\ in[p + 1] \in Nat
      /\ Holds(in, p, PutBytes(value)) /\ Len(PutBytes(value)) = 1 + in[p + 1]
  <2> HIDE DEF p
  <2> QED
    BY <1>1, BytesHeld
<1> HIDE DEF value
<1>4. in[o + 1] \in Digit /\ in \in Seq(Nat)
  BY <1>1, StringsAreBytes DEF Strings
<1>5. item \in TxOut
  <2>1. SubSeq(in, o + 3, o + 2 + in[o + 2]) = value
    BY <1>1 DEF value
  <2>2. item = [amount |-> in[o + 1], script |-> value]
    BY <2>1
  <2> QED
    BY ONLY <1>3, <1>4, <2>2 DEF TxOut
<1>6. /\ PutItem(item) = first \o rest /\ first \in Seq(Nat) /\ Len(first) = 1
      /\ rest \in Seq(Nat)
  BY <1>5, ItemPut
<1>7. Holds(in, o, first)
  BY <1>1, <1>2 DEF Holds
<1>8. Holds(in, o + Len(first), rest) /\ Len(rest) = 1 + in[o + 2]
  BY <1>1, <1>2, <1>3, <1>6
<1> HIDE DEF first, rest
<1>9. Len(first \o rest) = Len(first) + Len(rest) /\ Holds(in, o, first \o rest)
  <2>1. /\ in \in Seq(Nat) /\ o \in Nat /\ first \in Seq(Nat) /\ rest \in Seq(Nat)
        /\ Holds(in, o, first) /\ Holds(in, o + Len(first), rest)
    BY <1>4, <1>6, <1>7, <1>8
  <2> QED
    BY ONLY <2>1, HoldsJoined
<1>10. Len(item.script) = in[o + 2] /\ in[o + 2] \in Nat
  BY <1>1, <1>2, <1>3
<1>11. Len(PutItem(item)) = 2 + in[o + 2]
  <2>1. Len(PutItem(item)) = 1 + Len(rest)
    BY <1>6, <1>9
  <2> QED
    BY ONLY <2>1, <1>8, <1>10
<1> QED
  BY <1>5, <1>6, <1>9, <1>10, <1>11

(* and an item put is the item read. *)
LEMMA HeldItem ==
  ASSUME NEW in \in Strings, NEW o \in Nat, NEW item \in TxOut, Holds(in, o, PutItem(item))
  PROVE  /\ o + 2 <= Len(in) /\ in[o + 2] = Len(item.script)
         /\ o + 2 + in[o + 2] <= Len(in)
         /\ item = [amount |-> in[o + 1],
                    script |-> SubSeq(in, o + 3, o + 2 + in[o + 2])]
         /\ Len(PutItem(item)) = 2 + in[o + 2]
<1> DEFINE p == o + 1
           first == <<item.amount>>
           rest == PutBytes(item.script)
<1>1. p \in Nat /\ p + 1 = o + 2 /\ p + 2 = o + 3
  OBVIOUS
<1>2. /\ PutItem(item) = first \o rest /\ first \in Seq(Nat) /\ Len(first) = 1
      /\ rest \in Seq(Nat) /\ first[1] = item.amount
      /\ item.script \in Strings /\ item.amount \in Digit
  BY ItemPut
<1>3. in \in Seq(Nat)
  BY StringsAreBytes
<1>4. Holds(in, o, first \o rest)
  BY <1>2
<1> HIDE DEF first, rest
<1>5. /\ Holds(in, o, first) /\ Holds(in, o + Len(first), rest)
      /\ Len(first \o rest) = Len(first) + Len(rest)
  <2>1. /\ in \in Seq(Nat) /\ o \in Nat /\ first \in Seq(Nat) /\ rest \in Seq(Nat)
        /\ Holds(in, o, first \o rest)
    BY <1>2, <1>3, <1>4
  <2> QED
    BY ONLY <2>1, HoldsParts
<1>6. in[o + 1] = item.amount
  BY <1>2, <1>5 DEF Holds
<1>7. Holds(in, p, PutBytes(item.script))
  BY <1>2, <1>5 DEF rest
<1>8. /\ p + 1 <= Len(in) /\ in[p + 1] = Len(item.script)
      /\ p + 1 + in[p + 1] <= Len(in)
      /\ SubSeq(in, p + 2, p + 1 + in[p + 1]) = item.script
      /\ Len(PutBytes(item.script)) = 1 + in[p + 1]
  <2> HIDE DEF p
  <2> QED
    BY <1>1, <1>2, <1>7, HeldBytes
<1>9. item = [amount |-> item.amount, script |-> item.script]
  BY DEF TxOut
<1>10. /\ o + 2 <= Len(in) /\ in[o + 2] = Len(item.script)
       /\ o + 2 + in[o + 2] <= Len(in) /\ in[o + 2] \in Nat
  <2>1. p + 1 <= Len(in) /\ in[o + 2] = Len(item.script) /\ p + 1 + in[o + 2] <= Len(in)
    BY <1>1, <1>8
  <2>2. Len(item.script) \in Nat
    BY <1>2 DEF Strings
  <2>3. in[o + 2] \in Nat /\ p + 1 = o + 2
    BY <2>1, <2>2, <1>1
  <2> HIDE DEF p
  <2> QED
    BY ONLY <2>1, <2>3, o \in Nat
<1>11. SubSeq(in, o + 3, o + 2 + in[o + 2]) = item.script
  BY <1>1, <1>8
<1>12. item = [amount |-> in[o + 1],
               script |-> SubSeq(in, o + 3, o + 2 + in[o + 2])]
  BY <1>6, <1>9, <1>11, Zenon
<1>13. Len(rest) = 1 + in[o + 2]
  BY <1>1, <1>8 DEF rest
<1>14. Len(PutItem(item)) = 2 + in[o + 2]
  BY <1>2, <1>5, <1>10, <1>13
<1> QED
  BY <1>10, <1>12, <1>14

-----------------------------------------------------------------------------
(* Lists read *)

(* A list that is next is empty so far.                                    *)
LEMMA NextUnread ==
  ASSUME NEW env, NEW k \in 3..(FieldCount(env.kind) - 1), Unread(env, k),
         NEW name, name = NameAt(env.kind, k + 1), name \in ListNames
  PROVE  env[name] = << >> /\ name \in FieldNames
<1>1. k + 1 \in 3..FieldCount(env.kind) /\ k \in Nat
  BY NextField, Zenon
<1>2. Place(env.kind, name) = k + 1
  BY <1>1, PlacesMatch, Zenon
<1>3. name \in FieldNames
  BY DEF FieldNames
<1>4. env[name] = Blank[name]
  BY <1>1, <1>2, <1>3 DEF Unread
<1>5. Blank[name] = << >>
  BY DEF ListNames, Blank
<1> QED
  BY <1>3, <1>4, <1>5

(* Its count is read.                                                      *)
LEMMA CountRead ==
  ASSUME NEW in \in Seq(Nat), NEW o, NEW td, NEW env, NEW k \in 3..(FieldCount(env.kind) - 1),
         AtField(in, o, td, env, k), td # << >>,
         NEW name, name = NameAt(env.kind, k + 1), name \in ListNames,
         NEW m \in Nat, o + 1 <= Len(in), in[o + 1] = m, m <= LimitOf(name)
  PROVE  InList(in, o + 1, [i \in 1..m |-> Field("item", name, MaxScript)] \o Tail(td),
                env, k, m, o)
<1> DEFINE all == [i \in 1..m |-> Field("item", name, MaxScript)] \o Tail(td)
<1>1. /\ k \in Nat /\ k # 2 /\ k + 1 \in 3..FieldCount(env.kind) /\ k + 1 \in 0..FieldCount(env.kind)
  BY NextField, KindCount
<1>2. Held(in, o, env, k) /\ Unread(env, k)
  BY AtFieldMeans, Zenon
<1>3. o \in Nat
  BY <1>2, HeldInside, Zenon
<1>4. env[name] = << >> /\ name \in FieldNames
  BY <1>2, NextUnread, Zenon
<1>5. Unread(env, k + 1) /\ Remains(Tail(td), 0, name, k + 1, env.kind)
  BY <1>1, LeftAfter, Zenon
<1>6. Remains(all, m, name, k + 1, env.kind)
  BY <1>1, <1>4, <1>5, ItemsLeft, Zenon
<1>7. LaidTo(in, o + 1, ItemPieces(<< >>), 0, o + 1)
  <2>1. o + 1 \in Nat
    BY <1>3
  <2> QED
    BY <2>1, LaidStart, Zenon
<1>8. /\ Len(<< >>) = 0 /\ 0 + m = m /\ o < Len(in)
      /\ Len(env[name]) + m = m /\ Len(env[name]) = 0
  BY <1>3, <1>4
<1>9. /\ Len(env[name]) + m <= LimitOf(name) /\ in[o + 1] = Len(env[name]) + m
      /\ LaidTo(in, o + 1, ItemPieces(env[name]), Len(env[name]), o + 1)
  BY <1>4, <1>7, <1>8, Zenon
<1> HIDE DEF all
<1>10. InList(in, o + 1, all, env, k, m, o)
  BY <1>2, <1>5, <1>6, <1>8, <1>9, Zenon DEF InList
<1> QED
  BY <1>10 DEF all

(* What being in a list means.                                             *)
LEMMA InListMeans ==
  ASSUME NEW in, NEW o, NEW td, NEW env, NEW k, NEW m, NEW start,
         InList(in, o, td, env, k, m, start), NEW name, name = NameAt(env.kind, k + 1)
  PROVE  /\ env \in Raw /\ ValidateLimits(env) /\ Held(in, start, env, k)
         /\ k \in 3..(FieldCount(env.kind) - 1)
         /\ name \in ListNames /\ Unread(env, k + 1) /\ m \in Nat
         /\ env[name] \in Seq(TxOut)
         /\ Len(env[name]) + m <= LimitOf(name)
         /\ start < Len(in) /\ in[start + 1] = Len(env[name]) + m
         /\ LaidTo(in, start + 1, ItemPieces(env[name]), Len(env[name]), o)
         /\ Remains(td, m, name, k + 1, env.kind)
<1>1. /\ Held(in, start, env, k)
      /\ k \in 3..(FieldCount(env.kind) - 1)
      /\ name \in ListNames /\ Unread(env, k + 1) /\ m \in Nat
      /\ Len(env[name]) + m <= LimitOf(name)
      /\ start < Len(in) /\ in[start + 1] = Len(env[name]) + m
      /\ LaidTo(in, start + 1, ItemPieces(env[name]), Len(env[name]), o)
      /\ Remains(td, m, name, k + 1, env.kind)
  BY Zenon DEF InList
<1>2. env \in Raw /\ ValidateLimits(env)
  BY <1>1, Zenon DEF Held
<1>3. env[name] \in Seq(TxOut)
  BY <1>1, <1>2, RawFields, Zenon
<1> QED
  BY <1>1, <1>2, <1>3, Zenon

(* The reader is inside its input there, too.                              *)
LEMMA ListInside ==
  ASSUME NEW in \in Seq(Nat), NEW o, NEW td, NEW env, NEW k, NEW m, NEW start,
         InList(in, o, td, env, k, m, start)
  PROVE  o \in Nat /\ o <= Len(in) /\ start \in Nat /\ start + 1 <= Len(in)
<1> DEFINE items == env[NameAt(env.kind, k + 1)]
           parts == ItemPieces(items)
<1>1. /\ Held(in, start, env, k) /\ start < Len(in) /\ items \in Seq(TxOut)
      /\ LaidTo(in, start + 1, parts, Len(items), o)
  BY InListMeans, Zenon
<1> HIDE DEF items
<1>2. start \in Nat
  BY <1>1, HeldInside
<1>3. start + 1 \in Nat /\ start + 1 <= Len(in)
  BY <1>1, <1>2
<1>4. parts \in Seq(Seq(Nat)) /\ Len(parts) = Len(items) /\ Len(items) \in Nat
  BY <1>1, ItemPiecesTyped
<1> HIDE DEF parts
<1>5. Len(items) \in 0..Len(parts)
  BY <1>4
<1> DEFINE at == start + 1
<1> HIDE DEF at
<1>6. /\ at \in Nat /\ at <= Len(in) /\ parts \in Seq(Seq(Nat)) /\ in \in Seq(Nat)
      /\ Len(items) \in 0..Len(parts) /\ LaidTo(in, at, parts, Len(items), o)
  BY <1>1, <1>3, <1>4, <1>5 DEF at
<1>7. o \in Nat /\ o <= Len(in)
  BY ONLY <1>6, LaidInside
<1> QED
  BY <1>2, <1>3, <1>7

(* One more item.                                                          *)
LEMMA AppendedPieces ==
  ASSUME NEW items \in Seq(TxOut), NEW item \in TxOut
  PROVE  /\ Append(items, item) \in Seq(TxOut)
         /\ Len(Append(items, item)) = Len(items) + 1
         /\ SameTo(ItemPieces(Append(items, item)), ItemPieces(items), Len(items))
         /\ ItemPieces(Append(items, item))[Len(items) + 1] = PutItem(item)
<1> DEFINE more == Append(items, item)
           n == Len(items)
<1>1. /\ more \in Seq(TxOut) /\ Len(more) = n + 1 /\ n \in Nat
      /\ \A i \in 1..n : more[i] = items[i]
      /\ more[n + 1] = item
      /\ DOMAIN more = 1..(n + 1) /\ DOMAIN items = 1..n
  OBVIOUS
<1> HIDE DEF more, n
<1>2. ItemPieces(more)[n + 1] = PutItem(item)
  BY <1>1 DEF ItemPieces
<1>3. \A i \in 1..n : ItemPieces(more)[i] = ItemPieces(items)[i]
  BY <1>1 DEF ItemPieces
<1> QED
  BY <1>1, <1>2, <1>3 DEF more, n, SameTo

(* The limit on scripts holds for what is there already.                   *)
LEMMA ListWithin ==
  ASSUME NEW env \in Raw, ValidateLimits(env), NEW k \in 3..(FieldCount(env.kind) - 1),
         env.kind # 0, NEW name, name = NameAt(env.kind, k + 1), name \in ListNames
  PROVE  ScriptsWithin(env[name])
<1>1. name = "prevouts" \/ name = "payouts"
  BY DEF ListNames
<1>2. CASE name = "prevouts"
  BY <1>2 DEF ValidateLimits
<1>3. CASE name = "payouts"
  <2>1. k + 1 \in 3..FieldCount(env.kind)
    BY NextField, Zenon
  <2>2. env.kind # OwnerExit
    <3> SUFFICES ASSUME env.kind = OwnerExit PROVE FALSE
      OBVIOUS
    <3>1. Place(env.kind, name) = k + 1
      BY <2>1, PlacesMatch, Zenon
    <3>2. Place(env.kind, name) = 15
      BY <1>3 DEF Place
    <3>3. FieldCount(env.kind) = 12
      BY DEF FieldCount
    <3> QED
      BY <2>1, <3>1, <3>2, <3>3
  <2>3. env.kind = VirtualCet
    BY <2>2, RawFields DEF ClaimKinds
  <2> QED
    BY <1>3, <2>3 DEF ValidateLimits
<1> QED
  BY <1>1, <1>2, <1>3

(* An item within the limits may be added to a list that waits for it.     *)
LEMMA ItemSuits ==
  ASSUME NEW in \in Seq(Nat), NEW o, NEW td, NEW env, NEW k, NEW m, NEW start,
         InList(in, o, td, env, k, m, start), m # 0,
         NEW name, name = NameAt(env.kind, k + 1),
         NEW item \in TxOut, Len(item.script) <= MaxScript
  PROVE  Suits(name, Append(env[name], item))
<1> DEFINE items == env[name]
           more == Append(items, item)
<1>1. /\ env \in Raw /\ ValidateLimits(env) /\ Held(in, start, env, k)
      /\ k \in 3..(FieldCount(env.kind) - 1)
      /\ name \in ListNames /\ Unread(env, k + 1) /\ m \in Nat
      /\ items \in Seq(TxOut)
      /\ Len(items) + m <= LimitOf(name)
      /\ start < Len(in) /\ in[start + 1] = Len(items) + m
      /\ LaidTo(in, start + 1, ItemPieces(items), Len(items), o)
      /\ Remains(td, m, name, k + 1, env.kind)
  <2>1. /\ Held(in, start, env, k)
        /\ k \in 3..(FieldCount(env.kind) - 1)
        /\ name \in ListNames /\ Unread(env, k + 1) /\ m \in Nat
        /\ Len(items) + m <= LimitOf(name)
        /\ start < Len(in) /\ in[start + 1] = Len(items) + m
        /\ LaidTo(in, start + 1, ItemPieces(items), Len(items), o)
        /\ Remains(td, m, name, k + 1, env.kind)
    BY Zenon DEF InList
  <2>2. env \in Raw /\ ValidateLimits(env)
    BY <2>1, Zenon DEF Held
  <2>3. items \in Seq(TxOut)
    BY <2>1, <2>2, RawFields, Zenon
  <2> HIDE DEF items
  <2> QED
    BY <2>1, <2>2, <2>3, Zenon
<1>2. env.kind # 0
  <2>1. ~(k < 3)
    BY <1>1, NextField, Zenon
  <2> QED
    BY <1>1, <2>1, Zenon DEF Held
<1>3. ScriptsWithin(items)
  BY <1>1, <1>2, ListWithin, Zenon
<1>4. /\ more \in Seq(TxOut) /\ Len(more) = Len(items) + 1
      /\ SameTo(ItemPieces(more), ItemPieces(items), Len(items))
      /\ ItemPieces(more)[Len(items) + 1] = PutItem(item)
  <2> HIDE DEF items
  <2> QED
    BY <1>1, AppendedPieces, Zenon
<1>5. ScriptsWithin(more)
  <2> HIDE DEF items
  <2>1. \A i \in DOMAIN items : Len(items[i].script) <= MaxScript
    BY <1>3 DEF ScriptsWithin
  <2>2. ASSUME NEW i \in DOMAIN more PROVE Len(more[i].script) <= MaxScript
    <3>1. CASE i \in DOMAIN items
      <4>1. more[i] = items[i]
        BY <1>1, <3>1
      <4> QED
        BY <2>1, <3>1, <4>1
    <3>2. CASE i \notin DOMAIN items
      <4>1. more[i] = item
        BY <1>1, <3>2
      <4> QED
        BY <4>1
    <3> QED
      BY <3>1, <3>2
  <2> QED
    BY <2>2 DEF ScriptsWithin
<1>6. Len(items) \in Nat
  <2> HIDE DEF items
  <2> QED
    BY <1>1
<1>7. LimitOf(name) \in Nat
  BY <1>1, Forms DEF FieldNames
<1> HIDE DEF items, more
<1>8. Len(more) + (m - 1) = Len(items) + m /\ Len(more) <= LimitOf(name) /\ m - 1 \in Nat
  BY <1>1, <1>4, <1>6, <1>7
<1>9. Suits(name, more)
  <2>1. name # "kind" /\ name \notin DigitNames /\ name \notin StringNames
    BY <1>1 DEF ListNames, DigitNames, StringNames
  <2> QED
    BY <1>4, <1>5, <1>8, <2>1 DEF Suits
<1> QED
  BY <1>9 DEF more, items

(* The next item is read: the list grows by it and one fewer is to go. *)
LEMMA ItemRead ==
  ASSUME NEW in \in Seq(Nat), NEW o, NEW td, NEW env, NEW k, NEW m, NEW start,
         InList(in, o, td, env, k, m, start), m # 0,
         NEW name, name = NameAt(env.kind, k + 1),
         NEW item \in TxOut, Len(item.script) <= MaxScript, Holds(in, o, PutItem(item))
  PROVE  InList(in, o + Len(PutItem(item)), Tail(td),
                With(env, name, Append(env[name], item)), k, m - 1, start)
<1> DEFINE items == env[name]
           more == Append(items, item)
           new == With(env, name, more)
           next == o + Len(PutItem(item))
<1>1. /\ env \in Raw /\ ValidateLimits(env) /\ Held(in, start, env, k)
      /\ k \in 3..(FieldCount(env.kind) - 1)
      /\ name \in ListNames /\ Unread(env, k + 1) /\ m \in Nat
      /\ items \in Seq(TxOut)
      /\ Len(items) + m <= LimitOf(name)
      /\ start < Len(in) /\ in[start + 1] = Len(items) + m
      /\ LaidTo(in, start + 1, ItemPieces(items), Len(items), o)
      /\ Remains(td, m, name, k + 1, env.kind)
  <2>1. /\ Held(in, start, env, k)
        /\ k \in 3..(FieldCount(env.kind) - 1)
        /\ name \in ListNames /\ Unread(env, k + 1) /\ m \in Nat
        /\ Len(items) + m <= LimitOf(name)
        /\ start < Len(in) /\ in[start + 1] = Len(items) + m
        /\ LaidTo(in, start + 1, ItemPieces(items), Len(items), o)
        /\ Remains(td, m, name, k + 1, env.kind)
    BY Zenon DEF InList
  <2>2. env \in Raw /\ ValidateLimits(env)
    BY <2>1, Zenon DEF Held
  <2>3. items \in Seq(TxOut)
    BY <2>1, <2>2, RawFields, Zenon
  <2> HIDE DEF items
  <2> QED
    BY <2>1, <2>2, <2>3, Zenon
<1>2. o \in Nat /\ start \in Nat /\ start + 1 \in Nat
  <2>1. o \in Nat /\ start \in Nat
    BY ListInside, Zenon
  <2> QED
    BY <2>1
<1>3. /\ k + 1 \in 0..FieldCount(env.kind) /\ env.kind # 0 /\ k \in Nat
  <2>1. k \in Nat /\ ~(k < 3) /\ k + 1 \in 1..FieldCount(env.kind)
    BY <1>1, NextField, Zenon
  <2>2. env.kind # 0
    BY <1>1, <2>1, Zenon DEF Held
  <2>3. k + 1 \in 0..FieldCount(env.kind)
    BY <1>1, NextField, KindCount
  <2> QED
    BY <2>1, <2>2, <2>3
<1>4. /\ more \in Seq(TxOut) /\ Len(more) = Len(items) + 1
      /\ SameTo(ItemPieces(more), ItemPieces(items), Len(items))
      /\ ItemPieces(more)[Len(items) + 1] = PutItem(item)
  <2> HIDE DEF items
  <2> QED
    BY <1>1, AppendedPieces, Zenon
<1>5. Len(items) \in Nat
  <2> HIDE DEF items
  <2> QED
    BY <1>1
<1>6. LimitOf(name) \in Nat
  BY <1>1, Forms DEF FieldNames
<1>7. Suits(name, more)
  <2>1. /\ InList(in, o, td, env, k, m, start) /\ m # 0
        /\ name = NameAt(env.kind, k + 1)
        /\ item \in TxOut /\ Len(item.script) <= MaxScript
    OBVIOUS
  <2>2. Suits(name, Append(env[name], item))
    BY ONLY in \in Seq(Nat), <2>1, ItemSuits
  <2> QED
    BY <2>2
<1> HIDE DEF items, more
<1>8. Len(more) + (m - 1) = Len(items) + m /\ Len(more) <= LimitOf(name) /\ m - 1 \in Nat
  BY <1>1, <1>4, <1>5, <1>6
<1>9. new = With(env, name, more)
  OBVIOUS
<1> HIDE DEF new
<1>10. /\ new \in Raw /\ new.kind = env.kind /\ new[name] = more
       /\ ValidateLimits(new)
       /\ SameTo(Pieces(new), Pieces(env), k)
       /\ Unread(new, k + 1)
  <2>1. /\ env \in Raw /\ ValidateLimits(env) /\ k \in 3..(FieldCount(env.kind) - 1)
        /\ Unread(env, k + 1) /\ name = NameAt(env.kind, k + 1)
        /\ Suits(name, more) /\ new = With(env, name, more)
    BY <1>1, <1>7, <1>9
  <2> QED
    BY ONLY <2>1, Writes
<1>11. Held(in, start, new, k)
  BY <1>1, <1>10, HeldSame, Zenon
<1> DEFINE old == ItemPieces(items)
           parts == ItemPieces(more)
           n == Len(items)
           piece == PutItem(item)
           at == start + 1
<1>12. LaidTo(in, at, parts, n + 1, o + Len(piece))
  <2>1. piece \in Seq(Nat)
    <3>1. piece = ItemPieces(more)[n + 1] /\ n + 1 \in 1..Len(ItemPieces(more))
          /\ ItemPieces(more) \in Seq(Seq(Nat))
      BY <1>4, <1>5, ItemPiecesTyped
    <3> HIDE DEF piece, n
    <3> QED
      BY <3>1
  <2>2. /\ in \in Seq(Nat) /\ at \in Nat /\ n \in Nat
        /\ LaidTo(in, at, old, n, o) /\ SameTo(parts, old, n)
        /\ parts[n + 1] = piece /\ piece \in Seq(Nat) /\ Holds(in, o, piece)
    BY <1>1, <1>2, <1>4, <1>5, <2>1, Zenon
  <2> HIDE DEF old, parts, n, piece, at
  <2>3. parts[n + 1] \in Seq(Nat) /\ Holds(in, o, parts[n + 1])
    BY <2>2
  <2>4. LaidTo(in, at, parts, n + 1, o + Len(parts[n + 1]))
    BY ONLY <2>2, <2>3, LaidFurther
  <2> QED
    BY <2>2, <2>4
<1>13. Remains(Tail(td), m - 1, name, k + 1, env.kind)
  <2>1. m \in Nat \ {0}
    BY <1>1
  <2> QED
    BY <1>1, <1>3, <2>1, ItemLeft, Zenon
<1>14. /\ Len(new[name]) + (m - 1) <= LimitOf(name)
       /\ in[start + 1] = Len(new[name]) + (m - 1)
       /\ LaidTo(in, start + 1, ItemPieces(new[name]), Len(new[name]), next)
  BY <1>1, <1>4, <1>8, <1>10, <1>12, Zenon
<1>15. /\ k \in 3..(FieldCount(new.kind) - 1) /\ name = NameAt(new.kind, k + 1)
       /\ Remains(Tail(td), m - 1, name, k + 1, new.kind)
  BY <1>1, <1>10, <1>13, Zenon
<1> HIDE DEF next
<1>16. InList(in, next, Tail(td), new, k, m - 1, start)
  BY <1>1, <1>8, <1>10, <1>11, <1>14, <1>15, Zenon DEF InList
<1> QED
  BY <1>16 DEF next, new, more, items

(* With no item to go the list is one field read.                          *)
LEMMA ListEnd ==
  ASSUME NEW in \in Seq(Nat), NEW o, NEW td, NEW env, NEW k, NEW start,
         InList(in, o, td, env, k, 0, start)
  PROVE  AtField(in, o, td, env, k + 1)
<1> DEFINE name == NameAt(env.kind, k + 1)
           items == env[name]
           parts == ItemPieces(items)
           rest == FlattenSeq(parts)
           count == <<Len(items)>>
           piece == PutItems(items)
           at == start + 1
<1>1. /\ env \in Raw /\ ValidateLimits(env) /\ Held(in, start, env, k)
      /\ k \in 3..(FieldCount(env.kind) - 1)
      /\ name \in ListNames /\ Unread(env, k + 1)
      /\ items \in Seq(TxOut)
      /\ start < Len(in) /\ in[start + 1] = Len(items) + 0
      /\ LaidTo(in, start + 1, parts, Len(items), o)
      /\ Remains(td, 0, name, k + 1, env.kind)
  <2>1. /\ Held(in, start, env, k)
        /\ k \in 3..(FieldCount(env.kind) - 1)
        /\ name \in ListNames /\ Unread(env, k + 1)
        /\ start < Len(in) /\ in[start + 1] = Len(items) + 0
        /\ LaidTo(in, start + 1, parts, Len(items), o)
        /\ Remains(td, 0, name, k + 1, env.kind)
    BY Zenon DEF InList
  <2>2. env \in Raw /\ ValidateLimits(env)
    BY <2>1, Zenon DEF Held
  <2>3. items \in Seq(TxOut)
    BY <2>1, <2>2, RawFields, Zenon
  <2> HIDE DEF items, name, parts
  <2> QED
    BY <2>1, <2>2, <2>3, Zenon
<1>2. start \in Nat /\ at \in Nat /\ at <= Len(in)
  <2>1. start \in Nat /\ start + 1 <= Len(in)
    BY ListInside, Zenon
  <2> QED
    BY <2>1
<1>3. piece = Pieces(env)[k + 1]
  <2>1. k + 1 \in 1..FieldCount(env.kind)
    BY <1>1, NextField, Zenon
  <2> QED
    BY <1>1, <2>1, PieceIs, Zenon
<1>4. SameTo(Pieces(env), Pieces(env), k)
  BY DEF SameTo
<1>5. Remains(td, 0, "", k + 1, env.kind)
  BY <1>1 DEF Remains
<1> HIDE DEF items, name
<1>6. /\ piece = count \o rest /\ rest \in Seq(Nat) /\ count \in Seq(Nat)
      /\ Len(count) = 1 /\ count[1] = Len(items) /\ Len(piece) = 1 + Len(rest)
  BY <1>1, PutItemsTyped, SMTT(30)
<1>7. parts \in Seq(Seq(Nat)) /\ Len(parts) = Len(items) /\ Len(items) \in Nat
  BY <1>1, ItemPiecesTyped
<1> HIDE DEF count, parts
<1>8. Holds(in, at, rest) /\ o = at + Len(rest)
  <2>1. /\ in \in Seq(Nat) /\ at \in Nat /\ at <= Len(in) /\ parts \in Seq(Seq(Nat))
        /\ LaidTo(in, at, parts, Len(parts), o)
    BY <1>1, <1>2, <1>7
  <2> HIDE DEF at
  <2> QED
    BY ONLY <2>1, LaidOut
<1> HIDE DEF rest, piece
<1>9. Holds(in, start, count)
  <2>1. start + Len(count) <= Len(in) /\ in[start + 1] = count[1]
    BY <1>1, <1>2, <1>6, <1>7
  <2> QED
    BY <1>6, <2>1 DEF Holds
<1>10. Holds(in, start, piece)
  <2>1. /\ in \in Seq(Nat) /\ start \in Nat /\ count \in Seq(Nat) /\ rest \in Seq(Nat)
        /\ Holds(in, start, count) /\ Holds(in, start + Len(count), rest)
    BY <1>2, <1>6, <1>8, <1>9
  <2>2. Holds(in, start, count \o rest)
    BY ONLY <2>1, HoldsJoined
  <2> QED
    BY <1>6, <2>2
<1>11. AtField(in, start + Len(piece), td, env, k + 1)
  BY <1>1, <1>3, <1>4, <1>5, <1>10, Advance, Zenon
<1>12. start + Len(piece) = o
  <2>1. Len(rest) \in Nat
    BY <1>6
  <2> QED
    BY <1>2, <1>6, <1>8, <2>1
<1> QED
  BY <1>11, <1>12

-----------------------------------------------------------------------------
(* Reading the encoding of an envelope *)

(* What encodes an envelope within the limits.                             *)
Encoding(e, in) == e \in Envelopes /\ Encodes(e) /\ EncodedBytes(e) = in

(* The first k fields have the values they have in e. *)
Agrees(e, env, k) ==
  \A name \in FieldNames : Place(e.kind, name) <= k => env[name] = e[name]

(* Where the reader is in the encoding of e, between two fields,           *)
AtFieldOf(e, in, o, env, k) ==
  LaidPast(in, 0, Pieces(e), k, o) /\ Agrees(e, env, k)

(* and in the list that is the next one.                                   *)
InListOf(e, in, o, env, k, m, start) ==
  LET name == NameAt(env.kind, k + 1) IN
  /\ AtFieldOf(e, in, start, env, k)
  /\ LaidPast(in, start + 1, ItemPieces(e[name]), Len(env[name]), o)
  /\ Len(e[name]) = Len(env[name]) + m
  /\ \A i \in 1..Len(env[name]) : env[name][i] = e[name][i]

(* What it means to encode an envelope, by its fields and pieces. *)
LEMMA EncodingMeans ==
  ASSUME NEW e, NEW in, Encoding(e, in)
  PROVE  /\ e \in Raw /\ e.kind \in ClaimKinds /\ e.kind # 0 /\ ValidateLimits(e)
         /\ Len(in) <= MaxEnvelope /\ in = FlattenSeq(Pieces(e))
         /\ e.kind = OwnerExit => e.outcome = << >> /\ e.payouts = << >>
<1>1. e \in Raw /\ e.kind \in ClaimKinds
  BY DEF Encoding, Envelopes, Raw, ClaimKinds, Items, TxOut, Strings
<1>2. e.kind # 0
  BY <1>1 DEF ClaimKinds, OwnerExit, VirtualCet
<1>3. ValidateLimits(e) /\ Len(EncodedBytes(e)) <= MaxEnvelope /\ EncodedBytes(e) = in
  BY DEF Encoding, Encodes
<1>4. EncodedBytes(e) = FlattenSeq(Pieces(e))
  BY <1>1, PartsArePieces DEF EncodedBytes
<1>5. e.kind = OwnerExit => e.outcome = << >> /\ e.payouts = << >>
  BY DEF Encoding, Envelopes
<1> QED
  BY <1>1, <1>2, <1>3, <1>4, <1>5

(* The reader starts at the first piece of any encoding, with nothing to   *)
(* agree on.                                                               *)
LEMMA StartOf ==
  ASSUME NEW e, NEW in \in Seq(Nat), Encoding(e, in), NEW env
  PROVE  AtFieldOf(e, in, 0, env, 0)
<1> DEFINE parts == Pieces(e)
<1>1. e \in Raw /\ in = FlattenSeq(parts)
  BY EncodingMeans
<1>2. parts \in Seq(Seq(Nat))
  BY <1>1, PartsArePieces
<1>3. Holds(in, 0, FlattenSeq(parts))
  BY <1>1 DEF Holds
<1> HIDE DEF parts
<1>4. 0 \in Nat
  OBVIOUS
<1>5. LaidPast(in, 0, parts, 0, 0)
  BY <1>2, <1>3, <1>4, PastStart
<1>6. \A name \in FieldNames : Place(e.kind, name) \in 3..15
  BY PlacesMatch
<1> QED
  BY <1>5, <1>6 DEF AtFieldOf, Agrees, parts

(* The next piece is there.                                                *)
LEMMA NextOf ==
  ASSUME NEW e, NEW in, NEW o, NEW env, NEW k \in Nat,
         Encoding(e, in), AtFieldOf(e, in, o, env, k), k < FieldCount(e.kind),
         NEW piece, piece = Pieces(e)[k + 1]
  PROVE  Holds(in, o, piece) /\ LaidPast(in, 0, Pieces(e), k + 1, o + Len(piece))
<1> DEFINE parts == Pieces(e)
<1>1. e \in Raw
  BY EncodingMeans
<1>2. Len(parts) = FieldCount(e.kind)
  BY <1>1, PartsArePieces
<1>3. FieldCount(e.kind) \in Nat
  BY KindCount
<1>4. LaidPast(in, 0, parts, k, o)
  BY DEF AtFieldOf
<1> HIDE DEF parts
<1>5. Len(parts) \in Nat /\ k \in 0..(Len(parts) - 1)
  BY <1>2, <1>3
<1>6. Holds(in, o, parts[k + 1]) /\ LaidPast(in, 0, parts, k + 1, o + Len(parts[k + 1]))
  BY <1>4, <1>5, PastNext, Zenon
<1> QED
  BY <1>6 DEF parts

(* Past the preamble the kind is the envelope's.                           *)
LEMMA KindOf ==
  ASSUME NEW e, NEW env, NEW k \in Nat, k >= 3, Agrees(e, env, k)
  PROVE  env.kind = e.kind
<1>1. "kind" \in FieldNames /\ Place(e.kind, "kind") = 3
  BY DEF FieldNames, Place
<1> QED
  BY <1>1 DEF Agrees

(* One field more agrees once it holds the value of the envelope. *)
LEMMA AgreesNext ==
  ASSUME NEW e, NEW env, NEW k \in 2..(FieldCount(e.kind) - 1), Agrees(e, env, k),
         NEW name, name = NameAt(e.kind, k + 1),
         NEW new, SameBut(new, env, name), new[name] = e[name]
  PROVE  Agrees(e, new, k + 1)
<1> SUFFICES ASSUME NEW other \in FieldNames, Place(e.kind, other) <= k + 1
             PROVE  new[other] = e[other]
  BY DEF Agrees
<1>1. FieldCount(e.kind) \in 1..14
  BY KindCount
<1>2. Place(e.kind, other) \in 3..15
  BY PlacesMatch
<1>3. CASE other = name
  BY <1>3
<1>4. CASE other # name
  <2>1. Place(e.kind, other) # k + 1
    <3> SUFFICES ASSUME Place(e.kind, other) = k + 1 PROVE FALSE
      OBVIOUS
    <3>1. k + 1 <= FieldCount(e.kind)
      BY <1>1
    <3>2. Place(e.kind, other) <= FieldCount(e.kind)
      BY <3>1
    <3>3. NameAt(e.kind, Place(e.kind, other)) = other
      BY <3>2, PlacesMatch
    <3> QED
      BY <3>3, <1>4
  <2>2. Place(e.kind, other) <= k
    BY <1>1, <1>2, <2>1
  <2>3. env[other] = e[other]
    BY <2>2 DEF Agrees
  <2> QED
    BY <1>4, <2>3 DEF SameBut
<1> QED
  BY <1>3, <1>4

(* The tags are the ones expected,                                         *)
LEMMA TagOf ==
  ASSUME NEW e, NEW in \in Seq(Nat), NEW o \in Nat, NEW env, NEW k \in 0..1,
         Encoding(e, in), AtFieldOf(e, in, o, env, k)
  PROVE  /\ o + 1 <= Len(in) /\ in[o + 1] = FieldAt(env.kind, k + 1).max
         /\ AtFieldOf(e, in, o + 1, env, k + 1)
<1> DEFINE piece == Pieces(e)[k + 1]
<1>1. e \in Raw
  BY EncodingMeans
<1>2. k \in Nat /\ k < FieldCount(e.kind) /\ k + 1 \in 1..FieldCount(e.kind) /\ k + 1 < 3
  BY KindCount
<1>3. piece = <<FieldAt(e.kind, k + 1).max>>
  BY <1>1, <1>2, PieceIs
<1>4. FieldAt(e.kind, k + 1).max = FieldAt(env.kind, k + 1).max
  BY <1>2 DEF FieldAt, NameAt
<1>5. Holds(in, o, piece) /\ LaidPast(in, 0, Pieces(e), k + 1, o + Len(piece))
  BY <1>2, NextOf, Zenon
<1> HIDE DEF piece
<1>6. Len(piece) = 1 /\ piece[1] = FieldAt(env.kind, k + 1).max
  BY <1>3, <1>4
<1>7. o + 1 <= Len(in) /\ in[o + 1] = FieldAt(env.kind, k + 1).max
  BY <1>5, <1>6 DEF Holds
<1>8. Agrees(e, env, k + 1)
  <2>1. \A name \in FieldNames : Place(e.kind, name) \in 3..15
    BY PlacesMatch
  <2> QED
    BY <1>2, <2>1 DEF Agrees
<1> QED
  BY <1>5, <1>6, <1>7, <1>8 DEF AtFieldOf

(* the kind is the envelope's,                                             *)
LEMMA KindReadOf ==
  ASSUME NEW e, NEW in \in Seq(Nat), NEW o \in Nat, NEW env \in Raw,
         Encoding(e, in), AtFieldOf(e, in, o, env, 2)
  PROVE  /\ o + 1 <= Len(in) /\ in[o + 1] \in ClaimKinds
         /\ AtFieldOf(e, in, o + 1, With(env, "kind", in[o + 1]), 3)
<1> DEFINE piece == Pieces(e)[3]
           kind == in[o + 1]
           new == With(env, "kind", kind)
<1>1. e \in Raw /\ e.kind \in ClaimKinds
  BY EncodingMeans
<1>2. 2 \in Nat /\ 2 < FieldCount(e.kind) /\ 3 \in 1..FieldCount(e.kind) /\ 2 + 1 = 3
      /\ 2 \in 2..(FieldCount(e.kind) - 1)
  BY KindCount
<1>3. piece = <<e.kind>>
  BY <1>1, <1>2, PieceIs
<1>4. Holds(in, o, piece) /\ LaidPast(in, 0, Pieces(e), 3, o + Len(piece))
  <2>1. /\ Holds(in, o, Pieces(e)[2 + 1])
        /\ LaidPast(in, 0, Pieces(e), 2 + 1, o + Len(Pieces(e)[2 + 1]))
    BY <1>2, NextOf, Zenon
  <2> QED
    BY <1>2, <2>1
<1> HIDE DEF piece
<1>5. Len(piece) = 1 /\ piece[1] = e.kind
  BY <1>3
<1>6. o + 1 <= Len(in) /\ kind = e.kind
  BY <1>4, <1>5 DEF Holds
<1> HIDE DEF kind
<1>7. "kind" \in FieldNames /\ "kind" = NameAt(e.kind, 3) /\ Suits("kind", kind)
  BY <1>1, <1>6 DEF FieldNames, NameAt, Suits, DigitNames, StringNames, ListNames
<1>8. new = With(env, "kind", kind)
  OBVIOUS
<1> HIDE DEF new
<1>9. new["kind"] = kind /\ SameBut(new, env, "kind")
  BY <1>7, <1>8, SetField
<1>10. Agrees(e, env, 2)
  BY DEF AtFieldOf
<1>11. Agrees(e, new, 3)
  <2>1. /\ 2 \in 2..(FieldCount(e.kind) - 1) /\ Agrees(e, env, 2)
        /\ "kind" = NameAt(e.kind, 2 + 1) /\ SameBut(new, env, "kind")
        /\ new["kind"] = e["kind"]
    BY <1>2, <1>6, <1>7, <1>9, <1>10
  <2>2. Agrees(e, new, 2 + 1)
    BY ONLY <2>1, AgreesNext
  <2> QED
    BY <1>2, <2>2
<1>12. AtFieldOf(e, in, o + 1, new, 3)
  BY <1>4, <1>5, <1>11 DEF AtFieldOf
<1> QED
  BY <1>1, <1>6, <1>12 DEF new, kind

(* What the next field and the kind of an encoding are.                    *)
LEMMA FieldOf ==
  ASSUME NEW e, NEW in, NEW o, NEW env, NEW k \in 3..(FieldCount(env.kind) - 1),
         Encoding(e, in), AtFieldOf(e, in, o, env, k),
         NEW name, name = NameAt(env.kind, k + 1)
  PROVE  /\ e \in Raw /\ ValidateLimits(e) /\ env.kind = e.kind
         /\ k \in Nat /\ k < FieldCount(e.kind) /\ k \in 2..(FieldCount(e.kind) - 1)
         /\ k + 1 \in 1..FieldCount(e.kind) /\ k \in 3..(FieldCount(e.kind) - 1)
         /\ name = NameAt(e.kind, k + 1)
         /\ Agrees(e, env, k)
<1>1. e \in Raw /\ ValidateLimits(e)
  BY EncodingMeans
<1>2. FieldCount(env.kind) \in 1..14
  BY KindCount
<1>3. k \in Nat /\ k >= 3 /\ k < FieldCount(env.kind) /\ k \in 2..(FieldCount(env.kind) - 1)
      /\ k + 1 \in 1..FieldCount(env.kind)
  BY <1>2
<1>4. Agrees(e, env, k)
  BY DEF AtFieldOf
<1>5. env.kind = e.kind
  BY <1>3, <1>4, KindOf, Zenon
<1> QED
  BY <1>1, <1>3, <1>4, <1>5, Zenon

(* A value read is the envelope's.                                         *)
LEMMA WrittenOf ==
  ASSUME NEW e, NEW in \in Seq(Nat), NEW o, NEW env \in Raw,
         NEW k \in 3..(FieldCount(env.kind) - 1),
         Encoding(e, in), AtFieldOf(e, in, o, env, k),
         NEW name \in FieldNames, name = NameAt(env.kind, k + 1),
         NEW new, SameBut(new, env, name), new[name] = e[name],
         NEW piece, piece = Pieces(e)[k + 1]
  PROVE  AtFieldOf(e, in, o + Len(piece), new, k + 1)
<1>1. /\ e \in Raw /\ ValidateLimits(e) /\ env.kind = e.kind
      /\ k \in Nat /\ k < FieldCount(e.kind) /\ k \in 2..(FieldCount(e.kind) - 1)
      /\ name = NameAt(e.kind, k + 1)
      /\ Agrees(e, env, k)
  BY FieldOf, ZenonT(40)
<1>2. LaidPast(in, 0, Pieces(e), k + 1, o + Len(piece))
  BY <1>1, NextOf, Zenon
<1>3. Agrees(e, new, k + 1)
  BY ONLY <1>1, SameBut(new, env, name), new[name] = e[name], AgreesNext
<1> QED
  BY <1>2, <1>3 DEF AtFieldOf

(* A digit of an encoding is there, and is the envelope's. *)
LEMMA DigitOf ==
  ASSUME NEW e, NEW in \in Seq(Nat), NEW o \in Nat, NEW env \in Raw,
         NEW k \in 3..(FieldCount(env.kind) - 1),
         Encoding(e, in), AtFieldOf(e, in, o, env, k),
         NEW name, name = NameAt(env.kind, k + 1), name \in DigitNames
  PROVE  /\ o + 1 <= Len(in)
         /\ AtFieldOf(e, in, o + 1, With(env, name, in[o + 1]), k + 1)
<1>1. /\ e \in Raw /\ env.kind = e.kind
      /\ k \in Nat /\ k < FieldCount(e.kind)
      /\ k + 1 \in 1..FieldCount(e.kind)
      /\ name = NameAt(e.kind, k + 1)
  BY ONLY k \in 3..(FieldCount(env.kind) - 1), Encoding(e, in),
     AtFieldOf(e, in, o, env, k), name = NameAt(env.kind, k + 1), FieldOf
<1> DEFINE piece == Pieces(e)[k + 1]
           value == in[o + 1]
           new == With(env, name, value)
<1>2. piece = <<e[name]>>
  BY <1>1, PieceIs, Zenon
<1>3. Holds(in, o, piece)
  BY <1>1, NextOf, Zenon
<1>4. piece = Pieces(e)[k + 1] /\ new = With(env, name, value)
  OBVIOUS
<1> HIDE DEF piece
<1>5. Len(piece) = 1 /\ piece[1] = e[name]
  BY <1>2
<1>6. o + 1 <= Len(in) /\ value = e[name]
  BY <1>3, <1>5 DEF Holds
<1>7. e[name] \in Digit
  BY <1>1, RawFields, Zenon
<1> HIDE DEF value, new
<1>8. name \in FieldNames /\ Suits(name, value)
  BY <1>6, <1>7 DEF FieldNames, Suits, DigitNames, StringNames, ListNames
<1>9. new[name] = value /\ SameBut(new, env, name)
  BY <1>4, <1>8, SetField
<1>10. AtFieldOf(e, in, o + Len(piece), new, k + 1)
  BY <1>4, <1>6, <1>8, <1>9, WrittenOf, Zenon
<1> QED
  BY <1>5, <1>6, <1>10 DEF new, value

(* An envelope that is encoded is within the limits, field by field. *)
LEMMA LimitsOf ==
  ASSUME NEW e, NEW in, Encoding(e, in)
  PROVE  /\ \A name \in StringNames : Len(e[name]) <= LimitOf(name)
         /\ \A name \in ListNames : Len(e[name]) <= LimitOf(name) /\ ScriptsWithin(e[name])
<1>1. /\ LimitOf("vtxo") = MaxVtxo /\ LimitOf("anchor") = MaxTransaction
      /\ LimitOf("spend") = MaxTransaction /\ LimitOf("outcome") = MaxOutcome
      /\ LimitOf("prevouts") = MaxPrevouts /\ LimitOf("payouts") = MaxPayouts
  BY DEF LimitOf
<1>2. e \in Raw /\ e.kind \in ClaimKinds /\ ValidateLimits(e)
      /\ (e.kind = OwnerExit => e.outcome = << >> /\ e.payouts = << >>)
  BY EncodingMeans, Zenon
<1>3. /\ Len(e.outcome) <= MaxOutcome
      /\ Len(e.payouts) <= MaxPayouts /\ ScriptsWithin(e.payouts)
  <2>1. CASE e.kind = OwnerExit
    <3>1. Len(<< >>) = 0 /\ ScriptsWithin(<< >>)
      BY DEF ScriptsWithin
    <3>2. MaxOutcome \in Nat /\ MaxPayouts \in Nat
      BY LimitFacts
    <3> QED
      BY <1>2, <2>1, <3>1, <3>2
  <2>2. CASE e.kind = VirtualCet
    BY <1>2, <2>2 DEF ValidateLimits
  <2> QED
    BY <1>2, <2>1, <2>2 DEF ClaimKinds
<1>4. /\ Len(e["vtxo"]) <= MaxVtxo /\ Len(e["anchor"]) <= MaxTransaction
      /\ Len(e["spend"]) <= MaxTransaction
      /\ Len(e["prevouts"]) <= MaxPrevouts /\ ScriptsWithin(e["prevouts"])
  BY <1>2 DEF ValidateLimits
<1>5. \A name \in StringNames : Len(e[name]) <= LimitOf(name)
  BY <1>1, <1>3, <1>4 DEF StringNames
<1>6. \A name \in ListNames : Len(e[name]) <= LimitOf(name) /\ ScriptsWithin(e[name])
  BY <1>1, <1>3, <1>4 DEF ListNames
<1> QED
  BY <1>5, <1>6

(* A string of an encoding is within its limit, is all there, and is the   *)
(* envelope's.                                                             *)
LEMMA StringOf ==
  ASSUME NEW e, NEW in \in Strings, NEW o \in Nat, NEW env \in Raw,
         NEW k \in 3..(FieldCount(env.kind) - 1),
         Encoding(e, in), AtFieldOf(e, in, o, env, k),
         NEW name, name = NameAt(env.kind, k + 1), name \in StringNames
  PROVE  /\ o + 1 <= Len(in) /\ in[o + 1] <= LimitOf(name)
         /\ o + 1 + in[o + 1] <= Len(in)
         /\ AtFieldOf(e, in, o + 1 + in[o + 1],
                      With(env, name, SubSeq(in, o + 2, o + 1 + in[o + 1])), k + 1)
<1>1. /\ e \in Raw /\ env.kind = e.kind
      /\ k \in Nat /\ k < FieldCount(e.kind)
      /\ k + 1 \in 1..FieldCount(e.kind)
      /\ name = NameAt(e.kind, k + 1)
  BY ONLY k \in 3..(FieldCount(env.kind) - 1), Encoding(e, in),
     AtFieldOf(e, in, o, env, k), name = NameAt(env.kind, k + 1), FieldOf
<1> DEFINE piece == Pieces(e)[k + 1]
           value == SubSeq(in, o + 2, o + 1 + in[o + 1])
           new == With(env, name, value)
<1>2. piece = PutBytes(e[name])
  BY <1>1, PieceIs, Zenon
<1>3. Holds(in, o, piece)
  BY <1>1, NextOf, Zenon
<1>4. piece = Pieces(e)[k + 1] /\ new = With(env, name, value)
  OBVIOUS
<1> HIDE DEF piece, new
<1>5. e[name] \in Strings /\ Len(e[name]) <= LimitOf(name)
  BY <1>1, RawFields, LimitsOf, Zenon
<1>6. /\ o + 1 <= Len(in) /\ in[o + 1] = Len(e[name])
      /\ o + 1 + in[o + 1] <= Len(in)
      /\ value = e[name]
      /\ Len(piece) = 1 + in[o + 1]
  <2> DEFINE s == e[name]
  <2>1. in \in Strings /\ o \in Nat /\ s \in Strings /\ Holds(in, o, PutBytes(s))
    BY <1>2, <1>3, <1>5
  <2>2. piece = PutBytes(s)
    BY <1>2
  <2> HIDE DEF s
  <2>3. /\ o + 1 <= Len(in) /\ in[o + 1] = Len(s)
        /\ o + 1 + in[o + 1] <= Len(in)
        /\ value = s
        /\ Len(PutBytes(s)) = 1 + in[o + 1]
    BY ONLY <2>1, HeldBytes
  <2> QED
    BY <2>2, <2>3 DEF s
<1> HIDE DEF value
<1>7. name \in FieldNames /\ Suits(name, value)
  <2>1. name \in FieldNames /\ name # "kind" /\ name \notin DigitNames /\ name \notin ListNames
    BY DEF FieldNames, DigitNames, StringNames, ListNames
  <2> QED
    BY <1>5, <1>6, <2>1 DEF Suits
<1>8. new[name] = value /\ SameBut(new, env, name)
  BY <1>4, <1>7, SetField
<1>9. in \in Seq(Nat)
  BY StringsAreBytes
<1>10. AtFieldOf(e, in, o + Len(piece), new, k + 1)
  BY <1>4, <1>6, <1>7, <1>8, <1>9, WrittenOf, Zenon
<1>11. o + Len(piece) = o + 1 + in[o + 1] /\ in[o + 1] <= LimitOf(name)
  <2>1. in[o + 1] \in Nat /\ in[o + 1] <= LimitOf(name)
    BY <1>5, <1>6, <1>9
  <2>2. Len(piece) = 1 + in[o + 1]
    BY <1>6
  <2> QED
    BY ONLY <2>1, <2>2, o \in Nat
<1> QED
  BY <1>6, <1>10, <1>11 DEF new, value

(* A list that is next: its count, then its items.                         *)
LEMMA ListPieceOf ==
  ASSUME NEW e, NEW in \in Seq(Nat), NEW o \in Nat, NEW env,
         NEW k \in 3..(FieldCount(env.kind) - 1),
         Encoding(e, in), AtFieldOf(e, in, o, env, k),
         NEW name, name = NameAt(env.kind, k + 1), name \in ListNames,
         NEW list, list = e[name]
  PROVE  /\ list \in Seq(TxOut) /\ Len(list) <= LimitOf(name) /\ ScriptsWithin(list)
         /\ o + 1 <= Len(in) /\ in[o + 1] = Len(list)
         /\ LaidPast(in, o + 1, ItemPieces(list), 0, o + 1)
         /\ Pieces(e)[k + 1] = PutItems(list)
<1>1. /\ e \in Raw /\ env.kind = e.kind
      /\ k \in Nat /\ k < FieldCount(e.kind)
      /\ k + 1 \in 1..FieldCount(e.kind)
      /\ name = NameAt(e.kind, k + 1)
  BY ONLY k \in 3..(FieldCount(env.kind) - 1), Encoding(e, in),
     AtFieldOf(e, in, o, env, k), name = NameAt(env.kind, k + 1), FieldOf
<1>2. Pieces(e)[k + 1] = PutItems(list)
  BY <1>1, PieceIs, Zenon
<1>3. Holds(in, o, Pieces(e)[k + 1])
  BY <1>1, NextOf, Zenon
<1>4. list \in Seq(TxOut) /\ Len(list) <= LimitOf(name) /\ ScriptsWithin(list)
  BY <1>1, RawFields, LimitsOf, Zenon
<1> DEFINE count == <<Len(list)>>
           parts == ItemPieces(list)
           rest == FlattenSeq(parts)
<1>5. PutItems(list) = count \o rest /\ rest \in Seq(Nat)
  BY <1>4, PutItemsTyped, Zenon
<1>6. parts \in Seq(Seq(Nat)) /\ Len(list) \in Nat
  BY <1>4, ItemPiecesTyped
<1>7. count \in Seq(Nat) /\ Len(count) = 1 /\ count[1] = Len(list)
  BY <1>6
<1>8. Holds(in, o, count \o rest)
  BY <1>2, <1>3, <1>5, Zenon
<1> HIDE DEF count, parts
<1>9. Holds(in, o, count) /\ Holds(in, o + Len(count), rest)
  <2>1. in \in Seq(Nat) /\ o \in Nat /\ count \in Seq(Nat) /\ rest \in Seq(Nat)
        /\ Holds(in, o, count \o rest)
    BY <1>5, <1>7, <1>8
  <2> HIDE DEF rest
  <2> QED
    BY ONLY <2>1, HoldsParts
<1>10. o + 1 <= Len(in) /\ in[o + 1] = Len(list)
  BY <1>7, <1>9 DEF Holds
<1> DEFINE at == o + 1
<1>11. at \in Nat /\ Holds(in, at, FlattenSeq(parts))
  BY <1>7, <1>9
<1> HIDE DEF at
<1>12. LaidPast(in, at, parts, 0, at)
  BY ONLY in \in Seq(Nat), <1>6, <1>11, PastStart
<1> QED
  BY <1>2, <1>4, <1>10, <1>12 DEF at, parts

(* A count of an encoding is within its limit, and the reader is then in   *)
(* that list.                                                              *)
LEMMA CountOf ==
  ASSUME NEW e, NEW in \in Seq(Nat), NEW o \in Nat, NEW env,
         NEW k \in 3..(FieldCount(env.kind) - 1), Unread(env, k),
         Encoding(e, in), AtFieldOf(e, in, o, env, k),
         NEW name, name = NameAt(env.kind, k + 1), name \in ListNames
  PROVE  /\ o + 1 <= Len(in) /\ in[o + 1] <= LimitOf(name)
         /\ InListOf(e, in, o + 1, env, k, in[o + 1], o)
<1> DEFINE list == e[name]
<1>1. /\ list \in Seq(TxOut) /\ Len(list) <= LimitOf(name)
      /\ o + 1 <= Len(in) /\ in[o + 1] = Len(list)
      /\ LaidPast(in, o + 1, ItemPieces(list), 0, o + 1)
  <2>1. in \in Seq(Nat) /\ o \in Nat /\ AtFieldOf(e, in, o, env, k)
        /\ k \in 3..(FieldCount(env.kind) - 1) /\ Encoding(e, in)
        /\ name = NameAt(env.kind, k + 1) /\ name \in ListNames /\ list = e[name]
    OBVIOUS
  <2> HIDE DEF list
  <2> QED
    BY ONLY <2>1, ListPieceOf
<1>2. env[name] = << >>
  BY NextUnread, Zenon
<1> HIDE DEF list
<1>3. Len(env[name]) = 0 /\ Len(list) \in Nat
  BY <1>1, <1>2
<1>4. Len(list) = Len(env[name]) + in[o + 1] /\ in[o + 1] <= LimitOf(name)
  BY <1>1, <1>3
<1>5. \A i \in 1..Len(env[name]) : env[name][i] = list[i]
  BY <1>3
<1>6. LaidPast(in, o + 1, ItemPieces(list), Len(env[name]), o + 1)
  BY <1>1, <1>3, Zenon
<1>7. InListOf(e, in, o + 1, env, k, in[o + 1], o)
  BY <1>4, <1>5, <1>6, Zenon DEF InListOf, list
<1> QED
  BY <1>1, <1>4, <1>7

(* What is read into the next field is not among what agrees so far.       *)
LEMMA AgreesStill ==
  ASSUME NEW e, NEW env, NEW k \in 3..(FieldCount(e.kind) - 1), Agrees(e, env, k),
         NEW name, name = NameAt(e.kind, k + 1), NEW new, SameBut(new, env, name)
  PROVE  Agrees(e, new, k)
<1> SUFFICES ASSUME NEW other \in FieldNames, Place(e.kind, other) <= k
             PROVE  new[other] = e[other]
  BY DEF Agrees
<1>1. k \in Nat /\ k + 1 \in 3..FieldCount(e.kind)
  BY NextField, Zenon
<1>2. Place(e.kind, name) = k + 1
  BY <1>1, PlacesMatch, Zenon
<1>3. other # name
  BY <1>1, <1>2
<1> QED
  BY <1>3 DEF Agrees, SameBut

(* An item of an encoding is within its limit, is all there, and is the    *)
(* envelope's.                                                             *)
LEMMA ItemOf ==
  ASSUME NEW e, NEW in \in Strings, NEW o \in Nat, NEW env \in Raw,
         NEW k \in 3..(FieldCount(env.kind) - 1), NEW m \in Nat \ {0}, NEW start \in Nat,
         Encoding(e, in), InListOf(e, in, o, env, k, m, start),
         NEW name, name = NameAt(env.kind, k + 1), name \in ListNames,
         NEW item, item = [amount |-> in[o + 1],
                           script |-> SubSeq(in, o + 3, o + 2 + in[o + 2])]
  PROVE  /\ o + 2 <= Len(in) /\ in[o + 2] <= MaxScript
         /\ o + 2 + in[o + 2] <= Len(in)
         /\ Suits(name, Append(env[name], item)) =>
              InListOf(e, in, o + 2 + in[o + 2],
                       With(env, name, Append(env[name], item)), k, m - 1, start)
<1> DEFINE list == e[name]
           items == env[name]
           n == Len(items)
           parts == ItemPieces(list)
<1>1. /\ AtFieldOf(e, in, start, env, k)
      /\ LaidPast(in, start + 1, parts, n, o)
      /\ Len(list) = n + m
      /\ \A i \in 1..n : items[i] = list[i]
  BY Zenon DEF InListOf
<1>2. in \in Seq(Nat) /\ start \in Nat
  BY StringsAreBytes
<1>3. list \in Seq(TxOut) /\ ScriptsWithin(list)
  <2>1. in \in Seq(Nat) /\ start \in Nat /\ AtFieldOf(e, in, start, env, k)
        /\ k \in 3..(FieldCount(env.kind) - 1) /\ Encoding(e, in)
        /\ name = NameAt(env.kind, k + 1) /\ name \in ListNames /\ list = e[name]
    BY <1>1, <1>2
  <2> HIDE DEF list
  <2> QED
    BY ONLY <2>1, ListPieceOf
<1>4. items \in Seq(TxOut)
  BY RawFields, Zenon
<1> HIDE DEF list, items
<1>5. n \in Nat /\ n + 1 \in 1..Len(list)
  BY <1>1, <1>3, <1>4
<1>6. /\ Len(parts) = Len(list)
      /\ parts[n + 1] = PutItem(list[n + 1])
  <2>1. Len(parts) = Len(list)
    BY <1>3, ItemPiecesTyped, Zenon
  <2>2. DOMAIN list = 1..Len(list)
    BY <1>3
  <2> QED
    BY <1>5, <2>1, <2>2 DEF ItemPieces
<1> DEFINE next == list[n + 1]
<1>7. next \in TxOut
  BY <1>3, <1>5
<1>8. Len(next.script) <= MaxScript
  BY <1>3, <1>5 DEF ScriptsWithin
<1>9. next = list[n + 1]
  OBVIOUS
<1> DEFINE at == start + 1
<1> HIDE DEF n, parts, next, at
<1>10. Holds(in, o, parts[n + 1]) /\ LaidPast(in, at, parts, n + 1, o + Len(parts[n + 1]))
  <2>1. Len(parts) \in Nat /\ n \in 0..(Len(parts) - 1) /\ LaidPast(in, at, parts, n, o)
    BY <1>1, <1>3, <1>5, <1>6, SMTT(30) DEF at
  <2> QED
    BY ONLY <2>1, PastNext
<1>11. Holds(in, o, PutItem(next))
  BY <1>6, <1>10 DEF next
<1>12. /\ o + 2 <= Len(in) /\ in[o + 2] = Len(next.script)
       /\ o + 2 + in[o + 2] <= Len(in)
       /\ next = [amount |-> in[o + 1],
                  script |-> SubSeq(in, o + 3, o + 2 + in[o + 2])]
       /\ Len(PutItem(next)) = 2 + in[o + 2]
  BY <1>7, <1>11, HeldItem, Zenon
<1>13. item = next
  BY <1>12, Zenon
<1>14. in[o + 2] <= MaxScript
  BY <1>8, <1>12, Zenon
<1>15. ASSUME Suits(name, Append(items, item))
       PROVE  InListOf(e, in, o + 2 + in[o + 2], With(env, name, Append(items, item)),
                       k, m - 1, start)
  <2> DEFINE more == Append(items, item)
             new == With(env, name, more)
  <2>1. Suits(name, more)
    BY <1>15
  <2>2. /\ Len(more) = n + 1
        /\ \A i \in 1..n : more[i] = items[i]
        /\ more[n + 1] = next
    BY <1>4, <1>7, <1>13 DEF n
  <2>3. new = With(env, name, more)
    OBVIOUS
  <2> HIDE DEF more, new
  <2>4. name \in FieldNames /\ name # "kind"
    BY DEF FieldNames, ListNames
  <2>5. new \in Raw /\ new[name] = more /\ new.kind = env.kind /\ SameBut(new, env, name)
    BY <2>1, <2>3, <2>4, SetField
  <2>6. /\ env.kind = e.kind /\ k \in 3..(FieldCount(e.kind) - 1)
        /\ name = NameAt(e.kind, k + 1) /\ Agrees(e, env, k)
    BY ONLY k \in 3..(FieldCount(env.kind) - 1), Encoding(e, in), <1>1,
       name = NameAt(env.kind, k + 1), FieldOf
  <2>7. Agrees(e, new, k)
    BY <2>5, <2>6, AgreesStill, Zenon
  <2>8. AtFieldOf(e, in, start, new, k)
    BY <1>1, <2>7 DEF AtFieldOf
  <2>9. \A i \in 1..Len(more) : more[i] = list[i]
    <3> SUFFICES ASSUME NEW i \in 1..(n + 1) PROVE more[i] = list[i]
      BY <2>2
    <3>1. CASE i = n + 1
      BY <2>2, <3>1, <1>9
    <3>2. CASE i # n + 1
      <4>1. i \in 1..n
        BY <1>5, <3>2
      <4> QED
        BY <1>1, <2>2, <4>1
    <3> QED
      BY <3>1, <3>2
  <2>10. Len(list) = Len(more) + (m - 1)
    BY <1>1, <1>5, <2>2
  <2>11. o + Len(parts[n + 1]) = o + 2 + in[o + 2]
    <3>1. Len(parts[n + 1]) = 2 + in[o + 2]
      BY <1>6, <1>12, <1>9, Zenon
    <3>2. in[o + 2] \in Nat
      <4>1. in \in Seq(Nat) /\ o + 2 <= Len(in) /\ o \in Nat
        BY <1>2, <1>12
      <4> QED
        BY ONLY <4>1
    <3> QED
      BY ONLY <3>1, <3>2, o \in Nat, SMTT(30)
  <2>12. LaidPast(in, start + 1, ItemPieces(list), Len(more), o + 2 + in[o + 2])
    BY <1>10, <2>2, <2>11 DEF at, parts
  <2>13. /\ name = NameAt(new.kind, k + 1)
         /\ LaidPast(in, start + 1, ItemPieces(e[name]), Len(new[name]), o + 2 + in[o + 2])
         /\ Len(e[name]) = Len(new[name]) + (m - 1)
         /\ \A i \in 1..Len(new[name]) : new[name][i] = e[name][i]
    BY <2>5, <2>9, <2>10, <2>12, Zenon DEF list
  <2>14. InListOf(e, in, o + 2 + in[o + 2], new, k, m - 1, start)
    BY <2>8, <2>13, Zenon DEF InListOf
  <2> QED
    BY <2>14 DEF new, more
<1> QED
  BY <1>12, <1>14, <1>15 DEF items

(* With no item to go the list is the envelope's.                          *)
LEMMA ListEndOf ==
  ASSUME NEW e, NEW in \in Strings, NEW o \in Nat, NEW env \in Raw,
         NEW k \in 3..(FieldCount(env.kind) - 1), NEW start \in Nat,
         Encoding(e, in), InListOf(e, in, o, env, k, 0, start),
         NameAt(env.kind, k + 1) \in ListNames
  PROVE  AtFieldOf(e, in, o, env, k + 1)
<1> DEFINE name == NameAt(env.kind, k + 1)
           list == e[name]
           items == env[name]
           parts == ItemPieces(list)
           rest == FlattenSeq(parts)
           piece == PutItems(list)
           at == start + 1
<1>1. /\ AtFieldOf(e, in, start, env, k)
      /\ LaidPast(in, start + 1, parts, Len(items), o)
      /\ Len(list) = Len(items) + 0
      /\ \A i \in 1..Len(items) : items[i] = list[i]
  BY Zenon DEF InListOf
<1>2. name = NameAt(env.kind, k + 1) /\ name \in ListNames
  OBVIOUS
<1> HIDE DEF name
<1>3. in \in Seq(Nat) /\ start \in Nat
  BY StringsAreBytes
<1>4. /\ list \in Seq(TxOut) /\ start + 1 <= Len(in) /\ in[start + 1] = Len(list)
      /\ Pieces(e)[k + 1] = piece
  <2>1. in \in Seq(Nat) /\ start \in Nat /\ AtFieldOf(e, in, start, env, k)
        /\ k \in 3..(FieldCount(env.kind) - 1) /\ Encoding(e, in)
        /\ name = NameAt(env.kind, k + 1) /\ name \in ListNames /\ list = e[name]
    BY <1>1, <1>3, <1>2
  <2> HIDE DEF list
  <2> QED
    BY ONLY <2>1, ListPieceOf
<1>5. items \in Seq(TxOut)
  BY <1>2, RawFields, Zenon
<1>6. list = e[name] /\ items = env[name]
  OBVIOUS
<1> HIDE DEF list, items
<1>7. Len(items) = Len(list) /\ Len(list) \in Nat
  BY <1>1, <1>4, <1>5
<1>8. items = list
  <2>1. \A i \in 1..Len(items) : items[i] = list[i]
    BY <1>1
  <2> QED
    BY <1>4, <1>5, <1>7, <2>1, SeqEqual, Zenon
<1>9. /\ piece = <<Len(list)>> \o rest /\ rest \in Seq(Nat)
      /\ Len(piece) = 1 + Len(rest)
  BY <1>4, PutItemsTyped, Zenon
<1>10. parts \in Seq(Seq(Nat)) /\ Len(parts) = Len(list)
  BY <1>4, ItemPiecesTyped, Zenon
<1>11. LaidPast(in, at, parts, Len(parts), o)
  BY <1>1, <1>7, <1>10, Zenon
<1>12. piece = Pieces(e)[k + 1]
  BY <1>4
<1> HIDE DEF parts, piece
<1>13. o = at + Len(rest)
  <2>1. in \in Seq(Nat) /\ at \in Nat /\ at <= Len(in) /\ parts \in Seq(Seq(Nat))
        /\ LaidPast(in, at, parts, Len(parts), o)
    BY <1>3, <1>4, <1>10, <1>11
  <2> HIDE DEF at
  <2> QED
    BY ONLY <2>1, PastOut
<1> HIDE DEF rest
<1>14. o = start + Len(piece)
  <2>1. Len(rest) \in Nat
    BY <1>9
  <2> QED
    BY <1>3, <1>9, <1>13, <2>1
<1>15. name \in FieldNames /\ SameBut(env, env, name) /\ env[name] = e[name]
  BY <1>8, <1>2, <1>6 DEF FieldNames, SameBut
<1>16. AtFieldOf(e, in, start + Len(piece), env, k + 1)
  BY <1>1, <1>3, <1>2, <1>15, <1>12, WrittenOf, Zenon
<1> QED
  BY <1>14, <1>16

(* With no field to go all of the envelope is read.                        *)
LEMMA EndOf ==
  ASSUME NEW e, NEW in \in Seq(Nat), NEW o \in Nat, NEW env \in Raw,
         NEW k, k = FieldCount(env.kind), env.kind # 0, Unread(env, k),
         Encoding(e, in), AtFieldOf(e, in, o, env, k)
  PROVE  o = Len(in) /\ env = e
<1> DEFINE parts == Pieces(e)
<1>1. e \in Raw /\ in = FlattenSeq(parts) /\ ValidateLimits(e)
      /\ (e.kind = OwnerExit => e.outcome = << >> /\ e.payouts = << >>)
  BY EncodingMeans, Zenon
<1>2. LaidPast(in, 0, parts, k, o) /\ Agrees(e, env, k)
  BY DEF AtFieldOf
<1>3. k \in {12, 14} /\ k \in Nat /\ k >= 3
  BY KindCount
<1>4. env.kind = e.kind
  BY <1>2, <1>3, KindOf, Zenon
<1>5. parts \in Seq(Seq(Nat)) /\ Len(parts) = k
  BY <1>1, <1>4, PartsArePieces
<1> HIDE DEF parts
<1>6. o = Len(in)
  <2>1. in \in Seq(Nat) /\ 0 \in Nat /\ 0 <= Len(in) /\ parts \in Seq(Seq(Nat))
        /\ LaidPast(in, 0, parts, Len(parts), o)
    BY <1>2, <1>5
  <2>2. o = 0 + Len(FlattenSeq(parts))
    BY ONLY <2>1, PastOut
  <2>3. Len(in) \in Nat
    OBVIOUS
  <2> QED
    BY <1>1, <2>2, <2>3
<1>7. ASSUME NEW name \in FieldNames PROVE env[name] = e[name]
  <2>1. CASE Place(e.kind, name) <= k
    BY <1>2, <2>1 DEF Agrees
  <2>2. CASE ~(Place(e.kind, name) <= k)
    <3>1. Place(e.kind, name) \in 3..15
      BY PlacesMatch
    <3>2. Place(e.kind, name) > k
      BY <1>3, <2>2, <3>1
    <3>3. env[name] = Blank[name]
      BY <1>4, <3>2 DEF Unread
    <3>4. e.kind = OwnerExit /\ name \in {"outcome", "payouts"}
      BY <1>3, <1>4, <3>2 DEF FieldCount, Place, FieldNames, DigitNames, StringNames, ListNames
    <3> QED
      BY <1>1, <3>3, <3>4 DEF Blank
  <2> QED
    BY <2>1, <2>2
<1>8. env = e
  <2>1. /\ env = [name \in FieldNames |-> env[name]]
        /\ e = [name \in FieldNames |-> e[name]]
    BY <1>1 DEF Raw, FieldNames, DigitNames, StringNames, ListNames
  <2> QED
    BY <1>7, <2>1
<1> QED
  BY <1>6, <1>8

-----------------------------------------------------------------------------
(* Where the reader is, whatever it has read *)

(* No envelope within the limits has this encoding.                        *)
NotEncoded(in) == \A e : ~Encoding(e, in)

(* On the encoding of an envelope the reader is at the place of its        *)
(* pieces.                                                                 *)
Follows(in, o, env, k) == \A e : Encoding(e, in) => AtFieldOf(e, in, o, env, k)

FollowsList(in, o, env, k, m, start) ==
  \A e : Encoding(e, in) => InListOf(e, in, o, env, k, m, start)

(* Between two fields, with nothing amiss so far, *)
Between(in, o, td, env) ==
  \E k : AtField(in, o, td, env, k) /\ Follows(in, o, env, k)

(* or in a list with items to go. *)
Within(in, o, td, env) ==
  \E k, m, start : /\ m # 0
                   /\ InList(in, o, td, env, k, m, start)
                   /\ FollowsList(in, o, env, k, m, start)

(* At every step the reader is in one of the two. *)
Reader(in, o, td, env) == Between(in, o, td, env) \/ Within(in, o, td, env)

(* Wherever the reader is, it is inside its input and within the limits. *)
LEMMA ReaderInside ==
  ASSUME NEW in \in Strings, NEW o, NEW td, NEW env, Reader(in, o, td, env)
  PROVE  o \in Nat /\ o <= Len(in) /\ env \in Raw /\ ValidateLimits(env)
<1>1. in \in Seq(Nat)
  BY StringsAreBytes
<1>2. CASE Between(in, o, td, env)
  <2>1. PICK k : AtField(in, o, td, env, k)
    BY <1>2, Zenon DEF Between
  <2>2. env \in Raw /\ ValidateLimits(env) /\ Held(in, o, env, k)
    BY <2>1, AtFieldMeans, Zenon
  <2> QED
    BY <1>1, <2>2, HeldInside, Zenon
<1>3. CASE Within(in, o, td, env)
  <2>1. PICK k, m, start : InList(in, o, td, env, k, m, start)
    BY <1>3, Zenon DEF Within
  <2>2. o \in Nat /\ o <= Len(in)
    BY <1>1, <2>1, ListInside, Zenon
  <2>3. env \in Raw /\ ValidateLimits(env)
    BY <2>1, InListMeans, Zenon
  <2> QED
    BY <2>2, <2>3
<1> QED
  BY <1>2, <1>3, Zenon DEF Reader

(* Which field is next.                                                    *)
LEMMA NextIs ==
  ASSUME NEW in, NEW o, NEW td, NEW env, NEW k, AtField(in, o, td, env, k), td # << >>,
         NEW name, name = NameAt(env.kind, k + 1)
  PROVE  /\ k \in 0..(FieldCount(env.kind) - 1)
         /\ Head(td).name = name
         /\ Head(td).form = "tag" => k \in 0..1 /\ Head(td).max = FieldAt(env.kind, k + 1).max
         /\ Head(td).form = "kind" => k = 2
         /\ Head(td).form = "digit" => name \in DigitNames
         /\ Head(td).form = "bytes" => name \in StringNames
         /\ Head(td).form = "count" => name \in ListNames
         /\ Head(td).form # "item"
         /\ Head(td).form \in {"digit", "bytes", "count"} =>
              /\ k \in 3..(FieldCount(env.kind) - 1)
              /\ Head(td).max = LimitOf(name)
<1>1. k \in 0..FieldCount(env.kind) /\ k \in Nat /\ Remains(td, 0, "", k, env.kind)
  BY AtFieldMeans, Zenon
<1>2. k < FieldCount(env.kind) /\ Head(td) = FieldAt(env.kind, k + 1)
  BY <1>1, FieldLeft, Zenon
<1>3. FieldCount(env.kind) \in 1..14
  BY KindCount
<1> DEFINE q == k + 1
<1>4. /\ q \in 1..14 /\ k \in 0..(FieldCount(env.kind) - 1)
      /\ q < 3 => k \in 0..1
      /\ q = 3 => k = 2
      /\ q > 3 => k \in 3..(FieldCount(env.kind) - 1)
  <2> DEFINE n == FieldCount(env.kind)
  <2>1. n \in 1..14 /\ k \in Nat /\ k < n
    BY <1>1, <1>2, <1>3
  <2> HIDE DEF n
  <2>2. /\ k + 1 \in 1..14 /\ k \in 0..(n - 1)
        /\ k + 1 < 3 => k \in 0..1
        /\ k + 1 = 3 => k = 2
        /\ k + 1 > 3 => k \in 3..(n - 1)
    BY ONLY <2>1
  <2> QED
    BY <2>2, Zenon DEF n
<1> HIDE DEF q
<1>5. LET field == FieldAt(env.kind, q)
          n == NameAt(env.kind, q) IN
      /\ field.name = n
      /\ field.form = "tag" <=> q < 3
      /\ field.form = "kind" <=> q = 3
      /\ field.form = "digit" <=> n \in DigitNames
      /\ field.form = "bytes" <=> n \in StringNames
      /\ field.form = "count" <=> n \in ListNames
      /\ field.form # "item"
      /\ q > 2 => field.max = LimitOf(n)
  BY <1>4, FieldsTyped, ZenonT(60)
<1>6. Head(td) = FieldAt(env.kind, q) /\ name = NameAt(env.kind, q)
  BY <1>2 DEF q
<1> DEFINE form == Head(td).form
<1>7. /\ Head(td).name = name
      /\ form = "tag" <=> q < 3
      /\ form = "kind" <=> q = 3
      /\ form = "digit" <=> name \in DigitNames
      /\ form = "bytes" <=> name \in StringNames
      /\ form = "count" <=> name \in ListNames
      /\ form # "item"
      /\ q > 2 => Head(td).max = LimitOf(name)
  BY <1>5, <1>6
<1>8. form = "tag" => k \in 0..1 /\ Head(td).max = FieldAt(env.kind, k + 1).max
  BY <1>4, <1>6, <1>7, Zenon DEF q
<1>9. form = "kind" => k = 2
  BY <1>4, <1>7, Zenon
<1> HIDE DEF form
<1>10. form \in {"digit", "bytes", "count"} => q > 3
  BY ONLY <1>4, <1>7
<1>11. form \in {"digit", "bytes", "count"} =>
         /\ k \in 3..(FieldCount(env.kind) - 1)
         /\ Head(td).max = LimitOf(name)
  <2>1. q > 3 => q > 2
    BY ONLY <1>4
  <2> QED
    BY <1>4, <1>7, <1>10, <2>1, Zenon
<1> QED
  BY <1>4, <1>7, <1>8, <1>9, <1>11, Zenon DEF form

(* In a list the next thing to read is an item of it. *)
LEMMA ItemNext ==
  ASSUME NEW in, NEW o, NEW td, NEW env, NEW k, NEW m, NEW start,
         InList(in, o, td, env, k, m, start), m # 0,
         NEW name, name = NameAt(env.kind, k + 1)
  PROVE  td # << >> /\ Head(td) = Field("item", name, MaxScript)
<1>1. m \in Nat /\ k \in 3..(FieldCount(env.kind) - 1) /\ Remains(td, m, name, k + 1, env.kind)
  BY InListMeans, ZenonT(40)
<1>2. k + 1 \in 0..FieldCount(env.kind)
  BY <1>1, KindCount
<1>3. m \in Nat \ {0}
  BY <1>1
<1> QED
  BY <1>1, <1>2, <1>3, ItemLeft, Zenon

(* Between two fields unless it is an item that is next.                   *)
LEMMA NotItem ==
  ASSUME NEW in, NEW o, NEW td, NEW env, Reader(in, o, td, env),
         td # << >> => Head(td).form # "item"
  PROVE  \E k : AtField(in, o, td, env, k) /\ Follows(in, o, env, k)
<1>1. CASE Within(in, o, td, env)
  <2>1. PICK k, m, start : m # 0 /\ InList(in, o, td, env, k, m, start)
    BY <1>1, Zenon DEF Within
  <2>2. td # << >> /\ Head(td) = Field("item", NameAt(env.kind, k + 1), MaxScript)
    BY ONLY <2>1, ItemNext
  <2>3. Head(td).form = "item"
    BY <2>2 DEF Field
  <2> QED
    BY <2>2, <2>3
<1> QED
  BY <1>1, Zenon DEF Reader, Between

(* In a list when it is an item that is next. *)
LEMMA AnItem ==
  ASSUME NEW in, NEW o, NEW td, NEW env, Reader(in, o, td, env),
         td # << >>, Head(td).form = "item"
  PROVE  \E k, m, start : /\ m # 0
                          /\ InList(in, o, td, env, k, m, start)
                          /\ FollowsList(in, o, env, k, m, start)
<1>1. CASE Between(in, o, td, env)
  <2>1. PICK k : AtField(in, o, td, env, k)
    BY <1>1, Zenon DEF Between
  <2>2. Head(td).form # "item"
    BY <2>1, NextIs
  <2> QED
    BY <2>2
<1> QED
  BY <1>1, Zenon DEF Reader, Within

-----------------------------------------------------------------------------
(* One step of the reader *)

(* A tag that is not there, or another one, is in no encoding.             *)
LEMMA TagStep ==
  ASSUME NEW in \in Strings, NEW o, NEW td, NEW env, Reader(in, o, td, env),
         td # << >>, Head(td).form = "tag"
  PROVE  /\ o = Len(in) \/ in[o + 1] # Head(td).max => NotEncoded(in)
         /\ o # Len(in) /\ in[o + 1] = Head(td).max => Reader(in, o + 1, Tail(td), env)
<1>1. PICK k : AtField(in, o, td, env, k) /\ Follows(in, o, env, k)
  <2>1. Head(td).form # "item"
    OBVIOUS
  <2> QED
    BY <2>1, NotItem, Zenon
<1>2. k \in 0..1 /\ Head(td).max = FieldAt(env.kind, k + 1).max
  BY <1>1, NextIs
<1>3. in \in Seq(Nat) /\ o \in Nat /\ o <= Len(in)
  BY StringsAreBytes, ReaderInside
<1>4. ASSUME NEW e, Encoding(e, in)
      PROVE  /\ o + 1 <= Len(in) /\ in[o + 1] = Head(td).max
             /\ AtFieldOf(e, in, o + 1, env, k + 1)
  <2>1. AtFieldOf(e, in, o, env, k)
    BY <1>1, <1>4, Zenon DEF Follows
  <2> QED
    BY ONLY <1>2, <1>3, <1>4, <2>1, TagOf
<1>5. ASSUME o = Len(in) \/ in[o + 1] # Head(td).max PROVE NotEncoded(in)
  <2> SUFFICES ASSUME NEW e, Encoding(e, in) PROVE FALSE
    BY Zenon DEF NotEncoded
  <2>1. o + 1 <= Len(in) /\ in[o + 1] = Head(td).max
    BY <1>4, Zenon
  <2>2. o # Len(in)
    BY ONLY <1>3, <2>1
  <2> QED
    BY <1>5, <2>1, <2>2, Zenon
<1>6. ASSUME o # Len(in), in[o + 1] = Head(td).max PROVE Reader(in, o + 1, Tail(td), env)
  <2>1. o + 1 <= Len(in)
    BY ONLY <1>3, <1>6
  <2>2. AtField(in, o + 1, Tail(td), env, k + 1)
    <3>1. /\ in \in Seq(Nat) /\ k \in 0..1 /\ AtField(in, o, td, env, k) /\ td # << >>
          /\ o + 1 <= Len(in) /\ in[o + 1] = FieldAt(env.kind, k + 1).max
      BY <1>1, <1>2, <1>3, <1>6, <2>1
    <3> QED
      BY ONLY <3>1, TagRead
  <2>3. Follows(in, o + 1, env, k + 1)
    BY <1>4, Zenon DEF Follows
  <2> QED
    BY <2>2, <2>3, Zenon DEF Reader, Between
<1> QED
  BY <1>5, <1>6, Zenon

(* The kind says what follows.                                             *)
LEMMA KindStep ==
  ASSUME NEW in \in Strings, NEW o, NEW td, NEW env, Reader(in, o, td, env),
         td # << >>, Head(td).form = "kind"
  PROVE  /\ o = Len(in) \/ in[o + 1] \notin ClaimKinds => NotEncoded(in)
         /\ o # Len(in) /\ in[o + 1] \in ClaimKinds
              => Reader(in, o + 1, Layout(in[o + 1]), With(env, "kind", in[o + 1]))
<1>1. PICK k : AtField(in, o, td, env, k) /\ Follows(in, o, env, k)
  <2>1. Head(td).form # "item"
    OBVIOUS
  <2> QED
    BY <2>1, NotItem, Zenon
<1>2. k = 2
  BY <1>1, NextIs
<1>3. in \in Seq(Nat) /\ o \in Nat /\ o <= Len(in) /\ env \in Raw
  BY StringsAreBytes, ReaderInside
<1> DEFINE kind == in[o + 1]
           new == With(env, "kind", kind)
<1> HIDE DEF new
<1>4. ASSUME NEW e, Encoding(e, in)
      PROVE  o + 1 <= Len(in) /\ kind \in ClaimKinds /\ AtFieldOf(e, in, o + 1, new, 3)
  <2>1. AtFieldOf(e, in, o, env, 2)
    BY <1>1, <1>2, <1>4, Zenon DEF Follows
  <2>2. /\ o + 1 <= Len(in) /\ in[o + 1] \in ClaimKinds
        /\ AtFieldOf(e, in, o + 1, With(env, "kind", in[o + 1]), 3)
    BY ONLY <1>3, <1>4, <2>1, KindReadOf
  <2> QED
    BY <2>2 DEF new
<1>5. ASSUME o = Len(in) \/ kind \notin ClaimKinds PROVE NotEncoded(in)
  <2> SUFFICES ASSUME NEW e, Encoding(e, in) PROVE FALSE
    BY Zenon DEF NotEncoded
  <2>1. o + 1 <= Len(in) /\ kind \in ClaimKinds
    BY <1>4, Zenon
  <2>2. o # Len(in)
    BY ONLY <1>3, <2>1
  <2> QED
    BY <1>5, <2>1, <2>2, Zenon
<1>6. ASSUME o # Len(in), kind \in ClaimKinds PROVE Reader(in, o + 1, Layout(kind), new)
  <2>1. o + 1 <= Len(in)
    BY ONLY <1>3, <1>6
  <2>2. AtField(in, o + 1, Layout(kind), new, 3)
    <3>1. AtField(in, o, td, env, 2)
      BY <1>1, <1>2
    <3> QED
      BY <1>3, <1>6, <2>1, <3>1, KindRead DEF new
  <2>3. Follows(in, o + 1, new, 3)
    BY <1>4, Zenon DEF Follows
  <2> QED
    BY <2>2, <2>3, Zenon DEF Reader, Between
<1> QED
  BY <1>5, <1>6, Zenon DEF new

(* A digit that is not there is in no encoding; one that is there is       *)
(* written down.                                                           *)
LEMMA DigitStep ==
  ASSUME NEW in \in Strings, NEW o, NEW td, NEW env, Reader(in, o, td, env),
         td # << >>, Head(td).form = "digit"
  PROVE  /\ o = Len(in) => NotEncoded(in)
         /\ o # Len(in) => Reader(in, o + 1, Tail(td), With(env, Head(td).name, in[o + 1]))
<1>1. PICK k : AtField(in, o, td, env, k) /\ Follows(in, o, env, k)
  <2>1. Head(td).form # "item"
    OBVIOUS
  <2> QED
    BY <2>1, NotItem, Zenon
<1> DEFINE name == NameAt(env.kind, k + 1)
<1>2. name = NameAt(env.kind, k + 1)
  OBVIOUS
<1> HIDE DEF name
<1>3. k \in 3..(FieldCount(env.kind) - 1) /\ name \in DigitNames /\ Head(td).name = name
  BY <1>1, <1>2, NextIs
<1>4. in \in Seq(Nat) /\ o \in Nat /\ o <= Len(in) /\ env \in Raw
  BY StringsAreBytes, ReaderInside
<1> DEFINE value == in[o + 1]
           new == With(env, name, value)
<1> HIDE DEF new
<1>5. ASSUME NEW e, Encoding(e, in)
      PROVE  o + 1 <= Len(in) /\ AtFieldOf(e, in, o + 1, new, k + 1)
  <2>1. AtFieldOf(e, in, o, env, k)
    BY <1>1, <1>5, Zenon DEF Follows
  <2>2. o + 1 <= Len(in) /\ AtFieldOf(e, in, o + 1, With(env, name, in[o + 1]), k + 1)
    BY ONLY <1>3, <1>4, <1>5, <1>2, <2>1, DigitOf
  <2> QED
    BY <2>2 DEF new
<1>6. ASSUME o = Len(in) PROVE NotEncoded(in)
  <2> SUFFICES ASSUME NEW e, Encoding(e, in) PROVE FALSE
    BY Zenon DEF NotEncoded
  <2>1. o + 1 <= Len(in)
    BY <1>5, Zenon
  <2> QED
    BY ONLY <1>4, <1>6, <2>1
<1>7. ASSUME o # Len(in) PROVE Reader(in, o + 1, Tail(td), new)
  <2>1. o + 1 <= Len(in)
    BY ONLY <1>4, <1>7
  <2> DEFINE piece == <<value>>
  <2>2. value \in Digit
    <3>1. in \in Seq(Digit) /\ o + 1 \in 1..Len(in)
      BY <1>4, <2>1 DEF Strings
    <3> QED
      BY <3>1
  <2>3. Len(piece) = 1 /\ Holds(in, o, piece)
    BY <2>1 DEF Holds
  <2>4. piece = <<value>>
    OBVIOUS
  <2> HIDE DEF value, piece
  <2>5. AtField(in, o + Len(piece), Tail(td), With(env, name, value), k + 1)
    BY ONLY <1>1, <1>3, <1>4, <1>2, <2>2, <2>3, <2>4, td # << >>, ValueRead
  <2>6. AtField(in, o + 1, Tail(td), new, k + 1)
    BY <2>3, <2>5 DEF new
  <2>7. Follows(in, o + 1, new, k + 1)
    BY <1>5, Zenon DEF Follows
  <2> QED
    BY <2>6, <2>7, Zenon DEF Reader, Between
<1> QED
  BY <1>3, <1>6, <1>7, Zenon DEF new

(* A length above the limit, or more than what is left, is in no encoding; *)
(* otherwise the string is written down.                                   *)
LEMMA BytesStep ==
  ASSUME NEW in \in Strings, NEW o, NEW td, NEW env, Reader(in, o, td, env),
         td # << >>, Head(td).form = "bytes"
  PROVE  LET len == in[o + 1]
             name == Head(td).name
             value == SubSeq(in, o + 2, o + 1 + len) IN
         /\ o = Len(in) \/ len > Head(td).max \/ o + (1 + len) > Len(in) => NotEncoded(in)
         /\ o # Len(in) /\ ~(len > Head(td).max) /\ ~(o + (1 + len) > Len(in))
              => Reader(in, o + (1 + len), Tail(td), With(env, name, value))
<1>1. PICK k : AtField(in, o, td, env, k) /\ Follows(in, o, env, k)
  <2>1. Head(td).form # "item"
    OBVIOUS
  <2> QED
    BY <2>1, NotItem, Zenon
<1> DEFINE name == NameAt(env.kind, k + 1)
<1>2. name = NameAt(env.kind, k + 1)
  OBVIOUS
<1> HIDE DEF name
<1>3. /\ k \in 3..(FieldCount(env.kind) - 1) /\ name \in StringNames /\ Head(td).name = name
      /\ Head(td).max = LimitOf(name)
  BY <1>1, <1>2, NextIs
<1>4. in \in Seq(Nat) /\ o \in Nat /\ o <= Len(in) /\ env \in Raw
  BY StringsAreBytes, ReaderInside
<1>5. LimitOf(name) \in Nat
  BY <1>3, Forms DEF FieldNames
<1> DEFINE len == in[o + 1]
           value == SubSeq(in, o + 2, o + 1 + len)
           new == With(env, name, value)
<1> HIDE DEF new
<1>6. o # Len(in) => o + 1 <= Len(in) /\ len \in Nat
  BY ONLY <1>4
<1>7. ASSUME NEW e, Encoding(e, in)
      PROVE  /\ o + 1 <= Len(in) /\ len <= LimitOf(name) /\ o + 1 + len <= Len(in)
             /\ AtFieldOf(e, in, o + 1 + len, new, k + 1)
  <2>1. AtFieldOf(e, in, o, env, k)
    BY <1>1, <1>7, Zenon DEF Follows
  <2>2. /\ o + 1 <= Len(in) /\ in[o + 1] <= LimitOf(name)
        /\ o + 1 + in[o + 1] <= Len(in)
        /\ AtFieldOf(e, in, o + 1 + in[o + 1],
                     With(env, name, SubSeq(in, o + 2, o + 1 + in[o + 1])), k + 1)
    BY ONLY <1>3, <1>4, <1>7, <1>2, <2>1, in \in Strings, StringOf
  <2> QED
    BY <2>2 DEF new
<1> HIDE DEF len, value
<1>8. ASSUME o = Len(in) \/ len > Head(td).max \/ o + (1 + len) > Len(in) PROVE NotEncoded(in)
  <2> SUFFICES ASSUME NEW e, Encoding(e, in) PROVE FALSE
    BY Zenon DEF NotEncoded
  <2>1. o + 1 <= Len(in) /\ len <= LimitOf(name) /\ o + 1 + len <= Len(in)
    BY <1>7, Zenon
  <2> QED
    BY ONLY <1>3, <1>4, <1>8, <1>5, <1>6, <2>1
<1>9. ASSUME o # Len(in), ~(len > Head(td).max), ~(o + (1 + len) > Len(in))
      PROVE  Reader(in, o + (1 + len), Tail(td), new)
  <2>1. /\ o + 1 <= Len(in) /\ len \in Nat /\ len <= LimitOf(name) /\ o + 1 + len <= Len(in)
        /\ o + 1 + len = o + (1 + len)
    <3>1. o + 1 <= Len(in) /\ len \in Nat /\ o \in Nat /\ Len(in) \in Nat
      BY ONLY <1>4, <1>9, <1>6
    <3>2. ~(len > LimitOf(name))
      BY <1>3, <1>9, Zenon
    <3>3. len <= LimitOf(name)
      BY ONLY <1>5, <3>1, <3>2
    <3>4. o + 1 + len <= Len(in) /\ o + 1 + len = o + (1 + len)
      BY ONLY <1>9, <3>1
    <3> QED
      BY ONLY <3>1, <3>3, <3>4
  <2> DEFINE piece == PutBytes(value)
  <2>2. /\ value \in Strings /\ Len(value) = len
        /\ Holds(in, o, piece) /\ Len(piece) = 1 + len
    BY ONLY in \in Strings, <1>4, <2>1, BytesHeld DEF len, value
  <2>3. Len(value) <= LimitOf(name)
    BY <2>1, <2>2
  <2>4. piece = PutBytes(value)
    OBVIOUS
  <2> HIDE DEF piece
  <2>5. AtField(in, o + Len(piece), Tail(td), With(env, name, value), k + 1)
    BY ONLY <1>1, <1>3, <1>4, <1>2, <2>2, <2>3, <2>4, td # << >>, ValueRead
  <2>6. AtField(in, o + (1 + len), Tail(td), new, k + 1)
    BY <2>2, <2>5 DEF new
  <2>7. Follows(in, o + (1 + len), new, k + 1)
    BY <1>7, <2>1, Zenon DEF Follows
  <2> QED
    BY <2>6, <2>7, Zenon DEF Reader, Between
<1> QED
  BY <1>3, <1>8, <1>9, Zenon DEF new, value, len

(* A list with no item to go is read.                                      *)
LEMMA Listed ==
  ASSUME NEW in \in Strings, NEW o, NEW td, NEW env, NEW k, NEW m, NEW start,
         InList(in, o, td, env, k, m, start), FollowsList(in, o, env, k, m, start)
  PROVE  Reader(in, o, td, env)
<1>1. in \in Seq(Nat)
  BY StringsAreBytes
<1>2. CASE m = 0
  <2>1. InList(in, o, td, env, k, 0, start)
    BY <1>2, Zenon
  <2>2. AtField(in, o, td, env, k + 1)
    BY <1>1, <2>1, ListEnd, Zenon
  <2>3. o \in Nat /\ start \in Nat
    BY <1>1, <2>1, ListInside, Zenon
  <2>4. env \in Raw /\ k \in 3..(FieldCount(env.kind) - 1) /\ NameAt(env.kind, k + 1) \in ListNames
    BY <2>1, InListMeans, ZenonT(40)
  <2>5. ASSUME NEW e, Encoding(e, in) PROVE AtFieldOf(e, in, o, env, k + 1)
    <3>1. InListOf(e, in, o, env, k, 0, start)
      BY <1>2, <2>5, Zenon DEF FollowsList
    <3> QED
      BY ONLY in \in Strings, <2>3, <2>4, <2>5, <3>1, ListEndOf
  <2>6. Follows(in, o, env, k + 1)
    BY <2>5, Zenon DEF Follows
  <2> QED
    BY <2>2, <2>6, Zenon DEF Reader, Between
<1>3. CASE m # 0
  BY <1>3, Zenon DEF Reader, Within
<1> QED
  BY <1>2, <1>3, Zenon

(* A count above the limit is in no encoding; otherwise as many items are  *)
(* expected.                                                               *)
LEMMA CountStep ==
  ASSUME NEW in \in Strings, NEW o, NEW td, NEW env, Reader(in, o, td, env),
         td # << >>, Head(td).form = "count"
  PROVE  LET m == in[o + 1]
             name == Head(td).name IN
         /\ o = Len(in) \/ m > Head(td).max => NotEncoded(in)
         /\ o # Len(in) /\ ~(m > Head(td).max)
              => Reader(in, o + 1,
                        [i \in 1..m |-> Field("item", name, MaxScript)] \o Tail(td), env)
<1>1. PICK k : AtField(in, o, td, env, k) /\ Follows(in, o, env, k)
  <2>1. Head(td).form # "item"
    OBVIOUS
  <2> QED
    BY <2>1, NotItem, Zenon
<1> DEFINE name == NameAt(env.kind, k + 1)
<1>2. name = NameAt(env.kind, k + 1)
  OBVIOUS
<1> HIDE DEF name
<1>3. /\ k \in 3..(FieldCount(env.kind) - 1) /\ name \in ListNames /\ Head(td).name = name
      /\ Head(td).max = LimitOf(name)
  BY <1>1, <1>2, NextIs
<1>4. in \in Seq(Nat) /\ o \in Nat /\ o <= Len(in)
  BY StringsAreBytes, ReaderInside
<1>5. LimitOf(name) \in Nat
  BY <1>3, Forms DEF FieldNames
<1> DEFINE m == in[o + 1]
           all == [i \in 1..m |-> Field("item", name, MaxScript)] \o Tail(td)
<1> HIDE DEF all
<1>6. o # Len(in) => o + 1 <= Len(in) /\ m \in Nat
  BY ONLY <1>4
<1>7. ASSUME NEW e, Encoding(e, in)
      PROVE  o + 1 <= Len(in) /\ m <= LimitOf(name) /\ InListOf(e, in, o + 1, env, k, m, o)
  <2>1. AtFieldOf(e, in, o, env, k)
    BY <1>1, <1>7, Zenon DEF Follows
  <2>2. Unread(env, k)
    BY <1>1, AtFieldMeans, Zenon
  <2> QED
    BY ONLY <1>3, <1>4, <1>7, <1>2, <2>1, <2>2, CountOf
<1>8. m = in[o + 1]
  OBVIOUS
<1> HIDE DEF m
<1>9. ASSUME o = Len(in) \/ m > Head(td).max PROVE NotEncoded(in)
  <2> SUFFICES ASSUME NEW e, Encoding(e, in) PROVE FALSE
    BY Zenon DEF NotEncoded
  <2>1. o + 1 <= Len(in) /\ m <= LimitOf(name)
    BY <1>7, Zenon
  <2> QED
    BY ONLY <1>3, <1>4, <1>9, <1>5, <1>6, <2>1
<1>10. ASSUME o # Len(in), ~(m > Head(td).max) PROVE Reader(in, o + 1, all, env)
  <2>1. o + 1 <= Len(in) /\ m \in Nat
    BY ONLY <1>4, <1>10, <1>6
  <2>2. ~(m > LimitOf(name))
    BY <1>3, <1>10, Zenon
  <2>3. m <= LimitOf(name)
    BY ONLY <1>5, <2>1, <2>2
  <2>4. InList(in, o + 1, all, env, k, m, o)
    BY ONLY <1>1, <1>3, <1>4, <1>2, <1>8, <2>1, <2>3, td # << >>, CountRead DEF all
  <2>5. FollowsList(in, o + 1, env, k, m, o)
    BY <1>7, Zenon DEF FollowsList
  <2> QED
    BY <2>4, <2>5, Listed, Zenon
<1> QED
  BY <1>3, <1>9, <1>10, <1>8, Zenon DEF all

(* A script above the limit, or more than what is left, is in no encoding; *)
(* otherwise the item is added to its list.                                *)
LEMMA ItemStep ==
  ASSUME NEW in \in Strings, NEW o, NEW td, NEW env, Reader(in, o, td, env),
         td # << >>, Head(td).form = "item"
  PROVE  LET len == in[o + 2]
             name == Head(td).name
             item == [amount |-> in[o + 1], script |-> SubSeq(in, o + 3, o + 2 + len)] IN
         /\ o + 2 > Len(in) \/ len > Head(td).max \/ o + (2 + len) > Len(in) => NotEncoded(in)
         /\ ~(o + 2 > Len(in)) /\ ~(len > Head(td).max) /\ ~(o + (2 + len) > Len(in))
              => Reader(in, o + (2 + len), Tail(td),
                        With(env, name, Append(env[name], item)))
<1>1. PICK k, m, start : /\ m # 0
                         /\ InList(in, o, td, env, k, m, start)
                         /\ FollowsList(in, o, env, k, m, start)
  BY AnItem, Zenon
<1> DEFINE name == NameAt(env.kind, k + 1)
<1>2. name = NameAt(env.kind, k + 1)
  OBVIOUS
<1> HIDE DEF name
<1>3. /\ env \in Raw /\ k \in 3..(FieldCount(env.kind) - 1) /\ name \in ListNames /\ m \in Nat
      /\ env[name] \in Seq(TxOut)
  BY <1>1, <1>2, InListMeans, ZenonT(40)
<1>4. Head(td).name = name /\ Head(td).max = MaxScript
  <2>1. Head(td) = Field("item", name, MaxScript)
    BY ONLY <1>1, <1>2, ItemNext
  <2> QED
    BY <2>1 DEF Field
<1>5. /\ in \in Seq(Nat) /\ o \in Nat /\ o <= Len(in) /\ start \in Nat
      /\ m \in Nat \ {0} /\ MaxScript \in Nat
  <2>1. in \in Seq(Nat) /\ MaxScript \in Nat
    BY StringsAreBytes, LimitFacts
  <2>2. o \in Nat /\ o <= Len(in) /\ start \in Nat
    BY <1>1, <2>1, ListInside, Zenon
  <2>3. m \in Nat \ {0}
    BY <1>1, <1>3
  <2> QED
    BY <2>1, <2>2, <2>3
<1> DEFINE len == in[o + 2]
           item == [amount |-> in[o + 1], script |-> SubSeq(in, o + 3, o + 2 + len)]
           new == With(env, name, Append(env[name], item))
<1>6. item = [amount |-> in[o + 1], script |-> SubSeq(in, o + 3, o + 2 + in[o + 2])]
  OBVIOUS
<1> HIDE DEF new, item
<1>7. ~(o + 2 > Len(in)) => o + 2 <= Len(in) /\ len \in Nat
  BY ONLY <1>5
<1>8. ASSUME NEW e, Encoding(e, in)
      PROVE  /\ o + 2 <= Len(in) /\ len <= MaxScript /\ o + 2 + len <= Len(in)
             /\ Suits(name, Append(env[name], item)) =>
                  InListOf(e, in, o + 2 + len, new, k, m - 1, start)
  <2>1. InListOf(e, in, o, env, k, m, start)
    BY <1>1, <1>8, Zenon DEF FollowsList
  <2> QED
    BY ONLY in \in Strings, <1>3, <1>5, <1>8, <1>2, <1>6, <2>1, ItemOf DEF new
<1>9. len = in[o + 2]
  OBVIOUS
<1> HIDE DEF len
<1>10. ASSUME o + 2 > Len(in) \/ len > Head(td).max \/ o + (2 + len) > Len(in)
      PROVE  NotEncoded(in)
  <2> SUFFICES ASSUME NEW e, Encoding(e, in) PROVE FALSE
    BY Zenon DEF NotEncoded
  <2>1. o + 2 <= Len(in) /\ len <= MaxScript /\ o + 2 + len <= Len(in)
    BY <1>8, Zenon
  <2> QED
    BY ONLY <1>5, <1>10, <1>7, <1>4, <2>1
<1>11. ASSUME ~(o + 2 > Len(in)), ~(len > Head(td).max), ~(o + (2 + len) > Len(in))
      PROVE  Reader(in, o + (2 + len), Tail(td), new)
  <2>1. o + 2 <= Len(in) /\ len \in Nat
    BY <1>11, <1>7
  <2>2. ~(len > MaxScript)
    BY <1>11, <1>4, Zenon
  <2>3. len <= MaxScript /\ o + 2 + len <= Len(in) /\ o + 2 + len = o + (2 + len)
    BY ONLY <1>5, <1>11, <2>1, <2>2
  <2>4. /\ item \in TxOut /\ Len(item.script) = len
        /\ Holds(in, o, PutItem(item)) /\ Len(PutItem(item)) = 2 + len
    BY ONLY in \in Strings, <1>5, <1>6, <1>9, <2>1, <2>3, ItemHeld
  <2>5. Len(item.script) <= MaxScript
    BY <2>3, <2>4
  <2>6. InList(in, o + Len(PutItem(item)), Tail(td), new, k, m - 1, start)
    BY ONLY <1>1, <1>5, <1>2, <2>4, <2>5, ItemRead DEF new
  <2>7. InList(in, o + (2 + len), Tail(td), new, k, m - 1, start)
    BY <2>4, <2>6, Zenon
  <2>8. Suits(name, Append(env[name], item))
    BY ONLY <1>1, <1>3, <1>5, <1>2, <2>4, <2>5, ItemSuits
  <2>9. FollowsList(in, o + (2 + len), new, k, m - 1, start)
    BY <1>8, <2>3, <2>8, Zenon DEF FollowsList
  <2> QED
    BY <2>7, <2>9, Listed, Zenon
<1> QED
  BY <1>10, <1>11, <1>4, <1>9, Zenon DEF new, item

(* With no field to go: bytes left over are in no encoding, and an input   *)
(* read to its end is the encoding of what was read and of nothing else.   *)
LEMMA EndStep ==
  ASSUME NEW in \in Strings, NEW o, NEW env, Reader(in, o, << >>, env)
  PROVE  /\ o # Len(in) => NotEncoded(in)
         /\ o = Len(in) => EncodedBytes(env) = in
         /\ o = Len(in) => \A e : Encoding(e, in) => env = e
<1> DEFINE td == << >>
<1>1. PICK k : AtField(in, o, td, env, k) /\ Follows(in, o, env, k)
  <2>1. td = << >>
    OBVIOUS
  <2> QED
    BY <2>1, NotItem, Zenon
<1>2. /\ env \in Raw /\ k \in 0..FieldCount(env.kind) /\ Unread(env, k)
      /\ (k < 3 <=> env.kind = 0) /\ Held(in, o, env, k) /\ Remains(td, 0, "", k, env.kind)
  BY <1>1, AtFieldMeans, Zenon
<1>3. k = FieldCount(env.kind)
  <2>1. 0 \in Nat /\ td = << >>
    OBVIOUS
  <2> HIDE DEF td
  <2> QED
    BY ONLY <1>2, <2>1, NothingLeft
<1>4. env.kind # 0
  <2>1. FieldCount(env.kind) \in {12, 14}
    BY KindCount
  <2>2. ~(k < 3)
    BY ONLY <1>3, <2>1
  <2> QED
    BY <1>2, <2>2, Zenon
<1>5. in \in Seq(Nat) /\ o \in Nat
  BY StringsAreBytes, ReaderInside
<1>6. ASSUME NEW e, Encoding(e, in) PROVE o = Len(in) /\ env = e
  <2>1. AtFieldOf(e, in, o, env, k)
    BY <1>1, <1>6, Zenon DEF Follows
  <2> QED
    BY ONLY <1>2, <1>3, <1>4, <1>5, <1>6, <2>1, EndOf
<1>7. ASSUME o = Len(in) PROVE EncodedBytes(env) = in
  <2> DEFINE parts == Pieces(env)
             bytes == FlattenSeq(parts)
  <2>1. EncodedBytes(env) = bytes /\ parts \in Seq(Seq(Nat)) /\ Len(parts) = k
    BY <1>2, <1>3, PartsArePieces DEF EncodedBytes
  <2>2. LaidTo(in, 0, parts, Len(parts), o)
    BY <1>2, <2>1, Zenon DEF Held
  <2> HIDE DEF parts
  <2>3. 0 \in Nat /\ 0 <= Len(in)
    BY <1>5
  <2>4. bytes \in Seq(Nat) /\ Holds(in, 0, bytes) /\ o = 0 + Len(bytes)
    BY ONLY <1>5, <2>1, <2>2, <2>3, LaidOut
  <2> HIDE DEF bytes
  <2>5. Len(bytes) = Len(in) /\ \A i \in 1..Len(bytes) : bytes[i] = in[i]
    BY <1>7, <2>4 DEF Holds
  <2>6. bytes = in
    BY <1>5, <2>4, <2>5, SeqEqual, Zenon
  <2> QED
    BY <2>1, <2>6
<1>8. ASSUME o # Len(in) PROVE NotEncoded(in)
  BY <1>6, <1>8, Zenon DEF NotEncoded
<1> QED
  BY <1>6, <1>7, <1>8, Zenon

-----------------------------------------------------------------------------
(* The reader's inductive invariant *)

(* An input is read on or accepted only when nothing was amiss, and        *)
(* refused only when no envelope has that encoding.                        *)
StatusOK(in, o, td, st) ==
  /\ st \in {"reading", "accepted"} \cup EnvelopeErrors
  /\ st \in {"reading", "accepted"} => Len(in) <= MaxEnvelope
  /\ st = "accepted" => td = << >> /\ o = Len(in)
  /\ st \notin {"reading", "accepted"} => NotEncoded(in)

(* The invariant of decode. *)
ReaderInv ==
  /\ input \in Strings
  /\ Reader(input, offset, todo, envelope)
  /\ StatusOK(input, offset, todo, status)

(* Stopping with an error is right when nothing is encoded so;             *)
LEMMA ErrorKeeps ==
  ASSUME ReaderInv, NEW reason \in EnvelopeErrors, Error(reason), NotEncoded(input)
  PROVE  ReaderInv'
<1>1. reason \notin {"reading", "accepted"}
  BY DEF EnvelopeErrors
<1>2. StatusOK(input, offset, todo, reason)
  BY <1>1 DEF StatusOK
<1> QED
  BY <1>2 DEF ReaderInv, Error

(* taking bytes when the field is there and keeps the reader where it is.  *)
LEMMA TakeKeeps ==
  ASSUME ReaderInv, status = "reading", NEW len, NEW fields, NEW rest, Take(len, fields, rest),
         offset + len > Len(input) => NotEncoded(input),
         ~(offset + len > Len(input)) => Reader(input, offset + len, rest, fields)
  PROVE  ReaderInv'
<1>1. CASE offset + len > Len(input)
  <2>1. Error("UnexpectedEof") /\ "UnexpectedEof" \in EnvelopeErrors
    BY <1>1 DEF Take, EnvelopeErrors
  <2> QED
    BY <1>1, <2>1, ErrorKeeps
<1>2. CASE ~(offset + len > Len(input))
  <2>1. /\ offset' = offset + len /\ envelope' = fields /\ todo' = rest
        /\ input' = input /\ status' = status
    BY <1>2 DEF Take
  <2>2. Reader(input, offset + len, rest, fields)
    BY <1>2
  <2>3. StatusOK(input, offset + len, rest, "reading")
    BY DEF ReaderInv, StatusOK
  <2> QED
    BY <2>1, <2>2, <2>3 DEF ReaderInv
<1> QED
  BY <1>1, <1>2

(* What is known when a field of some form is read. *)
LEMMA Reads ==
  ASSUME ReaderInv, NEW form, Reading(form)
  PROVE  /\ input \in Strings /\ Reader(input, offset, todo, envelope)
         /\ status = "reading" /\ todo # << >> /\ Head(todo).form = form
         /\ offset \in Nat /\ Len(input) \in Nat /\ offset <= Len(input)
         /\ offset # Len(input) => ~(offset + 1 > Len(input))
<1>1. /\ input \in Strings /\ Reader(input, offset, todo, envelope)
      /\ status = "reading" /\ todo # << >> /\ Head(todo).form = form
  BY DEF ReaderInv, Reading, Due
<1>2. offset \in Nat /\ offset <= Len(input)
  BY ONLY <1>1, ReaderInside
<1>3. Len(input) \in Nat
  BY <1>1 DEF Strings
<1>4. offset # Len(input) => ~(offset + 1 > Len(input))
  BY ONLY <1>2, <1>3
<1> QED
  BY <1>1, <1>2, <1>3, <1>4

(* One by one: the tags, *)
LEMMA ReadTagKeeps ==
  ASSUME ReaderInv, ReadTag
  PROVE  ReaderInv'
<1>1. Reading("tag")
  BY DEF ReadTag
<1>2. /\ input \in Strings /\ Reader(input, offset, todo, envelope)
      /\ status = "reading" /\ todo # << >> /\ Head(todo).form = "tag"
      /\ offset # Len(input) => ~(offset + 1 > Len(input))
  BY <1>1, Reads
<1>3. /\ offset = Len(input) \/ input[offset + 1] # Head(todo).max => NotEncoded(input)
      /\ offset # Len(input) /\ input[offset + 1] = Head(todo).max
           => Reader(input, offset + 1, Tail(todo), envelope)
  BY ONLY <1>2, TagStep
<1>4. CASE ~AtEnd /\ Peek # Due.max
  <2>1. NotEncoded(input)
    BY <1>3, <1>4 DEF Peek, Due
  <2>2. PICK reason \in EnvelopeErrors : Error(reason)
    BY <1>4 DEF ReadTag, EnvelopeErrors
  <2> QED
    BY <2>1, <2>2, ErrorKeeps
<1>5. CASE ~(~AtEnd /\ Peek # Due.max)
  <2>1. Take(1, envelope, Tail(todo))
    BY <1>5 DEF ReadTag
  <2>2. offset = Len(input) \/ input[offset + 1] = Head(todo).max
    BY <1>5 DEF AtEnd, Peek, Due
  <2>3. offset + 1 > Len(input) => NotEncoded(input)
    BY <1>2, <1>3
  <2>4. ~(offset + 1 > Len(input)) => offset # Len(input)
    BY <1>1, Reads
  <2>5. ~(offset + 1 > Len(input)) => Reader(input, offset + 1, Tail(todo), envelope)
    BY <1>3, <2>2, <2>4
  <2> QED
    BY <1>2, <2>1, <2>3, <2>5, TakeKeeps
<1> QED
  BY <1>4, <1>5

(* the kind, *)
LEMMA ReadKindKeeps ==
  ASSUME ReaderInv, ReadKind
  PROVE  ReaderInv'
<1>1. Reading("kind")
  BY DEF ReadKind
<1>2. /\ input \in Strings /\ Reader(input, offset, todo, envelope)
      /\ status = "reading" /\ todo # << >> /\ Head(todo).form = "kind"
      /\ offset # Len(input) => ~(offset + 1 > Len(input))
  BY <1>1, Reads
<1> DEFINE kind == input[offset + 1]
<1>3. /\ offset = Len(input) \/ kind \notin ClaimKinds => NotEncoded(input)
      /\ offset # Len(input) /\ kind \in ClaimKinds
           => Reader(input, offset + 1, Layout(kind), With(envelope, "kind", kind))
  BY ONLY <1>2, KindStep
<1>4. CASE AtEnd \/ kind \notin ClaimKinds
  <2>1. NotEncoded(input)
    BY <1>3, <1>4 DEF AtEnd
  <2>2. PICK reason \in EnvelopeErrors : Error(reason)
    BY <1>4 DEF ReadKind, EnvelopeErrors, Peek, ClaimKinds
  <2> QED
    BY <2>1, <2>2, ErrorKeeps
<1>5. CASE ~AtEnd /\ kind \in ClaimKinds
  <2>1. Take(1, With(envelope, "kind", kind), Layout(kind))
    BY <1>5 DEF ReadKind, Peek, ClaimKinds, Set, With
  <2>2. Reader(input, offset + 1, Layout(kind), With(envelope, "kind", kind))
    BY <1>3, <1>5 DEF AtEnd
  <2>3. ~(offset + 1 > Len(input))
    BY <1>2, <1>5 DEF AtEnd
  <2> QED
    BY <1>2, <2>1, <2>2, <2>3, TakeKeeps
<1> QED
  BY <1>4, <1>5

(* a digit, *)
LEMMA ReadDigitKeeps ==
  ASSUME ReaderInv, ReadDigit
  PROVE  ReaderInv'
<1>1. Reading("digit")
  BY DEF ReadDigit
<1>2. /\ input \in Strings /\ Reader(input, offset, todo, envelope)
      /\ status = "reading" /\ todo # << >> /\ Head(todo).form = "digit"
      /\ offset # Len(input) => ~(offset + 1 > Len(input))
  BY <1>1, Reads
<1> DEFINE new == With(envelope, Head(todo).name, input[offset + 1])
<1>3. /\ offset = Len(input) => NotEncoded(input)
      /\ offset # Len(input) => Reader(input, offset + 1, Tail(todo), new)
  BY ONLY <1>2, DigitStep
<1>4. CASE AtEnd
  <2>1. NotEncoded(input)
    BY <1>3, <1>4 DEF AtEnd
  <2>2. PICK reason \in EnvelopeErrors : Error(reason)
    BY <1>4 DEF ReadDigit, EnvelopeErrors
  <2> QED
    BY <2>1, <2>2, ErrorKeeps
<1>5. CASE ~AtEnd
  <2>1. Take(1, new, Tail(todo))
    BY <1>5 DEF ReadDigit, Peek, Due, Set, With
  <2>2. Reader(input, offset + 1, Tail(todo), new)
    BY <1>3, <1>5 DEF AtEnd
  <2>3. ~(offset + 1 > Len(input))
    BY <1>2, <1>5 DEF AtEnd
  <2> QED
    BY <1>2, <2>1, <2>2, <2>3, TakeKeeps
<1> QED
  BY <1>4, <1>5

(* a string, *)
LEMMA ReadBytesKeeps ==
  ASSUME ReaderInv, ReadBytes
  PROVE  ReaderInv'
<1>1. Reading("bytes")
  BY DEF ReadBytes
<1>2. /\ input \in Strings /\ Reader(input, offset, todo, envelope)
      /\ status = "reading" /\ todo # << >> /\ Head(todo).form = "bytes"
  BY <1>1, Reads
<1> DEFINE len == input[offset + 1]
           new == With(envelope, Head(todo).name, SubSeq(input, offset + 2, offset + 1 + len))
<1>3. /\ offset = Len(input) \/ len > Head(todo).max \/ offset + (1 + len) > Len(input)
           => NotEncoded(input)
      /\ offset # Len(input) /\ ~(len > Head(todo).max) /\ ~(offset + (1 + len) > Len(input))
           => Reader(input, offset + (1 + len), Tail(todo), new)
  BY ONLY <1>2, BytesStep
<1>4. CASE AtEnd \/ len > Head(todo).max
  <2>1. NotEncoded(input)
    BY <1>3, <1>4 DEF AtEnd
  <2>2. PICK reason \in EnvelopeErrors : Error(reason)
    BY <1>4 DEF ReadBytes, EnvelopeErrors, Peek, Due
  <2> QED
    BY <2>1, <2>2, ErrorKeeps
<1>5. CASE ~(AtEnd \/ len > Head(todo).max)
  <2>1. Take(1 + len, new, Tail(todo))
    BY <1>5 DEF ReadBytes, Peek, Due, Set, With
  <2>2. /\ offset + (1 + len) > Len(input) => NotEncoded(input)
        /\ ~(offset + (1 + len) > Len(input))
             => Reader(input, offset + (1 + len), Tail(todo), new)
    BY <1>3, <1>5 DEF AtEnd
  <2> HIDE DEF len, new
  <2> QED
    BY <1>2, <2>1, <2>2, TakeKeeps
<1> QED
  BY <1>4, <1>5

(* a count, *)
LEMMA ReadCountKeeps ==
  ASSUME ReaderInv, ReadCount
  PROVE  ReaderInv'
<1>1. Reading("count")
  BY DEF ReadCount
<1>2. /\ input \in Strings /\ Reader(input, offset, todo, envelope)
      /\ status = "reading" /\ todo # << >> /\ Head(todo).form = "count"
      /\ offset # Len(input) => ~(offset + 1 > Len(input))
  BY <1>1, Reads
<1> DEFINE m == input[offset + 1]
           all == [i \in 1..m |-> Field("item", Head(todo).name, MaxScript)] \o Tail(todo)
<1>3. /\ offset = Len(input) \/ m > Head(todo).max => NotEncoded(input)
      /\ offset # Len(input) /\ ~(m > Head(todo).max)
           => Reader(input, offset + 1, all, envelope)
  BY ONLY <1>2, CountStep
<1>4. CASE AtEnd \/ m > Head(todo).max
  <2>1. NotEncoded(input)
    BY <1>3, <1>4 DEF AtEnd
  <2>2. PICK reason \in EnvelopeErrors : Error(reason)
    BY <1>4 DEF ReadCount, EnvelopeErrors, Peek, Due
  <2> QED
    BY <2>1, <2>2, ErrorKeeps
<1>5. CASE ~(AtEnd \/ m > Head(todo).max)
  <2>1. Take(1, envelope, all)
    BY <1>5 DEF ReadCount, Peek, Due
  <2> HIDE DEF all
  <2>2. Reader(input, offset + 1, all, envelope)
    BY <1>3, <1>5 DEF AtEnd
  <2>3. ~(offset + 1 > Len(input))
    BY <1>2, <1>5 DEF AtEnd
  <2> QED
    BY <1>2, <2>1, <2>2, <2>3, TakeKeeps
<1> QED
  BY <1>4, <1>5

(* an item, *)
LEMMA ReadItemKeeps ==
  ASSUME ReaderInv, ReadItem
  PROVE  ReaderInv'
<1>1. Reading("item")
  BY DEF ReadItem
<1>2. /\ input \in Strings /\ Reader(input, offset, todo, envelope)
      /\ status = "reading" /\ todo # << >> /\ Head(todo).form = "item"
  BY <1>1, Reads
<1> DEFINE len == input[offset + 2]
           name == Head(todo).name
           item == [amount |-> input[offset + 1],
                    script |-> SubSeq(input, offset + 3, offset + 2 + len)]
           new == With(envelope, name, Append(envelope[name], item))
<1>3. /\ offset + 2 > Len(input) \/ len > Head(todo).max \/ offset + (2 + len) > Len(input)
           => NotEncoded(input)
      /\ ~(offset + 2 > Len(input)) /\ ~(len > Head(todo).max)
           /\ ~(offset + (2 + len) > Len(input))
           => Reader(input, offset + (2 + len), Tail(todo), new)
  BY ONLY <1>2, ItemStep
<1>4. CASE offset + 2 > Len(input) \/ len > Head(todo).max
  <2>1. NotEncoded(input)
    BY <1>3, <1>4
  <2>2. PICK reason \in EnvelopeErrors : Error(reason)
    BY <1>4 DEF ReadItem, EnvelopeErrors, Due
  <2> QED
    BY <2>1, <2>2, ErrorKeeps
<1>5. CASE ~(offset + 2 > Len(input) \/ len > Head(todo).max)
  <2>1. Take(2 + len, new, Tail(todo))
    BY <1>5 DEF ReadItem, Peek, Due, Set, With
  <2> HIDE DEF new, len
  <2>2. /\ offset + (2 + len) > Len(input) => NotEncoded(input)
        /\ ~(offset + (2 + len) > Len(input))
             => Reader(input, offset + (2 + len), Tail(todo), new)
    BY <1>3, <1>5
  <2> QED
    BY <1>2, <2>1, <2>2, TakeKeeps
<1> QED
  BY <1>4, <1>5

(* and the end, where the rest of the input and the limits are looked at. *)
LEMMA FinishKeeps ==
  ASSUME ReaderInv, Finish
  PROVE  ReaderInv'
<1>1. /\ input \in Strings /\ Reader(input, offset, << >>, envelope) /\ todo = << >>
      /\ status = "reading" /\ Len(input) <= MaxEnvelope
  BY DEF ReaderInv, StatusOK, Finish
<1>2. ValidateLimits(envelope)
  BY ONLY <1>1, ReaderInside
<1>3. offset # Len(input) => NotEncoded(input)
  BY ONLY <1>1, EndStep
<1>4. CASE AtEnd
  <2>1. status' = "accepted" /\ UNCHANGED <<input, offset, todo, envelope>>
    BY <1>2, <1>4 DEF Finish
  <2>2. StatusOK(input, offset, todo, "accepted")
    BY <1>1, <1>4 DEF StatusOK, AtEnd
  <2> QED
    BY <2>1, <2>2 DEF ReaderInv
<1>5. CASE ~AtEnd
  <2>1. Error("TrailingBytes") /\ "TrailingBytes" \in EnvelopeErrors
    BY <1>5 DEF Finish, Error, EnvelopeErrors
  <2> QED
    BY <1>3, <1>5, <2>1, ErrorKeeps DEF AtEnd
<1> QED
  BY <1>4, <1>5

(* Nothing is read yet.                                                    *)
LEMMA NothingRead ==
  ASSUME NEW in \in Strings
  PROVE  Reader(in, 0, Preamble, Blank)
<1>1. in \in Seq(Nat)
  BY StringsAreBytes
<1>2. 0 \in Digit
  BY LimitAssumption DEF LimitSet, Digit
<1>3. Blank \in Raw /\ Blank.kind = 0
  BY <1>2 DEF Blank, Raw, Strings
<1>4. ValidateLimits(Blank)
  BY LimitFacts DEF Blank, ValidateLimits, ScriptsWithin, VirtualCet
<1>5. LaidTo(in, 0, Pieces(Blank), 0, 0)
  <2>1. 0 \in Nat
    OBVIOUS
  <2> QED
    BY ONLY <2>1, LaidStart
<1>6. 0 \in 0..FieldCount(Blank.kind) /\ (0 < 3 <=> Blank.kind = 0)
  BY <1>3, KindCount
<1>7. Held(in, 0, Blank, 0)
  BY <1>3, <1>4, <1>5, <1>6 DEF Held
<1>8. Unread(Blank, 0)
  BY DEF Unread
<1>9. Remains(Preamble, 0, "", 0, Blank.kind)
  <2>1. /\ Preamble \in Seq(FieldSet) /\ Len(Preamble) = 3
        /\ \A i \in 1..3 : Preamble[i] = FieldAt(Blank.kind, i)
    BY PreambleIs
  <2>2. Known(Blank.kind, 0) = 3
    BY DEF Known
  <2>3. ASSUME NEW i \in (0 + 1)..Len(Preamble)
        PROVE  Preamble[i] = FieldAt(Blank.kind, 0 + (i - 0))
    <3>1. i \in 1..3 /\ 0 + (i - 0) = i
      BY <2>1
    <3> QED
      BY <2>1, <3>1
  <2> QED
    BY <2>1, <2>2, <2>3 DEF Remains
<1>10. AtField(in, 0, Preamble, Blank, 0)
  BY <1>7, <1>8, <1>9 DEF AtField
<1>11. Follows(in, 0, Blank, 0)
  BY <1>1, StartOf, Zenon DEF Follows
<1> QED
  BY <1>10, <1>11, Zenon DEF Reader, Between

(* decode looks at the length of its input first and then starts the       *)
(* reader.                                                                 *)
LEMMA StartsReading == Init => ReaderInv
<1> SUFFICES ASSUME Init PROVE ReaderInv
  OBVIOUS
<1>1. input \in Strings /\ offset = 0 /\ todo = Preamble /\ envelope = Blank
  BY InputAssumption DEF Init, Strings
<1>2. Reader(input, offset, todo, envelope)
  BY <1>1, NothingRead, Zenon
<1>3. Len(input) \in Nat /\ MaxEnvelope \in Nat
  BY <1>1, LimitFacts DEF Strings
<1>4. CASE Len(input) > MaxEnvelope
  <2>1. status = "Oversized"
    BY <1>4 DEF Init
  <2>2. NotEncoded(input)
    <3> SUFFICES ASSUME NEW e, Encoding(e, input) PROVE FALSE
      BY Zenon DEF NotEncoded
    <3>1. Len(input) <= MaxEnvelope
      BY EncodingMeans, Zenon
    <3> QED
      BY ONLY <1>3, <1>4, <3>1
  <2>3. StatusOK(input, offset, todo, "Oversized")
    BY <2>2 DEF StatusOK, EnvelopeErrors
  <2> QED
    BY <1>1, <1>2, <2>1, <2>3 DEF ReaderInv
<1>5. CASE ~(Len(input) > MaxEnvelope)
  <2>1. status = "reading" /\ Len(input) <= MaxEnvelope
    BY <1>3, <1>5 DEF Init
  <2>2. StatusOK(input, offset, todo, "reading")
    BY <2>1 DEF StatusOK
  <2> QED
    BY <1>1, <1>2, <2>1, <2>2 DEF ReaderInv
<1> QED
  BY <1>4, <1>5

(* At every step of decode, for any limits and any input: what was read is *)
(* exactly what the input holds up to the offset, what is still to read is *)
(* what follows in the layout, and where the input encodes an envelope the *)
(* reader has found nothing else.                                          *)
THEOREM ReaderInductive == Spec => []ReaderInv
<1>1. Init => ReaderInv
  BY StartsReading
<1>2. ReaderInv /\ [Next]_vars => ReaderInv'
  <2> SUFFICES ASSUME ReaderInv, [Next]_vars PROVE ReaderInv'
    OBVIOUS
  <2>1. CASE ReadTag
    BY <2>1, ReadTagKeeps
  <2>2. CASE ReadKind
    BY <2>2, ReadKindKeeps
  <2>3. CASE ReadDigit
    BY <2>3, ReadDigitKeeps
  <2>4. CASE ReadBytes
    BY <2>4, ReadBytesKeeps
  <2>5. CASE ReadCount
    BY <2>5, ReadCountKeeps
  <2>6. CASE ReadItem
    BY <2>6, ReadItemKeeps
  <2>7. CASE Finish
    BY <2>7, FinishKeeps
  <2>8. CASE UNCHANGED vars
    BY <2>8 DEF vars, ReaderInv
  <2> QED
    BY <2>1, <2>2, <2>3, <2>4, <2>5, <2>6, <2>7, <2>8 DEF Next
<1> QED
  BY <1>1, <1>2, PTL DEF Spec

-----------------------------------------------------------------------------
(* What the reader promises *)

(* No more items are expected than the limit of their list.                *)
LEMMA ItemsExpected ==
  ASSUME NEW in, NEW o, NEW td, NEW env, Reader(in, o, td, env)
  PROVE  Cardinality({i \in DOMAIN td : td[i].form = "item"})
           <= IF MaxPrevouts > MaxPayouts THEN MaxPrevouts ELSE MaxPayouts
<1> DEFINE items == {i \in DOMAIN td : td[i].form = "item"}
           most == IF MaxPrevouts > MaxPayouts THEN MaxPrevouts ELSE MaxPayouts
<1>1. most \in Nat /\ MaxPrevouts <= most /\ MaxPayouts <= most
  BY LimitFacts
<1> HIDE DEF most
<1>2. ASSUME NEW m \in Nat, NEW name, NEW kind, NEW k \in 0..FieldCount(kind),
             Remains(td, m, name, k, kind)
      PROVE  items = 1..m
  <2>1. /\ td \in Seq(FieldSet) /\ Len(td) = m + (Known(kind, k) - k)
        /\ \A i \in 1..m : td[i] = Field("item", name, MaxScript)
        /\ \A i \in (m + 1)..Len(td) : td[i] = FieldAt(kind, k + (i - m))
    BY <1>2 DEF Remains
  <2>2. Known(kind, k) \in 3..14 /\ k <= Known(kind, k) /\ k \in Nat
    BY KnownCount, KindCount
  <2>3. DOMAIN td = 1..Len(td) /\ Len(td) \in Nat /\ m <= Len(td)
    <3>1. DOMAIN td = 1..Len(td) /\ Len(td) \in Nat
      BY ONLY <2>1
    <3>2. m <= Len(td)
      BY ONLY <2>1, <2>2, m \in Nat, SMTT(30)
    <3> QED
      BY <3>1, <3>2
  <2>4. ASSUME NEW i \in 1..m PROVE i \in items
    <3>1. td[i].form = "item"
      BY <2>1 DEF Field
    <3>2. i \in 1..Len(td)
      BY ONLY <2>3, m \in Nat, i \in 1..m
    <3> QED
      BY <2>3, <3>1, <3>2
  <2>5. ASSUME NEW i \in items PROVE i \in 1..m
    <3>1. i \in 1..Len(td) /\ td[i].form = "item"
      BY <2>3
    <3>2. CASE i \in (m + 1)..Len(td)
      <4> DEFINE q == k + (i - m)
      <4>1. q \in 1..14
        <5> DEFINE l == Len(td)
                   known == Known(kind, k)
        <5>1. /\ l = m + (known - k) /\ l \in Nat /\ known \in 3..14
              /\ k \in Nat /\ i \in (m + 1)..l
          BY <2>1, <2>2, <2>3, <3>2
        <5> HIDE DEF l, known
        <5> QED
          BY ONLY <5>1, m \in Nat
      <4>2. td[i] = FieldAt(kind, q)
        BY <2>1, <3>2
      <4> HIDE DEF q
      <4>3. FieldAt(kind, q).form # "item"
        BY <4>1, FieldsTyped
      <4> QED
        BY <3>1, <4>2, <4>3
    <3> QED
      BY ONLY <2>3, <3>1, <3>2, m \in Nat
  <2> QED
    BY <2>4, <2>5
<1>3. ASSUME NEW m \in Nat, items = 1..m, m <= most PROVE Cardinality(items) <= most
  <2>1. Cardinality(1..m) = m
    BY FS_Interval
  <2> QED
    BY <1>3, <2>1
<1>4. CASE Between(in, o, td, env)
  <2>1. PICK k : AtField(in, o, td, env, k)
    BY <1>4, Zenon DEF Between
  <2>2. k \in 0..FieldCount(env.kind) /\ Remains(td, 0, "", k, env.kind)
    BY <2>1, AtFieldMeans, Zenon
  <2>3. 0 \in Nat /\ 0 <= most
    BY <1>1
  <2>4. items = 1..0
    BY ONLY <1>2, <2>2, <2>3
  <2> HIDE DEF items
  <2>5. Cardinality(items) <= most
    BY ONLY <1>3, <2>3, <2>4
  <2> QED
    BY <2>5 DEF most, items
<1>5. CASE Within(in, o, td, env)
  <2>1. PICK k, m, start : InList(in, o, td, env, k, m, start)
    BY <1>5, Zenon DEF Within
  <2> DEFINE name == NameAt(env.kind, k + 1)
  <2>2. /\ m \in Nat /\ k \in 3..(FieldCount(env.kind) - 1) /\ name \in ListNames
        /\ Len(env[name]) + m <= LimitOf(name) /\ env[name] \in Seq(TxOut)
        /\ Remains(td, m, name, k + 1, env.kind)
    BY <2>1, InListMeans, ZenonT(60)
  <2> HIDE DEF name
  <2>3. k + 1 \in 0..FieldCount(env.kind)
    BY <2>2, KindCount
  <2>4. items = 1..m
    BY <1>2, <2>2, <2>3
  <2>5. LimitOf(name) \in {MaxPrevouts, MaxPayouts} /\ LimitOf(name) \in Nat
    BY <2>2, LimitFacts DEF ListNames, LimitOf
  <2>6. Len(env[name]) \in Nat
    BY <2>2
  <2>7. m <= most
    BY <1>1, <2>2, <2>5, <2>6
  <2> HIDE DEF items
  <2>8. Cardinality(items) <= most
    BY ONLY <1>3, <2>2, <2>4, <2>7
  <2> QED
    BY <2>8 DEF most, items
<1> QED
  BY <1>4, <1>5, Zenon DEF Reader, most

(* Reader.take and Reader.count hold for any limits: the offset stays      *)
(* inside the input, and no field read or still expected exceeds its       *)
(* limit, at every step and not only at the end.                           *)
THEOREM ReaderTyped == Spec => []TypeOK
<1>1. ReaderInv => TypeOK
  <2> SUFFICES ASSUME ReaderInv PROVE TypeOK
    OBVIOUS
  <2>1. /\ input \in Strings /\ Reader(input, offset, todo, envelope)
        /\ StatusOK(input, offset, todo, status)
    BY DEF ReaderInv
  <2>2. offset \in Nat /\ offset <= Len(input) /\ ValidateLimits(envelope)
    BY ONLY <2>1, ReaderInside
  <2>3. offset \in 0..Len(input)
    BY <2>1, <2>2 DEF Strings
  <2>4. Cardinality({i \in DOMAIN todo : todo[i].form = "item"})
          <= IF MaxPrevouts > MaxPayouts THEN MaxPrevouts ELSE MaxPayouts
    BY <2>1, ItemsExpected
  <2>5. /\ status \in {"reading", "accepted"} \cup EnvelopeErrors
        /\ status = "accepted" => todo = << >> /\ AtEnd
    BY <2>1 DEF StatusOK, AtEnd
  <2> QED
    BY <2>2, <2>3, <2>4, <2>5, Zenon DEF TypeOK
<1> QED
  BY <1>1, ReaderInductive, PTL

(* An input that was accepted is the encoding of what was read, and of no  *)
(* other envelope.                                                         *)
LEMMA AcceptedWhole ==
  ASSUME ReaderInv, status = "accepted"
  PROVE  /\ EncodedBytes(envelope) = input /\ ValidateLimits(envelope)
         /\ Len(input) <= MaxEnvelope
         /\ \A e : Encoding(e, input) => envelope = e
<1>1. /\ input \in Strings /\ Reader(input, offset, todo, envelope)
      /\ todo = << >> /\ offset = Len(input) /\ Len(input) <= MaxEnvelope
  BY DEF ReaderInv, StatusOK
<1>2. Reader(input, offset, << >>, envelope)
  BY <1>1
<1>3. EncodedBytes(envelope) = input /\ \A e : Encoding(e, input) => envelope = e
  BY ONLY <1>1, <1>2, EndStep
<1>4. ValidateLimits(envelope)
  BY ONLY <1>1, ReaderInside
<1> QED
  BY <1>1, <1>3, <1>4

(* decode accepts nothing but encodings: whatever it accepts, encode gives *)
(* back byte by byte, so that the statement digest of what was decoded is  *)
(* the digest of the bytes received.  For any byte strings and any limits  *)
(* that fit their length prefix.                                           *)
THEOREM ReaderCanonical == Spec => []Canonical
<1>1. ReaderInv => Canonical
  <2> SUFFICES ASSUME ReaderInv, status = "accepted"
               PROVE  /\ Encodes(envelope)
                      /\ StatementDigest(envelope) = TaggedSha256("StatementV1", input)
    BY DEF Canonical
  <2>1. /\ EncodedBytes(envelope) = input /\ ValidateLimits(envelope)
        /\ Len(input) <= MaxEnvelope
    BY AcceptedWhole
  <2> QED
    BY <2>1 DEF Encodes, StatementDigest
<1> QED
  BY <1>1, ReaderInductive, PTL

(* decode accepts every encoding and reads the envelope that was encoded:  *)
(* no input of encode is refused or read as another envelope.  For any     *)
(* envelopes and any limits that fit their length prefix.                  *)
THEOREM ReaderRoundTrip == Spec => []RoundTrip
<1>1. ReaderInv => RoundTrip
  <2> SUFFICES ASSUME ReaderInv, NEW e \in Samples, Encodes(e), EncodedBytes(e) = input
               PROVE  /\ status \in {"reading", "accepted"}
                      /\ status = "accepted" => envelope = e
    BY DEF RoundTrip
  <2>1. Encoding(e, input)
    BY SampleAssumption DEF Encoding
  <2>2. status \in {"reading", "accepted"}
    BY <2>1 DEF ReaderInv, StatusOK, NotEncoded
  <2>3. status = "accepted" => envelope = e
    BY <2>1, AcceptedWhole
  <2> QED
    BY <2>2, <2>3
<1> QED
  BY <1>1, ReaderInductive, PTL
=============================================================================
