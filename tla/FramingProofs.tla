----------------------------- MODULE FramingProofs -----------------------------
(* Proofs about Framing, for every size of a byte, limit and set of bodies.  *)
EXTENDS Framing, SequenceTheorems, TLAPS

-----------------------------------------------------------------------------
(***************************************************************************)
(* The header                                                               *)
(***************************************************************************)

\* Division by the size of a byte
LEMMA DivMod ==
    ASSUME NEW x \in Nat
    PROVE  /\ x \div Base \in Nat
           /\ x % Base \in Byte
           /\ x = (x \div Base) * Base + (x % Base)
<1>1. Base \in Nat /\ Base > 0
    BY FramingAssumption
<1> QED
    BY <1>1, SMT DEF Byte

\* A smaller dividend has a smaller quotient.
LEMMA DivLess ==
    ASSUME NEW x \in Nat, NEW y \in Nat, x < y * Base
    PROVE  x \div Base < y
<1>1. Base \in Nat /\ Base > 0
    BY FramingAssumption
<1> DEFINE q == x \div Base
<1>2. q \in Nat /\ q * Base <= x
    <2>1. x % Base \in Nat
        BY <1>1, DivMod DEF Byte
    <2>2. q \in Nat /\ x = q * Base + (x % Base)
        BY DivMod
    <2>3. q * Base \in Nat
        BY <1>1, <2>2
    <2> QED
        BY <2>1, <2>2, <2>3
<1> HIDE DEF q
<1>3. SUFFICES ASSUME q >= y PROVE FALSE
    BY <1>2 DEF q
<1>4. q * Base >= y * Base
    BY <1>1, <1>2, <1>3
<1>5. q * Base \in Nat /\ y * Base \in Nat
    BY <1>1, <1>2
<1> QED
    BY <1>2, <1>4, <1>5

\* Width is a natural number and Signed is what int32_t holds.
LEMMA WidthFacts ==
    /\ Width \in Nat
    /\ Width \div 2 \in Nat
    /\ 2 * (Width \div 2) <= Width
    /\ Width <= 2 * (Width \div 2) + 1
<1>1. Base \in Nat
    BY FramingAssumption
<1>2. Width \in Nat
    BY <1>1 DEF Width
<1> HIDE DEF Width
<1> QED
    BY <1>2

\* What hostToNetwork32 writes, networkToHost32 reads.
LEMMA DecodeEncode ==
    ASSUME NEW n \in Signed
    PROVE  /\ Encode(n) \in Seq(Byte)
           /\ Len(Encode(n)) = 4
           /\ Decode(Encode(n)) = n
<1> DEFINE u  == IF n < 0 THEN n + Width ELSE n
           q1 == u \div Base
           q2 == q1 \div Base
           q3 == q2 \div Base
<1>1. n \in Int /\ -(Width \div 2) <= n /\ n <= Width \div 2 - 1
    BY WidthFacts DEF Signed
<1>2. u \in Nat /\ u < Width /\ (u >= Width \div 2 => u - Width = n)
        /\ (u < Width \div 2 => u = n)
    <2> HIDE DEF Width
    <2> QED BY <1>1, WidthFacts
<1> HIDE DEF u
<1>3. Base \in Nat /\ Base > 1
    BY FramingAssumption
<1>4. q1 \in Nat /\ u % Base \in Byte /\ u = q1 * Base + (u % Base)
    BY <1>2, DivMod
<1>5. q1 < Base * Base * Base
    BY <1>2, <1>3, DivLess DEF Width
<1> HIDE DEF q1
<1>6. q2 \in Nat /\ q1 % Base \in Byte /\ q1 = q2 * Base + (q1 % Base)
    BY <1>4, DivMod DEF q2
<1>7. q2 < Base * Base
    BY <1>3, <1>4, <1>5, DivLess DEF q2
<1> HIDE DEF q2
<1>8. q3 \in Nat /\ q2 % Base \in Byte /\ q2 = q3 * Base + (q2 % Base)
    BY <1>6, DivMod DEF q3
<1>9. q3 < Base
    BY <1>3, <1>6, <1>7, DivLess DEF q3
<1> HIDE DEF q3
<1>10. Encode(n) = <<q3, q2 % Base, q1 % Base, u % Base>>
    BY DEF Encode, q3, q2, q1, u
<1>11. q3 \in Byte
    BY <1>3, <1>8, <1>9 DEF Byte
<1>12. Encode(n) \in Seq(Byte) /\ Len(Encode(n)) = 4
    BY <1>4, <1>6, <1>8, <1>10, <1>11
<1>13. ((q3 * Base + (q2 % Base)) * Base + (q1 % Base)) * Base + (u % Base) = u
    BY <1>4, <1>6, <1>8
<1>14. Decode(Encode(n)) = IF u >= Width \div 2 THEN u - Width ELSE u
    BY <1>10, <1>13 DEF Decode
<1>15. Decode(Encode(n)) = n
    BY <1>2, <1>14, WidthFacts
<1> QED
    BY <1>12, <1>15

-----------------------------------------------------------------------------
(***************************************************************************)
(* The invariant                                                            *)
(***************************************************************************)

\* What is sent has a length that a header can hold, and a length that is
\* admitted is the length of the body.
LEMMA ItemFacts ==
    ASSUME NEW item \in Items
    PROVE  /\ item.len \in Signed
           /\ item.len \in Int
           /\ item.body \in Seq(Byte)
           /\ Admitted(item.len) => item.len = Len(item.body)
<1>1. CASE item \in {[len |-> Len(b), body |-> b] : b \in Bodies}
    BY <1>1, FramingAssumption DEF Signed
<1>2. CASE item \in [len : BadLens, body : {<< >>}]
    <2>1. item.len \in BadLens /\ item.body = << >>
        BY <1>2
    <2>2. item.len \in Signed /\ ~Admitted(item.len)
        BY <2>1, FramingAssumption DEF Admitted
    <2>3. item.len \in Int
        BY <2>2, WidthFacts DEF Signed
    <2>4. item.body \in Seq(Byte)
        BY <2>1
    <2> QED
        BY <2>2, <2>3, <2>4
<1> QED
    BY <1>1, <1>2 DEF Items

LEMMA OutcomeType ==
    ASSUME NEW b \in Seq(Byte)
    PROVE  Outcome(b) \in [body : Seq(Byte), to : {"envelope", "error"}]
    BY DEF Outcome

\* When onMessage has a header, it is that of the first frame that was not
\* handled.
LEMMA PeekIsNext ==
    ASSUME FrameInv, ReadableBytes >= kHeaderLen
    PROVE  /\ Len(handled) < Len(sent)
           /\ sent[Len(handled) + 1] \in Items
           /\ PeekLen = sent[Len(handled) + 1].len
<1> DEFINE m == Len(handled) + 1
<1>1. /\ Len(handled) \in Nat /\ Len(sent) \in Nat /\ Len(stream) \in Nat
      /\ received \in 0..Len(stream) /\ retrieved \in 0..received
    BY LenProperties DEF FrameInv, TypeOK
<1>2. Len(handled) < Len(sent)
    <2>1. SUFFICES ASSUME Len(handled) = Len(sent) PROVE FALSE
        BY <1>1 DEF FrameInv, AtFrameStart
    <2>2. retrieved = Len(stream)
        BY <2>1 DEF FrameInv, AtFrameStart, StreamIsFrames
    <2> QED
        BY <1>1, <2>2 DEF ReadableBytes, kHeaderLen
<1>3. m \in 1..Len(sent)
    BY <1>1, <1>2
<1>4. sent[m] \in Items
    BY <1>3, ElementOfSeq DEF FrameInv, TypeOK
<1>5. retrieved = starts[m]
    BY DEF FrameInv, AtFrameStart
<1>6. \A k \in 1..4 : stream[retrieved + k] = Encode(sent[m].len)[k]
    BY <1>3, <1>5 DEF FrameInv, StreamIsFrames, kHeaderLen
<1>7. PeekLen = Decode(Encode(sent[m].len))
    <2> DEFINE h == [i \in 1..4 |-> stream[retrieved + i]]
               e == Encode(sent[m].len)
    <2>1. h[1] = e[1] /\ h[2] = e[2] /\ h[3] = e[3] /\ h[4] = e[4]
        BY <1>6
    <2>2. PeekLen = Decode(h)
        BY DEF PeekLen, kHeaderLen
    <2> HIDE DEF h, e
    <2>3. Decode(h) = Decode(e)
        BY <2>1 DEF Decode
    <2> QED
        BY <2>2, <2>3 DEF e
<1> QED
    BY <1>2, <1>4, <1>7, DecodeEncode, ItemFacts

\* r is the stream t with the header e and the body b after it.
FrameAppended(r, t, e, b) ==
    /\ r \in Seq(Byte)
    /\ Len(r) = Len(t) + 4 + Len(b)
    /\ \A k \in 1..Len(t) : r[k] = t[k]
    /\ \A k \in 1..4 : r[Len(t) + k] = e[k]
    /\ \A k \in 1..Len(b) : r[Len(t) + 4 + k] = b[k]

LEMMA ConcatFrame ==
    ASSUME NEW t \in Seq(Byte), NEW e \in Seq(Byte), NEW b \in Seq(Byte),
           Len(e) = 4
    PROVE  FrameAppended((t \o e) \o b, t, e, b)
<1>1. Len(t) \in Nat /\ Len(b) \in Nat
    BY LenProperties
<1>2. PICK f : f = t \o e
    OBVIOUS
<1>3. /\ f \in Seq(Byte)
      /\ Len(f) = Len(t) + 4
      /\ \A i \in 1..(Len(t) + 4) : f[i] = IF i <= Len(t) THEN t[i] ELSE e[i - Len(t)]
    <2>1. /\ t \o e \in Seq(Byte)
          /\ Len(t \o e) = Len(t) + Len(e)
          /\ \A i \in 1..Len(t) + Len(e) :
                 (t \o e)[i] = IF i <= Len(t) THEN t[i] ELSE e[i - Len(t)]
        BY ConcatProperties, Zenon
    <2> QED
        BY <1>2, <2>1, Zenon
<1>4. PICK g : g = f \o b
    OBVIOUS
<1>5. /\ g \in Seq(Byte)
      /\ Len(g) = Len(f) + Len(b)
      /\ \A i \in 1..(Len(f) + Len(b)) : g[i] = IF i <= Len(f) THEN f[i] ELSE b[i - Len(f)]
    <2>1. f \in Seq(Byte)
        BY <1>3
    <2>2. /\ f \o b \in Seq(Byte)
          /\ Len(f \o b) = Len(f) + Len(b)
          /\ \A i \in 1..Len(f) + Len(b) :
                 (f \o b)[i] = IF i <= Len(f) THEN f[i] ELSE b[i - Len(f)]
        BY <2>1, ConcatProperties, Zenon
    <2> QED
        BY <1>4, <2>2, Zenon
<1>6. \A k \in 1..Len(t) : g[k] = t[k]
    BY <1>1, <1>3, <1>5
<1>7. ASSUME NEW k \in 1..4 PROVE g[Len(t) + k] = e[k]
    <2>1. Len(t) + k \in 1..(Len(t) + 4) /\ ~(Len(t) + k <= Len(t))
            /\ (Len(t) + k) - Len(t) = k
        BY <1>1
    <2>2. f[Len(t) + k] = e[k]
        BY <1>3, <2>1
    <2> QED
        BY <1>1, <1>3, <1>5, <2>1, <2>2
<1>8. ASSUME NEW k \in 1..Len(b) PROVE g[Len(t) + 4 + k] = b[k]
    <2>1. /\ Len(t) + 4 + k \in 1..(Len(f) + Len(b))
          /\ ~(Len(t) + 4 + k <= Len(f))
          /\ (Len(t) + 4 + k) - Len(f) = k
        BY <1>1, <1>3
    <2> QED
        BY <1>5, <2>1
<1> QED
    <2>1. FrameAppended(g, t, e, b)
        BY <1>1, <1>3, <1>5, <1>6, <1>7, <1>8 DEF FrameAppended
    <2> QED
        BY <1>2, <1>4, <2>1, Zenon

\* A frame is appended to the stream.
LEMMA SendPreserves ==
    ASSUME FrameInv, NEW item \in Items, SendServerMessage(item)
    PROVE  FrameInv'
<1>e. PICK e : e = Encode(item.len)
    OBVIOUS
<1>b. PICK b : b = item.body
    OBVIOUS
<1>1. e \in Seq(Byte) /\ Len(e) = 4 /\ b \in Seq(Byte) /\ Len(b) \in Nat
    BY <1>e, <1>b, ItemFacts, DecodeEncode, LenProperties
<1>3. stream' = (stream \o e) \o b
    <2>1. stream' = (stream \o Encode(item.len)) \o item.body
        BY DEF SendServerMessage
    <2> QED
        BY <1>e, <1>b, <2>1, Zenon
<1>4. FrameAppended(stream', stream, e, b)
    <2>1. stream \in Seq(Byte)
        BY DEF FrameInv, TypeOK
    <2> QED
        BY <1>1, <1>3, <2>1, ConcatFrame, Zenon
<1> PICK n : n = Len(stream)
    OBVIOUS
<1> PICK s : s = Len(sent)
    OBVIOUS
<1>2. /\ stream \in Seq(Byte) /\ n \in Nat /\ s \in Nat
      /\ sent \in Seq(Items) /\ starts \in Seq(Nat) /\ Len(starts) = s + 1
      /\ received \in 0..n /\ retrieved \in 0..received
      /\ Len(handled) \in Nat /\ Len(handled) <= s
    BY LenProperties DEF FrameInv, TypeOK, StreamIsFrames, AtFrameStart
<1>5. /\ stream' \in Seq(Byte)
      /\ Len(stream') = n + 4 + Len(b)
      /\ \A k \in 1..Len(b) : stream'[n + 4 + k] = b[k]
    BY <1>4, Zenon DEF FrameAppended
<1>6. /\ \A k \in 1..n : stream'[k] = stream[k]
      /\ \A k \in 1..4 : stream'[n + k] = e[k]
    BY <1>4, Zenon DEF FrameAppended
<1>7. /\ sent' \in Seq(Items) /\ Len(sent') = s + 1 /\ sent'[s + 1] = item
      /\ \A i \in 1..s : sent'[i] = sent[i]
    <2>1. sent' = Append(sent, item)
        BY DEF SendServerMessage
    <2>2. sent \in Seq(Items)
        BY <1>2
    <2>3. /\ Append(sent, item) \in Seq(Items)
          /\ Len(Append(sent, item)) = Len(sent) + 1
          /\ \A i \in 1..Len(sent) : Append(sent, item)[i] = sent[i]
          /\ Append(sent, item)[Len(sent) + 1] = item
        BY <2>2, AppendProperties
    <2> QED
        BY <2>1, <2>3, Zenon
<1>8. /\ starts' \in Seq(Nat) /\ Len(starts') = s + 2
      /\ starts'[s + 2] = n + 4 + Len(b)
      /\ \A i \in 1..(s + 1) : starts'[i] = starts[i]
    <2>1. PICK x : x = n + 4 + Len(b)
        OBVIOUS
    <2>2. x \in Nat
        BY <1>1, <1>2, <2>1
    <2>3. starts' = Append(starts, x)
        <3>1. starts' = Append(starts, Len(stream) + 4 + Len(item.body))
            BY DEF SendServerMessage, kHeaderLen
        <3> QED
            BY <1>b, <2>1, <3>1, Zenon
    <2>4. starts \in Seq(Nat)
        BY <1>2
    <2>5. /\ Append(starts, x) \in Seq(Nat)
          /\ Len(Append(starts, x)) = Len(starts) + 1
          /\ \A i \in 1..Len(starts) : Append(starts, x)[i] = starts[i]
          /\ Append(starts, x)[Len(starts) + 1] = x
        BY <2>2, <2>4, AppendProperties
    <2>6. Len(starts) = s + 1 /\ Len(starts) + 1 = s + 2
        BY <1>2
    <2> QED
        BY <2>1, <2>3, <2>5, <2>6, Zenon
<1>9. UNCHANGED <<received, retrieved, handling, handled, shut, up>>
    BY DEF SendServerMessage
<1>10. TypeOK'
    <2>1. received' \in 0..Len(stream') /\ retrieved' \in 0..received'
        <3>1. Len(stream') = n + 4 + Len(b)
            BY <1>5
        <3>2. received' = received /\ retrieved' = retrieved
            BY <1>9
        <3> QED
            BY <1>1, <1>2, <3>1, <3>2
    <2>2. /\ handled' = handled /\ handling' = handling
          /\ shut' = shut /\ up' = up
        BY <1>9
    <2>3. stream' \in Seq(Byte) /\ sent' \in Seq(Items) /\ starts' \in Seq(Nat)
        BY <1>5, <1>7, <1>8
    <2> QED
        BY <2>1, <2>2, <2>3 DEF FrameInv, TypeOK
<1>11. StreamIsFrames'
    <2>1. Len(starts') = Len(sent') + 1 /\ starts'[Len(sent') + 1] = Len(stream')
        <3>1. Len(sent') + 1 = s + 2
            BY <1>2, <1>7
        <3>2. Len(starts') = s + 2 /\ starts'[s + 2] = Len(stream')
            BY <1>5, <1>8, Zenon
        <3> QED
            BY <3>1, <3>2, Zenon
    <2>2. ASSUME NEW i \in 1..(s + 1)
          PROVE  /\ starts'[i + 1] = starts'[i] + kHeaderLen + Len(sent'[i].body)
                 /\ starts'[i + 1] <= Len(stream')
                 /\ \A k \in 1..kHeaderLen :
                        stream'[starts'[i] + k] = Encode(sent'[i].len)[k]
                 /\ \A k \in 1..Len(sent'[i].body) :
                        stream'[starts'[i] + kHeaderLen + k] = sent'[i].body[k]
        <3>1. CASE i = s + 1
            <4>1. starts'[i] = n
                BY <1>8, <3>1, <1>2 DEF FrameInv, StreamIsFrames
            <4>2. starts'[i + 1] = n + 4 + Len(b) /\ sent'[i] = item
                BY <1>2, <1>7, <1>8, <3>1
            <4>3. sent'[i].body = b /\ Encode(sent'[i].len) = e
                BY <1>e, <1>b, <4>2
            <4>4. /\ starts'[i + 1] = starts'[i] + 4 + Len(b)
                  /\ starts'[i + 1] <= Len(stream')
                BY <1>1, <1>2, <1>5, <4>1, <4>2
            <4>5. \A k \in 1..4 : stream'[starts'[i] + k] = e[k]
                BY <1>6, <4>1
            <4>6. \A k \in 1..Len(b) : stream'[starts'[i] + 4 + k] = b[k]
                BY <1>5, <4>1
            <4> QED
                BY <4>3, <4>4, <4>5, <4>6 DEF kHeaderLen
        <3>2. CASE i # s + 1
            <4>1. i \in 1..s /\ i \in 1..(s + 1) /\ i + 1 \in 1..(s + 1)
                BY <1>2, <3>2
            <4>2. sent'[i] = sent[i]
                BY <1>7, <4>1
            <4>3. starts'[i] = starts[i] /\ starts'[i + 1] = starts[i + 1]
                BY <1>8, <4>1
            <4>4. PICK c : c = sent[i].body
                OBVIOUS
            <4>5. PICK d : d = Encode(sent[i].len)
                OBVIOUS
            <4>6. PICK z : z = Len(c)
                OBVIOUS
            <4>7. /\ starts[i + 1] = starts[i] + 4 + z
                  /\ starts[i + 1] <= n
                  /\ \A k \in 1..4 : stream[starts[i] + k] = d[k]
                  /\ \A k \in 1..z : stream[starts[i] + 4 + k] = c[k]
                BY <4>1, <4>4, <4>5, <4>6 DEF FrameInv, StreamIsFrames, kHeaderLen
            <4>8. starts[i] \in Nat
                <5>1. starts \in Seq(Nat) /\ i \in 1..Len(starts)
                    BY <1>2, <4>1
                <5> QED
                    BY <5>1, ElementOfSeq
            <4>9. z \in Nat
                <5>1. sent \in Seq(Items) /\ i \in 1..Len(sent)
                    BY <1>2, <4>1
                <5>2. sent[i] \in Items
                    BY <5>1, ElementOfSeq
                <5> QED
                    BY <4>4, <4>6, <5>2, ItemFacts, LenProperties
            <4>a. starts[i] + 4 + z <= n /\ n \in Nat
                BY <1>2, <4>7
            <4>10. \A k \in 1..4 : starts[i] + k \in 1..n
                BY <4>a, <4>8, <4>9
            <4>11. \A k \in 1..z : starts[i] + 4 + k \in 1..n
                BY <4>a, <4>8, <4>9
            <4>12. starts[i + 1] <= Len(stream')
                BY <1>1, <1>2, <1>5, <4>7, <4>8, <4>9
            <4>13. \A k \in 1..4 : stream'[starts[i] + k] = d[k]
                BY <1>6, <4>7, <4>10
            <4>14. \A k \in 1..z : stream'[starts[i] + 4 + k] = c[k]
                BY <1>6, <4>7, <4>11
            <4>15. starts'[i + 1] = starts'[i] + 4 + z
                BY <4>3, <4>7
            <4>16. sent'[i].body = c /\ Encode(sent'[i].len) = d /\ Len(sent'[i].body) = z
                BY <4>2, <4>4, <4>5, <4>6, Zenon
            <4> QED
                BY <4>3, <4>12, <4>13, <4>14, <4>15, <4>16 DEF kHeaderLen
        <3> QED
            BY <3>1, <3>2
    <2> QED
        BY <1>7, <2>1, <2>2 DEF StreamIsFrames
<1>12. AtFrameStart'
    <2>1. Len(handled) + 1 \in 1..(s + 1)
        BY <1>2
    <2>2. retrieved' = starts'[Len(handled') + 1] /\ Len(handled') <= Len(sent')
        BY <1>2, <1>7, <1>8, <1>9, <2>1 DEF FrameInv, AtFrameStart
    <2>3. \A i \in 1..Len(handled) : sent'[i] = sent[i]
        BY <1>2, <1>7
    <2>4. \A i \in 1..Len(handled') :
             Admitted(sent'[i].len) /\ handled'[i] = Outcome(sent'[i].body)
        BY <1>9, <2>3 DEF FrameInv, AtFrameStart
    <2>5. shut' => Len(handled') < Len(sent')
                     /\ ~Admitted(sent'[Len(handled') + 1].len)
        BY <1>2, <1>7, <1>9 DEF FrameInv, AtFrameStart
    <2> QED
        BY <1>9, <2>2, <2>4, <2>5 DEF FrameInv, AtFrameStart
<1> QED
    BY <1>10, <1>11, <1>12 DEF FrameInv

\* A frame is handled.
LEMMA WholeFramePreserves ==
    ASSUME FrameInv, WholeFrame
    PROVE  /\ FrameInv'
           /\ Len(handled) < Len(sent)
           /\ Admitted(sent[Len(handled) + 1].len)
           /\ handled' = Append(handled, Outcome(sent[Len(handled) + 1].body))
<1> DEFINE m == Len(handled) + 1
           b == sent[m].body
           n == PeekLen
<1>1. Len(handled) < Len(sent) /\ sent[m] \in Items /\ n = sent[m].len
    BY PeekIsNext DEF WholeFrame
<1>2. Admitted(n) /\ n = Len(b) /\ b \in Seq(Byte) /\ Len(b) \in Nat
    BY <1>1, ItemFacts, LenProperties DEF WholeFrame
<1>3. /\ Len(handled) \in Nat /\ Len(sent) \in Nat /\ m \in 1..Len(sent)
      /\ Len(stream) \in Nat
      /\ received \in 0..Len(stream) /\ retrieved \in 0..received
    BY <1>1, LenProperties DEF FrameInv, TypeOK
<1>4. retrieved = starts[m]
    BY DEF FrameInv, AtFrameStart
<1>5. /\ starts[m + 1] = retrieved + 4 + n
      /\ \A k \in 1..n : stream[retrieved + 4 + k] = b[k]
    BY <1>2, <1>3, <1>4 DEF FrameInv, StreamIsFrames, kHeaderLen
<1>6. [i \in 1..n |-> stream[retrieved + 4 + i]] = b
    <2>1. b = [i \in 1..Len(b) |-> b[i]]
        BY <1>2, LenProperties
    <2>2. [i \in 1..n |-> stream[retrieved + 4 + i]] = [i \in 1..n |-> b[i]]
        BY <1>5
    <2> QED
        BY <1>2, <2>1, <2>2
<1>7. /\ handled' = Append(handled, Outcome(b))
      /\ retrieved' = retrieved + 4 + n
      /\ received - retrieved >= n + 4
      /\ UNCHANGED <<stream, received, handling, shut, up, sent, starts>>
    BY <1>6 DEF WholeFrame, kHeaderLen, ReadableBytes
<1> HIDE DEF n, b
<1>8. /\ handled' \in Seq([body : Seq(Byte), to : {"envelope", "error"}])
      /\ Len(handled') = m
      /\ handled'[m] = Outcome(b)
      /\ \A i \in 1..Len(handled) : handled'[i] = handled[i]
    BY <1>2, <1>3, <1>7, OutcomeType, AppendProperties DEF FrameInv, TypeOK
<1>9. retrieved' \in 0..received'
    BY <1>2, <1>3, <1>7
<1>10. TypeOK'
    BY <1>7, <1>8, <1>9 DEF FrameInv, TypeOK
<1>11. StreamIsFrames'
    BY <1>7 DEF FrameInv, StreamIsFrames
<1>12. ~shut
    BY <1>1, <1>2 DEF FrameInv, AtFrameStart
<1>13. AtFrameStart'
    <2>1. Len(handled') <= Len(sent')
        BY <1>3, <1>7, <1>8
    <2>2. retrieved' = starts'[Len(handled') + 1]
        BY <1>5, <1>7, <1>8
    <2>3. ASSUME NEW i \in 1..Len(handled')
          PROVE  Admitted(sent'[i].len) /\ handled'[i] = Outcome(sent'[i].body)
        <3>1. CASE i = m
            BY <1>1, <1>2, <1>7, <1>8, <3>1 DEF b
        <3>2. CASE i # m
            <4>1. i \in 1..Len(handled)
                BY <1>3, <1>8, <3>2
            <4> QED
                BY <1>7, <1>8, <4>1 DEF FrameInv, AtFrameStart
        <3> QED
            BY <3>1, <3>2
    <2> QED
        BY <1>7, <1>12, <2>1, <2>2, <2>3 DEF FrameInv, AtFrameStart
<1> QED
    BY <1>1, <1>2, <1>7, <1>10, <1>11, <1>13 DEF FrameInv, b

\* A step that leaves the frames and the place of onMessage alone
LEMMA QuietPreserves ==
    ASSUME FrameInv, TypeOK',
           UNCHANGED <<stream, retrieved, handled, sent, starts>>,
           handling' => up',
           shut' => shut \/ (/\ Len(handled) < Len(sent)
                             /\ ~Admitted(sent[Len(handled) + 1].len))
    PROVE  FrameInv'
<1>1. StreamIsFrames'
    BY DEF FrameInv, StreamIsFrames
<1>2. AtFrameStart'
    BY DEF FrameInv, AtFrameStart
<1> QED
    BY <1>1, <1>2 DEF FrameInv

LEMMA InitFrameInv == Init => FrameInv
<1> SUFFICES ASSUME Init PROVE FrameInv
    OBVIOUS
<1>1. TypeOK
    <2>1. /\ stream = << >> /\ handled = << >> /\ sent = << >> /\ starts = <<0>>
          /\ received = 0 /\ retrieved = 0
        BY DEF Init
    <2>2. /\ stream \in Seq(Byte) /\ Len(stream) = 0 /\ sent \in Seq(Items)
          /\ handled \in Seq([body : Seq(Byte), to : {"envelope", "error"}])
        BY <2>1, EmptySeq
    <2>3. starts \in Seq(Nat)
        BY <2>1
    <2>4. received \in 0..Len(stream) /\ retrieved \in 0..received
        BY <2>1, <2>2
    <2>5. handling \in BOOLEAN /\ shut \in BOOLEAN /\ up \in BOOLEAN
        BY DEF Init
    <2> QED
        BY <2>2, <2>3, <2>4, <2>5 DEF TypeOK
<1>2. StreamIsFrames
    BY DEF Init, StreamIsFrames
<1>3. AtFrameStart
    BY DEF Init, AtFrameStart
<1> QED
    BY <1>1, <1>2, <1>3 DEF FrameInv

\* What the proofs below need to know of Receive
LEMMA ReceiveFacts ==
    ASSUME FrameInv, Receive
    PROVE  FrameInv'
<1>1. PICK k \in (received + 1)..Len(stream) : received' = k
    BY DEF Receive
<1>2. Len(stream) \in Nat /\ received \in 0..Len(stream) /\ retrieved \in 0..received
    BY LenProperties DEF FrameInv, TypeOK
<1>3. received' \in 0..Len(stream') /\ retrieved' \in 0..received'
    BY <1>1, <1>2 DEF Receive
<1>4. TypeOK'
    BY <1>3 DEF FrameInv, TypeOK, Receive
<1> QED
    BY <1>4, QuietPreserves DEF Receive

\* onMessage finds a length that is not admitted.
LEMMA BadLengthFacts ==
    ASSUME FrameInv, BadLength
    PROVE  /\ FrameInv'
           /\ Len(handled) < Len(sent)
           /\ ~Admitted(sent[Len(handled) + 1].len)
<1>1. Len(handled) < Len(sent) /\ ~Admitted(sent[Len(handled) + 1].len)
    BY PeekIsNext DEF BadLength
<1>2. TypeOK'
    BY DEF FrameInv, TypeOK, BadLength
<1> QED
    BY <1>1, <1>2, QuietPreserves DEF BadLength, FrameInv, AtFrameStart

LEMMA NextFrameInv == FrameInv /\ [Next]_vars => FrameInv'
<1> SUFFICES ASSUME FrameInv, [Next]_vars PROVE FrameInv'
    OBVIOUS
<1>1. CASE \E item \in Items : SendServerMessage(item)
    BY <1>1, SendPreserves
<1>2. CASE Receive
    BY <1>2, ReceiveFacts
<1>3. CASE BadLength
    BY <1>3, BadLengthFacts
<1>4. CASE WholeFrame
    BY <1>4, WholeFramePreserves
<1>5. CASE WaitForMore
    <2>1. TypeOK'
        BY <1>5 DEF FrameInv, TypeOK, WaitForMore
    <2> QED
        BY <1>5, <2>1, QuietPreserves DEF WaitForMore, FrameInv, AtFrameStart
<1>6. CASE Close
    <2>1. TypeOK'
        BY <1>6 DEF FrameInv, TypeOK, Close
    <2> QED
        BY <1>6, <2>1, QuietPreserves DEF Close
<1>7. CASE UNCHANGED vars
    <2>1. TypeOK'
        BY <1>7 DEF FrameInv, TypeOK, vars
    <2> QED
        BY <1>7, <2>1, QuietPreserves DEF vars, FrameInv, AtFrameStart
<1> QED
    BY <1>1, <1>2, <1>3, <1>4, <1>5, <1>6, <1>7 DEF Next, OnMessage

\* onMessage keeps its place in the stream, for bytes of any size, any limit
\* and any bodies (codec.cc:9-31).
THEOREM FramingIsInvariant == Spec => []FrameInv
<1>1. Init => FrameInv
    BY InitFrameInv
<1>2. FrameInv /\ [Next]_vars => FrameInv'
    BY NextFrameInv
<1> QED
    BY <1>1, <1>2, PTL DEF Spec

\* What waits in the input buffer between two calls of onMessage is less than
\* one frame of the greatest length (codec.cc:14, 20).
THEOREM BufferIsBounded == Spec => []RestIsShort
<1>1. Init => RestIsShort
    BY FramingAssumption DEF Init, RestIsShort, ReadableBytes, kHeaderLen
<1>2. FrameInv /\ RestIsShort /\ [Next]_vars => RestIsShort'
    <2> SUFFICES ASSUME FrameInv, RestIsShort, [Next]_vars PROVE RestIsShort'
        OBVIOUS
    <2>1. CASE \E item \in Items : SendServerMessage(item)
        BY <2>1 DEF SendServerMessage, RestIsShort, ReadableBytes
    <2>2. CASE Receive
        BY <2>2 DEF Receive, RestIsShort
    <2>3. CASE BadLength
        BY <2>3 DEF BadLength, RestIsShort
    <2>4. CASE WholeFrame
        BY <2>4 DEF WholeFrame, RestIsShort
    <2>5. CASE WaitForMore
        <3>1. received \in Nat /\ retrieved \in Nat /\ MaxLen \in Nat
            BY FramingAssumption, LenProperties DEF FrameInv, TypeOK
        <3>2. ReadableBytes < kHeaderLen \/
                (PeekLen \in 0..MaxLen /\ ReadableBytes < PeekLen + kHeaderLen)
            BY <2>5 DEF WaitForMore, Admitted
        <3>3. ReadableBytes < kHeaderLen + MaxLen
            BY <3>1, <3>2 DEF ReadableBytes, kHeaderLen
        <3> QED
            BY <2>5, <3>3 DEF WaitForMore, RestIsShort, ReadableBytes
    <2>6. CASE Close
        BY <2>6 DEF Close, RestIsShort, ReadableBytes
    <2>7. CASE UNCHANGED vars
        BY <2>7 DEF vars, RestIsShort, ReadableBytes
    <2> QED
        BY <2>1, <2>2, <2>3, <2>4, <2>5, <2>6, <2>7 DEF Next, OnMessage
<1> QED
    BY <1>1, <1>2, FramingIsInvariant, PTL DEF Spec

-----------------------------------------------------------------------------
(***************************************************************************)
(* Framing implements FrameChannel                                          *)
(***************************************************************************)

\* The bodies in a sequence of outcomes
BodiesOf(q) == [i \in 1..Len(q) |-> q[i].body]

\* One more outcome is one more body.
LEMMA BodiesOfAppend ==
    ASSUME NEW b \in Seq(Byte),
           NEW q \in Seq([body : Seq(Byte), to : {"envelope", "error"}])
    PROVE  BodiesOf(Append(q, Outcome(b))) = Append(BodiesOf(q), b)
<1> DEFINE T == [body : Seq(Byte), to : {"envelope", "error"}]
<1>1. PICK o : o = Outcome(b)
    OBVIOUS
<1>2. o \in T /\ o.body = b
    BY <1>1, OutcomeType DEF Outcome
<1>3. PICK r : r = Append(q, o)
    OBVIOUS
<1>4. Len(q) \in Nat
    BY LenProperties
<1>5. Len(r) = Len(q) + 1 /\ r[Len(q) + 1] = o /\ \A i \in 1..Len(q) : r[i] = q[i]
    BY <1>2, <1>3, AppendProperties
<1>6. \A i \in 1..Len(q) : q[i].body \in Seq(Byte)
    <2> TAKE i \in 1..Len(q)
    <2>1. q[i] \in T
        BY ElementOfSeq
    <2> QED
        BY <2>1
<1>7. BodiesOf(q) \in Seq(Seq(Byte)) /\ Len(BodiesOf(q)) = Len(q)
    BY <1>4, <1>6 DEF BodiesOf
<1>8. PICK a : a = Append(BodiesOf(q), b)
    OBVIOUS
<1>9. /\ a \in Seq(Seq(Byte)) /\ Len(a) = Len(q) + 1 /\ a[Len(q) + 1] = b
      /\ \A i \in 1..Len(q) : a[i] = BodiesOf(q)[i]
    BY <1>7, <1>8, AppendProperties
<1>10. DOMAIN a = 1..(Len(q) + 1) /\ a = [i \in 1..(Len(q) + 1) |-> a[i]]
    BY <1>9, LenProperties
<1>11. \A i \in 1..(Len(q) + 1) : a[i] = r[i].body
    <2> TAKE i \in 1..(Len(q) + 1)
    <2>1. CASE i = Len(q) + 1
        BY <1>2, <1>5, <1>9, <2>1
    <2>2. CASE i # Len(q) + 1
        <3>1. i \in 1..Len(q)
            BY <1>4, <2>2
        <3> QED
            BY <1>5, <1>9, <3>1 DEF BodiesOf
    <2> QED
        BY <2>1, <2>2
<1>12. BodiesOf(r) = a
    BY <1>5, <1>10, <1>11 DEF BodiesOf
<1> QED
    BY <1>1, <1>3, <1>8, <1>12, Zenon

\* The length of the mapped sequence
LEMMA MappedLen ==
    ASSUME FrameInv
    PROVE  Len(BodiesOf(handled)) = Len(handled)
<1>1. Len(handled) \in Nat
    BY LenProperties DEF FrameInv, TypeOK
<1> QED
    BY <1>1 DEF BodiesOf

\* A step that handles nothing leaves the mapped sequence as it is.
LEMMA MappedUnchanged ==
    ASSUME handled' = handled
    PROVE  [i \in 1..Len(handled) |-> handled[i].body]'
           = [i \in 1..Len(handled) |-> handled[i].body]
    BY Zenon

\* Every step of Framing is a step of the channel or leaves it alone.
LEMMA StepSimulates ==
    FrameInv /\ [Next]_vars => [Channel!Next]_(Channel!vars)
<1> SUFFICES ASSUME FrameInv, [Next]_vars
             PROVE  [Channel!Next]_(Channel!vars)
    OBVIOUS
<1>1. ASSUME NEW item \in Items, SendServerMessage(item)
      PROVE  Channel!Send
    BY <1>1, MappedUnchanged DEF SendServerMessage, Channel!Send
<1>2. CASE Receive \/ WaitForMore \/ UNCHANGED vars
    <2>1. UNCHANGED <<sent, handled, shut, up>>
        BY <1>2 DEF Receive, WaitForMore, vars
    <2> QED
        BY <2>1, MappedUnchanged DEF Channel!vars
<1>3. ASSUME BadLength PROVE Channel!Refuse
    <2>1. Len(handled) < Len(sent) /\ ~Admitted(sent[Len(handled) + 1].len)
        BY <1>3, BadLengthFacts
    <2>2. Len([i \in 1..Len(handled) |-> handled[i].body]) = Len(handled)
        BY MappedLen DEF BodiesOf
    <2>3. up /\ shut' = TRUE /\ UNCHANGED <<sent, handled, up>>
        BY <1>3 DEF BadLength, FrameInv, AtFrameStart
    <2>4. Channel!Waiting
        BY <2>1, <2>2, Zenon DEF Channel!Waiting
    <2>5. ~Channel!Admitted(Channel!NextItem)
        BY <2>1, <2>2, Zenon DEF Admitted, Channel!NextItem, Channel!Admitted
    <2> QED
        BY <2>3, <2>4, <2>5, MappedUnchanged, Zenon DEF Channel!Refuse
<1>4. ASSUME WholeFrame PROVE Channel!Handle
    <2>1. /\ Len(handled) < Len(sent)
          /\ Admitted(sent[Len(handled) + 1].len)
          /\ handled' = Append(handled, Outcome(sent[Len(handled) + 1].body))
        BY <1>4, WholeFramePreserves
    <2>2. Len([i \in 1..Len(handled) |-> handled[i].body]) = Len(handled)
        BY MappedLen DEF BodiesOf
    <2>3. up /\ UNCHANGED <<sent, shut, up>>
        BY <1>4 DEF WholeFrame, FrameInv, AtFrameStart
    <2>4. Channel!Waiting /\ Channel!NextItem = sent[Len(handled) + 1]
        BY <2>1, <2>2, Zenon DEF Channel!Waiting, Channel!NextItem
    <2>5. Channel!Admitted(Channel!NextItem)
        BY <2>1, <2>4, Zenon DEF Admitted, Channel!Admitted
    <2>6. sent[Len(handled) + 1].body \in Seq(Byte)
        <3>1. sent[Len(handled) + 1] \in Items
            BY <1>4, PeekIsNext DEF WholeFrame
        <3> QED
            BY <3>1, ItemFacts
    <2>7. handled \in Seq([body : Seq(Byte), to : {"envelope", "error"}])
        BY DEF FrameInv, TypeOK
    <2>8. BodiesOf(Append(handled, Outcome(sent[Len(handled) + 1].body)))
            = Append(BodiesOf(handled), sent[Len(handled) + 1].body)
        BY <2>6, <2>7, BodiesOfAppend, Zenon
    <2>9. BodiesOf(handled') = Append(BodiesOf(handled), Channel!NextItem.body)
        BY <2>1, <2>4, <2>8, Zenon
    <2> QED
        BY <2>3, <2>4, <2>5, <2>9, Zenon DEF Channel!Handle, BodiesOf
<1>5. ASSUME Close PROVE Channel!Close
    BY <1>5, MappedUnchanged DEF Close, Channel!Close
<1> QED
    BY <1>1, <1>2, <1>3, <1>4, <1>5 DEF Next, OnMessage, Channel!Next

\* The framing delivers messages in order, each once and whole, up to the first
\* that is not admitted: it implements the safety part of FrameChannel
\* (codec.cc:5-32).
THEOREM FramingImplementsChannel == Spec => ChannelSafe
<1>1. Init => Channel!Init
    <2> SUFFICES ASSUME Init PROVE Channel!Init
        OBVIOUS
    <2>1. handled = << >> /\ Len(handled) = 0
        BY DEF Init
    <2>2. [i \in 1..Len(handled) |-> handled[i].body] = << >>
        BY <2>1
    <2> QED
        BY <2>2, Zenon DEF Init, Channel!Init
<1>2. FrameInv /\ [Next]_vars => [Channel!Next]_(Channel!vars)
    BY StepSimulates
<1> QED
    BY <1>1, <1>2, FramingIsInvariant, PTL DEF Spec, ChannelSafe, Channel!SafeSpec
=============================================================================
