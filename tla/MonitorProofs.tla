---------------------------- MODULE MonitorProofs ---------------------------
(***************************************************************************)
(* Theorems about Monitor, for every size of the read buffer and any       *)
(* number of bytes and faults.                                             *)
(***************************************************************************)
EXTENDS Monitor, SequenceTheorems, TLAPS

Byte == 1..MaxBytes
Files == {"stdout", "file"}
Stream(n) == [k \in 1..n |-> k]

\* Nothing is in hand but while it is being written; a write that failed was
\* the last; and without -out there is no file.
Control ==
    /\ writers \in {Writers(TRUE), Writers(FALSE)} /\ writeFailed \in BOOLEAN
    /\ step # "write" => hand = <<>>
    /\ writeFailed => step \in {"returned", "exited"}
    /\ writers = Writers(FALSE) => out["file"] = <<>>

\* What each writer has, is to get, and waits to be read.
Joint == \A i \in DOMAIN writers : out[writers[i]] \o Unwritten(i) \o input = Stream(sent)

InOrder == \A w \in Files : IsPrefix(out[w], Stream(sent))

IInv ==
    /\ TypeOK /\ Control
    /\ ~writeFailed => Joint
    /\ writeFailed => InOrder

-----------------------------------------------------------------------------
(* Sequences. *)

LEMMA StreamType ==
    ASSUME NEW n \in 0..MaxBytes
    PROVE  Stream(n) \in Seq(Byte) /\ Len(Stream(n)) = n /\ \A k \in 1..n : Stream(n)[k] = k
  BY MonitorAssumption DEF Stream, Byte

LEMMA Associative ==
    ASSUME NEW q \in Seq(Byte), NEW r \in Seq(Byte), NEW s \in Seq(Byte)
    PROVE  (q \o r) \o s = q \o (r \o s) /\ r \o s \in Seq(Byte)
  BY ConcatAssociative

LEMMA PrefixOfConcat ==
    ASSUME NEW S, NEW q \in Seq(S), NEW r \in Seq(S)
    PROVE  IsPrefix(q, q \o r)
<1>1. /\ q \o r \in Seq(S) /\ Len(q) \in Nat /\ Len(r) \in Nat
      /\ Len(q \o r) = Len(q) + Len(r)
      /\ \A i \in 1..Len(q) : (q \o r)[i] = q[i]
  OBVIOUS
<1>2. CASE Len(q) = 0
  BY <1>1, <1>2, SubSeqEmpty DEF IsPrefix
<1>3. CASE Len(q) # 0
  <2>1. SubSeq(q \o r, 1, Len(q)) = SubSeq(q, 1, Len(q))
    BY <1>1, <1>3, SubSeqOfConcat1
  <2> QED
    BY <1>1, <2>1 DEF IsPrefix
<1> QED
  BY <1>2, <1>3

\* What is sent only ever gets longer.
LEMMA PrefixOfMore ==
    ASSUME NEW n \in 0..MaxBytes, n + 1 \in 0..MaxBytes, NEW q \in Seq(Byte),
           IsPrefix(q, Stream(n))
    PROVE  IsPrefix(q, Stream(n + 1))
<1>1. Len(q) <= n /\ SubSeq(q, 1, Len(q)) = SubSeq(Stream(n), 1, Len(q)) /\ Len(q) \in Nat
  BY StreamType DEF IsPrefix
<1>2. \A i \in 1..Len(q) : Stream(n)[i] = Stream(n + 1)[i]
  BY <1>1, StreamType
<1>3. SubSeq(Stream(n), 1, Len(q)) = SubSeq(Stream(n + 1), 1, Len(q))
  <2>1. /\ SubSeq(Stream(n), 1, Len(q)) \in Seq(Byte)
        /\ SubSeq(Stream(n + 1), 1, Len(q)) \in Seq(Byte)
        /\ Len(SubSeq(Stream(n), 1, Len(q))) = Len(q)
        /\ Len(SubSeq(Stream(n + 1), 1, Len(q))) = Len(q)
        /\ \A i \in 1..Len(q) : SubSeq(Stream(n), 1, Len(q))[i] = Stream(n)[i]
        /\ \A i \in 1..Len(q) : SubSeq(Stream(n + 1), 1, Len(q))[i] = Stream(n + 1)[i]
    BY <1>1, StreamType
  <2> QED
    BY <1>2, <2>1, SeqEqual
<1> QED
  BY <1>1, <1>3, StreamType DEF IsPrefix

LEMMA Longer ==
    ASSUME NEW n \in 0..MaxBytes, n + 1 \in 0..MaxBytes
    PROVE  n + 1 \in Byte /\ Stream(n + 1) = Append(Stream(n), n + 1)
<1>1. n + 1 \in Byte /\ n \in Nat
  BY MonitorAssumption DEF Byte
<1>2. /\ Append(Stream(n), n + 1) \in Seq(Byte) /\ Len(Append(Stream(n), n + 1)) = n + 1
      /\ \A i \in 1..n : Append(Stream(n), n + 1)[i] = Stream(n)[i]
      /\ Append(Stream(n), n + 1)[n + 1] = n + 1
  BY <1>1, StreamType, AppendProperties
<1>3. \A i \in 1..(n + 1) : Append(Stream(n), n + 1)[i] = Stream(n + 1)[i]
  BY <1>1, <1>2, StreamType
<1> QED
  BY <1>1, <1>2, <1>3, StreamType, SeqEqual

\* Reading takes the front of the input.
LEMMA Split ==
    ASSUME NEW S, NEW q \in Seq(S), NEW n \in Nat, n <= Len(q)
    PROVE  /\ SubSeq(q, 1, n) \in Seq(S) /\ Len(SubSeq(q, 1, n)) = n
           /\ SubSeq(q, n + 1, Len(q)) \in Seq(S)
           /\ q = SubSeq(q, 1, n) \o SubSeq(q, n + 1, Len(q))
<1> DEFINE a == SubSeq(q, 1, n)
           b == SubSeq(q, n + 1, Len(q))
<1>1. Len(q) \in Nat /\ \A i \in 1..Len(q) : q[i] \in S
  OBVIOUS
<1>2. a \in Seq(S) /\ Len(a) = n /\ \A i \in 1..n : a[i] = q[i]
  <2>1. \A i \in 1..n : q[i] \in S
    BY <1>1
  <2>2. a \in Seq(S) /\ Len(a) = (IF 1 <= n THEN n - 1 + 1 ELSE 0)
        /\ \A i \in 1..(n - 1 + 1) : a[i] = q[1 + i - 1]
    BY <2>1, SubSeqProperties
  <2> HIDE DEF a
  <2> QED
    BY <2>2
<1>3. b \in Seq(S) /\ Len(b) = Len(q) - n /\ \A i \in 1..(Len(q) - n) : b[i] = q[n + i]
  <2>1. \A i \in (n + 1)..Len(q) : q[i] \in S
    BY <1>1
  <2>2. b \in Seq(S) /\ Len(b) = (IF n + 1 <= Len(q) THEN Len(q) - (n + 1) + 1 ELSE 0)
        /\ \A i \in 1..(Len(q) - (n + 1) + 1) : b[i] = q[(n + 1) + i - 1]
    BY <1>1, <2>1, SubSeqProperties
  <2> HIDE DEF b
  <2> QED
    BY <1>1, <2>2
<1> HIDE DEF a, b
<1>4. a \o b \in Seq(S) /\ Len(a \o b) = Len(q) /\ \A i \in 1..Len(q) : (a \o b)[i] = q[i]
  <2>0. Len(a) = n /\ Len(b) = Len(q) - n /\ a \in Seq(S) /\ b \in Seq(S)
    BY <1>2, <1>3
  <2>a. /\ a \o b \in Seq(S) /\ Len(a \o b) = Len(a) + Len(b)
        /\ \A i \in 1..(Len(a) + Len(b)) :
               (a \o b)[i] = IF i <= Len(a) THEN a[i] ELSE b[i - Len(a)]
    BY <2>0, ConcatProperties
  <2>1. /\ a \o b \in Seq(S) /\ Len(a \o b) = n + (Len(q) - n)
        /\ \A i \in 1..(n + (Len(q) - n)) : (a \o b)[i] = IF i <= n THEN a[i] ELSE b[i - n]
    BY <2>0, <2>a, Zenon
  <2>2. n + (Len(q) - n) = Len(q)
    BY <1>1
  <2>3. ASSUME NEW i \in 1..Len(q) PROVE (a \o b)[i] = q[i]
    <3>1. CASE i <= n
      BY <1>2, <2>1, <2>2, <3>1
    <3>2. CASE ~(i <= n)
      <4>1. (a \o b)[i] = b[i - n] /\ i - n \in 1..(Len(q) - n) /\ n + (i - n) = i
        BY <1>1, <2>1, <2>2, <3>2
      <4> QED
        BY <1>3, <4>1
    <3> QED
      BY <3>1, <3>2
  <2> QED
    BY <2>1, <2>2, <2>3
<1>5. q = a \o b
  BY <1>1, <1>4, SeqEqual
<1> QED
  BY <1>2, <1>3, <1>5 DEF a, b

-----------------------------------------------------------------------------
(* The steps. *)



LEMMA WritersType ==
    ASSUME Control
    PROVE  /\ DOMAIN writers = 1..Len(writers) /\ Len(writers) \in {1, 2}
           /\ \A i \in DOMAIN writers : writers[i] \in Files
           /\ \A i, j \in DOMAIN writers : writers[i] = writers[j] => i = j
           /\ \A w \in Files : (\E i \in DOMAIN writers : w = writers[i])
                                   \/ (writers = Writers(FALSE) /\ w = "file")
<1>1. CASE writers = Writers(TRUE)
  <2>1. writers = <<"stdout", "file">>
    BY <1>1 DEF Writers
  <2>2. Len(writers) = 2 /\ DOMAIN writers = 1..2
    BY <2>1
  <2>3. writers[1] = "stdout" /\ writers[2] = "file"
    BY <2>1
  <2>4. \A i \in 1..2 : i = 1 \/ i = 2
    OBVIOUS
  <2>5. \A i \in DOMAIN writers : writers[i] \in Files
    BY <2>2, <2>3, <2>4 DEF Files
  <2>6. \A i, j \in DOMAIN writers : writers[i] = writers[j] => i = j
    BY <2>2, <2>3, <2>4
  <2>7. \A w \in Files : \E i \in DOMAIN writers : w = writers[i]
    BY <2>2, <2>3 DEF Files
  <2> QED
    BY <2>2, <2>5, <2>6, <2>7
<1>2. CASE writers = Writers(FALSE)
  <2>1. writers = <<"stdout">>
    BY <1>2 DEF Writers
  <2>2. Len(writers) = 1 /\ DOMAIN writers = 1..1
    BY <2>1
  <2>3. writers[1] = "stdout" /\ \A i \in 1..1 : i = 1
    BY <2>1
  <2>4. \A i \in DOMAIN writers : writers[i] \in Files
    BY <2>2, <2>3 DEF Files
  <2>5. \A i, j \in DOMAIN writers : i = j
    BY <2>2, <2>3
  <2>6. \A w \in Files : (\E i \in DOMAIN writers : w = writers[i]) \/ w = "file"
    BY <2>2, <2>3 DEF Files
  <2> QED
    BY <1>2, <2>2, <2>4, <2>5, <2>6
<1> QED
  BY <1>1, <1>2 DEF Control

LEMMA StreamsType ==
    ASSUME TypeOK
    PROVE  /\ input \in Seq(Byte) /\ hand \in Seq(Byte) /\ <<>> \in Seq(Byte)
           /\ \A w \in Files : out[w] \in Seq(Byte)
           /\ \A i : Unwritten(i) \in Seq(Byte)
           /\ sent \in 0..MaxBytes /\ Stream(sent) \in Seq(Byte)
<1>1. /\ input \in Seq(Byte) /\ hand \in Seq(Byte) /\ <<>> \in Seq(Byte)
      /\ \A w \in Files : out[w] \in Seq(Byte)
      /\ sent \in 0..MaxBytes
  BY DEF TypeOK, Files, Byte
<1> QED
  BY <1>1, StreamType DEF Unwritten

\* A prefix, then, is what each of them has.
LEMMA JointPrefix ==
    ASSUME TypeOK, Control, Joint
    PROVE  InOrder
<1> SUFFICES ASSUME NEW w \in Files PROVE IsPrefix(out[w], Stream(sent))
  BY DEF InOrder
<1>0. out[w] \in Seq(Byte) /\ Stream(sent) \in Seq(Byte) /\ input \in Seq(Byte)
  BY StreamsType
<1>1. CASE \E i \in DOMAIN writers : w = writers[i]
  <2>1. PICK i \in DOMAIN writers : w = writers[i]
    BY <1>1
  <2>2. Unwritten(i) \in Seq(Byte)
    BY StreamsType
  <2>3. out[w] \o Unwritten(i) \o input = out[w] \o (Unwritten(i) \o input)
    <3>1. \A q, r, s \in Seq(Byte) : q \o r \o s = q \o (r \o s)
      BY Associative
    <3> QED
      BY <1>0, <2>2, <3>1, Zenon
  <2>4. Unwritten(i) \o input \in Seq(Byte)
    BY <1>0, <2>2, ConcatProperties
  <2>5. out[w] \o (Unwritten(i) \o input) = Stream(sent)
    BY <2>1, <2>3 DEF Joint
  <2> QED
    BY <1>0, <2>4, <2>5, PrefixOfConcat
<1>2. CASE writers = Writers(FALSE) /\ w = "file"
  <2>1. out[w] = <<>>
    BY <1>2 DEF Control
  <2>2. <<>> \o Stream(sent) = Stream(sent)
    BY <1>0, ConcatEmptySeq
  <2> QED
    BY <1>0, <2>1, <2>2, PrefixOfConcat
<1> QED
  BY <1>1, <1>2, WritersType

LEMMA UnwrittenWhenIdle ==
    ASSUME IInv, NEW i \in DOMAIN writers, step # "write" \/ hand = <<>> \/ turn > Len(writers)
    PROVE  Unwritten(i) = <<>>
<1>1. i <= Len(writers) /\ turn \in Nat /\ i \in Nat /\ Len(writers) \in Nat
  BY WritersType DEF IInv, TypeOK
<1> QED
  BY <1>1 DEF IInv, Control, Unwritten

LEMMA ReadHolds == ASSUME IInv, Read PROVE IInv'
<1> USE DEF IInv
<1>1. PICK n \in Sizes, failed \in BOOLEAN :
          /\ n <= Len(input)
          /\ failed => faults < MaxFaults
          /\ faults' = IF failed THEN faults + 1 ELSE faults
          /\ input' = SubSeq(input, n + 1, Len(input))
          /\ hand' = ToWrite(SubSeq(input, 1, n), failed)
          /\ readErr' = failed
  BY DEF Read
<1>2. /\ step = "read" /\ step' = "write" /\ turn' = 1
      /\ UNCHANGED <<sent, writers, out, err, signal, cancelled, exit, writeFailed>>
  BY DEF Read
<1>3. ~writeFailed /\ ~writeFailed' /\ hand = <<>>
  BY <1>2 DEF Control
<1>4. n \in Nat /\ n <= BufSize
  BY MonitorAssumption DEF Sizes
<1>5. input \in Seq(Byte)
  BY StreamsType
<1>6. /\ hand' \in Seq(Byte) /\ Len(hand') = n /\ input' \in Seq(Byte) /\ input = hand' \o input'
  BY <1>1, <1>4, <1>5, Split DEF ToWrite
<1>7. TypeOK'
  <2>1. faults' \in 0..MaxFaults /\ Len(hand') <= BufSize
    BY <1>1, <1>4, <1>6, MonitorAssumption DEF TypeOK
  <2> QED
    BY <1>2, <1>6, <2>1 DEF TypeOK, Byte
<1>8. Control'
  BY <1>2, <1>3 DEF Control
<1>9. Joint'
  <2> SUFFICES ASSUME NEW i \in DOMAIN writers
               PROVE  out[writers[i]] \o Unwritten(i)' \o input' = Stream(sent)
    BY <1>2 DEF Joint
  <2>1. out[writers[i]] \in Seq(Byte)
    BY WritersType, StreamsType
  <2>2. Unwritten(i) = <<>>
    BY <1>2, UnwrittenWhenIdle
  <2>3. out[writers[i]] \o Unwritten(i) \o input = Stream(sent)
    BY <1>3 DEF Joint
  <2>4. out[writers[i]] \o Unwritten(i) = out[writers[i]]
    BY <2>1, <2>2
  <2>5. i \in Nat /\ i >= 1
    BY WritersType
  <2>6. Unwritten(i)' = hand'
    BY <1>2, <2>5 DEF Unwritten
  <2>7. out[writers[i]] \o hand' \o input' = out[writers[i]] \o input
    BY <1>6, <2>1, Associative
  <2> QED
    BY <2>3, <2>4, <2>6, <2>7
<1> QED
  BY <1>3, <1>7, <1>8, <1>9

LEMMA WriteHolds == ASSUME IInv, Write PROVE IInv'
<1> USE DEF IInv
<1>1. /\ step = "write" /\ turn <= Len(writers)
      /\ out' = [out EXCEPT ![writers[turn]] = @ \o hand] /\ turn' = turn + 1
      /\ UNCHANGED <<sent, input, writers, step, hand, writeFailed, faults, exit>>
  BY DEF Write
<1>2. ~writeFailed /\ ~writeFailed' /\ turn \in 1..3
  BY <1>1 DEF Control, TypeOK
<1>3. turn \in DOMAIN writers /\ turn \in 1..2 /\ writers[turn] \in Files
  BY <1>1, <1>2, WritersType
<1>4. /\ out \in [Files -> Seq(Byte)] /\ hand \in Seq(Byte) /\ input \in Seq(Byte)
  BY StreamsType DEF TypeOK, Files, Byte
<1>5. out[writers[turn]] \o hand \in Seq(Byte)
  BY <1>3, <1>4, ConcatProperties
<1>6. /\ out' \in [Files -> Seq(Byte)]
      /\ out'[writers[turn]] = out[writers[turn]] \o hand
      /\ \A w \in Files : w # writers[turn] => out'[w] = out[w]
  BY <1>1, <1>3, <1>4, <1>5
<1>7. TypeOK'
  BY <1>1, <1>3, <1>6 DEF TypeOK, Files, Byte
<1>8. Control'
  <2>1. ASSUME writers = Writers(FALSE) PROVE writers[turn] # "file"
    <3>1. Len(writers) = 1 /\ writers[1] = "stdout"
      BY <2>1 DEF Writers
    <3> QED
      BY <1>1, <1>2, <3>1
  <2> QED
    BY <1>1, <1>2, <1>6, <2>1 DEF Control, Files
<1>9. Joint'
  <2> SUFFICES ASSUME NEW i \in DOMAIN writers
               PROVE  out'[writers[i]] \o Unwritten(i)' \o input = Stream(sent)
    BY <1>1 DEF Joint
  <2>1. out[writers[i]] \o Unwritten(i) \o input = Stream(sent)
    BY <1>2 DEF Joint
  <2>2. i \in Nat /\ writers[i] \in Files
    BY WritersType
  <2>3. CASE i = turn
    <3>1. Unwritten(i) = hand /\ Unwritten(i)' = <<>>
      BY <1>1, <1>2, <2>3 DEF Unwritten
    <3>2. (out[writers[turn]] \o hand) \o <<>> = out[writers[turn]] \o hand
      BY <1>5
    <3> QED
      BY <1>6, <2>1, <2>3, <3>1, <3>2
  <2>4. CASE i # turn
    <3>1. writers[i] # writers[turn]
      BY <1>3, <2>4, WritersType
    <3>2. Unwritten(i)' = Unwritten(i)
      BY <1>1, <1>2, <2>2, <2>4 DEF Unwritten
    <3> QED
      BY <1>6, <2>1, <2>2, <3>1, <3>2
  <2> QED
    BY <2>3, <2>4
<1> QED
  BY <1>2, <1>7, <1>8, <1>9

LEMMA WrittenHolds == ASSUME IInv, Written PROVE IInv'
<1> USE DEF IInv
<1>1. /\ step = "write" /\ (hand = <<>> \/ turn > Len(writers)) /\ hand' = <<>>
      /\ step' \in {"returned", "check"}
      /\ UNCHANGED <<sent, input, writers, out, turn, exit, writeFailed, faults>>
  BY DEF Written
<1>2. ~writeFailed /\ ~writeFailed'
  BY <1>1 DEF Control
<1>3. TypeOK'
  BY <1>1, MonitorAssumption DEF TypeOK
<1>4. Control'
  BY <1>1, <1>2 DEF Control
<1>5. Joint'
  <2> SUFFICES ASSUME NEW i \in DOMAIN writers PROVE Unwritten(i)' = Unwritten(i)
    BY <1>1, <1>2 DEF Joint
  <2>1. Unwritten(i) = <<>>
    BY <1>1, UnwrittenWhenIdle
  <2> QED
    BY <1>1, <2>1 DEF Unwritten
<1> QED
  BY <1>2, <1>3, <1>4, <1>5

\* What a failed write has written is the front of what was in hand.
LEMMA WriteFailsHolds == ASSUME IInv, WriteFails PROVE IInv'
<1> USE DEF IInv
<1>1. PICK n \in 0..(Len(hand) - 1) :
          out' = [out EXCEPT ![writers[turn]] = @ \o SubSeq(hand, 1, n)]
  BY DEF WriteFails
<1>2. /\ step = "write" /\ turn <= Len(writers) /\ step' = "returned" /\ hand' = <<>> /\ writeFailed'
      /\ faults < MaxFaults /\ faults' = faults + 1
      /\ UNCHANGED <<sent, input, writers, turn, exit>>
  BY DEF WriteFails
<1>3. ~writeFailed /\ turn \in 1..3
  BY <1>2 DEF Control, TypeOK
<1>4. turn \in DOMAIN writers /\ writers[turn] \in Files
  BY <1>2, <1>3, WritersType
<1>5. /\ out \in [Files -> Seq(Byte)] /\ hand \in Seq(Byte) /\ input \in Seq(Byte)
      /\ Stream(sent) \in Seq(Byte)
  BY StreamsType DEF TypeOK, Files, Byte
<1> DEFINE part == SubSeq(hand, 1, n)
           rest == SubSeq(hand, n + 1, Len(hand))
           had == out[writers[turn]]
<1>6. part \in Seq(Byte) /\ rest \in Seq(Byte) /\ hand = part \o rest
  <2>1. n \in Nat /\ n <= Len(hand)
    BY <1>5
  <2> QED
    BY <1>5, <2>1, Split
<1>7. out' = [out EXCEPT ![writers[turn]] = had \o part]
  BY <1>1
<1> HIDE DEF part, rest, had
<1>8. had \in Seq(Byte) /\ had \o part \in Seq(Byte)
  BY <1>4, <1>5, <1>6, ConcatProperties DEF had
<1>9. /\ out' \in [Files -> Seq(Byte)] /\ out'[writers[turn]] = had \o part
      /\ \A w \in Files : w # writers[turn] => out'[w] = out[w]
  BY <1>4, <1>5, <1>7, <1>8
<1>10. TypeOK'
  BY <1>2, <1>9, MonitorAssumption DEF TypeOK, Files, Byte
<1>11. Control'
  <2>1. ASSUME writers = Writers(FALSE) PROVE writers[turn] # "file"
    <3>1. Len(writers) = 1 /\ writers[1] = "stdout"
      BY <2>1 DEF Writers
    <3> QED
      BY <1>2, <1>3, <3>1
  <2>2. writeFailed' \in BOOLEAN
    BY DEF WriteFails
  <2> QED
    BY <1>2, <1>9, <2>1, <2>2 DEF Control, Files
<1>12. InOrder'
  <2>1. Joint
    BY <1>3
  <2>2. had \o hand \o input = Stream(sent)
    <3>1. Unwritten(turn) = hand
      BY <1>3 DEF Unwritten
    <3> QED
      BY <1>4, <2>1, <3>1 DEF Joint, had
  <2>3. had \o hand = (had \o part) \o rest
    BY <1>6, <1>8, Associative
  <2>4. ((had \o part) \o rest) \o input = (had \o part) \o (rest \o input)
        /\ rest \o input \in Seq(Byte)
    <3> DEFINE x == had \o part
    <3>1. x \in Seq(Byte)
      BY <1>8
    <3> HIDE DEF x
    <3>2. (x \o rest) \o input = x \o (rest \o input) /\ rest \o input \in Seq(Byte)
      BY <1>5, <1>6, <3>1, Associative
    <3> QED
      BY <3>2 DEF x
  <2>5. (had \o part) \o (rest \o input) = Stream(sent)
    BY <2>2, <2>3, <2>4
  <2>6. IsPrefix(had \o part, Stream(sent))
    BY <1>8, <2>4, <2>5, PrefixOfConcat
  <2>7. InOrder
    BY <2>1, JointPrefix
  <2> QED
    BY <1>2, <1>9, <2>6, <2>7 DEF InOrder
<1> QED
  BY <1>2, <1>10, <1>11, <1>12

LEMMA SendHolds == ASSUME IInv, Send PROVE IInv'
<1> USE DEF IInv
<1>1. /\ sent < MaxBytes /\ sent' = sent + 1 /\ input' = Append(input, sent + 1)
      /\ UNCHANGED <<writers, out, step, hand, turn, exit, writeFailed, faults>>
  BY DEF Send
<1>2. sent \in 0..MaxBytes /\ sent + 1 \in 0..MaxBytes
  BY <1>1, MonitorAssumption DEF TypeOK
<1>3. sent + 1 \in Byte /\ Stream(sent + 1) = Append(Stream(sent), sent + 1)
  BY <1>2, Longer
<1>4. input \in Seq(Byte) /\ input' \in Seq(Byte) /\ Stream(sent) \in Seq(Byte)
  BY <1>1, <1>3, StreamsType, AppendProperties
<1>5. TypeOK'
  BY <1>1, <1>2, <1>4 DEF TypeOK, Byte
<1>6. Control'
  BY <1>1 DEF Control
<1>7. ASSUME ~writeFailed PROVE Joint'
  <2> SUFFICES ASSUME NEW i \in DOMAIN writers
               PROVE  out[writers[i]] \o Unwritten(i) \o input' = Stream(sent + 1)
    BY <1>1 DEF Joint, Unwritten
  <2> DEFINE x == out[writers[i]] \o Unwritten(i)
             e == sent + 1
  <2>1. x \in Seq(Byte)
    <3>1. out[writers[i]] \in Seq(Byte) /\ Unwritten(i) \in Seq(Byte)
      BY WritersType, StreamsType
    <3> QED
      BY <3>1, ConcatProperties
  <2>2. x \o input = Stream(sent)
    BY <1>7 DEF Joint
  <2> HIDE DEF x
  <2>3. <<e>> \in Seq(Byte)
    BY <1>3
  <2>4. input' = input \o <<e>> /\ Append(Stream(sent), e) = Stream(sent) \o <<e>>
    BY <1>1, <1>3, <1>4, AppendIsConcat
  <2>5. x \o (input \o <<e>>) = (x \o input) \o <<e>>
    BY <1>4, <2>1, <2>3, Associative
  <2>6. x \o input' = Stream(e)
    BY <1>3, <2>2, <2>4, <2>5
  <2> QED
    BY <2>6 DEF x
<1>8. ASSUME writeFailed PROVE InOrder'
  <2>1. \A w \in Files : out[w] \in Seq(Byte) /\ IsPrefix(out[w], Stream(sent))
    BY <1>8, StreamsType DEF InOrder
  <2>2. \A w \in Files : IsPrefix(out[w], Stream(sent + 1))
    BY <1>2, <2>1, PrefixOfMore
  <2> QED
    BY <1>1, <2>2 DEF InOrder
<1> QED
  BY <1>1, <1>5, <1>6, <1>7, <1>8

\* The other steps leave the bytes where they are.
LEMMA RestHolds ==
    ASSUME IInv, step # "write",
           UNCHANGED <<sent, input, writers, out, hand, turn, writeFailed, faults>>,
           step' \in {"check", "read", "returned", "exited"}, exit' \in {0, 1},
           writeFailed => step' = "exited"
    PROVE  IInv'
<1> USE DEF IInv
<1>1. TypeOK'
  BY DEF TypeOK
<1>2. Control'
  BY DEF Control
<1>3. (Joint => Joint') /\ (InOrder => InOrder')
  BY DEF Joint, InOrder, Unwritten
<1> QED
  BY <1>1, <1>2, <1>3

LEMMA NextHolds == ASSUME IInv, [Next]_vars PROVE IInv'
<1>1. CASE Reset \/ Check
  BY <1>1, RestHolds DEF Reset, Check, IInv, Control, TypeOK
<1>2. CASE Exit
  BY <1>2, RestHolds DEF Exit, IInv, Control
<1>3. CASE Interrupt \/ Cancel \/ UNCHANGED vars
  <2>1. UNCHANGED <<sent, input, writers, out, hand, turn, step, exit, writeFailed, faults>>
    BY <1>3 DEF Interrupt, Cancel, vars
  <2> QED
    BY <2>1 DEF IInv, TypeOK, Control, Joint, InOrder, Unwritten
<1> QED
  BY <1>1, <1>2, <1>3, ReadHolds, WriteHolds, WrittenHolds, WriteFailsHolds, SendHolds
     DEF Next, Loop

LEMMA InitHolds == ASSUME Init PROVE IInv
<1>1. /\ sent = 0 /\ input = <<>> /\ out = [w \in Files |-> <<>>] /\ hand = <<>> /\ turn = 1
      /\ exit = 0 /\ writeFailed = FALSE /\ faults = 0 /\ step \in {"reset", "check"}
      /\ writers \in {Writers(TRUE), Writers(FALSE)}
  BY DEF Init, Files
<1>2. TypeOK
  <2>1. <<>> \in Seq(1..MaxBytes) /\ Len(<<>>) = 0
    OBVIOUS
  <2> QED
    BY <1>1, <2>1, MonitorAssumption DEF TypeOK, Files
<1>3. Control
  BY <1>1 DEF Control, Files
<1>4. Joint
  <2> SUFFICES ASSUME NEW i \in DOMAIN writers
               PROVE  out[writers[i]] \o Unwritten(i) \o input = Stream(sent)
    BY DEF Joint
  <2>1. out[writers[i]] = <<>> /\ Unwritten(i) = <<>> /\ input = <<>>
    BY <1>1, <1>3, WritersType DEF Unwritten
  <2>2. Stream(sent) = <<>>
    <3>1. Stream(0) \in Seq(Byte) /\ Len(Stream(0)) = 0
      BY StreamType, MonitorAssumption
    <3> QED
      BY <1>1, <3>1, EmptySeq
  <2> QED
    BY <2>1, <2>2
<1> QED
  BY <1>1, <1>2, <1>3, <1>4 DEF IInv

LEMMA Invariant == Spec => []IInv
  BY InitHolds, NextHolds, PTL DEF Spec

\* Read never hands on more than the buffer holds, and the loop keeps its states.
THEOREM TypeCorrect == Spec => []TypeOK
<1>1. IInv => TypeOK
  BY DEF IInv
<1> QED
  BY <1>1, Invariant, PTL

\* The terminal and the file get what the board has sent, every byte once and in
\* order, however it is cut into reads, and whichever of them deliver bytes
\* together with an error; a write that fails loses the end and nothing before it.
THEOREM StreamedCorrect == Spec => []Streamed
<1>1. IInv => Streamed
  <2> SUFFICES ASSUME IInv PROVE Streamed
    OBVIOUS
  <2>1. writeFailed \in BOOLEAN
    BY DEF IInv, Control
  <2>2. InOrder
    BY <2>1, JointPrefix DEF IInv
  <2> QED
    BY <2>2 DEF IInv, Streamed, Joint, InOrder, Stream, Files
<1> QED
  BY <1>1, Invariant, PTL
=============================================================================
