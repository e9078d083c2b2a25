--------------------------- MODULE ReadFlashProofs --------------------------
(***************************************************************************)
(* Theorems about ReadFlash, for a region of any length, any block size and *)
(* window, and any number of faults.                                       *)
(***************************************************************************)
EXTENDS ReadFlash, TLAPS

Ack == [kind : {"read", "ack"}, total : Nat]

-----------------------------------------------------------------------------
(* What is where. *)

\* A response comes first, if it is still to come.
Off == IF down # <<>> /\ down[1].kind = "response" THEN 1 ELSE 0

\* The stages of the exchange: request, response, data, digest.
Stages ==
    /\ phase \in {"call", "response"} => out = <<>> /\ total = 0
    /\ phase = "call" => up = <<>> /\ down = <<>> /\ ~streaming /\ sent = 0
    /\ phase = "data" => total < Length /\ streaming
    /\ phase = "digest" => total >= Length
    /\ acked <= total /\ \A i \in DOMAIN up : up[i].total <= total
    /\ \A i \in DOMAIN up : up[i].kind = "read" =>
           /\ Len(up) = 1 /\ ~streaming /\ sent = 0 /\ total = 0 /\ down = <<>>
           /\ phase \notin {"call", "data", "digest"}
    /\ \A i \in DOMAIN down :
           /\ down[i].kind = "response" =>
                  i = 1 /\ streaming /\ total = 0 /\ phase \notin {"call", "data", "digest"}
           /\ down[i].kind = "digest" => total >= Length

\* Bytes sent as data, and frames of data that have arrived or may yet.
SentBytes == IF sent = Blocks THEN Length ELSE BlockSize * sent
Count == Len(out) + Len(down) - Off

\* A bound on the host's count of bytes after each frame to come.  A frame takes
\* at least TailSize of the bytes sent, and so does one that is missing; a fault
\* adds a byte at most.
Weighs(w) ==
    /\ w \in [0..Len(down) -> Nat]
    /\ w[0] >= total /\ (Count < sent => w[0] >= total + TailSize)
    /\ \A i, j \in 0..Len(down) : i <= j => w[i] <= w[j]
    /\ \A i \in 1..Len(down) : down[i].kind = "data" =>
           w[i] >= w[i - 1] + down[i].size /\ w[i] >= w[i - 1] + TailSize
    /\ w[Len(down)] <= SentBytes + Len(faults)

\* Blocks arrive in order: the i-th that arrives is the i-th sent or a later one.
InOrder ==
    /\ Count <= sent
    /\ \A i \in DOMAIN down : i > Off => down[i].kind = "data"
    /\ \A i \in DOMAIN out : out[i] # Damaged => i <= out[i] /\ out[i] + Count <= sent + i
    /\ \A i \in DOMAIN down : i > Off /\ down[i].body # Damaged =>
           Len(out) + i <= down[i].body + Off /\ down[i].body + Len(down) <= sent + i

Coming ==
    phase \in {"call", "response", "data"} => InOrder /\ \E w : Weighs(w)

\* When the count is full, so is what was received, and only the digest is left.
AllRead ==
    phase = "digest" /\ Len(faults) < TailSize =>
        /\ sent = Blocks /\ Len(out) = Blocks
        /\ \A i \in DOMAIN out : out[i] \in {Damaged, i}
        /\ \A i \in DOMAIN down : down[i].kind = "digest"

\* One fault damages one frame.
OneDamage ==
    /\ \A i \in DOMAIN down : down[i].kind = "digest" /\ down[i].body # Damaged =>
           down[i].size = DigestSize
    /\ Len(faults) <= 1 =>
        /\ (\E i \in DOMAIN out : out[i] = Damaged) =>
               faults = <<"damage">> /\ \A i \in DOMAIN down : down[i].body # Damaged
        /\ (\E i \in DOMAIN down : down[i].body = Damaged) => faults = <<"damage">>
        /\ \A i, j \in DOMAIN down : down[i].body = Damaged /\ down[j].body = Damaged => i = j

\* While no frame has been lost, the acknowledgement of all data reaches the stub,
\* and the digest the host.
Kept ==
    faults \in {<<>>, <<"damage">>} =>
        /\ phase \in {"data", "digest"} =>
               total = IF up = <<>> THEN acked ELSE up[Len(up)].total
        /\ phase = "digest" => streaming \/ down # <<>>

IInv ==
    /\ TypeOK /\ Stages /\ Coming /\ AllRead /\ OneDamage /\ Kept
    /\ OneFaultIsCaught

-----------------------------------------------------------------------------
(* Lengths. *)

LEMMA Bytes ==
    /\ Length \in Nat \ {0} /\ Blocks \in Nat \ {0} /\ BlockSize \in Nat \ {0}
    /\ TailSize \in Nat \ {0} /\ TailSize <= BlockSize /\ DigestSize \in Nat \ {0}
    /\ \A n \in 0..(Blocks - 1) : /\ BlockSize * n \in Nat
                                  /\ BlockSize * n + TailSize <= Length
                                  /\ BlockSize * (n + 1) = BlockSize * n + BlockSize
    /\ BlockSize * (Blocks - 1) + TailSize = Length
<1>1. /\ Blocks \in Nat \ {0} /\ BlockSize \in Nat \ {0} /\ TailSize \in Nat \ {0}
      /\ TailSize <= BlockSize /\ DigestSize \in Nat \ {0}
  BY ReadAssumption
<1>2. ASSUME NEW b \in Nat, NEW n \in Nat, NEW m \in Nat, n <= m
      PROVE  b * n \in Nat /\ b * n <= b * m /\ b * (n + 1) = b * n + b
  <2>1. b * n \in Nat /\ b * (n + 1) = b * n + b
    BY Z3
  <2>2. b * n <= b * m
    BY <1>2, Z3
  <2> QED
    BY <2>1, <2>2
<1>3. \A n \in 0..(Blocks - 1) : /\ BlockSize * n \in Nat
                                 /\ BlockSize * n <= BlockSize * (Blocks - 1)
                                 /\ BlockSize * (n + 1) = BlockSize * n + BlockSize
  <2> TAKE n \in 0..(Blocks - 1)
  <2>1. n \in Nat /\ Blocks - 1 \in Nat /\ n <= Blocks - 1 /\ BlockSize \in Nat
    BY <1>1
  <2> QED
    BY <1>2, <2>1
<1>4. Blocks - 1 \in 0..(Blocks - 1)
  BY <1>1
<1>5. BlockSize * (Blocks - 1) \in Nat
  BY <1>3, <1>4
<1> QED
  BY <1>1, <1>3, <1>5 DEF Length

LEMMA BytesSent ==
    ASSUME TypeOK
    PROVE  /\ SentBytes \in Nat /\ SentBytes <= Length
           /\ sent < Blocks => SentBytes + TailSize <= Length
<1>1. CASE sent = Blocks
  BY <1>1, Bytes DEF SentBytes
<1>2. CASE sent # Blocks
  <2>1. sent \in 0..(Blocks - 1)
    BY <1>2, Bytes DEF TypeOK
  <2> QED
    BY <1>2, <2>1, Bytes DEF SentBytes
<1> QED
  BY <1>1, <1>2

\* The bytes of one more block.
LEMMA OneMoreSent ==
    ASSUME TypeOK, sent < Blocks, sent' = sent + 1,
           NEW size, size = IF sent' < Blocks THEN BlockSize ELSE TailSize
    PROVE  SentBytes' = SentBytes + size /\ size \in Nat \ {0} /\ size >= TailSize
<1>1. sent \in 0..(Blocks - 1) /\ SentBytes = BlockSize * sent
  BY Bytes DEF TypeOK, SentBytes
<1>2. CASE sent' = Blocks
  <2>1. SentBytes' = Length /\ size = TailSize /\ sent = Blocks - 1
    BY <1>1, <1>2, Bytes DEF SentBytes
  <2> QED
    BY <1>1, <2>1, Bytes
<1>3. CASE sent' # Blocks
  <2>1. SentBytes' = BlockSize * (sent + 1) /\ size = BlockSize
    BY <1>1, <1>3, Bytes DEF SentBytes
  <2> QED
    BY <1>1, <2>1, Bytes
<1> QED
  BY <1>2, <1>3

-----------------------------------------------------------------------------
(* Sequences. *)

LEMMA Empty ==
    ASSUME NEW S, NEW q \in Seq(S)
    PROVE  Len(q) \in Nat /\ DOMAIN q = 1..Len(q) /\ ((q = <<>>) <=> (Len(q) = 0))
  OBVIOUS

LEMMA Dropped ==
    ASSUME NEW S, NEW q \in Seq(S), q # <<>>
    PROVE  /\ Tail(q) \in Seq(S) /\ Len(q) \in Nat \ {0} /\ Len(Tail(q)) = Len(q) - 1
           /\ Head(q) = q[1] /\ Head(q) \in S /\ 1 \in DOMAIN q
           /\ \A i \in DOMAIN Tail(q) : i + 1 \in DOMAIN q /\ Tail(q)[i] = q[i + 1]
           /\ DOMAIN q = 1..Len(q) /\ DOMAIN Tail(q) = 1..(Len(q) - 1)
           /\ (Tail(q) = <<>>) <=> (Len(q) = 1)
<1>1. /\ Tail(q) \in Seq(S) /\ Len(q) \in Nat \ {0} /\ Len(Tail(q)) = Len(q) - 1
      /\ Head(q) = q[1] /\ Head(q) \in S /\ 1 \in DOMAIN q
      /\ \A i \in DOMAIN Tail(q) : i + 1 \in DOMAIN q /\ Tail(q)[i] = q[i + 1]
      /\ DOMAIN q = 1..Len(q) /\ DOMAIN Tail(q) = 1..(Len(q) - 1)
  OBVIOUS
<1>2. (Tail(q) = <<>>) <=> (Len(Tail(q)) = 0)
  BY <1>1, Empty
<1> QED
  BY <1>1, <1>2

LEMMA Added ==
    ASSUME NEW S, NEW q \in Seq(S), NEW e \in S
    PROVE  /\ Append(q, e) \in Seq(S) /\ Append(q, e) # <<>>
           /\ Len(q) \in Nat /\ Len(Append(q, e)) = Len(q) + 1
           /\ DOMAIN q = 1..Len(q) /\ DOMAIN Append(q, e) = 1..(Len(q) + 1)
           /\ \A i \in DOMAIN q : Append(q, e)[i] = q[i]
           /\ Append(q, e)[Len(q) + 1] = e
  OBVIOUS

\* Another element in front.
LEMMA Preceded ==
    ASSUME NEW S, NEW q \in Seq(S), NEW e \in S
    PROVE  /\ <<e>> \o q \in Seq(S) /\ <<e>> \o q # <<>>
           /\ Len(q) \in Nat /\ Len(<<e>> \o q) = Len(q) + 1
           /\ DOMAIN q = 1..Len(q) /\ DOMAIN (<<e>> \o q) = 1..(Len(q) + 1)
           /\ (<<e>> \o q)[1] = e
           /\ \A i \in DOMAIN (<<e>> \o q) : i > 1 =>
                  i - 1 \in DOMAIN q /\ (<<e>> \o q)[i] = q[i - 1]
  OBVIOUS



\* A fault is the last of those so far.
LEMMA FaultAdded ==
    ASSUME TypeOK, NEW kind \in FaultKind, Fault(kind)
    PROVE  /\ faults' \in Seq(FaultKind) /\ Len(faults) \in Nat /\ Len(faults') = Len(faults) + 1
           /\ Len(faults') <= 1 => faults = <<>> /\ faults' = <<kind>>
           /\ \A i \in DOMAIN faults : i \in DOMAIN faults' /\ faults'[i] = faults[i]
<1>1. faults \in Seq(FaultKind) /\ faults' = Append(faults, kind)
  BY DEF TypeOK, Fault
<1>2. Len(faults) = 0 => faults = <<>> /\ faults' = <<kind>>
  BY <1>1, Empty
<1> QED
  BY <1>1, <1>2, Added

LEMMA Shapes ==
    ASSUME TypeOK
    PROVE  /\ Len(down) \in Nat /\ DOMAIN down = 1..Len(down) /\ ((down = <<>>) <=> (Len(down) = 0))
           /\ Len(out) \in Nat /\ DOMAIN out = 1..Len(out)
           /\ Len(faults) \in Nat /\ DOMAIN faults = 1..Len(faults)
           /\ \A i \in DOMAIN down : /\ down[i] \in Frame /\ down[i].kind \in Kind
                                     /\ down[i].body \in Nat /\ down[i].size \in Nat \ {0}
           /\ \A i \in DOMAIN out : out[i] \in Nat
           /\ sent \in Nat /\ sent <= Blocks /\ total \in Nat /\ acked \in Nat
           /\ Length + Len(faults) \in Nat
<1>1. /\ out \in Seq(Body) /\ down \in Seq(Frame) /\ faults \in Seq(FaultKind)
      /\ sent \in Nat /\ sent <= Blocks /\ acked \in Nat
  BY Bytes DEF TypeOK
<1>2. Length + Len(faults) \in Nat /\ total \in Nat
  BY <1>1, Empty, Bytes DEF TypeOK
<1>3. Body \subseteq Nat
  BY Bytes DEF Body, Damaged, Intact
<1>4. \A i \in DOMAIN out : out[i] \in Nat
  <2>1. \A i \in DOMAIN out : out[i] \in Body
    BY <1>1
  <2> QED
    BY <2>1, <1>3
<1>5. \A i \in DOMAIN down : down[i] \in Frame
  BY <1>1
<1>6. \A f \in Frame : f.kind \in Kind /\ f.body \in Nat /\ f.size \in Nat \ {0}
  BY <1>3 DEF Frame
<1> QED
  BY <1>1, <1>2, <1>4, <1>5, <1>6, Empty

\* Where the response is, and where it is not.
LEMMA Offset ==
    ASSUME TypeOK
    PROVE  /\ Off \in {0, 1} /\ Off <= Len(down) /\ Count \in Nat
           /\ Off = 1 <=> (down # <<>> /\ down[1].kind = "response")
           /\ Count = Len(out) + Len(down) - Off
<1>1. Off \in {0, 1} /\ (Off = 1 <=> (down # <<>> /\ down[1].kind = "response"))
  BY DEF Off
<1>2. Count = Len(out) + Len(down) - Off
  BY DEF Count
<1> QED
  BY <1>1, <1>2, Shapes

LEMMA Weights ==
    ASSUME TypeOK, NEW w, Weighs(w)
    PROVE  /\ \A i \in 0..Len(down) : w[i] \in Nat
           /\ 0 \in 0..Len(down) /\ Len(down) \in 0..Len(down) /\ w[0] \in Nat /\ w[Len(down)] \in Nat
           /\ w[0] >= total /\ (Count < sent => w[0] >= total + TailSize)
           /\ w[0] <= w[Len(down)]
           /\ w[Len(down)] <= SentBytes + Len(faults)
           /\ w[Len(down)] <= Length + Len(faults)
           /\ down # <<>> =>
                  /\ w[1] \in Nat /\ w[1] >= w[0] /\ w[1] <= w[Len(down)]
                  /\ down[1].kind = "data" =>
                         w[1] >= w[0] + down[1].size /\ w[1] >= w[0] + TailSize
<1>1. Len(down) \in Nat /\ ((down = <<>>) <=> (Len(down) = 0))
  BY Shapes
<1>2. \A i \in 0..Len(down) : w[i] \in Nat
  BY DEF Weighs
<1>3. 0 \in 0..Len(down) /\ Len(down) \in 0..Len(down)
  BY <1>1
<1>4. w[0] \in Nat /\ w[Len(down)] \in Nat /\ w[0] <= w[Len(down)]
  BY <1>1, <1>2, <1>3 DEF Weighs
<1>5. w[Len(down)] <= Length + Len(faults)
  <2>1. SentBytes \in Nat /\ SentBytes <= Length /\ Length \in Nat /\ Len(faults) \in Nat
    BY Shapes, BytesSent, Bytes
  <2>2. w[Len(down)] <= SentBytes + Len(faults)
    BY DEF Weighs
  <2> QED
    BY <1>4, <2>1, <2>2
<1>6. ASSUME down # <<>>
      PROVE  /\ w[1] \in Nat /\ w[1] >= w[0] /\ w[1] <= w[Len(down)]
             /\ down[1].kind = "data" =>
                    w[1] >= w[0] + down[1].size /\ w[1] >= w[0] + TailSize
  <2>1. 1 \in 1..Len(down) /\ 1 \in 0..Len(down) /\ 1 - 1 = 0 /\ 0 <= 1 /\ 1 <= Len(down)
    BY <1>1, <1>6
  <2>2. w[1] \in Nat /\ w[1] >= w[0] /\ w[1] <= w[Len(down)]
    <3>1. w[0] <= w[1] /\ w[1] <= w[Len(down)]
      BY <1>3, <2>1 DEF Weighs
    <3> QED
      BY <1>2, <1>4, <2>1, <3>1
  <2>3. \A i \in 1..Len(down) : down[i].kind = "data" =>
            w[i] >= w[i - 1] + down[i].size /\ w[i] >= w[i - 1] + TailSize
    BY DEF Weighs
  <2>4. down[1].kind = "data" => w[1] >= w[1 - 1] + down[1].size /\ w[1] >= w[1 - 1] + TailSize
    BY <2>1, <2>3
  <2> QED
    BY <2>1, <2>2, <2>4
<1> QED
  BY <1>2, <1>3, <1>4, <1>5, <1>6 DEF Weighs

-----------------------------------------------------------------------------
(* What is coming. *)

\* More faults spoil nothing.
LEMMA Still ==
    ASSUME TypeOK, InOrder, NEW w, Weighs(w), UNCHANGED <<out, total, down, sent>>,
           Len(faults') \in Nat, Len(faults') >= Len(faults)
    PROVE  InOrder' /\ (\E v : Weighs(v))'
<1>1. Off' = Off /\ Count' = Count /\ SentBytes' = SentBytes
  BY DEF Off, Count, SentBytes
<1>2. InOrder'
  BY <1>1 DEF InOrder
<1>3. w[Len(down)] \in Nat /\ w[Len(down)] <= SentBytes + Len(faults) /\ SentBytes \in Nat
  BY Shapes, BytesSent DEF Weighs
<1>4. w[Len(down)] <= SentBytes + Len(faults')
  BY <1>3, Shapes
<1>5. Weighs(w)'
  BY <1>1, <1>4 DEF Weighs
<1> QED
  BY <1>2, <1>5

\* A frame is passed over, or lost.
LEMMA Passed ==
    ASSUME TypeOK, Stages, InOrder, NEW w, Weighs(w), down # <<>>, down' = Tail(down),
           UNCHANGED <<out, total, sent>>, Len(faults') \in Nat, Len(faults') >= Len(faults)
    PROVE  InOrder' /\ (\E v : Weighs(v))'
<1>1. /\ Len(down) \in Nat \ {0} /\ Len(down') = Len(down) - 1 /\ 1 \in DOMAIN down
      /\ DOMAIN down = 1..Len(down) /\ DOMAIN down' = 1..(Len(down) - 1)
      /\ \A i \in DOMAIN down' : i + 1 \in DOMAIN down /\ down'[i] = down[i + 1]
      /\ down' # <<>> => 1 \in DOMAIN down'
  BY Dropped, Empty DEF TypeOK
<1>2. \A i \in DOMAIN down : down[i].kind = "response" => i = 1
  BY DEF Stages
<1>3. Off' = 0
  BY <1>1, <1>2 DEF Off
<1>4. Count' = Len(out) + Len(down) - 1 /\ Count' = Count + Off - 1
  BY <1>1, <1>3, Shapes, Offset DEF Count
<1>5. InOrder'
  <2>0. Off \in {0, 1} /\ Len(out) \in Nat /\ Count \in Nat /\ sent \in Nat
    BY Offset, Shapes
  <2>1. Count' <= sent'
    BY <1>4, Offset, Shapes DEF InOrder
  <2>2. \A i \in DOMAIN down' : i > Off' => down'[i].kind = "data"
    BY <1>1, <1>3, Offset DEF InOrder
  <2>3. \A i \in DOMAIN out' : out'[i] # Damaged => i <= out'[i] /\ out'[i] + Count' <= sent' + i
    <3> TAKE i \in DOMAIN out'
    <3>1. i \in DOMAIN out /\ i \in Nat /\ out'[i] = out[i] /\ out[i] \in Nat /\ sent' = sent
      BY Shapes
    <3>2. out[i] # Damaged => i <= out[i] /\ out[i] + Count <= sent + i
      BY <3>1 DEF InOrder
    <3> QED
      BY <3>1, <3>2, <2>0, <1>4
  <2>4. \A i \in DOMAIN down' : i > Off' /\ down'[i].body # Damaged =>
            Len(out') + i <= down'[i].body + Off' /\ down'[i].body + Len(down') <= sent' + i
    <3> TAKE i \in DOMAIN down'
    <3>1. /\ i + 1 \in DOMAIN down /\ i \in Nat \ {0} /\ down'[i] = down[i + 1]
          /\ down[i + 1].body \in Nat /\ sent' = sent /\ Len(out') = Len(out)
      BY <1>1, Shapes
    <3>2. i + 1 > Off /\ down[i + 1].body # Damaged =>
              /\ Len(out) + (i + 1) <= down[i + 1].body + Off
              /\ down[i + 1].body + Len(down) <= sent + (i + 1)
      BY <3>1 DEF InOrder
    <3>3. down[i + 1].body # Damaged =>
              /\ Len(out) + i <= down[i + 1].body
              /\ down[i + 1].body + (Len(down) - 1) <= sent + i
      <4>1. i + 1 > Off /\ Len(down) \in Nat
        BY <3>1, <2>0, <1>1
      <4> DEFINE b == down[i + 1].body
      <4>2. b \in Nat /\ (b # Damaged => Len(out) + (i + 1) <= b + Off /\ b + Len(down) <= sent + (i + 1))
        BY <3>1, <3>2, <4>1
      <4> HIDE DEF b, Damaged
      <4>3. b # Damaged => Len(out) + i <= b
        BY <4>2, <3>1, <2>0
      <4>4. b # Damaged => b + (Len(down) - 1) <= sent + i
        BY <4>1, <4>2, <3>1, <2>0
      <4> QED
        BY <4>3, <4>4 DEF b
    <3> QED
      BY <3>1, <3>3, <2>0, <1>1, <1>3
  <2> QED
    BY <2>1, <2>2, <2>3, <2>4 DEF InOrder
<1>6. \A i \in 0..Len(down) : w[i] \in Nat
  BY DEF Weighs
<1>7. PICK v : /\ v \in [0..Len(down') -> Nat]
               /\ \A i \in 0..Len(down') : v[i] = w[i + 1]
  <2>1. [i \in 0..Len(down') |-> w[i + 1]] \in [0..Len(down') -> Nat]
    BY <1>1, <1>6
  <2> WITNESS [i \in 0..Len(down') |-> w[i + 1]]
  <2> QED
    BY <2>1
<1>8. Weighs(v)'
  <2>1. v[0] = w[1] /\ w[1] >= w[0] /\ v[Len(down')] = w[Len(down)]
    BY <1>1, <1>6, <1>7 DEF Weighs
  <2>2. v[0] >= total' /\ (Count' < sent' => v[0] >= total' + TailSize)
    <3>1. CASE Off = 1
      BY <3>1, <2>1, <1>4, <1>6, Bytes, Shapes, Offset DEF Weighs
    <3>2. CASE Off = 0
      <4>1. down[1].kind = "data"
        BY <3>2, <1>1 DEF InOrder
      <4>2. w[1] >= w[0] + TailSize
        BY <4>1, <1>1 DEF Weighs
      <4> QED
        BY <4>2, <2>1, <1>1, <1>6, Bytes, Shapes DEF Weighs
    <3> QED
      BY <3>1, <3>2, Offset
  <2>3. \A i, j \in 0..Len(down') : i <= j => v[i] <= v[j]
    BY <1>1, <1>7 DEF Weighs
  <2>4. \A i \in 1..Len(down') : down'[i].kind = "data" =>
            v[i] >= v[i - 1] + down'[i].size /\ v[i] >= v[i - 1] + TailSize
    <3> TAKE i \in 1..Len(down')
    <3>1. i + 1 \in 1..Len(down) /\ down'[i] = down[i + 1] /\ v[i] = w[i + 1] /\ v[i - 1] = w[i]
      BY <1>1, <1>7
    <3>2. (i + 1) - 1 = i
      BY <1>1
    <3> QED
      BY <3>1, <3>2 DEF Weighs
  <2>5. SentBytes' = SentBytes /\ w[Len(down)] <= SentBytes + Len(faults) /\ SentBytes \in Nat
    BY BytesSent DEF Weighs, SentBytes
  <2>6. v[Len(down')] <= SentBytes' + Len(faults')
    <3>1. w[Len(down)] \in Nat /\ Len(faults) \in Nat
      BY Weights, Shapes
    <3>2. w[Len(down)] <= SentBytes + Len(faults')
      BY <3>1, <2>5
    <3> QED
      BY <3>2, <2>1, <2>5
  <2> QED
    BY <2>2, <2>3, <2>4, <2>6, <1>7 DEF Weighs
<1> QED
  BY <1>5, <1>8

\* A frame is taken for data.
LEMMA Received ==
    ASSUME TypeOK, Off = 0, InOrder, NEW w, Weighs(w), down # <<>>, down' = Tail(down),
           out' = Append(out, down[1].body), total' = total + down[1].size,
           UNCHANGED <<sent, faults>>
    PROVE  InOrder' /\ (\E v : Weighs(v))' /\ Off' = 0 /\ total' <= Length + Len(faults)
<1>1. /\ Len(down) \in Nat \ {0} /\ Len(down') = Len(down) - 1 /\ 1 \in DOMAIN down
      /\ DOMAIN down = 1..Len(down) /\ DOMAIN down' = 1..(Len(down) - 1)
      /\ \A i \in DOMAIN down' : i + 1 \in DOMAIN down /\ down'[i] = down[i + 1]
      /\ down' # <<>> => 1 \in DOMAIN down'
  BY Dropped, Empty DEF TypeOK
<1>2. /\ Len(out) \in Nat /\ Len(out') = Len(out) + 1
      /\ DOMAIN out = 1..Len(out) /\ DOMAIN out' = 1..(Len(out) + 1)
      /\ \A i \in DOMAIN out : out'[i] = out[i]
      /\ out'[Len(out) + 1] = down[1].body
  <2>1. down[1].body \in Body /\ out \in Seq(Body)
    BY <1>1, Shapes DEF TypeOK, Frame
  <2> QED
    BY <2>1, Added
<1>3. \A i \in DOMAIN down : down[i].kind = "data"
  BY <1>1 DEF InOrder
<1>4. Off' = 0
  BY <1>1, <1>3 DEF Off
<1>5. Count \in Nat /\ sent \in Nat /\ Count = Len(out) + Len(down) /\ Count' = Count
  BY <1>1, <1>2, <1>4, Shapes, Offset DEF Count
<1>6. InOrder'
  <2>1. Count' <= sent'
    BY <1>5 DEF InOrder
  <2>2. \A i \in DOMAIN down' : i > Off' => down'[i].kind = "data"
    BY <1>1, <1>3
  <2>3. \A i \in DOMAIN out' : out'[i] # Damaged => i <= out'[i] /\ out'[i] + Count' <= sent' + i
    <3> TAKE i \in DOMAIN out'
    <3>1. CASE i \in DOMAIN out
      BY <3>1, <1>2, <1>5 DEF InOrder
    <3>2. CASE i \notin DOMAIN out
      <4>1. i = Len(out) + 1 /\ out'[i] = down[1].body /\ down[1].body \in Nat
        BY <3>2, <1>1, <1>2, Shapes
      <4>2. down[1].body # Damaged => 
                Len(out) + 1 <= down[1].body + Off /\ down[1].body + Len(down) <= sent + 1
        BY <1>1 DEF InOrder
      <4>3. down[1].body # Damaged => i <= down[1].body /\ down[1].body + Count <= sent + i
        BY <4>1, <4>2, <1>1, <1>2, <1>5
      <4> QED
        BY <4>1, <4>3, <1>5
    <3> QED
      BY <3>1, <3>2
  <2>4. \A i \in DOMAIN down' : i > Off' /\ down'[i].body # Damaged =>
            Len(out') + i <= down'[i].body + Off' /\ down'[i].body + Len(down') <= sent' + i
    <3> TAKE i \in DOMAIN down'
    <3>1. /\ i + 1 \in DOMAIN down /\ i \in Nat \ {0} /\ down'[i] = down[i + 1]
          /\ down[i + 1].body \in Nat /\ sent' = sent
      BY <1>1, Shapes
    <3>2. down[i + 1].body # Damaged =>
              /\ Len(out) + (i + 1) <= down[i + 1].body + Off
              /\ down[i + 1].body + Len(down) <= sent + (i + 1)
      BY <3>1 DEF InOrder
    <3>3. down[i + 1].body # Damaged =>
              /\ (Len(out) + 1) + i <= down[i + 1].body
              /\ down[i + 1].body + (Len(down) - 1) <= sent + i
      <4>1. Len(out) \in Nat /\ Len(down) \in Nat /\ sent \in Nat /\ i \in Nat
        BY <3>1, <1>1, <1>2, <1>5
      <4> DEFINE b == down[i + 1].body
      <4>2. b \in Nat /\ (b # Damaged => Len(out) + (i + 1) <= b /\ b + Len(down) <= sent + (i + 1))
        BY <3>1, <3>2
      <4> HIDE DEF b, Damaged
      <4>3. b # Damaged => (Len(out) + 1) + i <= b
        BY <4>1, <4>2
      <4>4. b # Damaged => b + (Len(down) - 1) <= sent + i
        BY <4>1, <4>2
      <4> QED
        BY <4>3, <4>4 DEF b
    <3> QED
      BY <3>1, <3>3, <1>1, <1>2, <1>4
  <2> QED
    BY <2>1, <2>2, <2>3, <2>4 DEF InOrder
<1>7. \A i \in 0..Len(down) : w[i] \in Nat
  BY DEF Weighs
<1>8. PICK v : /\ v \in [0..Len(down') -> Nat]
               /\ \A i \in 0..Len(down') : v[i] = w[i + 1]
  <2>1. [i \in 0..Len(down') |-> w[i + 1]] \in [0..Len(down') -> Nat]
    BY <1>1, <1>7
  <2> WITNESS [i \in 0..Len(down') |-> w[i + 1]]
  <2> QED
    BY <2>1
<1>9. /\ w[1] >= w[0] + down[1].size /\ down[1].size \in Nat /\ w[0] \in Nat /\ w[1] \in Nat
      /\ total \in Nat /\ TailSize \in Nat
      /\ w[0] >= total /\ (Count < sent => w[0] >= total + TailSize)
  BY <1>1, <1>3, Weights, Shapes, Bytes
<1>10. Weighs(v)'
  <2>1. v[0] = w[1] /\ v[Len(down')] = w[Len(down)]
    <3>1. 0 \in 0..Len(down') /\ 0 + 1 = 1
      BY <1>1
    <3>2. Len(down') \in 0..Len(down') /\ Len(down') + 1 = Len(down)
      BY <1>1
    <3>3. v[0] = w[0 + 1] /\ v[Len(down')] = w[Len(down') + 1]
      BY <1>8, <3>1, <3>2
    <3> QED
      BY <3>1, <3>2, <3>3
  <2>2. v[0] >= total' /\ (Count' < sent' => v[0] >= total' + TailSize)
    <3>1. w[1] >= total + down[1].size
      BY <1>9
    <3>2. Count < sent => w[1] >= (total + down[1].size) + TailSize
      BY <1>9
    <3> QED
      BY <2>1, <3>1, <3>2, <1>5
  <2>3. \A i, j \in 0..Len(down') : i <= j => v[i] <= v[j]
    BY <1>1, <1>8 DEF Weighs
  <2>4. \A i \in 1..Len(down') : down'[i].kind = "data" =>
            v[i] >= v[i - 1] + down'[i].size /\ v[i] >= v[i - 1] + TailSize
    <3> TAKE i \in 1..Len(down')
    <3>1. i + 1 \in 1..Len(down) /\ down'[i] = down[i + 1] /\ v[i] = w[i + 1] /\ v[i - 1] = w[i]
      BY <1>1, <1>8
    <3>2. (i + 1) - 1 = i
      BY <1>1
    <3> QED
      BY <3>1, <3>2 DEF Weighs
  <2>5. v[Len(down')] <= SentBytes' + Len(faults')
    BY <2>1 DEF Weighs, SentBytes
  <2> QED
    BY <2>2, <2>3, <2>4, <2>5, <1>8 DEF Weighs
<1>11. total' <= Length + Len(faults)
  <2>1. w[1] <= w[Len(down)] /\ w[Len(down)] <= Length + Len(faults) /\ w[Len(down)] \in Nat
    BY Weights
  <2>2. Length + Len(faults) \in Nat
    BY Shapes
  <2>3. total + down[1].size <= w[1]
    BY <1>9
  <2> QED
    BY <2>1, <2>2, <2>3, <1>9
<1> QED
  BY <1>4, <1>6, <1>10, <1>11

\* When the count is full, and fewer bytes can have been added than the last
\* block has, nothing that was sent is missing or still to come.
LEMMA Full ==
    ASSUME TypeOK, sent' = sent, InOrder', NEW w, Weighs(w)', Off' = 0,
           total' \in Nat, total' >= Length, Len(out') \in Nat, out' \in Seq(Body),
           Len(down') \in Nat, down' \in Seq(Frame),
           Len(faults') \in Nat, Len(faults') < TailSize
    PROVE  /\ down' = <<>> /\ sent = Blocks /\ Len(out') = Blocks
           /\ \A i \in DOMAIN out' : out'[i] \in {Damaged, i}
<1>1. /\ \A i \in 0..Len(down') : w[i] \in Nat
      /\ w[0] >= total' /\ (Count' < sent => w[0] >= total' + TailSize)
      /\ \A i, j \in 0..Len(down') : i <= j => w[i] <= w[j]
      /\ \A i \in 1..Len(down') : down'[i].kind = "data" => w[i] >= w[i - 1] + TailSize
      /\ w[Len(down')] <= SentBytes + Len(faults')
  BY DEF Weighs, SentBytes
<1>2. 0 \in 0..Len(down') /\ Len(down') \in 0..Len(down') /\ 0 <= Len(down')
  OBVIOUS
<1>3. w[0] \in Nat /\ w[Len(down')] \in Nat /\ w[0] <= w[Len(down')]
  BY <1>1, <1>2
<1>4. /\ SentBytes \in Nat /\ SentBytes <= Length /\ Length \in Nat /\ TailSize \in Nat
      /\ sent < Blocks => SentBytes + TailSize <= Length
  BY BytesSent, Bytes
<1>5. sent = Blocks /\ Blocks \in Nat
  <2>1. sent \in Nat /\ Blocks \in Nat /\ sent <= Blocks
    BY Shapes, Bytes
  <2>2. w[0] < SentBytes + TailSize /\ w[0] >= Length
    BY <1>1, <1>3, <1>4
  <2> QED
    BY <1>3, <1>4, <2>1, <2>2
<1>6. Count' = Blocks /\ Count' = Len(out') + Len(down')
  <2>1. Count' \in Nat /\ Count' = Len(out') + Len(down')
    BY DEF Count
  <2>2. Count' <= Blocks
    BY <1>5 DEF InOrder
  <2>3. ~(Count' < sent)
    <3>1. w[0] < Length + TailSize
      BY <1>1, <1>3, <1>4
    <3> QED
      BY <1>1, <1>3, <1>4, <3>1
  <2> QED
    BY <1>5, <2>1, <2>2, <2>3
<1>7. down' = <<>>
  <2> SUFFICES ASSUME down' # <<>> PROVE FALSE
    OBVIOUS
  <2>1. Len(down') # 0 /\ 1 \in 1..Len(down') /\ 1 \in DOMAIN down' /\ 1 \in 0..Len(down') /\ 1 - 1 = 0
    BY Empty
  <2>2. down'[1].kind = "data"
    BY <2>1 DEF InOrder
  <2>3. w[1] >= w[1 - 1] + TailSize /\ w[1] <= w[Len(down')] /\ w[1] \in Nat
    BY <1>1, <1>2, <2>1, <2>2
  <2>4. w[1] >= w[0] + TailSize
    BY <2>1, <2>3
  <2>5. w[1] < Length + TailSize
    BY <1>1, <1>3, <1>4, <2>3
  <2> QED
    BY <1>1, <1>3, <1>4, <2>3, <2>4, <2>5
<1>8. Len(out') = Blocks
  BY <1>6, <1>7
<1>9. ASSUME NEW i \in DOMAIN out' PROVE out'[i] \in {Damaged, i}
  <2>1. i \in Nat /\ out'[i] \in Nat
    <3>1. out'[i] \in Body /\ i \in 1..Len(out')
      BY <1>9
    <3> QED
      BY <3>1, Bytes DEF Body, Damaged, Intact
  <2>2. out'[i] # Damaged => i <= out'[i] /\ out'[i] + Blocks <= Blocks + i
    BY <1>5, <1>6, <1>9 DEF InOrder
  <2> QED
    BY <1>5, <2>1, <2>2
<1> QED
  BY <1>5, <1>7, <1>8, <1>9

\* A frame is damaged, and a byte longer at most.
LEMMA SpoiledFrames ==
    ASSUME TypeOK, down # <<>>, NEW size \in 1..(down[1].size + 1)
    PROVE  LET r == <<DamagedFrame(size)>> \o Tail(down)
           IN  /\ r \in Seq(Frame) /\ r # <<>> /\ Len(r) = Len(down) /\ DOMAIN r = 1..Len(down)
               /\ r[1].kind = down[1].kind /\ r[1].body = Damaged /\ r[1].size = size
               /\ \A i \in DOMAIN r : i > 1 => r[i] = down[i]
<1> DEFINE f == DamagedFrame(size)
           r == <<f>> \o Tail(down)
<1>1. f \in Frame /\ f.kind = down[1].kind /\ f.body = Damaged /\ f.size = size
  <2>1. Head(down) = down[1] /\ down[1] \in Frame /\ size \in Nat \ {0}
    BY Dropped, Shapes DEF TypeOK
  <2>2. Damaged \in Body
    BY DEF Body
  <2> QED
    BY <2>1, <2>2 DEF DamagedFrame, Frame
<1>2. /\ Tail(down) \in Seq(Frame) /\ Len(down) \in Nat \ {0} /\ Len(Tail(down)) = Len(down) - 1
      /\ 1 \in DOMAIN down /\ DOMAIN down = 1..Len(down)
      /\ \A i \in DOMAIN Tail(down) : Tail(down)[i] = down[i + 1]
  BY Dropped DEF TypeOK
<1> HIDE DEF f
<1>3. /\ r \in Seq(Frame) /\ r # <<>> /\ Len(r) = Len(Tail(down)) + 1
      /\ DOMAIN r = 1..(Len(Tail(down)) + 1) /\ r[1] = f
      /\ \A i \in DOMAIN r : i > 1 => i - 1 \in DOMAIN Tail(down) /\ r[i] = Tail(down)[i - 1]
  BY <1>1, <1>2, Preceded
<1> HIDE DEF r
<1>4. ASSUME NEW i \in DOMAIN r, i > 1 PROVE r[i] = down[i]
  <2>1. r[i] = down[(i - 1) + 1] /\ i \in Nat
    BY <1>2, <1>3, <1>4
  <2> QED
    BY <2>1
<1>5. /\ r \in Seq(Frame) /\ r # <<>> /\ Len(r) = Len(down) /\ DOMAIN r = 1..Len(down)
      /\ r[1].kind = down[1].kind /\ r[1].body = Damaged /\ r[1].size = size
      /\ \A i \in DOMAIN r : i > 1 => r[i] = down[i]
  BY <1>1, <1>2, <1>3, <1>4
<1> QED
  BY <1>5 DEF r, f

LEMMA Spoiled ==
    ASSUME TypeOK, InOrder, NEW w, Weighs(w), down # <<>>,
           NEW size \in 1..(down[1].size + 1),
           down' # <<>>, Len(down') = Len(down), DOMAIN down' = 1..Len(down),
           down'[1].kind = down[1].kind, down'[1].body = Damaged, down'[1].size = size,
           \A i \in DOMAIN down' : i > 1 => down'[i] = down[i],
           UNCHANGED <<out, total, sent>>, Len(faults') = Len(faults) + 1
    PROVE  InOrder' /\ (\E v : Weighs(v))'
<1>1. down'[1].kind = down[1].kind /\ down'[1].body = Damaged /\ down'[1].size = size
  OBVIOUS
<1>2. /\ Len(down) \in Nat \ {0} /\ Len(down') = Len(down) /\ 1 \in DOMAIN down
      /\ DOMAIN down = 1..Len(down) /\ DOMAIN down' = 1..Len(down)
      /\ down' # <<>>
      /\ \A i \in DOMAIN down' : i > 1 => down'[i] = down[i]
  BY Shapes
<1>3. Off' = Off /\ Off \in {0, 1}
  BY <1>1, <1>2, Offset DEF Off
<1>4. Count' = Count
  BY <1>2, <1>3 DEF Count
<1>5. InOrder'
  <2>1. \A i \in DOMAIN down' : i > Off' => down'[i].kind = "data"
    BY <1>1, <1>2, <1>3 DEF InOrder
  <2>2. \A i \in DOMAIN down' : i > Off' /\ down'[i].body # Damaged =>
            Len(out') + i <= down'[i].body + Off' /\ down'[i].body + Len(down') <= sent' + i
    <3> TAKE i \in DOMAIN down'
    <3>1. CASE i = 1
      BY <3>1, <1>1, <1>2
    <3>2. CASE i # 1
      BY <3>2, <1>2, <1>3 DEF InOrder
    <3> QED
      BY <3>1, <3>2
  <2> QED
    BY <1>3, <1>4, <2>1, <2>2 DEF InOrder
<1>6. PICK v : /\ v \in [0..Len(down') -> Nat]
               /\ v[0] = w[0] /\ \A i \in 1..Len(down) : v[i] = w[i] + 1
  <2>1. \A i \in 0..Len(down) : w[i] \in Nat
    BY Weights
  <2>2. [i \in 0..Len(down') |-> IF i = 0 THEN w[0] ELSE w[i] + 1] \in [0..Len(down') -> Nat]
    BY <1>2, <2>1
  <2> WITNESS [i \in 0..Len(down') |-> IF i = 0 THEN w[0] ELSE w[i] + 1]
  <2> QED
    BY <1>2, <2>2
<1>7. Weighs(v)'
  <2>1. v[0] >= total' /\ (Count' < sent' => v[0] >= total' + TailSize)
    BY <1>4, <1>6, Weights
  <2>2. \A i, j \in 0..Len(down') : i <= j => v[i] <= v[j]
    <3> TAKE i, j \in 0..Len(down')
    <3>1. w[i] \in Nat /\ w[j] \in Nat /\ (i <= j => w[i] <= w[j])
      BY <1>2, Weights DEF Weighs
    <3>2. i \in Nat /\ j \in Nat /\ (i # 0 => i \in 1..Len(down)) /\ (j # 0 => j \in 1..Len(down))
      BY <1>2
    <3>3. v[i] = IF i = 0 THEN w[i] ELSE w[i] + 1
      BY <1>6, <3>2
    <3>4. v[j] = IF j = 0 THEN w[j] ELSE w[j] + 1
      BY <1>6, <3>2
    <3> QED
      BY <3>1, <3>2, <3>3, <3>4
  <2>3. \A i \in 1..Len(down') : down'[i].kind = "data" =>
            v[i] >= v[i - 1] + down'[i].size /\ v[i] >= v[i - 1] + TailSize
    <3> TAKE i \in 1..Len(down')
    <3>1. i \in 1..Len(down) /\ i \in Nat \ {0} /\ i - 1 \in 0..Len(down) /\ i - 1 \in Nat
      BY <1>2
    <3>2. /\ w[i] \in Nat /\ w[i - 1] \in Nat /\ TailSize \in Nat
          /\ down[i].size \in Nat
      <4>1. i \in 0..Len(down) /\ i - 1 \in 0..Len(down) /\ i \in DOMAIN down
        BY <1>2, <3>1
      <4>2. w[i] \in Nat /\ w[i - 1] \in Nat
        BY <4>1, Weights
      <4>3. down[i].size \in Nat
        BY <4>1, Shapes
      <4> QED
        BY <4>2, <4>3, Bytes
    <3>3. down[i].kind = "data" => w[i] >= w[i - 1] + down[i].size /\ w[i] >= w[i - 1] + TailSize
      BY <3>1 DEF Weighs
    <3>4. v[i] = w[i] + 1
      BY <1>6, <3>1
    <3>5. CASE i = 1
      <4>1. v[0] = w[0] /\ down'[1].kind = down[1].kind /\ down'[1].size <= down[1].size + 1
        BY <1>1, <1>2, <1>6, <3>2, <3>5
      <4>2. i - 1 = 0 /\ size \in Nat /\ down'[1].size = size
        BY <1>1, <1>2, <3>2, <3>5
      <4>3. v[i - 1] = w[i - 1]
        BY <4>1, <4>2
      <4> QED
        BY <3>2, <3>3, <3>4, <3>5, <4>1, <4>2, <4>3
    <3>6. CASE i # 1
      <4>1. v[i - 1] = w[i - 1] + 1 /\ down'[i] = down[i]
        <5>1. i - 1 \in 1..Len(down) /\ i > 1
          BY <3>1, <3>6, <1>2
        <5> QED
          BY <5>1, <1>2, <1>6
      <4>2. down[i].kind = "data" =>
                w[i] + 1 >= (w[i - 1] + 1) + down[i].size /\ w[i] + 1 >= (w[i - 1] + 1) + TailSize
        <5>1. \A a, b, c \in Nat : a >= b + c => a + 1 >= (b + 1) + c
          OBVIOUS
        <5> QED
          BY <3>2, <3>3, <5>1
      <4> QED
        BY <3>4, <4>1, <4>2
    <3> QED
      BY <3>5, <3>6
  <2>4. v[Len(down')] <= SentBytes' + Len(faults')
    <3>1. Len(down') \in 1..Len(down) /\ v[Len(down')] = w[Len(down)] + 1
      BY <1>2, <1>6
    <3>2. SentBytes \in Nat /\ Len(faults) \in Nat /\ SentBytes' = SentBytes
      BY BytesSent, Shapes DEF SentBytes
    <3> QED
      BY <3>1, <3>2, Weights
  <2> QED
    BY <1>6, <2>1, <2>2, <2>3, <2>4 DEF Weighs
<1> QED
  BY <1>5, <1>7

\* One element in the place of the first two.
LEMMA TwiceDropped ==
    ASSUME NEW S, NEW q \in Seq(S), Len(q) >= 2
    PROVE  /\ Tail(Tail(q)) \in Seq(S) /\ Len(Tail(Tail(q))) = Len(q) - 2
           /\ \A i \in DOMAIN Tail(Tail(q)) :
                  i \in Nat /\ i + 2 \in DOMAIN q /\ Tail(Tail(q))[i] = q[i + 2]
<1>1. q # <<>> /\ Len(q) \in Nat
  BY Empty
<1>2. /\ Tail(q) \in Seq(S) /\ Len(Tail(q)) = Len(q) - 1
      /\ \A i \in DOMAIN Tail(q) : i + 1 \in DOMAIN q /\ Tail(q)[i] = q[i + 1]
  BY <1>1, Dropped
<1>3. Tail(q) # <<>>
  <2>1. Len(Tail(q)) # 0
    BY <1>1, <1>2
  <2> QED
    BY <1>2, <2>1, Empty
<1>4. /\ Tail(Tail(q)) \in Seq(S) /\ Len(Tail(Tail(q))) = Len(Tail(q)) - 1
      /\ DOMAIN Tail(Tail(q)) = 1..(Len(Tail(q)) - 1)
      /\ \A i \in DOMAIN Tail(Tail(q)) :
             i + 1 \in DOMAIN Tail(q) /\ Tail(Tail(q))[i] = Tail(q)[i + 1]
  <2> DEFINE t == Tail(q)
  <2>1. t \in Seq(S) /\ t # <<>>
    BY <1>2, <1>3
  <2> HIDE DEF t
  <2>2. /\ Tail(t) \in Seq(S) /\ Len(Tail(t)) = Len(t) - 1
        /\ DOMAIN Tail(t) = 1..(Len(t) - 1)
        /\ \A i \in DOMAIN Tail(t) : i + 1 \in DOMAIN t /\ Tail(t)[i] = t[i + 1]
    BY <2>1, Dropped
  <2> QED
    BY <2>2 DEF t
<1>5. Len(Tail(Tail(q))) = Len(q) - 2
  BY <1>1, <1>2, <1>4
<1>6. ASSUME NEW i \in DOMAIN Tail(Tail(q))
      PROVE  i \in Nat /\ i + 2 \in DOMAIN q /\ Tail(Tail(q))[i] = q[i + 2]
  <2>1. i \in Nat /\ (i + 1) + 1 = i + 2
    BY <1>4
  <2>2. i + 1 \in DOMAIN Tail(q) /\ Tail(Tail(q))[i] = Tail(q)[i + 1]
    BY <1>4
  <2>3. (i + 1) + 1 \in DOMAIN q /\ Tail(q)[i + 1] = q[(i + 1) + 1]
    BY <1>2, <2>2
  <2> QED
    BY <2>1, <2>2, <2>3
<1> QED
  BY <1>4, <1>5, <1>6

LEMMA Joined ==
    ASSUME NEW S, NEW q \in Seq(S), NEW e \in S, NEW u \in Seq(S), Len(u) = Len(q) - 2,
           \A i \in DOMAIN u : i \in Nat /\ i + 2 \in DOMAIN q /\ u[i] = q[i + 2]
    PROVE  /\ <<e>> \o u \in Seq(S) /\ Len(<<e>> \o u) = Len(q) - 1 /\ <<e>> \o u # <<>>
           /\ DOMAIN (<<e>> \o u) = 1..(Len(q) - 1) /\ (<<e>> \o u)[1] = e
           /\ \A i \in DOMAIN (<<e>> \o u) : i > 1 =>
                  i + 1 \in DOMAIN q /\ (<<e>> \o u)[i] = q[i + 1]
<1> DEFINE r == <<e>> \o u
<1>1. /\ r \in Seq(S) /\ r # <<>> /\ Len(r) = Len(u) + 1 /\ DOMAIN r = 1..(Len(u) + 1)
      /\ r[1] = e
      /\ \A i \in DOMAIN r : i > 1 => i - 1 \in DOMAIN u /\ r[i] = u[i - 1]
  BY Preceded
<1>2. Len(q) \in Nat /\ Len(u) \in Nat
  BY Empty
<1> HIDE DEF r
<1>3. Len(r) = Len(q) - 1 /\ DOMAIN r = 1..(Len(q) - 1)
  BY <1>1, <1>2
<1>4. \A i \in DOMAIN r : i > 1 => i + 1 \in DOMAIN q /\ r[i] = q[i + 1]
  <2> SUFFICES ASSUME NEW i \in DOMAIN r, i > 1
               PROVE  i + 1 \in DOMAIN q /\ r[i] = q[i + 1]
    OBVIOUS
  <2>1. i \in Nat /\ (i - 1) + 2 = i + 1
    BY <1>2, <1>3
  <2>2. i - 1 \in DOMAIN u /\ r[i] = u[i - 1]
    BY <1>1
  <2>3. (i - 1) + 2 \in DOMAIN q /\ u[i - 1] = q[(i - 1) + 2]
    BY <2>2
  <2> QED
    BY <2>1, <2>2, <2>3
<1> QED
  BY <1>1, <1>3, <1>4 DEF r

\* Two frames become one, which is damaged and a byte longer than the first.
LEMMA MergedFrames ==
    ASSUME TypeOK, Len(down) >= 2
    PROVE  LET r == <<DamagedFrame(down[1].size + 1)>> \o Tail(Tail(down))
           IN  /\ r \in Seq(Frame) /\ r # <<>> /\ Len(r) = Len(down) - 1
               /\ DOMAIN r = 1..(Len(down) - 1)
               /\ r[1].kind = down[1].kind /\ r[1].body = Damaged
               /\ r[1].size = down[1].size + 1
               /\ \A i \in DOMAIN r : i > 1 => i + 1 \in DOMAIN down /\ r[i] = down[i + 1]
<1> DEFINE f == DamagedFrame(down[1].size + 1)
           u == Tail(Tail(down))
<1>1. f \in Frame /\ f.kind = down[1].kind /\ f.body = Damaged /\ f.size = down[1].size + 1
  <2>1. /\ Head(down) = down[1] /\ down[1] \in Frame /\ down[1].size + 1 \in Nat \ {0}
    <3>1. down # <<>> /\ 1 \in DOMAIN down
      BY Shapes
    <3> QED
      BY <3>1, Dropped, Shapes DEF TypeOK
  <2>2. Damaged \in Body
    BY DEF Body
  <2> QED
    BY <2>1, <2>2 DEF DamagedFrame, Frame
<1>2. down \in Seq(Frame)
  BY DEF TypeOK
<1>3. /\ u \in Seq(Frame) /\ Len(u) = Len(down) - 2
      /\ \A i \in DOMAIN u : i \in Nat /\ i + 2 \in DOMAIN down /\ u[i] = down[i + 2]
  BY <1>2, TwiceDropped
<1> HIDE DEF f, u
<1>4. /\ <<f>> \o u \in Seq(Frame) /\ Len(<<f>> \o u) = Len(down) - 1 /\ <<f>> \o u # <<>>
      /\ DOMAIN (<<f>> \o u) = 1..(Len(down) - 1) /\ (<<f>> \o u)[1] = f
      /\ \A i \in DOMAIN (<<f>> \o u) : i > 1 =>
             i + 1 \in DOMAIN down /\ (<<f>> \o u)[i] = down[i + 1]
  BY <1>1, <1>2, <1>3, Joined
<1> QED
  BY <1>1, <1>4 DEF f, u

LEMMA Merged ==
    ASSUME TypeOK, InOrder, NEW w, Weighs(w), Len(down) >= 2,
           Len(down') = Len(down) - 1, DOMAIN down' = 1..(Len(down) - 1), down' # <<>>,
           down'[1].kind = down[1].kind, down'[1].body = Damaged,
           down'[1].size = down[1].size + 1,
           \A i \in DOMAIN down' : i > 1 => i + 1 \in DOMAIN down /\ down'[i] = down[i + 1],
           UNCHANGED <<out, total, sent>>, Len(faults') = Len(faults) + 1
    PROVE  InOrder' /\ (\E v : Weighs(v))'
<1>0. /\ down # <<>> /\ Len(down) \in Nat \ {0} /\ DOMAIN down = 1..Len(down)
      /\ 1 \in DOMAIN down /\ 2 \in DOMAIN down /\ down[1].size \in Nat
  BY Shapes
<1>1. /\ down'[1].kind = down[1].kind /\ down'[1].body = Damaged
      /\ down'[1].size = down[1].size + 1
  OBVIOUS
<1>2. /\ Len(down') = Len(down) - 1 /\ DOMAIN down' = 1..(Len(down) - 1) /\ down' # <<>>
      /\ \A i \in DOMAIN down' : i > 1 => i + 1 \in DOMAIN down /\ down'[i] = down[i + 1]
  OBVIOUS
<1>3. Off' = Off /\ Off \in {0, 1}
  BY <1>0, <1>1, <1>2, Offset DEF Off
<1>4. Count' = Count - 1 /\ Count \in Nat /\ sent \in Nat /\ Len(out) \in Nat
  BY <1>0, <1>2, <1>3, Offset, Shapes DEF Count
<1>5. InOrder'
  <2>0. Count' <= sent'
    BY <1>4 DEF InOrder
  <2>1. \A i \in DOMAIN down' : i > Off' => down'[i].kind = "data"
    <3> TAKE i \in DOMAIN down'
    <3>1. CASE i = 1
      BY <3>1, <1>0, <1>1, <1>2, <1>3 DEF InOrder
    <3>2. CASE i # 1
      <4>1. i + 1 \in DOMAIN down /\ i + 1 > Off /\ down'[i] = down[i + 1]
        BY <3>2, <1>0, <1>2, <1>3
      <4> QED
        BY <4>1 DEF InOrder
    <3> QED
      BY <3>1, <3>2
  <2>2. \A i \in DOMAIN out' : out'[i] # Damaged => i <= out'[i] /\ out'[i] + Count' <= sent' + i
    <3> TAKE i \in DOMAIN out'
    <3>1. i \in DOMAIN out /\ i \in Nat /\ out'[i] = out[i] /\ out[i] \in Nat /\ sent' = sent
      BY Shapes
    <3>2. out[i] # Damaged => i <= out[i] /\ out[i] + Count <= sent + i
      BY <3>1 DEF InOrder
    <3> QED
      BY <3>1, <3>2, <1>4
  <2>3. \A i \in DOMAIN down' : i > Off' /\ down'[i].body # Damaged =>
            Len(out') + i <= down'[i].body + Off' /\ down'[i].body + Len(down') <= sent' + i
    <3> TAKE i \in DOMAIN down'
    <3>1. CASE i = 1
      BY <3>1, <1>1
    <3>2. CASE i # 1
      <4>1. /\ i + 1 \in DOMAIN down /\ i + 1 > Off /\ down'[i] = down[i + 1] /\ i \in Nat
            /\ down[i + 1].body \in Nat
        BY <3>2, <1>0, <1>2, <1>3, Shapes
      <4>2. down[i + 1].body # Damaged =>
                /\ Len(out) + (i + 1) <= down[i + 1].body + Off
                /\ down[i + 1].body + Len(down) <= sent + (i + 1)
        BY <4>1 DEF InOrder
      <4>3. down[i + 1].body # Damaged =>
                /\ Len(out) + i <= down[i + 1].body + Off
                /\ down[i + 1].body + (Len(down) - 1) <= sent + i
        <5>1. \A b, o, l, n, s, k \in Nat : n + (k + 1) <= b + o /\ b + l <= s + (k + 1) =>
                  n + k <= b + o /\ b + (l - 1) <= s + k
          OBVIOUS
        <5>2. Off \in Nat
          BY <1>3
        <5> QED
          BY <4>1, <4>2, <5>1, <5>2, <1>0, <1>4
      <4> QED
        BY <4>1, <4>3, <1>2, <1>3
    <3> QED
      BY <3>1, <3>2
  <2> QED
    BY <2>0, <2>1, <2>2, <2>3 DEF InOrder
<1>6. PICK v : /\ v \in [0..Len(down') -> Nat]
               /\ v[0] = w[0] + TailSize /\ \A i \in 1..Len(down') : v[i] = w[i + 1] + 1
  <2> DEFINE u == [i \in 0..Len(down') |-> IF i = 0 THEN w[0] + TailSize ELSE w[i + 1] + 1]
  <2>1. \A i \in 0..Len(down) : w[i] \in Nat
    BY Weights
  <2>2. u \in [0..Len(down') -> Nat]
    BY <1>0, <1>2, <2>1, Bytes
  <2> WITNESS u
  <2> QED
    BY <1>0, <1>2, <2>2
<1>7. /\ w[0] \in Nat /\ w[1] \in Nat /\ w[2] \in Nat /\ w[0] <= w[1] /\ w[1] <= w[2]
      /\ TailSize \in Nat
      /\ down[1].kind = "data" => w[1] >= w[0] + down[1].size /\ w[1] >= w[0] + TailSize
      /\ w[2] >= w[1] + TailSize
  <2>1. w[0] \in Nat /\ w[1] \in Nat /\ w[0] <= w[1]
        /\ (down[1].kind = "data" => w[1] >= w[0] + down[1].size /\ w[1] >= w[0] + TailSize)
    BY <1>0, Weights
  <2>2. 2 \in 0..Len(down) /\ 2 \in 1..Len(down) /\ 1 \in 0..Len(down) /\ 2 - 1 = 1
    BY <1>0
  <2>3. w[2] \in Nat /\ w[1] <= w[2]
    BY <2>2, Weights DEF Weighs
  <2>4. down[2].kind = "data"
    BY <1>0, <1>3 DEF InOrder
  <2>5. w[2] >= w[2 - 1] + TailSize
    BY <2>2, <2>4 DEF Weighs
  <2> QED
    BY <2>1, <2>2, <2>3, <2>5, Bytes
<1>8. Weighs(v)'
  <2>0. v[0] = w[0] + TailSize /\ v[0] \in Nat /\ w[2] \in Nat /\ v[0] <= w[2]
    <3>1. w[0] + TailSize \in Nat /\ w[0] + TailSize <= w[2] /\ w[2] \in Nat
      <4>1. w[0] \in Nat /\ w[1] \in Nat /\ w[2] \in Nat /\ TailSize \in Nat
            /\ w[0] <= w[1] /\ w[2] >= w[1] + TailSize
        BY <1>7
      <4> QED
        BY <4>1
    <3>2. v[0] = w[0] + TailSize
      BY <1>6
    <3> QED
      BY <3>1, <3>2
  <2>1. v[0] >= total' /\ v[0] >= total' + TailSize
    <3>1. total' = total /\ total \in Nat /\ w[0] >= total
      BY Weights, Shapes
    <3> QED
      BY <2>0, <3>1, <1>7
  <2>2. \A i, j \in 0..Len(down') : i <= j => v[i] <= v[j]
    <3> TAKE i, j \in 0..Len(down')
    <3>1. i \in Nat /\ j \in Nat /\ (i # 0 => i \in 1..Len(down')) /\ (j # 0 => j \in 1..Len(down'))
      BY <1>2
    <3>2. CASE i = 0 /\ j = 0
      BY <3>2, <1>6, <1>7
    <3>3. CASE i = 0 /\ j # 0
      <4>1. j + 1 \in 0..Len(down) /\ 2 \in 0..Len(down) /\ 2 <= j + 1
        BY <1>0, <1>2, <3>1, <3>3
      <4>2. w[2] <= w[j + 1] /\ w[j + 1] \in Nat
        BY <4>1, Weights DEF Weighs
      <4>3. v[0] <= w[j + 1] + 1
        BY <2>0, <4>2
      <4> QED
        BY <1>6, <3>1, <3>3, <4>3
    <3>4. CASE i # 0 /\ j # 0
      <4>1. /\ i + 1 \in 0..Len(down) /\ j + 1 \in 0..Len(down)
            /\ i <= j => i + 1 <= j + 1
        BY <1>0, <1>2, <3>1
      <4>2. (i <= j => w[i + 1] <= w[j + 1]) /\ w[i + 1] \in Nat /\ w[j + 1] \in Nat
        BY <4>1, Weights DEF Weighs
      <4>3. v[i] = w[i + 1] + 1 /\ v[j] = w[j + 1] + 1
        BY <1>6, <3>1, <3>4
      <4> QED
        BY <4>2, <4>3
    <3>5. CASE i # 0 /\ j = 0
      BY <3>1, <3>5
    <3> QED
      BY <3>2, <3>3, <3>4, <3>5
  <2>3. \A i \in 1..Len(down') : down'[i].kind = "data" =>
            v[i] >= v[i - 1] + down'[i].size /\ v[i] >= v[i - 1] + TailSize
    <3> TAKE i \in 1..Len(down')
    <3>1. CASE i = 1
      <4>1. v[1] = w[2] + 1 /\ v[0] = w[0] + TailSize /\ 1 - 1 = 0
        <5>1. 1 \in 1..Len(down') /\ 1 + 1 = 2
          BY <1>0, <1>2
        <5> QED
          BY <5>1, <1>6
      <4>2. down'[1].size = down[1].size + 1 /\ down'[1].kind = down[1].kind
        BY <1>1, <1>2
      <4>3. down[1].kind = "data" =>
                v[1] >= v[0] + (down[1].size + 1) /\ v[1] >= v[0] + TailSize
        <5>1. \A a, b, c, s, t \in Nat : b >= a + s /\ b >= a + t /\ c >= b + t =>
                  c + 1 >= (a + t) + (s + 1) /\ c + 1 >= (a + t) + t
          OBVIOUS
        <5>2. /\ w[0] \in Nat /\ w[1] \in Nat /\ w[2] \in Nat /\ TailSize \in Nat
              /\ down[1].size \in Nat /\ w[2] >= w[1] + TailSize
          BY <1>0, <1>7
        <5>3. down[1].kind = "data" =>
                  /\ w[2] + 1 >= (w[0] + TailSize) + (down[1].size + 1)
                  /\ w[2] + 1 >= (w[0] + TailSize) + TailSize
          BY <5>1, <5>2, <1>7
        <5> QED
          BY <4>1, <5>3
      <4> QED
        BY <3>1, <4>1, <4>2, <4>3
    <3>2. CASE i # 1
      <4>1. /\ i \in DOMAIN down' /\ i > 1 /\ i \in Nat
            /\ i + 1 \in 1..Len(down) /\ (i + 1) - 1 = i /\ i \in 0..Len(down)
            /\ i + 1 \in 0..Len(down) /\ i \in 1..Len(down') /\ i - 1 \in 1..Len(down')
            /\ (i - 1) + 1 = i
        BY <3>2, <1>0, <1>2
      <4>2. down'[i] = down[i + 1] /\ down[i + 1].size \in Nat /\ w[i] \in Nat /\ w[i + 1] \in Nat
        <5>1. i + 1 \in DOMAIN down /\ down'[i] = down[i + 1]
          BY <4>1, <1>2
        <5> QED
          BY <5>1, <4>1, Weights, Shapes
      <4>3. down[i + 1].kind = "data" =>
                w[i + 1] >= w[(i + 1) - 1] + down[i + 1].size /\ w[i + 1] >= w[(i + 1) - 1] + TailSize
        BY <4>1 DEF Weighs
      <4>4. v[i] = w[i + 1] + 1 /\ v[i - 1] = w[i] + 1
        <5>1. v[i - 1] = w[(i - 1) + 1] + 1
          BY <1>6, <4>1
        <5> QED
          BY <5>1, <1>6, <4>1
      <4>5. \A a, b, c \in Nat : a >= b + c => a + 1 >= (b + 1) + c
        OBVIOUS
      <4> QED
        BY <4>1, <4>2, <4>3, <4>4, <4>5, <1>7
    <3> QED
      BY <3>1, <3>2
  <2>4. v[Len(down')] <= SentBytes' + Len(faults')
    <3>1. Len(down') \in 1..Len(down') /\ Len(down') + 1 = Len(down)
      BY <1>0, <1>2
    <3>2. SentBytes \in Nat /\ Len(faults) \in Nat /\ SentBytes' = SentBytes
      BY BytesSent, Shapes DEF SentBytes
    <3>3. v[Len(down')] = w[Len(down)] + 1
      BY <3>1, <1>6
    <3> QED
      BY <3>2, <3>3, Weights
  <2> QED
    BY <1>6, <2>1, <2>2, <2>3, <2>4 DEF Weighs
<1> QED
  BY <1>5, <1>8

\* One more block is sent ...
LEMMA Sent ==
    ASSUME TypeOK, InOrder, NEW w, Weighs(w), sent < Blocks, sent' = sent + 1,
           NEW size, size = IF sent' < Blocks THEN BlockSize ELSE TailSize,
           down' = Append(down, [kind |-> "data", body |-> sent', size |-> size]),
           UNCHANGED <<out, total, faults>>
    PROVE  InOrder' /\ (\E v : Weighs(v))'
<1> DEFINE f == [kind |-> "data", body |-> sent', size |-> size]
<1>1. SentBytes' = SentBytes + size /\ size \in Nat \ {0} /\ size >= TailSize /\ TailSize \in Nat
      /\ SentBytes \in Nat
  BY OneMoreSent, BytesSent, Bytes
<1>2. f \in Frame /\ f.kind = "data" /\ f.body = sent + 1 /\ f.size = size
  <2>1. sent \in Nat /\ Blocks \in Nat /\ sent + 1 \in 1..Blocks
    BY Shapes, Bytes
  <2> QED
    BY <1>1, <2>1 DEF Frame, Kind, Body
<1> HIDE DEF f
<1>3. /\ Len(down) \in Nat /\ Len(down') = Len(down) + 1
      /\ DOMAIN down = 1..Len(down) /\ DOMAIN down' = 1..(Len(down) + 1)
      /\ down' # <<>> /\ \A i \in DOMAIN down : down'[i] = down[i]
      /\ down'[Len(down) + 1] = f /\ (down = <<>> <=> Len(down) = 0)
  <2>1. down' = Append(down, f) /\ down \in Seq(Frame)
    BY DEF TypeOK, f
  <2> QED
    BY <1>2, <2>1, Added, Empty
<1>4. Off' = Off /\ Off \in {0, 1} /\ Off <= Len(down)
  <2>1. CASE down = <<>>
    BY <2>1, <1>2, <1>3 DEF Off
  <2>2. CASE down # <<>>
    <3>1. down'[1] = down[1]
      BY <2>2, <1>3
    <3> QED
      BY <2>2, <3>1, <1>3, Offset DEF Off
  <2> QED
    BY <2>1, <2>2
<1>5. /\ Count' = Count + 1 /\ Count \in Nat /\ sent \in Nat /\ Len(out) \in Nat
      /\ Count = Len(out) + Len(down) - Off
  BY <1>3, <1>4, Offset, Shapes DEF Count
<1>6. InOrder'
  <2>0. Count <= sent /\ Count' <= sent'
    BY <1>5 DEF InOrder
  <2>1. \A i \in DOMAIN down' : i > Off' => down'[i].kind = "data"
    <3> TAKE i \in DOMAIN down'
    <3>1. CASE i \in DOMAIN down
      BY <3>1, <1>3, <1>4 DEF InOrder
    <3>2. CASE i \notin DOMAIN down
      BY <3>2, <1>2, <1>3
    <3> QED
      BY <3>1, <3>2
  <2>2. \A i \in DOMAIN out' : out'[i] # Damaged => i <= out'[i] /\ out'[i] + Count' <= sent' + i
    <3> TAKE i \in DOMAIN out'
    <3>1. i \in DOMAIN out /\ i \in Nat /\ out'[i] = out[i] /\ out[i] \in Nat
      BY Shapes
    <3>2. out[i] # Damaged => i <= out[i] /\ out[i] + Count <= sent + i
      BY <3>1 DEF InOrder
    <3>3. sent' = sent + 1 /\ Count' = Count + 1 /\ Count \in Nat /\ sent \in Nat
      BY <1>5
    <3>4. out[i] + Count <= sent + i => out[i] + (Count + 1) <= (sent + 1) + i
      BY <3>1, <3>3
    <3> QED
      BY <3>1, <3>2, <3>3, <3>4
  <2>3. \A i \in DOMAIN down' : i > Off' /\ down'[i].body # Damaged =>
            Len(out') + i <= down'[i].body + Off' /\ down'[i].body + Len(down') <= sent' + i
    <3> TAKE i \in DOMAIN down'
    <3>1. CASE i \in DOMAIN down
      <4>1. down'[i] = down[i] /\ i \in Nat /\ down[i].body \in Nat
        BY <3>1, <1>3, Shapes
      <4>2. i > Off /\ down[i].body # Damaged =>
                Len(out) + i <= down[i].body + Off /\ down[i].body + Len(down) <= sent + i
        BY <3>1 DEF InOrder
      <4>3. i > Off /\ down[i].body # Damaged =>
                Len(out) + i <= down[i].body + Off
                    /\ down[i].body + (Len(down) + 1) <= (sent + 1) + i
        <5>1. \A b, l, s, k \in Nat : b + l <= s + k => b + (l + 1) <= (s + 1) + k
          OBVIOUS
        <5> QED
          BY <4>1, <4>2, <5>1, <1>3, <1>5
      <4> QED
        BY <4>1, <4>3, <1>3, <1>4
    <3>2. CASE i \notin DOMAIN down
      <4>1. i = Len(down) + 1 /\ down'[i].body = sent + 1
        BY <3>2, <1>2, <1>3
      <4>2. /\ Len(out) + (Len(down) + 1) <= (sent + 1) + Off
            /\ (sent + 1) + (Len(down) + 1) <= (sent + 1) + (Len(down) + 1)
        BY <1>3, <1>4, <1>5, <2>0
      <4> QED
        BY <4>1, <4>2, <1>3, <1>4
    <3> QED
      BY <3>1, <3>2
  <2> QED
    BY <2>0, <2>1, <2>2, <2>3 DEF InOrder
<1>7. PICK v : /\ v \in [0..Len(down') -> Nat]
               /\ \A i \in 0..Len(down) : v[i] = w[i]
               /\ v[Len(down) + 1] = w[Len(down)] + size
  <2> DEFINE u == [i \in 0..Len(down') |-> IF i <= Len(down) THEN w[i] ELSE w[Len(down)] + size]
  <2>1. \A i \in 0..Len(down) : w[i] \in Nat
    BY Weights
  <2>2. w[Len(down)] + size \in Nat
    BY <1>1, Weights
  <2>3. u \in [0..Len(down') -> Nat]
    <3>1. \A i \in 0..Len(down') : i <= Len(down) => i \in 0..Len(down)
      BY <1>3
    <3> QED
      BY <2>1, <2>2, <3>1
  <2>4. \A i \in 0..Len(down) : i \in 0..Len(down') /\ i <= Len(down)
    BY <1>3
  <2>5. Len(down) + 1 \in 0..Len(down') /\ ~(Len(down) + 1 <= Len(down))
    BY <1>3
  <2> WITNESS u
  <2> QED
    BY <2>3, <2>4, <2>5
<1>8. Weighs(v)'
  <2>1. v[0] = w[0] /\ 0 \in 0..Len(down) /\ w[Len(down)] \in Nat /\ Len(down) \in 0..Len(down)
    BY <1>7, Weights
  <2>2. v[0] >= total' /\ (Count' < sent' => v[0] >= total' + TailSize)
    BY <1>5, <2>1, Weights
  <2>3. \A i, j \in 0..Len(down') : i <= j => v[i] <= v[j]
    <3> TAKE i, j \in 0..Len(down')
    <3>1. CASE j \in 0..Len(down)
      <4>1. i <= j => i \in 0..Len(down)
        BY <3>1, <1>3
      <4>2. i <= j => w[i] <= w[j]
        BY <3>1, <4>1 DEF Weighs
      <4> QED
        BY <3>1, <4>1, <4>2, <1>7
    <3>2. CASE j \notin 0..Len(down) /\ i \in 0..Len(down)
      <4>1. i <= Len(down) /\ j = Len(down) + 1
        BY <3>2, <1>3
      <4>2. w[i] <= w[Len(down)] /\ w[i] \in Nat
        BY <3>2, <4>1, <2>1, Weights DEF Weighs
      <4>3. v[i] = w[i] /\ v[j] = w[Len(down)] + size
        BY <3>2, <4>1, <1>7
      <4> QED
        BY <4>2, <4>3, <2>1, <1>1
    <3>3. CASE j \notin 0..Len(down) /\ i \notin 0..Len(down)
      <4>1. i = Len(down) + 1 /\ j = Len(down) + 1
        BY <3>3, <1>3
      <4> QED
        BY <4>1, <2>1, <1>1, <1>7
    <3> QED
      BY <3>1, <3>2, <3>3
  <2>4. \A i \in 1..Len(down') : down'[i].kind = "data" =>
            v[i] >= v[i - 1] + down'[i].size /\ v[i] >= v[i - 1] + TailSize
    <3> TAKE i \in 1..Len(down')
    <3>1. CASE i \in 1..Len(down)
      <4>1. i \in 0..Len(down) /\ i - 1 \in 0..Len(down) /\ i \in DOMAIN down
        BY <3>1, <1>3
      <4>2. v[i] = w[i] /\ v[i - 1] = w[i - 1] /\ down'[i] = down[i]
        BY <4>1, <1>3, <1>7
      <4> QED
        BY <3>1, <4>2 DEF Weighs
    <3>2. CASE i \notin 1..Len(down)
      <4>1. i = Len(down) + 1 /\ i - 1 = Len(down) /\ down'[i].size = size
        BY <3>2, <1>2, <1>3
      <4>2. v[i] = w[Len(down)] + size /\ v[i - 1] = w[Len(down)]
        BY <4>1, <2>1, <1>7
      <4> QED
        BY <4>1, <4>2, <2>1, <1>1
    <3> QED
      BY <3>1, <3>2
  <2>5. v[Len(down')] <= SentBytes' + Len(faults')
    <3>1. v[Len(down')] = w[Len(down)] + size
      BY <1>3, <1>7
    <3>2. w[Len(down)] <= SentBytes + Len(faults) /\ Len(faults) \in Nat
      BY Weights, Shapes
    <3> QED
      BY <3>1, <3>2, <2>1, <1>1
  <2> QED
    BY <2>2, <2>3, <2>4, <2>5, <1>7 DEF Weighs
<1> QED
  BY <1>6, <1>8

\* ... or sent into a link that is gone.
LEMMA SentInVain ==
    ASSUME TypeOK, InOrder, NEW w, Weighs(w), sent < Blocks, sent' = sent + 1,
           UNCHANGED <<down, out, total, faults>>
    PROVE  InOrder' /\ (\E v : Weighs(v))'
<1> DEFINE size == IF sent' < Blocks THEN BlockSize ELSE TailSize
<1>1. SentBytes' = SentBytes + size /\ size \in Nat \ {0} /\ size >= TailSize /\ TailSize \in Nat
      /\ SentBytes \in Nat
  BY OneMoreSent, BytesSent, Bytes
<1> HIDE DEF size
<1>2. Off' = Off /\ Count' = Count /\ Count \in Nat /\ sent \in Nat
  BY Offset, Shapes DEF Off, Count
<1>3. InOrder'
  <2>1. Count' <= sent'
    BY <1>2 DEF InOrder
  <2>2. \A i \in DOMAIN down' : i > Off' => down'[i].kind = "data"
    BY <1>2 DEF InOrder
  <2>3. \A i \in DOMAIN out' : out'[i] # Damaged => i <= out'[i] /\ out'[i] + Count' <= sent' + i
    <3> TAKE i \in DOMAIN out'
    <3>1. i \in DOMAIN out /\ i \in Nat /\ out'[i] = out[i] /\ out[i] \in Nat
      BY Shapes
    <3>2. out[i] # Damaged => i <= out[i] /\ out[i] + Count <= sent + i
      BY <3>1 DEF InOrder
    <3> QED
      BY <3>1, <3>2, <1>2
  <2>4. \A i \in DOMAIN down' : i > Off' /\ down'[i].body # Damaged =>
            Len(out') + i <= down'[i].body + Off' /\ down'[i].body + Len(down') <= sent' + i
    <3> TAKE i \in DOMAIN down'
    <3>1. i \in DOMAIN down /\ i \in Nat /\ down[i].body \in Nat /\ Len(down) \in Nat
      BY Shapes
    <3>2. i > Off /\ down[i].body # Damaged =>
              Len(out) + i <= down[i].body + Off /\ down[i].body + Len(down) <= sent + i
      BY <3>1 DEF InOrder
    <3>3. \A b, l, s, k \in Nat : b + l <= s + k => b + l <= (s + 1) + k
      OBVIOUS
    <3>4. i > Off /\ down[i].body # Damaged =>
              Len(out) + i <= down[i].body + Off /\ down[i].body + Len(down) <= (sent + 1) + i
      BY <3>1, <3>2, <3>3, <1>2
    <3> QED
      BY <3>4, <1>2
  <2> QED
    BY <2>1, <2>2, <2>3, <2>4 DEF InOrder
<1>4. PICK v : /\ v \in [0..Len(down) -> Nat]
               /\ \A i \in 0..Len(down) : v[i] = w[i] + TailSize /\ w[i] \in Nat
  <2>1. \A i \in 0..Len(down) : w[i] \in Nat
    BY Weights
  <2>2. [i \in 0..Len(down) |-> w[i] + TailSize] \in [0..Len(down) -> Nat]
    BY <1>1, <2>1
  <2> WITNESS [i \in 0..Len(down) |-> w[i] + TailSize]
  <2> QED
    BY <2>1, <2>2
<1>5. Weighs(v)'
  <2>0. Len(down) \in Nat /\ DOMAIN down = 1..Len(down)
    BY Shapes
  <2>1. v[0] >= total' /\ v[0] >= total' + TailSize
    BY <1>1, <1>4, Weights, Shapes
  <2>2. \A i, j \in 0..Len(down) : i <= j => v[i] <= v[j]
    <3> TAKE i, j \in 0..Len(down)
    <3>1. i <= j => w[i] <= w[j]
      BY DEF Weighs
    <3> QED
      BY <3>1, <1>1, <1>4
  <2>3. \A i \in 1..Len(down) : down[i].kind = "data" =>
            v[i] >= v[i - 1] + down[i].size /\ v[i] >= v[i - 1] + TailSize
    <3> TAKE i \in 1..Len(down)
    <3>1. /\ i \in 0..Len(down) /\ i - 1 \in 0..Len(down) /\ i \in DOMAIN down
      BY <2>0
    <3>2. /\ v[i] = w[i] + TailSize /\ v[i - 1] = w[i - 1] + TailSize
          /\ w[i] \in Nat /\ w[i - 1] \in Nat /\ down[i].size \in Nat
      BY <3>1, <1>4, Shapes
    <3>3. down[i].kind = "data" => w[i] >= w[i - 1] + down[i].size /\ w[i] >= w[i - 1] + TailSize
      BY DEF Weighs
    <3>4. \A a, b, c, t \in Nat : a >= b + c => a + t >= (b + t) + c
      OBVIOUS
    <3> QED
      BY <3>2, <3>3, <3>4, <1>1
  <2>4. v[Len(down)] <= SentBytes' + Len(faults)
    <3>1. v[Len(down)] = w[Len(down)] + TailSize /\ w[Len(down)] \in Nat
      BY <2>0, <1>4, Weights
    <3>2. w[Len(down)] <= SentBytes + Len(faults) /\ Len(faults) \in Nat
      BY Weights, Shapes
    <3> QED
      BY <3>1, <3>2, <1>1
  <2> QED
    BY <2>1, <2>2, <2>3, <2>4, <1>4 DEF Weighs
<1> QED
  BY <1>3, <1>5

\* The response is sent before any data.
LEMMA Started ==
    ASSUME TypeOK, InOrder, NEW w, Weighs(w), down = <<>>, sent = 0,
           NEW f, f.kind = "response", f.body # Damaged, down' = <<f>>,
           UNCHANGED <<sent, out, total, faults>>
    PROVE  InOrder' /\ (\E v : Weighs(v))'
<1>1. /\ Len(down) = 0 /\ Len(down') = 1 /\ DOMAIN down' = {1} /\ 1..1 = {1} /\ down'[1] = f
      /\ 0..Len(down') = {0, 1} /\ Len(down) \in 0..Len(down) /\ down' # <<>>
  OBVIOUS
<1>2. Off = 0 /\ Off' = 1
  BY <1>1 DEF Off
<1>3. Count' = Count /\ Count \in Nat /\ SentBytes' = SentBytes
  BY <1>1, <1>2, Offset, Shapes DEF Count, SentBytes
<1>4. InOrder'
  BY <1>1, <1>2, <1>3 DEF InOrder
<1>5. w[0] \in Nat
  BY Weights
<1>6. PICK v : v \in [{0, 1} -> Nat] /\ v[0] = w[0] /\ v[1] = w[0]
  <2> WITNESS [i \in {0, 1} |-> w[0]]
  <2> QED
    BY <1>5
<1>7. Weighs(v)'
  <2>1. v[0] >= total' /\ (Count' < sent' => v[0] >= total' + TailSize)
    BY <1>3, <1>6, Weights
  <2>2. \A i, j \in 0..Len(down') : i <= j => v[i] <= v[j]
    BY <1>1, <1>5, <1>6
  <2>3. \A i \in 1..Len(down') : down'[i].kind # "data"
    BY <1>1
  <2>4. v[Len(down')] <= SentBytes' + Len(faults')
    BY <1>1, <1>3, <1>6, Weights
  <2> QED
    BY <1>1, <1>6, <2>1, <2>2, <2>3, <2>4 DEF Weighs
<1> QED
  BY <1>4, <1>7

-----------------------------------------------------------------------------
(* Steps. *)

LEMMA UpShape ==
    ASSUME TypeOK
    PROVE  /\ up \in Seq(Ack) /\ Len(up) \in Nat /\ DOMAIN up = 1..Len(up)
           /\ ((up = <<>>) <=> (Len(up) = 0))
           /\ \A i \in DOMAIN up : up[i] \in Ack /\ up[i].total \in Nat
           /\ up # <<>> => /\ Tail(up) \in Seq(Ack) /\ Head(up) = up[1] /\ 1 \in DOMAIN up
                           /\ Len(up) \in DOMAIN up
                           /\ Len(Tail(up)) = Len(up) - 1
                           /\ DOMAIN Tail(up) = 1..(Len(up) - 1)
                           /\ \A i \in DOMAIN Tail(up) : i + 1 \in DOMAIN up /\ Tail(up)[i] = up[i + 1]
<1>1. up \in Seq(Ack)
  BY DEF TypeOK, Ack
<1>2. \A i \in DOMAIN up : up[i] \in Ack
  BY <1>1
<1>3. \A a \in Ack : a.total \in Nat
  BY DEF Ack
<1>4. up # <<>> => Len(up) \in DOMAIN up
  BY <1>1, Empty
<1> QED
  BY <1>1, <1>2, <1>3, <1>4, Empty, Dropped

\* What the host writes, if the link is there.
LEMMA Wrote ==
    ASSUME TypeOK, NEW a \in Ack, Write(a)
    PROVE  \/ Unplugged /\ up' = up
           \/ /\ ~Unplugged /\ up' \in Seq(Ack) /\ up' # <<>> /\ Len(up') = Len(up) + 1
              /\ DOMAIN up' = 1..(Len(up) + 1) /\ \A i \in DOMAIN up : up'[i] = up[i]
              /\ up'[Len(up) + 1] = a
<1>1. up \in Seq(Ack)
  BY UpShape
<1>2. CASE Unplugged
  BY <1>2 DEF Write
<1>3. CASE ~Unplugged
  <2>1. up' = Append(up, a)
    BY <1>3 DEF Write
  <2> QED
    BY <1>1, <1>3, <2>1, Added
<1> QED
  BY <1>2, <1>3

\* What the stub sends, if the link is there.
LEMMA WasSent ==
    ASSUME TypeOK, NEW k \in Kind, NEW b \in Body, NEW n \in Nat \ {0}, Send(k, b, n)
    PROVE  \/ Unplugged /\ down' = down
           \/ /\ ~Unplugged /\ down' = Append(down, [kind |-> k, body |-> b, size |-> n])
              /\ down' \in Seq(Frame) /\ down' # <<>> /\ Len(down') = Len(down) + 1
              /\ DOMAIN down' = 1..(Len(down) + 1) /\ \A i \in DOMAIN down : down'[i] = down[i]
              /\ down'[Len(down) + 1] = [kind |-> k, body |-> b, size |-> n]
<1>1. down \in Seq(Frame)
  BY DEF TypeOK
<1>2. CASE Unplugged
  BY <1>2 DEF Send
<1>3. CASE ~Unplugged
  <2>1. down' = Append(down, [kind |-> k, body |-> b, size |-> n])
    BY <1>3 DEF Send
  <2>2. [kind |-> k, body |-> b, size |-> n] \in Frame
    BY DEF Frame
  <2> QED
    BY <1>1, <1>3, <2>1, <2>2, Added
<1> QED
  BY <1>2, <1>3

LEMMA SentFrames ==
    ASSUME TypeOK, NEW k \in Kind, NEW b \in Body, NEW n \in Nat \ {0}, Send(k, b, n)
    PROVE  \A i \in DOMAIN down' :
               \/ i \in DOMAIN down /\ down'[i] = down[i]
               \/ /\ ~Unplugged /\ i = Len(down) + 1
                  /\ down'[i].kind = k /\ down'[i].body = b /\ down'[i].size = n
<1>1. Len(down) \in Nat /\ DOMAIN down = 1..Len(down)
  BY Shapes
<1>2. CASE Unplugged /\ down' = down
  BY <1>2
<1>3. CASE /\ ~Unplugged /\ DOMAIN down' = 1..(Len(down) + 1)
           /\ \A i \in DOMAIN down : down'[i] = down[i]
           /\ down'[Len(down) + 1] = [kind |-> k, body |-> b, size |-> n]
  <2> TAKE i \in DOMAIN down'
  <2>1. CASE i \in DOMAIN down
    BY <1>3, <2>1
  <2>2. CASE i = Len(down) + 1
    BY <1>3, <2>2
  <2> QED
    BY <1>1, <1>3, <2>1, <2>2
<1> QED
  BY <1>2, <1>3, WasSent

\* A frame of data, of a read that has begun, is data.
LEMMA IsData ==
    ASSUME TypeOK, Stages, Coming, Data
    PROVE  /\ Off = 0 /\ down # <<>> /\ Head(down) = down[1] /\ down' = Tail(down)
           /\ \A i \in DOMAIN down : down[i].kind = "data"
           /\ down[1].body \in Body /\ down[1].size \in Nat \ {0}
           /\ out' = Append(out, down[1].body) /\ total' = total + down[1].size
           /\ InOrder /\ \E w : Weighs(w)
<1>1. down # <<>> /\ down' = Tail(down) /\ phase = "data" /\ 1 \in DOMAIN down /\ Head(down) = down[1]
  BY Dropped, Shapes DEF Data, Read, TypeOK
<1>2. InOrder /\ \E w : Weighs(w)
  BY <1>1 DEF Coming
<1>3. Off = 0
  BY <1>1 DEF Off, Stages
<1>4. \A i \in DOMAIN down : down[i].kind = "data"
  BY <1>2, <1>3, Shapes DEF InOrder
<1>5. down[1].body \in Body /\ down[1].size \in Nat \ {0}
  BY <1>1, Shapes DEF Frame
<1>6. out' = Append(out, down[1].body) /\ total' = total + down[1].size
  BY <1>1, <1>4 DEF Data
<1> QED
  BY <1>1, <1>2, <1>3, <1>4, <1>5, <1>6

LEMMA DataReceived ==
    ASSUME TypeOK, Stages, Coming, Data
    PROVE  InOrder' /\ (\E v : Weighs(v))' /\ Off' = 0 /\ total' <= Length + Len(faults)
<1>1. UNCHANGED <<sent, faults>>
  BY DEF Data, chip
<1> QED
  BY <1>1, IsData, Received

\* What the faults of the link do.
LEMMA LinkStep ==
    ASSUME TypeOK, Link
    PROVE  /\ UNCHANGED <<host, chip>>
           /\ faults' \in Seq(FaultKind) /\ Len(faults) \in Nat /\ Len(faults') = Len(faults) + 1
           /\ Len(faults') <= 1 => faults = <<>>
           /\ \A i \in DOMAIN faults : i \in DOMAIN faults' /\ faults'[i] = faults[i]
           /\ \/ UNCHANGED up
              \/ up # <<>> /\ up' = Tail(up)
              \/ up' = <<>>
           /\ \/ UNCHANGED down
              \/ down # <<>> /\ down' = Tail(down)
              \/ \E size \in 1..(down[1].size + 1) :
                    /\ down # <<>> /\ down' \in Seq(Frame) /\ down' # <<>>
                    /\ Len(down') = Len(down) /\ DOMAIN down' = 1..Len(down)
                    /\ down'[1].kind = down[1].kind /\ down'[1].body = Damaged
                    /\ down'[1].size = size
                    /\ \A i \in DOMAIN down' : i > 1 => down'[i] = down[i]
              \/ /\ Len(down) >= 2 /\ down' \in Seq(Frame) /\ down' # <<>>
                 /\ Len(down') = Len(down) - 1 /\ DOMAIN down' = 1..(Len(down) - 1)
                 /\ down'[1].kind = down[1].kind /\ down'[1].body = Damaged
                 /\ down'[1].size = down[1].size + 1
                 /\ \A i \in DOMAIN down' : i > 1 => i + 1 \in DOMAIN down /\ down'[i] = down[i + 1]
           /\ up' = up \/ down' = down
           /\ down' = down \/ (down' = Tail(down) /\ faults' = Append(faults, "lose"))
                  \/ (down' # <<>> /\ faults' = Append(faults, "damage"))
           /\ up' = up \/ faults' = Append(faults, "lose") \/ faults' = Append(faults, "unplug")
<1> USE DEF FaultKind
<1>1. CASE LoseUp
  <2>1. /\ Fault("lose") /\ up # <<>> /\ up' = Tail(up) /\ UNCHANGED <<host, down, chip>>
        /\ faults' = Append(faults, "lose")
    BY <1>1 DEF LoseUp, Fault
  <2> QED
    BY <2>1, FaultAdded
<1>2. CASE LoseDown
  <2>1. /\ Fault("lose") /\ down # <<>> /\ down' = Tail(down) /\ UNCHANGED <<host, up, chip>>
        /\ faults' = Append(faults, "lose")
    BY <1>2 DEF LoseDown, Fault
  <2> QED
    BY <2>1, FaultAdded
<1>3. CASE Damage
  <2>1. /\ Fault("damage") /\ down # <<>> /\ UNCHANGED <<host, up, chip>>
        /\ faults' = Append(faults, "damage") /\ Head(down) = down[1]
    BY <1>3, Dropped DEF Damage, Fault, TypeOK
  <2>2. PICK size \in 1..(down[1].size + 1) : down' = <<DamagedFrame(size)>> \o Tail(down)
    BY <1>3, <2>1 DEF Damage
  <2>3. /\ down' \in Seq(Frame) /\ down' # <<>>
        /\ Len(down') = Len(down) /\ DOMAIN down' = 1..Len(down)
        /\ down'[1].kind = down[1].kind /\ down'[1].body = Damaged
        /\ down'[1].size = size
        /\ \A i \in DOMAIN down' : i > 1 => down'[i] = down[i]
    BY <2>1, <2>2, SpoiledFrames
  <2> QED
    BY <2>1, <2>3, FaultAdded
<1>4. CASE Merge
  <2>1. /\ Fault("damage") /\ Len(down) >= 2 /\ UNCHANGED <<host, up, chip>>
        /\ faults' = Append(faults, "damage") /\ down # <<>> /\ Head(down) = down[1]
    BY <1>4, Dropped, Shapes DEF Merge, Fault, TypeOK
  <2>2. down' = <<DamagedFrame(down[1].size + 1)>> \o Tail(Tail(down))
    BY <1>4, <2>1 DEF Merge
  <2>3. /\ down' \in Seq(Frame) /\ down' # <<>>
        /\ Len(down') = Len(down) - 1 /\ DOMAIN down' = 1..(Len(down) - 1)
        /\ down'[1].kind = down[1].kind /\ down'[1].body = Damaged
        /\ down'[1].size = down[1].size + 1
        /\ \A i \in DOMAIN down' : i > 1 => i + 1 \in DOMAIN down /\ down'[i] = down[i + 1]
    BY <2>1, <2>2, MergedFrames
  <2> QED
    BY <2>1, <2>3, FaultAdded
<1>5. CASE Unplug
  <2>1. /\ Fault("unplug") /\ up' = <<>> /\ UNCHANGED <<host, down, chip>>
        /\ faults' = Append(faults, "unplug")
    BY <1>5 DEF Unplug, Fault
  <2> QED
    BY <2>1, FaultAdded
<1> QED
  BY <1>1, <1>2, <1>3, <1>4, <1>5 DEF Link

\* A fault of the link leaves what kind each frame is that is left.
LEMMA LinkKinds ==
    ASSUME TypeOK, Link
    PROVE  /\ \A i \in DOMAIN down' : \E j \in DOMAIN down :
                  down'[i].kind = down[j].kind /\ (j = 1 => i = 1)
           /\ down = <<>> => down' = <<>>
<1>00. down # <<>> => \A i \in DOMAIN Tail(down) :
                          i \in Nat \ {0} /\ i + 1 \in DOMAIN down /\ Tail(down)[i] = down[i + 1]
  BY Dropped, Shapes DEF TypeOK
<1>0. Len(down) \in Nat /\ DOMAIN down = 1..Len(down) /\ ((down = <<>>) <=> (Len(down) = 0))
  BY Shapes
<1>1. CASE UNCHANGED down
  BY <1>1
<1>2. CASE down # <<>> /\ down' = Tail(down)
  <2>1. ASSUME NEW i \in DOMAIN down'
        PROVE  \E j \in DOMAIN down : down'[i].kind = down[j].kind /\ (j = 1 => i = 1)
    <3>1. i + 1 \in DOMAIN down /\ down'[i] = down[i + 1] /\ i + 1 # 1
      BY <1>00, <1>2
    <3> QED
      BY <3>1
  <2> QED
    BY <1>2, <2>1
<1>3. CASE /\ down # <<>> /\ DOMAIN down' = 1..Len(down) /\ down'[1].kind = down[1].kind
           /\ \A i \in DOMAIN down' : i > 1 => down'[i] = down[i]
  <2>1. ASSUME NEW i \in DOMAIN down'
        PROVE  \E j \in DOMAIN down : down'[i].kind = down[j].kind /\ (j = 1 => i = 1)
    <3>1. i \in DOMAIN down /\ down'[i].kind = down[i].kind
      BY <1>0, <1>3
    <3> QED
      BY <3>1
  <2> QED
    BY <1>3, <2>1
<1>4. CASE /\ Len(down) >= 2 /\ DOMAIN down' = 1..(Len(down) - 1) /\ down'[1].kind = down[1].kind
           /\ \A i \in DOMAIN down' : i > 1 => i + 1 \in DOMAIN down /\ down'[i] = down[i + 1]
  <2>1. ASSUME NEW i \in DOMAIN down'
        PROVE  \E j \in DOMAIN down : down'[i].kind = down[j].kind /\ (j = 1 => i = 1)
    <3>1. CASE i = 1
      <4>1. 1 \in DOMAIN down
        BY <1>0, <1>4
      <4> QED
        BY <1>4, <3>1, <4>1
    <3>2. CASE i # 1
      <4>1. i + 1 \in DOMAIN down /\ down'[i] = down[i + 1] /\ i + 1 # 1
        BY <1>0, <1>4, <3>2
      <4> QED
        BY <4>1
    <3> QED
      BY <3>1, <3>2
  <2> QED
    BY <1>0, <1>4, <2>1
<1> QED
  BY <1>1, <1>2, <1>3, <1>4, LinkStep

LEMMA TypeInit == Init => TypeOK
<1> SUFFICES ASSUME Init PROVE TypeOK
  OBVIOUS
<1>1. Length \in Nat /\ Blocks \in Nat
  BY Bytes
<1>2. 0 \in 0..(Length + Len(faults)) /\ 0 \in 0..Blocks
  BY <1>1 DEF Init
<1>3. /\ <<>> \in Seq(Body) /\ <<>> \in Seq(Frame) /\ <<>> \in Seq(FaultKind)
      /\ <<>> \in Seq([kind : {"read", "ack"}, total : Nat])
  OBVIOUS
<1>4. total \in 0..(Length + Len(faults)) /\ sent \in 0..Blocks /\ acked \in Nat
  BY <1>2 DEF Init
<1>5. compared \in BOOLEAN /\ streaming \in BOOLEAN
  BY DEF Init
<1> QED
  BY <1>3, <1>4, <1>5 DEF Init, TypeOK

\* A longer list of faults allows for as many bytes.
LEMMA TotalStays ==
    ASSUME TypeOK, total' = total, Len(faults') \in Nat, Len(faults') >= Len(faults)
    PROVE  total' \in 0..(Length + Len(faults'))
<1>1. total \in Nat /\ total <= Length + Len(faults) /\ Len(faults) \in Nat /\ Length \in Nat
  BY Shapes, Bytes DEF TypeOK
<1> QED
  BY <1>1

LEMMA TypeStep ==
    ASSUME TypeOK, Stages, Coming, [Next]_vars
    PROVE  TypeOK'
<1> USE DEF host, chip
<1>0. /\ down \in Seq(Frame) /\ up \in Seq(Ack) /\ faults \in Seq(FaultKind) /\ Len(faults) \in Nat
      /\ down # <<>> => Tail(down) \in Seq(Frame)
      /\ up # <<>> => Tail(up) \in Seq(Ack) /\ up[1] \in Ack /\ up[1].total \in Nat /\ Head(up) = up[1]
      /\ total \in 0..(Length + Len(faults))
      /\ sent \in Nat /\ Blocks \in Nat /\ sent <= Blocks
      /\ phase \in {"call", "response", "data", "digest", "ok", "error"}
      /\ out \in Seq(Body) /\ compared \in BOOLEAN /\ streaming \in BOOLEAN /\ acked \in Nat
  <2>1. /\ down \in Seq(Frame) /\ faults \in Seq(FaultKind) /\ total \in 0..(Length + Len(faults))
        /\ phase \in {"call", "response", "data", "digest", "ok", "error"}
        /\ out \in Seq(Body) /\ compared \in BOOLEAN /\ streaming \in BOOLEAN /\ acked \in Nat
    BY DEF TypeOK
  <2>2. /\ up \in Seq(Ack)
        /\ up # <<>> => Tail(up) \in Seq(Ack) /\ up[1] \in Ack /\ up[1].total \in Nat /\ Head(up) = up[1]
    BY UpShape
  <2>3. down # <<>> => Tail(down) \in Seq(Frame)
    BY <2>1, Dropped
  <2>4. Len(faults) \in Nat /\ sent \in Nat /\ Blocks \in Nat /\ sent <= Blocks
    BY Shapes, Bytes
  <2> QED
    BY <2>1, <2>2, <2>3, <2>4
<1>00. <<>> \in Seq(Ack)
  OBVIOUS
<1> DEFINE Type == /\ phase' \in {"call", "response", "data", "digest", "ok", "error"}
                   /\ out' \in Seq(Body) /\ total' \in 0..(Length + Len(faults'))
                   /\ compared' \in BOOLEAN
                   /\ up' \in Seq(Ack) /\ down' \in Seq(Frame)
                   /\ streaming' \in BOOLEAN /\ sent' \in 0..Blocks /\ acked' \in Nat
                   /\ faults' \in Seq(FaultKind)
<1>1. Type => TypeOK'
  BY DEF TypeOK, Ack
<1>2. CASE Call
  <2>1. [kind |-> "read", total |-> 0] \in Ack
    BY DEF Ack
  <2>2. up' \in Seq(Ack)
    BY <1>0, <1>2, <2>1, Wrote DEF Call
  <2> QED
    BY <1>0, <1>1, <1>2, <2>2 DEF Call
<1>3. CASE Skip
  BY <1>0, <1>1, <1>3 DEF Skip, Read
<1>4. CASE Response
  BY <1>0, <1>1, <1>4 DEF Response, Read, Continue
<1>5. CASE Data
  <2>1. /\ down # <<>> /\ down[1].body \in Body /\ down[1].size \in Nat \ {0}
        /\ out' = Append(out, down[1].body) /\ total' = total + down[1].size
        /\ Head(down) = down[1]
    BY <1>5, IsData
  <2>2. total' <= Length + Len(faults) /\ total' \in Nat /\ Length + Len(faults) \in Nat
    BY <1>0, <1>5, <2>1, DataReceived, Shapes
  <2>3. [kind |-> "ack", total |-> total + down[1].size] \in Ack
    BY <1>0, <2>1 DEF Ack
  <2>4. up' \in Seq(Ack)
    BY <1>0, <1>5, <2>1, <2>3, Wrote DEF Data, Acknowledged
  <2>5. out' \in Seq(Body) /\ total' \in 0..(Length + Len(faults')) /\ faults' = faults
    BY <1>0, <1>5, <2>1, <2>2 DEF Data
  <2> QED
    BY <1>0, <1>1, <1>5, <2>1, <2>4, <2>5 DEF Data, Read, Continue
<1>6. CASE Digest
  BY <1>0, <1>1, <1>6 DEF Digest, Read
<1>7. CASE Timeout
  <2>1. "late" \in FaultKind
    BY DEF FaultKind
  <2>2. faults' \in Seq(FaultKind) /\ Len(faults') \in Nat /\ Len(faults') >= Len(faults)
    BY <1>0, <1>7, <2>1, FaultAdded DEF Timeout
  <2>3. total' \in 0..(Length + Len(faults'))
    BY <1>7, <2>2, TotalStays DEF Timeout
  <2> QED
    BY <1>0, <1>1, <1>7, <2>2, <2>3 DEF Timeout, AfterSilence
<1>8. CASE ChipStart
  <2>1. "response" \in Kind /\ Intact \in Body /\ 1 \in Nat \ {0}
    BY DEF Kind, Body
  <2>2. down' \in Seq(Frame)
    BY <1>0, <1>8, <2>1, WasSent DEF ChipStart
  <2> QED
    BY <1>0, <1>1, <1>8, <2>2 DEF ChipStart
<1>9. CASE ChipSend
  <2> DEFINE size == IF sent' < Blocks THEN BlockSize ELSE TailSize
  <2>1. sent < Blocks /\ sent' = sent + 1
    BY <1>9 DEF ChipSend, MaySend
  <2>2. "data" \in Kind /\ sent' \in Body /\ size \in Nat \ {0} /\ sent' \in 0..Blocks
    BY <1>0, <2>1, OneMoreSent DEF Kind, Body
  <2>3. Send("data", sent', size)
    BY <1>9 DEF ChipSend
  <2> HIDE DEF size
  <2>4. down' \in Seq(Frame)
    BY <1>0, <2>2, <2>3, WasSent
  <2> QED
    BY <1>0, <1>1, <1>9, <2>2, <2>4 DEF ChipSend
<1>10. CASE ChipAcked
  BY <1>0, <1>1, <1>10 DEF ChipAcked
<1>11. CASE ChipFinish
  <2>1. "digest" \in Kind /\ Intact \in Body /\ DigestSize \in Nat \ {0}
    BY Bytes DEF Kind, Body
  <2>2. down' \in Seq(Frame)
    BY <1>0, <1>11, <2>1, WasSent DEF ChipFinish
  <2>3. streaming' \in BOOLEAN
    BY <1>11 DEF ChipFinish
  <2> QED
    BY <1>0, <1>1, <1>11, <2>2, <2>3 DEF ChipFinish
<1>12. CASE Link
  <2>1. /\ UNCHANGED <<host, chip>>
        /\ faults' \in Seq(FaultKind) /\ Len(faults') \in Nat /\ Len(faults') >= Len(faults)
    BY <1>0, <1>12, LinkStep
  <2>2. up' \in Seq(Ack)
    <3>1. UNCHANGED up \/ (up # <<>> /\ up' = Tail(up)) \/ up' = <<>>
      BY <1>12, LinkStep
    <3> QED
      BY <1>0, <1>00, <3>1
  <2>3. down' \in Seq(Frame)
    <3>1. UNCHANGED down \/ (down # <<>> /\ down' = Tail(down)) \/ down' \in Seq(Frame)
      BY <1>12, LinkStep
    <3> QED
      BY <1>0, <3>1
  <2>4. total' \in 0..(Length + Len(faults'))
    BY <2>1, TotalStays
  <2> QED
    BY <1>0, <1>1, <2>1, <2>2, <2>3, <2>4
<1>13. CASE UNCHANGED vars
  BY <1>0, <1>1, <1>13 DEF vars
<1> QED
  BY <1>2, <1>3, <1>4, <1>5, <1>6, <1>7, <1>8, <1>9, <1>10, <1>11, <1>12, <1>13
     DEF Next, Host, Chip

LEMMA StagesStep ==
    ASSUME TypeOK, Stages, Coming, [Next]_vars
    PROVE  Stages'
<1> USE DEF host, chip
<1>0. /\ Len(up) \in Nat /\ DOMAIN up = 1..Len(up) /\ ((up = <<>>) <=> (Len(up) = 0))
      /\ up # <<>> => /\ Head(up) = up[1] /\ 1 \in DOMAIN up /\ DOMAIN Tail(up) = 1..(Len(up) - 1)
                      /\ Len(Tail(up)) = Len(up) - 1
                      /\ \A i \in DOMAIN Tail(up) : i + 1 \in DOMAIN up /\ Tail(up)[i] = up[i + 1]
      /\ \A i \in DOMAIN up : up[i].total \in Nat
      /\ total \in Nat /\ acked \in Nat /\ Length \in Nat \ {0}
  BY Shapes, UpShape, Bytes
<1>00. DOMAIN <<>> = {} /\ Tail(up) = Tail(up)
  OBVIOUS
\* The frames to the host change as they do when one is taken or lost.
<1>01. down # <<>> => /\ 1 \in DOMAIN down /\ Head(down) = down[1]
                      /\ \A i \in DOMAIN Tail(down) :
                             i \in Nat \ {0} /\ i + 1 \in DOMAIN down /\ Tail(down)[i] = down[i + 1]
  BY Dropped, Shapes DEF TypeOK
<1> DEFINE Phases == /\ phase' \in {"call", "response"} => out' = <<>> /\ total' = 0
                     /\ phase' = "call" => up' = <<>> /\ down' = <<>> /\ ~streaming' /\ sent' = 0
                     /\ phase' = "data" => total' < Length /\ streaming'
                     /\ phase' = "digest" => total' >= Length
           Acks == acked' <= total' /\ \A i \in DOMAIN up' : up'[i].total <= total'
           Reads == \A i \in DOMAIN up' : up'[i].kind = "read" =>
                        /\ Len(up') = 1 /\ ~streaming' /\ sent' = 0 /\ total' = 0 /\ down' = <<>>
                        /\ phase' \notin {"call", "data", "digest"}
           Downs == \A i \in DOMAIN down' :
                        /\ down'[i].kind = "response" =>
                               /\ i = 1 /\ streaming' /\ total' = 0
                               /\ phase' \notin {"call", "data", "digest"}
                        /\ down'[i].kind = "digest" => total' >= Length
<1>1. Phases /\ Acks /\ Reads /\ Downs => Stages'
  BY DEF Stages
\* The up frames that are left are some that were there.
<1>02. ASSUME up' = up \/ (up # <<>> /\ up' = Tail(up)) \/ up' = <<>>
       PROVE  /\ \A i \in DOMAIN up' : \E j \in DOMAIN up : up'[i] = up[j]
              /\ up = <<>> => up' = <<>>
              /\ Len(up) = 1 /\ up' # <<>> => up' = up
  <2>1. CASE up' = up
    BY <2>1
  <2>2. CASE up # <<>> /\ up' = Tail(up)
    <3>1. \A i \in DOMAIN up' : \E j \in DOMAIN up : up'[i] = up[j]
      BY <1>0, <2>2
    <3>2. Len(up) = 1 => up' = <<>>
      BY <2>2, Dropped, UpShape
    <3> QED
      BY <2>2, <3>1, <3>2
  <2>3. CASE up' = <<>>
    BY <2>3
  <2> QED
    BY <1>02, <2>1, <2>2, <2>3
<1>2. CASE Call
  <2>1. /\ phase = "call" /\ up = <<>> /\ down = <<>> /\ ~streaming /\ sent = 0 /\ total = 0
        /\ out = <<>> /\ acked <= total
    BY <1>2 DEF Call, Stages
  <2>2. [kind |-> "read", total |-> 0] \in Ack /\ Write([kind |-> "read", total |-> 0])
    BY <1>2 DEF Ack, Call
  <2>3. up' = <<>> \/ (Len(up') = 1 /\ DOMAIN up' = {1} /\ up'[1] = [kind |-> "read", total |-> 0])
    BY <1>0, <2>1, <2>2, Wrote
  <2>4. Phases /\ Downs
    BY <1>2, <2>1 DEF Call
  <2>5. Acks /\ Reads
    BY <1>2, <2>1, <2>3 DEF Call
  <2> QED
    BY <1>1, <2>4, <2>5
<1>3. CASE Skip
  <2>1. Phases /\ Acks
    BY <1>3 DEF Skip, Stages
  <2>2. Reads
    BY <1>3 DEF Skip, Read, Stages
  <2>3. Downs
    BY <1>3, <1>01 DEF Skip, Read, Stages
  <2> QED
    BY <1>1, <2>1, <2>2, <2>3
<1>4. CASE Response
  <2>1. /\ phase = "response" /\ down # <<>> /\ down[1].kind = "response" /\ 1 \in DOMAIN down
        /\ phase' \in {"data", "error"} /\ streaming
        /\ UNCHANGED <<out, total, up, streaming, sent, acked>> /\ down' = Tail(down)
        /\ total = 0
    BY <1>4, <1>0, <1>01 DEF Response, Read, Continue, Stages
  <2>2. Phases /\ Acks
    BY <1>0, <2>1 DEF Stages
  <2>3. Reads
    BY <2>1 DEF Stages
  <2>4. Downs
    BY <1>01, <2>1 DEF Stages
  <2> QED
    BY <1>1, <2>2, <2>3, <2>4
<1>5. CASE Data
  <2>1. /\ phase = "data" /\ down # <<>> /\ down[1].size \in Nat \ {0} /\ streaming
        /\ total' = total + down[1].size /\ down' = Tail(down) /\ total < Length
        /\ phase' = (IF total' < Length THEN "data" ELSE "digest")
        /\ UNCHANGED <<streaming, sent, acked>>
    BY <1>5, IsData DEF Data, Read, Continue, Stages
  <2>2. total' \in Nat /\ total' > total
    BY <1>0, <2>1
  <2>3. [kind |-> "ack", total |-> total'] \in Ack /\ Write([kind |-> "ack", total |-> total'])
    BY <1>5, <2>1, <2>2, IsData DEF Data, Ack, Acknowledged
  <2>4. \A i \in DOMAIN up' : \/ i \in DOMAIN up /\ up'[i] = up[i]
                              \/ up'[i] = [kind |-> "ack", total |-> total']
    BY <1>0, <2>3, Wrote
  <2>5. Phases
    BY <1>0, <2>1, <2>2
  <2>6. Acks
    <3>1. acked' <= total'
      BY <1>0, <2>1, <2>2 DEF Stages
    <3>2. ASSUME NEW i \in DOMAIN up' PROVE up'[i].total <= total'
      <4>1. CASE i \in DOMAIN up /\ up'[i] = up[i]
        <5>1. up[i].total <= total /\ up[i].total \in Nat
          BY <1>0, <4>1 DEF Stages
        <5> QED
          BY <1>0, <2>2, <4>1, <5>1
      <4>2. CASE up'[i] = [kind |-> "ack", total |-> total']
        BY <2>2, <4>2
      <4> QED
        BY <2>4, <4>1, <4>2
    <3> QED
      BY <3>1, <3>2
  <2>7. Reads
    <3>1. \A i \in DOMAIN up : up[i].kind # "read"
      BY <2>1 DEF Stages
    <3> QED
      BY <2>4, <3>1
  <2>8. Downs
    <3>1. \A i \in DOMAIN down' : down'[i].kind = "data"
      BY <1>01, <1>5, <2>1, IsData
    <3> QED
      BY <3>1
  <2> QED
    BY <1>1, <2>5, <2>6, <2>7, <2>8
<1>6. CASE Digest
  <2>1. /\ phase = "digest" /\ phase' \in {"ok", "error"} /\ down # <<>> /\ down' = Tail(down)
        /\ UNCHANGED <<out, total, up, streaming, sent, acked>>
    BY <1>6 DEF Digest, Read
  <2>2. Phases /\ Acks /\ Reads
    BY <2>1 DEF Stages
  <2>3. Downs
    BY <1>01, <2>1 DEF Stages
  <2> QED
    BY <1>1, <2>2, <2>3
<1>7. CASE Timeout
  <2>1. /\ phase' \in {"ok", "error"}
        /\ UNCHANGED <<out, total, up, down, streaming, sent, acked>>
    BY <1>7 DEF Timeout, AfterSilence
  <2> QED
    BY <1>1, <2>1 DEF Stages
<1>8. CASE ChipStart
  <2>1. /\ up # <<>> /\ up[1].kind = "read" /\ up' = Tail(up) /\ Len(up) = 1 /\ down = <<>>
        /\ phase \notin {"call", "data", "digest"} /\ streaming' = TRUE /\ total = 0
        /\ UNCHANGED <<phase, out, total, compared, sent, acked>>
        /\ Send("response", Intact, 1)
    BY <1>0, <1>8 DEF ChipStart, Stages
  <2>2. up' = <<>>
    BY <1>02, <2>1, Dropped, UpShape
  <2>3. "response" \in Kind /\ Intact \in Body
    BY DEF Kind, Body
  <2>4. \A i \in DOMAIN down' : i = 1 /\ down'[i].kind = "response"
    <3>1. Len(down) = 0
      BY <2>1
    <3>2. \A i \in DOMAIN down' : i \in DOMAIN down \/ (i = Len(down) + 1 /\ down'[i].kind = "response")
      BY <2>1, <2>3, SentFrames
    <3> QED
      BY <2>1, <3>1, <3>2, <1>00
  <2>5. Phases /\ Acks /\ Reads
    BY <2>1, <2>2 DEF Stages
  <2>6. Downs
    BY <2>1, <2>4
  <2> QED
    BY <1>1, <2>5, <2>6
<1>9. CASE ChipSend
  <2> DEFINE size == IF sent' < Blocks THEN BlockSize ELSE TailSize
  <2>1. /\ streaming /\ sent < Blocks /\ sent' = sent + 1 /\ Send("data", sent', size)
        /\ UNCHANGED <<phase, out, total, up, streaming, acked>>
    BY <1>9 DEF ChipSend, MaySend
  <2>2. "data" \in Kind /\ sent' \in Body /\ size \in Nat \ {0}
    <3>1. sent \in Nat /\ Blocks \in Nat
      BY Shapes, Bytes
    <3> QED
      BY <2>1, <3>1, OneMoreSent DEF Kind, Body
  <2> HIDE DEF size
  <2>3. \A i \in DOMAIN down' : (i \in DOMAIN down /\ down'[i] = down[i]) \/ down'[i].kind = "data"
    BY <2>1, <2>2, SentFrames
  <2>4. Phases /\ Acks
    BY <2>1 DEF Stages
  <2>5. Reads
    BY <2>1 DEF Stages
  <2>6. Downs
    BY <2>1, <2>3 DEF Stages
  <2> QED
    BY <1>1, <2>4, <2>5, <2>6
<1>10. CASE ChipAcked
  <2>1. /\ up # <<>> /\ up' = Tail(up) /\ acked' = up[1].total
        /\ UNCHANGED <<phase, out, total, down, streaming, sent>>
    BY <1>0, <1>10 DEF ChipAcked
  <2>2. Phases /\ Downs
    BY <2>1 DEF Stages
  <2>3. Acks
    BY <1>0, <2>1 DEF Stages
  <2>4. Reads
    BY <1>02, <2>1 DEF Stages
  <2> QED
    BY <1>1, <2>2, <2>3, <2>4
<1>11. CASE ChipFinish
  <2>1. /\ streaming /\ acked >= Length /\ streaming' = FALSE /\ Send("digest", Intact, DigestSize)
        /\ UNCHANGED <<phase, out, total, up, sent, acked>>
    BY <1>11 DEF ChipFinish, MayFinish
  <2>2. total >= Length /\ phase # "data"
    <3>1. acked <= total
      BY DEF Stages
    <3>2. total >= Length
      BY <1>0, <2>1, <3>1
    <3>3. ~(total < Length)
      BY <1>0, <3>2
    <3> QED
      BY <3>2, <3>3 DEF Stages
  <2>3. "digest" \in Kind /\ Intact \in Body /\ DigestSize \in Nat \ {0}
    BY Bytes DEF Kind, Body
  <2>4. \A i \in DOMAIN up : up[i].kind # "read"
    BY <2>1 DEF Stages
  <2>5. \A i \in DOMAIN down' : (i \in DOMAIN down /\ down'[i] = down[i]) \/ down'[i].kind = "digest"
    BY <2>1, <2>3, SentFrames
  <2>6. Phases /\ Acks /\ Reads
    BY <2>1, <2>2, <2>4 DEF Stages
  <2>7. \A i \in DOMAIN down : down[i].kind # "response"
    BY <1>0, <2>2 DEF Stages
  <2>8. Downs
    BY <2>1, <2>2, <2>5, <2>7
  <2> QED
    BY <1>1, <2>6, <2>8
<1>12. CASE Link
  <2>1. UNCHANGED <<phase, out, total, streaming, sent, acked>>
    BY <1>12, LinkStep
  <2>2. up' = up \/ (up # <<>> /\ up' = Tail(up)) \/ up' = <<>>
    BY <1>12, LinkStep
  <2>3. /\ \A i \in DOMAIN up' : \E j \in DOMAIN up : up'[i] = up[j]
        /\ up = <<>> => up' = <<>>
        /\ Len(up) = 1 /\ up' # <<>> => up' = up
    BY <1>02, <2>2
  <2>4. /\ \A i \in DOMAIN down' : \E j \in DOMAIN down :
               down'[i].kind = down[j].kind /\ (j = 1 => i = 1)
        /\ down = <<>> => down' = <<>>
    BY <1>12, LinkKinds
  <2>5. Phases
    BY <2>1, <2>3, <2>4 DEF Stages
  <2>6. Acks
    BY <2>1, <2>3 DEF Stages
  <2>7. Reads
    BY <2>1, <2>3, <2>4 DEF Stages
  <2>8. Downs
    BY <2>1, <2>4 DEF Stages
  <2> QED
    BY <1>1, <2>5, <2>6, <2>7, <2>8
<1>13. CASE UNCHANGED vars
  BY <1>1, <1>13 DEF vars, Stages
<1> QED
  BY <1>2, <1>3, <1>4, <1>5, <1>6, <1>7, <1>8, <1>9, <1>10, <1>11, <1>12, <1>13
     DEF Next, Host, Chip

LEMMA ComingInit == Init => Coming
<1> SUFFICES ASSUME Init PROVE InOrder /\ \E w : Weighs(w)
  BY DEF Coming
<1>1. /\ down = <<>> /\ out = <<>> /\ total = 0 /\ sent = 0 /\ faults = <<>>
      /\ Len(down) = 0 /\ Len(out) = 0 /\ Len(faults) = 0 /\ 0..0 = {0} /\ 1..0 = {}
      /\ DOMAIN down = {} /\ DOMAIN out = {}
  BY DEF Init
<1>2. Off = 0 /\ Count = 0
  BY <1>1 DEF Off, Count
<1>3. SentBytes \in Nat
  BY TypeInit, BytesSent
<1>4. InOrder
  BY <1>1, <1>2 DEF InOrder
<1>5. PICK w : w \in [{0} -> Nat] /\ w[0] = 0
  <2> WITNESS [i \in {0} |-> 0]
  <2> QED
    OBVIOUS
<1>6. Weighs(w)
  <2>1. w \in [0..Len(down) -> Nat] /\ w[0] >= total /\ ~(Count < sent)
    BY <1>1, <1>2, <1>5
  <2>2. \A i, j \in 0..Len(down) : i <= j => w[i] <= w[j]
    BY <1>1, <1>5
  <2>3. \A i \in 1..Len(down) : FALSE
    BY <1>1
  <2>4. w[Len(down)] <= SentBytes + Len(faults)
    BY <1>1, <1>3, <1>5
  <2> QED
    BY <2>1, <2>2, <2>3, <2>4 DEF Weighs
<1> QED
  BY <1>4, <1>6

LEMMA ComingStep ==
    ASSUME TypeOK, Stages, Coming, [Next]_vars
    PROVE  Coming'
<1> USE DEF host, chip
<1> DEFINE Before == {"call", "response", "data"}
<1> SUFFICES ASSUME phase' \in Before
             PROVE  InOrder' /\ (\E v : Weighs(v))'
  BY DEF Coming
<1>0. Len(faults) \in Nat /\ Len(faults) >= Len(faults)
  BY Shapes
<1>1. ASSUME phase \in Before PROVE InOrder /\ \E w : Weighs(w)
  BY <1>1 DEF Coming
<1>2. CASE Call
  <2>1. phase \in Before /\ UNCHANGED <<out, total, down, sent, faults>>
    BY <1>2 DEF Call
  <2> QED
    BY <1>0, <1>1, <2>1, Still
<1>3. CASE Skip
  <2>1. phase \in Before /\ down # <<>> /\ down' = Tail(down) /\ UNCHANGED <<out, total, sent, faults>>
    BY <1>3 DEF Skip, Read
  <2> QED
    BY <1>0, <1>1, <2>1, Passed
<1>4. CASE Response
  <2>1. phase \in Before /\ down # <<>> /\ down' = Tail(down) /\ UNCHANGED <<out, total, sent, faults>>
    BY <1>4 DEF Response, Read
  <2> QED
    BY <1>0, <1>1, <2>1, Passed
<1>5. CASE Data
  BY <1>5, DataReceived
<1>6. CASE Digest
  BY <1>6 DEF Digest
<1>7. CASE Timeout
  BY <1>7 DEF Timeout, AfterSilence
<1>8. CASE ChipStart
  <2>1. /\ phase \in Before /\ down = <<>> /\ sent = 0 /\ UNCHANGED <<out, total, sent, faults>>
        /\ Send("response", Intact, 1)
    BY <1>8, UpShape DEF ChipStart, Stages
  <2>2. PICK w : Weighs(w)
    BY <1>1, <2>1
  <2>3. CASE Unplugged
    <3>1. down' = down
      BY <2>1, <2>3 DEF Send
    <3> QED
      BY <1>0, <1>1, <2>1, <2>2, <3>1, Still
  <2>4. CASE ~Unplugged
    <3> DEFINE f == [kind |-> "response", body |-> Intact, size |-> 1]
    <3>1. down' = <<f>>
      BY <2>1, <2>4 DEF Send
    <3>2. f.kind = "response" /\ f.body # Damaged
      BY DEF Intact, Damaged
    <3> HIDE DEF f
    <3> QED
      BY <1>1, <2>1, <2>2, <3>1, <3>2, Started
  <2> QED
    BY <2>3, <2>4
<1>9. CASE ChipSend
  <2> DEFINE size == IF sent' < Blocks THEN BlockSize ELSE TailSize
  <2>1. /\ phase \in Before /\ sent < Blocks /\ sent' = sent + 1 /\ UNCHANGED <<out, total, faults>>
        /\ Send("data", sent', size)
    BY <1>9 DEF ChipSend, MaySend
  <2>2. PICK w : Weighs(w)
    BY <1>1, <2>1
  <2>3. CASE Unplugged
    <3>1. down' = down
      BY <2>1, <2>3 DEF Send
    <3> QED
      BY <1>1, <2>1, <2>2, <3>1, SentInVain
  <2>4. CASE ~Unplugged
    <3>1. down' = Append(down, [kind |-> "data", body |-> sent', size |-> size])
      BY <2>1, <2>4 DEF Send
    <3> QED
      BY <1>1, <2>1, <2>2, <3>1, Sent
  <2> QED
    BY <2>3, <2>4
<1>10. CASE ChipAcked
  <2>1. phase \in Before /\ UNCHANGED <<out, total, down, sent, faults>>
    BY <1>10 DEF ChipAcked
  <2> QED
    BY <1>0, <1>1, <2>1, Still
<1>11. CASE ChipFinish
  <2>1. phase \in Before /\ acked >= Length /\ acked <= total
    BY <1>11 DEF ChipFinish, MayFinish, Stages
  <2>2. total >= Length /\ total # 0 /\ ~(total < Length)
    BY <2>1, Shapes, Bytes
  <2> QED
    BY <2>1, <2>2 DEF Stages
<1>12. CASE Link
  <2>1. /\ phase \in Before /\ UNCHANGED <<out, total, sent>>
        /\ Len(faults') = Len(faults) + 1 /\ Len(faults') \in Nat /\ Len(faults') >= Len(faults)
    BY <1>0, <1>12, LinkStep
  <2>2. PICK w : Weighs(w)
    BY <1>1, <2>1
  <2>3. InOrder
    BY <1>1, <2>1
  <2>4. CASE UNCHANGED down
    BY <2>1, <2>2, <2>3, <2>4, Still
  <2>5. CASE down # <<>> /\ down' = Tail(down)
    BY <2>1, <2>2, <2>3, <2>5, Passed
  <2>6. CASE \E size \in 1..(down[1].size + 1) :
                    /\ down # <<>> /\ down' \in Seq(Frame) /\ down' # <<>>
                    /\ Len(down') = Len(down) /\ DOMAIN down' = 1..Len(down)
                    /\ down'[1].kind = down[1].kind /\ down'[1].body = Damaged
                    /\ down'[1].size = size
                    /\ \A i \in DOMAIN down' : i > 1 => down'[i] = down[i]
    BY <2>1, <2>2, <2>3, <2>6, Spoiled
  <2>7. CASE /\ Len(down) >= 2 /\ down' \in Seq(Frame) /\ down' # <<>>
             /\ Len(down') = Len(down) - 1 /\ DOMAIN down' = 1..(Len(down) - 1)
             /\ down'[1].kind = down[1].kind /\ down'[1].body = Damaged
             /\ down'[1].size = down[1].size + 1
             /\ \A i \in DOMAIN down' : i > 1 => i + 1 \in DOMAIN down /\ down'[i] = down[i + 1]
    BY <2>1, <2>2, <2>3, <2>7, Merged
  <2> QED
    BY <1>12, <2>4, <2>5, <2>6, <2>7, LinkStep
<1>13. CASE UNCHANGED vars
  <2>1. phase \in Before /\ UNCHANGED <<out, total, down, sent, faults>>
    BY <1>13 DEF vars
  <2> QED
    BY <1>0, <1>1, <2>1, Still
<1> QED
  BY <1>2, <1>3, <1>4, <1>5, <1>6, <1>7, <1>8, <1>9, <1>10, <1>11, <1>12, <1>13
     DEF Next, Host, Chip

LEMMA AllReadStep ==
    ASSUME TypeOK, Stages, Coming, AllRead, [Next]_vars, TypeOK'
    PROVE  AllRead'
<1> USE DEF host, chip
<1> DEFINE Done == /\ sent' = Blocks /\ Len(out') = Blocks
                   /\ \A i \in DOMAIN out' : out'[i] \in {Damaged, i}
                   /\ \A i \in DOMAIN down' : down'[i].kind = "digest"
<1> SUFFICES ASSUME phase' = "digest", Len(faults') < TailSize
             PROVE  Done
  BY DEF AllRead
<1>1. Len(faults) \in Nat /\ TailSize \in Nat /\ Length \in Nat \ {0} /\ sent \in Nat
  BY Shapes, Bytes
<1>2. ASSUME phase = "digest", Len(faults) < TailSize
      PROVE  /\ sent = Blocks /\ Len(out) = Blocks
             /\ \A i \in DOMAIN out : out[i] \in {Damaged, i}
             /\ \A i \in DOMAIN down : down[i].kind = "digest"
  BY <1>2 DEF AllRead
<1>3. CASE Data
  <2>1. /\ sent' = sent /\ phase' = IF total' < Length THEN "data" ELSE "digest"
    BY <1>3 DEF Data, Continue
  <2>2. /\ total' \in Nat /\ Len(out') \in Nat /\ out' \in Seq(Body) /\ Len(down') \in Nat
        /\ down' \in Seq(Frame) /\ Len(faults') \in Nat
    BY Empty DEF TypeOK
  <2>3. total' >= Length
    BY <1>1, <2>1, <2>2
  <2>4. InOrder' /\ (\E v : Weighs(v))' /\ Off' = 0
    BY <1>3, DataReceived
  <2>5. /\ down' = <<>> /\ sent = Blocks /\ Len(out') = Blocks
        /\ \A i \in DOMAIN out' : out'[i] \in {Damaged, i}
    BY <2>1, <2>2, <2>3, <2>4, Full
  <2>6. DOMAIN down' = {}
    BY <2>5
  <2> QED
    BY <2>1, <2>5, <2>6
<1>4. CASE Call \/ Skip \/ Response \/ Digest \/ Timeout
  BY <1>1, <1>4 DEF Call, Skip, Response, Digest, Timeout, AfterSilence, Continue
<1>5. CASE ChipStart
  BY <1>5, UpShape DEF ChipStart, Stages
<1>6. CASE ChipSend
  <2>1. phase = "digest" /\ Len(faults) < TailSize /\ sent < Blocks
    BY <1>6 DEF ChipSend, MaySend
  <2>2. sent = Blocks
    BY <1>2, <2>1
  <2> QED
    BY <1>1, <2>1, <2>2
<1>7. CASE ChipAcked
  BY <1>2, <1>7 DEF ChipAcked
<1>8. CASE ChipFinish
  <2>1. UNCHANGED <<phase, out, sent, faults>> /\ Send("digest", Intact, DigestSize)
    BY <1>8 DEF ChipFinish
  <2>2. "digest" \in Kind /\ Intact \in Body /\ DigestSize \in Nat \ {0}
    BY Bytes DEF Kind, Body
  <2>3. \A i \in DOMAIN down' : (i \in DOMAIN down /\ down'[i] = down[i]) \/ down'[i].kind = "digest"
    BY <2>1, <2>2, SentFrames
  <2> QED
    BY <1>2, <2>1, <2>3
<1>9. CASE Link
  <2>1. UNCHANGED <<phase, out, sent>> /\ Len(faults') = Len(faults) + 1
    BY <1>9, LinkStep
  <2>2. \A i \in DOMAIN down' : \E j \in DOMAIN down : down'[i].kind = down[j].kind
    BY <1>9, LinkKinds
  <2>3. Len(faults) < TailSize
    BY <1>1, <2>1
  <2> QED
    BY <1>2, <2>1, <2>2, <2>3
<1>10. CASE UNCHANGED vars
  BY <1>2, <1>10 DEF vars
<1> QED
  BY <1>3, <1>4, <1>5, <1>6, <1>7, <1>8, <1>9, <1>10 DEF Next, Host, Chip

\* Without a fault, no damage.
LEMMA Clean ==
    ASSUME OneDamage, faults = <<>>
    PROVE  /\ \A i \in DOMAIN out : out[i] # Damaged
           /\ \A i \in DOMAIN down : down[i].body # Damaged
<1>1. Len(faults) <= 1 /\ faults # <<"damage">>
  OBVIOUS
<1> QED
  BY <1>1 DEF OneDamage

LEMMA OneDamageStep ==
    ASSUME TypeOK, Stages, Coming, OneDamage, [Next]_vars
    PROVE  OneDamage'
<1> USE DEF host, chip
<1> DEFINE Digests == \A i \in DOMAIN down' : down'[i].kind = "digest" /\ down'[i].body # Damaged =>
                          down'[i].size = DigestSize
           Few == Len(faults') <= 1 =>
                    /\ (\E i \in DOMAIN out' : out'[i] = Damaged) =>
                           faults' = <<"damage">> /\ \A i \in DOMAIN down' : down'[i].body # Damaged
                    /\ (\E i \in DOMAIN down' : down'[i].body = Damaged) => faults' = <<"damage">>
                    /\ \A i, j \in DOMAIN down' :
                           down'[i].body = Damaged /\ down'[j].body = Damaged => i = j
<1>1. Digests /\ Few => OneDamage'
  BY DEF OneDamage
<1>2. /\ \A i \in DOMAIN down : down[i].kind = "digest" /\ down[i].body # Damaged =>
             down[i].size = DigestSize
      /\ Len(faults) <= 1 =>
             /\ (\E i \in DOMAIN out : out[i] = Damaged) =>
                    faults = <<"damage">> /\ \A i \in DOMAIN down : down[i].body # Damaged
             /\ (\E i \in DOMAIN down : down[i].body = Damaged) => faults = <<"damage">>
             /\ \A i, j \in DOMAIN down : down[i].body = Damaged /\ down[j].body = Damaged => i = j
  BY DEF OneDamage
<1>3. ASSUME down # <<>>
      PROVE  /\ 1 \in DOMAIN down
             /\ \A i \in DOMAIN Tail(down) : i \in Nat \ {0} /\ i + 1 \in DOMAIN down /\ i + 1 # 1
                                             /\ Tail(down)[i] = down[i + 1]
             /\ \A i, j \in DOMAIN Tail(down) : i + 1 = j + 1 => i = j
  <2>1. /\ 1 \in DOMAIN down
        /\ \A i \in DOMAIN Tail(down) : i \in Nat \ {0} /\ i + 1 \in DOMAIN down
                                        /\ Tail(down)[i] = down[i + 1]
    BY <1>3, Dropped, Shapes DEF TypeOK
  <2> QED
    BY <2>1
\* Nothing has changed but that a frame is gone.
<1>4. ASSUME UNCHANGED <<out, faults>>, UNCHANGED down \/ (down # <<>> /\ down' = Tail(down))
      PROVE  OneDamage'
  <2>1. CASE UNCHANGED down
    BY <1>4, <2>1 DEF OneDamage
  <2>2. CASE down # <<>> /\ down' = Tail(down)
    <3>1. Digests
      BY <1>2, <1>3, <2>2
    <3>2. Few
      BY <1>2, <1>3, <1>4, <2>2
    <3> QED
      BY <1>1, <3>1, <3>2
  <2> QED
    BY <1>4, <2>1, <2>2
\* Nothing has changed but that an undamaged frame is sent.
<1>5. ASSUME NEW k \in Kind, NEW b \in Body, NEW n \in Nat \ {0}, Send(k, b, n), b # Damaged,
             k = "digest" => n = DigestSize, UNCHANGED <<out, faults>>
      PROVE  OneDamage'
  <2>1. \A i \in DOMAIN down' : \/ i \in DOMAIN down /\ down'[i] = down[i]
                                \/ /\ down'[i].body # Damaged
                                   /\ down'[i].kind = "digest" => down'[i].size = DigestSize
    BY <1>5, SentFrames
  <2>2. Digests
    BY <1>2, <2>1
  <2>3. \A i \in DOMAIN down' : down'[i].body = Damaged => i \in DOMAIN down /\ down[i].body = Damaged
    BY <2>1
  <2>4. Few
    BY <1>2, <1>5, <2>3
  <2> QED
    BY <1>1, <2>2, <2>4
<1>6. CASE Call \/ Skip \/ Response \/ Digest \/ ChipAcked
  BY <1>4, <1>6 DEF Call, Skip, Response, Digest, ChipAcked, Read
<1>7. CASE Data
  <2>1. /\ down # <<>> /\ down' = Tail(down) /\ out' = Append(out, down[1].body)
        /\ down[1].body \in Body /\ faults' = faults
    BY <1>7, IsData DEF Data
  <2>2. \A i \in DOMAIN out' : (i \in DOMAIN out /\ out'[i] = out[i]) \/ out'[i] = down[1].body
    <3>1. out \in Seq(Body)
      BY DEF TypeOK
    <3> QED
      BY <2>1, <3>1, Added
  <2>3. Digests
    BY <1>2, <1>3, <2>1
  <2>4. \A i \in DOMAIN down' : down'[i].body = Damaged =>
            i + 1 \in DOMAIN down /\ down[i + 1].body = Damaged /\ i + 1 # 1
    BY <1>3, <2>1
  <2>5. Few
    <3> SUFFICES ASSUME Len(faults') <= 1
                 PROVE  /\ (\E i \in DOMAIN out' : out'[i] = Damaged) =>
                               faults' = <<"damage">> /\ \A i \in DOMAIN down' : down'[i].body # Damaged
                        /\ (\E i \in DOMAIN down' : down'[i].body = Damaged) => faults' = <<"damage">>
                        /\ \A i, j \in DOMAIN down' :
                               down'[i].body = Damaged /\ down'[j].body = Damaged => i = j
      OBVIOUS
    <3>1. Len(faults) <= 1
      BY <2>1
    <3>2. (\E i \in DOMAIN out' : out'[i] = Damaged) =>
              faults' = <<"damage">> /\ \A i \in DOMAIN down' : down'[i].body # Damaged
      <4> SUFFICES ASSUME NEW i \in DOMAIN out', out'[i] = Damaged
                   PROVE  faults' = <<"damage">> /\ \A j \in DOMAIN down' : down'[j].body # Damaged
        OBVIOUS
      <4>1. CASE i \in DOMAIN out /\ out'[i] = out[i]
        BY <1>2, <2>1, <2>4, <3>1, <4>1
      <4>2. CASE out'[i] = down[1].body
        <5>1. 1 \in DOMAIN down /\ down[1].body = Damaged
          BY <1>3, <2>1, <4>2
        <5> QED
          BY <1>2, <2>1, <2>4, <3>1, <5>1
      <4> QED
        BY <2>2, <4>1, <4>2
    <3>3. (\E i \in DOMAIN down' : down'[i].body = Damaged) => faults' = <<"damage">>
      BY <1>2, <2>1, <2>4, <3>1
    <3>4. \A i, j \in DOMAIN down' : down'[i].body = Damaged /\ down'[j].body = Damaged => i = j
      BY <1>2, <1>3, <2>1, <2>4, <3>1
    <3> QED
      BY <3>2, <3>3, <3>4
  <2> QED
    BY <1>1, <2>3, <2>5
<1>8. CASE Timeout
  <2>1. UNCHANGED <<out, down>>
    BY <1>8 DEF Timeout
  <2>2. CASE UNCHANGED faults
    BY <1>4, <2>1, <2>2
  <2>3. CASE Fault("late")
    <3>1. Len(faults') <= 1 => faults = <<>>
      <4>1. "late" \in FaultKind
        BY DEF FaultKind
      <4> QED
        BY <2>3, <4>1, FaultAdded
    <3>2. Digests
      BY <1>2, <2>1
    <3>3. Few
      BY <2>1, <3>1, Clean
    <3> QED
      BY <1>1, <3>2, <3>3
  <2> QED
    BY <1>8, <2>2, <2>3 DEF Timeout
<1>9. CASE ChipStart
  <2>1. /\ "response" \in Kind /\ Intact \in Body /\ Intact # Damaged
        /\ Send("response", Intact, 1) /\ UNCHANGED <<out, faults>>
    BY <1>9 DEF ChipStart, Kind, Body, Intact, Damaged
  <2> QED
    BY <1>5, <2>1
<1>10. CASE ChipSend
  <2> DEFINE size == IF sent' < Blocks THEN BlockSize ELSE TailSize
  <2>1. /\ sent < Blocks /\ sent' = sent + 1 /\ Send("data", sent', size)
        /\ UNCHANGED <<out, faults>>
    BY <1>10 DEF ChipSend, MaySend
  <2>2. "data" \in Kind /\ sent' \in Body /\ sent' # Damaged /\ size \in Nat \ {0}
    <3>1. sent \in Nat /\ Blocks \in Nat
      BY Shapes, Bytes
    <3> QED
      BY <2>1, <3>1, OneMoreSent DEF Kind, Body, Damaged
  <2> HIDE DEF size
  <2> QED
    BY <1>5, <2>1, <2>2
<1>11. CASE ChipFinish
  <2>1. /\ "digest" \in Kind /\ Intact \in Body /\ Intact # Damaged /\ DigestSize \in Nat \ {0}
        /\ Send("digest", Intact, DigestSize) /\ UNCHANGED <<out, faults>>
    BY <1>11, Bytes DEF ChipFinish, Kind, Body, Intact, Damaged
  <2> QED
    BY <1>5, <2>1
<1>12. CASE Link
  <2>1. UNCHANGED out /\ (Len(faults') <= 1 => faults = <<>>)
    BY <1>12, LinkStep
  <2>2. \A i \in DOMAIN down' : \/ down'[i].body = Damaged /\ i = 1
                                \/ \E j \in DOMAIN down : down'[i] = down[j]
    <3>0. Len(down) \in Nat /\ DOMAIN down = 1..Len(down)
      BY Shapes
    <3>1. CASE UNCHANGED down
      BY <3>1
    <3>2. CASE down # <<>> /\ down' = Tail(down)
      BY <1>3, <3>2
    <3>3. CASE /\ DOMAIN down' = 1..Len(down) /\ down'[1].body = Damaged
               /\ \A i \in DOMAIN down' : i > 1 => down'[i] = down[i]
      BY <3>0, <3>3
    <3>4. CASE /\ DOMAIN down' = 1..(Len(down) - 1) /\ down'[1].body = Damaged
               /\ \A i \in DOMAIN down' : i > 1 => i + 1 \in DOMAIN down /\ down'[i] = down[i + 1]
      BY <3>0, <3>4
    <3> QED
      BY <1>12, <3>1, <3>2, <3>3, <3>4, LinkStep
  <2>3. Digests
    BY <1>2, <2>2
  <2>4. faults = <<>> => \/ \A i \in DOMAIN down' : down'[i].body # Damaged
                         \/ faults' = <<"damage">>
    <3>1. CASE UNCHANGED down
      BY <3>1, Clean
    <3>2. CASE down' = Tail(down) /\ faults' = Append(faults, "lose")
      <4>1. CASE down = <<>>
        <5>1. DOMAIN Tail(down) = {}
          BY <4>1
        <5> QED
          BY <3>2, <5>1
      <4>2. CASE down # <<>>
        BY <1>3, <3>2, <4>2, Clean
      <4> QED
        BY <4>1, <4>2
    <3>3. CASE faults' = Append(faults, "damage")
      BY <3>3
    <3> QED
      BY <1>12, <3>1, <3>2, <3>3, LinkStep
  <2>5. Few
    <3> SUFFICES ASSUME Len(faults') <= 1
                 PROVE  /\ (\E i \in DOMAIN out' : out'[i] = Damaged) =>
                               faults' = <<"damage">> /\ \A i \in DOMAIN down' : down'[i].body # Damaged
                        /\ (\E i \in DOMAIN down' : down'[i].body = Damaged) => faults' = <<"damage">>
                        /\ \A i, j \in DOMAIN down' :
                               down'[i].body = Damaged /\ down'[j].body = Damaged => i = j
      OBVIOUS
    <3>1. /\ \A i \in DOMAIN out' : out'[i] # Damaged
          /\ \A i \in DOMAIN down : down[i].body # Damaged
      BY <2>1, Clean
    <3>2. \A i \in DOMAIN down' : down'[i].body = Damaged => i = 1
      BY <2>2, <3>1
    <3>3. (\E i \in DOMAIN down' : down'[i].body = Damaged) => faults' = <<"damage">>
      BY <2>1, <2>4
    <3> QED
      BY <3>1, <3>2, <3>3
  <2> QED
    BY <1>1, <2>3, <2>5
<1>13. CASE UNCHANGED vars
  BY <1>4, <1>13 DEF vars
<1> QED
  BY <1>6, <1>7, <1>8, <1>9, <1>10, <1>11, <1>12, <1>13 DEF Next, Host, Chip

LEMMA KeptStep ==
    ASSUME TypeOK, Stages, Coming, Kept, [Next]_vars
    PROVE  Kept'
<1> USE DEF host, chip
<1> DEFINE None(f) == f \in {<<>>, <<"damage">>}
           Heard == phase' \in {"data", "digest"} =>
                        total' = IF up' = <<>> THEN acked' ELSE up'[Len(up')].total
           Answering == phase' = "digest" => streaming' \/ down' # <<>>
<1> SUFFICES ASSUME None(faults') PROVE Heard /\ Answering
  BY DEF Kept
<1>1. None(faults) =>
          /\ phase \in {"data", "digest"} =>
                 total = IF up = <<>> THEN acked ELSE up[Len(up)].total
          /\ phase = "digest" => streaming \/ down # <<>>
  BY DEF Kept
<1>2. None(faults) => ~Unplugged
  <2>1. \A f \in {<<>>, <<"damage">>} : \A i \in DOMAIN f : f[i] # "unplug"
    <3>1. DOMAIN <<>> = {} /\ DOMAIN <<"damage">> = {1} /\ <<"damage">>[1] = "damage"
      OBVIOUS
    <3> QED
      BY <3>1
  <2> QED
    BY <2>1 DEF Unplugged
<1> HIDE DEF None
<1>3. CASE Call \/ Skip
  BY <1>3 DEF Call, Skip
<1>4. CASE Response
  <2>1. /\ phase = "response" /\ phase' \in {"data", "error"} /\ UNCHANGED <<total, up, acked>>
        /\ total = 0 /\ acked <= total /\ \A i \in DOMAIN up : up[i].total <= total
    BY <1>4, Bytes DEF Response, Continue, Stages
  <2>2. acked = 0
    BY <2>1, Shapes
  <2>3. up # <<>> => up[Len(up)].total = 0
    <3>1. up # <<>> => Len(up) \in DOMAIN up /\ up[Len(up)].total \in Nat
      BY UpShape
    <3>2. up # <<>> => up[Len(up)].total <= 0
      BY <2>1, <3>1
    <3> QED
      BY <3>1, <3>2
  <2>4. Heard
    BY <2>1, <2>2, <2>3
  <2> QED
    BY <2>1, <2>4
<1>5. CASE Data
  <2>1. /\ phase = "data" /\ streaming /\ UNCHANGED <<streaming, acked, faults>>
        /\ total' = total + down[1].size /\ down[1].size \in Nat \ {0} /\ Head(down) = down[1]
    BY <1>5, IsData DEF Data, Stages
  <2>2. total' \in Nat
    BY <2>1, Shapes
  <2>3. [kind |-> "ack", total |-> total'] \in Ack /\ Write([kind |-> "ack", total |-> total'])
    BY <1>5, <2>1, <2>2 DEF Data, Ack, Acknowledged
  <2>4. /\ up' # <<>> /\ Len(up') = Len(up) + 1
        /\ up'[Len(up) + 1] = [kind |-> "ack", total |-> total']
    BY <1>2, <2>1, <2>3, Wrote
  <2> QED
    BY <2>1, <2>4
<1>6. CASE Digest
  BY <1>6 DEF Digest
<1>7. CASE Timeout
  BY <1>7 DEF Timeout, AfterSilence
<1>8. CASE ChipStart
  <2>1. phase' \notin {"data", "digest"}
    BY <1>8, UpShape DEF ChipStart, Stages
  <2> QED
    BY <2>1
<1>9. CASE ChipSend
  <2> DEFINE size == IF sent' < Blocks THEN BlockSize ELSE TailSize
  <2>1. /\ sent < Blocks /\ sent' = sent + 1 /\ Send("data", sent', size)
        /\ UNCHANGED <<phase, total, up, acked, streaming, faults>>
    BY <1>9 DEF ChipSend, MaySend
  <2>2. streaming
    BY <1>9 DEF ChipSend, MaySend
  <2> QED
    BY <1>1, <2>1, <2>2
<1>10. CASE ChipAcked
  <2>1. /\ up # <<>> /\ up' = Tail(up) /\ acked' = up[1].total
        /\ UNCHANGED <<phase, total, down, streaming, faults>>
    BY <1>10, UpShape DEF ChipAcked
  <2>2. /\ Len(up) \in Nat \ {0} /\ Len(up') = Len(up) - 1 /\ ((up' = <<>>) <=> (Len(up) = 1))
        /\ \A i \in 1..(Len(up) - 1) : up'[i] = up[i + 1]
    BY <2>1, Dropped, UpShape
  <2>3. CASE Len(up) = 1
    BY <1>1, <2>1, <2>2, <2>3
  <2>4. CASE Len(up) # 1
    <3>1. Len(up') \in 1..(Len(up) - 1) /\ Len(up') + 1 = Len(up)
      BY <2>2, <2>4
    <3>2. up'[Len(up')] = up[Len(up)]
      BY <2>2, <3>1
    <3> QED
      BY <1>1, <2>1, <2>2, <2>4, <3>2
  <2> QED
    BY <2>3, <2>4
<1>11. CASE ChipFinish
  <2>1. /\ UNCHANGED <<phase, total, up, acked, faults>> /\ Send("digest", Intact, DigestSize)
    BY <1>11 DEF ChipFinish
  <2>2. "digest" \in Kind /\ Intact \in Body /\ DigestSize \in Nat \ {0}
    BY Bytes DEF Kind, Body
  <2>3. down' # <<>>
    BY <1>2, <2>1, <2>2, WasSent
  <2> QED
    BY <1>1, <2>1, <2>3
<1>12. CASE Link
  <2>1. /\ UNCHANGED <<phase, total, acked, streaming>>
        /\ Len(faults') <= 1 => faults = <<>>
        /\ up' = up \/ faults' = Append(faults, "lose") \/ faults' = Append(faults, "unplug")
        /\ down' = down \/ (down' = Tail(down) /\ faults' = Append(faults, "lose")) \/ down' # <<>>
    BY <1>12, LinkStep
  <2>2. Len(faults') <= 1
    BY DEF None
  <2>3. faults = <<>> /\ None(faults)
    BY <2>1, <2>2 DEF None
  <2>4. faults' # Append(faults, "lose") /\ faults' # Append(faults, "unplug")
    <3>1. Append(<<>>, "lose")[1] = "lose" /\ Append(<<>>, "unplug")[1] = "unplug"
          /\ Len(Append(<<>>, "lose")) = 1 /\ Len(Append(<<>>, "unplug")) = 1
      OBVIOUS
    <3>2. Len(<<>>) = 0 /\ <<"damage">>[1] = "damage"
      OBVIOUS
    <3>3. faults' = <<>> \/ faults' = <<"damage">>
      BY DEF None
    <3>4. CASE faults' = <<>>
      BY <2>3, <3>1, <3>2, <3>4
    <3>5. CASE faults' = <<"damage">>
      BY <2>3, <3>1, <3>2, <3>5
    <3> QED
      BY <3>3, <3>4, <3>5
  <2>5. up' = up /\ (down' = down \/ down' # <<>>)
    BY <2>1, <2>4
  <2> QED
    BY <1>1, <2>1, <2>3, <2>5
<1>13. CASE UNCHANGED vars
  BY <1>1, <1>13 DEF vars
<1> QED
  BY <1>3, <1>4, <1>5, <1>6, <1>7, <1>8, <1>9, <1>10, <1>11, <1>12, <1>13 DEF Next, Host, Chip

\* What was received is the region, if all of it was and no frame was damaged.
LEMMA Whole ==
    ASSUME TypeOK, AllRead, phase = "digest", Len(faults) < TailSize,
           \A i \in DOMAIN out : out[i] # Damaged
    PROVE  out = Region
<1>1. out \in Seq(Body) /\ Len(out) = Blocks /\ \A i \in DOMAIN out : out[i] = i
  BY DEF TypeOK, AllRead
<1>2. DOMAIN out = 1..Blocks /\ out = [i \in DOMAIN out |-> out[i]]
  BY <1>1
<1> QED
  BY <1>1, <1>2 DEF Region

LEMMA CaughtStep ==
    ASSUME TypeOK, Stages, AllRead, OneDamage, Kept, OneFaultIsCaught, [Next]_vars
    PROVE  OneFaultIsCaught'
<1> USE DEF host, chip
<1> SUFFICES ASSUME phase' = "ok", Len(faults') <= 1, TailSize > 1
             PROVE  out' = Region
  BY DEF OneFaultIsCaught
<1>1. Len(faults) \in Nat /\ TailSize \in Nat /\ Length \in Nat \ {0} /\ total \in Nat /\ acked \in Nat
  BY Shapes, Bytes
\* Until the digest has come, nothing is returned.
<1>2. ASSUME phase = "ok", UNCHANGED out, Len(faults) <= 1
      PROVE  out' = Region
  BY <1>2 DEF OneFaultIsCaught
<1>3. ASSUME phase = "digest", Len(faults) <= 1, \A i \in DOMAIN out : out[i] # Damaged
      PROVE  out = Region
  BY <1>1, <1>3, Whole
<1>4. CASE Digest
  <2>1. /\ phase = "digest" /\ UNCHANGED <<out, faults>> /\ down # <<>>
        /\ compared' = (Head(down).size = DigestSize)
        /\ compared' => DigestMatches(Head(down))
    BY <1>4 DEF Digest, Read
  <2>2. CASE compared'
    BY <2>1, <2>2 DEF DigestMatches
  <2>3. CASE ~compared'
    <3>1. 1 \in DOMAIN down /\ Head(down) = down[1] /\ down[1].size # DigestSize
      BY <2>1, <2>3, Dropped DEF TypeOK
    <3>2. Len(faults) <= 1 /\ Len(faults) < TailSize
      BY <1>1, <2>1
    <3>3. down[1].kind = "digest"
      BY <2>1, <3>1, <3>2 DEF AllRead
    <3>4. down[1].body = Damaged
      BY <3>1, <3>3 DEF OneDamage
    <3>5. \A i \in DOMAIN out : out[i] # Damaged
      BY <3>1, <3>2, <3>4 DEF OneDamage
    <3> QED
      BY <1>3, <2>1, <3>2, <3>5
  <2> QED
    BY <2>2, <2>3
<1>5. CASE Timeout
  <2>1. phase = "digest" /\ UNCHANGED out /\ (IF Silent THEN UNCHANGED faults ELSE Fault("late"))
    BY <1>5 DEF Timeout, AfterSilence
  <2>2. CASE ~Silent
    <3>1. "late" \in FaultKind /\ Fault("late")
      BY <2>1, <2>2 DEF FaultKind
    <3>2. faults = <<>>
      BY <3>1, FaultAdded
    <3>3. Len(faults) <= 1
      BY <3>2
    <3> QED
      BY <1>3, <2>1, <3>2, <3>3, Clean
  <2>3. CASE Silent
    <3>1. Len(faults) <= 1
      BY <2>1, <2>3
    <3>2. \A i \in DOMAIN out : out[i] # Damaged
      <4> SUFFICES ASSUME \E i \in DOMAIN out : out[i] = Damaged
                   PROVE  FALSE
        OBVIOUS
      <4>1. faults = <<"damage">>
        BY <3>1 DEF OneDamage
      <4>2. up = <<>> /\ down = <<>> /\ ~MayFinish
        BY <2>3 DEF Silent
      <4>3. total = acked /\ streaming
        BY <2>1, <4>1, <4>2 DEF Kept
      <4>4. total >= Length
        BY <2>1 DEF Stages
      <4> QED
        BY <4>2, <4>3, <4>4 DEF MayFinish
    <3> QED
      BY <1>3, <2>1, <3>1, <3>2
  <2> QED
    BY <2>2, <2>3
<1>6. CASE Call \/ Skip \/ Response \/ Data
  BY <1>6 DEF Call, Skip, Response, Data, Continue
<1>7. CASE Chip
  BY <1>2, <1>7 DEF Chip, ChipStart, ChipSend, ChipAcked, ChipFinish
<1>8. CASE Link
  <2>1. UNCHANGED <<phase, out>> /\ Len(faults') = Len(faults) + 1
    BY <1>8, LinkStep
  <2>2. Len(faults) <= 1
    BY <1>1, <2>1
  <2> QED
    BY <1>2, <2>1, <2>2
<1>9. CASE UNCHANGED vars
  BY <1>2, <1>9 DEF vars
<1> QED
  BY <1>4, <1>5, <1>6, <1>7, <1>8, <1>9 DEF Next, Host

-----------------------------------------------------------------------------
(* Theorems. *)

LEMMA Inductive == Spec => []IInv
<1>1. Init => IInv
  <2> SUFFICES ASSUME Init PROVE IInv
    OBVIOUS
  <2>1. TypeOK /\ Coming
    BY TypeInit, ComingInit
  <2>2. Stages
    BY DEF Init, Stages
  <2>3. AllRead /\ OneFaultIsCaught
    BY DEF Init, AllRead, OneFaultIsCaught
  <2>4. OneDamage
    BY DEF Init, OneDamage
  <2>5. Kept
    BY DEF Init, Kept
  <2> QED
    BY <2>1, <2>2, <2>3, <2>4, <2>5 DEF IInv
<1>2. IInv /\ [Next]_vars => IInv'
  <2> SUFFICES ASSUME IInv, [Next]_vars PROVE IInv'
    OBVIOUS
  <2>1. TypeOK /\ Stages /\ Coming /\ AllRead /\ OneDamage /\ Kept /\ OneFaultIsCaught
    BY DEF IInv
  <2>2. TypeOK' /\ Stages' /\ Coming'
    BY <2>1, TypeStep, StagesStep, ComingStep
  <2>3. AllRead'
    BY <2>1, <2>2, AllReadStep
  <2>4. OneDamage' /\ Kept'
    BY <2>1, OneDamageStep, KeptStep
  <2>5. OneFaultIsCaught'
    BY <2>1, CaughtStep
  <2> QED
    BY <2>2, <2>3, <2>4, <2>5 DEF IInv
<1> QED
  BY <1>1, <1>2, PTL DEF Spec

\* ReadFlash counts bytes of frames of any length, and counts no more than were
\* sent and a byte for each fault.
THEOREM TypeCorrect == Spec => []TypeOK
<1>1. IInv => TypeOK
  BY DEF IInv
<1> QED
  BY <1>1, Inductive, PTL

\* ReadFlash tells data and digest, which nothing marks, by the count of bytes
\* alone.  It takes neither for the other as long as there are fewer faults than
\* bytes in the last block.
THEOREM InStep == Spec => []FramesInStep
<1>1. IInv => FramesInStep
  <2> SUFFICES ASSUME IInv, phase \in {"data", "digest"}, Len(faults) < TailSize,
                      NEW i \in 1..Len(down)
               PROVE  down[i].kind = phase
    BY DEF FramesInStep
  <2>1. TypeOK /\ Stages /\ Coming /\ AllRead
    BY DEF IInv
  <2>2. i \in DOMAIN down /\ i \in Nat \ {0}
    BY <2>1, Shapes
  <2>3. CASE phase = "data"
    <3>1. Off = 0
      BY <2>1, <2>3 DEF Off, Stages
    <3>2. InOrder
      BY <2>1, <2>3 DEF Coming
    <3> QED
      BY <2>2, <2>3, <3>1, <3>2 DEF InOrder
  <2>4. CASE phase = "digest"
    BY <2>1, <2>2, <2>4 DEF AllRead
  <2> QED
    BY <2>3, <2>4
<1> QED
  BY <1>1, Inductive, PTL

\* ReadFlash returns no wrong data without an error after a single fault of the
\* link, be it one that costs a frame, its length or its content, although it
\* passes over a digest that does not come or has the wrong length.
THEOREM FaultCaught == Spec => []OneFaultIsCaught
<1>1. IInv => OneFaultIsCaught
  BY DEF IInv
<1> QED
  BY <1>1, Inductive, PTL

=============================================================================
