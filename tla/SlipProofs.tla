----------------------------- MODULE SlipProofs -----------------------------
(***************************************************************************)
(* Theorems about Slip, for all frames and any number of faults: the       *)
(* decoder falls back into step, and implements FrameChannel.              *)
(***************************************************************************)
EXTENDS Slip, TLAPS

\* The two states in which readFrame understands the frame that comes next.
Boundary == rx \in {"idle", "seek"} \/ (rx = "body" /\ out = <<>>)

\* The first n bytes of a frame.
Prefix(p, n) == [i \in 1..n |-> p[i]]

\* In step with the sender, in the middle of a frame.
InStep ==
    /\ out = Prefix(Payloads[frame], pos - 1)
    /\ rx = IF half THEN "esc" ELSE "body"

\* A frame to which nothing happens is decoded, or passed over to the end; it is
\* decoded when the receiver was at a boundary, as it is after any such frame.
SyncInv ==
    /\ half => Sending /\ ~Delimiter /\ Current \in Escaped
    /\ rx \in {"idle", "seek"} => out = <<>>
    /\ hit \subseteq 1..frame
    /\ ~Sending => pos = 0
    /\ pos = 0 /\ frame - 1 \notin hit /\ frame \notin hit => Boundary
    /\ pos > 0 /\ frame \notin hit => InStep \/ rx \in {"idle", "seek"}
    /\ pos > 0 /\ frame - 1 \notin hit /\ frame \notin hit => InStep

IInv == TypeOK /\ SyncInv

LEMMA SeqFacts ==
    ASSUME NEW S
    PROVE  /\ <<>> \in Seq(S)
           /\ \A s \in Seq(S), x \in S : Append(s, x) \in Seq(S)
  OBVIOUS

LEMMA PayloadType ==
    ASSUME Sending, TypeOK
    PROVE  /\ Payloads[frame] \in Seq(Byte)
           /\ Len(Payloads[frame]) \in Nat \ {0}
           /\ frame \in Nat \ {0} /\ frame <= Len(Payloads) /\ Len(Payloads) \in Nat
           /\ pos \in 0..(Len(Payloads[frame]) + 1)
           /\ ~Delimiter => pos \in 1..Len(Payloads[frame]) /\ Current \in Byte
<1>1. Payloads[frame] \in Seq(Byte) \ {<<>>}
  BY SlipAssumption DEF Sending, Frames
<1>2. Len(Payloads[frame]) \in Nat \ {0}
  BY <1>1
<1>3. pos \in 0..(Len(Payloads[frame]) + 1)
  BY <1>2 DEF TypeOK, Sending
<1>4. ~Delimiter => pos \in 1..Len(Payloads[frame])
  BY <1>2, <1>3 DEF Delimiter
<1>5. frame \in Nat \ {0} /\ frame <= Len(Payloads) /\ Len(Payloads) \in Nat
  BY SlipAssumption DEF Sending, Frames
<1> QED
  BY <1>1, <1>2, <1>3, <1>4, <1>5 DEF Current

LEMMA PrefixStep ==
    ASSUME NEW S, NEW p \in Seq(S), NEW n \in 1..Len(p)
    PROVE  Append(Prefix(p, n - 1), p[n]) = Prefix(p, n)
<1>1. Prefix(p, n - 1) \in Seq(S) /\ Len(Prefix(p, n - 1)) = n - 1
  BY DEF Prefix
<1>2. Append(Prefix(p, n - 1), p[n]) \in Seq(S)
  BY <1>1
<1>3. Len(Append(Prefix(p, n - 1), p[n])) = n
  BY <1>1
<1>4. ASSUME NEW i \in 1..n PROVE Append(Prefix(p, n - 1), p[n])[i] = p[i]
  BY <1>1, <1>4 DEF Prefix
<1> QED
  BY <1>2, <1>3, <1>4 DEF Prefix

LEMMA PrefixWhole ==
    ASSUME NEW S, NEW p \in Seq(S)
    PROVE  Prefix(p, Len(p)) = p /\ Prefix(p, 0) = <<>>
  BY DEF Prefix

\* Where the sender is after a byte.
LEMMA AdvanceType ==
    ASSUME TypeOK, Sending, Advance
    PROVE  /\ frame' \in 1..(Len(Payloads) + 1)
           /\ pos' \in Nat /\ (frame' \in Frames => pos' <= Len(Payloads[frame']) + 1)
           /\ half' \in BOOLEAN
           /\ frame' \in {frame, frame + 1}
           /\ frame' = frame + 1 <=> pos = Len(Payloads[frame]) + 1
           /\ frame' = frame + 1 => pos' = 0
           /\ frame' = frame => pos' > 0
<1>1. half' = (~Delimiter /\ Current \in Escaped /\ ~half)
  BY DEF Advance
<1>2. CASE pos = Len(Payloads[frame]) + 1
  <2>1. half' = FALSE /\ frame' = frame + 1 /\ pos' = 0
    BY <1>1, <1>2 DEF Advance, Delimiter
  <2>2. frame' \in Frames => Len(Payloads[frame']) \in Nat
    BY <2>1, SlipAssumption DEF Frames
  <2>3. frame' \in Frames => pos' <= Len(Payloads[frame']) + 1
    BY <2>1, <2>2
  <2>4. frame \in Nat \ {0} /\ frame <= Len(Payloads) /\ Len(Payloads) \in Nat
    BY PayloadType
  <2>5. frame' # frame /\ frame' \in 1..(Len(Payloads) + 1) /\ pos' \in Nat
    BY <2>1, <2>4
  <2>6. half' \in BOOLEAN
    BY <2>1
  <2> QED
    BY <1>2, <2>1, <2>3, <2>5, <2>6
<1>3. CASE pos # Len(Payloads[frame]) + 1 /\ half'
  <2>1. frame' = frame /\ pos' = pos /\ pos # 0
    BY <1>1, <1>3 DEF Advance, Delimiter
  <2> QED
    BY <1>1, <1>3, <2>1, PayloadType DEF TypeOK
<1>4. CASE pos # Len(Payloads[frame]) + 1 /\ ~half'
  <2>1. frame' = frame /\ pos' = pos + 1
    BY <1>4 DEF Advance
  <2> QED
    BY <1>1, <1>4, <2>1, PayloadType DEF TypeOK
<1> QED
  BY <1>2, <1>3, <1>4

\* What a byte does to the receiver, in general.
LEMMA ReceiveType ==
    ASSUME TypeOK, NEW b \in Byte, Receive(b)
    PROVE  /\ rx' \in {"idle", "seek", "body", "esc"}
           /\ out' \in Seq(Byte)
           /\ got' \in Seq([data : Seq(Byte) \ {<<>>}, at : Nat])
           /\ \/ UNCHANGED got
              \/ got' = Append(got, [data |-> out, at |-> frame])
<1> DEFINE Got == [data : Seq(Byte) \ {<<>>}, at : Nat]
<1>0. out \in Seq(Byte) /\ got \in Seq(Got) /\ frame \in Nat
  BY SlipAssumption DEF TypeOK
<1>1. CASE Seek(b)
  BY <1>1 DEF Seek, TypeOK
<1>2. CASE Body(b)
  <2>1. CASE b = "end" /\ ~Doubled
    <3>1. rx' = "idle" /\ out' = <<>> /\ got' = Append(got, [data |-> out, at |-> frame])
      BY <1>2, <2>1 DEF Body, Doubled
    <3>2. [data |-> out, at |-> frame] \in Got
      BY <1>0, <2>1 DEF Doubled
    <3>3. got' \in Seq(Got) /\ out' \in Seq(Byte)
      BY <1>0, <3>1, <3>2, SeqFacts
    <3> QED
      BY <3>1, <3>3
  <2>2. CASE ~(b = "end" /\ ~Doubled)
    <3>1. rx' \in {"body", "esc"} /\ out' \in {out, Append(out, b)} /\ UNCHANGED got
      BY <1>2, <2>2 DEF Body, Doubled, receiver
    <3>2. out' \in Seq(Byte)
      BY <1>0, <3>1, SeqFacts
    <3> QED
      BY <1>0, <3>1, <3>2
  <2> QED
    BY <2>1, <2>2
<1>3. CASE Escape(b)
  <2>1. rx' \in {"body", "idle"} /\ UNCHANGED got
        /\ out' \in {<<>>, Append(out, "end"), Append(out, "esc")}
    BY <1>3 DEF Escape
  <2>2. out' \in Seq(Byte)
    BY <1>0, <2>1, SeqFacts DEF Byte
  <2> QED
    BY <1>0, <2>1, <2>2
<1> QED
  BY <1>1, <1>2, <1>3 DEF Receive

LEMMA TypeStep == ASSUME TypeOK, [Next]_vars PROVE TypeOK'
<1>1. CASE Call
  BY <1>1 DEF Call, TypeOK, sender
<1>2. ASSUME Hit PROVE hit' \subseteq Nat /\ faults' \in 0..MaxFaults
  BY <1>2, SlipAssumption DEF Hit, TypeOK
<1>3. CASE Timeout
  BY <1>2, <1>3, SeqFacts DEF Timeout, TypeOK, sender
<1>4. CASE Transfer
  <2>1. Wire \in Byte
    BY <1>4, PayloadType DEF Transfer, Wire, Code, Byte
  <2> QED
    BY <1>4, <2>1, ReceiveType, AdvanceType DEF Transfer, TypeOK
<1>5. CASE Drop
  BY <1>2, <1>5, AdvanceType DEF Drop, TypeOK, receiver
<1>6. CASE Alter
  BY <1>2, <1>6, ReceiveType, AdvanceType DEF Alter, TypeOK
<1>7. CASE Insert
  BY <1>2, <1>7, ReceiveType DEF Insert, TypeOK, sender
<1>8. CASE UNCHANGED vars
  BY <1>8 DEF vars, sender, receiver, TypeOK
<1> QED
  BY <1>1, <1>3, <1>4, <1>5, <1>6, <1>7, <1>8 DEF Next

LEMMA TypeInit == ASSUME Init PROVE TypeOK
<1>1. Len(Payloads) \in Nat /\ (frame \in Frames => Len(Payloads[frame]) \in Nat)
  BY SlipAssumption DEF Frames
<1>2. frame \in 1..(Len(Payloads) + 1) /\ (frame \in Frames => pos <= Len(Payloads[frame]) + 1)
  BY <1>1 DEF Init
<1>3. half \in BOOLEAN /\ rx \in {"idle", "seek", "body", "esc"}
  BY DEF Init
<1>4. pos \in Nat /\ faults \in 0..MaxFaults /\ hit \subseteq Nat
  BY SlipAssumption DEF Init
<1>5. out \in Seq(Byte) /\ got \in Seq([data : Seq(Byte) \ {<<>>}, at : Nat])
  BY SeqFacts DEF Init
<1> QED
  BY <1>2, <1>3, <1>4, <1>5 DEF TypeOK

\* Type correctness of sender and decoder; readFrame returns no empty frame.
THEOREM TypeCorrect == Spec => []TypeOK
<1>1. Init => TypeOK
  BY TypeInit
<1> QED
  BY <1>1, TypeStep, PTL DEF Spec

-----------------------------------------------------------------------------
(* Staying in step. *)

\* The opening delimiter of a frame, met by a receiver at a boundary.
LEMMA Opening ==
    ASSUME IInv, Transfer, pos = 0
    PROVE  /\ frame' = frame /\ pos' = 1 /\ half' = FALSE
           /\ InStep' \/ (rx' = "idle" /\ out' = <<>>)
           /\ Boundary => InStep' /\ UNCHANGED got
<1>1. Wire = "end"
  BY DEF Wire, Delimiter
<1>2. frame' = frame /\ pos' = 1 /\ half' = FALSE
  <2>1. half' = FALSE
    BY DEF Transfer, Advance, Delimiter
  <2>2. pos # Len(Payloads[frame]) + 1
    BY PayloadType DEF IInv, Transfer
  <2>3. frame' = frame /\ pos' = 0 + 1
    BY <2>1, <2>2 DEF Transfer, Advance
  <2> QED
    BY <2>1, <2>3
<1>3. Prefix(Payloads[frame], 0) = <<>>
  BY DEF Prefix
<1>4. rx' = "body" /\ out' = <<>> => InStep'
  BY <1>2, <1>3 DEF InStep
<1>5. CASE Seek("end")
  BY <1>2, <1>4, <1>5 DEF Seek, IInv, SyncInv
<1>6. CASE Body("end")
  BY <1>2, <1>4, <1>6 DEF Body, Boundary, Doubled, receiver
<1>7. CASE Escape("end")
  BY <1>2, <1>7 DEF Escape, Boundary
<1> QED
  BY <1>1, <1>2, <1>5, <1>6, <1>7 DEF Transfer, Receive

\* A byte of the payload: it is decoded or, before the start of a frame, skipped.
LEMMA Inner ==
    ASSUME IInv, Transfer, ~Delimiter
    PROVE  /\ frame' = frame /\ pos' > 0
           /\ half' => Sending' /\ ~Delimiter' /\ Current' \in Escaped
           /\ rx \in {"idle", "seek"} => rx' = "seek" /\ UNCHANGED <<out, got>>
           /\ InStep => InStep' /\ UNCHANGED got
<1> DEFINE p == Payloads[frame]
<1>1. p \in Seq(Byte) /\ pos \in 1..Len(p) /\ Len(p) \in Nat /\ Current = p[pos] /\ Current \in Byte
  BY PayloadType DEF IInv, Transfer, Current
<1>2. /\ frame' = frame
      /\ half' = (Current \in Escaped /\ ~half)
      /\ pos' = IF half' THEN pos ELSE pos + 1
  BY <1>1 DEF Transfer, Advance, Delimiter
<1>3. half' => Sending' /\ ~Delimiter' /\ Current' \in Escaped
  BY <1>1, <1>2 DEF Transfer, Sending, Delimiter, Current
<1>4. Wire = IF half THEN Code(Current) ELSE IF Current \in Escaped THEN "esc" ELSE Current
  BY DEF Wire
<1>5. Wire # "end"
  BY <1>4 DEF Code, Escaped
<1>6. rx \in {"idle", "seek"} => rx' = "seek" /\ UNCHANGED <<out, got>>
  BY <1>5 DEF Transfer, Receive, Seek, Body, Escape
<1>7. ASSUME InStep PROVE InStep' /\ UNCHANGED got
  <2>1. out = Prefix(p, pos - 1)
    BY <1>7 DEF InStep
  <2>2. Append(Prefix(p, pos - 1), p[pos]) = Prefix(p, pos)
    BY <1>1, PrefixStep
  <2>3. CASE half
    <3>1. Escape(Code(Current)) /\ Current \in Escaped
      BY <1>4, <1>7, <2>3 DEF InStep, Transfer, Receive, Seek, Body, IInv, SyncInv
    <3>2. rx' = "body" /\ out' = Append(out, Current) /\ UNCHANGED got
      BY <3>1 DEF Escape, Code, Escaped
    <3>3. ~half'
      BY <1>2, <2>3
    <3>4. pos' = pos + 1
      BY <1>2, <3>3
    <3> QED
      BY <1>1, <1>2, <2>1, <2>2, <3>2, <3>3, <3>4 DEF InStep
  <2>4. CASE ~half /\ Current \in Escaped
    <3>1. Body("esc")
      BY <1>4, <1>7, <2>4 DEF InStep, Transfer, Receive, Seek, Escape
    <3>2. rx' = "esc" /\ UNCHANGED <<out, got>>
      BY <3>1 DEF Body
    <3>3. half' /\ pos' = pos
      BY <1>2, <2>4
    <3> QED
      BY <1>2, <2>1, <3>2, <3>3 DEF InStep
  <2>5. CASE ~half /\ Current \notin Escaped
    <3>1. Body(Current) /\ Current \notin {"end", "esc"}
      BY <1>4, <1>7, <2>5 DEF InStep, Transfer, Receive, Seek, Escape, Escaped
    <3>2. out' = Append(out, Current) /\ UNCHANGED <<rx, got>>
      BY <3>1 DEF Body
    <3>3. ~half' /\ rx = "body"
      BY <1>2, <1>7, <2>5 DEF InStep
    <3>4. pos' = pos + 1
      BY <1>2, <3>3
    <3> QED
      BY <1>1, <1>2, <2>1, <2>2, <3>2, <3>3, <3>4 DEF InStep
  <2> QED
    BY <2>3, <2>4, <2>5
<1>8. pos' > 0
  BY <1>1, <1>2
<1> QED
  BY <1>2, <1>3, <1>6, <1>7, <1>8

\* The closing delimiter delivers the frame or, when the frame was passed over,
\* is taken for the start of the next one.
LEMMA Closing ==
    ASSUME IInv, Transfer, Delimiter, pos # 0
    PROVE  /\ frame' = frame + 1 /\ pos' = 0 /\ half' = FALSE
           /\ rx \in {"idle", "seek"} => rx' = "body" /\ out' = <<>> /\ UNCHANGED got
           /\ InStep => /\ rx' = "idle" /\ out' = <<>>
                        /\ got' = Append(got, [data |-> Payloads[frame], at |-> frame])
<1> DEFINE p == Payloads[frame]
<1>1. p \in Seq(Byte) /\ Len(p) \in Nat \ {0} /\ pos = Len(p) + 1
  BY PayloadType DEF IInv, Transfer, Delimiter
<1>2. frame' = frame + 1 /\ pos' = 0 /\ half' = FALSE
  BY <1>1 DEF Transfer, Advance, Delimiter
<1>3. Wire = "end"
  BY DEF Wire
<1>4. rx \in {"idle", "seek"} => rx' = "body" /\ out' = <<>> /\ UNCHANGED got
  BY <1>3 DEF Transfer, Receive, Seek, Body, Escape, IInv, SyncInv
<1>5. ASSUME InStep
      PROVE  rx' = "idle" /\ out' = <<>> /\ got' = Append(got, [data |-> p, at |-> frame])
  <2>1. ~half
    BY DEF IInv, SyncInv
  <2>2. out = p /\ p # <<>>
    <3>1. pos - 1 = Len(p) /\ p # <<>>
      BY <1>1
    <3> QED
      BY <1>1, <1>5, <3>1, PrefixWhole DEF InStep
  <2>3. Body("end")
    BY <1>3, <1>5, <2>1 DEF InStep, Transfer, Receive, Seek, Escape
  <2> QED
    BY <2>2, <2>3 DEF Body, Doubled, receiver
<1> QED
  BY <1>2, <1>4, <1>5

LEMMA HalfStep ==
    ASSUME TypeOK, Sending, Advance
    PROVE  half' => Sending' /\ ~Delimiter' /\ Current' \in Escaped
  BY DEF Advance, Sending, Delimiter, Current

LEMMA ReceiveEmpties ==
    ASSUME SyncInv, NEW b, Receive(b)
    PROVE  rx' \in {"idle", "seek"} => out' = <<>>
  BY DEF SyncInv, Receive, Seek, Body, Escape, receiver

\* A step that damages the frame being sent.
LEMMA FaultStep ==
    ASSUME IInv, TypeOK', Hit,
           half' => Sending' /\ ~Delimiter' /\ Current' \in Escaped,
           rx' \in {"idle", "seek"} => out' = <<>>,
           \/ frame' = frame /\ (~Sending => pos' = 0)
           \/ frame' = frame + 1 /\ pos' = 0
    PROVE  SyncInv'
<1>1. frame \in Nat \ {0} /\ hit \subseteq 1..frame /\ hit' = hit \cup {frame}
  BY SlipAssumption DEF IInv, TypeOK, SyncInv, Hit
<1>2. CASE frame' = frame /\ (~Sending => pos' = 0)
  <2>1. frame' \in hit' /\ hit' \subseteq 1..frame'
    BY <1>1, <1>2
  <2>2. ~Sending' => pos' = 0
    BY <1>2 DEF Sending
  <2> QED
    BY <2>1, <2>2 DEF SyncInv
<1>3. CASE frame' = frame + 1 /\ pos' = 0
  <2>1. frame' - 1 \in hit' /\ hit' \subseteq 1..frame' /\ ~(pos' > 0)
    BY <1>1, <1>3
  <2> QED
    BY <1>3, <2>1 DEF SyncInv
<1> QED
  BY <1>2, <1>3

LEMMA SyncStep == ASSUME IInv, [Next]_vars PROVE SyncInv'
<1>0. TypeOK /\ TypeOK' /\ SyncInv
  BY TypeStep DEF IInv
<1>1. CASE Call
  BY <1>0, <1>1 DEF Call, SyncInv, InStep, Boundary, Sending, Delimiter, Current, sender
<1>2. CASE Timeout /\ pos = 0
  <2>1. /\ frame' = frame /\ pos' = pos /\ pos' = 0 /\ half' = half /\ hit' = hit
        /\ rx' = "idle" /\ out' = <<>>
    BY <1>2 DEF Timeout, sender
  <2>2. ~(pos' > 0) /\ ~half
    BY <1>0, <1>2, <2>1 DEF SyncInv, Delimiter
  <2> QED
    BY <1>0, <2>1, <2>2 DEF SyncInv, Boundary
<1>3. CASE Timeout /\ pos # 0
  <2>1. Hit /\ UNCHANGED <<frame, pos, half>> /\ out' = <<>>
    BY <1>3 DEF Timeout, sender
  <2>2. half' => Sending' /\ ~Delimiter' /\ Current' \in Escaped
    BY <1>0, <2>1 DEF SyncInv, Sending, Delimiter, Current
  <2>3. frame' = frame /\ (~Sending => pos' = 0)
    BY <1>0, <2>1 DEF SyncInv
  <2> QED
    BY <1>0, <2>1, <2>2, <2>3, FaultStep
<1>4. CASE Insert
  <2>1. Hit /\ UNCHANGED <<frame, pos, half>>
    BY <1>4 DEF Insert, sender
  <2>2. PICK b \in Byte : Receive(b)
    BY <1>4 DEF Insert
  <2>3. half' => Sending' /\ ~Delimiter' /\ Current' \in Escaped
    BY <1>0, <2>1 DEF SyncInv, Sending, Delimiter, Current
  <2>4. frame' = frame /\ (~Sending => pos' = 0)
    BY <1>0, <2>1 DEF SyncInv
  <2>5. rx' \in {"idle", "seek"} => out' = <<>>
    BY <1>0, <2>2, ReceiveEmpties
  <2> QED
    BY <1>0, <2>1, <2>3, <2>4, <2>5, FaultStep
<1>5. CASE Drop \/ Alter
  <2>1. Hit /\ Sending /\ Advance
    BY <1>5 DEF Drop, Alter
  <2>2. rx' \in {"idle", "seek"} => out' = <<>>
    <3>1. CASE Drop
      BY <1>0, <3>1 DEF Drop, SyncInv, receiver
    <3>2. CASE Alter
      <4>1. PICK b \in Byte : Receive(b)
        BY <3>2 DEF Alter
      <4> QED
        BY <1>0, <4>1, ReceiveEmpties
    <3> QED
      BY <1>5, <3>1, <3>2
  <2>3. frame' = frame \/ (frame' = frame + 1 /\ pos' = 0)
    BY <1>0, <2>1, AdvanceType
  <2>4. half' => Sending' /\ ~Delimiter' /\ Current' \in Escaped
    BY <1>0, <2>1, HalfStep
  <2> QED
    BY <1>0, <2>1, <2>2, <2>3, <2>4, FaultStep
<1>6. CASE Transfer
  <2>1. Sending /\ hit' = hit /\ frame \in Nat \ {0}
    BY <1>0, <1>6, PayloadType DEF Transfer
  <2>2. rx' \in {"idle", "seek"} => out' = <<>>
    <3>1. Receive(Wire)
      BY <1>6 DEF Transfer
    <3> QED
      BY <1>0, <3>1, ReceiveEmpties
  <2>3. CASE pos = 0
    <3>1. frame' = frame /\ pos' = 1 /\ half' = FALSE
          /\ (InStep' \/ rx' = "idle") /\ (Boundary => InStep')
      BY <1>6, <2>3, Opening
    <3>2. ~(pos' = 0) /\ Sending'
      BY <2>1, <3>1 DEF Sending
    <3> QED
      BY <1>0, <2>1, <2>2, <2>3, <3>1, <3>2 DEF SyncInv
  <2>4. CASE ~Delimiter
    <3>1. /\ frame' = frame /\ pos' > 0
          /\ half' => Sending' /\ ~Delimiter' /\ Current' \in Escaped
          /\ rx \in {"idle", "seek"} => rx' = "seek"
          /\ InStep => InStep'
      BY <1>6, <2>4, Inner
    <3>2. pos > 0 /\ ~(pos' = 0) /\ Sending'
      BY <1>0, <2>1, <2>4, <3>1, PayloadType DEF Sending, Delimiter
    <3> QED
      BY <1>0, <2>1, <2>2, <3>1, <3>2 DEF SyncInv
  <2>5. CASE Delimiter /\ pos # 0
    <3>1. /\ frame' = frame + 1 /\ pos' = 0 /\ half' = FALSE
          /\ rx \in {"idle", "seek"} => rx' = "body" /\ out' = <<>>
          /\ InStep => rx' = "idle"
      BY <1>6, <2>5, Closing
    <3>2. pos > 0 /\ frame' - 1 = frame /\ hit' \subseteq 1..frame'
      BY <1>0, <2>1, <2>5, <3>1, PayloadType DEF SyncInv
    <3>3. frame \notin hit => Boundary'
      BY <1>0, <3>1, <3>2 DEF SyncInv, Boundary
    <3> QED
      BY <1>0, <2>1, <2>2, <3>1, <3>2, <3>3 DEF SyncInv
  <2> QED
    BY <2>3, <2>4, <2>5
<1>7. CASE UNCHANGED vars
  BY <1>0, <1>7 DEF vars, sender, receiver, SyncInv, InStep, Boundary, Sending, Delimiter, Current
<1> QED
  BY <1>1, <1>2, <1>3, <1>4, <1>5, <1>6, <1>7 DEF Next

LEMMA Invariant == Spec => []IInv
<1>1. Init => IInv
  <2> SUFFICES ASSUME Init PROVE SyncInv /\ TypeOK
    BY DEF IInv
  <2>1. TypeOK
    BY TypeInit
  <2>2. SyncInv
    BY DEF Init, SyncInv, Boundary
  <2> QED
    BY <2>1, <2>2
<1>2. IInv /\ [Next]_vars => IInv'
  BY TypeStep, SyncStep DEF IInv
<1> QED
  BY <1>1, <1>2, PTL DEF Spec

\* A frame is delivered at its closing delimiter if neither it nor the one
\* before was damaged.
LEMMA Delivers ==
    ASSUME IInv, Transfer, Clean(frame)
    PROVE  \/ UNCHANGED <<frame, got>>
           \/ /\ frame' = frame + 1
              /\ got' = Append(got, [data |-> Payloads[frame], at |-> frame])
<1>1. CASE pos = 0
  BY <1>1, Opening DEF IInv, SyncInv, Clean
<1>2. CASE ~Delimiter
  <2>1. InStep
    BY <1>2, PayloadType DEF IInv, SyncInv, Clean, Transfer, Delimiter
  <2> QED
    BY <1>2, <2>1, Inner
<1>3. CASE Delimiter /\ pos # 0
  <2>1. InStep
    BY <1>3, PayloadType DEF IInv, SyncInv, Clean, Transfer
  <2> QED
    BY <1>3, <2>1, Closing
<1> QED
  BY <1>1, <1>2, <1>3

\* What any step does to the frames delivered.
LEMMA GotStep ==
    ASSUME IInv, [Next]_vars
    PROVE  /\ got' = got \/ \E e : got' = Append(got, e)
           /\ frame' = frame \/ (frame' = frame + 1 /\ Sending)
           /\ hit' \in {hit, hit \cup {frame}}
           /\ \/ frame \in hit'
              \/ UNCHANGED <<frame, got, hit>>
              \/ Transfer /\ UNCHANGED hit
<1>0. TypeOK
  BY DEF IInv
<1>1. CASE Call \/ Timeout \/ UNCHANGED vars
  BY <1>1 DEF Call, Timeout, Hit, vars, sender, receiver
<1>2. ASSUME NEW b \in Byte, Receive(b) PROVE got' = got \/ \E e : got' = Append(got, e)
  BY <1>0, <1>2, ReceiveType
<1>3. ASSUME Sending, Advance PROVE frame' = frame \/ frame' = frame + 1
  BY <1>0, <1>3, AdvanceType
<1>4. CASE Transfer
  <2>1. Wire \in Byte
    BY <1>0, <1>4, PayloadType DEF Transfer, Wire, Code, Byte
  <2> QED
    BY <1>2, <1>3, <1>4, <2>1 DEF Transfer
<1>5. CASE Drop
  BY <1>3, <1>5 DEF Drop, Hit, receiver
<1>6. CASE Alter
  BY <1>2, <1>3, <1>6 DEF Alter, Hit
<1>7. CASE Insert
  BY <1>2, <1>7 DEF Insert, Hit, sender
<1> QED
  BY <1>1, <1>4, <1>5, <1>6, <1>7 DEF Next

LEMMA ResyncStep == ASSUME IInv, Resync, [Next]_vars PROVE Resync'
<1>1. /\ got' = got \/ \E e : got' = Append(got, e)
      /\ frame' = frame \/ (frame' = frame + 1 /\ Sending)
      /\ hit' \in {hit, hit \cup {frame}}
      /\ \/ frame \in hit'
         \/ UNCHANGED <<frame, got, hit>>
         \/ Transfer /\ UNCHANGED hit
  BY GotStep
<1>2. got \in Seq([data : Seq(Byte) \ {<<>>}, at : Nat]) /\ frame \in Nat
  BY SlipAssumption DEF IInv, TypeOK
<1>3. SUFFICES ASSUME NEW f \in Frames, f < frame', Clean(f)'
      PROVE  \E i \in DOMAIN got' : got'[i] = [data |-> Payloads[f], at |-> f]
  BY DEF Resync, Frames
<1>4. f \in Nat
  BY SlipAssumption DEF Frames
<1>5. Clean(f)
  BY <1>1, <1>3 DEF Clean
<1>6. CASE f < frame
  <2>1. PICK i \in DOMAIN got : got[i] = [data |-> Payloads[f], at |-> f]
    BY <1>5, <1>6 DEF Resync
  <2>2. i \in DOMAIN got' /\ got'[i] = got[i]
    <3>1. CASE got' = got
      BY <3>1
    <3>2. ASSUME NEW e, got' = Append(got, e) PROVE i \in DOMAIN got' /\ got'[i] = got[i]
      BY <1>2, <3>2
    <3> QED
      BY <1>1, <3>1, <3>2
  <2> QED
    BY <2>1, <2>2
<1>7. CASE ~(f < frame)
  <2>1. f = frame /\ frame' = frame + 1
    BY <1>1, <1>2, <1>3, <1>4, <1>7
  <2>2. Transfer
    BY <1>1, <1>2, <1>3, <2>1 DEF Clean
  <2>3. got' = Append(got, [data |-> Payloads[f], at |-> f])
    BY <1>2, <1>5, <2>1, <2>2, Delivers
  <2>4. Len(got') \in DOMAIN got' /\ got'[Len(got')] = [data |-> Payloads[f], at |-> f]
    BY <1>2, <2>3
  <2> QED
    BY <2>4
<1> QED
  BY <1>6, <1>7

\* Whatever happened to the line, a frame is delivered as it was sent if nothing
\* happened to it and to the one before (readFrame).
THEOREM ResyncCorrect == Spec => []Resync
<1>1. Init => Resync
  BY SlipAssumption DEF Init, Resync, Frames
<1>2. IInv /\ Resync /\ [Next]_vars => Resync'
  BY ResyncStep
<1> QED
  BY <1>1, <1>2, Invariant, PTL DEF Spec

\* The decoder implements the channel of frames that the request/response
\* exchange is modelled over (readFrame, slipEncode).
THEOREM Refinement == Spec => Refines
<1>1. Init => Channel!Init
  BY DEF Init, Channel!Init
<1>2. ASSUME IInv, [Next]_vars PROVE [Channel!Next]_(Channel!vars)
  <2>1. /\ got' = got \/ \E e : got' = Append(got, e)
        /\ frame' = frame \/ (frame' = frame + 1 /\ Sending)
        /\ hit' \in {hit, hit \cup {frame}}
        /\ \/ frame \in hit'
           \/ UNCHANGED <<frame, got, hit>>
           \/ Transfer /\ UNCHANGED hit
    BY <1>2, GotStep
  <2>2. got \in Seq([data : Seq(Byte) \ {<<>>}, at : Nat])
    BY <1>2 DEF IInv, TypeOK
  <2>3. \/ UNCHANGED got
        \/ /\ Len(got') = Len(got) + 1
           /\ \A i \in DOMAIN got : got'[i] = got[i]
    BY <2>1, <2>2, SMTT(20)
  <2>4. CASE frame \in hit' \/ frame - 1 \in hit'
    BY <2>1, <2>3, <2>4 DEF Channel!Next, Channel!Disturb
  <2>5. CASE UNCHANGED <<frame, got, hit>>
    BY <2>5 DEF Channel!vars
  <2>6. CASE Transfer /\ UNCHANGED hit /\ ~(frame \in hit' \/ frame - 1 \in hit')
    <3>1. Clean(frame)
      BY <2>6 DEF Clean
    <3>2. \/ UNCHANGED <<frame, got>>
          \/ /\ frame' = frame + 1
             /\ got' = Append(got, [data |-> Payloads[frame], at |-> frame])
      BY <1>2, <2>6, <3>1, Delivers
    <3>3. frame \in DOMAIN Payloads
      BY <2>6 DEF Transfer, Sending, Frames
    <3> QED
      BY <2>6, <3>2, <3>3 DEF Channel!Next, Channel!Deliver, Channel!vars
  <2> QED
    BY <2>1, <2>4, <2>5, <2>6
<1> QED
  BY <1>1, <1>2, Invariant, PTL DEF Spec, Refines, Channel!Spec
=============================================================================
