----------------------------- MODULE ReadFlash -----------------------------
(***************************************************************************)
(* Loader.ReadFlash: the stub streams a region of flash in data frames,    *)
(* the host acknowledges the running total after each, and a digest of the *)
(* region comes last.                                                      *)
(*                                                                         *)
(* Data frames carry no header, no number and no checksum.  The host counts *)
(* bytes to know where the data ends and the digest begins.  A byte that is *)
(* damaged can change a frame's length: an escape pair that is no longer    *)
(* one counts as two bytes, a delimiter that is none is a byte of the frame. *)
(***************************************************************************)
EXTENDS Naturals, Sequences

CONSTANTS
    Blocks,         \* data frames the region takes
    BlockSize,      \* bytes in each (readBlockSize, 4096 in the source) ...
    TailSize,       \* ... and in the last: the length need not be a multiple
    DigestSize,     \* bytes of a digest (16)
    MaxInFlight,    \* frames the stub sends ahead of the acknowledgements (64)
    MaxFaults       \* bound: link faults in one behaviour

ASSUME ReadAssumption ==
    /\ Blocks \in Nat \ {0} /\ BlockSize \in Nat \ {0} /\ TailSize \in 1..BlockSize
    /\ DigestSize \in Nat \ {0} /\ MaxInFlight \in Nat \ {0} /\ MaxFaults \in Nat

Length == BlockSize * (Blocks - 1) + TailSize

\* What a frame holds: the number of its block, or for a response and a digest
\* that it is Intact; Damaged for anything else.
Damaged == 0
Intact == 1
Body == {Damaged, Intact} \cup 1..Blocks
Region == [i \in 1..Blocks |-> i]

VARIABLES
    phase,          \* "call", "response", "data", "digest"; "ok", "error"
    out, total,     \* what was received, and how many bytes
    compared,       \* the digest was compared
    up, down,       \* frames in flight
    streaming,      \* the stub is serving the read
    sent, acked,    \* frames it has sent, total the host has acknowledged
    faults          \* link faults so far

host == <<phase, out, total, compared>>
chip == <<streaming, sent, acked>>
vars == <<host, up, down, chip, faults>>

Kind == {"response", "data", "digest"}
Frame == [kind : Kind, body : Body, size : Nat \ {0}]
FaultKind == {"lose", "late", "damage", "unplug"}

TypeOK ==
    /\ phase \in {"call", "response", "data", "digest", "ok", "error"}
    /\ out \in Seq(Body) /\ total \in 0..(Length + Len(faults)) /\ compared \in BOOLEAN
    /\ up \in Seq([kind : {"read", "ack"}, total : Nat])
    /\ down \in Seq(Frame)
    /\ streaming \in BOOLEAN /\ sent \in 0..Blocks /\ acked \in Nat
    /\ faults \in Seq(FaultKind)

Init ==
    /\ phase = "call" /\ out = <<>> /\ total = 0 /\ compared = FALSE
    /\ up = <<>> /\ down = <<>>
    /\ streaming = FALSE /\ sent = 0 /\ acked = 0
    /\ faults = <<>>

Fault(kind) == Len(faults) < MaxFaults /\ faults' = Append(faults, kind)
Unplugged == \E i \in DOMAIN faults : faults[i] = "unplug"

-----------------------------------------------------------------------------
(* The host. *)

Write(frame) == up' = IF Unplugged THEN up ELSE Append(up, frame)
Read == down # <<>> /\ down' = Tail(down)

\* Operators named Bug... are mistakes that could be made in this code.  No
\* behaviour uses them: PROJECT.json pairs each with the definition it would
\* replace and the property that then fails.

BugOneMore(n) == phase' = IF n <= Length THEN "data" ELSE "digest"

\* The loop runs until enough has arrived, so not at all for a read of nothing.
Continue(n) == phase' = IF n < Length THEN "data" ELSE "digest"

Call ==
    /\ phase = "call"
    /\ Write([kind |-> "read", total |-> 0])
    /\ phase' = "response"
    /\ UNCHANGED <<out, total, compared, down, chip, faults>>

\* command() drops data frames that come before the response.
Skip ==
    /\ phase = "response" /\ Read /\ Head(down).kind # "response"
    /\ UNCHANGED <<host, up, chip, faults>>

\* A refusal, or a response with a damaged status, ends the read.
Response ==
    /\ phase = "response" /\ Read /\ Head(down).kind = "response"
    /\ IF Head(down).body = Damaged THEN phase' = "error" ELSE Continue(0)
    /\ UNCHANGED <<out, total, compared, up, chip, faults>>

\* What is acknowledged, of `total` plus n bytes.
BugAckAhead(n) == total + n + BlockSize
BugAckFrameSize(n) == n
Acknowledged(n) == total + n

\* Whatever frame arrives is data.
Data ==
    /\ phase = "data" /\ Read
    /\ out' = Append(out, IF Head(down).kind = "data" THEN Head(down).body ELSE Damaged)
    /\ total' = total + Head(down).size
    /\ Write([kind |-> "ack", total |-> Acknowledged(Head(down).size)])
    /\ Continue(total')
    /\ UNCHANGED <<compared, chip, faults>>

\* MD5 is taken to be injective: the digest matches the region and nothing else.
BugDigestIgnored(frame) == TRUE
DigestMatches(frame) == frame.kind = "digest" /\ frame.body = Intact /\ out = Region

\* The last frame is compared when it has the length of a digest.
Digest ==
    /\ phase = "digest" /\ Read
    /\ compared' = (Head(down).size = DigestSize)
    /\ phase' = IF compared' /\ ~DigestMatches(Head(down)) THEN "error" ELSE "ok"
    /\ UNCHANGED <<out, total, up, chip, faults>>

MaySend == streaming /\ sent < Blocks /\ BlockSize * sent < acked + BlockSize * MaxInFlight
MayFinish == streaming /\ acked >= Length
Silent == up = <<>> /\ down = <<>> /\ ~MaySend /\ ~MayFinish

\* A read ends without a frame: an error, except for the digest.  It may do so
\* with something still to come (a late frame, or a bad SLIP escape).
BugReadAgain(p) == CASE p = "digest" -> "ok" [] p = "data" -> "data" [] OTHER -> "error"
AfterSilence(p) == IF p = "digest" THEN "ok" ELSE "error"

Timeout ==
    /\ phase \in {"response", "data", "digest"}
    /\ phase' = AfterSilence(phase)
    /\ IF Silent THEN UNCHANGED faults ELSE Fault("late")
    /\ UNCHANGED <<out, total, compared, up, down, chip>>

Host == Call \/ Skip \/ Response \/ Data \/ Digest \/ Timeout

-----------------------------------------------------------------------------
(* The stub, as ReadFlash relies on it: it stays at most MaxInFlight frames *)
(* ahead of the acknowledgements, and sends the digest after the last one.  *)

Send(kind, body, size) ==
    down' = IF Unplugged THEN down
            ELSE Append(down, [kind |-> kind, body |-> body, size |-> size])

ChipStart ==
    /\ up # <<>> /\ Head(up).kind = "read" /\ up' = Tail(up)
    /\ streaming' = TRUE
    /\ Send("response", Intact, 1)
    /\ UNCHANGED <<host, sent, acked, faults>>

ChipSend ==
    /\ MaySend
    /\ sent' = sent + 1
    /\ Send("data", sent', IF sent' < Blocks THEN BlockSize ELSE TailSize)
    /\ UNCHANGED <<host, up, streaming, acked, faults>>

ChipAcked ==
    /\ up # <<>> /\ Head(up).kind = "ack" /\ up' = Tail(up)
    /\ acked' = Head(up).total
    /\ UNCHANGED <<host, down, streaming, sent, faults>>

ChipFinish ==
    /\ MayFinish
    /\ streaming' = FALSE
    /\ Send("digest", Intact, DigestSize)
    /\ UNCHANGED <<host, up, sent, acked, faults>>

Chip == ChipStart \/ ChipSend \/ ChipAcked \/ ChipFinish

LoseUp ==
    /\ up # <<>> /\ Fault("lose") /\ up' = Tail(up)
    /\ UNCHANGED <<host, down, chip>>

LoseDown ==
    /\ down # <<>> /\ Fault("lose") /\ down' = Tail(down)
    /\ UNCHANGED <<host, up, chip>>

DamagedFrame(size) == [Head(down) EXCEPT !.body = Damaged, !.size = size]

\* Damage to a frame.  Bytes are lost, as when an input buffer overflows; or
\* one is altered, which keeps the length or, in an escape pair, adds to it.
Damage ==
    /\ down # <<>> /\ Fault("damage")
    /\ \E size \in 1..(Head(down).size + 1) : down' = <<DamagedFrame(size)>> \o Tail(down)
    /\ UNCHANGED <<host, up, chip>>

\* The delimiter at the end is altered: it becomes a byte of the frame, which
\* ends where the next one begins, and that one is passed over.
Merge ==
    /\ Len(down) >= 2 /\ Fault("damage")
    /\ down' = <<DamagedFrame(Head(down).size + 1)>> \o Tail(Tail(down))
    /\ UNCHANGED <<host, up, chip>>

Unplug ==
    /\ ~Unplugged /\ Fault("unplug")
    /\ up' = <<>>
    /\ UNCHANGED <<host, down, chip>>

Link == LoseUp \/ LoseDown \/ Damage \/ Merge \/ Unplug

Next == Host \/ Chip \/ Link

Spec == Init /\ [][Next]_vars

\* The host's reads return within the timeout and the stub serves the read.
\* No fault has to happen.
FairSpec == Spec /\ WF_vars(Host) /\ WF_vars(Chip)

-----------------------------------------------------------------------------
(* Properties. *)

\* No single fault, of any kind, at any moment, makes ReadFlash return wrong
\* data without an error: a missing or a short frame leaves the stub waiting,
\* a damaged one meets the digest, and a digest that is missing or unreadable
\* (which ReadFlash passes over) came after data that was right.  It takes a
\* last block that a byte too many does not make up for.
OneFaultIsCaught ==
    phase = "ok" /\ Len(faults) <= 1 /\ TailSize > 1 => out = Region

\* No data is taken for the digest and no digest for data, although the frames
\* of both are bare bytes: when the count of bytes is full, and not before, all
\* data has been read, as long as the last block outweighs the damage.
FramesInStep ==
    phase \in {"data", "digest"} /\ Len(faults) < TailSize =>
        \A i \in 1..Len(down) : down[i].kind = phase

\* The read always ends: neither side waits for the other for ever.
Terminates == <>(phase \in {"ok", "error"})

\* A clean link delivers the region, compared with its digest.
CleanReads == [](faults = <<>>) => <>(phase = "ok" /\ compared /\ out = Region)
=============================================================================
