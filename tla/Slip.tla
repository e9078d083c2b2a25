-------------------------------- MODULE Slip --------------------------------
(***************************************************************************)
(* SLIP framing, byte by byte: what slipEncode puts on the line and what   *)
(* readFrame makes of it.  Bytes wait in the operating system's buffer     *)
(* while nobody is reading; timeouts apply to one byte at a time.          *)
(***************************************************************************)
EXTENDS Naturals, Sequences

CONSTANTS
    Payloads,       \* the frames to be sent, in order
    MaxFaults       \* bound: bytes lost, altered or inserted, and late bytes

\* 0xC0, 0xDB, 0xDC, 0xDD, and any other.
Byte == {"end", "esc", "escEnd", "escEsc", "plain"}

ASSUME SlipAssumption ==
    /\ Payloads \in Seq(Seq(Byte) \ {<<>>})
    /\ MaxFaults \in Nat

VARIABLES
    frame, pos,     \* the byte to be sent: of Payloads[frame], 0 and Len + 1
                    \* being the delimiters ...
    half,           \* ... and the second of its escape pair
    rx,             \* readFrame: "idle" (not called), "seek", "body", "esc"
    out,            \* bytes decoded so far
    got,            \* what readFrame has returned: [data, at], at = frame
    hit,            \* frames during which a fault happened
    faults          \* how many

sender == <<frame, pos, half>>
receiver == <<rx, out, got>>
vars == <<sender, receiver, hit, faults>>

Frames == DOMAIN Payloads

TypeOK ==
    /\ frame \in 1..(Len(Payloads) + 1)
    /\ pos \in Nat /\ (frame \in Frames => pos <= Len(Payloads[frame]) + 1)
    /\ half \in BOOLEAN
    /\ rx \in {"idle", "seek", "body", "esc"}
    /\ out \in Seq(Byte)
    /\ got \in Seq([data : Seq(Byte) \ {<<>>}, at : Nat])
    /\ hit \subseteq Nat
    /\ faults \in 0..MaxFaults

Init ==
    /\ frame = 1 /\ pos = 0 /\ half = FALSE
    /\ rx = "idle" /\ out = <<>> /\ got = <<>>
    /\ hit = {} /\ faults = 0

Sending == frame \in Frames

-----------------------------------------------------------------------------
(* slipEncode. *)

\* Operators named Bug... are mistakes that could be made in this code.  No
\* behaviour uses them: PROJECT.json pairs each with the definition it would
\* replace and the property that then fails.

BugEscapesEndOnly == {"end"}
Escaped == {"end", "esc"}
Code(b) == IF b = "end" THEN "escEnd" ELSE "escEsc"

Delimiter == pos = 0 \/ pos = Len(Payloads[frame]) + 1
Current == Payloads[frame][pos]

\* The byte on the line, and the step to the next one.
Wire ==
    CASE Delimiter -> "end"
      [] ~Delimiter /\ half -> Code(Current)
      [] ~Delimiter /\ ~half -> IF Current \in Escaped THEN "esc" ELSE Current

Advance ==
    /\ half' = (~Delimiter /\ Current \in Escaped /\ ~half)
    /\ IF half' THEN UNCHANGED <<frame, pos>>
       ELSE IF pos = Len(Payloads[frame]) + 1 THEN frame' = frame + 1 /\ pos' = 0
       ELSE pos' = pos + 1 /\ UNCHANGED frame

-----------------------------------------------------------------------------
(* readFrame. *)

Call ==
    /\ rx = "idle"
    /\ rx' = "seek"
    /\ UNCHANGED <<sender, out, got, hit, faults>>

\* The loop that seeks the frame start.
Seek(b) ==
    /\ rx = "seek"
    /\ rx' = IF b = "end" THEN "body" ELSE "seek"
    /\ UNCHANGED <<out, got>>

\* A delimiter with nothing before it is the second of a doubled one.
BugEmptyFrames == FALSE
Doubled == out = <<>>

Body(b) ==
    /\ rx = "body"
    /\ \/ /\ b = "end" /\ Doubled
          /\ UNCHANGED receiver
       \/ /\ b = "end" /\ ~Doubled
          /\ rx' = "idle" /\ out' = <<>>
          /\ got' = Append(got, [data |-> out, at |-> frame])
       \/ /\ b = "esc"
          /\ rx' = "esc" /\ UNCHANGED <<out, got>>
       \/ /\ b \notin {"end", "esc"}
          /\ out' = Append(out, b) /\ UNCHANGED <<rx, got>>

\* After an escape; anything but the two codes is an error.
Escape(b) ==
    /\ rx = "esc"
    /\ IF b \in {"escEnd", "escEsc"}
       THEN rx' = "body" /\ out' = Append(out, IF b = "escEnd" THEN "end" ELSE "esc")
       ELSE rx' = "idle" /\ out' = <<>>
    /\ UNCHANGED got

Receive(b) == Seek(b) \/ Body(b) \/ Escape(b)

\* No byte comes for the length of the timeout: readFrame returns an error and
\* what it had is dropped.  Between frames the line may well be silent; in the
\* middle of one it is a fault.
Hit == faults < MaxFaults /\ faults' = faults + 1 /\ hit' = hit \cup {frame}

Timeout ==
    /\ rx # "idle"
    /\ rx' = "idle" /\ out' = <<>>
    /\ IF pos = 0 THEN UNCHANGED <<hit, faults>> ELSE Hit
    /\ UNCHANGED <<sender, got>>

-----------------------------------------------------------------------------
(* The line. *)

Transfer ==
    /\ Sending /\ Receive(Wire) /\ Advance
    /\ UNCHANGED <<hit, faults>>

Drop ==
    /\ Sending /\ Advance /\ Hit
    /\ UNCHANGED receiver

Alter ==
    /\ Sending /\ Advance /\ Hit
    /\ \E b \in Byte \ {Wire} : Receive(b)

Insert ==
    /\ Hit
    /\ \E b \in Byte : Receive(b)
    /\ UNCHANGED sender

Next == Call \/ Timeout \/ Transfer \/ Drop \/ Alter \/ Insert

Spec == Init /\ [][Next]_vars

-----------------------------------------------------------------------------
(* Properties. *)

\* The decoder falls back into step: whatever happened to the line, a frame is
\* delivered as it was sent if nothing happened to it and to the one before.
\* (readFrame, the doubled delimiters and the seek loop.)
Clean(f) == f \notin hit /\ f - 1 \notin hit

Resync ==
    \A f \in Frames : f < frame /\ Clean(f) =>
        \E i \in DOMAIN got : got[i] = [data |-> Payloads[f], at |-> f]

\* Nothing is delivered twice, out of order, or made up, either: the decoder
\* implements the channel that the exchange above it relies on.
Channel == INSTANCE FrameChannel WITH next <- frame, damaged <- hit, received <- got

Refines == Channel!Spec
=============================================================================
