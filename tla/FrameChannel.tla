---------------------------- MODULE FrameChannel ----------------------------
(***************************************************************************)
(* What SLIP framing promises to the request/response exchange above it:   *)
(* frames arrive whole and in order, except that one that is damaged takes *)
(* at most the frame after it along.                                       *)
(***************************************************************************)
EXTENDS Naturals, Sequences

CONSTANT Payloads   \* the frames, in the order in which they are sent

VARIABLES
    next,           \* the frame being sent
    damaged,        \* frames during which something happened to the line
    received        \* what readFrame returned: [data, at], at = frame being sent

vars == <<next, damaged, received>>

Init == next = 1 /\ damaged = {} /\ received = <<>>

Deliver ==
    /\ next \in DOMAIN Payloads
    /\ received' = Append(received, [data |-> Payloads[next], at |-> next])
    /\ next' = next + 1
    /\ UNCHANGED damaged

\* Anything, or nothing, may come out of a frame that is damaged and of the one
\* that follows it.
Disturb ==
    /\ damaged' \in {damaged, damaged \cup {next}}
    /\ next \in damaged' \/ next - 1 \in damaged'
    /\ next' \in {next, next + 1}
    /\ \/ UNCHANGED received
       \/ /\ Len(received') = Len(received) + 1
          /\ \A i \in DOMAIN received : received'[i] = received[i]

Next == Deliver \/ Disturb

Spec == Init /\ [][Next]_vars
=============================================================================
