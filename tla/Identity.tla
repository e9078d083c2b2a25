------------------------------ MODULE Identity ------------------------------
(***************************************************************************)
(* MACs: the chip id, the two eFuse words of the factory base address, and *)
(* the interface addresses ESP-IDF derives from it.  An address is kept as *)
(* its first and last octet, which come from different words; the four     *)
(* between are copied.                                                     *)
(*                                                                         *)
(* A caller of the library may call MACs again after an error, or Connect  *)
(* again first.  The link is FIFO both ways; an answer is late when the    *)
(* host's timeout comes before it.                                         *)
(***************************************************************************)
EXTENDS Naturals, Sequences

CONSTANTS
    Firsts, Lasts,  \* octets of base addresses
    Universals,     \* Chip.UniversalMACs of the supported targets
    MaxCalls,       \* bound: calls of MACs
    MaxFaults       \* bound: requests or answers lost, timeouts that come early

Byte == 0..255

ASSUME IdentityAssumption ==
    /\ Firsts \subseteq Byte /\ Lasts \subseteq Byte
    /\ Universals \subseteq Byte
    /\ MaxCalls \in Nat /\ MaxFaults \in Nat

VARIABLES
    board,          \* [first, last, universal], or universal = 0: a chip the
                    \* registry does not know
    chip,           \* Loader.chip: whether it is set
    step,           \* what MACs waits for: "id", "mac0", "mac1", or "idle"
    got,            \* last octet, from mac0
    macs,           \* result of the last call: addresses by interface, or None
    down, up,       \* requests and answers on their way
    calls, faults,
    stale           \* a call has failed since the last Connect

vars == <<board, chip, step, got, macs, down, up, calls, faults, stale>>

None == <<>>

-----------------------------------------------------------------------------
(* DeriveMACs. *)

\* Operators named Bug... are mistakes that could be made in this code.  No
\* behaviour uses them: PROJECT.json pairs each with the definition it would
\* replace and the property that then fails.

Bit(octet, weight) == (octet \div weight) % 2 = 1

BugNoWrap(base, n) == [base EXCEPT !.last = @ + n]
Plus(base, n) == [base EXCEPT !.last = (@ + n) % 256]

\* local: set the locally-administered bit; if it was set, flip the next one.
BugBitOnly(octet) == IF Bit(octet, 2) THEN octet ELSE octet + 2
LocalOctet(octet) ==
    IF ~Bit(octet, 2) THEN octet + 2
    ELSE IF Bit(octet, 4) THEN octet - 4 ELSE octet + 4

Local(mac) == [mac EXCEPT !.first = LocalOctet(@)]

DeriveMACs(base, universal) ==
    IF universal >= 4
    THEN [sta |-> base, ap |-> Plus(base, 1), bt |-> Plus(base, 2), eth |-> Plus(base, 3)]
    ELSE [sta |-> base, ap |-> Local(base), bt |-> Plus(base, 1), eth |-> Local(Plus(base, 1))]

-----------------------------------------------------------------------------
(* Loader.MACs: each step is one command().                                *)

Init ==
    /\ board \in [first : Firsts, last : Lasts, universal : Universals \cup {0}]
    /\ chip = FALSE /\ step = "idle" /\ got = 0 /\ macs = None
    /\ down = <<>> /\ up = <<>>
    /\ calls = 0 /\ faults = 0 /\ stale = FALSE

\* GET_SECURITY_INFO, READ_REG of the first or of the second word.
Opcode(request) == IF request = "id" THEN "security" ELSE "readreg"

Issue(request) == down' = Append(down, request) /\ step' = request

MACs ==
    /\ step = "idle" /\ calls < MaxCalls
    /\ calls' = calls + 1 /\ macs' = None
    /\ Issue(IF chip THEN "mac0" ELSE "id")
    /\ UNCHANGED <<board, chip, got, up, faults, stale>>

\* The caller may connect again between calls: the chip is reset, the input
\* flushed.
BugNoFlush == up
Flushed == <<>>

Connect ==
    /\ step = "idle"
    /\ down' = <<>> /\ up' = Flushed /\ stale' = FALSE /\ macs' = None
    /\ UNCHANGED <<board, chip, step, got, calls, faults>>

BugWaitsOn == stale' = TRUE /\ UNCHANGED <<step, chip, got, macs>>
Fails == step' = "idle" /\ stale' = TRUE /\ UNCHANGED <<chip, got, macs>>

\* Matching is by opcode.
Matches(answer) == answer.op = Opcode(step)

Skip ==
    /\ step # "idle" /\ up # <<>> /\ ~Matches(Head(up))
    /\ up' = Tail(up)
    /\ UNCHANGED <<board, chip, step, got, macs, down, calls, faults, stale>>

ChipID ==
    /\ step = "id" /\ up # <<>> /\ Matches(Head(up))
    /\ up' = Tail(up)
    /\ \/ Head(up).value = 0 /\ Fails /\ UNCHANGED down
       \/ /\ Head(up).value # 0 /\ chip' = TRUE /\ Issue("mac0")
          /\ UNCHANGED <<got, macs, stale>>
    /\ UNCHANGED <<board, calls, faults>>

Mac0 ==
    /\ step = "mac0" /\ up # <<>> /\ Matches(Head(up))
    /\ up' = Tail(up)
    /\ got' = Head(up).value /\ Issue("mac1")
    /\ UNCHANGED <<board, chip, macs, calls, faults, stale>>

Mac1 ==
    /\ step = "mac1" /\ up # <<>> /\ Matches(Head(up))
    /\ up' = Tail(up) /\ step' = "idle"
    /\ macs' = DeriveMACs([first |-> Head(up).value, last |-> got], board.universal)
    /\ UNCHANGED <<board, chip, got, down, calls, faults, stale>>

\* Nothing arrives in time: it was lost, or it will come later.
Timeout ==
    /\ step # "idle" /\ up = <<>>
    /\ \/ down = <<>> /\ UNCHANGED faults
       \/ down # <<>> /\ faults < MaxFaults /\ faults' = faults + 1
    /\ Fails
    /\ UNCHANGED <<board, down, up, calls>>

-----------------------------------------------------------------------------
(* The chip and the link. *)

Value(request) ==
    CASE request = "id" -> board.universal
      [] request = "mac0" -> board.last
      [] request = "mac1" -> board.first

Answer ==
    /\ down # <<>>
    /\ down' = Tail(down)
    /\ up' = Append(up, [op |-> Opcode(Head(down)), value |-> Value(Head(down))])
    /\ UNCHANGED <<board, chip, step, got, macs, calls, faults, stale>>

Lose ==
    /\ faults < MaxFaults /\ faults' = faults + 1
    /\ \/ down # <<>> /\ down' = Tail(down) /\ UNCHANGED up
       \/ up # <<>> /\ up' = Tail(up) /\ UNCHANGED down
    /\ UNCHANGED <<board, chip, step, got, macs, calls, stale>>

Host == MACs \/ Skip \/ ChipID \/ Mac0 \/ Mac1 \/ Timeout

Next == Host \/ Connect \/ Answer \/ Lose

Spec == Init /\ [][Next]_vars

FairSpec ==
    /\ Spec
    /\ WF_vars(Skip \/ ChipID \/ Mac0 \/ Mac1 \/ Timeout) /\ WF_vars(Answer)

-----------------------------------------------------------------------------
(* Properties. *)

Address == [first : Byte, last : Byte]
Interfaces == {"sta", "ap", "bt", "eth"}

TypeOK ==
    /\ board \in [first : Firsts, last : Lasts, universal : Universals \cup {0}]
    /\ step \in {"idle", "id", "mac0", "mac1"}
    /\ got \in Byte
    /\ macs = None \/ macs \in [Interfaces -> Address]
    /\ down \in Seq({"id", "mac0", "mac1"})
    /\ up \in Seq([op : {"security", "readreg"}, value : Byte])
    /\ chip \in BOOLEAN /\ stale \in BOOLEAN
    /\ calls \in 0..MaxCalls /\ faults \in 0..MaxFaults

Own == DeriveMACs([first |-> board.first, last |-> board.last], board.universal)

\* A call with no failed one since Connect returns the addresses of the board,
\* whatever is lost or late, and whatever an earlier connection left on the link.
RightAfterConnect == step = "idle" /\ ~stale /\ macs # None => macs = Own

\* The interfaces of one board have four different addresses, also where the last
\* octet wraps round and where the base is locally administered.
InterfacesDistinct ==
    macs # None => \A i, j \in Interfaces : i # j => macs[i] # macs[j]

\* A call comes to an end, whatever is lost.
CallEnds == step # "idle" ~> step = "idle"
=============================================================================
