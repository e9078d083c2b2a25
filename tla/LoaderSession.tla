--------------------------- MODULE LoaderSession ---------------------------
(***************************************************************************)
(* One session of a front-end with a chip: Loader.Connect, RunStub,        *)
(* ensureChip, SpiAttach, SpiSetParams, ChangeBaud, EraseFlash,            *)
(* FlashFinish and HardReset, run in the order in which a command of       *)
(* cmd/flasher calls them.  It is about what the two sides believe of each *)
(* other: which loader the chip runs (and so how long the status trailer   *)
(* of a response is) and at which baud rate it listens.                    *)
(*                                                                         *)
(* WriteFlash and ReadFlash are one exchange each here; FlashWrite has the *)
(* packets of the former.                                                  *)
(***************************************************************************)
EXTENDS Naturals, Sequences

CONSTANTS
    Scripts,            \* the front-ends: sequences of operations
    ConnectAttempts,    \* resets Connect tries (7 in the source)
    SyncTries,          \* SYNCs after each reset (5)
    Echoes,             \* extra SYNC responses, and frames drained (7)
    Greetings,          \* frames RunStub scans for "OHAI" (3)
    StubBlocks,         \* MEM_DATA blocks in each of the stub's two segments
    MaxFaults           \* bound: faults in one behaviour

ROMBaud == 115200
FastBaud == 921600

Operation == {"connect", "tryStub", "needStub", "identify", "info", "tryInfo",
              "attach", "params",
              "baud", "write", "read", "erase", "end", "reset"}
Command == {"sync", "security", "reg", "membegin", "memdata", "memend", "attach",
            "params", "baud", "write", "read", "erase", "end"}

ASSUME SessionAssumption ==
    /\ Scripts \subseteq Seq(Operation) \ {<<>>}
    /\ ConnectAttempts \in Nat \ {0} /\ SyncTries \in Nat \ {0}
    /\ Echoes \in Nat /\ Greetings \in Nat /\ StubBlocks \in Nat /\ MaxFaults \in Nat

VARIABLES
    script, op,     \* the front-end, and the operation it is in
    phase,          \* "start", "reset", "cmd", "drain", "greet", "done", "failed"
    todo,           \* commands the operation has yet to complete
    await,          \* inside command(), request written, for Head(todo)
    attempt, tries, \* Connect: resets done, SYNCs sent since the last one
    scanned,        \* frames read by the drain or the greeting loop
    stub,           \* Loader.stub
    known,          \* Loader.chip # nil
    portBaud,       \* rate of the host's port (Loader.curBaud follows it)
    mode,           \* what the chip runs
    chipBaud,       \* rate at which the chip listens and answers
    supported,      \* the chip's id is in the registry `chips`
    logging,        \* the firmware writes to the port, never pausing for as
                    \* long as a read waits, and not one 0xC0
    up, down,       \* frames in flight, each direction FIFO
    claimed,        \* commands since the last reset that returned success
    executed,       \* commands since the last reset that the chip carried out
    fellBack,       \* RunStub failed and the front-end went on
    faults          \* faults so far

loop == <<attempt, tries, scanned>>
control == <<script, op, phase, todo, await, loop>>
believed == <<stub, known, portBaud>>
chip == <<mode, chipBaud, supported, logging>>
ghosts == <<claimed, executed, fellBack>>
vars == <<control, believed, chip, up, down, ghosts, faults>>

Frame == [cmd : Command \cup {"OHAI"}, ok : BOOLEAN, width : {2, 4}]
FaultKind == Command \cup {"OHAI", "context", "strap", "port", "crash", "unplug"}

TypeOK ==
    /\ script \in Scripts /\ op \in 1..Len(script)
    /\ phase \in {"start", "reset", "cmd", "drain", "greet", "done", "failed"}
    /\ todo \in Seq(Command) /\ await \in BOOLEAN
    /\ attempt \in 0..ConnectAttempts /\ tries \in 0..SyncTries
    /\ scanned \in 0..(Echoes + Greetings)
    /\ stub \in BOOLEAN /\ known \in BOOLEAN
    /\ portBaud \in {ROMBaud, FastBaud} /\ chipBaud \in {ROMBaud, FastBaud}
    /\ mode \in {"app", "rom", "booting", "stub", "crashed"}
    /\ supported \in BOOLEAN /\ logging \in BOOLEAN
    /\ up \in Seq([cmd : Command, baud : {ROMBaud, FastBaud}])
    /\ down \in Seq(Frame)
    /\ claimed \subseteq Command /\ executed \subseteq Command
    /\ fellBack \in BOOLEAN
    /\ faults \in Seq(FaultKind)

\* A new process has a new Loader on a port just opened; the chip is as the
\* last session, finished or abandoned, has left it.
Init ==
    /\ script \in Scripts /\ op = 1 /\ phase = "start" /\ todo = <<>> /\ await = FALSE
    /\ attempt = 0 /\ tries = 0 /\ scanned = 0
    /\ stub = FALSE /\ known = FALSE /\ portBaud = ROMBaud
    /\ \/ mode \in {"app", "rom"} /\ chipBaud = ROMBaud
       \/ mode \in {"rom", "stub", "crashed"} /\ chipBaud = FastBaud
    /\ supported \in BOOLEAN /\ logging = FALSE
    /\ up = <<>> /\ down = <<>>
    /\ claimed = {} /\ executed = {} /\ fellBack = FALSE
    /\ faults = <<>>

Fault(kind) == Len(faults) < MaxFaults /\ faults' = Append(faults, kind)
Unplugged == \E i \in DOMAIN faults : faults[i] = "unplug"

\* readFrame gives each byte the whole timeout, and command() looks at its own
\* deadline between frames only: while bytes come that end no frame, neither
\* returns.
Chattering == logging /\ ~Unplugged

-----------------------------------------------------------------------------
(* What the host makes of a response (response.status): the first byte of  *)
(* a trailer of 2 bytes under the stub, of 4 on the ROM, counted from the  *)
(* end of the data.                                                        *)

Width == IF stub THEN 2 ELSE 4

\* Operators named Bug... are mistakes that could be made in this code.  No
\* behaviour uses them: PROJECT.json pairs each with the definition it would
\* replace and the property that then fails.

\* A response too short for its trailer, taken for one that has none.
BugShortIsSuccess(r) == r.width = Width => r.ok

\* A 4-byte ROM trailer is status, error, 0, 0: the last two bytes say
\* success.  A 2-byte stub trailer is too short for the ROM layout, unless
\* the response has a payload: that of GET_SECURITY_INFO ends in zeros.
StatusOK(r) ==
    \/ r.width = Width /\ r.ok
    \/ r.width = 4 /\ stub
    \/ r.width = 2 /\ ~stub /\ r.cmd = "security"

\* WriteFlash and ReadFlash end in data of their own (a digest, a stream),
\* so a wrong status alone does not carry them.
Succeeds(r) == StatusOK(r) /\ (r.cmd \in {"write", "read"} => r.ok)

-----------------------------------------------------------------------------
(* The host.                                                               *)

Repeat(c, n) == [i \in 1..n |-> c]
EnsureChip == IF known THEN <<>> ELSE <<"security">>
Identify == EnsureChip \o <<"reg", "reg">>
MemUpload == <<"membegin">> \o Repeat("memdata", StubBlocks)

IsRunStub(o) == o \in {"tryStub", "needStub"}
IsSecurityInfo(o) == o \in {"info", "tryInfo"}

\* The commands of an operation that does not loop.
CommandsOf(o) ==
    CASE o = "identify" -> Identify
      [] IsRunStub(o) -> IF stub THEN <<>>
                         ELSE EnsureChip \o MemUpload \o MemUpload \o <<"memend">>
      [] IsSecurityInfo(o) -> <<"security">>
      [] o = "attach" -> IF stub THEN <<>> ELSE <<"attach">>
      [] OTHER -> <<o>>

\* An operation returns: success goes on to the next one, an error ends the
\* program (fatal), except from RunStub in cmdFlash, from SecurityInfo in
\* cmdChipInfo, and from FlashFinish.
Returns(success) ==
    LET o == script[op] IN
    IF success \/ o \in {"tryStub", "tryInfo", "end"}
    THEN /\ IF op < Len(script) THEN op' = op + 1 /\ phase' = "start"
                                ELSE op' = op /\ phase' = "done"
         /\ fellBack' = (fellBack \/ (o = "tryStub" /\ ~success))
    ELSE phase' = "failed" /\ UNCHANGED <<op, fellBack>>

StartConnect ==
    /\ phase = "start" /\ script[op] = "connect"
    /\ phase' = "reset" /\ attempt' = 0
    /\ UNCHANGED <<script, op, todo, await, tries, scanned, believed, chip, up, down,
                   ghosts, faults>>

\* EraseFlash, EraseRegion and ReadFlash refuse to run on the ROM loader.
StartCommands ==
    /\ phase = "start" /\ script[op] \notin {"connect", "reset"}
    /\ IF script[op] \in {"erase", "read"} /\ ~stub
       THEN Returns(FALSE) /\ UNCHANGED todo
       ELSE phase' = "cmd" /\ todo' = CommandsOf(script[op]) /\ UNCHANGED <<op, fellBack>>
    /\ UNCHANGED <<script, await, loop, believed, chip, up, down, claimed, executed, faults>>

\* HardReset: EN is pulsed with DTR released, so the chip boots its firmware.
HardReset ==
    /\ phase = "start" /\ script[op] = "reset"
    /\ mode' = IF Unplugged THEN mode ELSE "app"
    /\ chipBaud' = IF Unplugged THEN chipBaud ELSE ROMBaud
    /\ logging' = (logging /\ Unplugged)
    /\ up' = <<>>
    /\ claimed' = {} /\ executed' = {}
    /\ Returns(TRUE)
    /\ UNCHANGED <<script, todo, await, loop, believed, supported, down, faults>>

\* What is left to read after ResetInputBuffer.
BugNoFlush == down
Flushed == <<>>

BugResetNotCounted == attempt
NextAttempt == attempt + 1

\* resetToBootloader, then the first SYNC.  The chip comes up in its ROM
\* loader, or in its firmware when IO0 was not low in time.
ResetToBootloader ==
    /\ phase = "reset"
    /\ IF Unplugged THEN UNCHANGED <<mode, chipBaud, logging, faults>>
       ELSE /\ chipBaud' = ROMBaud /\ logging' = FALSE
            /\ \/ mode' = "rom" /\ UNCHANGED faults
               \/ mode' = "app" /\ Fault("strap")
    /\ up' = <<>> /\ down' = Flushed
    /\ claimed' = {} /\ executed' = {}
    /\ attempt' = NextAttempt /\ tries' = 0
    /\ phase' = "cmd" /\ todo' = <<"sync">>
    /\ UNCHANGED <<script, op, await, scanned, believed, supported, fellBack>>

\* The context given to Connect ends: seen before the next reset only.
ContextEnds ==
    /\ phase = "reset"
    /\ Returns(FALSE) /\ Fault("context")
    /\ UNCHANGED <<script, todo, await, loop, believed, chip, up, down, claimed, executed>>

Issue ==
    /\ phase = "cmd" /\ todo # <<>> /\ ~await
    /\ await' = TRUE
    /\ up' = IF Unplugged THEN up ELSE Append(up, [cmd |-> Head(todo), baud |-> portBaud])
    /\ UNCHANGED <<script, op, phase, todo, loop, believed, chip, down, ghosts, faults>>

Matches == await /\ down # <<>> /\ Head(down).cmd = Head(todo)

\* command() drops every frame that does not answer it, "OHAI" included.
Skip ==
    /\ await /\ down # <<>> /\ Head(down).cmd # Head(todo)
    /\ down' = Tail(down)
    /\ UNCHANGED <<control, believed, chip, up, ghosts, faults>>

\* SYNC answered: drain the echoes.
SyncAccepted ==
    /\ Head(todo) = "sync"
    /\ phase' = "drain" /\ scanned' = 0
    /\ UNCHANGED <<op, known, portBaud, fellBack>>

\* ensureChip: the chip id selects register layout and stub, or is unknown.
\* (SecurityInfo, of `info` and `chip-info`, sends the same command and looks at
\* no chip id.)
ChipIDAccepted ==
    /\ Head(todo) = "security" /\ ~IsSecurityInfo(script[op])
    /\ IF supported THEN known' = TRUE /\ UNCHANGED <<phase, op, fellBack>>
                    ELSE Returns(FALSE) /\ UNCHANGED known
    /\ UNCHANGED <<scanned, portBaud>>

BugHostKeepsBaud == portBaud
NewBaud == FastBaud

\* ChangeBaud: the host follows the chip.
BaudAccepted ==
    /\ Head(todo) = "baud"
    /\ portBaud' = NewBaud
    /\ UNCHANGED <<phase, op, scanned, known, fellBack>>

OtherAccepted ==
    /\ Head(todo) \notin {"sync", "baud"}
    /\ Head(todo) = "security" => IsSecurityInfo(script[op])
    /\ UNCHANGED <<phase, op, scanned, known, portBaud, fellBack>>

Accept ==
    /\ Matches /\ Succeeds(Head(down))
    /\ SyncAccepted \/ ChipIDAccepted \/ BaudAccepted \/ OtherAccepted
    /\ todo' = Tail(todo) /\ await' = FALSE
    /\ down' = IF Head(todo) = "baud" THEN Flushed ELSE Tail(down)
    /\ claimed' = claimed \cup {Head(todo)}
    /\ UNCHANGED <<script, attempt, tries, stub, chip, up, executed, faults>>

\* SetBaud or FlushInput fails, when the chip has changed its rate already.
PortFails ==
    /\ Matches /\ Succeeds(Head(down)) /\ Head(todo) = "baud"
    /\ Fault("port") /\ Returns(FALSE)
    /\ portBaud' \in {portBaud, NewBaud}
    /\ todo' = <<>> /\ await' = FALSE
    /\ down' = Tail(down)
    /\ claimed' = claimed \cup {"baud"}
    /\ UNCHANGED <<script, loop, stub, known, chip, up, executed>>

BugSyncOffByOne == tries < SyncTries
MoreSyncs == tries + 1 < SyncTries

BugResetsOffByOne == attempt + 1 < ConnectAttempts
MoreResets == attempt < ConnectAttempts

\* An error of command().  A failed SYNC is tried again, then the reset, then
\* Connect gives up; memFinish ignores the error of MEM_END.
CommandFails(rest) ==
    /\ await' = FALSE /\ down' = rest
    /\ CASE Head(todo) = "sync" ->
              /\ tries' = tries + 1
              /\ IF MoreSyncs THEN UNCHANGED <<op, phase, fellBack>>
                 ELSE IF MoreResets
                      THEN phase' = "reset" /\ UNCHANGED <<op, fellBack>>
                      ELSE Returns(FALSE)
              /\ UNCHANGED todo
         [] Head(todo) = "memend" -> todo' = <<>> /\ UNCHANGED <<op, phase, tries, fellBack>>
         [] OTHER -> Returns(FALSE) /\ todo' = <<>> /\ UNCHANGED tries
    /\ UNCHANGED <<script, attempt, scanned, believed, chip, up, claimed, executed>>

Reject ==
    /\ Matches /\ ~Succeeds(Head(down))
    /\ CommandFails(Tail(down))
    /\ UNCHANGED faults

\* Nothing will arrive any more.  (The stub takes its time to boot: the 200 ms
\* of memFinish may or may not see its greeting.)
Silent == up = <<>> /\ down = <<>>
Booting == mode = "booting"

Timeout ==
    /\ await /\ ~Chattering
    /\ CommandFails(down)
    /\ IF Silent /\ (Head(todo) = "memend" \/ ~Booting) THEN UNCHANGED faults
       ELSE Fault(Head(todo))

\* All commands answered: RunStub goes on to wait for the greeting.
CommandsDone ==
    /\ phase = "cmd" /\ todo = <<>>
    /\ IF IsRunStub(script[op]) /\ ~stub
       THEN phase' = "greet" /\ scanned' = 0 /\ UNCHANGED <<op, fellBack>>
       ELSE Returns(TRUE) /\ UNCHANGED scanned
    /\ UNCHANGED <<script, todo, await, attempt, tries, believed, chip, up, down, claimed,
                   executed, faults>>

\* sync(): up to Echoes more frames are read; an error ends the loop.
Drain ==
    /\ phase = "drain"
    /\ IF down # <<>> /\ scanned < Echoes
       THEN down' = Tail(down) /\ scanned' = scanned + 1 /\ UNCHANGED <<op, phase, fellBack, faults>>
       ELSE /\ scanned = Echoes \/ ~Chattering
            /\ Returns(TRUE) /\ UNCHANGED <<down, scanned>>
            /\ IF Silent \/ scanned = Echoes THEN UNCHANGED faults ELSE Fault("sync")
    /\ UNCHANGED <<script, todo, await, attempt, tries, believed, chip, up, claimed, executed>>

BugAnyFrameGreets(frame) == TRUE
Greets(frame) == frame.cmd = "OHAI"

\* RunStub: up to Greetings frames are read; "OHAI" switches the mode.
Greeted ==
    /\ phase = "greet" /\ down # <<>> /\ scanned < Greetings
    /\ down' = Tail(down) /\ scanned' = scanned + 1
    /\ IF Greets(Head(down)) THEN stub' = TRUE /\ Returns(TRUE)
                                  ELSE UNCHANGED <<stub, op, phase, fellBack>>
    /\ UNCHANGED <<script, todo, await, attempt, tries, known, portBaud, chip, up, claimed,
                   executed, faults>>

GreetingFails ==
    /\ phase = "greet"
    /\ scanned = Greetings \/ ~Chattering
    /\ Returns(FALSE)
    /\ IF scanned = Greetings \/ (Silent /\ ~Booting) THEN UNCHANGED faults ELSE Fault("OHAI")
    /\ UNCHANGED <<script, todo, await, loop, believed, chip, up, down, claimed, executed>>

Host ==
    \/ StartConnect \/ StartCommands \/ HardReset \/ ResetToBootloader \/ ContextEnds
    \/ Issue \/ Skip \/ Accept \/ PortFails \/ Reject \/ Timeout
    \/ CommandsDone \/ Drain \/ Greeted \/ GreetingFails

-----------------------------------------------------------------------------
(* The chip and the link, as the host code relies on them.                 *)

Req == Head(up)
Hears == mode \in {"rom", "stub"} /\ Req.baud = chipBaud
ChipWidth == IF mode = "stub" THEN 2 ELSE 4

\* Frames the host can decode: those sent at the rate it listens at.
Send(frames) == down' = IF chipBaud = portBaud /\ ~Unplugged THEN down \o frames ELSE down
Answer(ok) == [cmd |-> Req.cmd, ok |-> ok, width |-> ChipWidth]

\* Erase and read are commands of the stub only, and a front-end that takes
\* the ROM for the stub (or the reverse) sends writes it cannot execute.
Capable ==
    /\ Req.cmd \in {"erase", "read"} => mode = "stub"
    /\ Req.cmd = "write" => (mode = "stub") = stub

ChipDeaf ==
    /\ up # <<>> /\ ~Booting /\ ~Hears
    /\ up' = Tail(up)
    /\ UNCHANGED <<control, believed, chip, down, ghosts, faults>>

ChipSync ==
    /\ up # <<>> /\ Hears /\ Req.cmd = "sync"
    /\ up' = Tail(up)
    /\ Send(Repeat(Answer(TRUE), 1 + Echoes))
    /\ executed' = executed \cup {"sync"}
    /\ UNCHANGED <<control, believed, chip, claimed, fellBack, faults>>

ChipExecutes ==
    /\ up # <<>> /\ Hears /\ Req.cmd \notin {"sync", "memend"}
    /\ up' = Tail(up)
    /\ Send(<<Answer(Capable)>>)
    /\ executed' = IF Capable THEN executed \cup {Req.cmd} ELSE executed
    /\ chipBaud' = IF Req.cmd = "baud" THEN FastBaud ELSE chipBaud
    /\ UNCHANGED <<control, believed, mode, supported, logging, claimed, fellBack, faults>>

\* "The chip jumps to the stub immediately, so its MEM_END response is often
\* lost" (esp/stub.go:112); and a damaged stub never says hello.
ChipMemEnd ==
    /\ up # <<>> /\ Hears /\ Req.cmd = "memend"
    /\ up' = Tail(up)
    /\ executed' = executed \cup {"memend"}
    /\ \/ mode' = "booting" /\ Send(<<Answer(TRUE)>>) /\ UNCHANGED faults
       \/ mode' = "booting" /\ UNCHANGED down /\ Fault("memend")
       \/ mode' = "crashed" /\ Send(<<Answer(TRUE)>>) /\ Fault("crash")
    /\ UNCHANGED <<control, believed, chipBaud, supported, logging, claimed, fellBack>>

ChipGreets ==
    /\ Booting
    /\ mode' = "stub"
    /\ Send(<<[cmd |-> "OHAI", ok |-> TRUE, width |-> 2]>>)
    /\ UNCHANGED <<control, believed, chipBaud, supported, logging, up, ghosts, faults>>

Chip == ChipDeaf \/ ChipSync \/ ChipExecutes \/ ChipMemEnd \/ ChipGreets

LoseRequest ==
    /\ up # <<>> /\ Fault(Req.cmd)
    /\ up' = Tail(up)
    /\ UNCHANGED <<control, believed, chip, down, ghosts>>

LoseResponse ==
    /\ down # <<>> /\ Fault(Head(down).cmd)
    /\ down' = Tail(down)
    /\ UNCHANGED <<control, believed, chip, up, ghosts>>

\* A damaged request, refused by the chip.
RefuseRequest ==
    /\ up # <<>> /\ Hears /\ Req.cmd \notin {"sync", "memend"} /\ Fault(Req.cmd)
    /\ up' = Tail(up)
    /\ Send(<<Answer(FALSE)>>)
    /\ UNCHANGED <<control, believed, chip, ghosts>>

Unplug ==
    /\ ~Unplugged /\ Fault("unplug")
    /\ up' = <<>>
    /\ UNCHANGED <<control, believed, chip, down, ghosts>>

Link == LoseRequest \/ LoseResponse \/ RefuseRequest \/ Unplug

\* What boots in place of a loader (after a missed strap, or a damaged stub)
\* starts and stops filling the line as it likes.
FirmwareLogs ==
    /\ mode \in {"app", "crashed"} /\ ~Unplugged
    /\ logging' = ~logging
    /\ UNCHANGED <<control, believed, mode, chipBaud, supported, up, down, ghosts, faults>>

Next == Host \/ Chip \/ Link \/ FirmwareLogs

Spec == Init /\ [][Next]_vars

\* A read of the host returns: with a frame, or with its timeout at a pause as
\* long as that (strong fairness: pauses that come and go are enough, each is one
\* in which the read would have returned).  The chip serves what it received.
\* Nothing obliges a fault to happen, or the firmware to fall silent.
FairSpec == Spec /\ SF_vars(Host) /\ WF_vars(Chip)

-----------------------------------------------------------------------------
(* Properties. *)

Running == phase \notin {"done", "failed"}

\* The shape every command of cmd/flasher has: it connects first, and once; resets
\* the chip at the end, if at all; calls RunStub at most once; and asks for nothing
\* that needs GET_SECURITY_INFO when RunStub may have failed.
CommandLine(s) ==
    /\ \A i \in DOMAIN s : s[i] = "connect" <=> i = 1
    /\ \A i \in DOMAIN s : s[i] = "reset" => i = Len(s)
    /\ \A i, j \in DOMAIN s : IsRunStub(s[i]) /\ IsRunStub(s[j]) => i = j
    /\ \A i, j \in DOMAIN s : i < j /\ s[i] = "tryStub" =>
           s[j] # "identify" /\ ~IsSecurityInfo(s[j])

\* The mode switch is never taken on hearsay: while a session runs, a loader
\* in stub mode talks to a running stub.  (Loader.stub, RunStub.)
StubMeansStub == stub /\ Running => mode = "stub"

\* Success is never read out of a trailer of the wrong length: any response
\* accepted was sent by the kind of loader the host takes the chip for.
\* (response.status, on whose `stub` argument everything hangs.)
TrailerAgrees == [][Accept \/ PortFails => Head(down).width = Width]_vars

\* Every kind of command that returned nil since the chip was last reset was
\* carried out by the chip in the state that reset left it in: no success comes
\* from a frame of before the reset, a lost request or a refused one.  (The
\* blocks of an upload are one kind: that of each is not told apart.)
NoFalseSuccess == claimed \subseteq executed

\* Whenever an operation starts on a connected chip, both ends are at the same
\* baud rate, whatever became of the CHANGE_BAUDRATE exchange.
BaudAgrees == phase = "start" /\ op > 1 => portBaud = chipBaud

\* Every front-end ends, even when the link dies in the middle of an upload,
\* provided that a firmware booted by a missed strap, or by a stub that crashed,
\* does not log for ever: it pauses now and again for as long as the read waits,
\* 100 ms while Connect tries and 3 s elsewhere (loader.go:53, where each byte
\* starts the timeout again).  Without the premise it fails.
Terminates == []<>~Chattering => <>(phase \in {"done", "failed"})

\* From any state in which an earlier session left the chip, a session without
\* faults succeeds, and so does one whose only fault is a SYNC lost or late, or
\* a reset that booted the firmware: Connect makes these good, and nothing it
\* leaves on the link disturbs the commands that follow.  A front-end that
\* needs the stub needs a chip in the registry; cmdFlash falls back to the ROM.
\* The firmware booted by mistake has to pause for the 100 ms of syncTimeout, or
\* Connect never gets to its next reset.
ConnectMasks ==
    /\ []<>~Chattering
    /\ [](/\ faults \in {<<>>, <<"sync">>, <<"strap">>}
          /\ supported \/ \E i \in 1..Len(script) : script[i] = "tryStub")
    => <>(phase = "done")

\* "On any failure the loader stays in ROM mode and the error is returned so the
\* caller can fall back" (esp/stub.go:34): even when all that was lost is the
\* MEM_END response, of which RunStub's author knew that it "is often lost".
FallsBackToROM == fellBack /\ Running /\ faults = <<"memend">> => mode = "rom"
=============================================================================
