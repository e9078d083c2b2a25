------------------------- MODULE LoaderSessionProofs ------------------------
(***************************************************************************)
(* Theorems about LoaderSession, for all numbers of attempts, echoes,      *)
(* blocks and faults, and for every front-end that is a CommandLine.       *)
(***************************************************************************)
EXTENDS LoaderSession, TLAPS

Request == [cmd : Command, baud : {ROMBaud, FastBaud}]

-----------------------------------------------------------------------------
(* The link, whatever the host is doing.                                   *)

NoMemEnd == \A i \in DOMAIN up : up[i].cmd # "memend"

\* A greeting is from a stub that runs and will not be left, and what follows it
\* is from the stub as well.
Greeting ==
    \A i \in DOMAIN down : down[i].cmd = "OHAI" =>
        /\ mode = "stub" /\ NoMemEnd
        /\ \A j \in i..Len(down) : down[j].width = 2

\* The jump into the stub is asked for once, of a chip that has not made it.
OneJump ==
    /\ \A i, j \in DOMAIN up : up[i].cmd = "memend" /\ up[j].cmd = "memend" => i = j
    /\ ~NoMemEnd => mode \in {"rom", "app"}

\* A response that says success is of a command carried out.
Answered ==
    \A i \in DOMAIN down : down[i].ok =>
        /\ down[i].cmd \in executed \cup {"OHAI"}
        /\ down[i].cmd = "baud" => chipBaud = FastBaud

LinkInv == Greeting /\ OneJump /\ Answered

-----------------------------------------------------------------------------
(* The host's program. *)

Works(o) ==
    CASE o = "connect" -> {"sync"}
      [] o = "identify" -> {"security", "reg"}
      [] IsRunStub(o) -> {"security", "membegin", "memdata", "memend"}
      [] IsSecurityInfo(o) -> {"security"}
      [] OTHER -> {o}

\* What is left of an upload, if anything is, ends with the jump.
EndsInJump == todo # <<>> => \A i \in DOMAIN todo : todo[i] = "memend" <=> i = Len(todo)

Control ==
    /\ await => phase = "cmd" /\ todo # <<>>
    /\ phase = "reset" => script[op] = "connect" /\ attempt < ConnectAttempts
    /\ phase = "drain" => script[op] = "connect"
    /\ phase = "greet" => IsRunStub(script[op])
    /\ phase = "cmd" =>
        /\ script[op] # "reset"
        /\ \A i \in DOMAIN todo : todo[i] \in Works(script[op])
        /\ script[op] = "connect" => todo # <<>> /\ tries < SyncTries
        /\ IsRunStub(script[op]) => EndsInJump

-----------------------------------------------------------------------------
(* The host and the chip. *)

Past == \E i \in 1..(op - 1) : IsRunStub(script[i])

\* MEM_END has been issued, or will not be.
Jumped ==
    \/ Past
    \/ /\ IsRunStub(script[op])
       /\ \/ phase = "greet"
          \/ phase = "cmd" /\ (todo = <<>> \/ (await /\ Head(todo) = "memend"))

\* A chip as Connect leaves it ...
Fresh ==
    /\ mode \in {"rom", "app"} /\ NoMemEnd
    /\ \A i \in DOMAIN down : down[i].cmd # "OHAI" /\ down[i].width = 4

\* ... and as it is before, when nothing has been or can be exchanged.
Dead ==
    /\ op = 1 /\ up = <<>> /\ down = <<>> /\ mode # "booting"
    /\ phase \in {"start", "reset"} \/ (phase = "cmd" /\ Unplugged)

Untouched == ~Jumped => Fresh \/ Dead

Switched ==
    stub => /\ mode = "stub" /\ NoMemEnd /\ Past
            /\ \A i \in DOMAIN down : down[i].width = 2

NeedsStub == \A i \in 1..(op - 1) : script[i] = "needStub" => stub

ChangingBaud == await /\ Head(todo) = "baud"

Bauds ==
    /\ Dead \/ portBaud = chipBaud \/ (ChangingBaud /\ chipBaud = FastBaud)
    /\ \A i \in DOMAIN up : up[i].cmd = "baud" => ChangingBaud \/ portBaud = FastBaud
    /\ op = 1 => portBaud = ROMBaud

SessionInv == Untouched /\ Switched /\ NeedsStub /\ Bauds

IInv ==
    /\ TypeOK /\ Control /\ NoFalseSuccess
    /\ Running => LinkInv /\ SessionInv

-----------------------------------------------------------------------------
(* Sequences. *)

LEMMA Dropped ==
    ASSUME NEW S, NEW q \in Seq(S), q # <<>>
    PROVE  /\ Tail(q) \in Seq(S) /\ Len(q) \in Nat \ {0} /\ Len(Tail(q)) = Len(q) - 1
           /\ Head(q) = q[1] /\ Head(q) \in S /\ 1 \in DOMAIN q
           /\ \A i \in DOMAIN Tail(q) : i + 1 \in DOMAIN q /\ Tail(q)[i] = q[i + 1]
           /\ DOMAIN q = 1..Len(q) /\ DOMAIN Tail(q) = 1..(Len(q) - 1)
  OBVIOUS

LEMMA Added ==
    ASSUME NEW S, NEW q \in Seq(S), NEW e \in S
    PROVE  /\ Append(q, e) \in Seq(S) /\ Append(q, e) # <<>>
           /\ Len(q) \in Nat /\ Len(Append(q, e)) = Len(q) + 1
           /\ DOMAIN q = 1..Len(q) /\ DOMAIN Append(q, e) = 1..(Len(q) + 1)
           /\ \A i \in DOMAIN q : Append(q, e)[i] = q[i]
           /\ Append(q, e)[Len(q) + 1] = e
  OBVIOUS

LEMMA Joined ==
    ASSUME NEW S, NEW q \in Seq(S), NEW r \in Seq(S)
    PROVE  /\ q \o r \in Seq(S)
           /\ Len(q) \in Nat /\ Len(r) \in Nat /\ Len(q \o r) = Len(q) + Len(r)
           /\ DOMAIN q = 1..Len(q) /\ DOMAIN (q \o r) = 1..(Len(q) + Len(r))
           /\ DOMAIN r = 1..Len(r)
           /\ \A i \in DOMAIN q : (q \o r)[i] = q[i]
           /\ \A i \in 1..(Len(q) + Len(r)) : i > Len(q) =>
                  i - Len(q) \in DOMAIN r /\ (q \o r)[i] = r[i - Len(q)]
  OBVIOUS

LEMMA Repeated ==
    ASSUME NEW S, NEW c \in S, NEW n \in Nat
    PROVE  Repeat(c, n) \in Seq(S) /\ Len(Repeat(c, n)) = n /\ \A i \in 1..n : Repeat(c, n)[i] = c
  BY DEF Repeat

-----------------------------------------------------------------------------
(* Types and the host's program. *)

\* What an operation has to do is of its own kind, and an upload ends in the jump.
LEMMA CommandsOfType ==
    ASSUME NEW o \in Operation \ {"connect", "reset"}, stub \in BOOLEAN, known \in BOOLEAN
    PROVE  /\ CommandsOf(o) \in Seq(Command)
           /\ \A i \in DOMAIN CommandsOf(o) : CommandsOf(o)[i] \in Works(o)
           /\ IsRunStub(o) => \A i \in DOMAIN CommandsOf(o) :
                  CommandsOf(o)[i] = "memend" <=> i = Len(CommandsOf(o))
<1>0. EnsureChip = <<>> \/ EnsureChip = <<"security">>
  BY DEF EnsureChip
<1>1. CASE o = "identify"
  <2>1. ~IsRunStub(o) /\ ~IsSecurityInfo(o) /\ o # "attach" /\ o # "connect"
    BY <1>1 DEF IsRunStub, IsSecurityInfo
  <2>2. CommandsOf(o) = Identify
    BY <1>1, <2>1, Zenon DEF CommandsOf
  <2>3. Works(o) = {"security", "reg"}
    BY <1>1, <2>1, Zenon DEF Works
  <2> DEFINE W == {"security", "reg"}
  <2>4. /\ <<>> \in Seq(W) /\ <<"security">> \in Seq(W)
        /\ <<"reg", "reg">> \in Seq(W)
    OBVIOUS
  <2>5. Identify \in Seq(W)
    BY <1>0, <2>4, Joined DEF Identify
  <2>6. Identify \in Seq(Command) /\ \A i \in DOMAIN Identify : Identify[i] \in W
    BY <2>5 DEF Command
  <2> QED
    BY <2>1, <2>2, <2>3, <2>6
<1>2. CASE IsRunStub(o) /\ ~stub
  <2> DEFINE W == {"security", "membegin", "memdata"}
             X == EnsureChip \o MemUpload \o MemUpload
  <2>1. EnsureChip \in Seq(W)
    <3>1. <<>> \in Seq(W) /\ <<"security">> \in Seq(W)
      OBVIOUS
    <3> QED
      BY <1>0, <3>1
  <2>2. <<"membegin">> \in Seq(W) /\ Repeat("memdata", StubBlocks) \in Seq(W)
    <3>1. "memdata" \in W /\ "membegin" \in W
      OBVIOUS
    <3> HIDE DEF W
    <3> QED
      BY <3>1, Repeated, SessionAssumption
  <2>3. MemUpload \in Seq(W)
    BY <2>2, Joined DEF MemUpload
  <2>4. X \in Seq(W)
    BY <2>1, <2>3, Joined
  <2>5. o # "identify" /\ o # "connect" /\ ~IsSecurityInfo(o) /\ o # "attach"
    BY <1>2 DEF IsRunStub, IsSecurityInfo
  <2>6. CommandsOf(o) = X \o <<"memend">>
    BY <1>2, <2>5, Zenon DEF CommandsOf
  <2>7. Works(o) = W \cup {"memend"}
    <3>1. Works(o) = {"security", "membegin", "memdata", "memend"}
      BY <1>2, <2>5, Zenon DEF Works
    <3> QED
      BY <3>1
  <2> HIDE DEF X
  <2>8. /\ Len(X \o <<"memend">>) = Len(X) + 1 /\ Len(X) \in Nat
        /\ X \o <<"memend">> \in Seq(Command)
        /\ DOMAIN (X \o <<"memend">>) = 1..(Len(X) + 1)
        /\ \A i \in 1..Len(X) : (X \o <<"memend">>)[i] = X[i] /\ X[i] \in W
        /\ (X \o <<"memend">>)[Len(X) + 1] = "memend"
    BY <2>4 DEF Command
  <2> QED
    BY <2>6, <2>7, <2>8
<1>3. CASE IsRunStub(o) /\ stub
  <2>1. o # "identify" /\ ~IsSecurityInfo(o) /\ o # "attach"
    BY <1>3 DEF IsRunStub, IsSecurityInfo
  <2>2. CommandsOf(o) = <<>>
    BY <1>3, <2>1, Zenon DEF CommandsOf
  <2> QED
    BY <2>2
<1>4. CASE IsSecurityInfo(o)
  <2>1. o # "identify" /\ o # "connect" /\ ~IsRunStub(o) /\ o # "attach"
    BY <1>4 DEF IsRunStub, IsSecurityInfo
  <2>2. CommandsOf(o) = <<"security">>
    BY <1>4, <2>1, Zenon DEF CommandsOf
  <2>3. Works(o) = {"security"}
    BY <1>4, <2>1, Zenon DEF Works
  <2> QED
    BY <2>1, <2>2, <2>3 DEF Command
<1>5. CASE o \in {"attach", "params", "baud", "write", "read", "erase", "end"}
  <2>1. o # "identify" /\ o # "connect" /\ ~IsRunStub(o) /\ ~IsSecurityInfo(o)
    BY <1>5 DEF IsRunStub, IsSecurityInfo
  <2>2. o = "attach" => CommandsOf(o) = IF stub THEN <<>> ELSE <<"attach">>
    BY <2>1, Zenon DEF CommandsOf
  <2>3. o # "attach" => CommandsOf(o) = <<o>>
    BY <2>1, Zenon DEF CommandsOf
  <2>4. Works(o) = {o}
    BY <2>1, Zenon DEF Works
  <2>5. CommandsOf(o) = <<>> \/ CommandsOf(o) = <<o>>
    BY <2>2, <2>3
  <2>6. CASE CommandsOf(o) = <<>>
    BY <2>1, <2>6
  <2>7. CASE CommandsOf(o) = <<o>>
    <3>1. o \in Command
      BY <1>5 DEF Command
    <3>2. <<o>> \in Seq(Command) /\ \A i \in DOMAIN <<o>> : <<o>>[i] = o
      BY <3>1
    <3> QED
      BY <2>1, <2>4, <2>7, <3>2
  <2> QED
    BY <2>5, <2>6, <2>7
<1> QED
  BY <1>1, <1>2, <1>3, <1>4, <1>5 DEF Operation, IsRunStub, IsSecurityInfo

Typed == TypeOK /\ Control

LEMMA ScriptType ==
    ASSUME TypeOK
    PROVE  /\ script \in Seq(Operation) /\ DOMAIN script = 1..Len(script)
           /\ op \in 1..Len(script) /\ Len(script) \in Nat /\ op \in Nat
           /\ script[op] \in Operation
<1>1. script \in Seq(Operation)
  BY SessionAssumption DEF TypeOK
<1>2. op \in 1..Len(script)
  BY DEF TypeOK
<1> QED
  BY <1>1, <1>2

LEMMA FaultType ==
    ASSUME TypeOK, NEW kind \in FaultKind, Fault(kind)
    PROVE  faults' \in Seq(FaultKind)
<1>1. faults' = Append(faults, kind) /\ faults \in Seq(FaultKind)
  BY DEF Fault, TypeOK
<1> QED
  BY <1>1, Added

\* The ways an operation ends.
LEMMA ReturnsType ==
    ASSUME TypeOK, script' = script, NEW success \in BOOLEAN, Returns(success)
    PROVE  /\ op' \in 1..Len(script') /\ fellBack' \in BOOLEAN
           /\ phase' \in {"start", "done", "failed"}
           /\ IF phase' = "start" THEN op' = op + 1 ELSE op' = op
           /\ phase' # "failed" /\ ~success => script[op] \in {"tryStub", "tryInfo", "end"}
<1>1. op \in 1..Len(script) /\ Len(script) \in Nat /\ op \in Nat
  BY ScriptType
<1>2. fellBack \in BOOLEAN
  BY DEF TypeOK
<1>3. CASE success \/ script[op] \in {"tryStub", "tryInfo", "end"}
  <2>1. /\ IF op < Len(script) THEN op' = op + 1 /\ phase' = "start"
                               ELSE op' = op /\ phase' = "done"
        /\ fellBack' = (fellBack \/ (script[op] = "tryStub" /\ ~success))
    BY <1>3 DEF Returns
  <2>2. fellBack' \in BOOLEAN
    BY <2>1
  <2>3. /\ op' \in 1..Len(script) /\ phase' \in {"start", "done"}
        /\ IF phase' = "start" THEN op' = op + 1 ELSE op' = op
    BY <1>1, <2>1
  <2> QED
    BY <1>3, <2>2, <2>3
<1>4. CASE ~(success \/ script[op] \in {"tryStub", "tryInfo", "end"})
  <2>1. phase' = "failed" /\ op' = op /\ fellBack' = fellBack
    BY <1>4 DEF Returns
  <2> QED
    BY <1>1, <1>2, <2>1
<1> QED
  BY <1>3, <1>4

LEMMA Rest ==
    ASSUME phase' \in {"start", "done", "failed"}, await' = FALSE
    PROVE  Control'
  BY DEF Control

\* What a step of the host has to show, the chip being left alone.
LEMMA HostTyped ==
    ASSUME Typed, UNCHANGED <<chip, script>>, known' \in BOOLEAN, stub' \in BOOLEAN,
           op' \in 1..Len(script), todo' \in Seq(Command), await' \in BOOLEAN,
           phase' \in {"start", "reset", "cmd", "drain", "greet", "done", "failed"},
           attempt' \in 0..ConnectAttempts, tries' \in 0..SyncTries,
           scanned' \in 0..(Echoes + Greetings), portBaud' \in {ROMBaud, FastBaud},
           up' \in Seq(Request), down' \in Seq(Frame),
           claimed' \subseteq Command, executed' \subseteq Command, fellBack' \in BOOLEAN,
           faults' \in Seq(FaultKind)
    PROVE  TypeOK'
  BY DEF Typed, TypeOK, Request, chip

LEMMA AwaitedType ==
    ASSUME Typed, await
    PROVE  /\ phase = "cmd" /\ todo # <<>> /\ Head(todo) \in Command
           /\ Head(todo) \in Works(script[op]) /\ Tail(todo) \in Seq(Command)
           /\ Head(todo) \in FaultKind
<1>1. phase = "cmd" /\ todo # <<>> /\ todo \in Seq(Command)
  BY DEF Typed, Control, TypeOK
<1>2. Head(todo) = todo[1] /\ 1 \in DOMAIN todo /\ Head(todo) \in Command /\ Tail(todo) \in Seq(Command)
  BY <1>1, Dropped
<1> QED
  BY <1>1, <1>2 DEF Typed, Control, FaultKind

\* SYNC is Connect's alone, and MEM_END RunStub's.
LEMMA WorksOf ==
    ASSUME NEW o \in Operation, NEW c \in Works(o)
    PROVE  /\ c = "sync" <=> o = "connect"
           /\ c = "memend" => IsRunStub(o)
           /\ c = "baud" => o = "baud"
           /\ c = "security" => o = "identify" \/ IsRunStub(o) \/ IsSecurityInfo(o)
<1>1. CASE o = "connect"
  <2>1. Works(o) = {"sync"}
    BY <1>1, Zenon DEF Works, IsRunStub, IsSecurityInfo
  <2> QED
    BY <1>1, <2>1
<1>2. CASE o = "identify"
  <2>1. ~IsRunStub(o) /\ ~IsSecurityInfo(o) /\ o # "connect"
    BY <1>2 DEF IsRunStub, IsSecurityInfo
  <2>2. Works(o) = {"security", "reg"}
    BY <1>2, <2>1, Zenon DEF Works
  <2> QED
    BY <1>2, <2>2
<1>3. CASE IsRunStub(o)
  <2>1. ~IsSecurityInfo(o) /\ o # "connect" /\ o # "identify"
    BY <1>3 DEF IsRunStub, IsSecurityInfo
  <2>2. Works(o) = {"security", "membegin", "memdata", "memend"}
    BY <1>3, <2>1, Zenon DEF Works
  <2> QED
    BY <1>3, <2>1, <2>2
<1>4. CASE IsSecurityInfo(o)
  <2>1. ~IsRunStub(o) /\ o # "connect" /\ o # "identify"
    BY <1>4 DEF IsRunStub, IsSecurityInfo
  <2>2. Works(o) = {"security"}
    BY <1>4, <2>1, Zenon DEF Works
  <2> QED
    BY <1>4, <2>1, <2>2
<1>5. CASE ~IsRunStub(o) /\ ~IsSecurityInfo(o) /\ o # "connect" /\ o # "identify"
  <2>1. Works(o) = {o}
    BY <1>5, Zenon DEF Works
  <2> QED
    BY <1>5, <2>1 DEF Operation
<1> QED
  BY <1>1, <1>2, <1>3, <1>4, <1>5

\* A failing command leaves the host at rest, or with the next thing to try.
LEMMA CommandFailsTyped ==
    ASSUME Typed, await, NEW rest \in Seq(Frame), CommandFails(rest)
    PROVE  /\ Control' /\ await' = FALSE /\ down' = rest
           /\ op' \in 1..Len(script) /\ todo' \in Seq(Command) /\ tries' \in 0..SyncTries
           /\ phase' \in {"start", "reset", "cmd", "drain", "greet", "done", "failed"}
           /\ fellBack' \in BOOLEAN
<1> DEFINE c == Head(todo)
<1>1. /\ phase = "cmd" /\ todo # <<>> /\ c \in Command /\ c \in Works(script[op])
      /\ todo \in Seq(Command)
  BY AwaitedType DEF Typed, TypeOK
<1>2. /\ c = "sync" <=> script[op] = "connect"
      /\ c = "memend" => IsRunStub(script[op])
  BY <1>1, ScriptType, WorksOf DEF Typed
<1>3. /\ script' = script /\ attempt' = attempt /\ await' = FALSE /\ down' = rest
  BY DEF CommandFails
<1>4. /\ op \in 1..Len(script) /\ fellBack \in BOOLEAN /\ tries \in 0..SyncTries
      /\ script[op] = "connect" => tries < SyncTries
      /\ SyncTries \in Nat
  BY <1>1, SessionAssumption DEF Typed, TypeOK, Control
<1>5. CASE c = "sync" /\ MoreSyncs
  <2>1. tries' = tries + 1 /\ op' = op /\ phase' = phase /\ fellBack' = fellBack /\ todo' = todo
    BY <1>5 DEF CommandFails
  <2>2. tries' < SyncTries /\ tries' \in 0..SyncTries
    BY <1>2, <1>4, <1>5, <2>1 DEF MoreSyncs
  <2>3. ~IsRunStub(script[op]) /\ script[op] # "reset"
    BY <1>2, <1>5 DEF IsRunStub
  <2>4. \A i \in DOMAIN todo : todo[i] \in Works(script[op])
    BY <1>1 DEF Typed, Control
  <2>5. Control'
    BY <1>1, <1>3, <2>1, <2>2, <2>3, <2>4 DEF Control
  <2> QED
    BY <1>1, <1>3, <1>4, <2>1, <2>2, <2>5
<1>6. CASE c = "sync" /\ ~MoreSyncs /\ MoreResets
  <2>1. tries' = tries + 1 /\ op' = op /\ phase' = "reset" /\ fellBack' = fellBack /\ todo' = todo
    BY <1>6 DEF CommandFails
  <2>2. tries' \in 0..SyncTries
    BY <1>2, <1>4, <1>6, <2>1
  <2>3. Control'
    BY <1>2, <1>3, <1>6, <2>1 DEF Control, MoreResets
  <2> QED
    BY <1>1, <1>3, <1>4, <2>1, <2>2, <2>3
<1>7. CASE c = "sync" /\ ~MoreSyncs /\ ~MoreResets
  <2>1. tries' = tries + 1 /\ Returns(FALSE) /\ todo' = todo
    BY <1>7 DEF CommandFails
  <2>2. tries' \in 0..SyncTries
    BY <1>2, <1>4, <1>7, <2>1
  <2> QED
    BY <1>1, <1>3, <2>1, <2>2, ReturnsType, Rest DEF Typed
<1>8. CASE c = "memend"
  <2>1. tries' = tries /\ op' = op /\ phase' = phase /\ fellBack' = fellBack /\ todo' = <<>>
    BY <1>8 DEF CommandFails
  <2>2. script[op] # "connect" /\ script[op] # "reset"
    BY <1>2, <1>8 DEF IsRunStub
  <2>3. todo' \in Seq(Command) /\ \A i \in DOMAIN todo' : FALSE
    BY <2>1
  <2>4. Control'
    BY <1>1, <1>3, <2>1, <2>2, <2>3 DEF Control, EndsInJump
  <2> QED
    BY <1>1, <1>3, <1>4, <2>1, <2>3, <2>4
<1>9. CASE c # "sync" /\ c # "memend"
  <2>1. tries' = tries /\ Returns(FALSE) /\ todo' = <<>>
    BY <1>9 DEF CommandFails
  <2>2. todo' \in Seq(Command)
    BY <2>1
  <2> QED
    BY <1>3, <1>4, <2>1, <2>2, ReturnsType, Rest DEF Typed
<1> QED
  BY <1>5, <1>6, <1>7, <1>8, <1>9

LEMMA StartTyped == ASSUME Typed, StartConnect \/ StartCommands PROVE Typed'
<1> USE DEF Typed
<1>1. CASE StartConnect
  <2>1. TypeOK'
    BY <1>1, SessionAssumption DEF StartConnect, TypeOK, believed, chip, ghosts
  <2>2. Control'
    BY <1>1, SessionAssumption DEF StartConnect, Control
  <2> QED
    BY <2>1, <2>2
<1>2. CASE StartCommands
  <2>1. /\ phase = "start" /\ script[op] \notin {"connect", "reset"}
        /\ UNCHANGED <<script, await, loop, believed, chip, up, down, claimed, executed, faults>>
    BY <1>2 DEF StartCommands
  <2>2. ~await /\ await' = await /\ await \in BOOLEAN
    BY <2>1 DEF Control, TypeOK
  <2>3. script[op] \in Operation \ {"connect", "reset"} /\ stub \in BOOLEAN /\ known \in BOOLEAN
    BY <2>1, ScriptType DEF TypeOK
  <2>4. CASE script[op] \in {"erase", "read"} /\ ~stub
    <3>1. Returns(FALSE) /\ todo' = todo
      BY <1>2, <2>4 DEF StartCommands
    <3>2. /\ op' \in 1..Len(script) /\ fellBack' \in BOOLEAN
          /\ phase' \in {"start", "done", "failed"}
      BY <2>1, <3>1, ReturnsType
    <3>3. Control'
      BY <2>2, <3>2, Rest
    <3> QED
      BY <2>1, <2>2, <3>1, <3>2, <3>3, HostTyped DEF TypeOK, Request, believed, loop
  <2>5. CASE ~(script[op] \in {"erase", "read"} /\ ~stub)
    <3>1. phase' = "cmd" /\ todo' = CommandsOf(script[op]) /\ op' = op /\ fellBack' = fellBack
      BY <1>2, <2>5 DEF StartCommands
    <3>2. /\ todo' \in Seq(Command) /\ \A i \in DOMAIN todo' : todo'[i] \in Works(script[op])
          /\ IsRunStub(script[op]) => EndsInJump'
      BY <2>3, <3>1, CommandsOfType DEF EndsInJump
    <3>3. Control'
      BY <2>1, <2>2, <3>1, <3>2 DEF Control
    <3> QED
      BY <2>1, <2>2, <3>1, <3>2, <3>3, HostTyped DEF TypeOK, Request, believed, loop
  <2> QED
    BY <2>4, <2>5
<1> QED
  BY <1>1, <1>2

LEMMA HardResetTyped == ASSUME Typed, HardReset PROVE Typed'
<1> USE DEF Typed
<1>1. /\ phase = "start" /\ Returns(TRUE) /\ up' = <<>> /\ claimed' = {} /\ executed' = {}
      /\ mode' \in {mode, "app"} /\ chipBaud' \in {chipBaud, ROMBaud}
      /\ logging' \in BOOLEAN
      /\ UNCHANGED <<script, todo, await, loop, believed, supported, down, faults>>
  BY DEF HardReset
<1>2. ~await /\ await' = FALSE
  BY <1>1 DEF Control, TypeOK
<1>3. /\ op' \in 1..Len(script') /\ fellBack' \in BOOLEAN
      /\ phase' \in {"start", "done", "failed"}
  BY <1>1, ReturnsType
<1>4. up' \in Seq([cmd : Command, baud : {ROMBaud, FastBaud}])
  BY <1>1
<1>5. TypeOK'
  BY <1>1, <1>2, <1>3, <1>4 DEF TypeOK, believed, loop
<1> QED
  BY <1>2, <1>3, <1>5, Rest

LEMMA ResetTyped == ASSUME Typed, ResetToBootloader PROVE Typed'
<1> USE DEF Typed
<1>1. /\ phase = "reset" /\ phase' = "cmd" /\ todo' = <<"sync">> /\ up' = <<>> /\ down' = <<>>
      /\ claimed' = {} /\ executed' = {} /\ attempt' = attempt + 1 /\ tries' = 0
      /\ mode' \in {mode, "rom", "app"} /\ chipBaud' \in {chipBaud, ROMBaud}
      /\ logging' \in {logging, FALSE}
      /\ UNCHANGED <<script, op, await, scanned, believed, supported, fellBack>>
  BY DEF ResetToBootloader, NextAttempt, Flushed
<1>2. ~await /\ script[op] = "connect" /\ attempt < ConnectAttempts
  BY <1>1 DEF Control, TypeOK
<1>3. faults' \in Seq(FaultKind)
  <2>1. faults' = faults \/ Fault("strap")
    BY DEF ResetToBootloader
  <2>2. "strap" \in FaultKind
    BY DEF FaultKind
  <2> QED
    BY <2>1, <2>2, FaultType DEF TypeOK
<1>4. /\ todo' \in Seq(Command) /\ todo' # <<>>
      /\ \A i \in DOMAIN todo' : todo'[i] = "sync"
  BY <1>1 DEF Command
<1>5. "sync" \in Works(script[op])
  <2>1. Works(script[op]) = {"sync"}
    BY <1>2, Zenon DEF Works, IsRunStub, IsSecurityInfo
  <2> QED
    BY <2>1
<1>6. Control'
  BY <1>1, <1>2, <1>4, <1>5, SessionAssumption DEF Control, IsRunStub
<1>7. /\ up' \in Seq([cmd : Command, baud : {ROMBaud, FastBaud}]) /\ down' \in Seq(Frame)
  BY <1>1
<1>8. attempt' \in 0..ConnectAttempts /\ tries' \in 0..SyncTries
  BY <1>1, <1>2, SessionAssumption DEF TypeOK
<1>9. TypeOK'
  <2>1. logging' \in BOOLEAN
    BY <1>1 DEF TypeOK
  <2> QED
    BY <1>1, <1>3, <1>4, <1>7, <1>8, <2>1 DEF TypeOK, believed
<1> QED
  BY <1>6, <1>9

LEMMA ContextEndsTyped == ASSUME Typed, ContextEnds PROVE Typed'
<1> USE DEF Typed
<1>1. /\ phase = "reset" /\ Returns(FALSE)
      /\ UNCHANGED <<script, todo, await, loop, believed, chip, up, down, claimed, executed>>
  BY DEF ContextEnds
<1>2. await' = FALSE
  BY <1>1 DEF Control, TypeOK
<1>3. /\ op' \in 1..Len(script) /\ fellBack' \in BOOLEAN
      /\ phase' \in {"start", "done", "failed"}
  BY <1>1, ReturnsType
<1>4. faults' \in Seq(FaultKind)
  BY FaultType DEF ContextEnds, FaultKind
<1>5. Control'
  BY <1>2, <1>3, Rest
<1> QED
  BY <1>1, <1>2, <1>3, <1>4, <1>5, HostTyped DEF TypeOK, Request, believed, loop

LEMMA IssueTyped == ASSUME Typed, Issue PROVE Typed'
<1> USE DEF Typed
<1>1. /\ phase = "cmd" /\ todo # <<>> /\ await'
      /\ UNCHANGED <<script, op, phase, todo, loop, believed, chip, down, ghosts, faults>>
  BY DEF Issue
<1>2. Head(todo) \in Command
  BY <1>1, Dropped DEF TypeOK
<1>3. [cmd |-> Head(todo), baud |-> portBaud] \in Request
  BY <1>2 DEF Request, TypeOK
<1>4. up \in Seq(Request)
  BY DEF TypeOK, Request
<1>5. up' \in Seq(Request)
  BY <1>3, <1>4, Added DEF Issue
<1>6. await' \in BOOLEAN
  BY DEF Issue
<1>7. Control'
  BY <1>1 DEF Control, EndsInJump, loop
<1> QED
  BY <1>1, <1>5, <1>6, <1>7, HostTyped DEF TypeOK, believed, loop, ghosts

LEMMA SkipTyped == ASSUME Typed, Skip PROVE Typed'
<1> USE DEF Typed
<1>1. down # <<>> /\ down' = Tail(down) /\ UNCHANGED <<control, believed, chip, up, ghosts, faults>>
  BY DEF Skip
<1>2. down' \in Seq(Frame)
  BY <1>1, Dropped DEF TypeOK
<1>3. TypeOK'
  BY <1>1, <1>2 DEF TypeOK, control, believed, chip, ghosts, loop
<1>4. Control'
  BY <1>1 DEF Control, EndsInJump, control, loop
<1> QED
  BY <1>3, <1>4

\* A command that is done leaves the rest of its operation.
LEMMA NextCommand ==
    ASSUME Typed, await, Head(todo) # "sync", todo' = Tail(todo), await' = FALSE,
           UNCHANGED <<phase, op, script, tries, attempt>>
    PROVE  Control'
<1>1. /\ phase = "cmd" /\ todo # <<>> /\ Head(todo) \in Works(script[op])
      /\ todo \in Seq(Command)
  BY AwaitedType DEF Typed, TypeOK
<1>2. script[op] # "connect"
  BY <1>1, ScriptType, WorksOf DEF Typed
<1>3. /\ Len(todo) \in Nat \ {0} /\ DOMAIN todo = 1..Len(todo)
      /\ todo' \in Seq(Command) /\ Len(todo') = Len(todo) - 1
      /\ DOMAIN todo' = 1..(Len(todo) - 1)
      /\ \A i \in DOMAIN todo' : i + 1 \in DOMAIN todo /\ todo'[i] = todo[i + 1]
  BY <1>1, Dropped
<1>4. \A i \in DOMAIN todo' : todo'[i] \in Works(script[op])
  BY <1>1, <1>3 DEF Typed, Control
<1>5. IsRunStub(script[op]) => EndsInJump'
  <2> SUFFICES ASSUME IsRunStub(script[op]), NEW i \in DOMAIN todo'
               PROVE  todo'[i] = "memend" <=> i = Len(todo')
    BY DEF EndsInJump
  <2>1. EndsInJump
    BY <1>1 DEF Typed, Control
  <2>2. todo[i + 1] = "memend" <=> i + 1 = Len(todo)
    BY <1>1, <1>3, <2>1 DEF EndsInJump
  <2> QED
    BY <1>3, <2>2
<1> QED
  BY <1>1, <1>2, <1>4, <1>5 DEF Typed, Control

LEMMA AcceptTyped == ASSUME Typed, Accept PROVE Typed'
<1> USE DEF Typed
<1>1. /\ await /\ down # <<>> /\ todo' = Tail(todo) /\ await' = FALSE
      /\ down' \in {<<>>, Tail(down)}
      /\ claimed' = claimed \cup {Head(todo)}
      /\ SyncAccepted \/ ChipIDAccepted \/ BaudAccepted \/ OtherAccepted
      /\ UNCHANGED <<script, attempt, tries, stub, chip, up, executed, faults>>
  BY DEF Accept, Matches, Flushed
<1>2. /\ phase = "cmd" /\ Head(todo) \in Command /\ Tail(todo) \in Seq(Command)
      /\ Head(todo) \in Works(script[op])
  BY <1>1, AwaitedType
<1>3. /\ down' \in Seq(Frame) /\ up \in Seq(Request)
  <2>1. down \in Seq(Frame) /\ up \in Seq(Request)
    BY DEF TypeOK, Request
  <2>2. Tail(down) \in Seq(Frame) /\ <<>> \in Seq(Frame)
    BY <1>1, <2>1, Dropped
  <2> QED
    BY <1>1, <2>1, <2>2
<1>4. claimed' \subseteq Command
  BY <1>1, <1>2 DEF TypeOK
<1>5. /\ op' \in 1..Len(script) /\ fellBack' \in BOOLEAN /\ known' \in BOOLEAN
      /\ phase' \in {"start", "reset", "cmd", "drain", "greet", "done", "failed"}
      /\ scanned' \in 0..(Echoes + Greetings) /\ portBaud' \in {ROMBaud, FastBaud}
      /\ Control'
  <2>1. CASE SyncAccepted
    <3>1. script[op] = "connect"
      BY <1>2, <2>1, ScriptType, WorksOf DEF SyncAccepted
    <3>2. /\ phase' = "drain" /\ scanned' = 0
          /\ UNCHANGED <<op, known, portBaud, fellBack>>
      BY <2>1 DEF SyncAccepted
    <3>3. Control'
      BY <1>1, <3>1, <3>2 DEF Control
    <3> QED
      BY <3>2, <3>3, SessionAssumption DEF TypeOK
  <2>2. CASE ChipIDAccepted /\ supported
    <3>1. known' = TRUE /\ UNCHANGED <<phase, op, fellBack, scanned, portBaud>>
      BY <2>2 DEF ChipIDAccepted
    <3>2. Control'
      BY <1>1, <2>2, <3>1, NextCommand DEF ChipIDAccepted
    <3> QED
      BY <1>2, <3>1, <3>2 DEF TypeOK
  <2>3. CASE ChipIDAccepted /\ ~supported
    <3>1. Returns(FALSE) /\ UNCHANGED <<known, scanned, portBaud>>
      BY <2>3 DEF ChipIDAccepted
    <3>2. /\ op' \in 1..Len(script) /\ fellBack' \in BOOLEAN
          /\ phase' \in {"start", "done", "failed"}
      BY <1>1, <3>1, ReturnsType
    <3>3. Control'
      BY <1>1, <3>2, Rest
    <3> QED
      BY <3>1, <3>2, <3>3 DEF TypeOK
  <2>4. CASE BaudAccepted
    <3>1. portBaud' = FastBaud /\ UNCHANGED <<phase, op, scanned, known, fellBack>>
      BY <2>4 DEF BaudAccepted, NewBaud
    <3>2. Control'
      BY <1>1, <2>4, <3>1, NextCommand DEF BaudAccepted
    <3> QED
      BY <1>2, <3>1, <3>2 DEF TypeOK
  <2>5. CASE OtherAccepted
    <3>1. UNCHANGED <<phase, op, scanned, known, portBaud, fellBack>>
      BY <2>5 DEF OtherAccepted
    <3>2. Control'
      BY <1>1, <2>5, <3>1, NextCommand DEF OtherAccepted
    <3> QED
      BY <1>2, <3>1, <3>2 DEF TypeOK
  <2> QED
    BY <1>1, <2>1, <2>2, <2>3, <2>4, <2>5
<1> QED
  BY <1>1, <1>2, <1>3, <1>4, <1>5, HostTyped DEF TypeOK

LEMMA PortFailsTyped == ASSUME Typed, PortFails PROVE Typed'
<1> USE DEF Typed
<1>1. /\ await /\ down # <<>> /\ Head(todo) = "baud" /\ Returns(FALSE) /\ Fault("port")
      /\ portBaud' \in {portBaud, NewBaud} /\ todo' = <<>> /\ await' = FALSE
      /\ down' = Tail(down) /\ claimed' = claimed \cup {"baud"}
      /\ UNCHANGED <<script, loop, stub, known, chip, up, executed>>
  BY DEF PortFails, Matches
<1>2. /\ op' \in 1..Len(script) /\ fellBack' \in BOOLEAN
      /\ phase' \in {"start", "done", "failed"}
  BY <1>1, ReturnsType
<1>3. down' \in Seq(Frame)
  BY <1>1, Dropped DEF TypeOK
<1>4. /\ todo' \in Seq(Command) /\ claimed' \subseteq Command
      /\ portBaud' \in {ROMBaud, FastBaud}
  BY <1>1 DEF TypeOK, NewBaud, Command
<1>5. faults' \in Seq(FaultKind)
  BY <1>1, FaultType DEF FaultKind
<1>6. Control'
  BY <1>1, <1>2, Rest
<1> QED
  BY <1>1, <1>2, <1>3, <1>4, <1>5, <1>6, HostTyped DEF TypeOK, Request, loop

LEMMA FailTyped ==
    ASSUME Typed, await, NEW rest \in Seq(Frame), CommandFails(rest), faults' \in Seq(FaultKind)
    PROVE  Typed'
<1>1. UNCHANGED <<script, attempt, scanned, believed, chip, up, claimed, executed>>
  BY DEF CommandFails
<1>2. up \in Seq(Request)
  BY DEF Typed, TypeOK, Request
<1>3. /\ Control' /\ await' = FALSE /\ down' \in Seq(Frame)
      /\ op' \in 1..Len(script) /\ todo' \in Seq(Command) /\ tries' \in 0..SyncTries
      /\ phase' \in {"start", "reset", "cmd", "drain", "greet", "done", "failed"}
      /\ fellBack' \in BOOLEAN
  BY CommandFailsTyped
<1> QED
  BY <1>1, <1>2, <1>3, HostTyped DEF Typed, TypeOK, believed

LEMMA RejectTyped == ASSUME Typed, Reject PROVE Typed'
<1>1. await /\ down # <<>> /\ faults' = faults
  BY DEF Reject, Matches
<1>2. Tail(down) \in Seq(Frame) /\ faults' \in Seq(FaultKind)
  BY <1>1, Dropped DEF Typed, TypeOK
<1>3. CommandFails(Tail(down))
  BY DEF Reject
<1> QED
  BY <1>1, <1>2, <1>3, FailTyped

LEMMA TimeoutTyped == ASSUME Typed, Timeout PROVE Typed'
<1>1. await /\ (faults' = faults \/ Fault(Head(todo)))
  BY DEF Timeout
<1>2. down \in Seq(Frame) /\ faults' \in Seq(FaultKind)
  BY <1>1, AwaitedType, FaultType DEF Typed, TypeOK
<1>3. CommandFails(down)
  BY DEF Timeout
<1> QED
  BY <1>1, <1>2, <1>3, FailTyped

LEMMA CommandsDoneTyped == ASSUME Typed, CommandsDone PROVE Typed'
<1> USE DEF Typed
<1>1. /\ phase = "cmd" /\ todo = <<>>
      /\ UNCHANGED <<script, todo, await, attempt, tries, believed, chip, up, down, claimed,
                     executed, faults>>
  BY DEF CommandsDone
<1>2. await' = FALSE
  BY <1>1 DEF Control, TypeOK
<1>3. CASE IsRunStub(script[op]) /\ ~stub
  <2>1. phase' = "greet" /\ scanned' = 0 /\ op' = op /\ fellBack' = fellBack
    BY <1>3 DEF CommandsDone
  <2>2. Control'
    BY <1>1, <1>2, <1>3, <2>1 DEF Control
  <2> QED
    BY <1>1, <1>2, <2>1, <2>2, HostTyped, SessionAssumption DEF TypeOK, Request, believed
<1>4. CASE ~(IsRunStub(script[op]) /\ ~stub)
  <2>1. Returns(TRUE) /\ scanned' = scanned
    BY <1>4 DEF CommandsDone
  <2>2. /\ op' \in 1..Len(script) /\ fellBack' \in BOOLEAN
        /\ phase' \in {"start", "done", "failed"}
    BY <1>1, <2>1, ReturnsType
  <2>3. Control'
    BY <1>2, <2>2, Rest
  <2> QED
    BY <1>1, <1>2, <2>1, <2>2, <2>3, HostTyped DEF TypeOK, Request, believed
<1> QED
  BY <1>3, <1>4

LEMMA DrainTyped == ASSUME Typed, Drain PROVE Typed'
<1> USE DEF Typed
<1>1. /\ phase = "drain"
      /\ UNCHANGED <<script, todo, await, attempt, tries, believed, chip, up, claimed, executed>>
  BY DEF Drain
<1>2. await' = FALSE /\ script[op] = "connect"
  BY <1>1 DEF Control, TypeOK
<1>3. CASE down # <<>> /\ scanned < Echoes
  <2>1. down' = Tail(down) /\ scanned' = scanned + 1 /\ UNCHANGED <<op, phase, fellBack, faults>>
    BY <1>3 DEF Drain
  <2>2. down' \in Seq(Frame)
    BY <1>3, <2>1, Dropped DEF TypeOK
  <2>3. scanned' \in 0..(Echoes + Greetings)
    BY <1>3, <2>1, SessionAssumption DEF TypeOK
  <2>4. Control'
    BY <1>1, <1>2, <2>1 DEF Control
  <2> QED
    BY <1>1, <1>2, <2>1, <2>2, <2>3, <2>4, HostTyped DEF TypeOK, Request, believed
<1>4. CASE ~(down # <<>> /\ scanned < Echoes)
  <2>1. Returns(TRUE) /\ down' = down /\ scanned' = scanned
    BY <1>4 DEF Drain
  <2>2. /\ op' \in 1..Len(script) /\ fellBack' \in BOOLEAN
        /\ phase' \in {"start", "done", "failed"}
    BY <1>1, <2>1, ReturnsType
  <2>3. faults' \in Seq(FaultKind)
    <3>1. faults' = faults \/ Fault("sync")
      BY <1>4 DEF Drain
    <3>2. "sync" \in FaultKind
      BY DEF FaultKind, Command
    <3> QED
      BY <3>1, <3>2, FaultType DEF TypeOK
  <2>4. Control'
    BY <1>2, <2>2, Rest
  <2> QED
    BY <1>1, <1>2, <2>1, <2>2, <2>3, <2>4, HostTyped DEF TypeOK, Request, believed
<1> QED
  BY <1>3, <1>4

LEMMA GreetTyped == ASSUME Typed, Greeted \/ GreetingFails PROVE Typed'
<1> USE DEF Typed
<1>1. /\ phase = "greet"
      /\ UNCHANGED <<script, todo, await, attempt, tries, known, portBaud, chip, up, claimed,
                     executed>>
  BY DEF Greeted, GreetingFails, loop, believed
<1>2. await' = FALSE /\ IsRunStub(script[op])
  BY <1>1 DEF Control, TypeOK
<1>3. CASE Greeted
  <2>1. /\ down # <<>> /\ scanned < Greetings /\ down' = Tail(down) /\ scanned' = scanned + 1
        /\ faults' = faults
    BY <1>3 DEF Greeted
  <2>2. down' \in Seq(Frame)
    BY <2>1, Dropped DEF TypeOK
  <2>3. scanned' \in 0..(Echoes + Greetings)
    BY <2>1, SessionAssumption DEF TypeOK
  <2>4. CASE Greets(Head(down))
    <3>1. stub' = TRUE /\ Returns(TRUE)
      BY <1>3, <2>4 DEF Greeted
    <3>2. /\ op' \in 1..Len(script) /\ fellBack' \in BOOLEAN
          /\ phase' \in {"start", "done", "failed"}
      BY <1>1, <3>1, ReturnsType
    <3>3. Control'
      BY <1>2, <3>2, Rest
    <3> QED
      BY <1>1, <1>2, <2>1, <2>2, <2>3, <3>1, <3>2, <3>3, HostTyped DEF TypeOK, Request
  <2>5. CASE ~Greets(Head(down))
    <3>1. UNCHANGED <<stub, op, phase, fellBack>>
      BY <1>3, <2>5 DEF Greeted
    <3>2. Control'
      BY <1>1, <1>2, <3>1 DEF Control
    <3> QED
      BY <1>1, <1>2, <2>1, <2>2, <2>3, <3>1, <3>2, HostTyped DEF TypeOK, Request
  <2> QED
    BY <2>4, <2>5
<1>4. CASE GreetingFails
  <2>1. Returns(FALSE) /\ UNCHANGED <<stub, scanned, down>>
    BY <1>4 DEF GreetingFails, believed, loop
  <2>2. /\ op' \in 1..Len(script) /\ fellBack' \in BOOLEAN
        /\ phase' \in {"start", "done", "failed"}
    BY <1>1, <2>1, ReturnsType
  <2>3. faults' \in Seq(FaultKind)
    <3>1. faults' = faults \/ Fault("OHAI")
      BY <1>4 DEF GreetingFails
    <3>2. "OHAI" \in FaultKind
      BY DEF FaultKind
    <3> QED
      BY <3>1, <3>2, FaultType DEF TypeOK
  <2>4. Control'
    BY <1>2, <2>2, Rest
  <2> QED
    BY <1>1, <1>2, <2>1, <2>2, <2>3, <2>4, HostTyped DEF TypeOK, Request
<1> QED
  BY <1>3, <1>4

\* The steps that are not the host's leave its program and its beliefs alone.
LEMMA OthersTyped ==
    ASSUME Typed, UNCHANGED <<control, believed, supported, claimed, fellBack>>,
           mode' \in {"app", "rom", "booting", "stub", "crashed"}, logging' \in BOOLEAN,
           chipBaud' \in {ROMBaud, FastBaud}, up' \in Seq(Request), down' \in Seq(Frame),
           executed' \subseteq Command, faults' \in Seq(FaultKind)
    PROVE  Typed'
<1>1. TypeOK'
  BY DEF Typed, TypeOK, Request, control, loop, believed
<1>2. Control'
  BY DEF Typed, Control, EndsInJump, control, loop
<1> QED
  BY <1>1, <1>2 DEF Typed

LEMMA SendType ==
    ASSUME NEW frames \in Seq(Frame), down \in Seq(Frame), Send(frames)
    PROVE  down' \in Seq(Frame) /\ (down' = down \/ down' = down \o frames)
<1>1. down \o frames \in Seq(Frame)
  BY Joined
<1> QED
  BY <1>1 DEF Send

LEMMA RequestType ==
    ASSUME TypeOK, up # <<>>
    PROVE  /\ up \in Seq(Request) /\ Tail(up) \in Seq(Request) /\ Req \in Request
           /\ Req = up[1] /\ 1 \in DOMAIN up
           /\ \A i \in DOMAIN Tail(up) : i + 1 \in DOMAIN up /\ Tail(up)[i] = up[i + 1]
           /\ Req.cmd \in Command /\ Req.cmd \in FaultKind
           /\ ChipWidth \in {2, 4} /\ \A ok \in BOOLEAN : Answer(ok) \in Frame
<1>1. up \in Seq(Request)
  BY DEF TypeOK, Request
<1>2. /\ Tail(up) \in Seq(Request) /\ Req \in Request /\ Req = up[1] /\ 1 \in DOMAIN up
      /\ \A i \in DOMAIN Tail(up) : i + 1 \in DOMAIN up /\ Tail(up)[i] = up[i + 1]
  BY <1>1, Dropped DEF Req
<1>3. ChipWidth \in {2, 4}
  BY DEF ChipWidth
<1>4. Req.cmd \in Command /\ Req.cmd \in FaultKind
  BY <1>2 DEF Request, FaultKind
<1>5. \A ok \in BOOLEAN : Answer(ok) \in Frame
  BY <1>3, <1>4 DEF Answer, Frame
<1> QED
  BY <1>1, <1>2, <1>3, <1>4, <1>5

\* The frames a request is answered with.
LEMMA Answers ==
    ASSUME TypeOK, up # <<>>, NEW ok \in BOOLEAN
    PROVE  <<Answer(ok)>> \in Seq(Frame) /\ Repeat(Answer(TRUE), 1 + Echoes) \in Seq(Frame)
<1>1. Answer(ok) \in Frame /\ Answer(TRUE) \in Frame
  BY RequestType
<1>2. 1 + Echoes \in Nat
  BY SessionAssumption
<1>3. \A a \in Frame : <<a>> \in Seq(Frame)
  OBVIOUS
<1> HIDE DEF Frame
<1> QED
  BY <1>1, <1>2, <1>3, Repeated

LEMMA ChipTyped == ASSUME Typed, Chip PROVE Typed'
<1> USE DEF Typed
<1>0. /\ mode \in {"app", "rom", "booting", "stub", "crashed"} /\ logging \in BOOLEAN
      /\ chipBaud \in {ROMBaud, FastBaud} /\ up \in Seq(Request) /\ down \in Seq(Frame)
      /\ executed \subseteq Command /\ faults \in Seq(FaultKind)
  BY DEF TypeOK, Request
<1>1. CASE ChipDeaf
  <2>1. up # <<>> /\ up' = Tail(up) /\ UNCHANGED <<control, believed, chip, down, ghosts, faults>>
    BY <1>1 DEF ChipDeaf
  <2>2. up' \in Seq(Request)
    BY <2>1, RequestType
  <2> QED
    BY <1>0, <2>1, <2>2, OthersTyped DEF chip, ghosts
<1>2. CASE ChipSync
  <2>1. /\ up # <<>> /\ up' = Tail(up) /\ Send(Repeat(Answer(TRUE), 1 + Echoes))
        /\ executed' = executed \cup {"sync"}
        /\ UNCHANGED <<control, believed, chip, claimed, fellBack, faults>>
    BY <1>2 DEF ChipSync
  <2>2. up' \in Seq(Request)
    BY <2>1, RequestType
  <2>3. down' \in Seq(Frame)
    BY <1>0, <2>1, Answers, SendType
  <2>4. executed' \subseteq Command
    BY <1>0, <2>1 DEF Command
  <2> QED
    BY <1>0, <2>1, <2>2, <2>3, <2>4, OthersTyped DEF chip
<1>3. CASE ChipExecutes
  <2>1. /\ up # <<>> /\ up' = Tail(up) /\ Send(<<Answer(Capable)>>)
        /\ executed' \in {executed, executed \cup {Req.cmd}}
        /\ chipBaud' \in {FastBaud, chipBaud}
        /\ UNCHANGED <<control, believed, mode, supported, logging, claimed, fellBack, faults>>
    BY <1>3 DEF ChipExecutes
  <2>2. up' \in Seq(Request) /\ Req.cmd \in Command
    BY <2>1, RequestType
  <2>3. Capable \in BOOLEAN
    BY DEF Capable
  <2>4. down' \in Seq(Frame)
    BY <1>0, <2>1, <2>3, Answers, SendType
  <2>5. executed' \subseteq Command
    BY <1>0, <2>1, <2>2
  <2> QED
    BY <1>0, <2>1, <2>2, <2>4, <2>5, OthersTyped
<1>4. CASE ChipMemEnd
  <2>1. /\ up # <<>> /\ up' = Tail(up) /\ executed' = executed \cup {"memend"}
        /\ mode' \in {"booting", "crashed"}
        /\ Send(<<Answer(TRUE)>>) \/ down' = down
        /\ faults' = faults \/ Fault("memend") \/ Fault("crash")
        /\ UNCHANGED <<control, believed, chipBaud, supported, logging, claimed, fellBack>>
    BY <1>4 DEF ChipMemEnd
  <2>2. up' \in Seq(Request)
    BY <2>1, RequestType
  <2>3. down' \in Seq(Frame)
    BY <1>0, <2>1, Answers, SendType
  <2>4. executed' \subseteq Command
    BY <1>0, <2>1 DEF Command
  <2>5. faults' \in Seq(FaultKind)
    <3>1. "memend" \in FaultKind /\ "crash" \in FaultKind
      BY DEF FaultKind, Command
    <3> QED
      BY <1>0, <2>1, <3>1, FaultType
  <2> QED
    BY <1>0, <2>1, <2>2, <2>3, <2>4, <2>5, OthersTyped
<1>5. CASE ChipGreets
  <2> DEFINE hello == [cmd |-> "OHAI", ok |-> TRUE, width |-> 2]
  <2>1. /\ mode' = "stub" /\ Send(<<hello>>)
        /\ UNCHANGED <<control, believed, chipBaud, supported, logging, up, ghosts, faults>>
    BY <1>5 DEF ChipGreets
  <2>2. <<hello>> \in Seq(Frame)
    BY DEF Frame
  <2>3. down' \in Seq(Frame)
    BY <1>0, <2>1, <2>2, SendType
  <2> QED
    BY <1>0, <2>1, <2>3, OthersTyped DEF ghosts
<1> QED
  BY <1>1, <1>2, <1>3, <1>4, <1>5 DEF Chip

LEMMA LinkTyped == ASSUME Typed, Link PROVE Typed'
<1> USE DEF Typed
<1>0. /\ mode \in {"app", "rom", "booting", "stub", "crashed"} /\ logging \in BOOLEAN
      /\ chipBaud \in {ROMBaud, FastBaud} /\ up \in Seq(Request) /\ down \in Seq(Frame)
      /\ executed \subseteq Command /\ faults \in Seq(FaultKind)
  BY DEF TypeOK, Request
<1>1. CASE LoseRequest
  <2>1. /\ up # <<>> /\ up' = Tail(up) /\ Fault(Req.cmd)
        /\ UNCHANGED <<control, believed, chip, down, ghosts>>
    BY <1>1 DEF LoseRequest
  <2>2. up' \in Seq(Request) /\ faults' \in Seq(FaultKind)
    BY <2>1, RequestType, FaultType
  <2> QED
    BY <1>0, <2>1, <2>2, OthersTyped DEF chip, ghosts
<1>2. CASE LoseResponse
  <2>1. /\ down # <<>> /\ down' = Tail(down) /\ Fault(Head(down).cmd)
        /\ UNCHANGED <<control, believed, chip, up, ghosts>>
    BY <1>2 DEF LoseResponse
  <2>2. down' \in Seq(Frame) /\ Head(down) \in Frame
    BY <1>0, <2>1, Dropped
  <2>3. Head(down).cmd \in FaultKind
    BY <2>2 DEF Frame, FaultKind
  <2>4. faults' \in Seq(FaultKind)
    BY <2>1, <2>3, FaultType
  <2> QED
    BY <1>0, <2>1, <2>2, <2>4, OthersTyped DEF chip, ghosts
<1>3. CASE RefuseRequest
  <2>1. /\ up # <<>> /\ up' = Tail(up) /\ Fault(Req.cmd) /\ Send(<<Answer(FALSE)>>)
        /\ UNCHANGED <<control, believed, chip, ghosts>>
    BY <1>3 DEF RefuseRequest
  <2>2. up' \in Seq(Request) /\ faults' \in Seq(FaultKind)
    BY <2>1, RequestType, FaultType
  <2>3. down' \in Seq(Frame)
    BY <1>0, <2>1, Answers, SendType
  <2> QED
    BY <1>0, <2>1, <2>2, <2>3, OthersTyped DEF chip, ghosts
<1>4. CASE Unplug
  <2>1. /\ up' = <<>> /\ Fault("unplug")
        /\ UNCHANGED <<control, believed, chip, down, ghosts>>
    BY <1>4 DEF Unplug
  <2>2. "unplug" \in FaultKind /\ up' \in Seq(Request)
    BY <2>1 DEF FaultKind
  <2>3. faults' \in Seq(FaultKind)
    BY <2>1, <2>2, FaultType
  <2> QED
    BY <1>0, <2>1, <2>2, <2>3, OthersTyped DEF chip, ghosts
<1> QED
  BY <1>1, <1>2, <1>3, <1>4 DEF Link

LEMMA FirmwareTyped == ASSUME Typed, FirmwareLogs PROVE Typed'
<1>1. /\ logging' = ~logging
      /\ UNCHANGED <<control, believed, mode, chipBaud, supported, up, down, ghosts, faults>>
  BY DEF FirmwareLogs
<1>2. /\ mode \in {"app", "rom", "booting", "stub", "crashed"} /\ logging' \in BOOLEAN
      /\ chipBaud \in {ROMBaud, FastBaud} /\ up \in Seq(Request) /\ down \in Seq(Frame)
      /\ executed \subseteq Command /\ faults \in Seq(FaultKind)
  BY <1>1 DEF Typed, TypeOK, Request
<1> QED
  BY <1>1, <1>2, OthersTyped DEF ghosts

LEMMA InitTyped == ASSUME Init PROVE Typed
<1>1. script \in Seq(Operation) /\ script # <<>>
  BY SessionAssumption DEF Init
<1>2. op \in 1..Len(script)
  BY <1>1 DEF Init
<1>3. TypeOK
  <2>1. /\ todo \in Seq(Command) /\ up \in Seq([cmd : Command, baud : {ROMBaud, FastBaud}])
        /\ down \in Seq(Frame) /\ faults \in Seq(FaultKind)
    BY DEF Init
  <2>2. /\ attempt \in 0..ConnectAttempts /\ tries \in 0..SyncTries
        /\ scanned \in 0..(Echoes + Greetings)
    BY SessionAssumption DEF Init
  <2> QED
    BY <1>2, <2>1, <2>2 DEF Init, TypeOK
<1>4. Control
  BY DEF Init, Control
<1> QED
  BY <1>3, <1>4 DEF Typed

LEMMA NextTyped == ASSUME Typed, [Next]_vars PROVE Typed'
<1>1. CASE Host
  BY <1>1, StartTyped, HardResetTyped, ResetTyped, ContextEndsTyped, IssueTyped, SkipTyped,
     AcceptTyped, PortFailsTyped, RejectTyped, TimeoutTyped, CommandsDoneTyped, DrainTyped,
     GreetTyped DEF Host
<1>2. CASE UNCHANGED vars
  BY <1>2 DEF Typed, TypeOK, Control, EndsInJump, vars, control, loop, believed, chip, ghosts
<1> QED
  BY <1>1, <1>2, ChipTyped, LinkTyped, FirmwareTyped DEF Next

\* Every variable keeps its type through every operation, fault and retry; the
\* counters of Connect's and RunStub's loops stay within their limits.
THEOREM TypeCorrect == Spec => []TypeOK
<1>1. Init => Typed
  BY InitTyped
<1>2. Typed /\ [Next]_vars => Typed'
  BY NextTyped
<1>3. Typed => TypeOK
  BY DEF Typed
<1> QED
  BY <1>1, <1>2, <1>3, PTL DEF Spec

-----------------------------------------------------------------------------
(* The link. *)

\* What the host does to the frames that wait for it: it reads one, or flushes all.
Reads == down' = down \/ down' = <<>> \/ (down # <<>> /\ down' = Tail(down))

LEMMA ReadsLeave ==
    ASSUME TypeOK, Reads
    PROVE  \E k \in Nat :
              /\ DOMAIN down = 1..Len(down) /\ DOMAIN down' = 1..Len(down')
              /\ Len(down) \in Nat /\ Len(down') \in Nat /\ Len(down') + k = Len(down)
              /\ \A i \in DOMAIN down' : i + k \in DOMAIN down /\ down'[i] = down[i + k]
<1>1. down \in Seq(Frame)
  BY DEF TypeOK
<1> HIDE DEF Frame
<1>2. CASE down' = down
  <2>1. \A i \in DOMAIN down' : i + 0 \in DOMAIN down /\ down'[i] = down[i + 0]
    BY <1>1, <1>2
  <2> QED
    BY <1>1, <1>2, <2>1
<1>3. CASE down' = <<>>
  <2>1. Len(down') = 0 /\ DOMAIN down' = {}
    BY <1>3
  <2> QED
    BY <1>1, <2>1
<1>4. CASE down # <<>> /\ down' = Tail(down)
  <2>1. /\ Len(down) \in Nat \ {0} /\ Len(down') = Len(down) - 1
        /\ DOMAIN down = 1..Len(down) /\ DOMAIN down' = 1..(Len(down) - 1)
        /\ \A i \in DOMAIN down' : i + 1 \in DOMAIN down /\ down'[i] = down[i + 1]
    BY <1>1, <1>4, Dropped
  <2> QED
    BY <2>1
<1> QED
  BY <1>2, <1>3, <1>4 DEF Reads

\* Fewer frames to read.
LEMMA FewerResponses ==
    ASSUME TypeOK, LinkInv, Reads, UNCHANGED <<mode, chipBaud, executed, up>>
    PROVE  LinkInv'
<1>1. PICK k \in Nat :
          /\ DOMAIN down = 1..Len(down) /\ DOMAIN down' = 1..Len(down')
          /\ Len(down) \in Nat /\ Len(down') \in Nat /\ Len(down') + k = Len(down)
          /\ \A i \in DOMAIN down' : i + k \in DOMAIN down /\ down'[i] = down[i + k]
  BY ReadsLeave
<1>2. NoMemEnd' <=> NoMemEnd
  BY DEF NoMemEnd
<1>3. Greeting'
  <2> SUFFICES ASSUME NEW i \in DOMAIN down', down'[i].cmd = "OHAI"
               PROVE  mode' = "stub" /\ NoMemEnd' /\ \A j \in i..Len(down') : down'[j].width = 2
    BY DEF Greeting
  <2>1. /\ mode = "stub" /\ NoMemEnd
        /\ \A j \in (i + k)..Len(down) : down[j].width = 2
    BY <1>1 DEF LinkInv, Greeting
  <2>2. ASSUME NEW j \in i..Len(down') PROVE down'[j].width = 2
    <3>1. j \in DOMAIN down' /\ j + k \in (i + k)..Len(down)
      BY <1>1
    <3> QED
      BY <1>1, <2>1, <3>1
  <2> QED
    BY <1>2, <2>1, <2>2
<1>4. OneJump'
  BY <1>2 DEF LinkInv, OneJump
<1>5. Answered'
  BY <1>1 DEF LinkInv, Answered
<1> QED
  BY <1>3, <1>4, <1>5 DEF LinkInv

\* Fewer requests to serve.
LEMMA FewerRequests ==
    ASSUME TypeOK, LinkInv, up' = <<>> \/ (up # <<>> /\ up' = Tail(up)),
           UNCHANGED <<mode, chipBaud, executed, down>>
    PROVE  LinkInv' /\ (NoMemEnd => NoMemEnd')
<1>1. \A i \in DOMAIN up' : i + 1 \in DOMAIN up /\ up'[i] = up[i + 1] /\ i \in Nat
  <2>1. CASE up' = <<>>
    BY <2>1
  <2>2. CASE up # <<>> /\ up' = Tail(up)
    <3>1. up \in Seq(Request)
      BY DEF TypeOK, Request
    <3> QED
      BY <2>2, <3>1, Dropped
  <2> QED
    BY <2>1, <2>2
<1>2. NoMemEnd => NoMemEnd'
  BY <1>1 DEF NoMemEnd
<1>3. Greeting'
  BY <1>2 DEF LinkInv, Greeting
<1>4. OneJump'
  <2>1. \A i, j \in DOMAIN up' : up'[i].cmd = "memend" /\ up'[j].cmd = "memend" => i = j
    <3> SUFFICES ASSUME NEW i \in DOMAIN up', NEW j \in DOMAIN up',
                        up'[i].cmd = "memend", up'[j].cmd = "memend"
                 PROVE  i = j
      OBVIOUS
    <3>1. i + 1 = j + 1
      BY <1>1 DEF LinkInv, OneJump
    <3> QED
      BY <1>1, <3>1
  <2> QED
    BY <1>2, <2>1 DEF LinkInv, OneJump
<1>5. Answered'
  BY DEF LinkInv, Answered
<1> QED
  BY <1>2, <1>3, <1>4, <1>5 DEF LinkInv

\* A request served, with frames that answer it.
LEMMA Responds ==
    ASSUME TypeOK, LinkInv, up # <<>>, up' = Tail(up), mode' = mode,
           NEW frames \in Seq(Frame), Send(frames),
           \A i \in DOMAIN frames :
               /\ frames[i].cmd = Req.cmd /\ frames[i].width = ChipWidth
               /\ frames[i].ok => /\ Req.cmd \in executed'
                                  /\ Req.cmd = "baud" => chipBaud' = FastBaud,
           executed \subseteq executed', chipBaud' \in {chipBaud, FastBaud}
    PROVE  LinkInv' /\ (NoMemEnd => NoMemEnd')
<1>1. /\ Req.cmd \in Command /\ \A i \in DOMAIN up' : i + 1 \in DOMAIN up /\ up'[i] = up[i + 1]
  BY RequestType
<1>2. NoMemEnd => NoMemEnd'
  BY <1>1 DEF NoMemEnd
<1>3. down \in Seq(Frame) /\ Req.cmd # "OHAI"
  BY <1>1 DEF TypeOK, Command
<1> DEFINE n == Len(down)
           Old(i) == i \in 1..n /\ down'[i] = down[i]
           New(i) == i > n /\ i - n \in DOMAIN frames /\ down'[i] = frames[i - n]
<1>4. /\ n \in Nat /\ DOMAIN down = 1..n /\ Len(down') \in Nat /\ DOMAIN down' = 1..Len(down')
      /\ Len(down') >= n /\ \A i \in 1..Len(down') : Old(i) \/ New(i)
  <2>1. down' = down \/ down' = down \o frames
    BY <1>3, SendType
  <2>2. CASE down' = down
    BY <1>3, <2>2
  <2>3. CASE down' = down \o frames
    <3>1. /\ n \in Nat /\ Len(frames) \in Nat /\ Len(down') = n + Len(frames)
          /\ DOMAIN down = 1..n /\ DOMAIN down' = 1..(n + Len(frames))
          /\ \A i \in 1..n : down'[i] = down[i]
          /\ \A i \in 1..(n + Len(frames)) : i > n =>
                 i - n \in DOMAIN frames /\ down'[i] = frames[i - n]
      BY <1>3, <2>3, Joined
    <3> QED
      BY <3>1
  <2> QED
    BY <2>1, <2>2, <2>3
<1>5. Greeting'
  <2> SUFFICES ASSUME NEW i \in DOMAIN down', down'[i].cmd = "OHAI"
               PROVE  mode' = "stub" /\ NoMemEnd' /\ \A j \in i..Len(down') : down'[j].width = 2
    BY DEF Greeting
  <2>1. i \in 1..n /\ down[i].cmd = "OHAI"
    <3>1. ~New(i)
      BY <1>3
    <3> QED
      BY <1>4, <3>1
  <2>2. mode = "stub" /\ NoMemEnd /\ \A j \in i..n : down[j].width = 2
    BY <1>4, <2>1 DEF LinkInv, Greeting
  <2>3. ASSUME NEW j \in i..Len(down') PROVE down'[j].width = 2
    <3>1. j \in 1..Len(down')
      BY <1>4
    <3>2. CASE Old(j)
      BY <2>2, <3>2
    <3>3. CASE New(j)
      BY <2>2, <3>3 DEF ChipWidth
    <3> QED
      BY <1>4, <3>1, <3>2, <3>3
  <2> QED
    BY <1>2, <2>2, <2>3
<1>6. OneJump'
  <2>1. \A i, j \in DOMAIN up' : up'[i].cmd = "memend" /\ up'[j].cmd = "memend" => i = j
    <3> SUFFICES ASSUME NEW i \in DOMAIN up', NEW j \in DOMAIN up',
                        up'[i].cmd = "memend", up'[j].cmd = "memend"
                 PROVE  i = j
      OBVIOUS
    <3>1. i + 1 = j + 1 /\ i \in Nat /\ j \in Nat
      <4>1. Tail(up) \in Seq(Request)
        BY RequestType
      <4> QED
        BY <1>1, <4>1 DEF LinkInv, OneJump
    <3> QED
      BY <3>1
  <2> QED
    BY <1>2, <2>1 DEF LinkInv, OneJump
<1>7. Answered'
  <2> SUFFICES ASSUME NEW i \in DOMAIN down', down'[i].ok
               PROVE  /\ down'[i].cmd \in executed' \cup {"OHAI"}
                      /\ down'[i].cmd = "baud" => chipBaud' = FastBaud
    BY DEF Answered
  <2>1. CASE Old(i)
    BY <1>4, <2>1 DEF LinkInv, Answered
  <2>2. CASE New(i)
    BY <2>2
  <2> QED
    BY <1>4, <2>1, <2>2
<1> QED
  BY <1>2, <1>5, <1>6, <1>7 DEF LinkInv

-----------------------------------------------------------------------------
(* Steps of the chip and of the link. *)

LEMMA HostStill ==
    ASSUME UNCHANGED <<control, believed>>, SessionInv
    PROVE  /\ Jumped' = Jumped /\ Past' = Past /\ ChangingBaud' = ChangingBaud /\ NeedsStub'
           /\ UNCHANGED <<script, op, phase, todo, await, stub, portBaud>>
<1>1. UNCHANGED <<script, op, phase, todo, await, stub, portBaud>>
  BY DEF control, believed
<1> QED
  BY <1>1 DEF Jumped, Past, ChangingBaud, SessionInv, NeedsStub

\* Nothing is on its way to or from a chip that Connect has not reached.
LEMMA DeadLink == Dead => up = <<>> /\ down = <<>> /\ mode # "booting"
  BY DEF Dead

\* A request lost, or not heard.
LEMMA RequestGone ==
    ASSUME Typed, LinkInv, SessionInv, up # <<>>, up' = Tail(up),
           UNCHANGED <<control, believed, chip, executed, down>>
    PROVE  LinkInv' /\ SessionInv'
<1>1. /\ Jumped' = Jumped /\ Past' = Past /\ ChangingBaud' = ChangingBaud /\ NeedsStub'
      /\ UNCHANGED <<script, op, phase, todo, await, stub, portBaud, mode, chipBaud>>
  BY HostStill DEF chip
<1>2. LinkInv' /\ (NoMemEnd => NoMemEnd')
  BY <1>1, FewerRequests DEF Typed
<1>3. ~Dead
  BY DeadLink
<1>4. Untouched'
  BY <1>1, <1>2, <1>3 DEF SessionInv, Untouched, Fresh
<1>5. Switched'
  BY <1>1, <1>2 DEF SessionInv, Switched
<1>6. Bauds'
  <2>1. \A i \in DOMAIN up' : i + 1 \in DOMAIN up /\ up'[i] = up[i + 1]
    BY RequestType DEF Typed
  <2> QED
    BY <1>1, <1>3, <2>1 DEF SessionInv, Bauds
<1> QED
  BY <1>1, <1>2, <1>4, <1>5, <1>6 DEF SessionInv

\* A request answered by the loader that runs, which goes on running.
LEMMA RequestServed ==
    ASSUME Typed, LinkInv, SessionInv, up # <<>>, up' = Tail(up), mode' = mode,
           UNCHANGED <<control, believed>>,
           NEW frames \in Seq(Frame), Send(frames),
           \A i \in DOMAIN frames :
               /\ frames[i].cmd = Req.cmd /\ frames[i].width = ChipWidth
               /\ frames[i].ok => /\ Req.cmd \in executed'
                                  /\ Req.cmd = "baud" => chipBaud' = FastBaud,
           executed \subseteq executed',
           chipBaud' = chipBaud \/ (Req.cmd = "baud" /\ chipBaud' = FastBaud)
    PROVE  LinkInv' /\ SessionInv'
<1>1. /\ Jumped' = Jumped /\ Past' = Past /\ ChangingBaud' = ChangingBaud /\ NeedsStub'
      /\ UNCHANGED <<script, op, phase, todo, await, stub, portBaud>>
  BY HostStill
<1>2. LinkInv' /\ (NoMemEnd => NoMemEnd')
  BY Responds DEF Typed
<1>3. ~Dead
  BY DeadLink
<1>4. /\ Req = up[1] /\ 1 \in DOMAIN up /\ Req.cmd # "OHAI"
      /\ \A i \in DOMAIN up' : i + 1 \in DOMAIN up /\ up'[i] = up[i + 1]
  BY RequestType DEF Typed, Command
<1>5. \A i \in DOMAIN down' :
          \/ i \in DOMAIN down /\ down'[i] = down[i]
          \/ down'[i].cmd # "OHAI" /\ down'[i].width = ChipWidth
  <2>1. down \in Seq(Frame)
    BY DEF Typed, TypeOK
  <2>2. down' = down \/ down' = down \o frames
    BY <2>1, SendType
  <2>3. CASE down' = down \o frames
    <3> DEFINE n == Len(down)
    <3>1. /\ n \in Nat /\ Len(frames) \in Nat
          /\ DOMAIN down = 1..n /\ DOMAIN down' = 1..(n + Len(frames))
          /\ \A i \in 1..n : down'[i] = down[i]
          /\ \A i \in 1..(n + Len(frames)) : i > n =>
                 i - n \in DOMAIN frames /\ down'[i] = frames[i - n]
      BY <2>1, <2>3, Joined
    <3>2. ASSUME NEW i \in DOMAIN down', ~(i \in DOMAIN down /\ down'[i] = down[i])
          PROVE  down'[i].cmd # "OHAI" /\ down'[i].width = ChipWidth
      <4>1. i - n \in DOMAIN frames /\ down'[i] = frames[i - n]
        BY <3>1, <3>2
      <4> QED
        BY <1>4, <4>1
    <3> QED
      BY <3>2
  <2> QED
    BY <2>2, <2>3
<1>6. Untouched'
  BY <1>1, <1>2, <1>3, <1>5 DEF SessionInv, Untouched, Fresh, ChipWidth
<1>7. Switched'
  BY <1>1, <1>2, <1>5 DEF SessionInv, Switched, ChipWidth
<1>8. Bauds'
  <2>1. /\ portBaud = chipBaud \/ (ChangingBaud /\ chipBaud = FastBaud)
        /\ \A i \in DOMAIN up : up[i].cmd = "baud" => ChangingBaud \/ portBaud = FastBaud
        /\ op = 1 => portBaud = ROMBaud
    BY <1>3 DEF SessionInv, Bauds
  <2>2. Req.cmd = "baud" => ChangingBaud \/ portBaud = FastBaud
    BY <1>4, <2>1
  <2>3. portBaud = chipBaud' \/ (ChangingBaud /\ chipBaud' = FastBaud)
    BY <2>1, <2>2
  <2> QED
    BY <1>1, <1>4, <2>1, <2>3 DEF Bauds
<1> QED
  BY <1>1, <1>2, <1>6, <1>7, <1>8 DEF SessionInv

LEMMA ChipHolds == ASSUME Typed, LinkInv, SessionInv, Chip PROVE LinkInv' /\ SessionInv'
<1>1. CASE ChipDeaf
  BY <1>1, RequestGone DEF ChipDeaf, ghosts
<1>2. CASE ChipSync
  <2> DEFINE frames == Repeat(Answer(TRUE), 1 + Echoes)
  <2>1. /\ up # <<>> /\ up' = Tail(up) /\ Req.cmd = "sync" /\ Send(frames)
        /\ executed' = executed \cup {"sync"} /\ UNCHANGED <<control, believed, mode, chipBaud>>
    BY <1>2 DEF ChipSync, chip
  <2>2. frames \in Seq(Frame)
    BY <2>1, Answers DEF Typed
  <2>3. \A i \in DOMAIN frames : frames[i] = Answer(TRUE)
    BY DEF Repeat
  <2>4. /\ Answer(TRUE).cmd = Req.cmd /\ Answer(TRUE).width = ChipWidth
        /\ Req.cmd \in executed' /\ Req.cmd # "baud"
    BY <2>1 DEF Answer
  <2> HIDE DEF frames
  <2> QED
    BY <2>1, <2>2, <2>3, <2>4, RequestServed
<1>3. CASE ChipExecutes
  <2> DEFINE frames == <<Answer(Capable)>>
  <2>1. /\ up # <<>> /\ up' = Tail(up) /\ Send(frames)
        /\ UNCHANGED <<control, believed, mode>>
        /\ executed' = IF Capable THEN executed \cup {Req.cmd} ELSE executed
        /\ chipBaud' = IF Req.cmd = "baud" THEN FastBaud ELSE chipBaud
    BY <1>3 DEF ChipExecutes
  <2>2. Capable \in BOOLEAN
    BY DEF Capable
  <2>3. frames \in Seq(Frame)
    BY <2>1, <2>2, Answers DEF Typed
  <2>4. \A i \in DOMAIN frames :
            /\ frames[i].cmd = Req.cmd /\ frames[i].width = ChipWidth
            /\ frames[i].ok => Capable
    BY DEF Answer
  <2>5. executed \subseteq executed' /\ (Capable => Req.cmd \in executed')
    BY <2>1
  <2>6. /\ Req.cmd = "baud" => chipBaud' = FastBaud
        /\ chipBaud' = chipBaud \/ (Req.cmd = "baud" /\ chipBaud' = FastBaud)
    BY <2>1
  <2> HIDE DEF frames
  <2> QED
    BY <2>1, <2>3, <2>4, <2>5, <2>6, RequestServed
<1>4. CASE ChipMemEnd
  <2>1. /\ up # <<>> /\ Req.cmd = "memend" /\ up' = Tail(up) /\ mode \in {"rom", "stub"}
        /\ executed' = executed \cup {"memend"} /\ mode' \in {"booting", "crashed"}
        /\ down' = down \/ Send(<<Answer(TRUE)>>)
        /\ chipBaud' = chipBaud /\ UNCHANGED <<control, believed>>
    BY <1>4 DEF ChipMemEnd, Hears
  <2>2. /\ Jumped' = Jumped /\ Past' = Past /\ ChangingBaud' = ChangingBaud /\ NeedsStub'
        /\ UNCHANGED <<script, op, phase, todo, await, stub, portBaud>>
    BY <2>1, HostStill
  <2>3. /\ Req = up[1] /\ 1 \in DOMAIN up
        /\ \A i \in DOMAIN up' : i + 1 \in DOMAIN up /\ up'[i] = up[i + 1]
        /\ Tail(up) \in Seq(Request)
    BY <2>1, RequestType DEF Typed
  <2>4. ~NoMemEnd /\ mode = "rom"
    BY <2>1, <2>3 DEF NoMemEnd, LinkInv, OneJump
  <2>5. NoMemEnd'
    <3> SUFFICES ASSUME NEW i \in DOMAIN up', up'[i].cmd = "memend" PROVE FALSE
      BY DEF NoMemEnd
    <3>1. i + 1 = 1
      BY <2>1, <2>3 DEF LinkInv, OneJump
    <3>2. i \in Nat /\ i >= 1
      BY <2>1, <2>3
    <3> QED
      BY <3>1, <3>2
  <2>6. \A i \in DOMAIN down' :
            \/ i \in DOMAIN down /\ down'[i] = down[i]
            \/ down'[i].cmd = "memend"
    <3>1. down \in Seq(Frame) /\ <<Answer(TRUE)>> \in Seq(Frame)
      BY <2>1, Answers DEF Typed, TypeOK
    <3>2. down' = down \/ down' = down \o <<Answer(TRUE)>>
      BY <2>1, <3>1, SendType
    <3>3. CASE down' = down \o <<Answer(TRUE)>>
      <4> DEFINE n == Len(down)
                 a == <<Answer(TRUE)>>
      <4>1. \A i \in DOMAIN a : a[i].cmd = "memend"
        BY <2>1 DEF Answer
      <4> HIDE DEF a
      <4>2. /\ n \in Nat /\ Len(a) \in Nat /\ DOMAIN down = 1..n /\ DOMAIN down' = 1..(n + Len(a))
            /\ \A i \in 1..n : down'[i] = down[i]
            /\ \A i \in 1..(n + Len(a)) : i > n => i - n \in DOMAIN a /\ down'[i] = a[i - n]
        BY <3>1, <3>3, Joined DEF a
      <4> QED
        BY <4>1, <4>2
    <3> QED
      BY <3>2, <3>3
  <2>7. \A i \in DOMAIN down : down[i].cmd # "OHAI"
    BY <2>4 DEF LinkInv, Greeting
  <2>8. Greeting' /\ OneJump' /\ Answered'
    <3>1. Greeting'
      BY <2>6, <2>7 DEF Greeting
    <3>2. OneJump'
      BY <2>5 DEF OneJump, NoMemEnd
    <3>3. Answered'
      BY <2>1, <2>6 DEF Answered, LinkInv
    <3> QED
      BY <3>1, <3>2, <3>3
  <2>9. ~Fresh /\ ~Dead /\ ~stub
    BY <2>1, <2>4, DeadLink DEF Fresh, SessionInv, Switched
  <2>10. Jumped'
    BY <2>2, <2>9 DEF SessionInv, Untouched
  <2>11. Bauds'
    BY <2>1, <2>2, <2>3, <2>9 DEF SessionInv, Bauds
  <2> QED
    BY <2>2, <2>8, <2>9, <2>10, <2>11 DEF LinkInv, SessionInv, Untouched, Switched
<1>5. CASE ChipGreets
  <2> DEFINE hello == [cmd |-> "OHAI", ok |-> TRUE, width |-> 2]
  <2>1. /\ mode = "booting" /\ mode' = "stub" /\ Send(<<hello>>)
        /\ UNCHANGED <<control, believed, chipBaud, up, executed>>
    BY <1>5 DEF ChipGreets, Booting, ghosts
  <2>2. /\ Jumped' = Jumped /\ Past' = Past /\ ChangingBaud' = ChangingBaud /\ NeedsStub'
        /\ UNCHANGED <<script, op, phase, todo, await, stub, portBaud>>
    BY <2>1, HostStill
  <2>3. NoMemEnd /\ NoMemEnd'
    BY <2>1 DEF LinkInv, OneJump, NoMemEnd
  <2>4. \A i \in DOMAIN down : down[i].cmd # "OHAI"
    BY <2>1 DEF LinkInv, Greeting
  <2>5. \A i \in DOMAIN down' :
            \/ i \in DOMAIN down /\ down'[i] = down[i]
            \/ i = Len(down') /\ Len(down') \in Nat /\ down'[i] = hello
    <3>1. down \in Seq(Frame) /\ hello \in Frame
      BY DEF Typed, TypeOK, Frame
    <3>2. <<hello>> \in Seq(Frame)
      BY <3>1
    <3> HIDE DEF hello
    <3>3. down' = down \/ down' = down \o <<hello>>
      BY <2>1, <3>1, <3>2, SendType
    <3>4. CASE down' = down \o <<hello>>
      <4>1. down' = Append(down, hello)
        BY <3>1, <3>4
      <4> QED
        BY <3>1, <4>1, Added
    <3> QED
      BY <3>3, <3>4
  <2>6. Greeting' /\ OneJump' /\ Answered'
    <3>1. Greeting'
      <4> SUFFICES ASSUME NEW i \in DOMAIN down', down'[i].cmd = "OHAI"
                   PROVE  \A j \in i..Len(down') : down'[j].width = 2
        BY <2>1, <2>3 DEF Greeting
      <4>1. i = Len(down') /\ Len(down') \in Nat /\ down'[i] = hello
        BY <2>4, <2>5
      <4> QED
        BY <4>1
    <3>2. OneJump'
      BY <2>1, <2>3 DEF OneJump, NoMemEnd
    <3>3. Answered'
      BY <2>1, <2>5 DEF Answered, LinkInv
    <3> QED
      BY <3>1, <3>2, <3>3
  <2>7. ~Fresh /\ ~Dead /\ ~stub
    BY <2>1, DeadLink DEF Fresh, SessionInv, Switched
  <2>8. Jumped'
    BY <2>2, <2>7 DEF SessionInv, Untouched
  <2>9. Bauds'
    BY <2>1, <2>2, <2>7 DEF SessionInv, Bauds
  <2> QED
    BY <2>2, <2>6, <2>7, <2>8, <2>9 DEF LinkInv, SessionInv, Untouched, Switched
<1> QED
  BY <1>1, <1>2, <1>3, <1>4, <1>5 DEF Chip

LEMMA LinkHolds == ASSUME Typed, LinkInv, SessionInv, Link PROVE LinkInv' /\ SessionInv'
<1>1. CASE LoseRequest
  BY <1>1, RequestGone DEF LoseRequest, ghosts
<1>2. CASE LoseResponse
  <2>1. /\ down # <<>> /\ down' = Tail(down)
        /\ UNCHANGED <<control, believed, mode, chipBaud, up, executed>>
    BY <1>2 DEF LoseResponse, chip, ghosts
  <2>2. /\ Jumped' = Jumped /\ Past' = Past /\ ChangingBaud' = ChangingBaud /\ NeedsStub'
        /\ UNCHANGED <<script, op, phase, todo, await, stub, portBaud>>
    BY <2>1, HostStill
  <2>3. LinkInv'
    BY <2>1, FewerResponses DEF Reads, Typed
  <2>4. \A i \in DOMAIN down' : i + 1 \in DOMAIN down /\ down'[i] = down[i + 1]
    BY <2>1, Dropped DEF Typed, TypeOK
  <2>5. ~Dead /\ (NoMemEnd' <=> NoMemEnd)
    BY <2>1, DeadLink DEF NoMemEnd
  <2> QED
    BY <2>1, <2>2, <2>3, <2>4, <2>5 DEF SessionInv, Untouched, Fresh, Switched, Bauds
<1>3. CASE RefuseRequest
  <2> DEFINE frames == <<Answer(FALSE)>>
  <2>1. /\ up # <<>> /\ up' = Tail(up) /\ Send(frames)
        /\ UNCHANGED <<control, believed, mode, chipBaud, executed>>
    BY <1>3 DEF RefuseRequest, chip, ghosts
  <2>2. frames \in Seq(Frame)
    BY <2>1, Answers DEF Typed
  <2>3. \A i \in DOMAIN frames :
            frames[i].cmd = Req.cmd /\ frames[i].width = ChipWidth /\ ~frames[i].ok
    BY DEF Answer
  <2> HIDE DEF frames
  <2> QED
    BY <2>1, <2>2, <2>3, RequestServed
<1>4. CASE Unplug
  <2>1. /\ up' = <<>> /\ UNCHANGED <<control, believed, mode, chipBaud, down, executed>>
        /\ Fault("unplug")
    BY <1>4 DEF Unplug, chip, ghosts
  <2>2. /\ Jumped' = Jumped /\ Past' = Past /\ ChangingBaud' = ChangingBaud /\ NeedsStub'
        /\ UNCHANGED <<script, op, phase, todo, await, stub, portBaud>>
    BY <2>1, HostStill
  <2>3. LinkInv'
    BY <2>1, FewerRequests DEF Typed
  <2>4. NoMemEnd'
    BY <2>1 DEF NoMemEnd
  <2>5. Unplugged'
    <3>1. faults \in Seq(FaultKind) /\ faults' = Append(faults, "unplug") /\ "unplug" \in FaultKind
      BY <2>1 DEF Typed, TypeOK, Fault, FaultKind
    <3> QED
      BY <3>1, Added DEF Unplugged
  <2>6. Dead => Dead'
    BY <2>1, <2>2, <2>5 DEF Dead
  <2> QED
    BY <2>1, <2>2, <2>3, <2>4, <2>6 DEF SessionInv, Untouched, Fresh, Switched, Bauds
<1> QED
  BY <1>1, <1>2, <1>3, <1>4 DEF Link

\* A fault more is never one that mends the link.
LEMMA StaysUnplugged ==
    ASSUME TypeOK, NEW kind \in FaultKind, faults' = faults \/ Fault(kind), Unplugged
    PROVE  Unplugged'
<1>1. CASE Fault(kind)
  <2>1. faults \in Seq(FaultKind) /\ faults' = Append(faults, kind)
    BY <1>1 DEF TypeOK, Fault
  <2> QED
    BY <2>1, Added DEF Unplugged
<1> QED
  BY <1>1 DEF Unplugged

-----------------------------------------------------------------------------
(* Steps of the host.  Most of them end an operation or stay in it, and leave *)
(* to the chip what it has been sent.                                         *)

Leaves == Reads /\ UNCHANGED <<script, mode, chipBaud, executed, stub, portBaud, up>>

LEMMA Stays ==
    ASSUME Typed, LinkInv, SessionInv, Leaves, op' = op, Jumped => Jumped', Dead => Dead',
           ChangingBaud => ChangingBaud'
    PROVE  LinkInv' /\ SessionInv'
<1>1. UNCHANGED <<script, op, mode, chipBaud, executed, stub, portBaud, up>> /\ Reads
  BY DEF Leaves
<1>2. LinkInv'
  BY <1>1, FewerResponses DEF Typed
<1>3. PICK k \in Nat : \A i \in DOMAIN down' : i + k \in DOMAIN down /\ down'[i] = down[i + k]
  BY <1>1, ReadsLeave DEF Typed
<1>4. (NoMemEnd' <=> NoMemEnd) /\ (Past' <=> Past)
  BY <1>1 DEF NoMemEnd, Past
<1>5. Fresh => Fresh'
  BY <1>1, <1>3, <1>4 DEF Fresh
<1>6. Untouched'
  BY <1>5 DEF SessionInv, Untouched
<1>7. Switched'
  BY <1>1, <1>3, <1>4 DEF SessionInv, Switched
<1>8. NeedsStub'
  BY <1>1 DEF SessionInv, NeedsStub
<1>9. Bauds'
  BY <1>1 DEF SessionInv, Bauds
<1> QED
  BY <1>2, <1>6, <1>7, <1>8, <1>9 DEF SessionInv

LEMMA Advances ==
    ASSUME Typed, LinkInv, SessionInv, Leaves, op' = op + 1, phase' = "start", await' = FALSE,
           ~Dead, ~ChangingBaud, script[op] = "needStub" => stub
    PROVE  LinkInv' /\ SessionInv'
<1>1. UNCHANGED <<script, mode, chipBaud, executed, stub, portBaud, up>> /\ Reads
  BY DEF Leaves
<1>2. LinkInv'
  BY <1>1, FewerResponses DEF Typed
<1>3. PICK k \in Nat : \A i \in DOMAIN down' : i + k \in DOMAIN down /\ down'[i] = down[i + k]
  BY <1>1, ReadsLeave DEF Typed
<1>4. op \in Nat /\ op >= 1 /\ 1..(op' - 1) = 1..op /\ op' # 1
  BY ScriptType DEF Typed
<1>5. (NoMemEnd' <=> NoMemEnd) /\ (Past' <=> (Past \/ IsRunStub(script[op])))
  BY <1>1, <1>4 DEF NoMemEnd, Past
<1>6. Fresh => Fresh'
  BY <1>1, <1>3, <1>5 DEF Fresh
<1>7. Jumped => Jumped'
  BY <1>5 DEF Jumped
<1>8. Untouched'
  BY <1>6, <1>7 DEF SessionInv, Untouched
<1>9. Switched'
  BY <1>1, <1>3, <1>5 DEF SessionInv, Switched
<1>10. NeedsStub'
  BY <1>1, <1>4 DEF SessionInv, NeedsStub
<1>11. Bauds'
  BY <1>1, <1>4 DEF SessionInv, Bauds
<1> QED
  BY <1>2, <1>8, <1>9, <1>10, <1>11 DEF SessionInv

\* An operation that returns with the session still running goes on to the next.
LEMMA GoesOn ==
    ASSUME TypeOK, NEW success \in BOOLEAN, Returns(success), Running'
    PROVE  /\ op' = op + 1 /\ phase' = "start"
           /\ success \/ script[op] \in {"tryStub", "tryInfo", "end"}
<1>1. CASE success \/ script[op] \in {"tryStub", "tryInfo", "end"}
  <2>1. IF op < Len(script) THEN op' = op + 1 /\ phase' = "start" ELSE op' = op /\ phase' = "done"
    BY <1>1 DEF Returns
  <2> QED
    BY <1>1, <2>1 DEF Running
<1>2. CASE ~(success \/ script[op] \in {"tryStub", "tryInfo", "end"})
  <2>1. phase' = "failed"
    BY <1>2 DEF Returns
  <2> QED
    BY <2>1 DEF Running
<1> QED
  BY <1>1, <1>2

\* What the shape of a front-end says of the operation it is in.
LEMMA InScript ==
    ASSUME TypeOK, CommandLine(script)
    PROVE  /\ script[op] = "connect" <=> op = 1
           /\ script[op] = "reset" => op = Len(script)
           /\ Past /\ IsRunStub(script[op]) => FALSE
           /\ \A i \in 1..(op - 1) : script[i] = "tryStub" =>
                  script[op] # "identify" /\ ~IsSecurityInfo(script[op])
           /\ op = 1 => ~Past /\ ~IsRunStub(script[op]) /\ ~Jumped
<1>1. /\ DOMAIN script = 1..Len(script) /\ op \in 1..Len(script) /\ Len(script) \in Nat
      /\ op \in Nat
  BY ScriptType
<1>2. \A i \in 1..(op - 1) : i \in DOMAIN script /\ i < op /\ i # op
  BY <1>1
<1>3. script[op] = "connect" <=> op = 1
  BY <1>1 DEF CommandLine
<1>4. script[op] = "reset" => op = Len(script)
  BY <1>1 DEF CommandLine
<1>5. Past /\ IsRunStub(script[op]) => FALSE
  BY <1>1, <1>2 DEF CommandLine, Past
<1>6. \A i \in 1..(op - 1) : script[i] = "tryStub" =>
          script[op] # "identify" /\ ~IsSecurityInfo(script[op])
  BY <1>1, <1>2 DEF CommandLine
<1>7. op = 1 => ~Past /\ ~IsRunStub(script[op])
  BY <1>3 DEF Past, IsRunStub
<1> QED
  BY <1>3, <1>4, <1>5, <1>6, <1>7 DEF Jumped

LEMMA StartHolds ==
    ASSUME Typed, LinkInv, SessionInv, CommandLine(script), StartConnect \/ StartCommands, Running'
    PROVE  LinkInv' /\ SessionInv'
<1>0. ~await
  BY DEF Typed, Control, StartConnect, StartCommands
<1>1. CASE StartConnect
  <2>1. /\ phase = "start" /\ script[op] = "connect" /\ phase' = "reset" /\ Leaves
        /\ UNCHANGED <<script, op, todo, await, up, down, mode>>
    BY <1>1 DEF StartConnect, Leaves, Reads, believed, chip, ghosts
  <2>2. op = 1 /\ ~Jumped
    BY <2>1, InScript DEF Typed
  <2>3. Dead => Dead'
    BY <2>1 DEF Dead
  <2> QED
    BY <1>0, <2>1, <2>2, <2>3, Stays DEF ChangingBaud
<1>2. CASE StartCommands
  <2>1. /\ phase = "start" /\ script[op] \notin {"connect", "reset"} /\ Leaves
        /\ UNCHANGED <<script, await, up, down, mode>>
    BY <1>2 DEF StartCommands, Leaves, Reads, believed, chip
  <2>2. op # 1 /\ ~Dead
    BY <2>1, InScript DEF Typed, Dead
  <2>3. ~(script[op] \in {"erase", "read"} /\ ~stub)
    <3> SUFFICES ASSUME script[op] \in {"erase", "read"} /\ ~stub PROVE FALSE
      OBVIOUS
    <3>1. Returns(FALSE)
      BY <1>2 DEF StartCommands
    <3> QED
      BY <3>1, GoesOn DEF Typed
  <2>4. phase' = "cmd" /\ op' = op
    BY <1>2, <2>3 DEF StartCommands
  <2>5. Jumped => Jumped'
    BY <2>1, <2>4 DEF Jumped, Past
  <2> QED
    BY <1>0, <2>1, <2>2, <2>4, <2>5, Stays DEF ChangingBaud
<1> QED
  BY <1>1, <1>2

LEMMA ResetHolds ==
    ASSUME Typed, LinkInv, SessionInv, CommandLine(script), ResetToBootloader
    PROVE  LinkInv' /\ SessionInv'
<1>1. /\ phase = "reset" /\ phase' = "cmd" /\ up' = <<>> /\ down' = <<>>
      /\ UNCHANGED <<script, op, await, stub, portBaud>>
  BY DEF ResetToBootloader, Flushed, believed
<1>2. op = 1 /\ script[op] = "connect" /\ ~await /\ ~Past /\ ~Jumped
  BY <1>1, InScript DEF Typed, Control
<1>3. ~stub /\ portBaud = ROMBaud
  BY <1>2 DEF SessionInv, Switched, Bauds
<1>4. LinkInv' /\ NoMemEnd'
  BY <1>1 DEF LinkInv, Greeting, OneJump, Answered, NoMemEnd
<1>5. (Fresh \/ Dead)' /\ (Dead \/ portBaud = chipBaud)'
  <2>1. CASE Unplugged
    <3>1. UNCHANGED <<mode, chipBaud, faults>>
      BY <2>1 DEF ResetToBootloader
    <3>2. mode # "booting"
      BY <1>2 DEF SessionInv, Untouched, Fresh, Dead
    <3>3. Unplugged'
      BY <2>1, <3>1 DEF Unplugged
    <3>4. Dead'
      BY <1>1, <1>2, <3>1, <3>2, <3>3 DEF Dead
    <3> QED
      BY <3>4
  <2>2. CASE ~Unplugged
    <3>1. chipBaud' = ROMBaud /\ mode' \in {"rom", "app"}
      BY <2>2 DEF ResetToBootloader
    <3>2. Fresh'
      BY <1>1, <1>4, <3>1 DEF Fresh
    <3> QED
      BY <1>1, <1>3, <3>1, <3>2
  <2> QED
    BY <2>1, <2>2
<1>6. Bauds'
  BY <1>1, <1>3, <1>5 DEF Bauds
<1>7. NeedsStub' /\ Switched' /\ Untouched'
  BY <1>1, <1>2, <1>3, <1>5 DEF NeedsStub, Switched, Untouched
<1> QED
  BY <1>4, <1>6, <1>7 DEF SessionInv

LEMMA IssueHolds ==
    ASSUME Typed, LinkInv, SessionInv, CommandLine(script), Issue
    PROVE  LinkInv' /\ SessionInv'
<1> DEFINE c == Head(todo)
           request == [cmd |-> c, baud |-> portBaud]
<1>1. /\ phase = "cmd" /\ todo # <<>> /\ ~await /\ await' = TRUE
      /\ up' = IF Unplugged THEN up ELSE Append(up, request)
      /\ UNCHANGED <<script, op, phase, todo, stub, portBaud, mode, chipBaud, down, executed, faults>>
  BY DEF Issue, believed, chip, ghosts
<1>2. c \in Command /\ c \in Works(script[op])
  <2>1. todo \in Seq(Command) /\ c = todo[1] /\ 1 \in DOMAIN todo /\ c \in Command
    BY <1>1, Dropped DEF Typed, TypeOK
  <2> QED
    BY <1>1, <2>1 DEF Typed, Control
<1>3. c = "memend" => IsRunStub(script[op])
  BY <1>2, WorksOf, ScriptType DEF Typed
<1>4. Past' = Past /\ ~ChangingBaud /\ (c = "baud" => ChangingBaud')
  BY <1>1 DEF Past, ChangingBaud
<1>5. Jumped => Jumped'
  BY <1>1, <1>4 DEF Jumped
<1>6. c = "memend" => ~Past /\ op # 1 /\ Fresh /\ Jumped'
  <2> SUFFICES ASSUME c = "memend" PROVE ~Past /\ op # 1 /\ Fresh /\ Jumped'
    OBVIOUS
  <2>1. ~Past /\ op # 1
    BY <1>3, InScript DEF Typed
  <2>2. ~Jumped
    BY <1>1, <2>1 DEF Jumped
  <2>3. Fresh
    BY <2>1, <2>2 DEF SessionInv, Untouched, Dead
  <2>4. Jumped'
    BY <1>1, <1>3 DEF Jumped
  <2> QED
    BY <2>1, <2>3, <2>4
<1>7. /\ up \in Seq(Request) /\ request \in Request
  BY <1>2 DEF Typed, TypeOK, Request
<1> DEFINE n == Len(up)
<1>8. /\ n \in Nat /\ DOMAIN up = 1..n
      /\ \A i \in DOMAIN up' :
             \/ i \in DOMAIN up /\ up'[i] = up[i]
             \/ i = n + 1 /\ up'[i].cmd = c
  <2>1. CASE up' = Append(up, request)
    <3>1. request.cmd = c
      OBVIOUS
    <3> HIDE DEF request
    <3> QED
      BY <1>7, <2>1, <3>1, Added
  <2>2. CASE up' = up
    BY <1>7, <2>2
  <2> QED
    BY <1>1, <2>1, <2>2
<1> HIDE DEF c
<1>9. c # "memend" /\ NoMemEnd => NoMemEnd'
  BY <1>8 DEF NoMemEnd
<1>10. LinkInv'
  <2>1. Greeting'
    BY <1>1, <1>6, <1>9 DEF LinkInv, Greeting, Fresh
  <2>2. OneJump'
    <3>1. CASE c = "memend"
      <4>1. NoMemEnd /\ mode \in {"rom", "app"}
        BY <1>6, <3>1 DEF Fresh
      <4>2. ASSUME NEW i \in DOMAIN up', up'[i].cmd = "memend" PROVE i = n + 1
        BY <1>8, <4>1, <4>2 DEF NoMemEnd
      <4> QED
        BY <1>1, <4>1, <4>2 DEF OneJump
    <3>2. CASE c # "memend"
      <4>1. ASSUME NEW i \in DOMAIN up', up'[i].cmd = "memend"
            PROVE  i \in DOMAIN up /\ up[i].cmd = "memend"
        BY <1>8, <3>2, <4>1
      <4>2. \A i, j \in DOMAIN up' : up'[i].cmd = "memend" /\ up'[j].cmd = "memend" => i = j
        BY <4>1 DEF LinkInv, OneJump
      <4> QED
        BY <1>1, <1>9, <3>2, <4>2 DEF LinkInv, OneJump
    <3> QED
      BY <3>1, <3>2
  <2>3. Answered'
    BY <1>1 DEF LinkInv, Answered
  <2> QED
    BY <2>1, <2>2, <2>3 DEF LinkInv
<1>11. Dead => Dead'
  <2> SUFFICES ASSUME Dead PROVE Dead'
    OBVIOUS
  <2>1. Unplugged
    BY <1>1 DEF Dead
  <2>2. Unplugged' /\ up' = up
    BY <1>1, <2>1 DEF Unplugged
  <2> QED
    BY <1>1, <2>2 DEF Dead
<1>12. Untouched'
  <2> SUFFICES ASSUME ~Jumped' PROVE (Fresh \/ Dead)'
    BY DEF Untouched
  <2>1. c # "memend" /\ (Fresh \/ Dead)
    BY <1>5, <1>6 DEF SessionInv, Untouched
  <2> QED
    BY <1>1, <1>9, <1>11, <2>1 DEF Fresh
<1>13. Switched'
  BY <1>1, <1>4, <1>6, <1>9 DEF SessionInv, Switched
<1>14. NeedsStub'
  BY <1>1 DEF SessionInv, NeedsStub
<1>15. Bauds'
  BY <1>1, <1>4, <1>8, <1>11 DEF SessionInv, Bauds
<1> QED
  BY <1>10, <1>12, <1>13, <1>14, <1>15 DEF SessionInv

LEMMA SkipHolds == ASSUME Typed, LinkInv, SessionInv, Skip PROVE LinkInv' /\ SessionInv'
<1>1. Leaves /\ UNCHANGED <<script, op, phase, todo, await, up, mode>> /\ down # <<>>
  BY DEF Skip, Leaves, Reads, control, believed, chip, ghosts
<1>2. ~Dead /\ (Jumped => Jumped') /\ (ChangingBaud => ChangingBaud')
  BY <1>1 DEF Dead, Jumped, Past, ChangingBaud
<1> QED
  BY <1>1, <1>2, Stays

\* A response that counts as a success was sent by the loader the host takes the
\* chip for, and says success itself.
LEMMA TrailerRead ==
    ASSUME Typed, LinkInv, SessionInv, CommandLine(script), Matches, Succeeds(Head(down))
    PROVE  /\ Head(down).width = Width /\ Head(down).ok /\ Head(todo) \in executed
           /\ Head(todo) = "baud" => chipBaud = FastBaud
<1> DEFINE r == Head(down)
<1>1. /\ await /\ phase = "cmd" /\ Head(todo) \in Command /\ Head(todo) \in Works(script[op])
      /\ todo # <<>>
  BY AwaitedType DEF Matches
<1>2. /\ down # <<>> /\ r = down[1] /\ 1 \in DOMAIN down /\ r \in Frame
  BY Dropped DEF Matches, Typed, TypeOK
<1>3. r.cmd = Head(todo) /\ r.width \in {2, 4} /\ r.cmd # "OHAI" /\ ~Dead
  BY <1>1, <1>2 DEF Matches, Frame, Command, Dead
<1>4. r.width = 4 /\ stub => FALSE
  BY <1>2 DEF SessionInv, Switched
<1>5. ASSUME r.width = 2, ~stub, r.cmd = "security" PROVE FALSE
  <2>1. Jumped
    BY <1>2, <1>3, <1>5 DEF SessionInv, Untouched, Fresh
  <2>2. Past
    BY <1>1, <1>3, <1>5, <2>1 DEF Jumped
  <2>3. PICK i \in 1..(op - 1) : IsRunStub(script[i])
    BY <2>2 DEF Past
  <2>4. script[i] = "tryStub"
    BY <1>5, <2>3 DEF SessionInv, NeedsStub, IsRunStub
  <2>5. script[op] = "identify" \/ IsRunStub(script[op]) \/ IsSecurityInfo(script[op])
    BY <1>1, <1>3, <1>5, ScriptType, WorksOf DEF Typed
  <2> QED
    BY <2>2, <2>3, <2>4, <2>5, InScript DEF Typed
<1>6. r.width = Width /\ r.ok
  BY <1>3, <1>4, <1>5 DEF Succeeds, StatusOK, Width
<1> QED
  BY <1>2, <1>3, <1>6 DEF LinkInv, Answered

LEMMA AcceptHolds ==
    ASSUME Typed, LinkInv, SessionInv, CommandLine(script), Accept, Running'
    PROVE  LinkInv' /\ SessionInv'
<1>1. /\ await /\ Matches /\ Succeeds(Head(down)) /\ Reads /\ todo' = Tail(todo) /\ await' = FALSE
      /\ UNCHANGED <<script, stub, mode, chipBaud, up, executed>>
      /\ SyncAccepted \/ ChipIDAccepted \/ BaudAccepted \/ OtherAccepted
  BY DEF Accept, Matches, Reads, Flushed, chip
<1>2. /\ phase = "cmd" /\ Head(todo) \in Command /\ Head(todo) \in Works(script[op])
      /\ todo # <<>> /\ todo \in Seq(Command)
  BY <1>1, AwaitedType DEF Typed, TypeOK
<1>3. /\ Head(todo) = "sync" <=> script[op] = "connect"
      /\ Head(todo) = "memend" => IsRunStub(script[op])
      /\ Head(todo) = "baud" => script[op] = "baud"
      /\ Head(todo) = "security" =>
             script[op] = "identify" \/ IsRunStub(script[op]) \/ IsSecurityInfo(script[op])
  BY <1>2, WorksOf, ScriptType DEF Typed
<1>4. ~Dead
  BY <1>1 DEF Matches, Dead
\* The next command of the same operation.
<1>5. ASSUME op' = op, phase' = phase PROVE Jumped => Jumped'
  <2> SUFFICES ASSUME Jumped, ~Past PROVE Jumped'
    BY <1>1, <1>5 DEF Jumped, Past
  <2>1. IsRunStub(script[op]) /\ Head(todo) = "memend"
    BY <1>2 DEF Jumped
  <2>2. /\ Len(todo) \in Nat \ {0} /\ Head(todo) = todo[1] /\ 1 \in DOMAIN todo
        /\ Len(Tail(todo)) = Len(todo) - 1 /\ Tail(todo) \in Seq(Command)
    BY <1>2, Dropped
  <2>3. Len(todo) = 1
    BY <1>2, <2>1, <2>2 DEF Typed, Control, EndsInJump
  <2>4. todo' = <<>>
    BY <1>1, <2>2, <2>3
  <2> QED
    BY <1>1, <1>2, <1>5, <2>1, <2>4 DEF Jumped
<1>6. CASE SyncAccepted
  <2>1. op' = op /\ portBaud' = portBaud /\ script[op] = "connect" /\ Head(todo) = "sync"
    BY <1>3, <1>6 DEF SyncAccepted
  <2>2. Leaves /\ ~Jumped /\ ~ChangingBaud
    BY <1>1, <2>1, InScript DEF Leaves, Typed, ChangingBaud
  <2> QED
    BY <1>4, <2>1, <2>2, Stays
<1>7. CASE ChipIDAccepted /\ supported
  <2>1. op' = op /\ phase' = phase /\ portBaud' = portBaud /\ Head(todo) = "security"
    BY <1>7 DEF ChipIDAccepted
  <2>2. Leaves /\ ~ChangingBaud
    BY <1>1, <2>1 DEF Leaves, ChangingBaud
  <2> QED
    BY <1>4, <1>5, <2>1, <2>2, Stays
<1>8. CASE ChipIDAccepted /\ ~supported
  <2>1. Returns(FALSE) /\ portBaud' = portBaud /\ Head(todo) = "security"
    BY <1>8 DEF ChipIDAccepted
  <2>2. /\ op' = op + 1 /\ phase' = "start" /\ script[op] \in {"tryStub", "tryInfo", "end"}
    BY <2>1, GoesOn DEF Typed
  <2>3. Leaves /\ ~ChangingBaud
    BY <1>1, <2>1 DEF Leaves, ChangingBaud
  <2> QED
    BY <1>1, <1>4, <2>2, <2>3, Advances
<1>9. CASE OtherAccepted
  <2>1. op' = op /\ phase' = phase /\ portBaud' = portBaud /\ Head(todo) # "baud"
    BY <1>9 DEF OtherAccepted
  <2>2. Leaves /\ ~ChangingBaud
    BY <1>1, <2>1 DEF Leaves, ChangingBaud
  <2> QED
    BY <1>4, <1>5, <2>1, <2>2, Stays
\* Both ends at the rate asked for.
<1>10. CASE BaudAccepted
  <2>1. /\ op' = op /\ phase' = phase /\ portBaud' = FastBaud /\ Head(todo) = "baud"
    BY <1>10 DEF BaudAccepted, NewBaud
  <2>2. chipBaud = FastBaud
    BY <1>1, <2>1, TrailerRead
  <2>3. LinkInv'
    BY <1>1, FewerResponses DEF Typed
  <2>4. op # 1
    BY <1>3, <2>1, InScript DEF Typed
  <2>5. PICK k \in Nat : \A i \in DOMAIN down' : i + k \in DOMAIN down /\ down'[i] = down[i + k]
    BY <1>1, ReadsLeave DEF Typed
  <2>6. (NoMemEnd' <=> NoMemEnd) /\ (Past' <=> Past)
    BY <1>1, <2>1 DEF NoMemEnd, Past
  <2>7. Untouched'
    BY <1>1, <1>4, <1>5, <2>1, <2>5, <2>6 DEF SessionInv, Untouched, Fresh
  <2>8. Switched'
    BY <1>1, <2>5, <2>6 DEF SessionInv, Switched
  <2>9. NeedsStub'
    BY <1>1, <2>1 DEF SessionInv, NeedsStub
  <2>10. Bauds'
    BY <1>1, <2>1, <2>2, <2>4 DEF Bauds
  <2> QED
    BY <2>3, <2>7, <2>8, <2>9, <2>10 DEF SessionInv
<1> QED
  BY <1>1, <1>6, <1>7, <1>8, <1>9, <1>10

LEMMA FailHolds ==
    ASSUME Typed, LinkInv, SessionInv, CommandLine(script), await, Reads,
           NEW rest, CommandFails(rest), NEW kind \in FaultKind, faults' = faults \/ Fault(kind),
           Running'
    PROVE  LinkInv' /\ SessionInv'
<1> DEFINE c == Head(todo)
<1>1. /\ phase = "cmd" /\ c \in Command /\ c \in Works(script[op]) /\ todo # <<>>
  BY AwaitedType
<1>2. /\ c = "sync" <=> script[op] = "connect"
      /\ c = "memend" => IsRunStub(script[op])
      /\ c = "baud" => script[op] = "baud"
  BY <1>1, WorksOf, ScriptType DEF Typed
<1>3. /\ await' = FALSE /\ Leaves
      /\ UNCHANGED <<script, mode, up>>
  BY DEF CommandFails, Leaves, believed, chip
<1>4. CASE c = "sync"
  <2>1. op = 1 /\ ~Jumped /\ script[op] = "connect"
    BY <1>2, <1>4, InScript DEF Typed
  <2>2. op' = op /\ phase' \in {phase, "reset"}
    <3>1. CASE MoreSyncs \/ MoreResets
      BY <1>4, <3>1 DEF CommandFails
    <3>2. CASE ~MoreSyncs /\ ~MoreResets
      <4>1. Returns(FALSE)
        BY <1>4, <3>2 DEF CommandFails
      <4> QED
        BY <2>1, <4>1, GoesOn DEF Typed
    <3> QED
      BY <3>1, <3>2
  <2>3. Dead => Dead'
    <3> SUFFICES ASSUME Dead PROVE Dead'
      OBVIOUS
    <3>1. Unplugged /\ down = <<>>
      BY <1>1 DEF Dead
    <3>2. Unplugged'
      BY <3>1, StaysUnplugged DEF Typed
    <3>3. down' = <<>>
      BY <1>3, <3>1 DEF Leaves, Reads
    <3> QED
      BY <1>1, <1>3, <2>2, <3>2, <3>3 DEF Dead
  <2>4. ~ChangingBaud
    BY <1>4 DEF ChangingBaud
  <2> QED
    BY <1>3, <2>1, <2>2, <2>3, <2>4, Stays
<1>5. CASE c = "memend"
  <2>1. op' = op /\ phase' = phase /\ todo' = <<>>
    BY <1>5 DEF CommandFails
  <2>2. Jumped'
    BY <1>1, <1>2, <1>3, <1>5, <2>1 DEF Jumped
  <2>3. op # 1 /\ ~Dead /\ ~ChangingBaud
    BY <1>2, <1>5, InScript DEF Typed, Dead, ChangingBaud
  <2> QED
    BY <1>3, <2>1, <2>2, <2>3, Stays
<1>6. CASE c # "sync" /\ c # "memend"
  <2>1. Returns(FALSE)
    BY <1>6 DEF CommandFails
  <2>2. op' = op + 1 /\ phase' = "start" /\ script[op] \in {"tryStub", "tryInfo", "end"}
    BY <2>1, GoesOn DEF Typed
  <2>3. ~ChangingBaud /\ ~Dead
    BY <1>2, <2>2, InScript DEF Typed, Dead, ChangingBaud
  <2> QED
    BY <1>3, <2>2, <2>3, Advances
<1> QED
  BY <1>4, <1>5, <1>6

LEMMA RejectHolds ==
    ASSUME Typed, LinkInv, SessionInv, CommandLine(script), Reject, Running'
    PROVE  LinkInv' /\ SessionInv'
<1>1. await /\ down # <<>> /\ faults' = faults
  BY DEF Reject, Matches
<1>2. CommandFails(Tail(down))
  BY DEF Reject
<1>3. Reads
  BY <1>1, <1>2 DEF CommandFails, Reads
<1>4. "OHAI" \in FaultKind
  BY DEF FaultKind
<1> QED
  BY <1>1, <1>2, <1>3, <1>4, FailHolds

LEMMA TimeoutHolds ==
    ASSUME Typed, LinkInv, SessionInv, CommandLine(script), Timeout, Running'
    PROVE  LinkInv' /\ SessionInv'
<1>1. await /\ (faults' = faults \/ Fault(Head(todo)))
  BY DEF Timeout
<1>2. CommandFails(down)
  BY DEF Timeout
<1>3. Reads
  BY <1>2 DEF CommandFails, Reads
<1>4. Head(todo) \in FaultKind
  BY <1>1, AwaitedType
<1> QED
  BY <1>1, <1>2, <1>3, <1>4, FailHolds

LEMMA CommandsDoneHolds ==
    ASSUME Typed, LinkInv, SessionInv, CommandLine(script), CommandsDone, Running'
    PROVE  LinkInv' /\ SessionInv'
<1>1. /\ phase = "cmd" /\ todo = <<>> /\ Leaves /\ UNCHANGED <<script, todo, await, up, mode>>
  BY DEF CommandsDone, Leaves, Reads, believed, chip
<1>2. ~await /\ await' = FALSE /\ script[op] # "connect"
  BY <1>1 DEF Typed, Control, TypeOK
<1>3. op # 1 /\ ~Dead /\ ~ChangingBaud
  BY <1>2, InScript DEF Typed, Dead, ChangingBaud
<1>4. CASE IsRunStub(script[op]) /\ ~stub
  <2>1. phase' = "greet" /\ op' = op
    BY <1>4 DEF CommandsDone
  <2>2. Jumped'
    BY <1>1, <1>4, <2>1 DEF Jumped
  <2> QED
    BY <1>1, <1>3, <2>1, <2>2, Stays
<1>5. CASE ~(IsRunStub(script[op]) /\ ~stub)
  <2>1. Returns(TRUE)
    BY <1>5 DEF CommandsDone
  <2>2. op' = op + 1 /\ phase' = "start"
    BY <2>1, GoesOn DEF Typed
  <2>3. script[op] = "needStub" => stub
    BY <1>5 DEF IsRunStub, Typed, TypeOK
  <2> QED
    BY <1>1, <1>2, <1>3, <2>2, <2>3, Advances
<1> QED
  BY <1>4, <1>5

LEMMA DrainHolds ==
    ASSUME Typed, LinkInv, SessionInv, CommandLine(script), Drain, Running'
    PROVE  LinkInv' /\ SessionInv'
<1>1. phase = "drain" /\ Leaves /\ UNCHANGED <<script, todo, await, up, mode>>
  BY DEF Drain, Leaves, Reads, believed, chip
<1>2. /\ await' = FALSE /\ script[op] = "connect" /\ op = 1 /\ ~Jumped /\ ~Dead
      /\ ~ChangingBaud
  BY <1>1, InScript DEF Typed, Control, TypeOK, Dead, ChangingBaud
<1>3. CASE down # <<>> /\ scanned < Echoes
  BY <1>1, <1>2, <1>3, Stays DEF Drain
<1>4. CASE ~(down # <<>> /\ scanned < Echoes)
  <2>1. Returns(TRUE)
    BY <1>4 DEF Drain
  <2>2. op' = op + 1 /\ phase' = "start"
    BY <2>1, GoesOn DEF Typed
  <2> QED
    BY <1>1, <1>2, <2>2, Advances
<1> QED
  BY <1>3, <1>4

\* The greeting, and it alone, switches the mode: what waits behind it is the
\* stub's, and no jump is left to be made.
LEMMA GreetedHolds ==
    ASSUME Typed, LinkInv, SessionInv, CommandLine(script), Greeted, Running'
    PROVE  LinkInv' /\ SessionInv'
<1>1. /\ phase = "greet" /\ down # <<>> /\ down' = Tail(down) /\ Reads
      /\ UNCHANGED <<script, todo, await, up, mode, chipBaud, executed, portBaud>>
  BY DEF Greeted, Reads, chip
<1>2. /\ ~await /\ await' = FALSE /\ IsRunStub(script[op]) /\ op # 1
  BY <1>1, InScript DEF Typed, Control, TypeOK
<1>3. ~Dead /\ ~ChangingBaud
  BY <1>1, <1>2 DEF Dead, ChangingBaud
<1>4. CASE ~Greets(Head(down))
  <2>1. UNCHANGED <<stub, op, phase>>
    BY <1>4 DEF Greeted
  <2>2. Leaves /\ (Jumped => Jumped')
    BY <1>1, <2>1 DEF Leaves, Jumped, Past
  <2> QED
    BY <1>3, <2>1, <2>2, Stays
<1>5. CASE Greets(Head(down))
  <2>1. stub' = TRUE /\ Returns(TRUE)
    BY <1>5 DEF Greeted
  <2>2. op' = op + 1 /\ phase' = "start"
    BY <2>1, GoesOn DEF Typed
  <2>3. LinkInv'
    BY <1>1, FewerResponses DEF Typed
  <2>4. /\ Head(down) = down[1] /\ 1 \in DOMAIN down /\ DOMAIN down = 1..Len(down)
        /\ \A i \in DOMAIN down' : i + 1 \in DOMAIN down /\ down'[i] = down[i + 1]
    BY <1>1, Dropped DEF Typed, TypeOK
  <2>5. mode = "stub" /\ NoMemEnd /\ \A i \in DOMAIN down : down[i].width = 2
    BY <1>5, <2>4 DEF Greets, LinkInv, Greeting
  <2>6. NoMemEnd'
    BY <1>1, <2>5 DEF NoMemEnd
  <2>7. op \in Nat /\ op >= 1 /\ 1..(op' - 1) = 1..op /\ op' # 1
    BY <2>2, ScriptType DEF Typed
  <2>8. Past'
    <3>1. op' - 1 = op /\ op \in 1..op
      BY <2>2, ScriptType DEF Typed
    <3>2. script'[op] = script[op]
      BY <1>1
    <3>3. IsRunStub(script'[op])
      BY <1>2, <3>2
    <3> QED
      BY <3>1, <3>3 DEF Past
  <2>9. Switched' /\ Untouched' /\ NeedsStub'
    BY <1>1, <2>1, <2>4, <2>5, <2>6, <2>8 DEF Switched, Untouched, Jumped, NeedsStub
  <2>10. Bauds'
    BY <1>1, <1>3, <2>7 DEF SessionInv, Bauds
  <2> QED
    BY <2>3, <2>9, <2>10 DEF SessionInv
<1> QED
  BY <1>4, <1>5

LEMMA GreetingFailsHolds ==
    ASSUME Typed, LinkInv, SessionInv, CommandLine(script), GreetingFails, Running'
    PROVE  LinkInv' /\ SessionInv'
<1>1. /\ phase = "greet" /\ Returns(FALSE) /\ Leaves
      /\ UNCHANGED <<script, todo, await, up, mode>>
  BY DEF GreetingFails, Leaves, Reads, believed, chip
<1>2. /\ await' = FALSE /\ ~Dead /\ ~ChangingBaud
  BY <1>1 DEF Typed, Control, TypeOK, Dead, ChangingBaud
<1>3. op' = op + 1 /\ phase' = "start" /\ script[op] \in {"tryStub", "tryInfo", "end"}
  BY <1>1, GoesOn DEF Typed
<1> QED
  BY <1>1, <1>2, <1>3, Advances

\* The last operation of a front-end ends it, and so do a Connect cut short and a
\* port that fails to follow the chip.
LEMMA Ends ==
    ASSUME Typed, CommandLine(script), HardReset \/ ContextEnds \/ PortFails
    PROVE  ~Running'
<1> SUFFICES ASSUME Running' PROVE FALSE
  OBVIOUS
<1>1. op \in 1..Len(script) /\ Len(script) \in Nat
  BY ScriptType DEF Typed
<1>2. CASE HardReset
  <2>1. script[op] = "reset" /\ Returns(TRUE)
    BY <1>2 DEF HardReset
  <2>2. op = Len(script)
    BY <2>1, InScript DEF Typed
  <2> QED
    BY <1>1, <2>1, <2>2 DEF Returns, Running
<1>3. CASE ContextEnds
  <2>1. script[op] = "connect" /\ Returns(FALSE)
    BY <1>3 DEF ContextEnds, Typed, Control
  <2> QED
    BY <2>1, GoesOn DEF Typed
<1>4. CASE PortFails
  <2>1. await /\ Head(todo) = "baud" /\ Returns(FALSE)
    BY <1>4 DEF PortFails, Matches
  <2>2. script[op] = "baud"
    BY <2>1, AwaitedType, ScriptType, WorksOf DEF Typed
  <2> QED
    BY <2>1, <2>2, GoesOn DEF Typed
<1> QED
  BY <1>2, <1>3, <1>4

-----------------------------------------------------------------------------
(* The theorems. *)

LEMMA HostHolds ==
    ASSUME Typed, LinkInv, SessionInv, CommandLine(script), Host, Running'
    PROVE  LinkInv' /\ SessionInv'
  BY StartHolds, Ends, ResetHolds, IssueHolds, SkipHolds, AcceptHolds, RejectHolds,
     TimeoutHolds, CommandsDoneHolds, DrainHolds, GreetedHolds, GreetingFailsHolds DEF Host

\* Only a running session acts.
LEMMA HostRuns == ASSUME Typed, Host PROVE Running
<1>1. await => Running
  BY DEF Typed, Control, Running
<1> QED
  BY <1>1 DEF Host, Running, StartConnect, StartCommands, HardReset, ResetToBootloader,
     ContextEnds, Issue, Skip, Accept, PortFails, Matches, Reject, Timeout, CommandsDone, Drain, Greeted,
     GreetingFails

\* Success is claimed where a response is accepted, and nowhere else.
LEMMA ClaimsHold ==
    ASSUME IInv, CommandLine(script), [Next]_vars
    PROVE  NoFalseSuccess'
<1> USE DEF NoFalseSuccess
<1>1. claimed \subseteq executed /\ Typed
  BY DEF IInv, Typed
<1>2. CASE Accept \/ PortFails
  <2>1. Running
    BY <1>1, <1>2, HostRuns DEF Host
  <2>2. Matches /\ Succeeds(Head(down))
    BY <1>2 DEF Accept, PortFails
  <2>3. Head(todo) \in executed
    BY <1>1, <2>1, <2>2, TrailerRead DEF IInv
  <2>4. claimed' = claimed \cup {Head(todo)} /\ executed' = executed
    BY <1>2 DEF Accept, PortFails
  <2> QED
    BY <1>1, <2>3, <2>4
<1>3. CASE HardReset \/ ResetToBootloader
  <2>1. claimed' = {}
    BY <1>3 DEF HardReset, ResetToBootloader
  <2> QED
    BY <2>1
<1>4. CASE UNCHANGED <<claimed, executed>>
  BY <1>1, <1>4
<1>5. CASE Reject \/ Timeout
  <2>1. UNCHANGED <<claimed, executed>>
    BY <1>5 DEF Reject, Timeout, CommandFails
  <2> QED
    BY <1>1, <2>1
<1>6. CASE Chip
  <2>1. claimed' = claimed /\ executed \subseteq executed'
    BY <1>6 DEF Chip, ChipDeaf, ChipSync, ChipExecutes, ChipMemEnd, ChipGreets, ghosts
  <2> QED
    BY <1>1, <2>1
<1>7. CASE Link \/ FirmwareLogs \/ UNCHANGED vars
  BY <1>4, <1>7 DEF Link, LoseRequest, LoseResponse, RefuseRequest, Unplug, FirmwareLogs, ghosts,
     vars
<1>8. CASE StartConnect \/ StartCommands \/ ContextEnds \/ Issue \/ Skip
  BY <1>4, <1>8 DEF StartConnect, StartCommands, ContextEnds, Issue, Skip, ghosts
<1>9. CASE CommandsDone \/ Drain \/ Greeted \/ GreetingFails
  BY <1>4, <1>9 DEF CommandsDone, Drain, Greeted, GreetingFails
<1> QED
  BY <1>2, <1>3, <1>5, <1>6, <1>7, <1>8, <1>9 DEF Next, Host

LEMMA InitHolds == ASSUME Init PROVE IInv
<1>1. Typed
  BY InitTyped
<1>2. NoFalseSuccess
  BY DEF Init, NoFalseSuccess
<1>3. /\ up = <<>> /\ down = <<>> /\ op = 1 /\ phase = "start" /\ mode # "booting" /\ ~stub
      /\ portBaud = ROMBaud
  BY DEF Init
<1>4. LinkInv
  BY <1>3 DEF LinkInv, Greeting, OneJump, Answered, NoMemEnd
<1>5. Dead
  BY <1>3 DEF Dead
<1>6. SessionInv
  BY <1>3, <1>5 DEF SessionInv, Untouched, Switched, NeedsStub, Bauds
<1> QED
  BY <1>1, <1>2, <1>4, <1>6 DEF IInv, Typed

LEMMA NextHolds == ASSUME IInv, CommandLine(script), [Next]_vars PROVE IInv'
<1>1. Typed'
  BY NextTyped DEF IInv, Typed
<1>2. NoFalseSuccess'
  BY ClaimsHold
<1>3. ASSUME Running' PROVE LinkInv' /\ SessionInv'
  <2>1. Typed
    BY DEF IInv, Typed
  <2>2. CASE Host
    BY <1>3, <2>1, <2>2, HostRuns, HostHolds DEF IInv
  <2>3. CASE Chip \/ Link
    <3>1. phase' = phase
      BY <2>3 DEF Chip, ChipDeaf, ChipSync, ChipExecutes, ChipMemEnd, ChipGreets,
         Link, LoseRequest, LoseResponse, RefuseRequest, Unplug, control
    <3>2. Running
      BY <1>3, <3>1 DEF Running
    <3> QED
      BY <2>1, <2>3, <3>2, ChipHolds, LinkHolds DEF IInv
  <2>4. CASE FirmwareLogs \/ UNCHANGED vars
    <3>0. UNCHANGED <<control, believed, mode, chipBaud, up, down, ghosts, faults>>
      BY <2>4 DEF FirmwareLogs, vars, chip
    <3>1. Running
      BY <1>3, <3>0 DEF Running, control
    <3>2. LinkInv'
      BY <3>0, <3>1 DEF IInv, LinkInv, Greeting, OneJump, Answered, NoMemEnd, control, believed,
         ghosts
    <3>3. SessionInv'
      BY <3>0, <3>1 DEF IInv, SessionInv, Untouched, Switched, NeedsStub, Bauds, Fresh, Dead,
         Jumped, Past, ChangingBaud, NoMemEnd, Unplugged, control, loop, believed, ghosts
    <3> QED
      BY <3>2, <3>3
  <2> QED
    BY <2>2, <2>3, <2>4 DEF Next
<1> QED
  BY <1>1, <1>2, <1>3 DEF IInv, Typed

\* The theorems below are about the front-ends of cmd/flasher: whatever they are,
\* as long as each is a CommandLine.  (Run reconnect has one that is not, and
\* a success that was none.)
CommandLines == \A s \in Scripts : CommandLine(s)

LEMMA Invariant == CommandLines => (Spec => []IInv)
<1> SUFFICES ASSUME CommandLines PROVE Spec => []IInv
  OBVIOUS
<1>1. Init => IInv
  BY InitHolds
<1>2. IInv => CommandLine(script)
  BY DEF IInv, TypeOK, CommandLines
<1>3. IInv /\ [Next]_vars => IInv'
  BY <1>2, NextHolds
<1> QED
  BY <1>1, <1>3, PTL DEF Spec

\* A loader in stub mode talks to a running stub, whatever was lost or refused, and
\* whichever of the SYNC, MEM_END or greeting frames came late: RunStub switches
\* the mode on the greeting alone, and nothing can make the chip leave the stub
\* while the session runs.
THEOREM StubIsRunning == CommandLines => (Spec => []StubMeansStub)
<1>1. IInv => StubMeansStub
  BY DEF IInv, SessionInv, Switched, StubMeansStub
<1> QED
  BY <1>1, Invariant, PTL

\* No operation of the Loader returns nil for a command that the chip has not
\* carried out since the last reset: not for one lost or refused, not on a frame
\* of before the reset, not on a trailer read at the wrong length.
THEOREM SuccessIsReal == CommandLines => (Spec => []NoFalseSuccess)
<1>1. IInv => NoFalseSuccess
  BY DEF IInv
<1> QED
  BY <1>1, Invariant, PTL

\* Both ends are at one baud rate whenever an operation starts after Connect, the
\* CHANGE_BAUDRATE exchange having come to whatever end.
THEOREM RatesAgree == CommandLines => (Spec => []BaudAgrees)
<1>1. IInv => BaudAgrees
  <2> SUFFICES ASSUME IInv, phase = "start", op > 1 PROVE portBaud = chipBaud
    BY DEF BaudAgrees
  <2>1. Running /\ ~await /\ op # 1
    BY DEF IInv, Control, Running
  <2> QED
    BY <2>1 DEF IInv, SessionInv, Bauds, Dead, ChangingBaud
<1> QED
  BY <1>1, Invariant, PTL

\* response.status always finds the trailer where it looks for it: a response is
\* accepted only when the loader that sent it is the one Loader.stub names.
THEOREM TrailersAgree == CommandLines => (Spec => TrailerAgrees)
<1> SUFFICES ASSUME CommandLines PROVE Spec => TrailerAgrees
  OBVIOUS
<1>1. IInv /\ [Next]_vars => [Accept \/ PortFails => Head(down).width = Width]_vars
  <2> SUFFICES ASSUME IInv, Accept \/ PortFails PROVE Head(down).width = Width
    OBVIOUS
  <2>1. Typed /\ CommandLine(script)
    BY DEF IInv, TypeOK, Typed, CommandLines
  <2>2. Running
    BY <2>1, HostRuns DEF Host
  <2>3. Matches /\ Succeeds(Head(down))
    BY DEF Accept, PortFails
  <2> QED
    BY <2>1, <2>2, <2>3, TrailerRead DEF IInv
<1> QED
  BY <1>1, Invariant, PTL DEF Spec, TrailerAgrees

=============================================================================
