----------------------------- MODULE FlashWrite -----------------------------
(***************************************************************************)
(* Writing a flash plan over the serial link: the image loop of cmdFlash,  *)
(* WriteFlash in both of its forms (writeFlashRaw on the ROM loader, with  *)
(* three attempts per block; writeFlashCompressed under the stub, with     *)
(* one), flashMD5, FlashFinish, and the request/response exchange of       *)
(* Loader.command underneath all of them.                                  *)
(*                                                                         *)
(* The two directions of the link are FIFO queues of frames.  A response   *)
(* names the command it answers and nothing else: no sequence number.  So  *)
(* an answer that comes after its command was given up is indistinguish-   *)
(* able from the answer to the next request of the same command.           *)
(*                                                                         *)
(* Flash is an array of cells.  A cell is the piece of an image that one   *)
(* data packet carries: a padded 1 KiB block on the ROM, what one          *)
(* compressed chunk inflates to under the stub.                            *)
(***************************************************************************)
EXTENDS Naturals, Sequences

CONSTANTS
    Plan,           \* the images, in flashing order: [offset, len] in cells
    Cells,          \* size of the flash in cells
    SectorCells,    \* cells in one erase sector
    MaxFaults       \* bound: link faults in one behaviour

Image == DOMAIN Plan
Cell == 0..(Cells - 1)

\* The cells image f occupies, and the cells an erase for it clears (whole
\* sectors).
Region(f) == Plan[f].offset .. (Plan[f].offset + Plan[f].len - 1)
SectorsOf(f) ==
    {c \in Cell : \E d \in Region(f) : c \div SectorCells = d \div SectorCells}


ASSUME PlanAssumption ==
    /\ Cells \in Nat /\ SectorCells \in Nat \ {0} /\ MaxFaults \in Nat
    /\ Plan \in Seq([offset : Nat, len : Nat \ {0}])
    /\ Plan # <<>>
    /\ \A f \in Image : Region(f) \subseteq Cell

\* No erase for one image reaches into another.  esp-idf lays images out on
\* sector boundaries; nothing in flasher checks it (see README).
SectorsDisjoint ==
    \A f, g \in Image : f # g => SectorsOf(f) \cap Region(g) = {}

\* Contents of a cell: piece i of image f is <<f, i>>, with f >= 1.
Old    == <<0, 0>>      \* whatever the flash held before
Erased == <<0, 1>>
Junk   == <<0, 2>>      \* damaged by a transfer error
Content == Nat \X Nat

Piece(f, c) == <<f, c - Plan[f].offset>>
Bytes(f) == [i \in 1..Plan[f].len |-> <<f, i - 1>>]

Command == {"begin", "data", "md5", "end"}

\* A fault is logged as the command it hit; "slip" is a damaged data packet
\* that the one-byte checksum did not catch, "unplug" the end of the link.
FaultKind == Command \cup {"slip", "unplug"}

VARIABLES
    stub,       \* Loader.stub: which of the two write paths runs
    file,       \* image being written (index into the plan)
    pc,         \* command the host issues next, or awaits; "done", "failed"
    await,      \* the host is inside command(), waiting for the response
    seq,        \* block within the image
    attempt,    \* attempts made on this block
    up,         \* frames from host to chip
    down,       \* frames from chip to host
    armed,      \* image whose BEGIN the chip executed last, 0 = none
    stream,     \* chunks the chip has inflated since that BEGIN
    flash,      \* contents of the cells
    faults      \* link faults so far

host == <<file, pc, await, seq, attempt>>
chip == <<armed, stream, flash>>
vars == <<stub, host, up, down, chip, faults>>

Request == [cmd : Command, file : Image, seq : Nat]
\* `seq` of a response is the block it really answers.  No field of the
\* frame carries it and no action of the host reads it.
Response == [cmd : Command, ok : BOOLEAN, seq : Nat, md5 : Seq(Content)]

TypeOK ==
    /\ stub \in BOOLEAN
    /\ file \in Image
    /\ pc \in Command \cup {"done", "failed"}
    /\ await \in BOOLEAN
    /\ seq \in Nat /\ attempt \in Nat
    /\ up \in Seq(Request)
    /\ down \in Seq(Response)
    /\ armed \in Image \cup {0}
    /\ stream \in Nat
    /\ flash \in [Cell -> Content]
    /\ faults \in Seq(FaultKind)

\* The flash starts out holding something else, or the very same images.
Init ==
    /\ stub \in BOOLEAN
    /\ file = 1 /\ pc = "begin" /\ await = FALSE
    /\ seq = 0 /\ attempt = 0
    /\ up = <<>> /\ down = <<>>
    /\ armed = 0 /\ stream = 0
    /\ \/ flash = [c \in Cell |-> Old]
       \/ flash = [c \in Cell |-> IF \E f \in Image : c \in Region(f)
                                  THEN Piece(CHOOSE f \in Image : c \in Region(f), c)
                                  ELSE Old]
    /\ faults = <<>>

-----------------------------------------------------------------------------
(* The host. *)

\* Operators named Bug... are mistakes that could be made in this code.  No
\* behaviour uses them: PROJECT.json pairs each with the definition it would
\* replace and the property that then fails.

\* The retry loop of writeFlashRaw; writeFlashCompressed sends a chunk once.
BugOneAttempt == 1
Attempts == IF stub THEN 1 ELSE 3

BugAttemptNotCounted == attempt
NextAttempt == attempt + 1

\* The commands that are sent again after an error, and the one whose error
\* does not matter.
BugDigestRetried == {"data", "md5"}
Retried == {"data"}

BugDigestBestEffort == {"md5", "end"}
BestEffort == {"end"}

BugBlockOffByOne == seq + 1 <= Plan[file].len
MoreBlocks == seq + 1 < Plan[file].len

BugImagesOffByOne == file <= Len(Plan)
MoreImages == file < Len(Plan)

\* The chip's digest is the host's.
BugDigestLengthOnly == Len(Head(down).md5) = Plan[file].len
DigestMatches == Head(down).md5 = Bytes(file)

Fault(kind) == Len(faults) < MaxFaults /\ faults' = Append(faults, kind)

Unplugged == \E i \in DOMAIN faults : faults[i] = "unplug"

\* command(): write the request frame, then wait.
Issue ==
    /\ pc \in Command /\ ~await
    /\ up' = IF Unplugged THEN up
             ELSE Append(up, [cmd |-> pc, file |-> file, seq |-> seq])
    /\ await' = TRUE
    /\ UNCHANGED <<stub, file, pc, seq, attempt, down, chip, faults>>

Matches == await /\ down # <<>> /\ Head(down).cmd = pc

\* A frame that answers another command is read and dropped.
Skip ==
    /\ await /\ down # <<>> /\ Head(down).cmd # pc
    /\ down' = Tail(down)
    /\ UNCHANGED <<stub, host, up, chip, faults>>

\* FLASH_BEGIN / FLASH_DEFL_BEGIN acknowledged: start on the blocks.
BeginAccepted ==
    /\ pc = "begin"
    /\ pc' = "data" /\ seq' = 0 /\ attempt' = 0
    /\ UNCHANGED file

\* A block acknowledged: the next one, or the digest after the last.
BlockAccepted ==
    /\ pc = "data"
    /\ IF MoreBlocks
       THEN seq' = seq + 1 /\ UNCHANGED pc
       ELSE pc' = "md5" /\ UNCHANGED seq
    /\ attempt' = 0
    /\ UNCHANGED file

\* The chip's digest compared with the host's; then the next image.
DigestAccepted ==
    /\ pc = "md5"
    /\ IF ~DigestMatches THEN pc' = "failed" /\ UNCHANGED file
       ELSE IF MoreImages THEN pc' = "begin" /\ file' = file + 1
       ELSE pc' = "end" /\ UNCHANGED file
    /\ seq' = 0
    /\ UNCHANGED attempt

EndAccepted ==
    /\ pc = "end"
    /\ pc' = "done"
    /\ UNCHANGED <<file, seq, attempt>>

Accept ==
    /\ Matches /\ Head(down).ok
    /\ down' = Tail(down) /\ await' = FALSE
    /\ BeginAccepted \/ BlockAccepted \/ DigestAccepted \/ EndAccepted
    /\ UNCHANGED <<stub, up, chip, faults>>

\* What follows an error of command(), `rest` being the frames left unread.
\* A raw block is sent again after a flush of the input, up to Attempts
\* times; FLASH_END is best effort; any other error ends the command.
CommandFails(rest) ==
    /\ await' = FALSE
    /\ down' = IF pc \in Retried /\ ~stub THEN <<>> ELSE rest
    /\ \/ /\ pc \in Retried /\ NextAttempt < Attempts
          /\ attempt' = NextAttempt
          /\ UNCHANGED pc
       \/ /\ pc \in Retried => NextAttempt >= Attempts
          /\ pc' = IF pc \in BestEffort THEN "done" ELSE "failed"
          /\ UNCHANGED attempt
    /\ UNCHANGED <<stub, file, seq, up, chip>>

\* A matching response with an error status.
Reject ==
    /\ Matches /\ ~Head(down).ok
    /\ CommandFails(Tail(down))
    /\ UNCHANGED faults

\* readFrame fails.  With nothing under way the timeout is due; otherwise the
\* answer is late, or a damaged frame (a bad SLIP escape) ended the wait.
Timeout ==
    /\ await
    /\ CommandFails(down)
    /\ IF up = <<>> /\ down = <<>> THEN UNCHANGED faults ELSE Fault(pc)

Host == Issue \/ Skip \/ Accept \/ Reject \/ Timeout

-----------------------------------------------------------------------------
(* The chip, as the host code relies on it: one request at a time, in      *)
(* order, one response each.                                               *)

Req == Head(up)
NoDigest == <<>>

Reply(ok, digest) ==
    /\ up' = Tail(up)
    /\ down' = Append(down, [cmd |-> Req.cmd, ok |-> ok, seq |-> Req.seq,
                             md5 |-> digest])

\* Programming only clears bits: over anything but erased flash or the same
\* data it leaves neither.
Program(c, v) ==
    flash' = [flash EXCEPT ![c] = IF @ \in {Erased, v} THEN v ELSE Junk]

ChipBegin ==
    /\ up # <<>> /\ Req.cmd = "begin"
    /\ flash' = [c \in Cell |-> IF c \in SectorsOf(Req.file) THEN Erased ELSE flash[c]]
    /\ armed' = Req.file /\ stream' = 0
    /\ Reply(TRUE, NoDigest)
    /\ UNCHANGED <<stub, host, faults>>

\* Where a packet lands: a raw block at its own index, whatever that is; a
\* chunk wherever the inflater has got to in the region announced, so that it
\* must be the next one of the stream.
Target == Plan[armed].offset + (IF stub THEN stream ELSE Req.seq)
InRange == armed # 0 /\ Target \in (IF stub THEN Region(armed) ELSE Cell)
InOrder == stub => stream = Req.seq

ChipData ==
    /\ up # <<>> /\ Req.cmd = "data"
    /\ IF InRange
       THEN /\ Program(Target, IF InOrder THEN <<Req.file, Req.seq>> ELSE Junk)
            /\ stream' = stream + 1
       ELSE UNCHANGED <<flash, stream>>
    /\ Reply(InRange /\ InOrder, NoDigest)
    /\ UNCHANGED <<stub, host, armed, faults>>

\* MD5 is taken to be injective: the digest is the contents of the region.
Digest(f) == [i \in 1..Plan[f].len |-> flash[Plan[f].offset + i - 1]]

ChipMD5 ==
    /\ up # <<>> /\ Req.cmd = "md5"
    /\ Reply(TRUE, Digest(Req.file))
    /\ UNCHANGED <<stub, host, chip, faults>>

ChipEnd ==
    /\ up # <<>> /\ Req.cmd = "end"
    /\ Reply(TRUE, NoDigest)
    /\ UNCHANGED <<stub, host, chip, faults>>

Chip == ChipBegin \/ ChipData \/ ChipMD5 \/ ChipEnd

-----------------------------------------------------------------------------
(* Faults of the link.  Only the payload of a data packet is covered by a  *)
(* checksum; a damaged frame of any other kind is taken to be lost.        *)

LoseRequest ==
    /\ up # <<>> /\ Fault(Req.cmd)
    /\ up' = Tail(up)
    /\ UNCHANGED <<stub, host, down, chip>>

LoseResponse ==
    /\ down # <<>> /\ Fault(Head(down).cmd)
    /\ down' = Tail(down)
    /\ UNCHANGED <<stub, host, up, chip>>

\* A bit error in a response: its status or its digest is wrong.
GarbleResponse ==
    /\ down # <<>> /\ Fault(Head(down).cmd)
    /\ \/ down' = [down EXCEPT ![1].ok = ~@]
       \/ down' = [down EXCEPT ![1].md5 = NoDigest]
    /\ UNCHANGED <<stub, host, up, chip>>

\* A damaged data packet, refused by the chip's checksum test ...
RejectData ==
    /\ up # <<>> /\ Req.cmd = "data" /\ Fault("data")
    /\ Reply(FALSE, NoDigest)
    /\ UNCHANGED <<stub, host, chip>>

\* ... or not, because the damage cancels out in the XOR.
SlipData ==
    /\ up # <<>> /\ Req.cmd = "data" /\ Fault("slip") /\ InRange
    /\ Program(Target, Junk) /\ stream' = stream + 1
    /\ Reply(TRUE, NoDigest)
    /\ UNCHANGED <<stub, host, armed>>

\* The cable is pulled: what was sent is gone, and so is all that follows.
Unplug ==
    /\ ~Unplugged /\ Fault("unplug")
    /\ up' = <<>>
    /\ UNCHANGED <<stub, host, down, chip>>

Link ==
    LoseRequest \/ LoseResponse \/ GarbleResponse \/ RejectData \/ SlipData \/ Unplug

Next == Host \/ Chip \/ Link

Spec == Init /\ [][Next]_vars

\* The host's reads return within the timeout and the chip serves what it
\* received.  No fault has to happen.
FairSpec == Spec /\ WF_vars(Host) /\ WF_vars(Chip)

-----------------------------------------------------------------------------
(* Properties. *)

InFlash(f) == \A c \in Region(f) : flash[c] = Piece(f, c)

\* Images whose digest the host has accepted.
Verified == IF pc \in {"end", "done"} THEN Image ELSE 1..(file - 1)

\* Every image reported "verified (md5) ok" is in flash and stays there while
\* later images are erased, written, retried or given up.  (cmdFlash, the
\* md5 comparison of WriteFlash.)
VerifiedStays == \A f \in Verified : InFlash(f)

\* When an image has been verified no frame of its transfer is left on the
\* link: the retries' surplus answers are gone, so none can be taken for an
\* answer to the next image's commands.
LinkQuiet == pc \in {"begin", "end"} /\ ~await => up = <<>> /\ down = <<>>

\* The commands that can be on the link.  A block that was given up, or whose
\* answer was, can be followed by more of the image and in the end by its
\* digest, but not by the next image.
Lane ==
    CASE pc = "begin"            -> {"begin"}
      [] pc = "data"             -> {"begin", "data"}
      [] pc = "md5"              -> {"begin", "data"} \cup (IF await THEN {"md5"} ELSE {})
      [] pc \in {"end", "done"} -> {"end"}
      [] pc = "failed"           -> Command

Requests ==
    \A i \in 1..Len(up) :
        /\ up[i].cmd \in Lane /\ up[i].file = file
        /\ up[i].cmd = "data" => armed = file /\ up[i].seq < Plan[file].len

Responses == \A i \in 1..Len(down) : down[i].cmd \in Lane

\* Blocks are sent only after the chip executed the BEGIN of their image.
Armed == pc \in {"data", "md5"} \/ (pc = "begin" /\ down # <<>>) => armed = file

InImage ==
    /\ pc = "data" => seq < Plan[file].len
    /\ pc \in {"end", "done"} => file = Len(Plan)

\* The digest is asked for once, nothing is sent after it, and the one on its
\* way to the host is of what the flash holds now.
LastDigest ==
    pc = "md5" =>
        /\ \A i \in 1..Len(up) : up[i].cmd = "md5" => i = Len(up)
        /\ \A i \in 1..Len(down) : down[i].cmd = "md5" =>
               i = Len(down) /\ up = <<>> /\ down[i].md5 \in {NoDigest, Digest(file)}

\* What the frames on the link have in common at every moment of the exchange:
\* the invariant behind LinkQuiet and, through it, behind VerifiedStays.
LinkInv == Requests /\ Responses /\ Armed /\ InImage /\ LastDigest /\ LinkQuiet

\* Only the sectors of the image the host is at ever change: a late or repeated
\* packet writes into no image before it, a session that fails leaves the images
\* after it as they were, and what is in none (an NVS partition, say) stays.
OthersUntouched ==
    [][\A c \in Cell \ SectorsOf(file) : flash'[c] = flash[c]]_vars

\* The command always ends: no retry loop and no wait is without a limit.
Terminates == <>(pc \in {"done", "failed"})

\* A clean link succeeds; and on the ROM loader one fault on a data packet,
\* of any detectable kind (lost, late, refused, garbled), is made good by
\* the retry of writeFlashRaw.
FaultMasked ==
    [](faults = <<>> \/ (~stub /\ faults = <<"data">>)) => <>(pc = "done")

\* Refinement: the exchange implements the promise of VerifiedWrite.
Abstract == INSTANCE VerifiedWrite WITH
    Images <- Len(Plan),
    present <- [f \in Image |-> InFlash(f)],
    verified <- IF pc \in {"end", "done"} THEN Len(Plan) ELSE file - 1,
    outcome <- IF pc \in {"done", "failed"} THEN pc ELSE "running"

Refines == Abstract!Spec

\* "Reads <build-dir>/flasher_args.json and writes exactly the images it lists,
\* at their offsets, verifying each region" (README.md:91): a flash that ends
\* in "done" leaves every image in flash.
DoneMeansWritten == pc = "done" => \A f \in Image : InFlash(f)
=============================================================================
