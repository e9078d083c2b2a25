-------------------------- MODULE FlashWriteProofs --------------------------
(***************************************************************************)
(* Theorems about FlashWrite, for every plan, every flash geometry and     *)
(* any number of link faults.                                              *)
(***************************************************************************)
EXTENDS FlashWrite, SequenceTheorems, TLAPS

-----------------------------------------------------------------------------
(* Lemmas about the operators of the model. *)

\* An image of the plan has an offset, a length of at least one cell, and a
\* region that lies in flash and in the sectors its erase clears.
LEMMA ImageFacts ==
    ASSUME NEW f \in Image
    PROVE  /\ f \in Nat \ {0} /\ f <= Len(Plan)
           /\ Plan[f].offset \in Nat /\ Plan[f].len \in Nat \ {0}
           /\ Region(f) \subseteq Cell
           /\ Region(f) \subseteq SectorsOf(f)
<1> DEFINE Entry == [offset : Nat, len : Nat \ {0}]
<1>1. f \in 1..Len(Plan) /\ Plan[f] \in Entry
  <2>1. Plan \in Seq(Entry)
    BY PlanAssumption
  <2>2. DOMAIN Plan = 1..Len(Plan)
    BY <2>1, LenProperties
  <2>3. f \in 1..Len(Plan)
    BY <2>2 DEF Image
  <2> HIDE DEF Entry
  <2>4. Plan[f] \in Entry
    BY <2>1, <2>3, ElementOfSeq
  <2>5. QED
    BY <2>3, <2>4
<1>2. Region(f) \subseteq Cell
  BY PlanAssumption
<1>3. QED
  BY <1>1, <1>2, LenProperties, PlanAssumption DEF SectorsOf

LEMMA LastImage == Len(Plan) \in Image /\ 1 \in Image
BY PlanAssumption, LenProperties, EmptySeq DEF Image

\* A digest is a sequence of cell contents.
LEMMA DigestType ==
    ASSUME NEW f \in Image, flash \in [Cell -> Content]
    PROVE  Digest(f) \in Seq(Content) /\ Len(Digest(f)) = Plan[f].len
<1>1. \A i \in 1..Plan[f].len : Plan[f].offset + i - 1 \in Cell
  BY ImageFacts DEF Region
<1>2. \A i \in 1..Plan[f].len : flash[Plan[f].offset + i - 1] \in Content
  BY <1>1
<1>3. Digest(f) \in [1..Plan[f].len -> Content]
  BY <1>2 DEF Digest
<1>4. QED
  BY <1>3, ImageFacts

\* Replacing the first element of a queue keeps its length and its others.
LEMMA ReplaceHead ==
    ASSUME NEW S, NEW q \in Seq(S), q # <<>>, NEW e \in S
    PROVE  /\ [q EXCEPT ![1] = e] \in Seq(S)
           /\ Len([q EXCEPT ![1] = e]) = Len(q)
           /\ [q EXCEPT ![1] = e][1] = e
           /\ \A i \in 2..Len(q) : [q EXCEPT ![1] = e][i] = q[i]
<1>1. 1 \in 1..Len(q)
  BY EmptySeq
<1>2. QED
  BY <1>1, ExceptSeq

\* A garbled response still answers the same command; its digest is the one
\* it had or none.
LEMMA GarbledHead ==
    ASSUME TypeOK, GarbleResponse
    PROVE  \E e \in Response : /\ e.cmd = down[1].cmd
                              /\ e.md5 \in {down[1].md5, NoDigest}
                              /\ down' = [down EXCEPT ![1] = e]
<1>1. down[1] \in Response
  <2>1. down # <<>> /\ down \in Seq(Response)
    BY DEF GarbleResponse, TypeOK
  <2>2. 1 \in 1..Len(down)
    BY <2>1, EmptySeq
  <2>3. QED
    BY <2>1, <2>2, ElementOfSeq
<1>2. CASE down' = [down EXCEPT ![1].ok = ~@]
  <2>1. [down[1] EXCEPT !.ok = ~down[1].ok] \in Response
    BY <1>1 DEF Response
  <2>2. [down[1] EXCEPT !.ok = ~down[1].ok].cmd = down[1].cmd
    BY <1>1 DEF Response
  <2>3. [down[1] EXCEPT !.ok = ~down[1].ok].md5 = down[1].md5
    BY <1>1 DEF Response
  <2>4. QED
    BY <1>2, <2>1, <2>2, <2>3
<1>3. CASE down' = [down EXCEPT ![1].md5 = NoDigest]
  <2>1. [down[1] EXCEPT !.md5 = NoDigest] \in Response
    BY <1>1, EmptySeq DEF Response, NoDigest
  <2>2. [down[1] EXCEPT !.md5 = NoDigest].cmd = down[1].cmd
    BY <1>1 DEF Response
  <2>3. [down[1] EXCEPT !.md5 = NoDigest].md5 = NoDigest
    BY <1>1 DEF Response
  <2>4. QED
    BY <1>3, <2>1, <2>2, <2>3
<1>4. QED
  BY <1>2, <1>3 DEF GarbleResponse

-----------------------------------------------------------------------------
(* Types. *)

\* TypeOK needs one more fact to be inductive: only a command is awaited.
Typed == TypeOK /\ (await => pc \in Command)

LEMMA InitType == Init => Typed
<1> SUFFICES ASSUME Init PROVE Typed
  OBVIOUS
<1>1. flash \in [Cell -> Content]
  <2>1. CASE flash = [c \in Cell |-> Old]
    BY <2>1 DEF Content, Old
  <2>2. CASE flash = [c \in Cell |-> IF \E f \in Image : c \in Region(f)
                                     THEN Piece(CHOOSE f \in Image : c \in Region(f), c)
                                     ELSE Old]
    <3>1. ASSUME NEW c \in Cell, NEW f \in Image, c \in Region(f)
          PROVE  Piece(f, c) \in Content
      BY <3>1, ImageFacts DEF Piece, Content, Region, Cell
    <3>2. ASSUME NEW c \in Cell, \E f \in Image : c \in Region(f)
          PROVE  Piece(CHOOSE f \in Image : c \in Region(f), c) \in Content
      BY <3>1, <3>2
    <3>3. Old \in Content
      BY DEF Old, Content
    <3>4. QED
      BY <2>2, <3>2, <3>3
  <2>3. QED
    BY <2>1, <2>2 DEF Init
<1>2. file \in Image
  BY LastImage DEF Init
<1>3. up \in Seq(Request) /\ down \in Seq(Response) /\ faults \in Seq(FaultKind)
  BY EmptySeq DEF Init
<1>4. QED
  BY <1>1, <1>2, <1>3 DEF Init, TypeOK, Typed, Command

LEMMA NextType == Typed /\ [Next]_vars => Typed'
<1> SUFFICES ASSUME Typed, [Next]_vars PROVE Typed'
  OBVIOUS
<1> USE DEF TypeOK, Typed
<1>1. CASE Issue
  <2>1. CASE Unplugged
    BY <1>1, <2>1 DEF Issue, chip
  <2>2. CASE ~Unplugged
    <3>1. [cmd |-> pc, file |-> file, seq |-> seq] \in Request
      BY <1>1 DEF Issue, Request
    <3>2. up' \in Seq(Request)
      BY <1>1, <2>2, <3>1 DEF Issue
    <3>3. QED
      BY <1>1, <3>2 DEF Issue, chip
  <2>3. QED
    BY <2>1, <2>2
<1>2. CASE Skip
  BY <1>2, HeadTailProperties DEF Skip, host, chip
<1>3. CASE Accept
  <2>1. down' \in Seq(Response)
    BY <1>3, HeadTailProperties DEF Accept, Matches
  <2>2. CASE BeginAccepted
    BY <1>3, <2>1, <2>2 DEF Accept, BeginAccepted, chip, Command
  <2>3. CASE BlockAccepted
    <3>1. pc' \in Command /\ seq' \in Nat /\ attempt' \in Nat /\ file' \in Image
      BY <2>3 DEF BlockAccepted, MoreBlocks, Command
    <3>2. QED
      BY <1>3, <2>1, <3>1 DEF Accept, chip
  <2>4. CASE DigestAccepted
    <3>1. file < Len(Plan) => file + 1 \in Image
      BY ImageFacts, PlanAssumption DEF Image
    <3>2. QED
      BY <1>3, <2>1, <2>4, <3>1 DEF Accept, DigestAccepted, DigestMatches, MoreImages, chip, Command
  <2>5. CASE EndAccepted
    BY <1>3, <2>1, <2>5 DEF Accept, EndAccepted, chip, Command
  <2>6. QED
    BY <1>3, <2>2, <2>3, <2>4, <2>5 DEF Accept
<1>4. ASSUME NEW rest \in Seq(Response), CommandFails(rest), faults' \in Seq(FaultKind)
      PROVE  Typed'
  <2>1. down' \in Seq(Response)
    BY <1>4, EmptySeq DEF CommandFails, Retried, BestEffort, NextAttempt
  <2>2. pc' \in Command \cup {"done", "failed"} /\ attempt' \in Nat
    BY <1>4 DEF CommandFails, Retried, BestEffort, NextAttempt
  <2>3. QED
    BY <1>4, <2>1, <2>2 DEF CommandFails, Retried, BestEffort, NextAttempt, chip
<1>5. CASE Reject
  BY <1>4, <1>5, HeadTailProperties DEF Reject, Matches
<1>6. ASSUME NEW kind \in FaultKind, Fault(kind)
      PROVE  faults' \in Seq(FaultKind)
  BY <1>6 DEF Fault
<1>7. CASE Timeout
  <2>1. pc \in Command
    BY <1>7 DEF Timeout
  <2>2. QED
    BY <1>4, <1>6, <1>7, <2>1 DEF Timeout, FaultKind
<1>8. ASSUME NEW ok \in BOOLEAN, NEW digest \in Seq(Content), up # <<>>, Reply(ok, digest)
      PROVE  up' \in Seq(Request) /\ down' \in Seq(Response)
  <2>1. Head(up) \in Request /\ Tail(up) \in Seq(Request)
    BY <1>8, HeadTailProperties
  <2>2. [cmd |-> Req.cmd, ok |-> ok, seq |-> Req.seq, md5 |-> digest] \in Response
    BY <2>1, <1>8 DEF Req, Request, Response
  <2>3. QED
    BY <1>8, <2>1, <2>2 DEF Reply
<1>9. NoDigest \in Seq(Content)
  BY EmptySeq DEF NoDigest
<1>10. ASSUME up # <<>>
       PROVE  Req.cmd \in Command /\ Req.file \in Image /\ Req.seq \in Nat
  <2>1. Head(up) \in Request
    BY <1>10, HeadTailProperties
  <2>2. QED
    BY <2>1 DEF Req, Request
<1>11. CASE ChipBegin
  <2>1. flash' \in [Cell -> Content]
    BY <1>11 DEF ChipBegin, Content, Erased
  <2>2. armed' \in Image \cup {0} /\ stream' \in Nat
    BY <1>10, <1>11 DEF ChipBegin
  <2>3. up' \in Seq(Request) /\ down' \in Seq(Response)
    BY <1>8, <1>9, <1>11 DEF ChipBegin
  <2>4. QED
    BY <1>11, <2>1, <2>2, <2>3 DEF ChipBegin, host
<1>12. ASSUME NEW c \in Cell, NEW v \in Content, Program(c, v)
       PROVE  flash' \in [Cell -> Content]
  BY <1>12 DEF Program, Content, Junk
<1>13. InRange => Target \in Cell
  BY ImageFacts DEF InRange
<1>14. Junk \in Content
  BY DEF Junk, Content
<1>15. CASE ChipData
  <2>1. <<Req.file, Req.seq>> \in Content
    BY <1>10, <1>15, ImageFacts DEF ChipData, Content
  <2>2. flash' \in [Cell -> Content] /\ stream' \in Nat
    BY <1>12, <1>13, <1>14, <1>15, <2>1 DEF ChipData
  <2>3. (InRange /\ InOrder) \in BOOLEAN
    OBVIOUS
  <2>4. up' \in Seq(Request) /\ down' \in Seq(Response)
    BY <1>8, <1>9, <1>15, <2>3 DEF ChipData
  <2>5. QED
    BY <1>15, <2>2, <2>4 DEF ChipData, host
<1>16. CASE ChipMD5
  <2>1. Digest(Req.file) \in Seq(Content)
    BY <1>10, <1>16, DigestType DEF ChipMD5
  <2>2. up' \in Seq(Request) /\ down' \in Seq(Response)
    BY <1>8, <1>16, <2>1 DEF ChipMD5
  <2>3. QED
    BY <1>16, <2>2 DEF ChipMD5, host, chip
<1>17. CASE ChipEnd
  <2>1. up' \in Seq(Request) /\ down' \in Seq(Response)
    BY <1>8, <1>9, <1>17 DEF ChipEnd
  <2>2. QED
    BY <1>17, <2>1 DEF ChipEnd, host, chip
<1>18. ASSUME down # <<>>
       PROVE  /\ down[1] \in Response /\ Tail(down) \in Seq(Response)
              /\ Head(down).cmd \in FaultKind
  <2>1. Head(down) \in Response /\ Tail(down) \in Seq(Response) /\ down[1] \in Response
    BY <1>18, HeadTailProperties, EmptySeq, ElementOfSeq
  <2>2. QED
    BY <2>1 DEF Response, FaultKind
<1>19. CASE LoseRequest
  BY <1>6, <1>10, <1>19, HeadTailProperties DEF LoseRequest, host, chip, FaultKind
<1>20. CASE LoseResponse
  BY <1>6, <1>18, <1>20 DEF LoseResponse, host, chip
<1>21. CASE GarbleResponse
  <2>1. faults' \in Seq(FaultKind)
    BY <1>6, <1>18, <1>21 DEF GarbleResponse
  <2>2. PICK e \in Response : down' = [down EXCEPT ![1] = e]
    BY <1>21, GarbledHead
  <2>3. down # <<>>
    BY <1>21 DEF GarbleResponse
  <2>4. down' \in Seq(Response)
    BY <2>2, <2>3, ReplaceHead
  <2>5. QED
    BY <1>21, <2>1, <2>4 DEF GarbleResponse, host, chip
<1>22. CASE RejectData
  <2>1. up' \in Seq(Request) /\ down' \in Seq(Response)
    BY <1>8, <1>9, <1>22 DEF RejectData
  <2>2. QED
    BY <1>6, <1>22, <2>1 DEF RejectData, FaultKind, Command, host, chip
<1>23. CASE SlipData
  <2>1. up' \in Seq(Request) /\ down' \in Seq(Response)
    BY <1>8, <1>9, <1>23 DEF SlipData
  <2>2. flash' \in [Cell -> Content] /\ stream' \in Nat
    BY <1>12, <1>13, <1>14, <1>23 DEF SlipData
  <2>3. QED
    BY <1>6, <1>23, <2>1, <2>2 DEF SlipData, FaultKind, host
<1>24. CASE Unplug
  <2>1. up' \in Seq(Request)
    BY <1>24, EmptySeq DEF Unplug
  <2>2. QED
    BY <1>6, <1>24, <2>1 DEF Unplug, FaultKind, host, chip
<1>25. CASE UNCHANGED vars
  BY <1>25 DEF vars, host, chip
<1>26. QED
  BY <1>1, <1>2, <1>3, <1>5, <1>7, <1>11, <1>15, <1>16, <1>17, <1>19, <1>20, <1>21,
     <1>22, <1>23, <1>24, <1>25 DEF Next, Host, Chip, Link

\* Every variable keeps its type: no index leaves the plan, no packet lands
\* outside the flash, no digest or frame of an unknown shape arises.
THEOREM TypeCorrect == Spec => []TypeOK
<1>1. Typed => TypeOK
  BY DEF Typed
<1>2. QED
  BY InitType, NextType, <1>1, PTL DEF Spec

-----------------------------------------------------------------------------
(* The frames on the link. *)

\* Taking the first frame off a queue, or adding one to its end, leaves the
\* other frames as they were.
LEMMA TailFrames ==
    ASSUME NEW S, NEW q \in Seq(S), q # <<>>
    PROVE  /\ Len(q) \in Nat \ {0} /\ Len(Tail(q)) = Len(q) - 1
           /\ Head(q) = q[1]
           /\ \A i \in 1..Len(Tail(q)) : i + 1 \in 1..Len(q) /\ Tail(q)[i] = q[i + 1]
BY HeadTailProperties, EmptySeq

LEMMA AppendFrames ==
    ASSUME NEW S, NEW q \in Seq(S), NEW e \in S
    PROVE  /\ Append(q, e) \in Seq(S) /\ Append(q, e) # <<>>
           /\ Len(q) \in Nat /\ Len(Append(q, e)) = Len(q) + 1
           /\ \A i \in 1..Len(q) : Append(q, e)[i] = q[i]
           /\ Append(q, e)[Len(q) + 1] = e
BY AppendProperties

LEMMA InitLink == Init => LinkInv
BY EmptySeq DEF Init, LinkInv, Requests, Responses, Armed, InImage, LastDigest, LinkQuiet

\* The chip serves the oldest request: the effect on the link is the same for
\* every command, as long as the flash changes only for a BEGIN or a block
\* and a BEGIN arms its image.
LEMMA ReplyLink ==
    ASSUME Typed, LinkInv, up # <<>>, UNCHANGED <<stub, host>>,
           NEW ok \in BOOLEAN, NEW digest \in Seq(Content), Reply(ok, digest),
           Req.cmd = "begin" => armed' = Req.file,
           Req.cmd # "begin" => armed' = armed,
           Req.cmd = "md5" => flash' = flash /\ digest = Digest(Req.file)
    PROVE  LinkInv'
<1> DEFINE answer == [cmd |-> Req.cmd, ok |-> ok, seq |-> Req.seq, md5 |-> digest]
<1>1. /\ up' = Tail(up) /\ Len(up) \in Nat \ {0} /\ Len(up') = Len(up) - 1
      /\ \A i \in 1..Len(up') : i + 1 \in 1..Len(up) /\ up'[i] = up[i + 1]
      /\ Req = up[1] /\ 1 \in 1..Len(up)
  BY TailFrames DEF Typed, TypeOK, Reply, Req
<1>2. Req \in Request
  BY <1>1, ElementOfSeq DEF Typed, TypeOK
<1>3. answer \in Response /\ answer.cmd = Req.cmd /\ answer.md5 = digest
  BY <1>2 DEF Request, Response
<1>4. /\ down' = Append(down, answer) /\ Len(down) \in Nat /\ Len(down') = Len(down) + 1
      /\ \A i \in 1..Len(down) : down'[i] = down[i]
      /\ down'[Len(down) + 1] = answer
  <2> HIDE DEF answer
  <2>1. down' = Append(down, answer)
    BY DEF Reply, answer
  <2>2. QED
    BY <2>1, <1>3, AppendFrames DEF Typed, TypeOK
<1> HIDE DEF answer
<1>5. UNCHANGED <<pc, await, file, seq>> /\ Lane' = Lane
  BY DEF host, Lane
<1>6. Req.cmd \in Lane /\ Req.file = file
  BY <1>1 DEF LinkInv, Requests
<1>7. Requests'
  BY <1>1, <1>5, <1>6 DEF LinkInv, Requests
<1>8. Responses'
  BY <1>3, <1>4, <1>5, <1>6 DEF LinkInv, Responses
<1>9. Armed'
  BY <1>5, <1>6 DEF LinkInv, Armed, Lane
<1>10. InImage'
  BY <1>5 DEF LinkInv, InImage
<1>11. LastDigest'
  <2> SUFFICES ASSUME pc = "md5" PROVE LastDigest'
    BY <1>5 DEF LastDigest
  <2>1. ASSUME NEW i \in 1..Len(up'), up'[i].cmd = "md5"
        PROVE  i = Len(up')
    <3>1. i + 1 \in 1..Len(up) /\ up[i + 1].cmd = "md5"
      BY <1>1, <2>1
    <3>2. i + 1 = Len(up)
      BY <3>1 DEF LinkInv, LastDigest
    <3>3. Len(up) \in Nat /\ Len(up') = Len(up) - 1 /\ i \in Int
      BY <1>1
    <3>4. QED
      BY <3>2, <3>3
  <2>2. \A i \in 1..Len(down) : down'[i].cmd # "md5"
    BY <1>4 DEF LinkInv, LastDigest
  <2>3. ASSUME answer.cmd = "md5"
        PROVE  up' = <<>> /\ answer.md5 \in {NoDigest, Digest(file)'}
    <3>1. Len(up) = 1
      BY <1>1, <1>3, <2>3 DEF LinkInv, LastDigest
    <3>2. up' = <<>>
      BY <1>1, <3>1, EmptySeq, HeadTailProperties DEF Typed, TypeOK
    <3>3. Digest(file)' = Digest(file)
      BY <1>3, <1>5, <2>3 DEF Digest
    <3>4. QED
      BY <1>3, <1>6, <2>3, <3>2, <3>3
  <2>4. QED
    BY <1>4, <1>5, <2>1, <2>2, <2>3 DEF LastDigest
<1>12. LinkQuiet'
  BY <1>5 DEF LinkInv, LinkQuiet
<1>13. QED
  BY <1>7, <1>8, <1>9, <1>10, <1>11, <1>12 DEF LinkInv

\* Frames that go missing (read and dropped, or lost) leave the invariant true,
\* as long as the host and the chip do nothing.
LEMMA DropLink ==
    ASSUME Typed, LinkInv, UNCHANGED <<stub, host, chip>>,
           up' = up \/ up' = <<>> \/ (up # <<>> /\ up' = Tail(up)),
           down' = down \/ (down # <<>> /\ down' = Tail(down))
    PROVE  LinkInv'
<1>1. /\ up' = <<>> => Len(up') = 0
      /\ up = <<>> => up' = <<>>
      /\ Len(up) \in Nat /\ Len(up') \in Nat
      /\ \A i \in 1..Len(up') : \E j \in 1..Len(up) :
             up'[i] = up[j] /\ (j = Len(up) => i = Len(up'))
  <2>1. CASE up' = up
    BY <2>1, EmptySeq, LenProperties DEF Typed, TypeOK
  <2>2. CASE up' = <<>>
    BY <2>2, EmptySeq, LenProperties DEF Typed, TypeOK
  <2>3. CASE up # <<>> /\ up' = Tail(up)
    <3>1. /\ Len(up) \in Nat \ {0} /\ Len(up') = Len(up) - 1
          /\ \A i \in 1..Len(up') : i + 1 \in 1..Len(up) /\ up'[i] = up[i + 1]
      BY <2>3, TailFrames DEF Typed, TypeOK
    <3>2. up' = <<>> => Len(up') = 0
      BY EmptySeq
    <3>3. \A i \in 1..Len(up') : i + 1 = Len(up) => i = Len(up')
      BY <3>1
    <3>4. \A i \in 1..Len(up') : \E j \in 1..Len(up) :
             up'[i] = up[j] /\ (j = Len(up) => i = Len(up'))
      BY <3>1, <3>3
    <3>5. Len(up) \in Nat /\ Len(up') \in Nat
      BY <3>1
    <3>6. QED
      BY <2>3, <3>2, <3>4, <3>5
  <2>4. QED
    BY <2>1, <2>2, <2>3
<1>2. /\ down = <<>> => down' = <<>>
      /\ Len(down) \in Nat /\ Len(down') \in Nat
      /\ \A i \in 1..Len(down') : \E j \in 1..Len(down) :
             down'[i] = down[j] /\ (j = Len(down) => i = Len(down'))
  <2>1. CASE down' = down
    BY <2>1, LenProperties DEF Typed, TypeOK
  <2>2. CASE down # <<>> /\ down' = Tail(down)
    BY <2>2, TailFrames, EmptySeq DEF Typed, TypeOK
  <2>3. QED
    BY <2>1, <2>2
<1>3. UNCHANGED <<pc, await, file, seq, armed, flash>> /\ Lane' = Lane
  BY DEF host, chip, Lane
<1>4. Digest(file)' = Digest(file)
  BY <1>3 DEF Digest
<1>5. Requests'
  BY <1>1, <1>3 DEF LinkInv, Requests
<1>6. Responses'
  BY <1>2, <1>3 DEF LinkInv, Responses
<1>7. Armed' /\ InImage' /\ LinkQuiet'
  BY <1>1, <1>2, <1>3 DEF LinkInv, Armed, InImage, LinkQuiet
<1>8. LastDigest'
  <2> SUFFICES ASSUME pc = "md5" PROVE LastDigest'
    BY <1>3 DEF LastDigest
  <2>1. \A i \in 1..Len(up') : up'[i].cmd = "md5" => i = Len(up')
    BY <1>1 DEF LinkInv, LastDigest
  <2>2. \A i \in 1..Len(down') : down'[i].cmd = "md5" =>
            i = Len(down') /\ up' = <<>> /\ down'[i].md5 \in {NoDigest, Digest(file)'}
    BY <1>1, <1>2, <1>4 DEF LinkInv, LastDigest
  <2>3. QED
    BY <1>3, <2>1, <2>2 DEF LastDigest
<1>9. QED
  BY <1>5, <1>6, <1>7, <1>8 DEF LinkInv

\* A garbled answer is still an answer to the same command.
LEMMA GarbleLink ==
    ASSUME Typed, LinkInv, GarbleResponse
    PROVE  LinkInv'
<1>1. PICK e \in Response : /\ e.cmd = down[1].cmd /\ e.md5 \in {down[1].md5, NoDigest}
                            /\ down' = [down EXCEPT ![1] = e]
  BY GarbledHead DEF Typed
<1>2. /\ Len(down) \in Nat \ {0} /\ Len(down') = Len(down)
      /\ down'[1] = e /\ \A i \in 2..Len(down) : down'[i] = down[i]
  BY <1>1, ReplaceHead, EmptySeq DEF GarbleResponse, Typed, TypeOK
<1>3. \A i \in 1..Len(down) : /\ down'[i].cmd = down[i].cmd
                              /\ down'[i].md5 \in {down[i].md5, NoDigest}
  <2> SUFFICES ASSUME NEW i \in 1..Len(down)
               PROVE  down'[i].cmd = down[i].cmd /\ down'[i].md5 \in {down[i].md5, NoDigest}
    OBVIOUS
  <2>1. CASE i = 1
    BY <1>1, <1>2, <2>1
  <2>2. CASE i \in 2..Len(down)
    BY <1>2, <2>2
  <2>3. QED
    BY <2>1, <2>2, <1>2
<1>4. UNCHANGED <<up, pc, await, file, seq, armed, flash>> /\ Lane' = Lane
  BY DEF GarbleResponse, host, chip, Lane
<1>5. Digest(file)' = Digest(file)
  BY <1>4 DEF Digest
<1>6. Requests' /\ Responses' /\ InImage'
  BY <1>2, <1>3, <1>4 DEF LinkInv, Requests, Responses, InImage
<1>7. Armed' /\ LinkQuiet'
  BY <1>4 DEF LinkInv, Armed, LinkQuiet, GarbleResponse
<1>8. LastDigest'
  BY <1>2, <1>3, <1>4, <1>5 DEF LinkInv, LastDigest
<1>9. QED
  BY <1>6, <1>7, <1>8 DEF LinkInv

\* A request is added behind the others, on a link that is quiet when the
\* command is the first or the last of an image.
LEMMA IssueLink ==
    ASSUME Typed, LinkInv, Issue
    PROVE  LinkInv'
<1> DEFINE request == [cmd |-> pc, file |-> file, seq |-> seq]
<1>1. /\ pc \in Command /\ ~await /\ await'
      /\ UNCHANGED <<pc, file, seq, down, armed, flash>>
  BY DEF Issue, chip
<1>2. Lane \subseteq Lane' /\ pc \in Lane'
  BY <1>1 DEF Lane, Command
<1>3. InImage' /\ Armed' /\ LinkQuiet' /\ Responses'
  BY <1>1, <1>2 DEF LinkInv, InImage, Armed, LinkQuiet, Responses
<1>4. CASE up' = up
  <2>1. Requests'
    BY <1>1, <1>2, <1>4 DEF LinkInv, Requests
  <2>2. Digest(file)' = Digest(file)
    BY <1>1 DEF Digest
  <2>3. LastDigest'
    BY <1>1, <1>4, <2>2 DEF LinkInv, LastDigest
  <2>4. QED
    BY <1>3, <2>1, <2>3 DEF LinkInv
<1>5. CASE up' = Append(up, request)
  <2>1. request \in Request
    BY <1>1 DEF Typed, TypeOK, Request
  <2>2. request.cmd = pc /\ request.file = file /\ request.seq = seq
    OBVIOUS
  <2> HIDE DEF request
  <2>3. /\ Len(up) \in Nat /\ Len(up') = Len(up) + 1
        /\ \A i \in 1..Len(up) : up'[i] = up[i]
        /\ up'[Len(up) + 1] = request
    BY <1>5, <2>1, AppendFrames DEF Typed, TypeOK
  <2>4. Requests'
    <3> SUFFICES ASSUME NEW i \in 1..Len(up')
                 PROVE  /\ up'[i].cmd \in Lane' /\ up'[i].file = file
                        /\ up'[i].cmd = "data" => armed = file /\ up'[i].seq < Plan[file].len
      BY <1>1 DEF Requests
    <3>1. CASE i \in 1..Len(up)
      BY <1>2, <2>3, <3>1 DEF LinkInv, Requests
    <3>2. CASE i = Len(up) + 1
      BY <1>2, <2>2, <2>3, <3>2 DEF LinkInv, Armed, InImage
    <3>3. QED
      BY <2>3, <3>1, <3>2
  <2>5. LastDigest'
    <3> SUFFICES ASSUME pc = "md5" PROVE LastDigest'
      BY <1>1 DEF LastDigest
    <3>1. "md5" \notin Lane
      BY <1>1 DEF Lane
    <3>2. /\ \A i \in 1..Len(up) : up[i].cmd # "md5"
          /\ \A i \in 1..Len(down) : down[i].cmd # "md5"
      BY <3>1 DEF LinkInv, Requests, Responses
    <3>3. \A i \in 1..Len(up') : up'[i].cmd = "md5" => i = Len(up')
      BY <2>3, <3>2
    <3>4. QED
      BY <1>1, <3>2, <3>3 DEF LastDigest
  <2>6. QED
    BY <1>3, <2>4, <2>5 DEF LinkInv
<1>6. QED
  BY <1>4, <1>5 DEF Issue

\* An error leaves the image it was for on the link, and only the ROM's retry
\* of a block goes on from there.
LEMMA FailLink ==
    ASSUME Typed, LinkInv, await,
           NEW rest \in Seq(Response),
           \A i \in 1..Len(rest) : \E j \in 1..Len(down) : rest[i] = down[j],
           CommandFails(rest)
    PROVE  LinkInv'
<1>1. /\ UNCHANGED <<up, file, seq, armed, flash>>
      /\ ~await'
      /\ \/ pc = "data" /\ pc' = "data"
         \/ pc' = "failed" /\ pc # "end"
         \/ pc' = "done" /\ pc = "end"
  BY DEF CommandFails, Retried, BestEffort, NextAttempt, chip
<1>2. Lane \subseteq Lane'
  BY <1>1 DEF Typed, TypeOK, Lane, Command
<1>3. \A i \in 1..Len(down') : \E j \in 1..Len(down) : down'[i] = down[j]
  BY EmptySeq DEF CommandFails, Retried, BestEffort, NextAttempt
<1>4. Requests' /\ Responses'
  BY <1>1, <1>2, <1>3 DEF LinkInv, Requests, Responses
<1>5. InImage' /\ Armed' /\ LinkQuiet' /\ LastDigest'
  BY <1>1 DEF LinkInv, InImage, Armed, LinkQuiet, LastDigest
<1>6. QED
  BY <1>4, <1>5 DEF LinkInv

\* An answer is accepted.  The one to the digest is the last frame on the link,
\* so the next image starts on an empty one.
LEMMA AcceptLink ==
    ASSUME Typed, LinkInv, Accept
    PROVE  LinkInv'
<1>1. /\ await /\ ~await' /\ down # <<>> /\ down[1].cmd = pc /\ down' = Tail(down)
      /\ UNCHANGED <<up, armed, flash>>
  BY TailFrames DEF Accept, Matches, chip, Typed, TypeOK
<1>2. /\ Len(down) \in Nat \ {0} /\ Len(down') = Len(down) - 1
      /\ \A i \in 1..Len(down') : i + 1 \in 1..Len(down) /\ down'[i] = down[i + 1]
  BY <1>1, TailFrames DEF Typed, TypeOK
<1>3. file \in Image /\ Plan[file].len \in Nat \ {0} /\ file <= Len(Plan)
  BY ImageFacts DEF Typed, TypeOK
<1>4. CASE BeginAccepted
  <2>1. pc = "begin" /\ pc' = "data" /\ file' = file /\ seq' = 0 /\ armed = file
    BY <1>1, <1>4 DEF BeginAccepted, LinkInv, Armed
  <2>2. Requests' /\ Responses'
    BY <1>1, <1>2, <2>1 DEF LinkInv, Requests, Responses, Lane
  <2>3. InImage' /\ Armed' /\ LinkQuiet' /\ LastDigest'
    BY <1>1, <1>3, <2>1 DEF InImage, Armed, LinkQuiet, LastDigest
  <2>4. QED
    BY <2>2, <2>3 DEF LinkInv
<1>5. CASE BlockAccepted
  <2>1. /\ pc = "data" /\ file' = file /\ armed = file
        /\ \/ pc' = "data" /\ seq' < Plan[file].len
           \/ pc' = "md5"
    BY <1>5 DEF BlockAccepted, MoreBlocks, LinkInv, Armed
  <2>2. Requests' /\ Responses'
    BY <1>1, <1>2, <2>1 DEF LinkInv, Requests, Responses, Lane
  <2>3. InImage' /\ Armed' /\ LinkQuiet'
    BY <1>1, <2>1 DEF InImage, Armed, LinkQuiet
  <2>4. /\ \A i \in 1..Len(up') : up'[i].cmd # "md5"
        /\ \A i \in 1..Len(down') : down'[i].cmd # "md5"
    BY <1>1, <1>2, <2>1 DEF LinkInv, Requests, Responses, Lane
  <2>5. LastDigest'
    BY <2>4 DEF LastDigest
  <2>6. QED
    BY <2>2, <2>3, <2>5 DEF LinkInv
<1>6. CASE DigestAccepted
  <2>1. pc = "md5" /\ (pc' = "failed" \/ pc' = "begin" \/ (pc' = "end" /\ file' = Len(Plan)))
    <3>1. file \in Nat /\ Len(Plan) \in Nat
      BY <1>3, LastImage, ImageFacts
    <3>2. ~(file < Len(Plan)) => file = Len(Plan)
      BY <1>3, <3>1
    <3>3. QED
      BY <1>6, <3>2 DEF DigestAccepted, DigestMatches, MoreImages
  <2>2. Len(down) = 1 /\ up = <<>>
    <3>1. 1 \in 1..Len(down)
      BY <1>2
    <3>2. QED
      BY <1>1, <2>1, <3>1 DEF LinkInv, LastDigest
  <2>3. up' = <<>> /\ down' = <<>>
    BY <1>1, <1>2, <2>2, EmptySeq, HeadTailProperties DEF Typed, TypeOK
  <2>4. Len(up') = 0 /\ Len(down') = 0
    BY <2>3
  <2>5. Requests' /\ Responses' /\ LastDigest'
    BY <2>4 DEF Requests, Responses, LastDigest
  <2>6. InImage' /\ Armed' /\ LinkQuiet'
    BY <2>1, <2>3 DEF InImage, Armed, LinkQuiet
  <2>7. QED
    BY <2>5, <2>6 DEF LinkInv
<1>7. CASE EndAccepted
  <2>1. pc = "end" /\ pc' = "done" /\ file' = file
    BY <1>7 DEF EndAccepted
  <2>2. Requests' /\ Responses'
    BY <1>1, <1>2, <2>1 DEF LinkInv, Requests, Responses, Lane
  <2>3. InImage' /\ Armed' /\ LinkQuiet' /\ LastDigest'
    BY <1>1, <2>1 DEF LinkInv, InImage, Armed, LinkQuiet, LastDigest
  <2>4. QED
    BY <2>2, <2>3 DEF LinkInv
<1>8. QED
  BY <1>4, <1>5, <1>6, <1>7 DEF Accept

LEMMA NextLink == Typed /\ LinkInv /\ [Next]_vars => LinkInv'
<1> SUFFICES ASSUME Typed, LinkInv, [Next]_vars PROVE LinkInv'
  OBVIOUS
<1>1. down \in Seq(Response) /\ up \in Seq(Request) /\ NoDigest \in Seq(Content)
  BY EmptySeq DEF Typed, TypeOK, NoDigest
<1>2. ASSUME up # <<>> PROVE Req \in Request
  BY <1>1, <1>2, HeadTailProperties DEF Req
<1>3. CASE Issue
  BY <1>3, IssueLink
<1>4. CASE Skip
  BY <1>4, DropLink DEF Skip
<1>5. CASE Accept
  BY <1>5, AcceptLink
<1>6. CASE Reject
  <2>1. down # <<>> /\ await /\ CommandFails(Tail(down))
    BY <1>6 DEF Reject, Matches
  <2>2. Tail(down) \in Seq(Response)
    BY <1>1, <2>1, HeadTailProperties
  <2>3. \A i \in 1..Len(Tail(down)) : \E j \in 1..Len(down) : Tail(down)[i] = down[j]
    BY <1>1, <2>1, TailFrames
  <2>4. QED
    BY <2>1, <2>2, <2>3, FailLink
<1>7. CASE Timeout
  BY <1>1, <1>7, FailLink DEF Timeout
<1>8. CASE ChipBegin
  BY <1>1, <1>8, ReplyLink DEF ChipBegin
<1>9. CASE ChipData
  <2>1. (InRange /\ InOrder) \in BOOLEAN
    OBVIOUS
  <2>2. QED
    BY <1>1, <1>9, <2>1, ReplyLink DEF ChipData
<1>10. CASE ChipMD5
  <2>1. Digest(Req.file) \in Seq(Content)
    BY <1>2, <1>10, DigestType DEF ChipMD5, Request, Typed, TypeOK
  <2>2. QED
    BY <1>10, <2>1, ReplyLink DEF ChipMD5, chip
<1>11. CASE ChipEnd
  BY <1>1, <1>11, ReplyLink DEF ChipEnd, chip
<1>12. CASE LoseRequest
  BY <1>12, DropLink DEF LoseRequest
<1>13. CASE LoseResponse
  BY <1>13, DropLink DEF LoseResponse
<1>14. CASE GarbleResponse
  BY <1>14, GarbleLink
<1>15. CASE RejectData
  BY <1>1, <1>15, ReplyLink DEF RejectData, chip
<1>16. CASE SlipData
  BY <1>1, <1>16, ReplyLink DEF SlipData
<1>17. CASE Unplug
  BY <1>17, DropLink DEF Unplug
<1>18. CASE UNCHANGED vars
  BY <1>18, DropLink DEF vars
<1>19. QED
  BY <1>3, <1>4, <1>5, <1>6, <1>7, <1>8, <1>9, <1>10, <1>11, <1>12, <1>13, <1>14, <1>15,
     <1>16, <1>17, <1>18 DEF Next, Host, Chip, Link

\* Whatever is lost, late, garbled or sent again, the frames on the link belong
\* to the image in hand, its blocks come after its BEGIN, its digest is of the
\* flash as it is, and when the image has been verified none is left.
THEOREM LinkCorrect == Spec => []LinkInv
<1>1. Spec => []Typed
  BY InitType, NextType, PTL DEF Spec
<1>2. QED
  BY <1>1, InitLink, NextLink, PTL DEF Spec

-----------------------------------------------------------------------------
(* The flash. *)

\* A packet lands in the region of the image in hand.
LEMMA TargetInRegion ==
    ASSUME Typed, LinkInv, up # <<>>, Req.cmd = "data", InRange
    PROVE  Target \in Region(file) /\ pc \notin {"end", "done"}
<1>1. Req = up[1] /\ 1 \in 1..Len(up)
  BY TailFrames DEF Req, Typed, TypeOK
<1>2. Req \in Request
  BY <1>1, ElementOfSeq DEF Typed, TypeOK
<1>3. Req.cmd \in Lane /\ armed = file /\ Req.seq \in Nat /\ Req.seq < Plan[file].len
  BY <1>1, <1>2 DEF LinkInv, Requests, Request
<1>4. pc \notin {"end", "done"}
  BY <1>3 DEF Lane
<1>5. Plan[file].offset \in Nat /\ Plan[file].len \in Nat
  BY ImageFacts DEF Typed, TypeOK
<1>6. Target \in Region(file)
  <2>1. CASE stub
    BY <1>3, <2>1 DEF InRange
  <2>2. CASE ~stub
    BY <1>3, <1>5, <2>2 DEF Target, Region
  <2>3. QED
    BY <2>1, <2>2
<1>7. QED
  BY <1>4, <1>6

\* No step changes a cell outside the sectors of the image in hand, and none
\* changes any cell once the last image has been verified.
LEMMA FlashStep ==
    ASSUME Typed, LinkInv, [Next]_vars
    PROVE  /\ \A c \in Cell \ SectorsOf(file) : flash'[c] = flash[c]
           /\ pc \in {"end", "done"} => flash' = flash
<1>1. CASE ChipBegin
  <2>1. Req = up[1] /\ 1 \in 1..Len(up)
    BY <1>1, TailFrames DEF ChipBegin, Req, Typed, TypeOK
  <2>2. Req.file = file /\ "begin" \in Lane
    BY <1>1, <2>1 DEF ChipBegin, LinkInv, Requests
  <2>3. pc \notin {"end", "done"}
    BY <2>2 DEF Lane
  <2>4. QED
    BY <1>1, <2>2, <2>3 DEF ChipBegin
<1>2. ASSUME NEW v, up # <<>>, Req.cmd = "data", InRange, Program(Target, v)
      PROVE  /\ \A c \in Cell \ SectorsOf(file) : flash'[c] = flash[c]
             /\ pc \notin {"end", "done"}
  <2>1. Target \in Region(file) /\ pc \notin {"end", "done"}
    BY <1>2, TargetInRegion
  <2>2. Region(file) \subseteq SectorsOf(file)
    BY ImageFacts DEF Typed, TypeOK
  <2>3. ASSUME NEW c \in Cell \ SectorsOf(file)
        PROVE  flash'[c] = flash[c]
    BY <1>2, <2>1, <2>2, <2>3 DEF Program, Typed, TypeOK
  <2>4. QED
    BY <2>1, <2>3
<1>3. CASE ChipData
  <2>1. CASE InRange
    BY <1>2, <1>3, <2>1 DEF ChipData
  <2>2. CASE ~InRange
    BY <1>3, <2>2 DEF ChipData
  <2>3. QED
    BY <2>1, <2>2
<1>4. CASE SlipData
  BY <1>2, <1>4 DEF SlipData
<1>5. CASE flash' = flash
  BY <1>5
<1>6. Host \/ ChipMD5 \/ ChipEnd \/ UNCHANGED vars => flash' = flash
  BY DEF Host, Issue, Skip, Accept, Reject, Timeout, CommandFails, Retried, BestEffort, NextAttempt, ChipMD5, ChipEnd, vars, chip
<1>7. LoseRequest \/ LoseResponse \/ GarbleResponse \/ RejectData \/ Unplug => flash' = flash
  BY DEF LoseRequest, LoseResponse, GarbleResponse, RejectData, Unplug, chip
<1>8. QED
  BY <1>1, <1>3, <1>4, <1>5, <1>6, <1>7 DEF Next, Chip, Link

\* In every plan, one whose images share sectors included, nothing outside the
\* erase sectors of the image the host is at ever changes.
THEOREM OthersCorrect == Spec => OthersUntouched
<1>1. ASSUME Typed, LinkInv, [Next]_vars
      PROVE  [\A c \in Cell \ SectorsOf(file) : flash'[c] = flash[c]]_vars
  BY <1>1, FlashStep
<1>2. Spec => []Typed /\ []LinkInv
  BY InitType, NextType, LinkCorrect, PTL DEF Spec
<1>3. QED
  BY <1>1, <1>2, PTL DEF Spec, OthersUntouched

\* An image is verified only by a digest that is that of the image.
LEMMA VerifiedStep ==
    ASSUME Typed, LinkInv, [Next]_vars
    PROVE  \/ Verified' = Verified
           \/ Verified' = Verified \cup {file} /\ InFlash(file) /\ flash' = flash
<1>1. CASE Accept /\ DigestAccepted /\ pc' # "failed"
  <2>1. down # <<>> /\ Head(down).md5 = Bytes(file) /\ pc = "md5" /\ await /\ Head(down).cmd = pc
    BY <1>1 DEF Accept, Matches, DigestAccepted, DigestMatches, MoreImages
  <2>2. Head(down) = down[1] /\ 1 \in 1..Len(down)
    BY <2>1, TailFrames DEF Typed, TypeOK
  <2>3. Bytes(file) \in {NoDigest, Digest(file)}
    BY <2>1, <2>2 DEF LinkInv, LastDigest
  <2>4. /\ file \in Image /\ Plan[file].offset \in Nat /\ Plan[file].len \in Nat \ {0}
        /\ file \in Nat \ {0} /\ file <= Len(Plan) /\ Image = 1..Len(Plan) /\ Len(Plan) \in Nat
    BY ImageFacts, PlanAssumption, LenProperties DEF Typed, TypeOK, Image
  <2>5. Bytes(file) # NoDigest
    <3>1. DOMAIN Bytes(file) = 1..Plan[file].len /\ 1 \in 1..Plan[file].len
      BY <2>4 DEF Bytes
    <3>2. DOMAIN NoDigest = {}
      BY EmptySeq, LenProperties DEF NoDigest
    <3>3. QED
      BY <3>1, <3>2
  <2>6. InFlash(file)
    <3> SUFFICES ASSUME NEW c \in Region(file) PROVE flash[c] = Piece(file, c)
      BY DEF InFlash
    <3> DEFINE i == c - Plan[file].offset + 1
    <3>1. i \in 1..Plan[file].len /\ Plan[file].offset + i - 1 = c /\ i - 1 = c - Plan[file].offset
      BY <2>4 DEF Region
    <3> HIDE DEF i
    <3>2. Digest(file)[i] = flash[c] /\ Bytes(file)[i] = <<file, i - 1>>
      BY <3>1 DEF Digest, Bytes
    <3>3. QED
      BY <2>3, <2>5, <3>1, <3>2 DEF Piece
  <2>7. Verified' = Verified \cup {file}
    <3>1. CASE file < Len(Plan)
      BY <1>1, <2>1, <2>4, <3>1 DEF DigestAccepted, DigestMatches, MoreImages, Verified
    <3>2. CASE file = Len(Plan)
      BY <1>1, <2>1, <2>4, <3>2 DEF DigestAccepted, DigestMatches, MoreImages, Verified
    <3>3. QED
      BY <2>4, <3>1, <3>2
  <2>8. QED
    BY <1>1, <2>6, <2>7 DEF Accept, chip
<1>2. CASE Accept /\ DigestAccepted /\ pc' = "failed"
  BY <1>2 DEF DigestAccepted, DigestMatches, MoreImages, Verified
<1>3. CASE Accept /\ (BeginAccepted \/ BlockAccepted \/ EndAccepted)
  BY <1>3 DEF BeginAccepted, BlockAccepted, MoreBlocks, EndAccepted, Verified
<1>4. ASSUME NEW rest, await, CommandFails(rest)
      PROVE  Verified' = Verified
  BY <1>4 DEF CommandFails, Retried, BestEffort, NextAttempt, Verified, Typed, TypeOK, Command
<1>5. CASE Reject \/ Timeout
  BY <1>4, <1>5 DEF Reject, Timeout, Matches
<1>6. CASE Issue \/ Skip \/ Chip \/ Link \/ UNCHANGED vars
  <2>1. UNCHANGED <<pc, file>>
    BY <1>6 DEF Issue, Skip, Chip, ChipBegin, ChipData, ChipMD5, ChipEnd, Link, LoseRequest,
                LoseResponse, GarbleResponse, RejectData, SlipData, Unplug, host, vars
  <2>2. QED
    BY <2>1 DEF Verified
<1>7. QED
  BY <1>1, <1>2, <1>3, <1>5, <1>6 DEF Next, Host, Accept

LEMMA VerifiedNext ==
    ASSUME SectorsDisjoint, Typed, LinkInv, VerifiedStays, [Next]_vars
    PROVE  VerifiedStays'
<1>1. ASSUME NEW f \in Verified
      PROVE  InFlash(f)'
  <2>1. InFlash(f)
    BY <1>1 DEF VerifiedStays
  <2>2. CASE pc \in {"end", "done"}
    BY <2>1, <2>2, FlashStep DEF InFlash
  <2>3. CASE pc \notin {"end", "done"}
    <3>1. file \in Image /\ f \in Image /\ f # file
      <4>1. file \in Image
        BY DEF Typed, TypeOK
      <4>2. f \in 1..(file - 1)
        BY <2>3, <1>1 DEF Verified
      <4>3. Image = 1..Len(Plan) /\ Len(Plan) \in Nat
        BY PlanAssumption, LenProperties DEF Image
      <4>4. QED
        BY <4>1, <4>2, <4>3
    <3>2. Region(f) \subseteq Cell \ SectorsOf(file)
      BY <3>1, ImageFacts DEF SectorsDisjoint
    <3>3. QED
      BY <2>1, <3>2, FlashStep DEF InFlash
  <2>4. QED
    BY <2>2, <2>3
<1>2. CASE Verified' = Verified
  BY <1>1, <1>2 DEF VerifiedStays
<1>3. CASE Verified' = Verified \cup {file} /\ InFlash(file) /\ flash' = flash
  <2>1. ASSUME NEW f, f = file
        PROVE  InFlash(f)'
    BY <1>3, <2>1 DEF InFlash
  <2>2. QED
    BY <1>1, <1>3, <2>1 DEF VerifiedStays
<1>4. QED
  BY <1>2, <1>3, VerifiedStep

\* In a plan whose images share no erase sector, every image reported verified
\* is in flash, and stays there whatever the link does to the images after it.
THEOREM VerifiedCorrect ==
    ASSUME SectorsDisjoint
    PROVE  Spec => []VerifiedStays
<1>1. Init => VerifiedStays
  BY DEF Init, VerifiedStays, Verified
<1>2. Typed /\ LinkInv /\ VerifiedStays /\ [Next]_vars => VerifiedStays'
  BY VerifiedNext
<1>3. Spec => []Typed /\ []LinkInv
  BY InitType, NextType, LinkCorrect, PTL DEF Spec
<1>4. QED
  BY <1>1, <1>2, <1>3, PTL DEF Spec

\* What the README says of `flasher flash` is true of a plan whose images share
\* no erase sector (of any other it is not: see DoneMeansWritten).
THEOREM DoneCorrect ==
    ASSUME SectorsDisjoint
    PROVE  Spec => []DoneMeansWritten
<1>1. VerifiedStays => DoneMeansWritten
  BY DEF VerifiedStays, DoneMeansWritten, Verified
<1>2. QED
  BY VerifiedCorrect, <1>1, PTL

-----------------------------------------------------------------------------
(* Refinement. *)

Present == [f \in Image |-> InFlash(f)]
VerifiedCount == IF pc \in {"end", "done"} THEN Len(Plan) ELSE file - 1
Outcome == IF pc \in {"done", "failed"} THEN pc ELSE "running"

\* The images counted as verified are those of Verified.
LEMMA CountFacts ==
    ASSUME Typed, LinkInv
    PROVE  /\ Image = 1..Len(Plan) /\ Len(Plan) \in Nat
           /\ file \in 1..Len(Plan)
           /\ Verified = 1..VerifiedCount
<1>1. Image = 1..Len(Plan) /\ Len(Plan) \in Nat
  BY PlanAssumption, LenProperties DEF Image
<1>2. QED
  BY <1>1 DEF Verified, VerifiedCount, Typed, TypeOK

LEMMA PresentType == Image = 1..Len(Plan) => Present \in [1..Len(Plan) -> BOOLEAN]
<1>1. \A f \in Image : InFlash(f) \in BOOLEAN
  BY DEF InFlash
<1>2. QED
  BY <1>1 DEF Present

\* Each step is one of VerifiedWrite, or leaves its state alone.
LEMMA StepRefines ==
    ASSUME SectorsDisjoint, Typed, Typed', LinkInv, [Next]_vars
    PROVE  [Abstract!Next]_(Abstract!vars)
<1> DEFINE Disturb == /\ Present' \in [1..Len(Plan) -> BOOLEAN]
                      /\ \A f \in 1..Len(Plan) :
                             f # VerifiedCount + 1 => Present'[f] = Present[f]
                      /\ UNCHANGED <<VerifiedCount, Outcome>>
           Verify  == /\ Outcome = "running" /\ VerifiedCount < Len(Plan)
                      /\ Present[VerifiedCount + 1]
                      /\ VerifiedCount' = VerifiedCount + 1
                      /\ UNCHANGED <<Present, Outcome>>
           Finish  == /\ Outcome = "running" /\ VerifiedCount = Len(Plan)
                      /\ Outcome' = "done" /\ UNCHANGED <<Present, VerifiedCount>>
           Fail    == /\ Outcome = "running" /\ Outcome' = "failed"
                      /\ UNCHANGED <<Present, VerifiedCount>>
<1>1. Disturb \/ Verify \/ Finish \/ Fail => Abstract!Next
  BY DEF Abstract!Next, Abstract!Disturb, Abstract!Verify, Abstract!Finish, Abstract!Fail,
         Present, VerifiedCount, Outcome
<1> HIDE DEF Disturb, Verify, Finish, Fail
<1>2. /\ Image = 1..Len(Plan) /\ Len(Plan) \in Nat /\ file \in 1..Len(Plan)
      /\ Verified = 1..VerifiedCount
  BY CountFacts
<1>3. CASE UNCHANGED <<VerifiedCount, Outcome>>
  <2>1. ASSUME NEW f \in 1..Len(Plan), f # VerifiedCount + 1
        PROVE  Present'[f] = Present[f]
    <3>1. \A c \in Region(f) : flash'[c] = flash[c]
      <4>1. CASE pc \in {"end", "done"}
        BY <4>1, FlashStep
      <4>2. CASE pc \notin {"end", "done"}
        <5>1. f \in Image /\ file \in Image /\ f # file
          BY <1>2, <2>1, <4>2 DEF VerifiedCount
        <5>2. Region(f) \subseteq Cell \ SectorsOf(file)
          BY <5>1, ImageFacts DEF SectorsDisjoint
        <5>3. QED
          BY <5>2, FlashStep
      <4>3. QED
        BY <4>1, <4>2
    <3>2. InFlash(f)' = InFlash(f)
      BY <3>1 DEF InFlash
    <3>3. QED
      BY <1>2, <2>1, <3>2 DEF Present
  <2>2. Present' \in [1..Len(Plan) -> BOOLEAN]
    <3>1. \A f \in Image : InFlash(f)' \in BOOLEAN
      BY DEF InFlash
    <3>2. QED
      BY <1>2, <3>1 DEF Present
  <2>3. Disturb
    BY <1>3, <2>1, <2>2 DEF Disturb
  <2>4. QED
    BY <1>1, <2>3
<1>4. ASSUME flash' = flash
      PROVE  Present' = Present
  BY <1>4 DEF Present, InFlash
<1>5. CASE Accept /\ DigestAccepted /\ pc' # "failed"
  <2>1. pc = "md5" /\ flash' = flash /\ VerifiedCount = file - 1 /\ Outcome = "running"
    BY <1>5 DEF Accept, chip, DigestAccepted, DigestMatches, MoreImages, VerifiedCount, Outcome
  <2>2. VerifiedCount' = file /\ Outcome' = "running"
    <3>1. CASE file < Len(Plan)
      BY <1>2, <1>5, <3>1 DEF DigestAccepted, DigestMatches, MoreImages, VerifiedCount, Outcome
    <3>2. CASE file = Len(Plan)
      BY <1>2, <1>5, <3>2 DEF DigestAccepted, DigestMatches, MoreImages, VerifiedCount, Outcome
    <3>3. QED
      BY <1>2, <3>1, <3>2
  <2>3. InFlash(file) = TRUE
    <3>1. file \notin Verified /\ file \in Verified'
      <4>1. Verified' = 1..VerifiedCount'
        BY <1>2, <1>5, <2>2 DEF Verified, VerifiedCount, DigestAccepted, DigestMatches, MoreImages
      <4>2. QED
        BY <1>2, <2>1, <2>2, <4>1
    <3>2. QED
      BY <3>1, VerifiedStep DEF InFlash
  <2>4. Present[VerifiedCount + 1]
    BY <1>2, <2>1, <2>3 DEF Present
  <2>5. Verify
    BY <1>2, <1>4, <2>1, <2>2, <2>4 DEF Verify
  <2>6. QED
    BY <1>1, <2>5
<1>6. CASE Accept /\ DigestAccepted /\ pc' = "failed"
  <2>1. Fail
    BY <1>4, <1>6 DEF Accept, chip, DigestAccepted, DigestMatches, MoreImages, Fail, VerifiedCount, Outcome
  <2>2. QED
    BY <1>1, <2>1
<1>7. CASE Accept /\ (BeginAccepted \/ BlockAccepted)
  <2>1. UNCHANGED <<VerifiedCount, Outcome>>
    BY <1>7 DEF BeginAccepted, BlockAccepted, MoreBlocks, VerifiedCount, Outcome
  <2>2. QED
    BY <1>3, <2>1
<1>8. CASE Accept /\ EndAccepted
  <2>1. Finish
    BY <1>4, <1>8 DEF Accept, chip, EndAccepted, Finish, VerifiedCount, Outcome
  <2>2. QED
    BY <1>1, <2>1
<1>9. ASSUME NEW rest, await, CommandFails(rest)
      PROVE  [Abstract!Next]_(Abstract!vars)
  <2>1. flash' = flash /\ UNCHANGED file /\ pc \in Command
    BY <1>9 DEF CommandFails, Retried, BestEffort, NextAttempt, chip, Typed
  <2>2. CASE pc' = "failed" /\ pc # "end"
    <3>1. Fail
      BY <1>4, <2>1, <2>2 DEF Fail, VerifiedCount, Outcome, Command
    <3>2. QED
      BY <1>1, <3>1
  <2>3. CASE pc' = "done" /\ pc = "end"
    <3>1. Finish
      BY <1>4, <2>1, <2>3 DEF Finish, VerifiedCount, Outcome
    <3>2. QED
      BY <1>1, <3>1
  <2>4. CASE pc' = pc
    <3>1. UNCHANGED <<VerifiedCount, Outcome>>
      BY <2>1, <2>4 DEF VerifiedCount, Outcome
    <3>2. QED
      BY <1>3, <3>1
  <2>5. QED
    BY <1>9, <2>2, <2>3, <2>4 DEF CommandFails, Retried, BestEffort, NextAttempt
<1>10. CASE Reject \/ Timeout
  BY <1>9, <1>10 DEF Reject, Timeout, Matches
<1>11. CASE Issue \/ Skip \/ Chip \/ Link \/ UNCHANGED vars
  <2>1. UNCHANGED <<pc, file>>
    BY <1>11 DEF Issue, Skip, Chip, ChipBegin, ChipData, ChipMD5, ChipEnd, Link, LoseRequest,
                 LoseResponse, GarbleResponse, RejectData, SlipData, Unplug, host, vars
  <2>2. UNCHANGED <<VerifiedCount, Outcome>>
    BY <2>1 DEF VerifiedCount, Outcome
  <2>3. QED
    BY <1>3, <2>2
<1>12. QED
  BY <1>5, <1>6, <1>7, <1>8, <1>10, <1>11 DEF Next, Host, Accept

LEMMA InitRefines == Init => Abstract!Init
<1> SUFFICES ASSUME Init PROVE Abstract!Init
  OBVIOUS
<1>1. Image = 1..Len(Plan)
  BY PlanAssumption, LenProperties DEF Image
<1>2. Present \in [1..Len(Plan) -> BOOLEAN]
  BY <1>1, PresentType
<1>3. VerifiedCount = 0 /\ Outcome = "running"
  BY DEF Init, VerifiedCount, Outcome
<1>4. QED
  BY <1>2, <1>3 DEF Abstract!Init, Present, VerifiedCount, Outcome

\* The exchange of packets implements the promise of VerifiedWrite: images are
\* verified in order, only when they are in flash, are disturbed neither after
\* that nor before their turn, and "done" is reported only when all are verified.
THEOREM Refinement ==
    ASSUME SectorsDisjoint
    PROVE  Spec => Refines
<1>1. Typed /\ Typed' /\ LinkInv /\ [Next]_vars => [Abstract!Next]_(Abstract!vars)
  BY StepRefines
<1>2. Spec => []Typed /\ []LinkInv
  BY InitType, NextType, LinkCorrect, PTL DEF Spec
<1>3. QED
  BY InitRefines, <1>1, <1>2, PTL DEF Spec, Refines, Abstract!Spec
=============================================================================
