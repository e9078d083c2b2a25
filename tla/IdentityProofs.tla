--------------------------- MODULE IdentityProofs ---------------------------
(***************************************************************************)
(* Theorems about Identity, for all base addresses and numbers of calls    *)
(* and faults.                                                             *)
(***************************************************************************)
EXTENDS Identity, TLAPS

Requests == {"id", "mac0", "mac1"}
Reply == [op : {"security", "readreg"}, value : Byte]
Board == [first : Firsts, last : Lasts, universal : Universals \cup {0}]

-----------------------------------------------------------------------------
(* DeriveMACs. *)

LEMMA PlusOctet ==
    ASSUME NEW o \in Byte, NEW n \in 1..3
    PROVE  /\ (o + n) % 256 \in Byte /\ (o + n) % 256 # o
           /\ \A m \in 1..3 : m # n => (o + m) % 256 # (o + n) % 256
  BY Z3 DEF Byte

LEMMA LocalOctetType ==
    ASSUME NEW o \in Byte
    PROVE  LocalOctet(o) \in Byte /\ LocalOctet(o) # o
  BY Z3 DEF Byte, LocalOctet, Bit

\* What DeriveMACs returns, octet by octet.
LEMMA DeriveType ==
    ASSUME NEW b \in Address, NEW u \in Nat
    PROVE  /\ DeriveMACs(b, u) \in [Interfaces -> Address]
           /\ \A i, j \in Interfaces : i # j => DeriveMACs(b, u)[i] # DeriveMACs(b, u)[j]
<1> DEFINE d == DeriveMACs(b, u)
<1>1. b.first \in Byte /\ b.last \in Byte /\ b = [first |-> b.first, last |-> b.last]
  BY DEF Address
<1>2. \A n \in 1..3 : Plus(b, n) = [first |-> b.first, last |-> (b.last + n) % 256]
  BY <1>1 DEF Plus
<1>3. ASSUME NEW m \in Address
      PROVE  Local(m) \in Address /\ Local(m).first = LocalOctet(m.first)
             /\ Local(m).last = m.last
  BY LocalOctetType DEF Local, Address
<1>4. \A n \in 1..3 : Plus(b, n) \in Address
  BY <1>1, <1>2, PlusOctet DEF Address
<1>5. CASE u >= 4
  <2>1. d = [sta |-> b, ap |-> Plus(b, 1), bt |-> Plus(b, 2), eth |-> Plus(b, 3)]
    BY <1>5 DEF DeriveMACs
  <2>2. d \in [Interfaces -> Address]
    BY <1>4, <2>1 DEF Interfaces
  <2>3. /\ (b.last + 1) % 256 # b.last /\ (b.last + 2) % 256 # b.last
        /\ (b.last + 3) % 256 # b.last /\ (b.last + 1) % 256 # (b.last + 2) % 256
        /\ (b.last + 1) % 256 # (b.last + 3) % 256 /\ (b.last + 2) % 256 # (b.last + 3) % 256
    BY <1>1, Z3 DEF Byte
  <2>4. /\ Plus(b, 1).last = (b.last + 1) % 256 /\ Plus(b, 2).last = (b.last + 2) % 256
        /\ Plus(b, 3).last = (b.last + 3) % 256
    BY <1>2
  <2>5. /\ b # Plus(b, 1) /\ b # Plus(b, 2) /\ b # Plus(b, 3)
        /\ Plus(b, 1) # Plus(b, 2) /\ Plus(b, 1) # Plus(b, 3) /\ Plus(b, 2) # Plus(b, 3)
    BY <2>3, <2>4
  <2>6. /\ d["sta"] = b /\ d["ap"] = Plus(b, 1) /\ d["bt"] = Plus(b, 2) /\ d["eth"] = Plus(b, 3)
    BY <2>1
  <2>7. \A i, j \in Interfaces : i # j => d[i] # d[j]
    <3> HIDE DEF d
    <3> QED
      BY <2>5, <2>6 DEF Interfaces
  <2> QED
    BY <2>2, <2>7
<1>6. CASE ~(u >= 4)
  <2> DEFINE p == Plus(b, 1)
  <2>1. d = [sta |-> b, ap |-> Local(b), bt |-> p, eth |-> Local(p)]
    BY <1>6 DEF DeriveMACs
  <2>2. /\ p \in Address /\ p.first = b.first /\ p.last = (b.last + 1) % 256
        /\ Local(b) \in Address /\ Local(p) \in Address
        /\ Local(b).first = LocalOctet(b.first) /\ Local(b).last = b.last
        /\ Local(p).first = LocalOctet(b.first) /\ Local(p).last = (b.last + 1) % 256
    BY <1>2, <1>3, <1>4
  <2>3. d \in [Interfaces -> Address]
    BY <2>1, <2>2 DEF Interfaces
  <2>4. (b.last + 1) % 256 # b.last /\ LocalOctet(b.first) # b.first
    BY <1>1, PlusOctet, LocalOctetType
  <2>5. /\ b # Local(b) /\ b # p /\ b # Local(p)
        /\ Local(b) # p /\ Local(b) # Local(p) /\ p # Local(p)
    BY <2>2, <2>4
  <2>6. /\ d["sta"] = b /\ d["ap"] = Local(b) /\ d["bt"] = p /\ d["eth"] = Local(p)
    BY <2>1
  <2>7. \A i, j \in Interfaces : i # j => d[i] # d[j]
    <3> HIDE DEF d, p
    <3> QED
      BY <2>5, <2>6 DEF Interfaces
  <2> QED
    BY <2>3, <2>7
<1> QED
  BY <1>5, <1>6

-----------------------------------------------------------------------------
(* The invariant: since a Connect with no failed call after it, the link holds *)
(* nothing but the exchange the host waits for.                            *)

ReplyTo(request) == [op |-> Opcode(request), value |-> Value(request)]

Clean ==
    /\ step = "idle" => down = <<>> /\ up = <<>>
    /\ step # "idle" =>
        \/ down = <<step>> /\ up = <<>>
        \/ down = <<>> /\ up = <<ReplyTo(step)>>
        \/ down = <<>> /\ up = <<>>
    /\ step = "mac1" => got = board.last
    /\ step = "idle" /\ macs # None => macs = Own

IInv == TypeOK /\ InterfacesDistinct /\ (~stale => Clean)

LEMMA BoardType ==
    ASSUME TypeOK
    PROVE  board.first \in Byte /\ board.last \in Byte /\ board.universal \in Byte
<1>1. board.first \in Firsts /\ board.last \in Lasts /\ board.universal \in Universals \cup {0}
  BY DEF TypeOK
<1>2. 0 \in Byte
  BY DEF Byte
<1> QED
  BY <1>1, <1>2, IdentityAssumption

LEMMA ReplyType ==
    ASSUME TypeOK, NEW request \in Requests
    PROVE  ReplyTo(request) \in Reply
<1>1. Value(request) \in Byte
  BY BoardType DEF Value, Requests
<1>2. Opcode(request) \in {"security", "readreg"}
  BY DEF Opcode
<1> QED
  BY <1>1, <1>2 DEF ReplyTo, Reply

\* A queue: what Head, Tail and Append do.
LEMMA Queue ==
    ASSUME NEW S, NEW s \in Seq(S)
    PROVE  /\ <<>> \in Seq(S)
           /\ \A x \in S : Append(s, x) \in Seq(S)
           /\ s # <<>> => Head(s) \in S /\ Tail(s) \in Seq(S)
  OBVIOUS

LEMMA Singleton ==
    ASSUME NEW x
    PROVE  /\ <<x>> # <<>> /\ Head(<<x>>) = x /\ Tail(<<x>>) = <<>>
           /\ Append(<<>>, x) = <<x>>
  OBVIOUS

LEMMA InitIInv == Init => IInv
<1> SUFFICES ASSUME Init PROVE IInv
  OBVIOUS
<1>1. /\ 0 \in Byte /\ 0 \in 0..MaxCalls /\ 0 \in 0..MaxFaults
  BY IdentityAssumption DEF Byte
<1>2. down \in Seq(Requests) /\ up \in Seq(Reply)
  BY DEF Init
<1>3. TypeOK
  BY <1>1, <1>2 DEF Init, TypeOK, Requests, Reply
<1> QED
  BY <1>3 DEF Init, IInv, InterfacesDistinct, Clean

LEMMA TypeStep == TypeOK /\ [Next]_vars => TypeOK'
<1> SUFFICES ASSUME TypeOK, [Next]_vars PROVE TypeOK'
  OBVIOUS
<1> USE DEF Requests, Reply
<1>0. /\ down \in Seq(Requests) /\ up \in Seq(Reply)
      /\ step \in {"idle"} \cup Requests /\ got \in Byte
      /\ calls \in Nat /\ faults \in Nat
  BY IdentityAssumption DEF TypeOK
<1>1. CASE MACs
  <2>1. calls' \in 0..MaxCalls
    BY <1>0, <1>1, IdentityAssumption DEF MACs
  <2>2. step' \in Requests /\ down' \in Seq(Requests)
    BY <1>0, <1>1, Queue DEF MACs, Issue
  <2> QED
    BY <1>1, <2>1, <2>2 DEF TypeOK, MACs
<1>2. CASE Connect
  <2>1. down' \in Seq(Requests) /\ up' \in Seq(Reply)
    BY <1>2 DEF Connect, Flushed
  <2> QED
    BY <1>2, <2>1 DEF TypeOK, Connect
<1>3. CASE Skip
  <2>1. up' \in Seq(Reply)
    BY <1>0, <1>3, Queue DEF Skip
  <2> QED
    BY <1>3, <2>1 DEF TypeOK, Skip
<1>4. CASE ChipID
  <2>1. up' \in Seq(Reply)
    BY <1>0, <1>4, Queue DEF ChipID
  <2>2. Append(down, "mac0") \in Seq(Requests)
    BY <1>0, Queue
  <2> QED
    BY <1>4, <2>1, <2>2 DEF TypeOK, ChipID, Issue, Fails
<1>5. CASE Mac0
  <2>1. up' \in Seq(Reply) /\ got' \in Byte
    <3>1. Head(up) \in Reply /\ Tail(up) \in Seq(Reply)
      BY <1>0, <1>5, Queue DEF Mac0
    <3> QED
      BY <1>5, <3>1 DEF Mac0
  <2>2. Append(down, "mac1") \in Seq(Requests)
    BY <1>0, Queue
  <2> QED
    BY <1>5, <2>1, <2>2 DEF TypeOK, Mac0, Issue
<1>6. CASE Mac1
  <2>1. Head(up) \in Reply /\ up' \in Seq(Reply)
    BY <1>0, <1>6, Queue DEF Mac1
  <2>2. [first |-> Head(up).value, last |-> got] \in Address
    BY <1>0, <2>1 DEF Address
  <2>3. board.universal \in Nat
    BY BoardType DEF Byte
  <2>4. macs' \in [Interfaces -> Address]
    BY <1>6, <2>2, <2>3, DeriveType DEF Mac1
  <2> QED
    BY <1>6, <2>1, <2>4 DEF TypeOK, Mac1
<1>7. CASE Timeout
  <2>1. faults' \in 0..MaxFaults
    BY <1>0, <1>7, IdentityAssumption DEF Timeout, TypeOK
  <2> QED
    BY <1>7, <2>1 DEF TypeOK, Timeout, Fails
<1>8. CASE Answer
  <2>1. Head(down) \in Requests /\ down' \in Seq(Requests)
    BY <1>0, <1>8, Queue DEF Answer
  <2>2. ReplyTo(Head(down)) \in Reply
    BY <2>1, ReplyType
  <2>3. up' \in Seq(Reply)
    BY <1>0, <1>8, <2>2, Queue DEF Answer, ReplyTo
  <2> QED
    BY <1>8, <2>1, <2>3 DEF TypeOK, Answer
<1>9. CASE Lose
  <2>1. faults' \in 0..MaxFaults
    BY <1>0, <1>9, IdentityAssumption DEF Lose
  <2>2. down' \in Seq(Requests) /\ up' \in Seq(Reply)
    <3>1. CASE down # <<>> /\ down' = Tail(down) /\ up' = up
      BY <1>0, <3>1, Queue
    <3>2. CASE up # <<>> /\ up' = Tail(up) /\ down' = down
      BY <1>0, <3>2, Queue
    <3> QED
      BY <1>9, <3>1, <3>2 DEF Lose
  <2> QED
    BY <1>9, <2>1, <2>2 DEF TypeOK, Lose
<1>10. CASE UNCHANGED vars
  BY <1>10 DEF TypeOK, vars
<1> QED
  BY <1>1, <1>2, <1>3, <1>4, <1>5, <1>6, <1>7, <1>8, <1>9, <1>10 DEF Next, Host

LEMMA DistinctStep == TypeOK /\ InterfacesDistinct /\ [Next]_vars => InterfacesDistinct'
<1> SUFFICES ASSUME TypeOK, InterfacesDistinct, [Next]_vars PROVE InterfacesDistinct'
  OBVIOUS
<1>1. CASE macs' = macs \/ macs' = None
  BY <1>1 DEF InterfacesDistinct
<1>2. CASE Mac1
  <2>1. up \in Seq(Reply) /\ up # <<>> /\ got \in Byte
    BY <1>2 DEF TypeOK, Reply, Mac1
  <2>2. Head(up).value \in Byte
    <3>1. Head(up) \in Reply
      BY <2>1, Queue
    <3> QED
      BY <3>1 DEF Reply
  <2>3. [first |-> Head(up).value, last |-> got] \in Address
    BY <2>1, <2>2 DEF Address
  <2>4. board.universal \in Nat
    BY BoardType DEF Byte
  <2> QED
    BY <1>2, <2>3, <2>4, DeriveType DEF Mac1, InterfacesDistinct
<1>3. CASE ~Mac1
  <2>1. macs' = macs \/ macs' = None
    BY <1>3 DEF Next, Host, MACs, Connect, Skip, ChipID, Fails, Mac0, Timeout, Answer, Lose, vars
  <2> QED
    BY <1>1, <2>1
<1> QED
  BY <1>2, <1>3

LEMMA CleanStep == TypeOK /\ (~stale => Clean) /\ [Next]_vars => (~stale' => Clean')
<1> SUFFICES ASSUME TypeOK, ~stale => Clean, [Next]_vars, ~stale' PROVE Clean'
  OBVIOUS
<1>1. CASE Connect
  BY <1>1 DEF Connect, Flushed, Clean
<1>2. CASE MACs
  <2>1. Clean /\ step = "idle" /\ down = <<>> /\ up = <<>>
    BY <1>2 DEF MACs, Clean
  <2>2. /\ step' \in {"id", "mac0"} /\ down' = <<step'>> /\ up' = <<>>
    BY <1>2, <2>1, Singleton DEF MACs, Issue
  <2> QED
    BY <2>2 DEF Clean
<1>3. CASE Skip
  <2>1. Clean /\ step # "idle" /\ up # <<>> /\ ~Matches(Head(up))
    BY <1>3 DEF Skip
  <2>2. up = <<ReplyTo(step)>>
    BY <2>1 DEF Clean
  <2>3. Matches(Head(up))
    BY <2>2, Singleton DEF Matches, ReplyTo
  <2> QED
    BY <2>1, <2>3
<1>4. CASE ChipID
  <2>1. Clean /\ step = "id" /\ up # <<>>
    BY <1>4 DEF ChipID, Fails
  <2>2. up = <<ReplyTo(step)>> /\ down = <<>>
    BY <2>1 DEF Clean
  <2>3. up' = <<>> /\ step' = "mac0" /\ down' = <<"mac0">>
    BY <1>4, <2>2, Singleton DEF ChipID, Fails, Issue
  <2> QED
    BY <2>3 DEF Clean
<1>5. CASE Mac0
  <2>1. Clean /\ step = "mac0" /\ up # <<>> /\ board' = board
    BY <1>5 DEF Mac0
  <2>2. up = <<ReplyTo(step)>> /\ down = <<>>
    BY <2>1 DEF Clean
  <2>3. up' = <<>> /\ step' = "mac1" /\ down' = <<"mac1">> /\ got' = ReplyTo(step).value
    BY <1>5, <2>2, Singleton DEF Mac0, Issue
  <2>4. got' = board.last
    BY <2>1, <2>3 DEF ReplyTo, Value
  <2> QED
    BY <2>1, <2>3, <2>4 DEF Clean
<1>6. CASE Mac1
  <2>1. Clean /\ step = "mac1" /\ up # <<>> /\ board' = board /\ got = board.last
    BY <1>6 DEF Mac1, Clean
  <2>2. up = <<ReplyTo(step)>> /\ down = <<>>
    BY <2>1 DEF Clean
  <2>3. Head(up).value = board.first
    BY <2>1, <2>2, Singleton DEF ReplyTo, Value
  <2>4. up' = <<>> /\ step' = "idle" /\ down' = <<>>
    BY <1>6, <2>2, Singleton DEF Mac1
  <2>5. macs' = Own'
    BY <1>6, <2>1, <2>3 DEF Mac1, Own
  <2> QED
    BY <2>4, <2>5 DEF Clean
<1>7. CASE Timeout
  BY <1>7 DEF Timeout, Fails
<1>8. CASE Answer
  <2>1. Clean /\ down # <<>> /\ board' = board
    BY <1>8 DEF Answer
  <2>2. step # "idle" /\ down = <<step>> /\ up = <<>>
    BY <2>1 DEF Clean
  <2>3. up' = <<ReplyTo(step)>> /\ down' = <<>> /\ step' = step
    BY <1>8, <2>2, Singleton DEF Answer, ReplyTo
  <2>4. ReplyTo(step)' = ReplyTo(step)
    BY <2>1, <2>3 DEF ReplyTo, Value, Opcode
  <2> QED
    BY <1>8, <2>1, <2>2, <2>3, <2>4 DEF Answer, Clean
<1>9. CASE Lose
  <2>1. Clean /\ board' = board /\ step' = step /\ got' = got /\ macs' = macs
    BY <1>9 DEF Lose
  <2>2. step # "idle"
    BY <1>9, <2>1 DEF Lose, Clean
  <2>3. \/ down = <<step>> /\ up = <<>>
        \/ down = <<>> /\ up = <<ReplyTo(step)>>
        \/ down = <<>> /\ up = <<>>
    BY <2>1, <2>2 DEF Clean
  <2>4. down' = <<>> /\ up' = <<>>
    BY <1>9, <2>3, Singleton DEF Lose
  <2> QED
    BY <2>1, <2>2, <2>4 DEF Clean
<1>10. CASE UNCHANGED vars
  BY <1>10 DEF Clean, vars, Own, ReplyTo, Value, Opcode
<1> QED
  BY <1>1, <1>2, <1>3, <1>4, <1>5, <1>6, <1>7, <1>8, <1>9, <1>10 DEF Next, Host

LEMMA Invariance == Spec => []IInv
<1>1. IInv /\ [Next]_vars => IInv'
  BY TypeStep, DistinctStep, CleanStep DEF IInv
<1> QED
  BY InitIInv, <1>1, PTL DEF Spec

-----------------------------------------------------------------------------
(* Theorems. *)

\* Type correctness.
THEOREM TypeCorrect == Spec => []TypeOK
<1>1. IInv => TypeOK
  BY DEF IInv
<1> QED
  BY <1>1, Invariance, PTL

\* For every base address and both schemes of DeriveMACs, the four interfaces
\* have four addresses.
THEOREM DistinctCorrect == Spec => []InterfacesDistinct
<1>1. IInv => InterfacesDistinct
  BY DEF IInv
<1> QED
  BY <1>1, Invariance, PTL

\* MACs returns the board's own addresses unless a call has failed since Connect
\* (macs.go, loader.go: BaseMAC).
THEOREM RightCorrect == Spec => []RightAfterConnect
<1>1. IInv => RightAfterConnect
  BY DEF IInv, Clean, RightAfterConnect
<1> QED
  BY <1>1, Invariance, PTL
=============================================================================
