----------------------------- MODULE FspProofs -----------------------------
(***************************************************************************)
(* Proofs about Fsp, for any length of the file, size of the packets and   *)
(* choice of numbers: what is transferred or listed is what the other end  *)
(* has, a command that succeeded was obeyed, and an upload that is aborted *)
(* leaves the file of the server alone, whatever datagrams are lost,       *)
(* repeated or late.  The last section brings the three clients of         *)
(* MCClients together.                                                     *)
(***************************************************************************)
EXTENDS MCClients, SftpProofs, HttpProofs, FiniteSetTheorems, TLAPS

(***************************************************************************)
(* The inductive invariant                                                 *)
(***************************************************************************)

SessionType == [up : BOOLEAN, seq : FspSeqs, key : {0, 1}]
FileType == [open : BOOLEAN, writing : BOOLEAN, eof : BOOLEAN, pos : 0..FspSize, buf : FspBytes]
CallType == [for : FspPurposes, cmd : FspCommands, pos : 0..FspSize, data : FspBytes, sends : 0..FspSends]
JobType ==
  [op : {"none", "get", "put", "abort", "close", "simple", "list"}, on : BOOLEAN,
   ret : {"none", "ok", "retry", "fatal"}, part : FspBytes, from : 0..FspSize,
   block : 0..FspSpace, got : FspBytes, clean : BOOLEAN]
ServerType == [tmp : FspBytes, file : FspBytes, obeyed : BOOLEAN]

\* The purposes of an operation's transactions, and the command that each sends
Fits(for, op) ==
  \/ op = "get" /\ for \in {"stat", "read", "none"}
  \/ op = "put" /\ for \in {"pro", "exists", "write", "flush", "install", "none"}
  \/ op = "list" /\ for = "dir"
  \/ op = "simple" /\ for = "simple"
  \/ op = "abort" /\ for \in {"cancel", "flush", "install"}
  \/ op = "close" /\ for \in {"flush", "install", "bye"}
CmdFits(for, cmd) ==
  /\ for = "exists" => cmd = "stat"
  /\ for = "flush" => cmd = "write"
  /\ for = "simple" => cmd \in {"simple", "pro"}
  /\ for \notin {"exists", "flush", "simple"} => cmd = for

\* A transaction is an operation's, and the file is open while there is something to do with it.
Moves(job, c) == c.for \in {"read", "write", "flush", "install", "cancel"} \/ (job.on /\ c.for = "none")
CallInv(f, job, c) ==
  /\ IF job.on THEN job.ret = "none" /\ Fits(c.for, job.op) ELSE c.for = "none"
  /\ IF c.for = "none" THEN c = FspNothing ELSE CmdFits(c.for, c.cmd)
  /\ f.open <=> Moves(job, c)
  /\ IF f.open THEN f.writing <=> job.op # "get" ELSE f = FspNoFile
  /\ job.op # "get" => ~f.eof

\* A download has given the first bytes, copied the next and holds the ones after those.
Whole(job) == job.ret = "ok" /\ job.clean
GotInv(job) ==
  job.op = "get" =>
    \E i \in {0, 1} :
      /\ i < FspSize /\ i + Len(job.got) <= FspSize /\ job.got = Part(i, i + Len(job.got))
      /\ job.on => i = job.from
      /\ Whole(job) => i + Len(job.got) = FspSize
Reads(f, job) ==
  LET a == job.from + Len(job.got)
      b == a + Len(job.part)
  IN b <= f.pos /\ job.part = Part(a, b) /\ f.buf = Part(b, f.pos)
GetInv(f, job, c) ==
  job.op = "get" =>
    /\ c.for = "stat" => job.got = <<>> /\ job.part = <<>>
    /\ f.open =>
         /\ Reads(f, job)
         /\ c.for = "none" => job.part = <<>>
         /\ c.for = "read" => f.buf = <<>> /\ ~f.eof /\ c.pos = f.pos
         /\ f.eof => f.pos = FspSize /\ f.buf = <<>>

\* An upload has written the first bytes, holds the next and has still to copy the ones after
\* those; job.from is where the source has been read to.
Fills(f, job) ==
  LET e == f.pos + Len(f.buf) IN e <= job.from /\ job.part = Part(e, job.from) /\ job.op = "put"
Held(f) == f.pos + Len(f.buf) <= FspSize /\ f.buf = Part(f.pos, f.pos + Len(f.buf))
PutInv(f, job, c) ==
  /\ c.for \in {"pro", "exists"} => job.from = 0 /\ job.part = <<>>
  /\ f.writing =>
      /\ Held(f)
      /\ c.for \in {"none", "write"} => Fills(f, job)
      /\ c.for = "none" => job.part = <<>> /\ Len(f.buf) < FspSpace
      /\ c.for \in {"write", "flush"} => f.buf # <<>> /\ c.pos = f.pos /\ c.data = f.buf
      /\ c.for = "cancel" => f.pos > 0
      /\ c.for = "flush" /\ job.op = "put" /\ job.clean => f.pos + Len(f.buf) = FspSize
      /\ job.op = "abort" /\ c.for # "cancel" => f.pos = 0

\* A listing has the blocks so far; the first of them says how long a block is.
UpTo(a) == IF a + FspSpace < FspSize THEN a + FspSpace ELSE FspSize
ListInv(job, c) ==
  job.op = "list" =>
    /\ job.on => /\ job.part = Part(0, Len(job.part)) /\ c.pos = Len(job.part)
                 /\ job.block \in {0, UpTo(0)} /\ (job.block = 0 => job.part = <<>>)
    /\ Whole(job) => job.got = Part(0, FspSize)

ClientInv(f, job, c) ==
  /\ f \in FileType /\ job \in JobType /\ c \in CallType
  /\ CallInv(f, job, c) /\ GotInv(job) /\ GetInv(f, job, c) /\ PutInv(f, job, c) /\ ListInv(job, c)

\* A datagram: a block that is written is bytes of the source, a reply is what was asked for.
Harmful(p) == p.cmd \in {"write", "install", "cancel"}
End(p) == p.pos + Len(p.data)
ToServer(net) == {p \in net : p.to = "server"}
Block(p) == End(p) <= FspSize /\ p.data = Part(p.pos, End(p)) /\ p.data # <<>>
PacketOk(p) ==
  /\ p \in FspPackets
  /\ p.to = "server" => ~p.err
  /\ p.to = "server" /\ p.cmd = "write" => Block(p)
  /\ p.to = "client" =>
       p.data = IF p.err \/ p.cmd \notin {"read", "dir"} THEN <<>> ELSE Part(p.pos, UpTo(p.pos))

\* Request p is of the transaction at work, q of the one before: q is the block that p sends again,
\* or a block that p finds written, whose key is no longer taken once that of p was.
Same(p, q) == p.cmd = "write" /\ p.pos = q.pos /\ p.data = q.data
Outdates(p, q) == q.key >= 1 /\ (p.key >= 1 => q.key = 2) /\ (p.cmd = "write" => End(q) = p.pos)
Follows(p, q) == Harmful(p) /\ Harmful(q) => q.cmd = "write" /\ (Same(p, q) \/ Outdates(p, q))
Keyed(s, net) == \A p \in ToServer(net) : s.key = 1 => p.key >= 1

RepliesInv(net, server) ==
  \A r \in net : r.to = "client" /\ ~r.late =>
    /\ r.key = 0 /\ (~r.err => server.obeyed)
    /\ \A p \in ToServer(net) : p.key >= 1
PairsInv(net) ==
  /\ \A p, q \in ToServer(net) : (p.late <=> q.late) => p = q
  /\ \A p, q \in ToServer(net) : ~p.late /\ q.late => (p.key >= 1 => q.key >= 1) /\ Follows(p, q)
NetInv(s, c, net, server) ==
  /\ s \in SessionType
  /\ \A p \in net : PacketOk(p) /\ (p.late <=> p.seq # s.seq)
  /\ PairsInv(net)
  /\ Keyed(s, net)
  /\ RepliesInv(net, server)
  /\ c.for # "none" => FspRequest(s, c) \in net
  /\ server.obeyed /\ c.for # "none" => s.key = 1

\* The server has the first bytes of the source; no block that it would take leaves a hole.
Old(net) == {p \in ToServer(net) : p.late /\ Harmful(p)}
New(net) == {p \in ToServer(net) : ~p.late /\ Harmful(p)}
StoreInv(net, server) ==
  /\ server \in ServerType
  /\ server.tmp = Part(0, Len(server.tmp)) /\ server.file = Part(0, Len(server.file))
  /\ \A p \in ToServer(net) : p.cmd = "write" /\ p.key < 2 => p.pos <= Len(server.tmp)

\* The block at work is the next of the temporary file, or has been written.
Laid(f, server) == f.pos > 0 => Len(server.tmp) \in {f.pos, f.pos + Len(f.buf)}
BlockInv(f, c, net, server) ==
  /\ c.for \in {"write", "flush"} =>
       IF server.obeyed THEN Len(server.tmp) = f.pos + Len(f.buf) ELSE Laid(f, server)
  /\ c.for = "write" => \A q \in Old(net) : End(q) = f.pos

\* The whole file is there before the INSTALL, and has been named by it after that.
Ready(job, c) == c.for = "install" /\ job.op = "put" /\ job.clean
Named(server) == Len(server.file) = FspSize /\ server.tmp = <<>>
InstallInv(job, c, net, server) ==
  Ready(job, c) =>
    IF server.obeyed THEN Named(server)
    ELSE Len(server.tmp) = FspSize /\ \A q \in Old(net) : End(q) = FspSize

\* Between two transactions of an upload: what was written is there to stay.
Settled(s, f, net, server) ==
  /\ f.pos > 0 => s.key = 0 /\ Len(server.tmp) = f.pos /\ \A p \in ToServer(net) : p.key >= 1
  /\ f.pos > 0 => \A p \in Old(net) : p.key = 2
  /\ \A p \in New(net) : p.cmd = "write" /\ End(p) = f.pos
MoveInv(s, f, c, net, server) == c.for = "none" /\ f.writing => Settled(s, f, net, server)

\* An operation that ended well has been obeyed, and nothing takes back what it did.
DoneInv(job, net, server) ==
  Whole(job) =>
    /\ job.op \in {"simple", "list", "put"} => server.obeyed
    /\ job.op = "put" =>
         /\ Named(server)
         /\ \A p \in ToServer(net) : Harmful(p) /\ p.key < 2 => p.cmd = "install"

ServerInv(s, f, job, c, net, server) ==
  /\ StoreInv(net, server) /\ BlockInv(f, c, net, server) /\ InstallInv(job, c, net, server)
  /\ MoveInv(s, f, c, net, server) /\ DoneInv(job, net, server)
FspInv ==
  /\ ClientInv(fspFile, fspJob, fspCall)
  /\ NetInv(fspSession, fspCall, fspNet, fspServer)
  /\ ServerInv(fspSession, fspFile, fspJob, fspCall, fspNet, fspServer)

-----------------------------------------------------------------------------
(* The bytes of the source, and packets *)

\* The constants are numbers.
LEMMA Sizes ==
  /\ FspSize \in Nat /\ FspSize > 0 /\ FspSpace \in Nat /\ FspSpace > 0
  /\ FspChunk \in Nat /\ FspChunk > 0 /\ FspSends \in Nat /\ FspSends > 0
BY FspSizeAssumption

\* Part of the file is bytes of the file.
LEMMA PartType ==
  ASSUME NEW a \in Nat, NEW b \in Nat, a <= b, b <= FspSize
  PROVE  Part(a, b) \in FspBytes
<1>1. Part(a, b) \in [1..(b - a) -> 0..FspSize]
  BY Sizes DEF Part
<1>2. b - a \in 0..FspSize
  BY Sizes
<1> QED
  BY <1>1, <1>2 DEF FspBytes

\* A string of bytes is a sequence no longer than the file.
LEMMA BytesSeq ==
  ASSUME NEW s \in FspBytes
  PROVE  s \in Seq(Nat) /\ Len(s) \in Nat /\ Len(s) <= FspSize /\ (s = <<>> <=> Len(s) = 0)
<1>1. PICK n \in 0..FspSize : s \in [1..n -> 0..FspSize]
  BY DEF FspBytes
<1>2. n \in Nat /\ n <= FspSize /\ s \in [1..n -> Nat]
  BY <1>1, Sizes
<1>3. s \in Seq(Nat) /\ Len(s) = n
  BY <1>2
<1> QED
  BY <1>2, <1>3

\* No bytes at all are bytes.
LEMMA NoBytes == <<>> \in FspBytes /\ Part(0, 0) = <<>>
<1>1. Part(0, 0) \in FspBytes /\ Part(0, 0) = <<>>
  BY PartType, PartNone, Sizes
<1> QED
  BY <1>1

\* The source is the part from its start to its end.
LEMMA DataIsPart == FspData = Part(0, FspSize)
<1>1. FspSize - 0 = FspSize /\ \A i \in 1..FspSize : 0 + i = i
  BY Sizes
<1> QED
  BY <1>1 DEF FspData, Part

\* SubSeq() of the source
LEMMA PartOfData ==
  ASSUME NEW a \in Nat, NEW b \in Nat, a <= b, b <= FspSize
  PROVE  SubSeq(FspData, a + 1, b) = Part(a, b)
<1>1. PICK z \in Nat : z = FspSize
  BY Sizes
<1>2. PICK o \in Nat : o = 0
  OBVIOUS
<1>3. o + b <= z /\ o + a = a /\ o + b = b
  BY <1>1, <1>2
<1>4. SubSeq(Part(o, z), a + 1, b) = Part(o + a, o + b)
  BY <1>3, PartSub
<1> QED
  BY <1>1, <1>2, <1>3, <1>4, DataIsPart

\* The next block ends within the file, and is not empty before the end.
LEMMA UpToIs ==
  ASSUME NEW a \in 0..FspSize
  PROVE  /\ UpTo(a) \in Nat /\ a <= UpTo(a) /\ UpTo(a) <= FspSize /\ UpTo(a) - a <= FspSpace
         /\ UpTo(a) = a => a = FspSize
         /\ UpTo(a) - a < FspSpace => UpTo(a) = FspSize
BY Sizes DEF UpTo

\* A packet's fields
LEMMA PacketFields ==
  ASSUME NEW p, PacketOk(p)
  PROVE  /\ p.to \in {"server", "client"} /\ p.seq \in FspSeqs /\ p.cmd \in FspCommands
         /\ p.pos \in Nat /\ p.pos <= FspSize /\ p.data \in FspBytes /\ Len(p.data) \in Nat
         /\ p.key \in {0, 1, 2} /\ p.err \in BOOLEAN /\ p.late \in BOOLEAN
         /\ End(p) \in Nat /\ p.pos <= End(p)
<1>1. p \in FspPackets
  BY DEF PacketOk
<1>2. p.data \in FspBytes /\ p.pos \in Nat /\ p.pos <= FspSize
  BY <1>1, Sizes DEF FspPackets
<1>3. Len(p.data) \in Nat
  BY <1>2, BytesSeq
<1> QED
  BY <1>1, <1>2, <1>3 DEF FspPackets, End

\* A block of the file is not empty.
LEMMA BlockFacts ==
  ASSUME NEW p, PacketOk(p), p.to = "server", p.cmd = "write"
  PROVE  p.pos < End(p) /\ End(p) <= FspSize /\ p.data = Part(p.pos, End(p)) /\ End(p) - p.pos = Len(p.data)
<1>1. Block(p)
  BY DEF PacketOk
<1>2. Len(p.data) # 0
  BY <1>1, PacketFields, BytesSeq DEF Block
<1> QED
  BY <1>1, <1>2, PacketFields DEF Block, End

-----------------------------------------------------------------------------
(* The next transaction *)

\* Its number is another one.
LEMMA NextSeq ==
  ASSUME NEW last \in FspSeqs, NEW random \in FspSeqs
  PROVE  FspNextSeq(last, random) \in FspSeqs /\ FspNextSeq(last, random) # last
<1>1. PICK n \in Nat : n = Cardinality(FspSeqs)
  BY FspSeqAssumption, FS_CardinalityType
<1>2. FspSeqs = 0..n - 1 /\ n % 2 = 0 /\ n # 0
  BY <1>1, FspSeqAssumption
<1>3. CASE random # last
  BY <1>3 DEF FspNextSeq
<1>4. CASE random = last /\ last % 2 = 0
  <2>1. last # n - 1
    BY <1>2, <1>4
  <2> QED
    BY <1>2, <1>4, <2>1 DEF FspNextSeq
<1>5. CASE random = last /\ last % 2 # 0
  BY <1>2, <1>5 DEF FspNextSeq
<1> QED
  BY <1>3, <1>4, <1>5

\* What is still out is as it was, only late.
LEMMA StillOutIs ==
  ASSUME \A p \in fspNet : PacketOk(p), NEW q \in FspStillOut
  PROVE  \E p \in fspNet :
           /\ ~p.late /\ q = [p EXCEPT !.late = TRUE]
           /\ PacketOk(q) /\ q.late /\ q.to = p.to /\ q.seq = p.seq /\ q.cmd = p.cmd /\ q.pos = p.pos
           /\ q.data = p.data /\ q.key = p.key /\ q.err = p.err /\ End(q) = End(p)
<1>1. PICK p \in fspNet : ~p.late /\ q = [p EXCEPT !.late = TRUE]
  BY DEF FspStillOut
<1>2. p \in FspPackets /\ PacketOk(p)
  BY DEF PacketOk
<1>3. q \in FspPackets /\ q.late /\ q.to = p.to /\ q.seq = p.seq /\ q.cmd = p.cmd /\ q.pos = p.pos
      /\ q.data = p.data /\ q.key = p.key /\ q.err = p.err
  BY <1>1, <1>2 DEF FspPackets
<1>4. End(q) = End(p)
  BY <1>3 DEF End
<1>5. PacketOk(q)
  BY <1>2, <1>3, <1>4 DEF PacketOk, Block
<1> QED
  BY <1>1, <1>3, <1>4, <1>5

\* A request is a packet, with the bytes that its transaction is for.
LEMMA RequestOk ==
  ASSUME NEW s \in SessionType, NEW f, NEW job, NEW c, ClientInv(f, job, c), c.for # "none"
  PROVE  /\ PacketOk(FspRequest(s, c)) /\ FspRequest(s, c).to = "server" /\ ~FspRequest(s, c).late
         /\ FspRequest(s, c).seq = s.seq /\ FspRequest(s, c).cmd = c.cmd /\ FspRequest(s, c).pos = c.pos
         /\ FspRequest(s, c).data = c.data /\ FspRequest(s, c).key = s.key
<1> DEFINE p == FspRequest(s, c)
<1>1. /\ p.to = "server" /\ ~p.late /\ ~p.err /\ p.seq = s.seq /\ p.cmd = c.cmd /\ p.pos = c.pos /\ p.data = c.data
      /\ p.key = s.key
  BY DEF FspRequest
<1>2. c \in CallType /\ f \in FileType /\ job \in JobType
  BY DEF ClientInv
<1>3. p \in FspPackets
  BY <1>2 DEF FspRequest, CallType, SessionType, FspPackets
<1>4. ASSUME c.cmd = "write" PROVE Block(p)
  <2>1. c.for \in {"write", "flush"}
    BY <1>2, <1>4 DEF ClientInv, CallInv, CmdFits, CallType, FspPurposes, FspCommands, FspAsked
  <2>2. f.open /\ f.writing
    BY <2>1 DEF ClientInv, CallInv, Moves, Fits
  <2>3. Held(f) /\ f.buf # <<>> /\ c.pos = f.pos /\ c.data = f.buf
    BY <2>1, <2>2 DEF ClientInv, PutInv
  <2> QED
    BY <1>1, <2>3 DEF Block, End, Held
<1> HIDE DEF p
<1>5. PacketOk(p)
  BY <1>1, <1>3, <1>4 DEF PacketOk
<1> QED
  BY <1>1, <1>5 DEF p

\* What an outcome must find, for its transaction or between two of them
AskOk(s, f, job, c, net, server) ==
  /\ \A q \in New(net) : Follows(FspRequest(s, c), q)
  /\ c.for \in {"write", "flush"} => Laid(f, server)
  /\ c.for = "write" => \A q \in New(net) : End(q) = f.pos
  /\ Ready(job, c) => Len(server.tmp) = FspSize /\ \A q \in New(net) : End(q) = FspSize
RestOk(s, f, job, net, server) == (f.writing => Settled(s, f, net, server)) /\ DoneInv(job, net, server)
OutOk(s, o, net, server) ==
  /\ ClientInv(o.file, o.job, o.ask)
  /\ IF o.ask = FspNothing THEN RestOk(s, o.file, o.job, net, server)
     ELSE AskOk(s, o.file, o.job, o.ask, net, server)

\* The invariant of the packets, taken apart
LEMMA NetFacts ==
  ASSUME FspInv
  PROVE  /\ fspSession \in SessionType /\ Keyed(fspSession, fspNet)
         /\ \A p \in fspNet : PacketOk(p) /\ (p.late <=> p.seq # fspSession.seq)
         /\ PairsInv(fspNet) /\ RepliesInv(fspNet, fspServer) /\ StoreInv(fspNet, fspServer)
         /\ fspServer \in ServerType
BY DEF FspInv, NetInv, ServerInv, StoreInv

\* Of two requests of the net one is late.
LEMMA OneOfEach ==
  ASSUME FspInv, NEW p \in ToServer(fspNet), NEW q \in ToServer(fspNet), p.late <=> q.late
  PROVE  p = q
BY NetFacts DEF PairsInv

\* The code stops for its caller.
LEMMA Rests ==
  ASSUME FspInv, NEW s \in SessionType, s.seq = fspSession.seq, Keyed(s, fspNet), NEW o,
         OutOk(s, o, fspNet, fspServer), o.ask = FspNothing, FspApply(s, o)
  PROVE  FspInv'
<1>1. /\ fspFile' = o.file /\ fspJob' = o.job /\ fspCall' = FspNothing /\ fspSession' = s /\ fspNet' = fspNet
      /\ fspServer' = fspServer
  BY DEF FspApply
<1>2. ClientInv(o.file, o.job, FspNothing) /\ RestOk(s, o.file, o.job, fspNet, fspServer)
  BY DEF OutOk
<1>3. FspNothing.for = "none"
  BY DEF FspNothing, FspAsks
<1>4. NetInv(s, FspNothing, fspNet, fspServer)
  BY <1>3, NetFacts DEF NetInv
<1>5. ServerInv(s, o.file, o.job, FspNothing, fspNet, fspServer)
  BY <1>2, <1>3, NetFacts DEF ServerInv, BlockInv, InstallInv, Ready, MoveInv, RestOk
<1> QED
  BY <1>1, <1>2, <1>4, <1>5 DEF FspInv

\* The packets of the transaction that starts
LEMMA AsksNet ==
  ASSUME FspInv, NEW s \in SessionType, s.seq # fspSession.seq, Keyed(s, fspNet), NEW f, NEW job, NEW c,
         ClientInv(f, job, c), c.for # "none", \A q \in New(fspNet) : Follows(FspRequest(s, c), q),
         NEW server, ~server.obeyed
  PROVE  NetInv(s, c, FspStillOut \cup {FspRequest(s, c)}, server)
<1> DEFINE r == FspRequest(s, c)
           net == FspStillOut \cup {r}
<1>1. PacketOk(r) /\ r.to = "server" /\ ~r.late /\ r.seq = s.seq /\ r.key = s.key
  BY RequestOk
<1>2. \A q \in FspStillOut : \E p \in fspNet :
         /\ ~p.late /\ q = [p EXCEPT !.late = TRUE]
         /\ PacketOk(q) /\ q.late /\ q.to = p.to /\ q.seq = p.seq /\ q.cmd = p.cmd /\ q.pos = p.pos
         /\ q.data = p.data /\ q.key = p.key /\ q.err = p.err /\ End(q) = End(p)
  BY NetFacts, StillOutIs
<1> HIDE DEF r
<1>3. ASSUME NEW p \in net PROVE PacketOk(p) /\ (p.late <=> p.seq # s.seq)
  BY <1>1, <1>2, NetFacts
<1>4. ASSUME NEW p \in ToServer(net), NEW q \in ToServer(net), p.late <=> q.late PROVE p = q
  <2>1. CASE p = r \/ q = r
    BY <1>1, <1>2, <1>4, <2>1 DEF ToServer
  <2>2. CASE p # r /\ q # r
    <3>1. p \in FspStillOut /\ q \in FspStillOut /\ p.to = "server" /\ q.to = "server"
      BY <2>2 DEF ToServer
    <3>2. PICK p0 \in fspNet : ~p0.late /\ p = [p0 EXCEPT !.late = TRUE] /\ p0.to = "server"
      BY <1>2, <3>1
    <3>3. PICK q0 \in fspNet : ~q0.late /\ q = [q0 EXCEPT !.late = TRUE] /\ q0.to = "server"
      BY <1>2, <3>1
    <3>4. p0 = q0
      BY <3>2, <3>3, OneOfEach DEF ToServer
    <3> QED
      BY <3>2, <3>3, <3>4
  <2> QED
    BY <2>1, <2>2
<1>5. ASSUME NEW q \in ToServer(net), q.late
      PROVE  (r.key >= 1 => q.key >= 1) /\ Follows(r, q)
  <2>1. q \in FspStillOut /\ q.to = "server"
    BY <1>1, <1>5 DEF ToServer
  <2>2. PICK p \in fspNet :
          /\ ~p.late /\ q.to = p.to /\ q.cmd = p.cmd /\ q.pos = p.pos
          /\ q.data = p.data /\ q.key = p.key /\ End(q) = End(p)
    BY <1>2, <2>1
  <2>3. p \in ToServer(fspNet)
    BY <2>1, <2>2 DEF ToServer
  <2>4. r.key >= 1 => q.key >= 1
    <3>1. s.key \in {0, 1}
      BY DEF SessionType
    <3>2. s.key = 1 => p.key >= 1
      BY <2>3 DEF Keyed
    <3> QED
      BY <1>1, <2>2, <3>1, <3>2
  <2>5. Harmful(q) => Follows(r, p)
    BY <2>2, <2>3 DEF New, Harmful, r
  <2> QED
    BY <2>2, <2>4, <2>5 DEF Follows, Harmful, Same, Outdates
<1>6. ASSUME NEW p \in ToServer(net), ~p.late PROVE p = r
  BY <1>2, <1>6 DEF ToServer
<1>7. PairsInv(net)
  BY <1>4, <1>5, <1>6 DEF PairsInv
<1>8. ASSUME NEW p \in ToServer(net), s.key = 1 PROVE p.key >= 1
  <2>1. CASE p = r
    BY <1>1, <1>8, <2>1
  <2>2. CASE p # r
    <3>1. PICK q \in fspNet : p.key = q.key /\ q.to = "server"
      BY <1>2, <2>2 DEF ToServer
    <3> QED
      BY <1>8, <3>1 DEF Keyed, ToServer
  <2> QED
    BY <2>1, <2>2
<1>9. RepliesInv(net, server)
  BY <1>1, <1>2 DEF RepliesInv
<1> QED
  BY <1>3, <1>7, <1>8, <1>9 DEF NetInv, Keyed, r

\* The server when the transaction starts
LEMMA AsksServer ==
  ASSUME FspInv, NEW s \in SessionType, NEW f, NEW job, NEW c, ClientInv(f, job, c), c.for # "none",
         AskOk(s, f, job, c, fspNet, fspServer), NEW sn \in SessionType
  PROVE  ServerInv(sn, f, job, c, FspStillOut \cup {FspRequest(sn, c)}, [fspServer EXCEPT !.obeyed = FALSE])
<1> DEFINE r == FspRequest(sn, c)
           net == FspStillOut \cup {r}
           server == [fspServer EXCEPT !.obeyed = FALSE]
<1>1. PacketOk(r) /\ r.to = "server" /\ ~r.late /\ r.cmd = c.cmd /\ r.pos = c.pos
  BY RequestOk
<1>2. \A q \in FspStillOut : \E p \in fspNet :
         /\ ~p.late /\ q = [p EXCEPT !.late = TRUE]
         /\ PacketOk(q) /\ q.late /\ q.to = p.to /\ q.seq = p.seq /\ q.cmd = p.cmd /\ q.pos = p.pos
         /\ q.data = p.data /\ q.key = p.key /\ q.err = p.err /\ End(q) = End(p)
  BY NetFacts, StillOutIs
<1>3. /\ server \in ServerType /\ server.tmp = fspServer.tmp /\ server.file = fspServer.file /\ ~server.obeyed
  BY NetFacts DEF ServerType
<1> HIDE DEF r, server
<1>4. ASSUME NEW q \in Old(net) PROVE \E p \in New(fspNet) : End(q) = End(p)
  <2>1. q \in FspStillOut /\ q.to = "server" /\ Harmful(q)
    BY <1>1, <1>4 DEF Old, ToServer
  <2> QED
    BY <1>2, <2>1 DEF New, ToServer, Harmful
<1>5. c \in CallType /\ job \in JobType /\ f \in FileType
  BY DEF ClientInv
<1>6. job.on /\ job.ret = "none"
  BY DEF ClientInv, CallInv
<1>7. ASSUME NEW p \in ToServer(net), p.cmd = "write", p.key < 2 PROVE p.pos <= Len(server.tmp)
  <2>1. CASE p = r
    <3>1. c.cmd = "write"
      BY <1>1, <1>7, <2>1
    <3>2. c.for \in {"write", "flush"}
      BY <1>5, <3>1 DEF ClientInv, CallInv, CmdFits, CallType, FspPurposes, FspCommands, FspAsked
    <3>3. f.open /\ f.writing
      BY <3>2 DEF ClientInv, CallInv, Moves, Fits
    <3>4. c.pos = f.pos
      BY <3>2, <3>3 DEF ClientInv, PutInv
    <3>5. Laid(f, fspServer)
      BY <3>2 DEF AskOk
    <3>6. f.pos \in Nat /\ Len(f.buf) \in Nat /\ Len(fspServer.tmp) \in Nat
      BY <1>5, Sizes, BytesSeq, NetFacts DEF FileType, ServerType
    <3> QED
      BY <1>1, <1>3, <2>1, <3>4, <3>5, <3>6 DEF Laid
  <2>2. CASE p # r
    <3>1. PICK q \in fspNet : p.key = q.key /\ q.to = "server" /\ q.cmd = "write" /\ q.pos = p.pos
      BY <1>2, <1>7, <2>2 DEF ToServer
    <3> QED
      BY <1>3, <1>7, <3>1, NetFacts DEF ToServer, StoreInv
  <2> QED
    BY <2>1, <2>2
<1>8. StoreInv(net, server)
  BY <1>3, <1>7, NetFacts DEF StoreInv
<1>9. BlockInv(f, c, net, server)
  BY <1>3, <1>4 DEF BlockInv, AskOk, Laid
<1>10. InstallInv(job, c, net, server)
  BY <1>3, <1>4 DEF InstallInv, AskOk
<1>11. MoveInv(sn, f, c, net, server) /\ DoneInv(job, net, server)
  BY <1>6 DEF MoveInv, DoneInv, Whole
<1> QED
  BY <1>8, <1>9, <1>10, <1>11 DEF ServerInv, r, server

\* The code goes on to an outcome.
LEMMA Applied ==
  ASSUME FspInv, NEW s \in SessionType, s.seq = fspSession.seq, Keyed(s, fspNet), NEW o,
         OutOk(s, o, fspNet, fspServer), FspApply(s, o)
  PROVE  FspInv'
<1>1. CASE o.ask = FspNothing
  BY <1>1, Rests
<1>2. CASE o.ask # FspNothing
  <2>1. PICK random \in FspSeqs :
          /\ fspSession' = [s EXCEPT !.seq = FspNextSeq(s.seq, random)]
          /\ fspNet' = FspStillOut \cup {FspRequest(fspSession', o.ask)}
          /\ fspServer' = [fspServer EXCEPT !.obeyed = FALSE]
          /\ fspFile' = o.file /\ fspJob' = o.job /\ fspCall' = o.ask
    BY <1>2 DEF FspApply
  <2>2. PICK n \in FspSeqs : n = FspNextSeq(s.seq, random) /\ n # fspSession.seq
    BY NextSeq DEF SessionType
  <2>3. PICK sn \in SessionType : sn = fspSession' /\ sn.seq = n /\ sn.key = s.key
    BY <2>1, <2>2 DEF SessionType
  <2>4. ClientInv(o.file, o.job, o.ask) /\ AskOk(s, o.file, o.job, o.ask, fspNet, fspServer)
    BY <1>2 DEF OutOk
  <2>5. o.ask.for # "none"
    BY <1>2, <2>4 DEF ClientInv, CallInv
  <2>6. Keyed(sn, fspNet)
    BY <2>3 DEF Keyed
  <2>7. ASSUME NEW q \in New(fspNet) PROVE Follows(FspRequest(sn, o.ask), q)
    <3>1. Follows(FspRequest(s, o.ask), q)
      BY <2>4 DEF AskOk
    <3>2. /\ FspRequest(sn, o.ask).cmd = FspRequest(s, o.ask).cmd /\ FspRequest(sn, o.ask).pos = FspRequest(s, o.ask).pos
          /\ FspRequest(sn, o.ask).data = FspRequest(s, o.ask).data /\ FspRequest(sn, o.ask).key = FspRequest(s, o.ask).key
      BY <2>3 DEF FspRequest
    <3> QED
      BY <3>1, <3>2 DEF Follows, Harmful, Same, Outdates
  <2>8. ~(fspServer').obeyed
    BY <2>1, NetFacts DEF ServerType
  <2>9. NetInv(sn, o.ask, fspNet', fspServer')
    BY <2>1, <2>2, <2>3, <2>4, <2>5, <2>6, <2>7, <2>8, AsksNet
  <2>10. ServerInv(sn, o.file, o.job, o.ask, fspNet', fspServer')
    BY <2>1, <2>3, <2>4, <2>5, AsksServer
  <2> QED
    BY <2>1, <2>3, <2>4, <2>9, <2>10 DEF FspInv
<1> QED
  BY <1>1, <1>2

-----------------------------------------------------------------------------
(* Outcomes *)

\* An operation goes on.
On(job) == job \in JobType /\ job.on /\ job.ret = "none"

\* Nothing is asked between transactions.
LEMMA NothingIs ==
  /\ FspNothing \in CallType /\ FspNothing.for = "none"
  /\ FspNoFile \in FileType /\ ~FspNoFile.open /\ ~FspNoFile.writing /\ ~FspNoFile.eof
  /\ FspNoFile.pos = 0 /\ FspNoFile.buf = <<>>
<1>1. PICK b \in FspBytes : b = <<>>
  BY NoBytes
<1>2. FspNothing = [for |-> "none", cmd |-> "bye", pos |-> 0, data |-> b, sends |-> 0]
  BY <1>1 DEF FspNothing, FspAsks
<1>3. 0 \in 0..FspSize /\ 0 \in 0..FspSends
  BY Sizes
<1>4. FspNothing \in CallType /\ FspNothing.for = "none"
  BY <1>2, <1>3 DEF CallType, FspPurposes, FspCommands, FspAsked
<1>5. FspNoFile \in FileType
  BY <1>1, <1>3 DEF FspNoFile, FileType
<1> QED
  BY <1>4, <1>5 DEF FspNoFile

\* What is asked
LEMMA AsksIs ==
  ASSUME NEW for \in FspPurposes, NEW cmd \in FspCommands, NEW pos \in 0..FspSize, NEW data \in FspBytes
  PROVE  /\ FspAsks(for, cmd, pos, data) \in CallType
         /\ FspAsks(for, cmd, pos, data).for = for /\ FspAsks(for, cmd, pos, data).cmd = cmd
         /\ FspAsks(for, cmd, pos, data).pos = pos /\ FspAsks(for, cmd, pos, data).data = data
<1>1. 1 \in 0..FspSends
  BY Sizes
<1> QED
  BY <1>1 DEF FspAsks, CallType

\* What an outcome is made of
LEMMA OutIs ==
  ASSUME NEW f, NEW job, NEW c
  PROVE  FspOut(f, job, c).file = f /\ FspOut(f, job, c).job = job /\ FspOut(f, job, c).ask = c
BY DEF FspOut

\* The operation is over.
LEMMA ReturnOk ==
  ASSUME NEW s, NEW net, NEW server, NEW job \in JobType, NEW ret \in {"none", "ok", "retry", "fatal"},
         job.op = "get" =>
           \E i \in {0, 1} :
             /\ i < FspSize /\ i + Len(job.got) <= FspSize /\ job.got = Part(i, i + Len(job.got))
             /\ ret = "ok" /\ job.clean => i + Len(job.got) = FspSize,
         ret = "ok" /\ job.clean =>
           /\ job.op = "list" => job.got = Part(0, FspSize)
           /\ job.op \in {"simple", "list", "put"} => server.obeyed
           /\ job.op = "put" =>
                Named(server) /\ \A p \in ToServer(net) : Harmful(p) /\ p.key < 2 => p.cmd = "install"
  PROVE  OutOk(s, FspReturn(FspNoFile, job, ret), net, server)
<1> DEFINE j == [job EXCEPT !.on = FALSE, !.ret = ret, !.part = <<>>, !.from = 0, !.block = 0]
<1>1. 0 \in 0..FspSize /\ 0 \in 0..FspSpace /\ <<>> \in FspBytes
  BY Sizes, NoBytes
<1>2. j \in JobType /\ ~j.on /\ j.ret = ret /\ j.op = job.op /\ j.got = job.got /\ j.clean = job.clean
  BY <1>1 DEF JobType
<1>3. /\ FspReturn(FspNoFile, job, ret).file = FspNoFile /\ FspReturn(FspNoFile, job, ret).job = j
      /\ FspReturn(FspNoFile, job, ret).ask = FspNothing
  BY DEF FspReturn, FspOut
<1> HIDE DEF j
<1>4. CallInv(FspNoFile, j, FspNothing)
  BY <1>2, NothingIs DEF CallInv, Moves
<1>5. GotInv(j) /\ ListInv(j, FspNothing)
  BY <1>2 DEF GotInv, ListInv, Whole
<1>6. GetInv(FspNoFile, j, FspNothing) /\ PutInv(FspNoFile, j, FspNothing)
  BY NothingIs DEF GetInv, PutInv
<1>7. DoneInv(j, net, server)
  BY <1>2 DEF DoneInv, Whole
<1> QED
  BY <1>2, <1>3, <1>4, <1>5, <1>6, <1>7, NothingIs DEF OutOk, RestOk, ClientInv

\* A transaction that cannot harm the file
LEMMA MildOk ==
  ASSUME NEW s, NEW net, NEW server, NEW f, NEW job, NEW c, ClientInv(f, job, c), c.for # "none",
         c.for \notin {"write", "flush", "install"}, ~Harmful(c)
  PROVE  OutOk(s, FspOut(f, job, c), net, server)
<1>1. \A q \in New(net) : Follows(FspRequest(s, c), q)
  BY DEF Follows, Harmful, FspRequest
<1>2. AskOk(s, f, job, c, net, server)
  BY <1>1 DEF AskOk, Ready
<1>3. c # FspNothing
  BY NothingIs
<1> QED
  BY <1>2, <1>3, OutIs DEF OutOk

\* fsp_fclose() returned.
LEMMA ClosedOk ==
  ASSUME NEW s, NEW net, NEW server, NEW job, On(job), job.op \in {"get", "put", "abort", "close"}, NEW ok \in BOOLEAN,
         job.op = "get" =>
           \E i \in {0, 1} :
             /\ i < FspSize /\ i + Len(job.got) <= FspSize /\ job.got = Part(i, i + Len(job.got))
             /\ ok /\ job.clean => i + Len(job.got) = FspSize,
         job.op = "put" /\ ok /\ job.clean =>
           /\ server.obeyed /\ Named(server)
           /\ \A p \in ToServer(net) : Harmful(p) /\ p.key < 2 => p.cmd = "install"
  PROVE  OutOk(s, FspClosed(job, ok), net, server)
<1>1. CASE job.op = "close"
  <2>1. PICK o \in 0..FspSize : o = 0
    BY Sizes
  <2>2. PICK b \in FspBytes : b = <<>>
    BY NoBytes
  <2>3. PICK bye \in FspPurposes \cap FspCommands : bye = "bye"
    BY DEF FspPurposes, FspCommands, FspAsked
  <2>4. FspBye = FspAsks(bye, bye, o, b)
    BY <2>1, <2>2, <2>3 DEF FspBye
  <2>5. FspBye \in CallType /\ FspBye.for = "bye" /\ FspBye.cmd = "bye"
    BY <2>3, <2>4, AsksIs
  <2>6. CallInv(FspNoFile, job, FspBye)
    BY <1>1, <2>5, NothingIs DEF CallInv, On, Fits, CmdFits, Moves
  <2>7. GotInv(job) /\ GetInv(FspNoFile, job, FspBye) /\ PutInv(FspNoFile, job, FspBye) /\ ListInv(job, FspBye)
    BY <1>1, <2>5, NothingIs DEF GotInv, GetInv, PutInv, ListInv
  <2>8. ClientInv(FspNoFile, job, FspBye)
    BY <2>5, <2>6, <2>7, NothingIs DEF ClientInv, On
  <2>9. FspClosed(job, ok) = FspOut(FspNoFile, job, FspBye)
    BY <1>1 DEF FspClosed
  <2>10. OutOk(s, FspOut(FspNoFile, job, FspBye), net, server)
    BY <2>5, <2>8, MildOk DEF Harmful
  <2> QED
    BY <2>9, <2>10
<1>2. CASE job.op = "abort"
  <2>1. PICK ret \in {"none", "ok", "retry", "fatal"} : ret = "none"
    OBVIOUS
  <2>2. OutOk(s, FspReturn(FspNoFile, job, ret), net, server)
    BY <1>2, <2>1, ReturnOk DEF On
  <2> QED
    BY <1>2, <2>1, <2>2 DEF FspClosed
<1>3. CASE job.op \in {"get", "put"}
  <2>1. PICK ret \in {"none", "ok", "retry", "fatal"} : ret = IF ok THEN "ok" ELSE "fatal"
    OBVIOUS
  <2>2. ret = "ok" => ok
    BY <2>1
  <2>3. job \in JobType
    BY DEF On
  <2>4. OutOk(s, FspReturn(FspNoFile, job, ret), net, server)
    BY <1>3, <2>2, <2>3, ReturnOk
  <2> QED
    BY <1>3, <2>1, <2>4 DEF FspClosed
<1> QED
  BY <1>1, <1>2, <1>3

-----------------------------------------------------------------------------
(* Outcomes of an upload *)

\* A request after those that are settled
LEMMA SettledFollows ==
  ASSUME NEW s, NEW f \in FileType, NEW net, NEW server, \A p \in net : PacketOk(p), Settled(s, f, net, server),
         NEW c, c.cmd = "write" => c.pos = f.pos, NEW q \in New(net)
  PROVE  Follows(FspRequest(s, c), q) /\ End(q) = f.pos
<1>1. q \in net /\ q.to = "server" /\ q.cmd = "write" /\ End(q) = f.pos
  BY DEF Settled, New, ToServer
<1>2. f.pos > 0
  BY <1>1, BlockFacts, PacketFields
<1>3. s.key = 0 /\ q.key >= 1
  BY <1>2 DEF Settled, New, ToServer
<1>4. FspRequest(s, c).key = s.key /\ FspRequest(s, c).cmd = c.cmd /\ FspRequest(s, c).pos = c.pos
  BY DEF FspRequest
<1> QED
  BY <1>1, <1>3, <1>4 DEF Follows, Outdates

\* The client while it writes
LEMMA WritingOk ==
  ASSUME NEW f \in FileType, f.open, f.writing, ~f.eof, NEW job, On(job), job.op \in {"put", "abort", "close"},
         NEW c \in CallType, c.for \in {"none", "write", "flush", "install", "cancel"}, Fits(c.for, job.op),
         IF c.for = "none" THEN c = FspNothing ELSE CmdFits(c.for, c.cmd), PutInv(f, job, c)
  PROVE  ClientInv(f, job, c)
<1>1. CallInv(f, job, c)
  BY DEF CallInv, On, Moves
<1>2. GotInv(job) /\ GetInv(f, job, c) /\ ListInv(job, c)
  BY DEF GotInv, GetInv, ListInv
<1> QED
  BY <1>1, <1>2 DEF ClientInv, On

\* A file is open for writing, and this is what is known of it.
Writing(s, f, job, net, server) ==
  /\ f \in FileType /\ f.open /\ f.writing /\ ~f.eof /\ Held(f)
  /\ On(job) /\ job.op \in {"put", "abort", "close"}
  /\ \A p \in net : PacketOk(p)
  /\ Settled(s, f, net, server)

\* fsp_install()
LEMMA InstallOk ==
  ASSUME NEW s, NEW f, NEW job, NEW net, NEW server, Writing(s, f, job, net, server), f.buf = <<>>,
         job.op = "put" /\ job.clean => f.pos = FspSize, job.op = "abort" => f.pos = 0
  PROVE  OutOk(s, FspInstall(f, job), net, server)
<1>1. PICK o \in 0..FspSize : o = 0
  BY Sizes
<1>2. PICK b \in FspBytes : b = <<>>
  BY NoBytes
<1>3. PICK w \in FspPurposes \cap FspCommands : w = "install"
  BY DEF FspPurposes, FspCommands, FspAsked
<1>4. PICK c \in CallType : c = FspAsks(w, w, o, b) /\ c.for = "install" /\ c.cmd = "install"
  BY <1>3, AsksIs
<1>5. FspInstall(f, job) = FspOut(f, job, c)
  BY <1>1, <1>2, <1>3, <1>4 DEF FspInstall
<1>6. f \in FileType /\ f.open /\ f.writing /\ ~f.eof /\ Held(f) /\ On(job) /\ job.op \in {"put", "abort", "close"}
  BY DEF Writing
<1>7. PutInv(f, job, c)
  BY <1>4, <1>6 DEF PutInv
<1>8. ClientInv(f, job, c)
  BY <1>4, <1>6, <1>7, WritingOk DEF Fits, CmdFits
<1>9. ASSUME NEW q \in New(net) PROVE Follows(FspRequest(s, c), q) /\ End(q) = f.pos
  BY <1>4, <1>6, SettledFollows DEF Writing
<1>10. ASSUME Ready(job, c) PROVE Len(server.tmp) = FspSize /\ f.pos = FspSize
  BY <1>10, Sizes DEF Ready, Writing, Settled
<1>11. AskOk(s, f, job, c, net, server)
  BY <1>4, <1>9, <1>10 DEF AskOk
<1> QED
  BY <1>4, <1>5, <1>8, <1>11, OutIs, NothingIs DEF OutOk

\* The file is closed: what is in the packet is written first.
LEMMA FlushOk ==
  ASSUME NEW s, NEW f, NEW job, NEW net, NEW server, Writing(s, f, job, net, server),
         job.op = "put" /\ job.clean => f.pos + Len(f.buf) = FspSize, job.op = "abort" => f.pos = 0
  PROVE  OutOk(s, FspFlush(f, job), net, server)
<1>1. f \in FileType /\ f.open /\ f.writing /\ ~f.eof /\ Held(f) /\ On(job) /\ job.op \in {"put", "abort", "close"}
  BY DEF Writing
<1>2. CASE f.buf = <<>>
  <2>1. job.op = "put" /\ job.clean => f.pos = FspSize
    BY <1>1, <1>2, Sizes DEF FileType
  <2> QED
    BY <1>2, <2>1, InstallOk DEF FspFlush
<1>3. CASE f.buf # <<>>
  <2>1. PICK p \in 0..FspSize : p = f.pos
    BY <1>1 DEF FileType
  <2>2. PICK b \in FspBytes : b = f.buf
    BY <1>1 DEF FileType
  <2>3. PICK w \in FspPurposes : w = "flush"
    BY DEF FspPurposes
  <2>4. PICK m \in FspCommands : m = "write"
    BY DEF FspCommands, FspAsked
  <2>5. PICK c \in CallType : /\ c = FspAsks(w, m, p, b) /\ c.for = "flush" /\ c.cmd = "write"
                              /\ c.pos = p /\ c.data = b
    BY <2>3, <2>4, AsksIs
  <2>6. FspFlush(f, job) = FspOut(f, job, c)
    BY <1>3, <2>1, <2>2, <2>3, <2>4, <2>5 DEF FspFlush
  <2>7. PutInv(f, job, c)
    BY <1>1, <1>3, <2>1, <2>2, <2>5 DEF PutInv
  <2>8. ClientInv(f, job, c)
    BY <1>1, <2>5, <2>7, WritingOk DEF Fits, CmdFits
  <2>9. ASSUME NEW q \in New(net) PROVE Follows(FspRequest(s, c), q)
    BY <2>1, <2>5, <1>1, SettledFollows DEF Writing
  <2>10. Laid(f, server)
    BY DEF Writing, Settled, Laid
  <2>11. AskOk(s, f, job, c, net, server)
    BY <2>5, <2>9, <2>10 DEF AskOk, Ready
  <2> QED
    BY <2>5, <2>6, <2>8, <2>11, OutIs, NothingIs DEF OutOk
<1> QED
  BY <1>2, <1>3

\* What is still to copy follows what is in the packet, which is not full.
Copies(f, job, rest) ==
  /\ f.pos + Len(f.buf) <= job.from /\ rest = Part(f.pos + Len(f.buf), job.from)
  /\ Len(f.buf) < FspSpace

\* fsp_fwrite()
LEMMA FwriteOk ==
  ASSUME NEW s, NEW f, NEW job, NEW net, NEW server, Writing(s, f, job, net, server), job.op = "put",
         NEW rest, Copies(f, job, rest)
  PROVE  OutOk(s, FspFwrite(f, job, rest), net, server)
<1>1. f \in FileType /\ f.open /\ f.writing /\ ~f.eof /\ Held(f) /\ On(job) /\ job \in JobType
  BY DEF Writing, On
<1>2. PICK p \in Nat : p = f.pos /\ p \in 0..FspSize
  BY <1>1, Sizes DEF FileType
<1>3. PICK n \in Nat : n = Len(f.buf)
  BY <1>1, BytesSeq DEF FileType
<1>4. PICK z \in Nat : z = job.from /\ z \in 0..FspSize
  BY <1>1, Sizes DEF JobType
<1>5. PICK e \in Nat : e = p + n /\ p <= e /\ e <= z
  BY <1>2, <1>3, <1>4, Sizes DEF Copies
<1>6. z <= FspSize /\ FspSize \in Nat
  BY <1>4, Sizes
<1>7. f.buf = Part(p, e) /\ rest = Part(e, z)
  BY <1>1, <1>2, <1>3, <1>4, <1>5 DEF Held, Copies
<1>8. PICK r \in Nat : r = z - e
  BY <1>5, <1>6
<1>9. Len(rest) = r
  BY <1>5, <1>6, <1>7, <1>8, PartLen
<1>10. PICK free \in Nat : free = FspSpace - n /\ free > 0
  <2>1. PICK k \in Nat : k = FspSpace
    BY Sizes
  <2>2. n < k
    BY <1>3, <2>1 DEF Copies
  <2> QED
    BY <2>1, <2>2
<1>11. CASE free <= r
  <2>1. PICK h \in Nat : h = e + free /\ h <= z /\ e <= h /\ p <= h /\ p < h
    BY <1>5, <1>6, <1>8, <1>10, <1>11
  <2>2. SubSeq(rest, 1, free) = Part(e, h)
    <3>1. PICK o \in Nat : o = 0
      OBVIOUS
    <3>2. SubSeq(Part(e, z), o + 1, free) = Part(e + o, e + free)
      <4>1. o <= free /\ e + free <= z
        BY <2>1, <3>1
      <4> QED
        BY <4>1, PartSub
    <3>3. o + 1 = 1 /\ e + o = e
      BY <3>1
    <3> QED
      BY <1>7, <2>1, <3>2, <3>3
  <2>3. f.buf \o SubSeq(rest, 1, free) = Part(p, h)
    <3>1. Part(p, e) \o Part(e, h) = Part(p, h)
      BY <1>5, <2>1, PartCat
    <3> QED
      BY <1>7, <2>2, <3>1
  <2>4. SubSeq(rest, free + 1, Len(rest)) = Part(h, z)
    <3>1. e + r <= z /\ e + r = z /\ free <= r
      BY <1>5, <1>6, <1>8, <1>11
    <3>2. SubSeq(Part(e, z), free + 1, r) = Part(e + free, e + r)
      BY <3>1, PartSub
    <3> QED
      BY <1>7, <1>9, <2>1, <3>1, <3>2
  <2>5. PICK full \in FspBytes : full = Part(p, h) /\ full # <<>> /\ Len(full) = h - p
    BY <1>6, <2>1, PartType, PartEmpty, PartLen
  <2>6. PICK left \in FspBytes : left = Part(h, z)
    BY <1>6, <2>1, PartType
  <2>7. PICK g \in FileType : g = [f EXCEPT !.buf = full] /\ g.open /\ g.writing /\ ~g.eof /\ g.pos = p /\ g.buf = full
    <3> DEFINE g == [f EXCEPT !.buf = full]
    <3>1. g \in FileType /\ g.open /\ g.writing /\ ~g.eof /\ g.pos = p /\ g.buf = full
      BY <1>1, <1>2 DEF FileType
    <3> QED
      BY <3>1
  <2>8. PICK j \in JobType : /\ j = [job EXCEPT !.part = left] /\ On(j) /\ j.op = "put" /\ j.from = z /\ j.part = left
                             /\ j.clean = job.clean
    <3> DEFINE j == [job EXCEPT !.part = left]
    <3>1. /\ j \in JobType /\ On(j) /\ j.op = "put" /\ j.from = z /\ j.part = left /\ j.clean = job.clean
      BY <1>1, <1>4 DEF JobType, On
    <3> QED
      BY <3>1
  <2>9. PICK w \in FspPurposes \cap FspCommands : w = "write"
    BY DEF FspPurposes, FspCommands, FspAsked
  <2>10. PICK c \in CallType : /\ c = FspAsks(w, w, p, full) /\ c.for = "write" /\ c.cmd = "write"
                               /\ c.pos = p /\ c.data = full
    BY <1>2, <2>9, AsksIs
  <2>11. FspFwrite(f, job, rest) = FspOut(g, j, c)
    BY <1>2, <1>3, <1>9, <1>10, <1>11, <2>3, <2>4, <2>5, <2>6, <2>7, <2>8, <2>9, <2>10 DEF FspFwrite
  <2>12. p + Len(full) = h
    BY <1>6, <2>1, <2>5
  <2>13. PutInv(g, j, c)
    <3>1. Held(g)
      BY <1>6, <2>1, <2>5, <2>7, <2>12 DEF Held
    <3>2. Fills(g, j)
      BY <2>1, <2>6, <2>7, <2>8, <2>12 DEF Fills
    <3> QED
      BY <2>5, <2>7, <2>8, <2>10, <3>1, <3>2 DEF PutInv
  <2>14. ClientInv(g, j, c)
    BY <2>7, <2>8, <2>10, <2>13, WritingOk DEF Fits, CmdFits
  <2>15. ASSUME NEW q \in New(net) PROVE Follows(FspRequest(s, c), q) /\ End(q) = g.pos
    BY <1>1, <1>2, <2>7, <2>10, SettledFollows DEF Writing
  <2>16. Laid(g, server)
    BY <1>2, <2>7 DEF Writing, Settled, Laid
  <2>17. AskOk(s, g, j, c, net, server)
    BY <2>10, <2>15, <2>16 DEF AskOk, Ready
  <2> QED
    BY <2>10, <2>11, <2>14, <2>17, OutIs, NothingIs DEF OutOk
<1>12. CASE ~(free <= r)
  <2>1. PICK all \in FspBytes : all = Part(p, z) /\ all = f.buf \o rest /\ Len(all) = z - p
    <3>1. Part(p, e) \o Part(e, z) = Part(p, z)
      BY <1>5, <1>6, PartCat
    <3>2. Part(p, z) \in FspBytes /\ Len(Part(p, z)) = z - p
      BY <1>5, <1>6, PartType, PartLen
    <3> QED
      BY <1>7, <3>1, <3>2
  <2>2. z - p < FspSpace /\ p + (z - p) = z
    BY <1>5, <1>6, <1>8, <1>10, <1>12, Sizes
  <2>3. PICK none \in FspBytes : none = <<>> /\ none = Part(z, z)
    BY <1>6, NoBytes, PartNone
  <2>4. PICK g \in FileType : g = [f EXCEPT !.buf = all] /\ g.open /\ g.writing /\ ~g.eof /\ g.pos = p /\ g.buf = all
    <3> DEFINE g == [f EXCEPT !.buf = all]
    <3>1. g \in FileType /\ g.open /\ g.writing /\ ~g.eof /\ g.pos = p /\ g.buf = all
      BY <1>1, <1>2 DEF FileType
    <3> QED
      BY <3>1
  <2>5. PICK j \in JobType : /\ j = [job EXCEPT !.part = none] /\ On(j) /\ j.op = "put" /\ j.from = z /\ j.part = none
                             /\ j.clean = job.clean
    <3> DEFINE j == [job EXCEPT !.part = none]
    <3>1. /\ j \in JobType /\ On(j) /\ j.op = "put" /\ j.from = z /\ j.part = none /\ j.clean = job.clean
      BY <1>1, <1>4 DEF JobType, On
    <3> QED
      BY <3>1
  <2>6. FspFwrite(f, job, rest) = FspOut(g, j, FspNothing)
    BY <1>2, <1>3, <1>9, <1>10, <1>12, <2>1, <2>3, <2>4, <2>5 DEF FspFwrite
  <2>7. PutInv(g, j, FspNothing)
    <3>1. Held(g)
      BY <1>5, <1>6, <2>1, <2>2, <2>4 DEF Held
    <3>2. Fills(g, j)
      BY <1>6, <2>1, <2>2, <2>3, <2>4, <2>5 DEF Fills
    <3> QED
      BY <2>1, <2>2, <2>3, <2>4, <2>5, <3>1, <3>2, NothingIs DEF PutInv
  <2>8. ClientInv(g, j, FspNothing)
    BY <2>4, <2>5, <2>7, WritingOk, NothingIs DEF Fits
  <2>9. Settled(s, g, net, server)
    BY <1>2, <2>4 DEF Writing, Settled
  <2>10. DoneInv(j, net, server)
    BY <2>5 DEF On, DoneInv, Whole
  <2> QED
    BY <2>6, <2>8, <2>9, <2>10, OutIs DEF OutOk, RestOk
<1> QED
  BY <1>11, <1>12

-----------------------------------------------------------------------------
(* Outcomes of a download *)

\* A file is open for reading; what was given ends where part begins, and the packet holds
\* what comes after part.
Getting(f, job) ==
  /\ f \in FileType /\ f.open /\ ~f.writing /\ On(job) /\ job.op = "get"
  /\ job.from \in {0, 1} /\ job.from < FspSize
  /\ job.from + Len(job.got) <= FspSize /\ job.got = Part(job.from, job.from + Len(job.got))
Goes(f, job, part) ==
  LET a == job.from + Len(job.got)
      b == a + Len(part)
  IN part \in FspBytes /\ b <= f.pos /\ part = Part(a, b) /\ f.buf = Part(b, f.pos)
Ended(f) == f.eof => f.pos = FspSize /\ f.buf = <<>>

\* The client between two rounds of a download, or while it reads
LEMMA GettingOk ==
  ASSUME NEW f, NEW job, Getting(f, job), Goes(f, job, job.part), Ended(f), NEW c \in CallType,
         \/ c = FspNothing /\ job.part = <<>>
         \/ c.for = "read" /\ c.cmd = "read" /\ f.buf = <<>> /\ ~f.eof /\ c.pos = f.pos
  PROVE  ClientInv(f, job, c)
<1>1. f \in FileType /\ f.open /\ ~f.writing /\ On(job) /\ job.op = "get" /\ job \in JobType
  BY DEF Getting, On
<1>2. c.for \in {"none", "read"} /\ (c.for = "none" => c = FspNothing) /\ (c.for # "none" => c.cmd = c.for)
  BY NothingIs
<1>3. CallInv(f, job, c)
  BY <1>1, <1>2 DEF CallInv, On, Moves, Fits, CmdFits
<1>4. GotInv(job)
  BY <1>1 DEF GotInv, Getting, On, Whole
<1>5. Reads(f, job)
  BY DEF Goes, Reads
<1>6. GetInv(f, job, c)
  BY <1>1, <1>2, <1>5, NothingIs DEF GetInv, Ended
<1>7. PutInv(f, job, c) /\ ListInv(job, c)
  BY <1>1, <1>2 DEF PutInv, ListInv
<1> QED
  BY <1>1, <1>3, <1>4, <1>6, <1>7 DEF ClientInv

\* Where the bytes of a download end
LEMMA GoesFacts ==
  ASSUME NEW f, NEW job, Getting(f, job), NEW part, Goes(f, job, part)
  PROVE  \E i \in Nat, a \in Nat, b \in Nat, p \in Nat :
           /\ i = job.from /\ a = i + Len(job.got) /\ b = a + Len(part) /\ p = f.pos
           /\ i <= a /\ a <= b /\ b <= p /\ p <= FspSize
           /\ job.got = Part(i, a) /\ part = Part(a, b) /\ f.buf = Part(b, p)
<1>1. f \in FileType /\ job \in JobType /\ part \in FspBytes
  BY DEF Getting, Goes, On
<1>2. PICK i \in Nat : i = job.from
  BY <1>1, Sizes DEF JobType
<1>3. PICK p \in Nat : p = f.pos /\ p <= FspSize
  BY <1>1, Sizes DEF FileType
<1>4. PICK g \in Nat : g = Len(job.got)
  BY <1>1, BytesSeq DEF JobType
<1>5. PICK n \in Nat : n = Len(part)
  BY <1>1, BytesSeq
<1>6. PICK a \in Nat : a = i + g /\ i <= a
  OBVIOUS
<1>7. PICK b \in Nat : b = a + n /\ a <= b
  OBVIOUS
<1>8. b <= p /\ part = Part(a, b) /\ f.buf = Part(b, p)
  BY <1>2, <1>3, <1>4, <1>5, <1>6, <1>7 DEF Goes
<1>9. job.got = Part(i, a)
  BY <1>2, <1>4, <1>6 DEF Getting
<1>10. a = i + Len(job.got) /\ b = a + Len(part)
  BY <1>4, <1>5, <1>6, <1>7
<1> QED
  BY <1>2, <1>3, <1>6, <1>7, <1>8, <1>9, <1>10

\* One round of the worker
LEMMA RoundOk ==
  ASSUME NEW s, NEW net, NEW server, NEW f, NEW job, Getting(f, job), NEW part, Goes(f, job, part), Ended(f),
         part = <<>> /\ job.clean => f.pos = FspSize /\ f.buf = <<>>
  PROVE  OutOk(s, FspRound(f, job, part), net, server)
<1>1. f \in FileType /\ f.open /\ ~f.writing /\ On(job) /\ job.op = "get" /\ job \in JobType
  BY DEF Getting, On
<1>2. PICK i \in Nat, a \in Nat, b \in Nat, p \in Nat :
           /\ i = job.from /\ a = i + Len(job.got) /\ b = a + Len(part) /\ p = f.pos
           /\ i <= a /\ a <= b /\ b <= p /\ p <= FspSize
           /\ job.got = Part(i, a) /\ part = Part(a, b) /\ f.buf = Part(b, p)
  BY GoesFacts
<1>3. PICK none \in FspBytes : none = <<>> /\ none = Part(b, b)
  BY NoBytes, PartNone
<1>4. CASE part = <<>>
  <2>1. PICK j \in JobType : /\ j = [job EXCEPT !.part = none] /\ On(j) /\ j.op = "get" /\ j.from = i
                             /\ j.got = job.got /\ j.clean = job.clean
    <3> DEFINE j == [job EXCEPT !.part = none]
    <3>1. j \in JobType /\ On(j) /\ j.op = "get" /\ j.from = i /\ j.got = job.got /\ j.clean = job.clean
      BY <1>1, <1>2 DEF JobType, On
    <3> QED
      BY <3>1
  <2>2. FspRound(f, job, part) = FspClosed(j, TRUE)
    BY <1>1, <1>3, <1>4, <2>1 DEF FspRound, FspClose
  <2>3. job.clean => a = FspSize
    <3>1. a = b
      BY <1>2, <1>4, PartEmpty
    <3>2. f.buf = <<>> => b = p
      BY <1>2, PartEmpty
    <3> QED
      BY <1>2, <1>4, <3>1, <3>2
  <2>4. /\ i \in {0, 1} /\ i < FspSize /\ i + Len(j.got) <= FspSize /\ j.got = Part(i, i + Len(j.got))
        /\ j.clean => i + Len(j.got) = FspSize
    BY <1>2, <2>1, <2>3 DEF Getting
  <2>5. PICK ok \in BOOLEAN : ok = TRUE
    OBVIOUS
  <2>6. OutOk(s, FspClosed(j, ok), net, server)
    <3>1. \E k \in {0, 1} :
             /\ k < FspSize /\ k + Len(j.got) <= FspSize /\ j.got = Part(k, k + Len(j.got))
             /\ ok /\ j.clean => k + Len(j.got) = FspSize
      BY <2>4
    <3>2. On(j) /\ j.op = "get"
      BY <2>1
    <3> QED
      BY <3>1, <3>2, ClosedOk
  <2> QED
    BY <2>2, <2>5, <2>6
<1>5. CASE part # <<>>
  <2>1. job.got \o part = Part(i, b)
    <3>1. i <= a /\ a <= b
      BY <1>2
    <3>2. Part(i, a) \o Part(a, b) = Part(i, b)
      BY <3>1, PartCat
    <3> QED
      BY <1>2, <3>2
  <2>2. PICK got \in FspBytes : got = Part(i, b) /\ Len(got) = b - i
    <3>1. i <= b /\ b <= FspSize
      BY <1>2, Sizes
    <3> QED
      BY <3>1, PartType, PartLen
  <2>3. PICK j \in JobType : /\ j = [job EXCEPT !.part = none, !.got = @ \o part] /\ On(j) /\ j.op = "get"
                             /\ j.from = i /\ j.got = got /\ j.part = none
    <3> DEFINE j == [job EXCEPT !.part = none, !.got = got]
    <3>1. j \in JobType /\ On(j) /\ j.op = "get" /\ j.from = i /\ j.got = got /\ j.part = none
      BY <1>1, <1>2 DEF JobType, On
    <3> QED
      BY <2>1, <2>2, <3>1
  <2>4. FspRound(f, job, part) = FspOut(f, j, FspNothing)
    BY <1>3, <1>5, <2>3 DEF FspRound
  <2>5. i + Len(got) = b /\ b <= FspSize
    <3>1. i <= b /\ i + (b - i) = b
      BY <1>2
    <3> QED
      BY <1>2, <2>2, <3>1, Sizes
  <2>6. Getting(f, j)
    BY <1>1, <2>2, <2>3, <2>5, <1>2 DEF Getting
  <2>7. Len(none) = 0 /\ b + 0 = b
    BY <1>3
  <2>8. Goes(f, j, j.part)
    BY <1>2, <1>3, <2>3, <2>5, <2>7 DEF Goes
  <2>9. ClientInv(f, j, FspNothing)
    BY <1>3, <2>3, <2>6, <2>8, NothingIs, GettingOk
  <2>10. DoneInv(j, net, server)
    BY <2>3 DEF On, DoneInv, Whole
  <2> QED
    BY <1>1, <2>4, <2>9, <2>10, OutIs DEF OutOk, RestOk
<1> QED
  BY <1>4, <1>5

\* fsp_fread()
LEMMA FreadOk ==
  ASSUME NEW s, NEW net, NEW server, NEW f, NEW job, Getting(f, job), NEW part, Goes(f, job, part), Ended(f),
         f.eof => part = <<>>
  PROVE  OutOk(s, FspFread(f, job, part), net, server)
<1>1. f \in FileType /\ f.open /\ ~f.writing /\ On(job) /\ job.op = "get" /\ job \in JobType
  BY DEF Getting, On
<1>2. PICK i \in Nat, a \in Nat, b \in Nat, p \in Nat :
           /\ i = job.from /\ a = i + Len(job.got) /\ b = a + Len(part) /\ p = f.pos
           /\ i <= a /\ a <= b /\ b <= p /\ p <= FspSize
           /\ job.got = Part(i, a) /\ part = Part(a, b) /\ f.buf = Part(b, p)
  BY GoesFacts
<1>3. CASE f.eof
  <2>1. f.pos = FspSize /\ f.buf = <<>> /\ part = <<>>
    BY <1>3 DEF Ended
  <2>2. OutOk(s, FspRound(f, job, part), net, server)
    BY <2>1, RoundOk
  <2> QED
    BY <1>3, <2>1, <2>2 DEF FspFread
<1>4. PICK all \in FspBytes : all = part \o f.buf /\ all = Part(a, p) /\ Len(all) = p - a
  <2>1. a <= b /\ b <= p /\ a <= p /\ p <= FspSize
    BY <1>2
  <2>2. Part(a, b) \o Part(b, p) = Part(a, p)
    BY <2>1, PartCat
  <2>3. Part(a, p) \in FspBytes /\ Len(Part(a, p)) = p - a
    BY <2>1, PartType, PartLen
  <2> QED
    BY <1>2, <2>2, <2>3
<1>5. PICK k \in Nat : k = FspChunk /\ k > 0
  BY Sizes
<1>6. PICK n \in Nat : n = p - a /\ a + n = p
  <2>1. a <= p
    BY <1>2
  <2> QED
    BY <2>1
<1>7. CASE ~f.eof /\ n <= k
  <2>1. PICK none \in FspBytes : none = <<>> /\ none = Part(p, p)
    BY NoBytes, PartNone
  <2>2. PICK g \in FileType : /\ g = [f EXCEPT !.buf = none] /\ g.open /\ ~g.writing /\ ~g.eof
                              /\ g.pos = p /\ g.buf = none
    <3> DEFINE g == [f EXCEPT !.buf = none]
    <3>1. g \in FileType /\ g.open /\ ~g.writing /\ ~g.eof /\ g.pos = p /\ g.buf = none
      BY <1>1, <1>2, <1>7 DEF FileType
    <3> QED
      BY <3>1
  <2>3. PICK j \in JobType : /\ j = [job EXCEPT !.part = all] /\ On(j) /\ j.op = "get" /\ j.from = job.from
                             /\ j.got = job.got /\ j.part = all
    <3> DEFINE j == [job EXCEPT !.part = all]
    <3>1. j \in JobType /\ On(j) /\ j.op = "get" /\ j.from = job.from /\ j.got = job.got /\ j.part = all
      BY <1>1 DEF JobType, On
    <3> QED
      BY <3>1
  <2>4. PICK w \in FspPurposes \cap FspCommands : w = "read"
    BY DEF FspPurposes, FspCommands, FspAsked
  <2>5. PICK c \in CallType : c = FspAsks(w, w, p, none) /\ c.for = "read" /\ c.cmd = "read" /\ c.pos = p
    <3>1. p \in 0..FspSize
      BY <1>2, Sizes
    <3> QED
      BY <2>4, <3>1, AsksIs
  <2>6. FspFread(f, job, part) = FspOut(g, j, c)
    BY <1>2, <1>4, <1>5, <1>6, <1>7, <2>1, <2>2, <2>3, <2>4, <2>5 DEF FspFread
  <2>7. Getting(g, j)
    BY <2>2, <2>3 DEF Getting
  <2>8. Goes(g, j, j.part)
    <3>1. a + Len(all) = p
      BY <1>4, <1>6
    <3>2. j.from + Len(j.got) = a
      BY <1>2, <2>3
    <3>3. p <= p
      OBVIOUS
    <3> QED
      BY <1>4, <2>1, <2>2, <2>3, <3>1, <3>2, <3>3 DEF Goes
  <2>9. ClientInv(g, j, c)
    BY <2>1, <2>2, <2>5, <2>7, <2>8, GettingOk DEF Ended
  <2>10. OutOk(s, FspOut(g, j, c), net, server)
    BY <2>5, <2>9, MildOk DEF Harmful
  <2> QED
    BY <2>6, <2>10
<1>8. CASE ~f.eof /\ ~(n <= k)
  <2>1. PICK h \in Nat : h = a + k /\ a <= h /\ h <= p /\ a # h
    BY <1>5, <1>6, <1>8
  <2>2. PICK give \in FspBytes : give = SubSeq(all, 1, k) /\ give = Part(a, h) /\ give # <<>> /\ a + Len(give) = h
    <3>1. PICK o \in Nat : o = 0
      OBVIOUS
    <3>2. o + 1 = 1 /\ a + o = a
      BY <3>1
    <3>3. SubSeq(Part(a, p), o + 1, k) = Part(a + o, a + k)
      <4>1. o <= k /\ a + k <= p
        BY <2>1, <3>1
      <4> QED
        BY <4>1, PartSub
    <3>4. Part(a, h) \in FspBytes
      <4>1. h <= FspSize
        BY <1>2, <2>1, Sizes
      <4> QED
        BY <2>1, <4>1, PartType
    <3>5. Part(a, h) # <<>>
      BY <2>1, PartEmpty
    <3>6. a + Len(Part(a, h)) = h
      BY <2>1, PartLen
    <3> QED
      BY <1>4, <2>1, <3>2, <3>3, <3>4, <3>5, <3>6
  <2>3. PICK left \in FspBytes : left = SubSeq(all, k + 1, Len(all)) /\ left = Part(h, p)
    <3>1. k <= n /\ a + n <= p
      BY <1>6, <1>8
    <3>2. SubSeq(Part(a, p), k + 1, n) = Part(a + k, a + n)
      BY <3>1, PartSub
    <3>3. Part(h, p) \in FspBytes
      BY <1>2, <2>1, PartType
    <3> QED
      BY <1>4, <1>6, <2>1, <3>2, <3>3
  <2>4. PICK g \in FileType : /\ g = [f EXCEPT !.buf = left] /\ g.open /\ ~g.writing /\ ~g.eof
                              /\ g.pos = p /\ g.buf = left
    <3> DEFINE g == [f EXCEPT !.buf = left]
    <3>1. g \in FileType /\ g.open /\ ~g.writing /\ ~g.eof /\ g.pos = p /\ g.buf = left
      BY <1>1, <1>2, <1>8 DEF FileType
    <3> QED
      BY <3>1
  <2>5. FspFread(f, job, part) = FspRound(g, job, give)
    BY <1>4, <1>5, <1>6, <1>8, <2>2, <2>3, <2>4 DEF FspFread
  <2>6. Getting(g, job)
    BY <2>4 DEF Getting
  <2>7. Goes(g, job, give)
    BY <1>2, <2>1, <2>2, <2>3, <2>4 DEF Goes
  <2>8. OutOk(s, FspRound(g, job, give), net, server)
    BY <2>2, <2>4, <2>6, <2>7, RoundOk DEF Ended
  <2> QED
    BY <2>5, <2>8
<1> QED
  BY <1>3, <1>7, <1>8

-----------------------------------------------------------------------------
(* What a transaction comes to *)

\* A transaction is answered, or given up, and what that says of the server
Heard(s, ok, data) ==
  /\ FspInv /\ fspCall.for # "none"
  /\ s \in SessionType /\ ok \in BOOLEAN /\ data \in FspBytes
  /\ ok => s.key = 0 /\ fspServer.obeyed /\ \A p \in ToServer(fspNet) : p.key >= 1
  /\ ok /\ fspCall.cmd \in {"read", "dir"} => data = Part(fspCall.pos, UpTo(fspCall.pos))
Tells(job, ok) ==
  /\ On(job) /\ job.op = fspJob.op /\ job.part = fspJob.part /\ job.from = fspJob.from
  /\ job.block = fspJob.block /\ job.got = fspJob.got
  /\ job.clean <=> fspJob.clean /\ ok

\* What is known while a transaction is at work
LEMMA AtWork ==
  ASSUME FspInv, fspCall.for # "none"
  PROVE  /\ On(fspJob) /\ Fits(fspCall.for, fspJob.op) /\ CmdFits(fspCall.for, fspCall.cmd)
         /\ fspFile \in FileType /\ fspJob \in JobType /\ fspCall \in CallType
         /\ GotInv(fspJob) /\ GetInv(fspFile, fspJob, fspCall) /\ PutInv(fspFile, fspJob, fspCall)
         /\ ListInv(fspJob, fspCall) /\ CallInv(fspFile, fspJob, fspCall)
BY DEF FspInv, ClientInv, CallInv, On

\* The caller's operation, after the outcome
LEMMA TellsIs ==
  ASSUME FspInv, fspCall.for # "none", NEW ok \in BOOLEAN
  PROVE  Tells([fspJob EXCEPT !.clean = @ /\ ok], ok)
<1>1. On(fspJob) /\ fspJob \in JobType
  BY AtWork
<1>2. PICK b \in BOOLEAN : b <=> fspJob.clean /\ ok
  OBVIOUS
<1>3. [fspJob EXCEPT !.clean = @ /\ ok] = [fspJob EXCEPT !.clean = b]
  <2>1. fspJob.clean \in BOOLEAN
    BY <1>1 DEF JobType
  <2>2. (fspJob.clean /\ ok) = b
    BY <1>2, <2>1
  <2> QED
    BY <2>2
<1>4. Tells([fspJob EXCEPT !.clean = b], ok)
  BY <1>1, <1>2 DEF On, JobType, Tells
<1> QED
  BY <1>3, <1>4

\* The one request that is not late is that of the transaction at work.
LEMMA FreshIs ==
  ASSUME FspInv, fspCall.for # "none", NEW p \in ToServer(fspNet), ~p.late
  PROVE  /\ p = FspRequest(fspSession, fspCall) /\ PacketOk(p) /\ p.cmd = fspCall.cmd /\ p.pos = fspCall.pos
         /\ p.data = fspCall.data /\ p.key = fspSession.key
<1>1. FspRequest(fspSession, fspCall) \in fspNet
  BY DEF FspInv, NetInv
<1>2. PICK r \in ToServer(fspNet) : r = FspRequest(fspSession, fspCall) /\ ~r.late
  BY <1>1 DEF ToServer, FspRequest
<1>3. p = r
  BY <1>2, OneOfEach
<1> QED
  BY <1>2, <1>3, NetFacts DEF ToServer, FspRequest

\* Nothing that is not late can harm the file.
LEMMA NoneNew ==
  ASSUME FspInv, fspCall.for # "none", ~Harmful(fspCall)
  PROVE  New(fspNet) = {}
BY FreshIs DEF New, Harmful

\* simplecommand(), fsp_rename(), fsp_getpro()
LEMMA SimpleOk ==
  ASSUME NEW s, NEW ok, NEW data, Heard(s, ok, data), NEW job, Tells(job, ok), fspCall.for = "simple"
  PROVE  OutOk(s, FspSimpleDone(job, ok), fspNet, fspServer)
<1>1. fspJob.op = "simple" /\ fspFile = FspNoFile
  BY AtWork DEF Heard, Fits, CallInv, Moves
<1>2. PICK ret \in {"none", "ok", "retry", "fatal"} : ret = IF ok THEN "ok" ELSE "retry"
  OBVIOUS
<1>3. job \in JobType /\ job.op = "simple" /\ (ret = "ok" => fspServer.obeyed)
  BY <1>1, <1>2 DEF Tells, On, Heard
<1>4. OutOk(s, FspReturn(FspNoFile, job, ret), fspNet, fspServer)
  BY <1>3, ReturnOk
<1> QED
  BY <1>1, <1>2, <1>4 DEF FspSimpleDone

\* The download has what it had.
LEMMA GetFails ==
  ASSUME NEW s, NEW ok, NEW data, Heard(s, ok, data), NEW job, Tells(job, ok), fspJob.op \in {"get", "put"}
  PROVE  OutOk(s, FspReturn(FspNoFile, job, "retry"), fspNet, fspServer)
<1>1. job \in JobType /\ job.op = fspJob.op /\ job.got = fspJob.got
  BY DEF Tells, On
<1>2. PICK ret \in {"none", "ok", "retry", "fatal"} : ret = "retry"
  OBVIOUS
<1>3. job.op = "get" =>
        \E i \in {0, 1} : i < FspSize /\ i + Len(job.got) <= FspSize /\ job.got = Part(i, i + Len(job.got))
  BY <1>1, AtWork DEF Heard, GotInv
<1>4. OutOk(s, FspReturn(FspNoFile, job, ret), fspNet, fspServer)
  BY <1>1, <1>2, <1>3, ReturnOk
<1> QED
  BY <1>2, <1>4

\* fsp_stat() for fsp_get_file()
LEMMA StatedOk ==
  ASSUME NEW s, NEW ok, NEW data, Heard(s, ok, data), NEW job, Tells(job, ok), fspCall.for = "stat"
  PROVE  OutOk(s, FspStated(job, ok), fspNet, fspServer)
<1>1. fspJob.op = "get" /\ fspFile = FspNoFile
  BY AtWork DEF Heard, Fits, CallInv, Moves
<1>2. CASE ~ok
  BY <1>1, <1>2, GetFails DEF FspStated
<1>3. CASE ok
  <2>1. On(job) /\ job \in JobType /\ job.op = "get" /\ job.got = <<>> /\ job.part = <<>> /\ fspJob.got = <<>>
    BY <1>1, AtWork DEF Tells, On, Heard, GetInv
  <2>2. fspJob.from \in {0, 1} /\ fspJob.from < FspSize
    BY <1>1, AtWork DEF Heard, GotInv, On
  <2>3. PICK i \in Nat : i = job.from /\ i \in {0, 1} /\ i < FspSize /\ i \in 0..FspSize
    BY <2>2, Sizes DEF Tells
  <2>4. PICK none \in FspBytes : none = <<>> /\ none = Part(i, i) /\ Len(none) = 0
    BY NoBytes, PartNone
  <2>5. PICK f \in FileType : /\ f = [FspNoFile EXCEPT !.open = TRUE, !.writing = FALSE, !.pos = job.from]
                              /\ f.open /\ ~f.writing /\ ~f.eof /\ f.pos = i /\ f.buf = none
    <3> DEFINE f == [FspNoFile EXCEPT !.open = TRUE, !.writing = FALSE, !.pos = i]
    <3>1. f \in FileType /\ f.open /\ ~f.writing /\ ~f.eof /\ f.pos = i /\ f.buf = none
      BY <2>3, <2>4, NothingIs DEF FileType
    <3> QED
      BY <2>3, <3>1
  <2>6. FspStated(job, ok) = FspOut(f, job, FspNothing)
    BY <1>3, <2>5 DEF FspStated, FspOpened
  <2>7. i + 0 = i /\ i <= i /\ i <= FspSize
    BY <2>3
  <2>8. Getting(f, job)
    BY <2>1, <2>3, <2>4, <2>5, <2>7 DEF Getting
  <2>9. Goes(f, job, job.part)
    BY <2>1, <2>3, <2>4, <2>5, <2>7 DEF Goes
  <2>10. ClientInv(f, job, FspNothing)
    BY <2>1, <2>5, <2>8, <2>9, GettingOk, NothingIs DEF Ended
  <2>11. DoneInv(job, fspNet, fspServer)
    BY <2>1 DEF On, DoneInv, Whole
  <2>12. ~f.writing
    BY <2>5
  <2>13. OutOk(s, FspOut(f, job, FspNothing), fspNet, fspServer)
    BY <2>10, <2>11, <2>12, OutIs DEF OutOk, RestOk
  <2> QED
    BY <2>6, <2>13
<1> QED
  BY <1>2, <1>3 DEF Heard

\* fsp_fopen() for an upload
LEMMA OpenedOk ==
  ASSUME NEW s, NEW ok, NEW data, Heard(s, ok, data), NEW job, Tells(job, ok), fspCall.for \in {"pro", "exists"}
  PROVE  OutOk(s, FspOpened(job, TRUE), fspNet, fspServer)
<1>1. fspJob.op = "put" /\ job.op = "put" /\ On(job) /\ job \in JobType
  BY AtWork DEF Heard, Fits, Tells, On
<1>2. job.from = 0 /\ job.part = <<>>
  BY AtWork DEF Heard, PutInv, Tells
<1>3. PICK z \in Nat : z = 0 /\ z = job.from /\ z \in 0..FspSize
  BY <1>2, Sizes
<1>4. PICK none \in FspBytes : none = <<>> /\ none = Part(z, z) /\ Len(none) = z
  BY <1>3, NoBytes
<1>5. PICK f \in FileType : /\ f = [FspNoFile EXCEPT !.open = TRUE, !.writing = TRUE, !.pos = job.from]
                            /\ f.open /\ f.writing /\ ~f.eof /\ f.pos = z /\ f.buf = none
  <2> DEFINE f == [FspNoFile EXCEPT !.open = TRUE, !.writing = TRUE, !.pos = z]
  <2>1. f \in FileType /\ f.open /\ f.writing /\ ~f.eof /\ f.pos = z /\ f.buf = none
    BY <1>3, <1>4, NothingIs DEF FileType
  <2> QED
    BY <1>3, <2>1
<1>6. FspOpened(job, TRUE) = FspOut(f, job, FspNothing)
  BY <1>5 DEF FspOpened
<1>7. z + z = z /\ z <= z /\ z <= FspSize /\ z < FspSpace /\ ~(z > 0)
  BY <1>3, Sizes
<1>8. PutInv(f, job, FspNothing)
  <2>1. Held(f)
    BY <1>4, <1>5, <1>7 DEF Held
  <2>2. Fills(f, job)
    BY <1>1, <1>2, <1>3, <1>4, <1>5, <1>7 DEF Fills
  <2> QED
    BY <1>1, <1>2, <1>4, <1>5, <1>7, <2>1, <2>2, NothingIs DEF PutInv
<1>9. ClientInv(f, job, FspNothing)
  BY <1>1, <1>5, <1>8, WritingOk, NothingIs DEF Fits
<1>10. ~Harmful(fspCall)
  BY AtWork DEF Heard, CmdFits, Harmful
<1>11. Settled(s, f, fspNet, fspServer)
  BY <1>5, <1>7, <1>10, NoneNew DEF Settled, Heard
<1>12. DoneInv(job, fspNet, fspServer)
  BY <1>1 DEF On, DoneInv, Whole
<1>13. OutOk(s, FspOut(f, job, FspNothing), fspNet, fspServer)
  BY <1>9, <1>11, <1>12, OutIs DEF OutOk, RestOk
<1> QED
  BY <1>6, <1>13

\* fsp_stat() for fsp_canupload()
LEMMA AbsentOk ==
  ASSUME NEW s, NEW ok, NEW data, Heard(s, ok, data), NEW job, Tells(job, ok), fspCall.for = "exists"
  PROVE  OutOk(s, FspAbsent(job, ok), fspNet, fspServer)
<1>1. fspJob.op = "put" /\ fspFile = FspNoFile
  BY AtWork DEF Heard, Fits, CallInv, Moves
<1> QED
  BY <1>1, GetFails, OpenedOk DEF FspAbsent

\* fsp_canupload()
LEMMA AllowedOk ==
  ASSUME NEW s, NEW ok, NEW data, Heard(s, ok, data), NEW job, Tells(job, ok), fspCall.for = "pro",
         NEW o \in FspAllowed(job, ok)
  PROVE  OutOk(s, o, fspNet, fspServer)
<1>1. fspJob.op = "put" /\ fspFile = FspNoFile
  BY AtWork DEF Heard, Fits, CallInv, Moves
<1>2. CASE o = FspReturn(fspFile, job, "retry")
  BY <1>1, <1>2, GetFails
<1>3. CASE o = FspOpened(job, TRUE)
  BY <1>3, OpenedOk
<1>4. CASE o = FspOut(fspFile, job, FspAsks("exists", "stat", 0, <<>>))
  <2>1. PICK z \in 0..FspSize : z = 0
    BY Sizes
  <2>2. PICK none \in FspBytes : none = <<>>
    BY NoBytes
  <2>3. PICK w \in FspPurposes : w = "exists"
    BY DEF FspPurposes
  <2>4. PICK m \in FspCommands : m = "stat"
    BY DEF FspCommands
  <2>5. PICK c \in CallType : c = FspAsks(w, m, z, none) /\ c.for = "exists" /\ c.cmd = "stat"
    BY <2>3, <2>4, AsksIs
  <2>6. On(job) /\ job \in JobType /\ job.op = "put" /\ job.from = 0 /\ job.part = <<>>
    BY <1>1, AtWork DEF Tells, On, Heard, PutInv
  <2>7. CallInv(FspNoFile, job, c)
    BY <2>5, <2>6, NothingIs DEF CallInv, Fits, CmdFits, Moves, On
  <2>8. GotInv(job) /\ GetInv(FspNoFile, job, c) /\ PutInv(FspNoFile, job, c) /\ ListInv(job, c)
    BY <2>5, <2>6, NothingIs DEF GotInv, GetInv, PutInv, ListInv
  <2>9. ClientInv(FspNoFile, job, c)
    BY <2>6, <2>7, <2>8, NothingIs DEF ClientInv
  <2>10. OutOk(s, FspOut(FspNoFile, job, c), fspNet, fspServer)
    BY <2>5, <2>9, MildOk DEF Harmful
  <2> QED
    BY <1>1, <1>4, <2>1, <2>2, <2>3, <2>4, <2>5, <2>10
<1> QED
  BY <1>2, <1>3, <1>4 DEF FspAllowed

\* fsp_fread(), the reply being there
LEMMA ReadDoneOk ==
  ASSUME NEW s, NEW ok, NEW data, Heard(s, ok, data), NEW job, Tells(job, ok), fspCall.for = "read",
         ok \/ data = <<>>
  PROVE  OutOk(s, FspReadDone(job, ok, data), fspNet, fspServer)
<1>1. /\ fspJob.op = "get" /\ fspCall.cmd = "read" /\ fspFile.open /\ ~fspFile.writing /\ fspFile \in FileType
      /\ ok \in BOOLEAN /\ data \in FspBytes
  BY AtWork DEF Heard, Fits, CmdFits, CallInv, Moves
<1>2. /\ Reads(fspFile, fspJob) /\ fspFile.buf = <<>> /\ ~fspFile.eof /\ fspCall.pos = fspFile.pos
  BY <1>1, AtWork DEF Heard, GetInv
<1>3. On(job) /\ job \in JobType /\ job.op = "get"
  BY <1>1 DEF Tells, On
<1>4. Getting(fspFile, job)
  BY <1>1, <1>3, AtWork DEF Getting, Heard, GotInv, Tells, On
<1>5. Goes(fspFile, job, job.part)
  BY <1>2, <1>3 DEF Goes, Reads, Tells, JobType
<1>6. PICK part : part = job.part /\ Goes(fspFile, job, part)
  BY <1>5
<1>7. PICK f0 : f0 = fspFile
  OBVIOUS
<1>8. PICK i \in Nat, a \in Nat, b \in Nat, p \in Nat :
           /\ i = job.from /\ a = i + Len(job.got) /\ b = a + Len(part) /\ p = f0.pos
           /\ i <= a /\ a <= b /\ b <= p /\ p <= FspSize
           /\ job.got = Part(i, a) /\ part = Part(a, b) /\ f0.buf = Part(b, p)
  <2>1. Getting(f0, job) /\ Goes(f0, job, part)
    BY <1>6, <1>4, <1>7
  <2> QED
    BY <2>1, GoesFacts
<1>9. /\ i = job.from /\ a = i + Len(job.got) /\ b = a + Len(part) /\ p = fspFile.pos
      /\ i <= a /\ a <= b /\ b <= p /\ p <= FspSize
      /\ job.got = Part(i, a) /\ part = Part(a, b) /\ fspFile.buf = Part(b, p)
  BY <1>7, <1>8
<1>10. b = p
  BY <1>2, <1>9, PartEmpty
<1>11. PICK e \in Nat : p <= e /\ e <= FspSize /\ data = Part(p, e) /\ e = p + Len(data) /\ (ok /\ data = <<>> => p = FspSize)
  <2>1. CASE ok
    <3>1. p \in 0..FspSize
      BY <1>9, Sizes
    <3>2. data = Part(p, UpTo(p))
      BY <1>1, <1>2, <1>9, <2>1 DEF Heard
    <3>3. PICK e \in Nat : e = UpTo(p) /\ p <= e /\ e <= FspSize /\ (e = p => p = FspSize)
      BY <3>1, UpToIs
    <3>4. Len(Part(p, e)) = e - p /\ (Part(p, e) = <<>> <=> e = p)
      BY <3>3, PartLen, PartEmpty
    <3>5. p + (e - p) = e
      BY <3>3
    <3> QED
      BY <3>2, <3>3, <3>4, <3>5
  <2>2. CASE ~ok
    <3>1. Part(p, p) = <<>>
      BY PartNone
    <3>2. data = <<>> /\ Len(<<>>) = 0
      BY <2>2
    <3>3. p <= FspSize
      BY <1>9
    <3>4. p <= p /\ p = p + 0
      OBVIOUS
    <3> QED
      BY <2>2, <3>1, <3>2, <3>3, <3>4
  <2> QED
    BY <1>1, <2>1, <2>2
<1>12. PICK f \in FileType :
         /\ f = [fspFile EXCEPT !.buf = data, !.pos = @ + Len(data), !.eof = ok /\ data = <<>>]
         /\ f.open /\ ~f.writing /\ f.pos = e /\ f.buf = data /\ (f.eof <=> ok /\ data = <<>>)
  <2>1. PICK t \in BOOLEAN : t = (ok /\ data = <<>>)
    BY <1>1
  <2> DEFINE f == [fspFile EXCEPT !.buf = data, !.pos = e, !.eof = t]
  <2>2. e \in 0..FspSize
    BY <1>11, Sizes
  <2>3. f \in FileType /\ f.open /\ ~f.writing /\ f.pos = e /\ f.buf = data /\ (f.eof <=> t)
    BY <1>1, <2>2 DEF FileType
  <2>4. fspFile.pos + Len(data) = e
    BY <1>9, <1>11
  <2>5. f = [fspFile EXCEPT !.buf = data, !.pos = @ + Len(data), !.eof = ok /\ data = <<>>]
    BY <2>1, <2>4
  <2> QED
    BY <2>1, <2>3, <2>5
<1>13. Getting(f, job)
  BY <1>4, <1>12 DEF Getting
<1>14. Goes(f, job, job.part)
  BY <1>6, <1>9, <1>10, <1>11, <1>12 DEF Goes
<1>15. FspReadDone(job, ok, data)
         = IF ok /\ data # <<>> THEN FspFread(f, job, job.part) ELSE FspRound(f, job, job.part)
  BY <1>12 DEF FspReadDone
<1>16. CASE ok /\ data # <<>>
  <2>1. ~f.eof
    BY <1>12, <1>16
  <2>2. OutOk(s, FspFread(f, job, job.part), fspNet, fspServer)
    BY <1>13, <1>14, <2>1, FreadOk DEF Ended
  <2> QED
    BY <1>15, <1>16, <2>2
<1>17. CASE ~(ok /\ data # <<>>)
  <2>1. data = <<>>
    BY <1>1, <1>17
  <2>2. ok => f.pos = FspSize
    BY <1>11, <1>12, <2>1, <1>9
  <2>3. job.clean => ok
    BY DEF Tells
  <2>4. Ended(f)
    BY <1>12, <2>1, <2>2 DEF Ended
  <2>5. f.buf = <<>>
    BY <1>12, <2>1
  <2>6. OutOk(s, FspRound(f, job, job.part), fspNet, fspServer)
    BY <1>13, <1>14, <2>2, <2>3, <2>4, <2>5, RoundOk
  <2> QED
    BY <1>15, <1>17, <2>6
<1> QED
  BY <1>16, <1>17

\* fsp_opendir()
LEMMA DirDoneOk ==
  ASSUME NEW s, NEW ok, NEW data, Heard(s, ok, data), NEW job, Tells(job, ok), fspCall.for = "dir"
  PROVE  OutOk(s, FspDirDone(job, ok, data), fspNet, fspServer)
<1>1. fspJob.op = "list" /\ fspFile = FspNoFile /\ fspCall.cmd = "dir" /\ ok \in BOOLEAN /\ data \in FspBytes
  BY AtWork DEF Heard, Fits, CmdFits, CallInv, Moves
<1>2. On(job) /\ job \in JobType /\ job.op = "list" /\ job.part \in FspBytes
  BY <1>1 DEF Tells, On, JobType
<1>3. PICK n \in Nat : n = Len(job.part) /\ n <= FspSize /\ n \in 0..FspSize
  BY <1>2, BytesSeq, Sizes
<1>4. job.part = Part(0, n) /\ fspCall.pos = n /\ job.block \in {0, UpTo(0)} /\ (job.block = 0 => job.part = <<>>)
  BY <1>1, <1>3, AtWork DEF Heard, ListInv, Tells, On
<1>5. CASE ~ok
  <2>1. PICK ret \in {"none", "ok", "retry", "fatal"} : ret = "retry"
    OBVIOUS
  <2>2. OutOk(s, FspReturn(FspNoFile, job, ret), fspNet, fspServer)
    BY <1>2, <2>1, ReturnOk
  <2> QED
    BY <1>1, <1>5, <2>1, <2>2 DEF FspDirDone
<1>6. CASE ok
  <2>1. PICK e \in Nat : /\ e = UpTo(n) /\ n <= e /\ e <= FspSize /\ e - n <= FspSpace /\ (e = n => n = FspSize)
                         /\ (e - n < FspSpace => e = FspSize)
    BY <1>3, UpToIs
  <2>2. data = Part(n, e)
    BY <1>1, <1>4, <1>6, <2>1 DEF Heard
  <2>3. PICK d \in Nat : d = e - n /\ d = Len(data)
    BY <2>1, <2>2, PartLen
  <2>4. PICK all \in FspBytes : all = job.part \o data /\ all = Part(0, e) /\ Len(all) = e
    <3>1. PICK z \in Nat : z = 0
      OBVIOUS
    <3>2. z <= n /\ z <= e /\ e - z = e
      BY <3>1
    <3>3. Part(z, n) \o Part(n, e) = Part(z, e)
      BY <2>1, <3>2, PartCat
    <3>4. Part(z, e) \in FspBytes /\ Len(Part(z, e)) = e
      BY <2>1, <3>2, PartType, PartLen
    <3> QED
      BY <1>4, <2>2, <3>1, <3>3, <3>4
  <2>5. PICK first \in Nat : /\ first = UpTo(0) /\ first <= FspSpace /\ first > 0
                             /\ first \in 0..FspSpace
    <3>1. PICK z \in 0..FspSize : z = 0
      BY Sizes
    <3>2. UpTo(z) \in Nat /\ z <= UpTo(z) /\ UpTo(z) - z <= FspSpace /\ (UpTo(z) = z => z = FspSize)
      BY UpToIs
    <3> QED
      BY <3>1, <3>2, Sizes
  <2>6. PICK block \in Nat : block = (IF job.block = 0 THEN Len(data) ELSE job.block) /\ block = first
    <3>1. CASE job.block = 0
      <4>1. n = 0
        BY <1>3, <1>4, <3>1
      <4>2. e = first /\ d = e
        BY <2>1, <2>3, <2>5, <4>1
      <4> QED
        BY <2>3, <3>1, <4>2
    <3>2. CASE job.block # 0
      BY <1>4, <2>5, <3>2
    <3> QED
      BY <3>1, <3>2
  <2>7. CASE data # <<>> /\ d >= block
    <3>1. PICK j \in JobType : /\ j = [job EXCEPT !.part = all, !.block = block] /\ On(j) /\ j.op = "list"
                               /\ j.part = all /\ j.block = first
      <4> DEFINE j == [job EXCEPT !.part = all, !.block = block]
      <4>1. j \in JobType /\ On(j) /\ j.op = "list" /\ j.part = all /\ j.block = first
        BY <1>2, <2>5, <2>6 DEF JobType, On
      <4> QED
        BY <4>1
    <3>2. PICK w \in FspPurposes \cap FspCommands : w = "dir"
      BY DEF FspPurposes, FspCommands, FspAsked
    <3>3. PICK none \in FspBytes : none = <<>>
      BY NoBytes
    <3>4. PICK c \in CallType : c = FspAsks(w, w, e, none) /\ c.for = "dir" /\ c.cmd = "dir" /\ c.pos = e
      <4>1. e \in 0..FspSize
        BY <2>1, Sizes
      <4> QED
        BY <3>2, <4>1, AsksIs
    <3>5. FspDirDone(job, ok, data) = FspOut(FspNoFile, j, c)
      BY <1>1, <1>6, <2>3, <2>4, <2>6, <2>7, <3>1, <3>2, <3>3, <3>4 DEF FspDirDone
    <3>6. CallInv(FspNoFile, j, c)
      BY <3>1, <3>4, NothingIs DEF CallInv, Fits, CmdFits, Moves, On
    <3>7. ListInv(j, c)
      BY <2>4, <2>5, <3>1, <3>4 DEF ListInv, On, Whole
    <3>8. GotInv(j) /\ GetInv(FspNoFile, j, c) /\ PutInv(FspNoFile, j, c)
      BY <3>1, <3>4, NothingIs DEF GotInv, GetInv, PutInv
    <3>9. ClientInv(FspNoFile, j, c)
      BY <3>6, <3>7, <3>8, NothingIs DEF ClientInv
    <3>10. OutOk(s, FspOut(FspNoFile, j, c), fspNet, fspServer)
      BY <3>4, <3>9, MildOk DEF Harmful
    <3> QED
      BY <3>5, <3>10
  <2>8. CASE ~(data # <<>> /\ d >= block)
    <3>1. e = FspSize
      <4>1. CASE data = <<>>
        <5>1. Part(n, e) = <<>> <=> n = e
          BY <2>1, PartEmpty
        <5> QED
          BY <2>1, <2>2, <4>1, <5>1
      <4>2. CASE d < block
        BY <2>1, <2>3, <2>5, <2>6, <4>2, Sizes
      <4> QED
        BY <2>8, <4>1, <4>2
    <3>2. PICK j \in JobType : j = [job EXCEPT !.got = all] /\ j.op = "list" /\ j.got = Part(0, FspSize)
      <4> DEFINE j == [job EXCEPT !.got = all]
      <4>1. j \in JobType /\ j.op = "list" /\ j.got = Part(0, FspSize)
        BY <1>2, <2>4, <3>1 DEF JobType
      <4> QED
        BY <4>1
    <3>3. PICK ret \in {"none", "ok", "retry", "fatal"} : ret = "ok"
      OBVIOUS
    <3>4. OutOk(s, FspReturn(FspNoFile, j, ret), fspNet, fspServer)
      BY <1>6, <3>2, ReturnOk DEF Heard
    <3>5. FspDirDone(job, ok, data) = FspReturn(FspNoFile, j, ret)
      BY <1>1, <1>6, <2>3, <2>4, <2>6, <2>8, <3>2, <3>3 DEF FspDirDone
    <3> QED
      BY <3>4, <3>5
  <2> QED
    BY <2>7, <2>8
<1> QED
  BY <1>1, <1>5, <1>6

\* The file while it is written
LEMMA WritesNow ==
  ASSUME NEW s, NEW ok, NEW data, Heard(s, ok, data), NEW job, Tells(job, ok),
         fspCall.for \in {"write", "flush", "install", "cancel"}
  PROVE  /\ fspFile \in FileType /\ fspFile.open /\ fspFile.writing /\ ~fspFile.eof /\ Held(fspFile)
         /\ On(job) /\ job \in JobType /\ job.op = fspJob.op /\ job.op \in {"put", "abort", "close"}
         /\ \A p \in fspNet : PacketOk(p)
<1>1. fspJob.op \in {"put", "abort", "close"}
  BY AtWork DEF Heard, Fits
<1>2. fspFile.open /\ fspFile.writing /\ ~fspFile.eof
  BY <1>1, AtWork DEF Heard, CallInv, Moves
<1> QED
  BY <1>1, <1>2, AtWork, NetFacts DEF Heard, PutInv, Tells, On

\* What can still undo a block that was answered
LEMMA AfterAnswer ==
  ASSUME NEW s, NEW data, Heard(s, TRUE, data), Harmful(fspCall), NEW q \in ToServer(fspNet), Harmful(q), q.late
  PROVE  q.cmd = "write" /\ q.key >= 1
         /\ \/ fspCall.cmd = "write" /\ q.pos = fspCall.pos /\ q.data = fspCall.data
            \/ q.key = 2
<1>1. FspRequest(fspSession, fspCall) \in fspNet
  BY DEF Heard, FspInv, NetInv
<1>2. PICK r \in ToServer(fspNet) : /\ r = FspRequest(fspSession, fspCall) /\ ~r.late /\ r.cmd = fspCall.cmd
                                    /\ r.pos = fspCall.pos /\ r.data = fspCall.data
  BY <1>1 DEF ToServer, FspRequest
<1>3. r.key >= 1 /\ q.key >= 1
  BY <1>2 DEF Heard
<1>4. Follows(r, q)
  BY <1>2, NetFacts DEF Heard, PairsInv
<1> QED
  BY <1>2, <1>3, <1>4 DEF Follows, Harmful, Same, Outdates

\* fsp_fwrite(), the reply being there
LEMMA WriteDoneOk ==
  ASSUME NEW s, NEW ok, NEW data, Heard(s, ok, data), NEW job, Tells(job, ok), fspCall.for = "write"
  PROVE  OutOk(s, FspWriteDone(job, ok), fspNet, fspServer)
<1>1. /\ fspFile \in FileType /\ fspFile.open /\ fspFile.writing /\ ~fspFile.eof /\ Held(fspFile)
      /\ On(job) /\ job \in JobType /\ job.op = "put" /\ \A p \in fspNet : PacketOk(p)
  BY WritesNow, AtWork DEF Heard, Fits
<1>2. /\ Fills(fspFile, fspJob) /\ fspFile.buf # <<>> /\ fspCall.pos = fspFile.pos /\ fspCall.data = fspFile.buf
      /\ fspCall.cmd = "write" /\ ok \in BOOLEAN
  BY <1>1, AtWork DEF Heard, PutInv, CmdFits
<1>3. PICK p \in Nat : p = fspFile.pos /\ p \in 0..FspSize
  BY <1>1, Sizes DEF FileType
<1>4. PICK n \in Nat : n = Len(fspFile.buf) /\ n > 0
  BY <1>1, <1>2, BytesSeq DEF FileType
<1>5. PICK z \in Nat : z = job.from /\ z \in 0..FspSize
  BY <1>1, Sizes DEF JobType
<1>6. PICK e \in Nat : e = p + n /\ p < e
  BY <1>4
<1>7. e <= z /\ job.part = Part(e, z) /\ e <= FspSize /\ e \in 0..FspSize
  <2>1. e <= z /\ job.part = Part(e, z)
    BY <1>2, <1>3, <1>4, <1>5, <1>6 DEF Fills, Tells
  <2> QED
    BY <1>5, <2>1, Sizes
<1>8. PICK none \in FspBytes : none = <<>> /\ none = Part(e, e) /\ Len(none) = 0
  BY NoBytes, PartNone
<1>9. CASE ok
  <2>1. PICK f \in FileType : /\ f = [fspFile EXCEPT !.buf = <<>>, !.pos = @ + Len(fspFile.buf)]
                              /\ f.open /\ f.writing /\ ~f.eof /\ f.pos = e /\ f.buf = none
    <3> DEFINE f == [fspFile EXCEPT !.buf = none, !.pos = e]
    <3>1. f \in FileType /\ f.open /\ f.writing /\ ~f.eof /\ f.pos = e /\ f.buf = none
      BY <1>1, <1>7 DEF FileType
    <3>2. fspFile.pos + Len(fspFile.buf) = e
      BY <1>3, <1>4, <1>6
    <3>3. f = [fspFile EXCEPT !.buf = <<>>, !.pos = @ + Len(fspFile.buf)]
      BY <1>8, <3>2
    <3> QED
      BY <3>1, <3>3
  <2>2. Held(f)
    BY <1>7, <1>8, <2>1 DEF Held
  <2>3. Heard(s, TRUE, data) /\ s.key = 0 /\ fspServer.obeyed /\ \A q \in ToServer(fspNet) : q.key >= 1
    BY <1>9 DEF Heard
  <2>4. Len(fspServer.tmp) = e
    BY <1>3, <1>4, <1>6, <2>3 DEF Heard, FspInv, ServerInv, BlockInv
  <2>5. ASSUME NEW q \in Old(fspNet) PROVE q.key = 2
    <3>1. q \in ToServer(fspNet) /\ q.late /\ Harmful(q) /\ q \in fspNet /\ q.to = "server" /\ PacketOk(q)
      BY <2>5, NetFacts DEF Old, ToServer, Heard
    <3>2. End(q) = p
      BY <1>3, <2>5 DEF Heard, FspInv, ServerInv, BlockInv
    <3>3. q.cmd = "write" /\ (q.pos = p \/ q.key = 2)
      BY <1>2, <1>3, <2>3, <3>1, AfterAnswer DEF Harmful
    <3>4. q.pos < End(q)
      BY <3>1, <3>3, BlockFacts
    <3> QED
      BY <3>2, <3>3, <3>4, <1>3
  <2>6. ASSUME NEW q \in New(fspNet) PROVE q.cmd = "write" /\ End(q) = e
    <3>1. q.cmd = "write" /\ q.pos = fspFile.pos /\ q.data = fspFile.buf
      BY <1>2, <2>6, FreshIs DEF New, ToServer, Heard
    <3> QED
      BY <1>3, <1>4, <1>6, <3>1 DEF End
  <2>7. Settled(s, f, fspNet, fspServer)
    BY <2>1, <2>3, <2>4, <2>5, <2>6 DEF Settled
  <2>8. Writing(s, f, job, fspNet, fspServer)
    BY <1>1, <2>1, <2>2, <2>7 DEF Writing
  <2>9. Copies(f, job, job.part)
    <3>1. e + 0 = e /\ 0 < FspSpace
      BY Sizes
    <3> QED
      BY <1>5, <1>7, <1>8, <2>1, <3>1 DEF Copies
  <2>10. OutOk(s, FspFwrite(f, job, job.part), fspNet, fspServer)
    BY <1>1, <2>8, <2>9, FwriteOk
  <2> QED
    BY <1>9, <2>1, <2>10 DEF FspWriteDone
<1>10. CASE ~ok
  <2>1. PICK j \in JobType : /\ j = [job EXCEPT !.part = none] /\ On(j) /\ j.op = "put" /\ ~j.clean
    <3> DEFINE j == [job EXCEPT !.part = none]
    <3>1. j \in JobType /\ On(j) /\ j.op = "put" /\ j.clean = job.clean
      BY <1>1 DEF JobType, On
    <3> QED
      BY <1>10, <3>1 DEF Tells
  <2>2. PICK w \in FspPurposes : w = "flush"
    BY DEF FspPurposes
  <2>3. PICK m \in FspCommands : m = "write"
    BY DEF FspCommands, FspAsked
  <2>4. PICK b \in FspBytes : b = fspFile.buf
    BY <1>1 DEF FileType
  <2>5. PICK c \in CallType : /\ c = FspAsks(w, m, p, b) /\ c.for = "flush" /\ c.cmd = "write"
                              /\ c.pos = p /\ c.data = b
    BY <1>3, <2>2, <2>3, AsksIs
  <2>6. FspWriteDone(job, ok) = FspOut(fspFile, j, c)
    BY <1>1, <1>2, <1>3, <1>8, <1>10, <2>1, <2>2, <2>3, <2>4, <2>5 DEF FspWriteDone, FspRound, FspClose, FspFlush
  <2>7. PutInv(fspFile, j, c)
    BY <1>1, <1>2, <1>3, <2>1, <2>4, <2>5 DEF PutInv
  <2>8. ClientInv(fspFile, j, c)
    BY <1>1, <2>1, <2>5, <2>7, WritingOk DEF Fits, CmdFits
  <2>9. ASSUME NEW q \in New(fspNet) PROVE Follows(FspRequest(s, c), q)
    <3>1. q.cmd = "write" /\ q.pos = fspFile.pos /\ q.data = fspFile.buf
      BY <1>2, <2>9, FreshIs DEF New, ToServer, Heard
    <3> QED
      BY <1>3, <2>4, <2>5, <3>1 DEF Follows, Same, FspRequest
  <2>10. Laid(fspFile, fspServer)
    BY DEF Heard, FspInv, ServerInv, BlockInv, Laid
  <2>11. AskOk(s, fspFile, j, c, fspNet, fspServer)
    BY <2>5, <2>9, <2>10 DEF AskOk, Ready
  <2>12. OutOk(s, FspOut(fspFile, j, c), fspNet, fspServer)
    BY <2>5, <2>8, <2>11, OutIs, NothingIs DEF OutOk
  <2> QED
    BY <2>6, <2>12
<1> QED
  BY <1>2, <1>9, <1>10

\* fsp_fflush(), the reply being there
LEMMA FlushDoneOk ==
  ASSUME NEW s, NEW ok, NEW data, Heard(s, ok, data), NEW job, Tells(job, ok), fspCall.for = "flush"
  PROVE  OutOk(s, FspFlushDone(job, ok), fspNet, fspServer)
<1>1. /\ fspFile \in FileType /\ fspFile.open /\ fspFile.writing /\ ~fspFile.eof /\ Held(fspFile)
      /\ On(job) /\ job \in JobType /\ job.op = fspJob.op /\ job.op \in {"put", "abort", "close"}
      /\ \A p \in fspNet : PacketOk(p)
  BY WritesNow
<1>2. /\ fspCall.pos = fspFile.pos /\ fspCall.data = fspFile.buf /\ fspCall.cmd = "write" /\ ok \in BOOLEAN
      /\ fspJob.op = "put" /\ fspJob.clean => fspFile.pos + Len(fspFile.buf) = FspSize
      /\ fspJob.op = "abort" => fspFile.pos = 0
  BY <1>1, AtWork DEF Heard, PutInv, CmdFits
<1>3. CASE ~ok
  <2>1. ~job.clean
    BY <1>3 DEF Tells
  <2>2. PICK no \in BOOLEAN : no = FALSE
    OBVIOUS
  <2>3. OutOk(s, FspClosed(job, no), fspNet, fspServer)
    BY <1>1, <2>2, ClosedOk
  <2>4. FspFlushDone(job, ok) = FspClosed(job, no)
    BY <1>3, <2>2 DEF FspFlushDone
  <2> QED
    BY <2>3, <2>4
<1>4. CASE ok
  <2>1. PICK p \in Nat : p = fspFile.pos /\ p <= FspSize
    BY <1>1, Sizes DEF FileType
  <2>2. PICK none \in FspBytes : none = <<>> /\ none = Part(p, p) /\ Len(none) = 0
    BY NoBytes, PartNone
  <2>3. PICK f \in FileType : /\ f = [fspFile EXCEPT !.buf = <<>>]
                              /\ f.open /\ f.writing /\ ~f.eof /\ f.pos = p /\ f.buf = none
    <3> DEFINE f == [fspFile EXCEPT !.buf = none]
    <3>1. f \in FileType /\ f.open /\ f.writing /\ ~f.eof /\ f.pos = p /\ f.buf = none
      BY <1>1, <2>1 DEF FileType
    <3> QED
      BY <2>2, <3>1
  <2>4. PICK z \in 0..FspSize : z = 0
    BY Sizes
  <2>5. PICK w \in FspPurposes \cap FspCommands : w = "install"
    BY DEF FspPurposes, FspCommands, FspAsked
  <2>6. PICK c \in CallType : c = FspAsks(w, w, z, none) /\ c.for = "install" /\ c.cmd = "install"
    BY <2>5, AsksIs
  <2>7. FspFlushDone(job, ok) = FspOut(f, job, c)
    BY <1>4, <2>2, <2>3, <2>4, <2>5, <2>6 DEF FspFlushDone, FspInstall
  <2>8. PutInv(f, job, c)
    <3>1. p + 0 = p
      OBVIOUS
    <3>2. Held(f)
      BY <2>1, <2>2, <2>3, <3>1 DEF Held
    <3> QED
      BY <1>1, <1>2, <2>1, <2>3, <2>6, <3>2 DEF PutInv
  <2>9. ClientInv(f, job, c)
    BY <1>1, <2>3, <2>6, <2>8, WritingOk DEF Fits, CmdFits
  <2>10. s.key = 0 /\ fspServer.obeyed /\ \A q \in ToServer(fspNet) : q.key >= 1
    BY <1>4 DEF Heard
  <2>11. ASSUME NEW q \in New(fspNet)
         PROVE  Follows(FspRequest(s, c), q) /\ End(q) = fspFile.pos + Len(fspFile.buf)
    <3>1. q.cmd = "write" /\ q.pos = fspFile.pos /\ q.data = fspFile.buf /\ q.key >= 1
      BY <1>2, <2>10, <2>11, FreshIs DEF New, ToServer, Heard
    <3>2. FspRequest(s, c).cmd = "install" /\ FspRequest(s, c).key = 0
      BY <2>6, <2>10 DEF FspRequest
    <3> QED
      BY <3>1, <3>2 DEF Follows, Outdates, End
  <2>12. Len(fspServer.tmp) = fspFile.pos + Len(fspFile.buf)
    BY <2>10 DEF Heard, FspInv, ServerInv, BlockInv
  <2>13. Ready(job, c) => fspFile.pos + Len(fspFile.buf) = FspSize
    BY <1>1, <1>2 DEF Ready, Tells
  <2>14. AskOk(s, f, job, c, fspNet, fspServer)
    BY <2>6, <2>11, <2>12, <2>13 DEF AskOk
  <2>15. OutOk(s, FspOut(f, job, c), fspNet, fspServer)
    BY <2>6, <2>9, <2>14, OutIs, NothingIs DEF OutOk
  <2> QED
    BY <2>7, <2>15
<1> QED
  BY <1>2, <1>3, <1>4

\* fsp_install(), the reply being there
LEMMA InstallDoneOk ==
  ASSUME NEW s, NEW ok, NEW data, Heard(s, ok, data), NEW job, Tells(job, ok), fspCall.for = "install"
  PROVE  OutOk(s, FspClosed(job, ok), fspNet, fspServer)
<1>1. On(job) /\ job.op = fspJob.op /\ job.op \in {"put", "abort", "close"} /\ ok \in BOOLEAN
  BY WritesNow DEF Heard
<1>2. fspCall.cmd = "install"
  BY AtWork DEF Heard, CmdFits
<1>3. ASSUME job.op = "put", ok, job.clean
      PROVE  /\ fspServer.obeyed /\ Named(fspServer)
             /\ \A p \in ToServer(fspNet) : Harmful(p) /\ p.key < 2 => p.cmd = "install"
  <2>1. Heard(s, TRUE, data) /\ fspServer.obeyed
    BY <1>3 DEF Heard
  <2>2. Ready(fspJob, fspCall)
    BY <1>1, <1>3 DEF Ready, Tells
  <2>3. Named(fspServer)
    BY <2>1, <2>2 DEF Heard, FspInv, ServerInv, InstallInv
  <2>4. ASSUME NEW p \in ToServer(fspNet), Harmful(p), p.key < 2 PROVE p.cmd = "install"
    <3>1. CASE p.late
      <4>1. p.key = 2
        BY <1>2, <2>1, <2>4, <3>1, AfterAnswer DEF Harmful
      <4> QED
        BY <2>4, <4>1
    <3>2. CASE ~p.late
      BY <1>2, <2>4, <3>2, FreshIs DEF Heard
    <3> QED
      BY <3>1, <3>2
  <2> QED
    BY <2>1, <2>3, <2>4
<1> QED
  BY <1>1, <1>3, ClosedOk

\* fsp_abort_transfer(), the reply being there
LEMMA CancelledOk ==
  ASSUME NEW s, NEW ok, NEW data, Heard(s, ok, data), NEW job, Tells(job, ok), fspCall.for = "cancel"
  PROVE  OutOk(s, FspCancelled(job), fspNet, fspServer)
<1>1. On(job) /\ job.op = "abort" /\ fspFile \in FileType
  BY WritesNow, AtWork DEF Heard, Fits
<1>2. PICK yes \in BOOLEAN : yes = TRUE
  OBVIOUS
<1>3. OutOk(s, FspClosed(job, yes), fspNet, fspServer)
  BY <1>1, ClosedOk
<1>4. ~[fspFile EXCEPT !.writing = FALSE].writing
  BY <1>1 DEF FileType
<1> QED
  BY <1>2, <1>3, <1>4 DEF FspCancelled, FspClose

\* fsp_disconnect(), the reply to BYE being there
LEMMA ByeOk ==
  ASSUME NEW s, NEW ok, NEW data, Heard(s, ok, data), NEW job, Tells(job, ok), fspCall.for = "bye"
  PROVE  OutOk(s, FspReturn(FspNoFile, job, "none"), fspNet, fspServer)
<1>1. job \in JobType /\ job.op = "close"
  BY AtWork DEF Heard, Fits, Tells, On
<1>2. PICK ret \in {"none", "ok", "retry", "fatal"} : ret = "none"
  OBVIOUS
<1>3. OutOk(s, FspReturn(FspNoFile, job, ret), fspNet, fspServer)
  BY <1>1, <1>2, ReturnOk
<1> QED
  BY <1>2, <1>3

-----------------------------------------------------------------------------
(* Steps of the client *)

\* Whatever a transaction was for
LEMMA OutcomesOk ==
  ASSUME NEW s, NEW ok, NEW data, Heard(s, ok, data), ok \/ data = <<>>, NEW o \in FspOutcomes(ok, data)
  PROVE  OutOk(s, o, fspNet, fspServer)
<1>1. PICK job : job = [fspJob EXCEPT !.clean = @ /\ ok] /\ Tells(job, ok)
  BY TellsIs DEF Heard
<1>2. fspCall.for \in FspPurposes \ {"none"}
  BY AtWork DEF Heard, CallType
<1>3. CASE fspCall.for = "read"
  <2>1. o = FspReadDone(job, ok, data)
    BY <1>1, <1>3 DEF FspOutcomes
  <2> QED
    BY <1>1, <1>3, <2>1, ReadDoneOk
<1>4. CASE fspCall.for = "dir"
  <2>1. o = FspDirDone(job, ok, data)
    BY <1>1, <1>4 DEF FspOutcomes
  <2> QED
    BY <1>1, <1>4, <2>1, DirDoneOk
<1>5. CASE fspCall.for = "stat"
  <2>1. o = FspStated(job, ok)
    BY <1>1, <1>5 DEF FspOutcomes
  <2> QED
    BY <1>1, <1>5, <2>1, StatedOk
<1>6. CASE fspCall.for = "pro"
  <2>1. o \in FspAllowed(job, ok)
    BY <1>1, <1>6 DEF FspOutcomes
  <2> QED
    BY <1>1, <1>6, <2>1, AllowedOk
<1>7. CASE fspCall.for = "exists"
  <2>1. o = FspAbsent(job, ok)
    BY <1>1, <1>7 DEF FspOutcomes
  <2> QED
    BY <1>1, <1>7, <2>1, AbsentOk
<1>8. CASE fspCall.for = "write"
  <2>1. o = FspWriteDone(job, ok)
    BY <1>1, <1>8 DEF FspOutcomes
  <2> QED
    BY <1>1, <1>8, <2>1, WriteDoneOk
<1>9. CASE fspCall.for = "flush"
  <2>1. o = FspFlushDone(job, ok)
    BY <1>1, <1>9 DEF FspOutcomes
  <2> QED
    BY <1>1, <1>9, <2>1, FlushDoneOk
<1>10. CASE fspCall.for = "install"
  <2>1. o = FspClosed(job, ok)
    BY <1>1, <1>10 DEF FspOutcomes
  <2> QED
    BY <1>1, <1>10, <2>1, InstallDoneOk
<1>11. CASE fspCall.for = "cancel"
  <2>1. o = FspCancelled(job)
    BY <1>1, <1>11 DEF FspOutcomes
  <2> QED
    BY <1>1, <1>11, <2>1, CancelledOk
<1>12. CASE fspCall.for = "simple"
  <2>1. o = FspSimpleDone(job, ok)
    BY <1>1, <1>12 DEF FspOutcomes
  <2> QED
    BY <1>1, <1>12, <2>1, SimpleOk
<1>13. CASE fspCall.for = "bye"
  <2>1. o = FspReturn(FspNoFile, job, "none")
    BY <1>1, <1>13 DEF FspOutcomes
  <2> QED
    BY <1>1, <1>13, <2>1, ByeOk
<1> QED
  BY <1>2, <1>3, <1>4, <1>5, <1>6, <1>7, <1>8, <1>9, <1>10, <1>11, <1>12, <1>13
     DEF FspPurposes, FspCommands, FspAsked

\* The session after a transaction
LEMMA AfterIs ==
  ASSUME NEW s \in SessionType
  PROVE  FspAfter(s) \in SessionType /\ FspAfter(s).seq = s.seq /\ FspAfter(s).key = s.key
BY DEF FspAfter, SessionType

\* fsp_transaction(): a reply
LEMMA ReceiveStep ==
  ASSUME FspInv, FspReceive
  PROVE  FspInv'
<1>1. PICK p \in fspNet :
        /\ fspCall.for # "none" /\ p.to = "client" /\ FspMatches(p)
        /\ \E o \in FspOutcomes(~p.err, p.data) : FspApply(FspAfter([fspSession EXCEPT !.key = p.key]), o)
  BY DEF FspReceive
<1>2. PacketOk(p) /\ ~p.late /\ p.data \in FspBytes
  <2>1. p.seq = fspSession.seq
    BY <1>1 DEF FspMatches
  <2>2. PacketOk(p) /\ (p.late <=> p.seq # fspSession.seq)
    BY NetFacts
  <2> QED
    BY <2>1, <2>2, PacketFields
<1>3. p.key = 0 /\ (~p.err => fspServer.obeyed) /\ \A q \in ToServer(fspNet) : q.key >= 1
  BY <1>1, <1>2, NetFacts DEF RepliesInv
<1>4. PICK t \in SessionType : t = [fspSession EXCEPT !.key = p.key] /\ t.seq = fspSession.seq /\ t.key = 0
  <2> DEFINE t == [fspSession EXCEPT !.key = p.key]
  <2>1. t \in SessionType /\ t.seq = fspSession.seq /\ t.key = 0
    BY <1>3, NetFacts DEF SessionType
  <2> QED
    BY <2>1
<1>5. PICK s \in SessionType : s = FspAfter(t) /\ s.seq = fspSession.seq /\ s.key = 0
  BY <1>4, AfterIs
<1>6. PICK ok \in BOOLEAN : ok <=> ~p.err
  OBVIOUS
<1>7. ok \/ p.data = <<>>
  BY <1>1, <1>2, <1>6 DEF PacketOk
<1>8. ok /\ fspCall.cmd \in {"read", "dir"} => p.data = Part(fspCall.pos, UpTo(fspCall.pos))
  <2> SUFFICES ASSUME ok, fspCall.cmd \in {"read", "dir"} PROVE p.data = Part(fspCall.pos, UpTo(fspCall.pos))
    OBVIOUS
  <2>1. p.cmd = fspCall.cmd /\ p.pos = fspCall.pos
    BY <1>1, <1>6 DEF FspMatches, FspAsked
  <2> QED
    BY <1>1, <1>2, <1>6, <2>1 DEF PacketOk
<1>9. Heard(s, ok, p.data)
  BY <1>1, <1>2, <1>3, <1>5, <1>6, <1>8 DEF Heard
<1>10. PICK o \in FspOutcomes(ok, p.data) : FspApply(s, o)
  <2>1. p.err \in BOOLEAN
    BY <1>2, PacketFields
  <2>2. ok = (~p.err)
    BY <1>6, <2>1
  <2> QED
    BY <1>1, <1>4, <1>5, <2>2
<1>11. OutOk(s, o, fspNet, fspServer)
  BY <1>7, <1>9, OutcomesOk
<1>12. Keyed(s, fspNet)
  BY <1>5 DEF Keyed
<1> QED
  BY <1>5, <1>10, <1>11, <1>12, Applied

\* fsp_transaction(): s->timeout is over.
LEMMA TimeoutStep ==
  ASSUME FspInv, FspTimeout
  PROVE  FspInv'
<1>1. fspCall.for # "none" /\ \E o \in FspOutcomes(FALSE, <<>>) : FspApply(FspAfter(fspSession), o)
  BY DEF FspTimeout
<1>2. PICK s \in SessionType : s = FspAfter(fspSession) /\ s.seq = fspSession.seq /\ s.key = fspSession.key
  BY NetFacts, AfterIs
<1>3. PICK no \in BOOLEAN : no = FALSE
  OBVIOUS
<1>4. PICK none \in FspBytes : none = <<>>
  BY NoBytes
<1>5. Heard(s, no, none)
  BY <1>1, <1>2, <1>3, <1>4 DEF Heard
<1>6. PICK o \in FspOutcomes(no, none) : FspApply(s, o)
  BY <1>1, <1>2, <1>3, <1>4
<1>7. OutOk(s, o, fspNet, fspServer)
  BY <1>4, <1>5, OutcomesOk
<1>8. Keyed(s, fspNet)
  BY <1>2, NetFacts DEF Keyed
<1> QED
  BY <1>2, <1>6, <1>7, <1>8, Applied

\* fsp_transaction(): the request again, which may be out already.
LEMMA ResendStep ==
  ASSUME FspInv, FspResend
  PROVE  FspInv'
<1>1. /\ fspCall.for # "none" /\ fspCall.sends < FspSends /\ fspCall' = [fspCall EXCEPT !.sends = @ + 1]
      /\ fspNet' = fspNet \cup {FspRequest(fspSession, fspCall)}
      /\ fspSession' = fspSession /\ fspFile' = fspFile /\ fspJob' = fspJob /\ fspServer' = fspServer
  BY DEF FspResend
<1>2. fspNet' = fspNet
  BY <1>1 DEF FspInv, NetInv
<1>3. PICK c \in CallType : /\ c = fspCall' /\ c.for = fspCall.for /\ c.cmd = fspCall.cmd /\ c.pos = fspCall.pos
                            /\ c.data = fspCall.data
  <2> DEFINE c == [fspCall EXCEPT !.sends = @ + 1]
  <2>1. fspCall \in CallType
    BY <1>1, AtWork
  <2>2. fspCall.sends + 1 \in 0..FspSends
    BY <1>1, <2>1, Sizes DEF CallType
  <2>3. c \in CallType /\ c.for = fspCall.for /\ c.cmd = fspCall.cmd /\ c.pos = fspCall.pos /\ c.data = fspCall.data
    BY <2>1, <2>2 DEF CallType
  <2> QED
    BY <1>1, <2>3
<1>4. FspRequest(fspSession, c) = FspRequest(fspSession, fspCall)
  BY <1>3 DEF FspRequest
<1>5. CallInv(fspFile, fspJob, c)
  BY <1>1, <1>3, AtWork DEF CallInv, Moves
<1>6. GetInv(fspFile, fspJob, c)
  BY <1>1, <1>3, AtWork DEF GetInv
<1>7. PutInv(fspFile, fspJob, c)
  BY <1>1, <1>3, AtWork DEF PutInv
<1>8. ListInv(fspJob, c)
  BY <1>1, <1>3, AtWork DEF ListInv
<1>9. ClientInv(fspFile, fspJob, c)
  BY <1>1, <1>3, <1>5, <1>6, <1>7, <1>8, AtWork DEF ClientInv
<1>10. NetInv(fspSession, c, fspNet, fspServer)
  BY <1>3, <1>4 DEF FspInv, NetInv
<1>11. ServerInv(fspSession, fspFile, fspJob, c, fspNet, fspServer)
  BY <1>3 DEF FspInv, ServerInv, BlockInv, InstallInv, Ready, MoveInv
<1> QED
  BY <1>1, <1>2, <1>3, <1>9, <1>10, <1>11 DEF FspInv

\* Every step of the client
LEMMA ClientStep ==
  ASSUME FspInv, FspClient
  PROVE  FspInv'
BY ReceiveStep, ResendStep, TimeoutStep DEF FspClient

-----------------------------------------------------------------------------
(* Steps of the caller *)

\* Before the first operation there is none.
LEMMA NoJobIs ==
  /\ FspNoJob \in JobType /\ ~FspNoJob.on /\ FspNoJob.op = "none" /\ FspNoJob.ret = "none"
  /\ FspNoJob.part = <<>> /\ FspNoJob.from = 0 /\ FspNoJob.got = <<>> /\ FspNoJob.block = 0
<1>1. PICK none \in FspBytes : none = <<>>
  BY NoBytes
<1>2. 0 \in 0..FspSize /\ 0 \in 0..FspSpace
  BY Sizes
<1>3. FspNoJob = [op |-> "none", on |-> FALSE, ret |-> "none", part |-> none, from |-> 0,
                  block |-> 0, got |-> none, clean |-> TRUE]
  BY <1>1 DEF FspNoJob
<1> QED
  BY <1>1, <1>2, <1>3 DEF JobType

\* A new operation has nothing yet.
NewJob(op, start) == [FspNoJob EXCEPT !.op = op, !.on = TRUE, !.from = start]
LEMMA NewJobIs ==
  ASSUME NEW op \in {"get", "put", "list", "simple"}, NEW start \in 0..FspSize
  PROVE  /\ NewJob(op, start) \in JobType /\ On(NewJob(op, start)) /\ NewJob(op, start).op = op
         /\ NewJob(op, start).from = start /\ NewJob(op, start).part = <<>> /\ NewJob(op, start).got = <<>>
         /\ NewJob(op, start).block = 0
<1>1. PICK n \in JobType : n = FspNoJob /\ n.ret = "none" /\ n.part = <<>> /\ n.got = <<>> /\ n.block = 0
  BY NoJobIs
<1> QED
  BY <1>1 DEF JobType, On, NewJob

\* The session goes on as it is.
LEMMA Onward ==
  ASSUME FspInv, NEW o, OutOk(fspSession, o, fspNet, fspServer), FspApply(fspSession, o)
  PROVE  FspInv'
BY NetFacts, Applied

\* Nobody uses the file between two operations.
LEMMA IdleFacts ==
  ASSUME FspInv, FspIdle
  PROVE  fspFile = FspNoFile /\ ~fspFile.open
<1>1. CallInv(fspFile, fspJob, fspCall) /\ ~fspJob.on /\ fspCall.for = "none"
  BY DEF FspInv, ClientInv, FspIdle
<1> QED
  BY <1>1, NothingIs DEF CallInv, Moves

\* An operation begins with a transaction that does no harm.
LEMMA BeginStep ==
  ASSUME FspInv, NEW op \in {"get", "put", "list", "simple"}, NEW for \in FspPurposes, NEW cmd \in FspCommands,
         NEW start \in {0, 1}, start < FspSize, FspCallOp(op, for, cmd, start),
         Fits(for, op), CmdFits(for, cmd), for \in {"stat", "pro", "dir", "simple"},
         cmd \in {"stat", "pro", "dir", "simple"}, op # "get" => start = 0
  PROVE  FspInv'
<1>1. start \in 0..FspSize /\ start \in Nat /\ start < FspSize
  BY Sizes
<1>2. PICK j \in JobType : /\ j = NewJob(op, start) /\ On(j) /\ j.op = op /\ j.from = start /\ j.part = <<>>
                           /\ j.got = <<>> /\ j.block = 0
  <2>1. PICK at \in 0..FspSize : at = start
    BY <1>1
  <2>2. /\ NewJob(op, at) \in JobType /\ On(NewJob(op, at)) /\ NewJob(op, at).op = op
        /\ NewJob(op, at).from = at /\ NewJob(op, at).part = <<>> /\ NewJob(op, at).got = <<>>
        /\ NewJob(op, at).block = 0
    BY NewJobIs
  <2> QED
    BY <2>1, <2>2
<1>3. PICK z \in Nat : z = 0 /\ z \in 0..FspSize
  BY Sizes
<1>4. PICK none \in FspBytes : none = <<>> /\ Len(none) = z /\ none = Part(z, z)
  BY <1>3, NoBytes
<1>5. PICK c \in CallType : c = FspAsks(for, cmd, z, none) /\ c.for = for /\ c.cmd = cmd /\ c.pos = z
  BY <1>3, AsksIs
<1>6. FspIdle /\ FspApply(fspSession, FspOut(FspNoFile, j, c))
  <2>1. FspIdle /\ FspApply(fspSession, FspOut(fspFile, j, FspAsks(for, cmd, z, none)))
    BY <1>2, <1>3, <1>4 DEF FspCallOp, NewJob
  <2> QED
    BY <1>5, <2>1, IdleFacts
<1>7. CallInv(FspNoFile, j, c)
  BY <1>2, <1>5, NothingIs DEF CallInv, Moves, On
<1>8. GotInv(j)
  <2>1. Part(start, start) = <<>> /\ start + z = start /\ start <= FspSize
    BY <1>1, <1>3, PartNone
  <2> QED
    BY <1>1, <1>2, <1>4, <2>1 DEF GotInv, On, Whole
<1>9. GetInv(FspNoFile, j, c) /\ PutInv(FspNoFile, j, c)
  BY <1>2, <1>5, NothingIs DEF GetInv, PutInv, Fits
<1>10. ListInv(j, c)
  BY <1>2, <1>3, <1>4, <1>5 DEF ListInv, On, Whole
<1>11. ClientInv(FspNoFile, j, c)
  BY <1>7, <1>8, <1>9, <1>10, NothingIs DEF ClientInv
<1>12. OutOk(fspSession, FspOut(FspNoFile, j, c), fspNet, fspServer)
  BY <1>5, <1>11, MildOk DEF Harmful
<1> QED
  BY <1>6, <1>12, Onward

\* fsp_connect(), fsp_open_session()
LEMMA ConnectStep ==
  ASSUME FspInv, FspConnect
  PROVE  FspInv'
<1>1. PICK s \in SessionType : /\ s = [fspSession EXCEPT !.up = TRUE] /\ s.seq = fspSession.seq
                               /\ s.key = fspSession.key
  <2> DEFINE s == [fspSession EXCEPT !.up = TRUE]
  <2>1. s \in SessionType /\ s.seq = fspSession.seq /\ s.key = fspSession.key
    BY NetFacts DEF SessionType
  <2> QED
    BY <2>1
<1>2. FspApply(s, FspOut(FspNoFile, FspNoJob, FspNothing))
  BY <1>1 DEF FspConnect
<1>3. FspNoJob \in JobType /\ ~FspNoJob.on /\ FspNoJob.op = "none" /\ FspNoJob.ret = "none"
  BY NoJobIs
<1>4. ClientInv(FspNoFile, FspNoJob, FspNothing)
  <2>1. CallInv(FspNoFile, FspNoJob, FspNothing)
    BY <1>3, NothingIs DEF CallInv, Moves
  <2>2. GotInv(FspNoJob) /\ ListInv(FspNoJob, FspNothing)
    BY <1>3 DEF GotInv, ListInv
  <2>3. GetInv(FspNoFile, FspNoJob, FspNothing) /\ PutInv(FspNoFile, FspNoJob, FspNothing)
    BY <1>3, NothingIs DEF GetInv, PutInv
  <2> QED
    BY <1>3, <2>1, <2>2, <2>3, NothingIs DEF ClientInv
<1>5. DoneInv(FspNoJob, fspNet, fspServer)
  BY <1>3 DEF DoneInv, Whole
<1>6. OutOk(s, FspOut(FspNoFile, FspNoJob, FspNothing), fspNet, fspServer)
  BY <1>4, <1>5, OutIs, NothingIs DEF OutOk, RestOk
<1>7. Keyed(s, fspNet)
  BY <1>1, NetFacts DEF Keyed
<1> QED
  BY <1>1, <1>2, <1>6, <1>7, Applied

\* fsp_get_file(), fsp_put_file(), fsp_list_files(), fsp_chdir() and the commands
LEMMA OpStep ==
  ASSUME FspInv, FspGetFile \/ FspPutFile \/ FspListFiles \/ FspChdir \/ FspCommand
  PROVE  FspInv'
<1>1. PICK z \in {0, 1} : z = 0 /\ z < FspSize
  BY Sizes
<1>2. /\ {"get", "put", "list", "simple"} \subseteq {"get", "put", "list", "simple"}
      /\ {"stat", "pro", "dir", "simple"} \subseteq FspPurposes /\ {"stat", "pro", "dir", "simple"} \subseteq FspCommands
  BY DEF FspPurposes, FspCommands, FspAsked
<1>3. PICK stat \in FspPurposes \cap FspCommands : stat = "stat"
  BY <1>2
<1>4. PICK pro \in FspPurposes \cap FspCommands : pro = "pro"
  BY <1>2
<1>5. PICK dir \in FspPurposes \cap FspCommands : dir = "dir"
  BY <1>2
<1>6. PICK simple \in FspPurposes \cap FspCommands : simple = "simple"
  BY <1>2
<1>7. CASE FspGetFile
  <2>1. PICK start \in {0, 1} : start < FspSize /\ FspCallOp("get", stat, stat, start)
    BY <1>3, <1>7 DEF FspGetFile
  <2>2. PICK op \in {"get", "put", "list", "simple"} : op = "get"
    OBVIOUS
  <2>3. FspCallOp(op, stat, stat, start)
    BY <2>1, <2>2
  <2> QED
    BY <1>3, <2>1, <2>2, <2>3, BeginStep DEF Fits, CmdFits
<1>8. CASE FspPutFile
  <2>1. PICK op \in {"get", "put", "list", "simple"} : op = "put"
    OBVIOUS
  <2>2. FspCallOp(op, pro, pro, z)
    BY <1>1, <1>4, <1>8, <2>1 DEF FspPutFile
  <2> QED
    BY <1>1, <1>4, <2>1, <2>2, BeginStep DEF Fits, CmdFits
<1>9. CASE FspListFiles
  <2>1. PICK op \in {"get", "put", "list", "simple"} : op = "list"
    OBVIOUS
  <2>2. FspCallOp(op, dir, dir, z)
    BY <1>1, <1>5, <1>9, <2>1 DEF FspListFiles
  <2> QED
    BY <1>1, <1>5, <2>1, <2>2, BeginStep DEF Fits, CmdFits
<1>10. CASE FspChdir
  <2>1. PICK op \in {"get", "put", "list", "simple"} : op = "simple"
    OBVIOUS
  <2>2. FspCallOp(op, simple, pro, z)
    BY <1>1, <1>4, <1>6, <1>10, <2>1 DEF FspChdir
  <2> QED
    BY <1>1, <1>4, <1>6, <2>1, <2>2, BeginStep DEF Fits, CmdFits
<1>11. CASE FspCommand
  <2>1. PICK op \in {"get", "put", "list", "simple"} : op = "simple"
    OBVIOUS
  <2>2. FspCallOp(op, simple, simple, z)
    BY <1>1, <1>6, <1>11, <2>1 DEF FspCommand
  <2> QED
    BY <1>1, <1>6, <2>1, <2>2, BeginStep DEF Fits, CmdFits
<1> QED
  BY <1>7, <1>8, <1>9, <1>10, <1>11

\* What is known between two rounds of the worker
LEMMA MovingFacts ==
  ASSUME FspInv, FspMoving
  PROVE  /\ On(fspJob) /\ fspJob \in JobType /\ fspFile \in FileType /\ fspJob.part = <<>>
         /\ fspFile.writing =>
              /\ fspJob.op = "put" /\ Writing(fspSession, fspFile, fspJob, fspNet, fspServer)
              /\ Fills(fspFile, fspJob) /\ Len(fspFile.buf) < FspSpace
         /\ ~fspFile.writing =>
              fspJob.op = "get" /\ Getting(fspFile, fspJob) /\ Goes(fspFile, fspJob, <<>>) /\ Ended(fspFile)
<1>1. fspJob.on /\ fspCall.for = "none" /\ fspFile.open /\ ClientInv(fspFile, fspJob, fspCall)
  BY DEF FspInv, FspMoving
<1>2. On(fspJob) /\ fspJob \in JobType /\ fspFile \in FileType /\ fspJob.op \in {"get", "put"}
  BY <1>1 DEF ClientInv, CallInv, Fits, On
<1>3. (fspFile.writing <=> fspJob.op # "get") /\ (fspJob.op # "get" => ~fspFile.eof)
  BY <1>1 DEF ClientInv, CallInv
<1>4. CASE fspFile.writing
  <2>1. fspJob.op = "put" /\ ~fspFile.eof
    BY <1>2, <1>3, <1>4
  <2>2. Held(fspFile) /\ Fills(fspFile, fspJob) /\ fspJob.part = <<>> /\ Len(fspFile.buf) < FspSpace
    BY <1>1, <1>4 DEF ClientInv, PutInv
  <2>3. Settled(fspSession, fspFile, fspNet, fspServer)
    BY <1>1, <1>4 DEF FspInv, ServerInv, MoveInv
  <2>4. Writing(fspSession, fspFile, fspJob, fspNet, fspServer)
    BY <1>1, <1>2, <1>4, <2>1, <2>2, <2>3, NetFacts DEF Writing
  <2> QED
    BY <1>2, <1>4, <2>1, <2>2, <2>4
<1>5. CASE ~fspFile.writing
  <2>1. fspJob.op = "get"
    BY <1>3, <1>5
  <2>2. Reads(fspFile, fspJob) /\ fspJob.part = <<>> /\ Ended(fspFile)
    BY <1>1, <2>1 DEF ClientInv, GetInv, Ended
  <2>3. Goes(fspFile, fspJob, fspJob.part)
    BY <1>2, <2>2 DEF Goes, Reads, JobType
  <2>4. Getting(fspFile, fspJob)
    BY <1>1, <1>2, <1>5, <2>1 DEF Getting, ClientInv, GotInv
  <2> QED
    BY <1>2, <1>5, <2>1, <2>2, <2>3, <2>4
<1> QED
  BY <1>4, <1>5

\* gftp_get_next_file_chunk()
LEMMA NextReadStep ==
  ASSUME FspInv, FspNextRead
  PROVE  FspInv'
<1>1. FspMoving /\ ~fspFile.writing
  BY DEF FspNextRead
<1>2. PICK none : none = <<>>
  OBVIOUS
<1>3. Getting(fspFile, fspJob) /\ Goes(fspFile, fspJob, none) /\ Ended(fspFile)
  BY <1>1, <1>2, MovingFacts
<1>4. OutOk(fspSession, FspFread(fspFile, fspJob, none), fspNet, fspServer)
  BY <1>2, <1>3, FreadOk
<1>5. FspApply(fspSession, FspFread(fspFile, fspJob, none))
  BY <1>2 DEF FspNextRead
<1> QED
  BY <1>4, <1>5, Onward

\* gftp_put_next_file_chunk(), or the end of the source
LEMMA NextWriteStep ==
  ASSUME FspInv, FspNextWrite
  PROVE  FspInv'
<1>1. FspMoving /\ fspFile.writing
  BY DEF FspNextWrite
<1>2. /\ On(fspJob) /\ fspJob \in JobType /\ fspFile \in FileType /\ fspJob.part = <<>> /\ fspJob.op = "put"
      /\ Writing(fspSession, fspFile, fspJob, fspNet, fspServer)
      /\ Fills(fspFile, fspJob) /\ Len(fspFile.buf) < FspSpace
  BY <1>1, MovingFacts
<1>3. PICK z \in Nat : z = fspJob.from /\ z <= FspSize
  BY <1>2, Sizes DEF JobType
<1>4. PICK e \in Nat : e = fspFile.pos + Len(fspFile.buf)
  <2>1. fspFile.pos \in Nat /\ Len(fspFile.buf) \in Nat
    BY <1>2, Sizes, BytesSeq DEF FileType
  <2> QED
    BY <2>1
<1>5. e = z
  <2>1. e <= z /\ fspJob.part = Part(e, z)
    BY <1>2, <1>3, <1>4 DEF Fills
  <2>2. Part(e, z) = <<>> <=> e = z
    BY <2>1, PartEmpty
  <2> QED
    BY <1>2, <2>1, <2>2
<1>6. CASE z = FspSize
  <2>1. FspApply(fspSession, FspFlush(fspFile, fspJob))
    BY <1>1, <1>3, <1>6 DEF FspNextWrite, FspClose
  <2>2. OutOk(fspSession, FspFlush(fspFile, fspJob), fspNet, fspServer)
    BY <1>2, <1>4, <1>5, <1>6, FlushOk
  <2> QED
    BY <2>1, <2>2, Onward
<1>7. CASE z # FspSize
  <2>1. PICK to \in Nat : /\ to = IF z + FspChunk < FspSize THEN z + FspChunk ELSE FspSize
                          /\ z <= to /\ to <= FspSize /\ to \in 0..FspSize
    BY <1>3, Sizes
  <2>2. PICK j \in JobType : /\ j = [fspJob EXCEPT !.from = to] /\ On(j) /\ j.op = "put" /\ j.from = to
    <3> DEFINE j == [fspJob EXCEPT !.from = to]
    <3>1. j \in JobType /\ On(j) /\ j.op = "put" /\ j.from = to
      BY <1>2, <2>1 DEF JobType, On
    <3> QED
      BY <3>1
  <2>3. PICK rest : rest = SubSeq(FspData, z + 1, to)
    OBVIOUS
  <2>4. rest = Part(z, to)
    <3>1. SubSeq(FspData, z + 1, to) = Part(z, to)
      BY <1>3, <2>1, PartOfData
    <3> QED
      BY <2>3, <3>1
  <2>5. FspApply(fspSession, FspFwrite(fspFile, j, rest))
    BY <1>3, <1>7, <2>1, <2>2, <2>3 DEF FspNextWrite
  <2>6. Writing(fspSession, fspFile, j, fspNet, fspServer)
    BY <1>2, <2>2 DEF Writing
  <2>7. Copies(fspFile, j, rest)
    BY <1>2, <1>4, <1>5, <2>1, <2>2, <2>4 DEF Copies
  <2>8. OutOk(fspSession, FspFwrite(fspFile, j, rest), fspNet, fspServer)
    BY <2>2, <2>6, <2>7, FwriteOk
  <2> QED
    BY <2>5, <2>8, Onward
<1> QED
  BY <1>6, <1>7

\* A transfer that is left closes its file.
LEMMA LeaveOk ==
  ASSUME FspInv, FspMoving, NEW op \in {"abort", "close"}, op = "abort" /\ fspFile.writing => fspFile.pos = 0
  PROVE  OutOk(fspSession, FspClose(fspFile, [fspJob EXCEPT !.op = op]), fspNet, fspServer)
<1>1. PICK j \in JobType : j = [fspJob EXCEPT !.op = op] /\ On(j) /\ j.op = op
  <2> DEFINE j == [fspJob EXCEPT !.op = op]
  <2>1. j \in JobType /\ On(j) /\ j.op = op
    BY MovingFacts DEF JobType, On
  <2> QED
    BY <2>1
<1>2. CASE fspFile.writing
  <2>1. Writing(fspSession, fspFile, j, fspNet, fspServer)
    BY <1>1, <1>2, MovingFacts DEF Writing
  <2>2. OutOk(fspSession, FspFlush(fspFile, j), fspNet, fspServer)
    BY <1>1, <1>2, <2>1, FlushOk
  <2> QED
    BY <1>1, <1>2, <2>2 DEF FspClose
<1>3. CASE ~fspFile.writing
  <2>1. PICK yes \in BOOLEAN : yes = TRUE
    OBVIOUS
  <2>2. OutOk(fspSession, FspClosed(j, yes), fspNet, fspServer)
    BY <1>1, ClosedOk
  <2> QED
    BY <1>1, <1>3, <2>1, <2>2 DEF FspClose
<1> QED
  BY <1>2, <1>3

\* fsp_abort_transfer()
LEMMA AbortStep ==
  ASSUME FspInv, FspAbort
  PROVE  FspInv'
<1>1. FspMoving /\ FspApply(fspSession, FspAborted(fspFile, [fspJob EXCEPT !.op = "abort"]))
  BY DEF FspAbort
<1>2. PICK op \in {"abort", "close"} : op = "abort"
  OBVIOUS
<1>3. PICK j \in JobType : j = [fspJob EXCEPT !.op = op] /\ On(j) /\ j.op = "abort"
  <2> DEFINE j == [fspJob EXCEPT !.op = op]
  <2>1. j \in JobType /\ On(j) /\ j.op = "abort"
    BY <1>1, <1>2, MovingFacts DEF JobType, On
  <2> QED
    BY <2>1
<1>4. CASE fspFile.writing /\ fspFile.pos > 0
  <2>1. PICK z \in 0..FspSize : z = 0
    BY Sizes
  <2>2. PICK none \in FspBytes : none = <<>>
    BY NoBytes
  <2>3. PICK w \in FspPurposes \cap FspCommands : w = "cancel"
    BY DEF FspPurposes, FspCommands
  <2>4. PICK c \in CallType : c = FspAsks(w, w, z, none) /\ c.for = "cancel" /\ c.cmd = "cancel"
    BY <2>3, AsksIs
  <2>5. FspApply(fspSession, FspOut(fspFile, j, c))
    BY <1>1, <1>2, <1>3, <1>4, <2>1, <2>2, <2>3, <2>4 DEF FspAborted
  <2>6. Writing(fspSession, fspFile, j, fspNet, fspServer)
    BY <1>1, <1>3, <1>4, MovingFacts DEF Writing
  <2>7. fspFile \in FileType /\ fspFile.open /\ fspFile.writing /\ ~fspFile.eof /\ Held(fspFile)
    BY <2>6 DEF Writing
  <2>8. PutInv(fspFile, j, c)
    BY <1>3, <1>4, <2>4, <2>7 DEF PutInv
  <2>9. ClientInv(fspFile, j, c)
    BY <1>3, <2>4, <2>7, <2>8, WritingOk DEF Fits, CmdFits
  <2>10. ASSUME NEW q \in New(fspNet) PROVE Follows(FspRequest(fspSession, c), q)
    BY <2>4, <2>6, <2>7, SettledFollows DEF Writing
  <2>11. AskOk(fspSession, fspFile, j, c, fspNet, fspServer)
    BY <2>4, <2>10 DEF AskOk, Ready
  <2>12. OutOk(fspSession, FspOut(fspFile, j, c), fspNet, fspServer)
    BY <2>4, <2>9, <2>11, OutIs, NothingIs DEF OutOk
  <2> QED
    BY <2>5, <2>12, Onward
<1>5. CASE ~(fspFile.writing /\ fspFile.pos > 0)
  <2>1. fspFile.writing => fspFile.pos = 0
    <3>1. fspFile.pos \in Nat
      BY <1>1, MovingFacts, Sizes DEF FileType
    <3> QED
      BY <1>5, <3>1
  <2>2. OutOk(fspSession, FspClose(fspFile, [fspJob EXCEPT !.op = op]), fspNet, fspServer)
    BY <1>1, <2>1, LeaveOk
  <2>3. FspApply(fspSession, FspClose(fspFile, j))
    BY <1>1, <1>2, <1>3, <1>5 DEF FspAborted
  <2> QED
    BY <1>3, <2>2, <2>3, Onward
<1> QED
  BY <1>4, <1>5

\* fsp_disconnect()
LEMMA DisconnectStep ==
  ASSUME FspInv, FspDisconnect
  PROVE  FspInv'
<1>1. CASE fspFile.open
  <2>1. FspMoving
    BY <1>1, IdleFacts DEF FspDisconnect
  <2>2. PICK op \in {"abort", "close"} : op = "close"
    OBVIOUS
  <2>3. FspApply(fspSession, FspClose(fspFile, [fspJob EXCEPT !.op = op]))
    BY <1>1, <2>2 DEF FspDisconnect
  <2>4. OutOk(fspSession, FspClose(fspFile, [fspJob EXCEPT !.op = op]), fspNet, fspServer)
    BY <2>1, <2>2, LeaveOk
  <2> QED
    BY <2>3, <2>4, Onward
<1>2. CASE ~fspFile.open
  <2>1. FspIdle
    BY <1>2 DEF FspDisconnect, FspMoving
  <2>2. PICK j \in JobType : j = [FspNoJob EXCEPT !.op = "close", !.on = TRUE] /\ On(j) /\ j.op = "close"
    <3>1. PICK n \in JobType : n = FspNoJob /\ n.ret = "none"
      BY NoJobIs
    <3> DEFINE j == [n EXCEPT !.op = "close", !.on = TRUE]
    <3>2. j \in JobType /\ On(j) /\ j.op = "close"
      BY <3>1 DEF JobType, On
    <3> QED
      BY <3>1, <3>2
  <2>3. PICK yes \in BOOLEAN : yes = TRUE
    OBVIOUS
  <2>4. FspApply(fspSession, FspOut(FspNoFile, j, FspBye))
    <3>1. FspApply(fspSession, FspOut(fspFile, [FspNoJob EXCEPT !.op = "close", !.on = TRUE], FspBye))
      BY <1>2 DEF FspDisconnect
    <3> QED
      BY <2>1, <2>2, <3>1, IdleFacts
  <2>5. FspClosed(j, yes) = FspOut(FspNoFile, j, FspBye)
    BY <2>2 DEF FspClosed
  <2>6. OutOk(fspSession, FspClosed(j, yes), fspNet, fspServer)
    BY <2>2, ClosedOk
  <2> QED
    BY <2>4, <2>5, <2>6, Onward
<1> QED
  BY <1>1, <1>2

\* Every step of the caller
LEMMA CallerStep ==
  ASSUME FspInv, FspCaller
  PROVE  FspInv'
BY ConnectStep, OpStep, NextReadStep, NextWriteStep, AbortStep, DisconnectStep DEF FspCaller

-----------------------------------------------------------------------------
(* A step of the server *)

\* How far the temporary file goes after block p
LaidTo(n, pos, e) == IF pos = 0 \/ e > n THEN e ELSE n

\* A block that leaves no hole is laid over what is there.
LEMMA LaidIs ==
  ASSUME NEW n \in Nat, NEW pos \in Nat, NEW e \in Nat, pos < e, pos <= n
  PROVE  FspLaid(Part(0, n), pos, Part(pos, e)) = Part(0, LaidTo(n, pos, e))
<1>1. PICK z \in Nat : z = 0
  OBVIOUS
<1>2. PICK d \in Nat : d = e - pos /\ d > 0 /\ pos + d = e
  OBVIOUS
<1>3. Len(Part(pos, e)) = d /\ \A i \in 1..d : Part(pos, e)[i] = pos + i
  BY <1>2, PartLen
<1>4. Len(Part(z, n)) = n /\ \A i \in 1..n : Part(z, n)[i] = i
  <2>1. n - z = n /\ z <= n /\ \A i \in 1..n : z + i = i
    BY <1>1
  <2>2. Len(Part(z, n)) = n - z /\ \A i \in 1..(n - z) : Part(z, n)[i] = z + i
    BY <2>1, PartLen
  <2> QED
    BY <2>1, <2>2
<1>5. CASE pos = 0
  <2>1. Len(<<>>) = 0
    OBVIOUS
  <2>2. FspLaid(Part(z, n), pos, Part(pos, e)) =
          [i \in 1..e |-> IF i > pos /\ i <= pos + d THEN Part(pos, e)[i - pos]
                          ELSE IF i <= 0 THEN <<>>[i] ELSE 0]
    BY <1>2, <1>3, <1>5, <2>1 DEF FspLaid
  <2>3. \A i \in 1..e : i > pos /\ i <= pos + d /\ i - pos = i /\ Part(pos, e)[i] = z + i
    BY <1>1, <1>2, <1>3, <1>5
  <2>4. Part(z, e) = [i \in 1..e |-> z + i]
    BY <1>1 DEF Part
  <2>5. FspLaid(Part(z, n), pos, Part(pos, e)) = Part(z, e)
    BY <2>2, <2>3, <2>4
  <2> QED
    BY <1>1, <1>5, <2>5 DEF LaidTo
<1>6. CASE pos # 0
  <2>1. PICK len \in Nat : len = (IF e > n THEN e ELSE n) /\ len = LaidTo(n, pos, e) /\ len >= e /\ len >= n
    BY <1>6 DEF LaidTo
  <2>2. FspLaid(Part(z, n), pos, Part(pos, e)) =
          [i \in 1..len |-> IF i > pos /\ i <= pos + d THEN Part(pos, e)[i - pos]
                            ELSE IF i <= n THEN Part(z, n)[i] ELSE 0]
    BY <1>2, <1>3, <1>4, <1>6, <2>1 DEF FspLaid
  <2>3. ASSUME NEW i \in 1..len
        PROVE  (IF i > pos /\ i <= pos + d THEN Part(pos, e)[i - pos]
                ELSE IF i <= n THEN Part(z, n)[i] ELSE 0) = z + i
    <3>1. CASE i > pos /\ i <= pos + d
      <4>1. PICK k \in 1..d : k = i - pos /\ pos + k = z + i
        BY <1>1, <1>2, <3>1
      <4> QED
        BY <1>3, <3>1, <4>1
    <3>2. CASE ~(i > pos /\ i <= pos + d)
      <4>1. i \in 1..n /\ z + i = i
        BY <1>1, <1>2, <2>1, <3>2
      <4> QED
        BY <1>4, <3>2, <4>1
    <3> QED
      BY <3>1, <3>2
  <2>4. Part(z, len) = [i \in 1..len |-> z + i]
    <3>1. len - z = len
      BY <1>1, <2>1
    <3> QED
      BY <3>1 DEF Part
  <2>5. FspLaid(Part(z, n), pos, Part(pos, e)) = Part(z, len)
    BY <2>2, <2>3, <2>4
  <2> QED
    BY <1>1, <2>1, <2>5
<1> QED
  BY <1>5, <1>6

\* Request p is taken, with or without an error.
Taken(p, err) ==
  /\ FspInv /\ p \in ToServer(fspNet) /\ p.key < 2 /\ err \in BOOLEAN
  /\ p.cmd = "install" /\ fspServer.tmp = <<>> => err
AgedFor(p) == IF p.key = 0 THEN {[q EXCEPT !.key = FspAged(@)] : q \in fspNet} ELSE fspNet
SessionFor(p) == IF p.key = 0 THEN [fspSession EXCEPT !.key = FspAged(@)] ELSE fspSession
ServerFor(p, err) == IF err THEN fspServer ELSE [FspServed(p) EXCEPT !.obeyed = @ \/ ~p.late]

\* Datagram q was q0 before p was taken.
WasFor(p, q, q0) ==
  /\ q = (IF p.key = 0 THEN [q0 EXCEPT !.key = FspAged(@)] ELSE q0)
  /\ PacketOk(q) /\ q.to = q0.to /\ q.seq = q0.seq /\ q.late = q0.late /\ q.err = q0.err
  /\ q.cmd = q0.cmd /\ q.pos = q0.pos /\ q.data = q0.data /\ End(q) = End(q0)
  /\ p.key = 0 => q.key >= 1 /\ (q0.key >= 1 => q.key = 2)
  /\ q0.key >= 1 => q.key >= 1
  /\ q0.key = 2 => q.key = 2

\* Datagrams age, and stay what they are.
LEMMA Ages ==
  ASSUME NEW p, NEW q0 \in fspNet, PacketOk(q0)
  PROVE  WasFor(p, IF p.key = 0 THEN [q0 EXCEPT !.key = FspAged(@)] ELSE q0, q0)
<1>1. q0 \in FspPackets /\ q0.key \in {0, 1, 2}
  BY PacketFields DEF PacketOk
<1>2. CASE p.key # 0
  BY <1>2 DEF WasFor
<1>3. CASE p.key = 0
  <2>1. PICK k \in {1, 2} : k = FspAged(q0.key) /\ (q0.key >= 1 => k = 2)
    BY <1>1 DEF FspAged
  <2>2. k \in 0..2 /\ k >= 1
    BY <2>1
  <2>3. PICK q \in FspPackets :
          /\ q = [q0 EXCEPT !.key = k] /\ q.key = k /\ q.to = q0.to /\ q.seq = q0.seq /\ q.late = q0.late
          /\ q.err = q0.err /\ q.cmd = q0.cmd /\ q.pos = q0.pos /\ q.data = q0.data
    <3> DEFINE q == [q0 EXCEPT !.key = k]
    <3>1. q \in FspPackets /\ q.key = k /\ q.to = q0.to /\ q.seq = q0.seq /\ q.late = q0.late
          /\ q.err = q0.err /\ q.cmd = q0.cmd /\ q.pos = q0.pos /\ q.data = q0.data
      BY <1>1, <2>2 DEF FspPackets
    <3> QED
      BY <3>1
  <2>4. End(q) = End(q0)
    BY <2>3 DEF End
  <2>5. PacketOk(q)
    BY <2>3, <2>4 DEF PacketOk, Block
  <2>6. q = [q0 EXCEPT !.key = FspAged(@)]
    BY <2>1, <2>3
  <2>7. q0.key = 2 => q0.key >= 1
    OBVIOUS
  <2> QED
    BY <1>3, <2>1, <2>2, <2>3, <2>4, <2>5, <2>6, <2>7 DEF WasFor
<1> QED
  BY <1>2, <1>3

\* What is in the net was there.
LEMMA AgedIs ==
  ASSUME FspInv, NEW p, NEW q \in AgedFor(p)
  PROVE  \E q0 \in fspNet : WasFor(p, q, q0)
<1>1. \A q0 \in fspNet : PacketOk(q0)
  BY NetFacts
<1>2. PICK q0 \in fspNet : q = (IF p.key = 0 THEN [q0 EXCEPT !.key = FspAged(@)] ELSE q0)
  BY DEF AgedFor
<1>3. WasFor(p, IF p.key = 0 THEN [q0 EXCEPT !.key = FspAged(@)] ELSE q0, q0)
  BY <1>1, Ages
<1> QED
  BY <1>2, <1>3

\* The session after the reply: the key that the request had is no longer expected.
LEMMA SessionIs ==
  ASSUME NEW p, NEW err, Taken(p, err)
  PROVE  /\ SessionFor(p) \in SessionType /\ SessionFor(p).seq = fspSession.seq
         /\ p.key = 0 => SessionFor(p).key = 1 /\ fspSession.key = 0
         /\ p.key # 0 => p.key = 1 /\ SessionFor(p) = fspSession
<1>1. fspSession \in SessionType /\ Keyed(fspSession, fspNet) /\ p \in ToServer(fspNet) /\ PacketOk(p)
  BY NetFacts DEF Taken, ToServer
<1>2. p.key \in {0, 1}
  BY <1>1, PacketFields DEF Taken
<1>3. fspSession.key = 1 => p.key >= 1
  BY <1>1 DEF Keyed
<1>4. CASE p.key # 0
  BY <1>1, <1>2, <1>4 DEF SessionFor
<1>5. CASE p.key = 0
  <2>1. fspSession.key = 0
    BY <1>1, <1>3, <1>5 DEF SessionType
  <2>2. FspAged(fspSession.key) = 1
    BY <2>1 DEF FspAged
  <2> QED
    BY <1>1, <1>5, <2>1, <2>2 DEF SessionFor, SessionType
<1> QED
  BY <1>4, <1>5

\* The reply says what was asked for.
LEMMA ReplyIs ==
  ASSUME NEW p, NEW err, Taken(p, err)
  PROVE  /\ PacketOk(FspReply(p, err)) /\ FspReply(p, err).to = "client" /\ FspReply(p, err).key = 0
         /\ FspReply(p, err).err = err /\ FspReply(p, err).late = p.late /\ FspReply(p, err).seq = p.seq
<1>1. p \in FspPackets /\ PacketOk(p) /\ err \in BOOLEAN
  BY NetFacts DEF Taken, ToServer, PacketOk
<1>2. PICK a \in 0..FspSize : a = p.pos
  BY <1>1, PacketFields, Sizes
<1>3. UpTo(a) \in Nat /\ a <= UpTo(a) /\ UpTo(a) <= FspSize /\ a \in Nat
  BY <1>2, UpToIs, Sizes
<1>4. PICK b \in Nat : b = UpTo(a) /\ a <= b /\ b <= FspSize
  BY <1>3
<1>5. SubSeq(FspData, a + 1, b) = Part(a, b) /\ Part(a, b) \in FspBytes
  BY <1>3, <1>4, PartOfData, PartType
<1>6. PICK data \in FspBytes : data = IF err \/ p.cmd \notin {"read", "dir"} THEN <<>> ELSE Part(a, b)
  BY <1>5, NoBytes
<1>7. FspReply(p, err) = [p EXCEPT !.to = "client", !.key = 0, !.err = err, !.data = data]
  <2>1. data = IF err \/ p.cmd \notin {"read", "dir"} THEN <<>>
               ELSE SubSeq(FspData, p.pos + 1, IF p.pos + FspSpace < FspSize THEN p.pos + FspSpace ELSE FspSize)
    BY <1>2, <1>4, <1>5, <1>6 DEF UpTo
  <2> QED
    BY <2>1 DEF FspReply
<1>8. /\ FspReply(p, err) \in FspPackets /\ FspReply(p, err).to = "client" /\ FspReply(p, err).key = 0
      /\ FspReply(p, err).err = err /\ FspReply(p, err).late = p.late /\ FspReply(p, err).seq = p.seq
      /\ FspReply(p, err).cmd = p.cmd /\ FspReply(p, err).pos = p.pos /\ FspReply(p, err).data = data
  <2>1. PICK to \in {"server", "client"} : to = "client"
    OBVIOUS
  <2>2. PICK key \in 0..2 : key = 0
    OBVIOUS
  <2> DEFINE r == [p EXCEPT !.to = to, !.key = key, !.err = err, !.data = data]
  <2>3. r \in FspPackets
    BY <1>1 DEF FspPackets
  <2>4. /\ r.to = to /\ r.key = key /\ r.err = err /\ r.late = p.late /\ r.seq = p.seq
        /\ r.cmd = p.cmd /\ r.pos = p.pos /\ r.data = data
    BY <1>1 DEF FspPackets
  <2>5. FspReply(p, err) = r
    BY <1>7, <2>1, <2>2
  <2> HIDE DEF r
  <2> QED
    BY <2>1, <2>2, <2>3, <2>4, <2>5
<1>9. PacketOk(FspReply(p, err))
  BY <1>2, <1>4, <1>6, <1>8 DEF PacketOk
<1> QED
  BY <1>8, <1>9

\* What the server does
Effect(p, err, server) ==
  /\ server \in ServerType
  /\ server.obeyed <=> fspServer.obeyed \/ (~err /\ ~p.late)
  /\ err \/ ~Harmful(p) => server.tmp = fspServer.tmp /\ server.file = fspServer.file
  /\ ~err /\ p.cmd = "write" =>
       /\ server.tmp = Part(0, Len(server.tmp)) /\ server.file = fspServer.file
       /\ p.pos <= Len(fspServer.tmp) /\ Len(server.tmp) = LaidTo(Len(fspServer.tmp), p.pos, End(p))
  /\ ~err /\ p.cmd = "install" => server.tmp = <<>> /\ server.file = fspServer.tmp /\ fspServer.tmp # <<>>
  /\ ~err /\ p.cmd = "cancel" => server.tmp = <<>> /\ server.file = fspServer.file

\* The server obeys, or not.
LEMMA ServerIs ==
  ASSUME NEW p, NEW err, Taken(p, err)
  PROVE  Effect(p, err, ServerFor(p, err))
<1>1. /\ p \in ToServer(fspNet) /\ PacketOk(p) /\ err \in BOOLEAN /\ fspServer \in ServerType
      /\ StoreInv(fspNet, fspServer) /\ p.key < 2 /\ p.late \in BOOLEAN
  BY NetFacts, PacketFields DEF Taken, ToServer
<1>2. PICK done \in BOOLEAN : done = (fspServer.obeyed \/ ~p.late)
  OBVIOUS
<1>3. CASE err
  BY <1>1, <1>3 DEF ServerFor, Effect
<1>4. CASE ~err /\ p.cmd = "write"
  <2>1. PICK n \in Nat : n = Len(fspServer.tmp) /\ fspServer.tmp = Part(0, n) /\ p.pos <= n /\ n <= FspSize
    BY <1>1, <1>4, BytesSeq DEF StoreInv, ServerType
  <2>2. PICK a \in Nat : a = p.pos /\ a <= n
    BY <1>1, <2>1, PacketFields
  <2>3. PICK e \in Nat : e = End(p) /\ a < e /\ e <= FspSize /\ p.data = Part(a, e)
    BY <1>1, <1>4, <2>2, PacketFields, BlockFacts DEF ToServer
  <2>4. PICK z \in Nat : z = 0
    OBVIOUS
  <2>5. PICK len \in Nat : len = LaidTo(n, a, e) /\ len <= FspSize /\ z <= len
    BY <2>1, <2>2, <2>3, <2>4, Sizes DEF LaidTo
  <2>6. FspLaid(fspServer.tmp, p.pos, p.data) = Part(z, len)
    <3>1. FspLaid(Part(0, n), a, Part(a, e)) = Part(0, LaidTo(n, a, e))
      BY <2>2, <2>3, LaidIs
    <3> QED
      BY <2>1, <2>2, <2>3, <2>4, <2>5, <3>1
  <2>7. PICK tmp \in FspBytes : tmp = Part(z, len)
    BY <2>5, PartType
  <2>8. Len(tmp) = len
    <3>1. Len(Part(z, len)) = len - z
      BY <2>5, PartLen
    <3> QED
      BY <2>4, <2>5, <2>7, <3>1
  <2>9. ServerFor(p, err) = [fspServer EXCEPT !.tmp = tmp, !.obeyed = done]
    BY <1>1, <1>2, <1>4, <2>6, <2>7 DEF ServerFor, FspServed, ServerType
  <2>10. /\ ServerFor(p, err) \in ServerType /\ ServerFor(p, err).tmp = tmp
         /\ ServerFor(p, err).file = fspServer.file /\ ServerFor(p, err).obeyed = done
    BY <1>1, <2>9 DEF ServerType
  <2> QED
    BY <1>2, <1>4, <2>1, <2>2, <2>3, <2>4, <2>5, <2>7, <2>8, <2>10 DEF Effect, Harmful
<1>5. CASE ~err /\ p.cmd = "install"
  <2>1. PICK none \in FspBytes : none = <<>>
    BY NoBytes
  <2>2. ServerFor(p, err) = [fspServer EXCEPT !.file = fspServer.tmp, !.tmp = none, !.obeyed = done]
    BY <1>1, <1>2, <1>5, <2>1 DEF ServerFor, FspServed, ServerType
  <2>3. /\ ServerFor(p, err) \in ServerType /\ ServerFor(p, err).tmp = none
        /\ ServerFor(p, err).file = fspServer.tmp /\ ServerFor(p, err).obeyed = done
    BY <1>1, <2>2 DEF ServerType
  <2>4. fspServer.tmp # <<>>
    BY <1>5 DEF Taken
  <2> QED
    BY <1>2, <1>5, <2>1, <2>3, <2>4 DEF Effect, Harmful
<1>6. CASE ~err /\ p.cmd = "cancel"
  <2>1. PICK none \in FspBytes : none = <<>>
    BY NoBytes
  <2>2. ServerFor(p, err) = [fspServer EXCEPT !.tmp = none, !.obeyed = done]
    BY <1>1, <1>2, <1>6, <2>1 DEF ServerFor, FspServed, ServerType
  <2>3. /\ ServerFor(p, err) \in ServerType /\ ServerFor(p, err).tmp = none
        /\ ServerFor(p, err).file = fspServer.file /\ ServerFor(p, err).obeyed = done
    BY <1>1, <2>2 DEF ServerType
  <2> QED
    BY <1>2, <1>6, <2>1, <2>3 DEF Effect, Harmful
<1>7. CASE ~err /\ ~Harmful(p)
  <2>1. ServerFor(p, err) = [fspServer EXCEPT !.obeyed = done]
    BY <1>1, <1>2, <1>7 DEF ServerFor, FspServed, Harmful, ServerType
  <2>2. /\ ServerFor(p, err) \in ServerType /\ ServerFor(p, err).tmp = fspServer.tmp
        /\ ServerFor(p, err).file = fspServer.file /\ ServerFor(p, err).obeyed = done
    BY <1>1, <2>1 DEF ServerType
  <2> QED
    BY <1>2, <1>7, <2>2 DEF Effect, Harmful
<1> QED
  BY <1>1, <1>3, <1>4, <1>5, <1>6, <1>7 DEF Harmful
\* Requests are as they were, but for their keys, and none is new.
NetFor(p, err) == AgedFor(p) \cup {FspReply(p, err)}
LEMMA RequestsWere ==
  ASSUME NEW p, NEW err, Taken(p, err), NEW q \in ToServer(NetFor(p, err))
  PROVE  \E q0 \in ToServer(fspNet) : WasFor(p, q, q0)
<1>1. q \in AgedFor(p) /\ q.to = "server"
  BY ReplyIs DEF ToServer, NetFor
<1>2. PICK q0 \in fspNet : WasFor(p, q, q0)
  BY <1>1, AgedIs DEF Taken
<1> QED
  BY <1>1, <1>2 DEF WasFor, ToServer

\* Once the request at work has been taken, or its predecessor with key 1, every key is an older one.
LEMMA FreshTaken ==
  ASSUME NEW p, NEW err, Taken(p, err), p.key = 0 \/ ~p.late, NEW q \in ToServer(NetFor(p, err))
  PROVE  q.key >= 1
<1>1. PICK q0 \in ToServer(fspNet) : WasFor(p, q, q0)
  BY RequestsWere
<1>2. CASE p.key = 0
  BY <1>1, <1>2 DEF WasFor
<1>3. CASE p.key # 0
  <2>1. p.key = 1 /\ ~p.late /\ p \in ToServer(fspNet)
    BY <1>3, SessionIs DEF Taken
  <2>2. p.key >= 1
    BY <2>1
  <2>3. q0.key >= 1
    <3>1. CASE q0.late
      BY <2>1, <2>2, <3>1, NetFacts DEF PairsInv, Taken
    <3>2. CASE ~q0.late
      <4>1. p.late <=> q0.late
        BY <2>1, <3>2
      <4>2. q0 = p
        BY <2>1, <4>1, OneOfEach DEF Taken
      <4> QED
        BY <2>2, <4>2
    <3> QED
      BY <3>1, <3>2
  <2> QED
    BY <1>1, <2>3 DEF WasFor
<1> QED
  BY <1>2, <1>3

\* Pairs of requests stay in order.
LEMMA PairsAge ==
  ASSUME NEW p, NEW err, Taken(p, err)
  PROVE  PairsInv(NetFor(p, err))
<1> DEFINE net == NetFor(p, err)
<1>1. FspInv /\ PairsInv(fspNet)
  BY NetFacts DEF Taken
<1>2. ASSUME NEW a \in ToServer(net), NEW b \in ToServer(net), a.late <=> b.late PROVE a = b
  <2>1. PICK a0 \in ToServer(fspNet) : WasFor(p, a, a0)
    BY RequestsWere
  <2>2. PICK b0 \in ToServer(fspNet) : WasFor(p, b, b0)
    BY RequestsWere
  <2>3. a0.late <=> b0.late
    BY <1>2, <2>1, <2>2 DEF WasFor
  <2>4. a0 = b0
    BY <1>1, <2>3, OneOfEach
  <2> QED
    BY <2>1, <2>2, <2>4 DEF WasFor
<1>3. ASSUME NEW a \in ToServer(net), NEW b \in ToServer(net), ~a.late, b.late
      PROVE  (a.key >= 1 => b.key >= 1) /\ Follows(a, b)
  <2>1. PICK a0 \in ToServer(fspNet) : WasFor(p, a, a0)
    BY RequestsWere
  <2>2. PICK b0 \in ToServer(fspNet) : WasFor(p, b, b0)
    BY RequestsWere
  <2>3. ~a0.late /\ b0.late
    BY <1>3, <2>1, <2>2 DEF WasFor
  <2>4. (a0.key >= 1 => b0.key >= 1) /\ Follows(a0, b0)
    BY <1>1, <2>3 DEF PairsInv
  <2>5. p.key = 0 => b.key >= 1
    BY <2>2 DEF WasFor
  <2>6. p.key # 0 => a.key = a0.key /\ b.key = b0.key
    BY <2>1, <2>2 DEF WasFor
  <2>7. a.key >= 1 => b.key >= 1
    BY <2>4, <2>5, <2>6
  <2>8. Outdates(a0, b0) => Outdates(a, b)
    <3>1. b0.key >= 1 => b.key >= 1 /\ (p.key = 0 => b.key = 2)
      BY <2>2 DEF WasFor
    <3>2. a.cmd = a0.cmd /\ a.pos = a0.pos /\ End(b) = End(b0)
      BY <2>1, <2>2 DEF WasFor
    <3> QED
      BY <2>6, <3>1, <3>2 DEF Outdates
  <2>9. Same(a0, b0) => Same(a, b)
    BY <2>1, <2>2 DEF WasFor, Same
  <2>10. (Harmful(a) => Harmful(a0)) /\ (Harmful(b) => Harmful(b0)) /\ b.cmd = b0.cmd
    BY <2>1, <2>2 DEF WasFor, Harmful
  <2>11. Follows(a, b)
    BY <2>4, <2>8, <2>9, <2>10 DEF Follows
  <2> QED
    BY <2>7, <2>11
<1> QED
  BY <1>2, <1>3 DEF PairsInv

\* The request of the transaction at work is still in the net.
LEMMA RequestAges ==
  ASSUME NEW p, NEW err, Taken(p, err), fspCall.for # "none"
  PROVE  FspRequest(SessionFor(p), fspCall) \in NetFor(p, err)
<1>1. FspRequest(fspSession, fspCall) \in fspNet /\ fspSession \in SessionType
  BY NetFacts DEF Taken, FspInv, NetInv
<1>2. CASE p.key # 0
  BY <1>1, <1>2 DEF NetFor, AgedFor, SessionFor
<1>3. CASE p.key = 0
  <2>1. PICK r \in fspNet : r = FspRequest(fspSession, fspCall)
    BY <1>1
  <2>2. PacketOk(r)
    BY NetFacts DEF Taken
  <2>3. PICK q \in NetFor(p, err) : q = [r EXCEPT !.key = FspAged(@)]
    BY <1>3 DEF NetFor, AgedFor
  <2>4. WasFor(p, q, r)
    BY <1>3, <2>2, <2>3, Ages
  <2>5. SessionFor(p) \in SessionType /\ SessionFor(p).seq = fspSession.seq /\ SessionFor(p).key = 1 /\ fspSession.key = 0
    BY <1>3, SessionIs
  <2>6. q.key = 1
    <3>1. r.key = 0 /\ r \in FspPackets
      BY <2>1, <2>2, <2>5 DEF FspRequest, PacketOk
    <3>2. FspAged(r.key) = 1
      BY <3>1 DEF FspAged
    <3> QED
      BY <2>3, <3>1, <3>2 DEF FspPackets
  <2>7. PICK t \in FspPackets : t = FspRequest(SessionFor(p), fspCall)
    BY <2>5, RequestOk DEF PacketOk, Taken, FspInv
  <2>8. /\ t.to = r.to /\ t.seq = r.seq /\ t.cmd = r.cmd /\ t.pos = r.pos /\ t.data = r.data
        /\ t.key = 1 /\ t.err = r.err /\ t.late = r.late
    BY <2>1, <2>5, <2>7 DEF FspRequest
  <2>9. /\ q.to = r.to /\ q.seq = r.seq /\ q.cmd = r.cmd /\ q.pos = r.pos /\ q.data = r.data
        /\ q.err = r.err /\ q.late = r.late /\ q \in FspPackets
    BY <2>4 DEF WasFor, PacketOk
  <2>10. q = t
    BY <2>6, <2>7, <2>8, <2>9 DEF FspPackets
  <2> QED
    BY <2>7, <2>10
<1> QED
  BY <1>2, <1>3

\* The datagrams after a step of the server
LEMMA ServeNet ==
  ASSUME NEW p, NEW err, Taken(p, err), NEW server, Effect(p, err, server)
  PROVE  NetInv(SessionFor(p), fspCall, NetFor(p, err), server)
<1> DEFINE net == NetFor(p, err)
           s == SessionFor(p)
<1>1. FspInv /\ p \in ToServer(fspNet) /\ err \in BOOLEAN
  BY DEF Taken
<1>2. s \in SessionType /\ s.seq = fspSession.seq
  BY SessionIs
<1>3. ASSUME NEW q \in net PROVE PacketOk(q) /\ (q.late <=> q.seq # s.seq)
  <2>1. CASE q = FspReply(p, err)
    BY <1>1, <1>2, <2>1, ReplyIs, NetFacts DEF ToServer
  <2>2. CASE q \in AgedFor(p)
    <3>1. PICK q0 \in fspNet : WasFor(p, q, q0)
      BY <1>1, <2>2, AgedIs
    <3> QED
      BY <1>1, <1>2, <3>1, NetFacts DEF WasFor
  <2> QED
    BY <2>1, <2>2 DEF NetFor
<1>4. PairsInv(net)
  BY PairsAge
<1>5. ASSUME NEW q \in ToServer(net), s.key = 1 PROVE q.key >= 1
  <2>1. CASE p.key = 0
    BY <2>1, FreshTaken
  <2>2. CASE p.key # 0
    <3>1. PICK q0 \in ToServer(fspNet) : WasFor(p, q, q0)
      BY RequestsWere
    <3>2. fspSession.key = 1
      BY <1>5, <2>2, SessionIs
    <3> QED
      BY <1>1, <3>1, <3>2, NetFacts DEF Keyed, WasFor
  <2> QED
    BY <2>1, <2>2
<1>6. ASSUME NEW r \in net, r.to = "client", ~r.late
      PROVE  r.key = 0 /\ (~r.err => server.obeyed) /\ \A q \in ToServer(net) : q.key >= 1
  <2>1. CASE r = FspReply(p, err)
    <3>1. ~p.late /\ r.key = 0 /\ r.err = err
      BY <1>6, <2>1, ReplyIs
    <3> QED
      BY <3>1, FreshTaken DEF Effect
  <2>2. CASE r \in AgedFor(p)
    <3>1. PICK r0 \in fspNet : WasFor(p, r, r0)
      BY <1>1, <2>2, AgedIs
    <3>2. r0.to = "client" /\ ~r0.late
      BY <1>6, <3>1 DEF WasFor
    <3>3. r0.key = 0 /\ (~r0.err => fspServer.obeyed) /\ \A q \in ToServer(fspNet) : q.key >= 1
      BY <1>1, <3>2, NetFacts DEF RepliesInv
    <3>4. p.key # 0
      <4>1. p.key >= 1
        BY <1>1, <3>3
      <4> QED
        BY <4>1
    <3>5. r = r0
      BY <3>1, <3>4 DEF WasFor
    <3>6. ASSUME NEW q \in ToServer(net) PROVE q.key >= 1
      <4>1. PICK q0 \in ToServer(fspNet) : WasFor(p, q, q0)
        BY RequestsWere
      <4> QED
        BY <3>3, <4>1 DEF WasFor
    <3> QED
      BY <3>3, <3>5, <3>6 DEF Effect
  <2> QED
    BY <2>1, <2>2 DEF NetFor
<1>7. fspCall.for # "none" => FspRequest(s, fspCall) \in net
  BY RequestAges
<1>8. ASSUME server.obeyed, fspCall.for # "none" PROVE s.key = 1
  <2>1. CASE p.key = 0
    BY <2>1, SessionIs
  <2>2. CASE p.key # 0
    <3>1. p.key = 1 /\ s = fspSession
      BY <2>2, SessionIs
    <3>2. CASE fspServer.obeyed
      BY <1>1, <1>8, <3>1, <3>2 DEF FspInv, NetInv
    <3>3. CASE ~p.late
      BY <1>1, <1>8, <3>1, <3>3, FreshIs
    <3> QED
      BY <1>8, <3>2, <3>3 DEF Effect
  <2> QED
    BY <2>1, <2>2
<1> HIDE DEF net, s
<1>9. Keyed(s, net) /\ RepliesInv(net, server)
  BY <1>5, <1>6 DEF Keyed, RepliesInv
<1> QED
  BY <1>2, <1>3, <1>4, <1>7, <1>8, <1>9 DEF NetInv, net, s

-----------------------------------------------------------------------------
(* What the server has, after its step *)

\* When a request that harms the file is obeyed, the other is a block that it repeats or that
\* will not be taken any more.
LEMMA TheOther ==
  ASSUME NEW p, NEW err, Taken(p, err), Harmful(p), NEW q0 \in ToServer(fspNet), NEW q, WasFor(p, q, q0),
         Harmful(q), q.key < 2
  PROVE  \/ q0 = p
         \/ /\ p.late /\ ~q0.late /\ p.cmd = "write" /\ (Same(q0, p) \/ Outdates(q0, p))
         \/ /\ ~p.late /\ q0.late /\ q0.cmd = "write" /\ Same(p, q0)
<1>1. p \in ToServer(fspNet) /\ FspInv /\ Harmful(q0) /\ PairsInv(fspNet)
  BY NetFacts DEF Taken, WasFor, Harmful
<1>2. CASE p.late <=> q0.late
  BY <1>1, <1>2, OneOfEach
<1>3. CASE p.late /\ ~q0.late
  BY <1>1, <1>3 DEF PairsInv, Follows
<1>4. CASE ~p.late /\ q0.late
  <2>1. Follows(p, q0)
    BY <1>1, <1>4 DEF PairsInv
  <2>2. ASSUME Outdates(p, q0) PROVE FALSE
    <3>1. q0.key >= 1 /\ (p.key >= 1 => q0.key = 2)
      BY <2>2 DEF Outdates
    <3>2. p.key = 0 \/ p.key = 1
      BY SessionIs
    <3>3. q.key = 2
      BY <3>1, <3>2 DEF WasFor
    <3> QED
      BY <3>3
  <2> QED
    BY <1>1, <1>4, <2>1, <2>2 DEF Follows
<1> QED
  BY <1>2, <1>3, <1>4 

\* A late request that harms the file is a block, before one at work that harms it.
LEMMA LateIs ==
  ASSUME NEW p, NEW err, Taken(p, err), Harmful(p), p.late, fspCall.for # "none", Harmful(fspCall)
  PROVE  /\ p.cmd = "write"
         /\ \/ fspCall.cmd = "write" /\ fspCall.pos = p.pos /\ fspCall.data = p.data
            \/ fspSession.key = 0 /\ (fspCall.cmd = "write" => End(p) = fspCall.pos)
<1>1. p \in ToServer(fspNet) /\ FspInv /\ PairsInv(fspNet) /\ fspSession \in SessionType
  BY NetFacts DEF Taken
<1>2. FspRequest(fspSession, fspCall) \in fspNet
  BY <1>1 DEF FspInv, NetInv
<1>3. PICK r \in ToServer(fspNet) : r = FspRequest(fspSession, fspCall) /\ ~r.late
  BY <1>2 DEF ToServer, FspRequest
<1>4. r.cmd = fspCall.cmd /\ r.pos = fspCall.pos /\ r.data = fspCall.data /\ r.key = fspSession.key
  BY <1>3 DEF FspRequest
<1>5. Follows(r, p) /\ Harmful(r)
  BY <1>1, <1>3, <1>4 DEF PairsInv, Harmful
<1>6. p.cmd = "write" /\ (Same(r, p) \/ Outdates(r, p))
  BY <1>5 DEF Follows
<1>7. CASE Same(r, p)
  BY <1>4, <1>6, <1>7 DEF Same
<1>8. CASE Outdates(r, p)
  <2>1. r.key # 1
    <3>1. p.key < 2 /\ p.key # 2
      BY SessionIs DEF Taken
    <3> QED
      BY <1>8, <3>1 DEF Outdates
  <2>2. fspSession.key = 0
    BY <1>1, <1>4, <2>1 DEF SessionType
  <2> QED
    BY <1>4, <1>6, <1>8, <2>2 DEF Outdates
<1> QED
  BY <1>6, <1>7, <1>8
\* The temporary file after a block
LEMMA LaidToIs ==
  ASSUME NEW n \in Nat, NEW pos \in Nat, NEW e \in Nat, pos < e, pos <= n
  PROVE  /\ LaidTo(n, pos, e) \in Nat /\ e <= LaidTo(n, pos, e)
         /\ pos # 0 => n <= LaidTo(n, pos, e)
         /\ n <= e => LaidTo(n, pos, e) = e
         /\ pos = 0 => LaidTo(n, pos, e) = e
         /\ e <= n /\ pos # 0 => LaidTo(n, pos, e) = n
BY DEF LaidTo

\* A block that is laid, in numbers
LEMMA BlockLaid ==
  ASSUME NEW p, NEW err, Taken(p, err), NEW server, Effect(p, err, server), ~err, p.cmd = "write"
  PROVE  /\ Len(fspServer.tmp) \in Nat /\ Len(server.tmp) \in Nat /\ p.pos \in Nat /\ End(p) \in Nat
         /\ p.pos < End(p) /\ p.pos <= Len(fspServer.tmp)
         /\ Len(server.tmp) = LaidTo(Len(fspServer.tmp), p.pos, End(p))
<1>1. PacketOk(p) /\ p.to = "server" /\ fspServer \in ServerType
  BY NetFacts DEF Taken, ToServer
<1>2. p.pos \in Nat /\ End(p) \in Nat /\ p.pos < End(p)
  BY <1>1, PacketFields, BlockFacts
<1>3. Len(fspServer.tmp) \in Nat /\ Len(server.tmp) \in Nat
  BY <1>1, BytesSeq DEF Effect, ServerType
<1> QED
  BY <1>2, <1>3 DEF Effect

\* The server has the first bytes of the source, and takes no block that leaves a hole.
LEMMA ServeStore ==
  ASSUME NEW p, NEW err, Taken(p, err), NEW server, Effect(p, err, server)
  PROVE  StoreInv(NetFor(p, err), server)
<1>1. /\ FspInv /\ StoreInv(fspNet, fspServer) /\ server \in ServerType /\ fspServer \in ServerType
      /\ p \in ToServer(fspNet) /\ PacketOk(p)
  BY NetFacts DEF Taken, Effect, ToServer
<1>2. Len(fspServer.tmp) \in Nat /\ Len(server.tmp) \in Nat
  BY <1>1, BytesSeq DEF ServerType
<1>3. Part(0, 0) = <<>> /\ Len(<<>>) = 0
  BY NoBytes
<1>4. server.tmp = Part(0, Len(server.tmp)) /\ server.file = Part(0, Len(server.file))
  <2>1. CASE err \/ ~Harmful(p)
    BY <1>1, <2>1 DEF Effect, StoreInv
  <2>2. CASE ~err /\ Harmful(p)
    BY <1>1, <1>3, <2>2 DEF Effect, StoreInv, Harmful
  <2> QED
    BY <2>1, <2>2
<1>5. ASSUME NEW q \in ToServer(NetFor(p, err)), q.cmd = "write", q.key < 2 PROVE q.pos <= Len(server.tmp)
  <2>1. PICK q0 \in ToServer(fspNet) : WasFor(p, q, q0)
    BY RequestsWere
  <2>2. q0.pos = q.pos /\ q0.cmd = "write" /\ Harmful(q) /\ PacketOk(q0)
    BY <1>1, <1>5, <2>1, NetFacts DEF WasFor, Harmful, ToServer
  <2>3. q0.pos <= Len(fspServer.tmp) /\ q0.pos \in Nat
    <3>1. q0.key < 2
      <4>1. q0.key \in {0, 1, 2} /\ q0.key # 2
        BY <1>5, <2>1, <2>2, PacketFields DEF WasFor
      <4> QED
        BY <4>1
    <3> QED
      BY <1>1, <2>2, <3>1, PacketFields DEF StoreInv
  <2>4. CASE err \/ ~Harmful(p)
    BY <2>2, <2>3, <2>4 DEF Effect
  <2>5. CASE ~err /\ Harmful(p)
    <3>1. \/ q0 = p
          \/ p.late /\ ~q0.late /\ p.cmd = "write" /\ (Same(q0, p) \/ Outdates(q0, p))
          \/ ~p.late /\ q0.late /\ q0.cmd = "write" /\ Same(p, q0)
      BY <1>5, <2>1, <2>2, <2>5, TheOther
    <3>2. p.cmd = "write" /\ (q0.pos = p.pos \/ q0.pos = End(p))
      BY <2>2, <3>1 DEF Same, Outdates
    <3>3. /\ Len(server.tmp) \in Nat /\ p.pos \in Nat /\ End(p) \in Nat /\ p.pos < End(p)
          /\ p.pos <= Len(fspServer.tmp) /\ Len(server.tmp) = LaidTo(Len(fspServer.tmp), p.pos, End(p))
      BY <2>5, <3>2, BlockLaid
    <3>4. End(p) <= Len(server.tmp)
      BY <1>2, <3>3, LaidToIs
    <3> QED
      BY <2>2, <2>3, <3>2, <3>3, <3>4
  <2> QED
    BY <2>4, <2>5
<1> QED
  BY <1>1, <1>4, <1>5 DEF StoreInv

\* A request that was late is late.
LEMMA OldWas ==
  ASSUME NEW p, NEW err, Taken(p, err), NEW q \in Old(NetFor(p, err))
  PROVE  \E q0 \in Old(fspNet) : WasFor(p, q, q0) /\ End(q) = End(q0)
<1>1. q \in ToServer(NetFor(p, err)) /\ q.late /\ Harmful(q)
  BY DEF Old
<1>2. PICK q0 \in ToServer(fspNet) : WasFor(p, q, q0)
  BY <1>1, RequestsWere
<1> QED
  BY <1>1, <1>2 DEF WasFor, Old, Harmful

\* The block at work is the next of the temporary file, or has been written.
LEMMA ServeBlock ==
  ASSUME NEW p, NEW err, Taken(p, err), NEW server, Effect(p, err, server)
  PROVE  BlockInv(fspFile, fspCall, NetFor(p, err), server)
<1>1. FspInv /\ BlockInv(fspFile, fspCall, fspNet, fspServer) /\ p \in ToServer(fspNet)
  BY DEF Taken, FspInv, ServerInv
<1>2. ASSUME fspCall.for = "write", NEW q \in Old(NetFor(p, err)) PROVE End(q) = fspFile.pos
  BY <1>1, <1>2, OldWas DEF BlockInv
<1>3. ASSUME fspCall.for \in {"write", "flush"}
      PROVE  IF server.obeyed THEN Len(server.tmp) = fspFile.pos + Len(fspFile.buf) ELSE Laid(fspFile, server)
  <2>1. fspCall.for # "none" /\ CmdFits(fspCall.for, fspCall.cmd) /\ fspFile \in FileType
    BY <1>1, <1>3, AtWork
  <2>2. fspCall.cmd = "write" /\ Harmful(fspCall)
    BY <1>3, <2>1 DEF CmdFits, Harmful
  <2>3. fspFile.open /\ fspFile.writing
    BY <1>1, <1>3, <2>1, AtWork DEF CallInv, Moves, Fits
  <2>4. Held(fspFile) /\ fspFile.buf # <<>> /\ fspCall.pos = fspFile.pos /\ fspCall.data = fspFile.buf
    BY <1>1, <1>3, <2>1, <2>3, AtWork DEF PutInv
  <2>5. PICK a \in Nat : a = fspFile.pos
    BY <2>1, Sizes DEF FileType
  <2>6. PICK e \in Nat : e = fspFile.pos + Len(fspFile.buf) /\ a < e
    <3>1. Len(fspFile.buf) \in Nat /\ Len(fspFile.buf) # 0
      BY <2>1, <2>4, BytesSeq DEF FileType
    <3> QED
      BY <2>5, <3>1
  <2>7. PICK n \in Nat : n = Len(fspServer.tmp)
    BY <1>1, NetFacts, BytesSeq DEF ServerType
  <2>8. IF fspServer.obeyed THEN n = e ELSE (a > 0 => n \in {a, e})
    BY <1>1, <1>3, <2>5, <2>6, <2>7 DEF BlockInv, Laid
  <2>9. \/ ~p.late /\ p.cmd = "write" /\ p.pos = a /\ p.data = fspFile.buf
        \/ p.late /\ ~Harmful(p)
        \/ p.late /\ p.cmd = "write" /\ p.pos = a /\ p.data = fspFile.buf
        \/ p.late /\ p.cmd = "write" /\ ~fspServer.obeyed /\ End(p) = a
    <3>1. CASE ~p.late
      BY <1>1, <2>1, <2>2, <2>4, <2>5, <3>1, FreshIs
    <3>2. CASE p.late /\ Harmful(p)
      <4>1. fspSession.key = 0 => ~fspServer.obeyed
        BY <1>1, <2>1 DEF FspInv, NetInv
      <4> QED
        BY <2>1, <2>2, <2>4, <2>5, <3>2, <4>1, LateIs
    <3> QED
      BY <3>1, <3>2
  <2>10. p.pos = a /\ p.data = fspFile.buf => End(p) = e
    BY <2>5, <2>6 DEF End
  <2>11. CASE err \/ ~Harmful(p)
    <3>1. Len(server.tmp) = n
      BY <2>7, <2>11 DEF Effect
    <3>2. server.obeyed <=> fspServer.obeyed
      BY <2>9, <2>11 DEF Effect, Harmful
    <3> QED
      BY <2>5, <2>6, <2>8, <3>1, <3>2 DEF Laid
  <2>12. CASE ~err /\ Harmful(p)
    <3>1. p.cmd = "write"
      BY <2>9, <2>12
    <3>2. p.pos \in Nat /\ End(p) \in Nat /\ p.pos < End(p) /\ p.pos <= n /\ Len(server.tmp) = LaidTo(n, p.pos, End(p))
      BY <2>7, <2>12, <3>1, BlockLaid
    <3>3. /\ Len(server.tmp) \in Nat
          /\ p.pos # 0 => n <= Len(server.tmp)
          /\ n <= End(p) => Len(server.tmp) = End(p)
          /\ p.pos = 0 => Len(server.tmp) = End(p)
          /\ End(p) <= n /\ p.pos # 0 => Len(server.tmp) = n
      <4>1. PICK at \in Nat : at = p.pos /\ at <= n
        BY <3>2
      <4>2. PICK to \in Nat : to = End(p) /\ at < to
        BY <3>2, <4>1
      <4>3. PICK len \in Nat : len = LaidTo(n, at, to)
        BY <4>1, <4>2, LaidToIs
      <4>4. /\ at # 0 => n <= LaidTo(n, at, to)
            /\ n <= to => LaidTo(n, at, to) = to
            /\ at = 0 => LaidTo(n, at, to) = to
            /\ to <= n /\ at # 0 => LaidTo(n, at, to) = n
        BY <4>1, <4>2, LaidToIs
      <4>5. Len(server.tmp) = len
        BY <3>2, <4>1, <4>2, <4>3
      <4> QED
        BY <4>1, <4>2, <4>3, <4>4, <4>5
    <3>4. CASE p.pos = a /\ End(p) = e
      <4>1. Len(server.tmp) = e
        <5>1. CASE a = 0
          BY <3>3, <3>4, <5>1
        <5>2. CASE a > 0
          <6>1. n = a \/ n = e
            BY <2>8, <5>2
          <6>2. n <= e
            BY <2>6, <6>1
          <6> QED
            BY <3>3, <3>4, <6>2
        <5> QED
          BY <5>1, <5>2
      <4> QED
        BY <2>5, <2>6, <4>1 DEF Laid
    <3>5. CASE p.late /\ ~fspServer.obeyed /\ End(p) = a
      <4>1. ~server.obeyed
        BY <3>5 DEF Effect
      <4>2. a > 0 /\ n \in {a, e}
        BY <2>8, <3>2, <3>5
      <4>3. Len(server.tmp) \in {a, e}
        <5>1. CASE p.pos = 0
          BY <3>3, <3>5, <5>1
        <5>2. CASE p.pos # 0
          <6>1. a <= n
            BY <2>6, <4>2
          <6> QED
            BY <3>3, <3>5, <4>2, <5>2, <6>1
        <5> QED
          BY <5>1, <5>2
      <4> QED
        BY <2>5, <2>6, <4>1, <4>3 DEF Laid
    <3> QED
      BY <2>9, <2>10, <2>12, <3>4, <3>5
  <2> QED
    BY <2>11, <2>12
<1> QED
  BY <1>2, <1>3 DEF BlockInv

\* The whole file is there before the INSTALL, and is named by it.
LEMMA ServeInstall ==
  ASSUME NEW p, NEW err, Taken(p, err), NEW server, Effect(p, err, server)
  PROVE  InstallInv(fspJob, fspCall, NetFor(p, err), server)
<1>1. FspInv /\ InstallInv(fspJob, fspCall, fspNet, fspServer) /\ p \in ToServer(fspNet)
  BY DEF Taken, FspInv, ServerInv
<1> SUFFICES ASSUME Ready(fspJob, fspCall)
             PROVE  IF server.obeyed THEN Named(server)
                    ELSE Len(server.tmp) = FspSize /\ \A q \in Old(NetFor(p, err)) : End(q) = FspSize
  BY DEF InstallInv
<1>2. fspCall.for = "install" /\ CmdFits(fspCall.for, fspCall.cmd)
  BY <1>1, AtWork DEF Ready
<1>3. fspCall.cmd = "install" /\ fspCall.for # "none" /\ Harmful(fspCall)
  BY <1>2 DEF CmdFits, Harmful
<1>4. IF fspServer.obeyed THEN Named(fspServer)
      ELSE Len(fspServer.tmp) = FspSize /\ \A q \in Old(fspNet) : End(q) = FspSize
  BY <1>1 DEF InstallInv
<1>5. ~p.late => p.cmd = "install"
  BY <1>1, <1>3, FreshIs
<1>6. p.late /\ Harmful(p) => p.cmd = "write" /\ ~fspServer.obeyed /\ p \in Old(fspNet)
  <2>1. fspSession.key = 0 => ~fspServer.obeyed
    BY <1>1, <1>3 DEF FspInv, NetInv
  <2> QED
    BY <1>1, <1>3, <2>1, LateIs DEF Old
<1>7. \A q \in Old(NetFor(p, err)) : (\A q0 \in Old(fspNet) : End(q0) = FspSize) => End(q) = FspSize
  BY OldWas
<1>8. CASE err \/ ~Harmful(p)
  <2>1. server.tmp = fspServer.tmp /\ server.file = fspServer.file
    BY <1>8 DEF Effect
  <2>2. server.obeyed <=> fspServer.obeyed
    BY <1>5, <1>8 DEF Effect, Harmful
  <2> QED
    BY <1>4, <1>7, <2>1, <2>2 DEF Named
<1>9. CASE ~err /\ ~p.late
  <2>1. server.tmp = <<>> /\ server.file = fspServer.tmp /\ fspServer.tmp # <<>> /\ server.obeyed
    BY <1>5, <1>9 DEF Effect
  <2>2. ~fspServer.obeyed
    BY <1>4, <2>1 DEF Named
  <2> QED
    BY <1>4, <2>1, <2>2 DEF Named
<1>10. CASE ~err /\ p.late /\ Harmful(p)
  <2>1. p.cmd = "write" /\ ~fspServer.obeyed /\ End(p) = FspSize /\ Len(fspServer.tmp) = FspSize
    BY <1>4, <1>6, <1>10
  <2>2. /\ Len(fspServer.tmp) \in Nat /\ p.pos \in Nat /\ End(p) \in Nat /\ p.pos < End(p)
        /\ p.pos <= Len(fspServer.tmp) /\ Len(server.tmp) = LaidTo(Len(fspServer.tmp), p.pos, End(p))
    BY <1>10, <2>1, BlockLaid
  <2>3. Len(server.tmp) = FspSize
    BY <2>1, <2>2 DEF LaidTo
  <2>4. ~server.obeyed
    BY <1>10, <2>1 DEF Effect
  <2> QED
    BY <1>4, <1>7, <2>1, <2>3, <2>4
<1> QED
  BY <1>8, <1>9, <1>10

\* Between two transactions what was written stays.
LEMMA ServeMove ==
  ASSUME NEW p, NEW err, Taken(p, err), NEW server, Effect(p, err, server)
  PROVE  MoveInv(SessionFor(p), fspFile, fspCall, NetFor(p, err), server)
<1> DEFINE net == NetFor(p, err)
<1>1. FspInv /\ MoveInv(fspSession, fspFile, fspCall, fspNet, fspServer) /\ p \in ToServer(fspNet)
  BY DEF Taken, FspInv, ServerInv
<1> SUFFICES ASSUME fspCall.for = "none", fspFile.writing
             PROVE  Settled(SessionFor(p), fspFile, net, server)
  BY DEF MoveInv
<1>2. Settled(fspSession, fspFile, fspNet, fspServer)
  BY <1>1 DEF MoveInv
<1>3. ASSUME NEW q \in New(net) PROVE q.cmd = "write" /\ End(q) = fspFile.pos
  <2>1. q \in ToServer(net) /\ ~q.late /\ Harmful(q)
    BY <1>3 DEF New
  <2>2. PICK q0 \in ToServer(fspNet) : WasFor(p, q, q0)
    BY <2>1, RequestsWere
  <2>3. q0 \in New(fspNet)
    BY <2>1, <2>2 DEF WasFor, New, Harmful
  <2> QED
    BY <1>2, <2>2, <2>3 DEF Settled, WasFor
<1>4. ASSUME fspFile.pos > 0
      PROVE  /\ SessionFor(p).key = 0 /\ Len(server.tmp) = fspFile.pos /\ \A q \in ToServer(net) : q.key >= 1
             /\ \A q \in Old(net) : q.key = 2
  <2>1. /\ fspSession.key = 0 /\ Len(fspServer.tmp) = fspFile.pos /\ \A q \in ToServer(fspNet) : q.key >= 1
        /\ \A q \in Old(fspNet) : q.key = 2
    BY <1>2, <1>4 DEF Settled
  <2>2. p.key >= 1
    BY <1>1, <2>1
  <2>3. p.key # 0
    BY <2>2
  <2>4. SessionFor(p) = fspSession /\ p.key = 1
    BY <2>3, SessionIs
  <2>5. \A q \in ToServer(net) : q.key >= 1
    BY <2>1, RequestsWere DEF WasFor
  <2>6. \A q \in Old(net) : q.key = 2
    BY <2>1, OldWas DEF WasFor
  <2>7. Len(server.tmp) = fspFile.pos
    <3>1. CASE err \/ ~Harmful(p)
      BY <2>1, <3>1 DEF Effect
    <3>2. CASE ~err /\ Harmful(p)
      <4>1. p \notin Old(fspNet)
        BY <2>1, <2>4
      <4>2. p \in New(fspNet)
        BY <1>1, <3>2, <4>1 DEF Old, New
      <4>3. p.cmd = "write" /\ End(p) = fspFile.pos
        BY <1>2, <4>2 DEF Settled
      <4>4. /\ Len(fspServer.tmp) \in Nat /\ p.pos \in Nat /\ End(p) \in Nat /\ p.pos < End(p)
            /\ Len(server.tmp) = LaidTo(Len(fspServer.tmp), p.pos, End(p))
        BY <3>2, <4>3, BlockLaid
      <4> QED
        BY <2>1, <4>3, <4>4 DEF LaidTo
    <3> QED
      BY <3>1, <3>2
  <2> QED
    BY <2>1, <2>4, <2>5, <2>6, <2>7
<1> HIDE DEF net
<1> QED
  BY <1>3, <1>4 DEF Settled

\* What has been done is not undone.
LEMMA ServeDone ==
  ASSUME NEW p, NEW err, Taken(p, err), NEW server, Effect(p, err, server)
  PROVE  DoneInv(fspJob, NetFor(p, err), server)
<1>1. FspInv /\ DoneInv(fspJob, fspNet, fspServer) /\ p \in ToServer(fspNet)
  BY DEF Taken, FspInv, ServerInv
<1> SUFFICES ASSUME Whole(fspJob)
             PROVE  /\ fspJob.op \in {"simple", "list", "put"} => server.obeyed
                    /\ fspJob.op = "put" =>
                         /\ Named(server)
                         /\ \A q \in ToServer(NetFor(p, err)) : Harmful(q) /\ q.key < 2 => q.cmd = "install"
  BY DEF DoneInv
<1>2. fspJob.op \in {"simple", "list", "put"} => server.obeyed
  BY <1>1 DEF DoneInv, Effect
<1>3. ASSUME fspJob.op = "put" PROVE Named(server)
  <2>1. Named(fspServer) /\ (Harmful(p) => p.cmd = "install")
    BY <1>1, <1>3 DEF DoneInv, Taken
  <2>2. err \/ ~Harmful(p)
    BY <2>1 DEF Taken, Named
  <2> QED
    BY <2>1, <2>2 DEF Effect, Named
<1>4. ASSUME fspJob.op = "put", NEW q \in ToServer(NetFor(p, err)), Harmful(q), q.key < 2 PROVE q.cmd = "install"
  <2>1. PICK q0 \in ToServer(fspNet) : WasFor(p, q, q0)
    BY RequestsWere
  <2>2. Harmful(q0) /\ q0.cmd = q.cmd /\ PacketOk(q0)
    BY <1>1, <1>4, <2>1, NetFacts DEF WasFor, Harmful, ToServer
  <2>3. q0.key \in {0, 1, 2} /\ q0.key # 2
    BY <1>4, <2>1, <2>2, PacketFields DEF WasFor
  <2>4. q0.key < 2
    BY <2>3
  <2> QED
    BY <1>1, <1>4, <2>2, <2>4 DEF DoneInv
<1> QED
  BY <1>2, <1>3, <1>4

\* FspServe: requests of the client are obeyed or refused, in any order and more than once.
LEMMA ServeStep ==
  ASSUME FspInv, FspServe
  PROVE  FspInv'
<1>1. PICK p \in fspNet, no \in BOOLEAN :
        /\ p.to = "server" /\ p.key < 2
        /\ fspServer' = ServerFor(p, no \/ FspRefuses(p))
        /\ fspNet' = NetFor(p, no \/ FspRefuses(p))
        /\ fspSession' = SessionFor(p)
        /\ UNCHANGED <<fspFile, fspCall, fspJob>>
  BY DEF FspServe, ServerFor, NetFor, AgedFor, SessionFor
<1>2. PICK err \in BOOLEAN : err = (no \/ FspRefuses(p))
  BY DEF FspRefuses
<1>3. Taken(p, err)
  BY <1>1, <1>2 DEF Taken, ToServer, FspRefuses
<1>4. Effect(p, err, fspServer')
  BY <1>1, <1>2, <1>3, ServerIs
<1>5. NetInv(fspSession', fspCall, fspNet', fspServer')
  BY <1>1, <1>2, <1>3, <1>4, ServeNet
<1>6. StoreInv(fspNet', fspServer')
  BY <1>1, <1>2, <1>3, <1>4, ServeStore
<1>7. BlockInv(fspFile, fspCall, fspNet', fspServer')
  BY <1>1, <1>2, <1>3, <1>4, ServeBlock
<1>8. InstallInv(fspJob, fspCall, fspNet', fspServer')
  BY <1>1, <1>2, <1>3, <1>4, ServeInstall
<1>9. MoveInv(fspSession', fspFile, fspCall, fspNet', fspServer')
  BY <1>1, <1>2, <1>3, <1>4, ServeMove
<1>10. DoneInv(fspJob, fspNet', fspServer')
  BY <1>1, <1>2, <1>3, <1>4, ServeDone
<1>11. ServerInv(fspSession', fspFile, fspJob, fspCall, fspNet', fspServer')
  BY <1>6, <1>7, <1>8, <1>9, <1>10 DEF ServerInv
<1> QED
  BY <1>1, <1>5, <1>11 DEF FspInv
-----------------------------------------------------------------------------
(* Theorems *)

\* There is nothing at the start.
LEMMA InitOk ==
  ASSUME FspInit
  PROVE  FspInv
<1>1. PICK none \in FspBytes : none = <<>> /\ none = Part(0, 0) /\ Len(none) = 0
  BY NoBytes
<1>2. fspSession \in SessionType /\ fspServer \in ServerType
  <2>1. PICK n \in Nat : n = Cardinality(FspSeqs)
    BY FspSeqAssumption, FS_CardinalityType
  <2>2. FspSeqs = 0..n - 1 /\ n # 0
    BY <2>1, FspSeqAssumption
  <2>3. 0 \in FspSeqs
    BY <2>2
  <2>4. fspServer = [tmp |-> none, file |-> none, obeyed |-> FALSE]
    BY <1>1 DEF FspInit
  <2> QED
    BY <2>3, <2>4 DEF FspInit, SessionType, ServerType
<1>3. /\ fspFile = FspNoFile /\ fspJob = FspNoJob /\ fspCall = FspNothing /\ fspNet = {}
      /\ fspServer.tmp = none /\ fspServer.file = none /\ ~fspServer.obeyed
  BY <1>1 DEF FspInit
<1>4. ClientInv(fspFile, fspJob, fspCall)
  <2>1. FspNoJob \in JobType /\ ~FspNoJob.on /\ FspNoJob.op = "none" /\ FspNoJob.ret = "none"
    BY NoJobIs
  <2>2. CallInv(FspNoFile, FspNoJob, FspNothing)
    BY <2>1, NothingIs DEF CallInv, Moves
  <2>3. GotInv(FspNoJob) /\ ListInv(FspNoJob, FspNothing)
    BY <2>1 DEF GotInv, ListInv
  <2>4. GetInv(FspNoFile, FspNoJob, FspNothing) /\ PutInv(FspNoFile, FspNoJob, FspNothing)
    BY <2>1, NothingIs DEF GetInv, PutInv
  <2> QED
    BY <1>3, <2>1, <2>2, <2>3, <2>4, NothingIs DEF ClientInv
<1>5. NetInv(fspSession, fspCall, fspNet, fspServer)
  BY <1>2, <1>3, NothingIs DEF NetInv, PairsInv, Keyed, RepliesInv, ToServer
<1>6. ServerInv(fspSession, fspFile, fspJob, fspCall, fspNet, fspServer)
  <2>1. StoreInv(fspNet, fspServer)
    BY <1>1, <1>2, <1>3 DEF StoreInv, ToServer
  <2>2. BlockInv(fspFile, fspCall, fspNet, fspServer) /\ InstallInv(fspJob, fspCall, fspNet, fspServer)
    BY <1>3, NothingIs DEF BlockInv, InstallInv, Ready
  <2>3. MoveInv(fspSession, fspFile, fspCall, fspNet, fspServer) /\ DoneInv(fspJob, fspNet, fspServer)
    BY <1>3, NothingIs, NoJobIs DEF MoveInv, DoneInv, Whole
  <2> QED
    BY <2>1, <2>2, <2>3 DEF ServerInv
<1> QED
  BY <1>4, <1>5, <1>6 DEF FspInv

\* Every step of a session keeps the invariant.
LEMMA FspInvStep == FspInv /\ [FspNext]_fspVars => FspInv'
<1> SUFFICES ASSUME FspInv, [FspNext]_fspVars PROVE FspInv'
  OBVIOUS
<1>1. CASE FspClient
  BY <1>1, ClientStep
<1>2. CASE FspCaller
  BY <1>2, CallerStep
<1>3. CASE FspServe
  BY <1>3, ServeStep
<1>4. CASE UNCHANGED fspVars
  BY <1>4 DEF fspVars, FspInv
<1> QED
  BY <1>1, <1>2, <1>3, <1>4 DEF FspNext

\* The invariant holds of every state of a session, whatever becomes of its datagrams.
THEOREM FspInvariant == FspSpec => []FspInv
<1>1. FspInit => FspInv
  BY InitOk
<1>2. FspInv /\ [FspNext]_fspVars => FspInv'
  BY FspInvStep
<1> QED
  BY <1>1, <1>2, PTL DEF FspSpec

\* The invariant gives the types.
LEMMA FspInvTypes == FspInv => FspTypeOK
<1> SUFFICES ASSUME FspInv PROVE FspTypeOK
  OBVIOUS
<1>1. /\ fspSession \in SessionType /\ fspFile \in FileType /\ fspCall \in CallType /\ fspJob \in JobType
      /\ fspServer \in ServerType
  BY NetFacts DEF FspInv, ClientInv
<1>2. \A p \in fspNet : p \in FspPackets
  BY NetFacts DEF PacketOk
<1>3. fspSession \in [up : BOOLEAN, seq : FspSeqs, key : 0..2]
  BY <1>1 DEF SessionType
<1> QED
  BY <1>1, <1>2, <1>3 DEF FspTypeOK, FileType, CallType, JobType, ServerType

\* Every part of the session has its type.
THEOREM FspTypes == FspSpec => []FspTypeOK
BY FspInvTypes, FspInvariant, PTL

\* The invariant gives what was obeyed.
LEMMA FspInvDone == FspInv => FspOkIsDone
BY DEF FspInv, ServerInv, DoneInv, Whole, FspOkIsDone

\* A command, a listing or an upload that succeeded without a failed transaction was obeyed by the
\* server in its last transaction, and not by way of a late or repeated reply to an earlier one.
THEOREM FspCommandsDone == FspSpec => []FspOkIsDone
BY FspInvDone, FspInvariant, PTL

\* The invariant gives what was transferred.
LEMMA FspInvIntact == FspInv => FspBytesIntact
<1> SUFFICES ASSUME FspInv PROVE FspBytesIntact
  OBVIOUS
<1>1. PICK z \in Nat : z = 0
  OBVIOUS
<1>2. PICK size \in Nat : size = FspSize /\ z <= size /\ FspData = Part(z, size)
  BY <1>1, Sizes, DataIsPart
<1>3. PICK n \in Nat : n = Len(fspServer.file) /\ z <= n /\ n <= size /\ fspServer.file = Part(z, n)
  BY <1>1, <1>2, NetFacts, BytesSeq DEF ServerType, StoreInv
<1>4. IsPrefix(fspServer.file, FspData)
  <2>1. IsPrefix(Part(z, n), Part(z, size))
    BY <1>3, PartPrefix
  <2> QED
    BY <1>2, <1>3, <2>1
<1>5. fspJob \in JobType /\ GotInv(fspJob) /\ ListInv(fspJob, fspCall) /\ DoneInv(fspJob, fspNet, fspServer)
  BY DEF FspInv, ClientInv, ServerInv
<1>6. ASSUME fspJob.op = "get"
      PROVE  /\ \E i \in {0, 1} : IsPrefix(fspJob.got, SubSeq(FspData, i + 1, FspSize))
             /\ Whole(fspJob) => fspJob.got # <<>> /\ Last(fspJob.got) = FspSize
  <2>1. PICK i \in {0, 1} : /\ i < FspSize /\ i + Len(fspJob.got) <= FspSize
                            /\ fspJob.got = Part(i, i + Len(fspJob.got))
                            /\ Whole(fspJob) => i + Len(fspJob.got) = FspSize
    BY <1>5, <1>6 DEF GotInv
  <2>2. PICK a \in Nat : a = i /\ a < size
    BY <1>2, <2>1
  <2>3. Len(fspJob.got) \in Nat
    BY <1>5, BytesSeq DEF JobType
  <2>4. PICK b \in Nat : /\ b = i + Len(fspJob.got) /\ a <= b /\ b <= size
                         /\ fspJob.got = Part(a, b) /\ (Whole(fspJob) => b = size)
    BY <1>2, <2>1, <2>2, <2>3
  <2>5. SubSeq(FspData, a + 1, size) = Part(a, size)
    <3>1. a <= size /\ size <= FspSize
      BY <1>2, <2>2
    <3> QED
      BY <3>1, PartOfData
  <2>6. IsPrefix(Part(a, b), Part(a, size))
    BY <2>4, PartPrefix
  <2>7. ASSUME Whole(fspJob) PROVE fspJob.got # <<>> /\ Last(fspJob.got) = FspSize
    <3>1. fspJob.got = Part(a, size)
      BY <2>4, <2>7
    <3>2. PICK k \in Nat : k = size - a /\ k > 0 /\ a + k = size
      BY <2>2
    <3>3. Len(Part(a, size)) = k /\ \A j \in 1..k : Part(a, size)[j] = a + j
      <4>1. a <= size /\ size - a = k
        BY <2>2, <3>2
      <4>2. Len(Part(a, size)) = size - a /\ \A j \in 1..(size - a) : Part(a, size)[j] = a + j
        BY <4>1, PartLen
      <4> QED
        BY <4>1, <4>2
    <3>4. Part(a, size)[k] = size
      BY <3>2, <3>3
    <3>5. Part(a, size) # <<>>
      BY <2>2, PartEmpty
    <3> QED
      BY <1>2, <3>1, <3>3, <3>4, <3>5 DEF Last
  <2> QED
    BY <1>2, <2>1, <2>2, <2>4, <2>5, <2>6, <2>7
<1>7. ASSUME Whole(fspJob), fspJob.op = "put" PROVE fspServer.file = FspData
  BY <1>1, <1>2, <1>3, <1>5, <1>7 DEF DoneInv, Named
<1>8. ASSUME Whole(fspJob), fspJob.op = "list" PROVE fspJob.got = FspData
  BY <1>5, <1>8, DataIsPart DEF ListInv
<1> QED
  BY <1>4, <1>6, <1>7, <1>8 DEF FspBytesIntact, Whole

\* What is transferred is the first bytes of the source, and all of it when no transaction failed.
THEOREM FspIntact == FspSpec => []FspBytesIntact
BY FspInvIntact, FspInvariant, PTL

\* No step changes the file of the server while an upload is undone.
LEMMA FspAbortStep ==
  FspInv /\ [FspNext]_fspVars =>
    [fspJob.op = "abort" /\ fspFile.pos > 0 => fspServer'.file = fspServer.file]_fspVars
<1>1. ASSUME FspInv, [FspNext]_fspVars, fspJob.op = "abort", fspFile.pos > 0
      PROVE  fspServer'.file = fspServer.file
  <2>1. /\ fspFile \in FileType /\ fspJob \in JobType /\ CallInv(fspFile, fspJob, fspCall)
        /\ PutInv(fspFile, fspJob, fspCall) /\ fspServer \in ServerType
    BY <1>1, NetFacts DEF FspInv, ClientInv
  <2>2. fspFile # FspNoFile
    BY <1>1, NothingIs
  <2>3. fspFile.open /\ fspFile.writing
    BY <1>1, <2>1, <2>2 DEF CallInv
  <2>4. fspJob.on
    BY <1>1, <2>1, <2>3 DEF CallInv, Moves
  <2>5. fspCall.for = "cancel" /\ fspCall.cmd = "cancel"
    <3>1. fspCall.for \in {"cancel", "flush", "install"}
      BY <1>1, <2>1, <2>4 DEF CallInv, Fits
    <3>2. fspFile.pos # 0
      BY <1>1
    <3>3. fspCall.for = "cancel"
      BY <1>1, <2>1, <2>3, <3>1, <3>2 DEF PutInv
    <3> QED
      BY <2>1, <3>3 DEF CallInv, CmdFits
  <2>6. CASE FspServe
    <3>1. PICK p \in fspNet, no \in BOOLEAN :
            p.to = "server" /\ p.key < 2 /\ fspServer' = ServerFor(p, no \/ FspRefuses(p))
      BY <2>6 DEF FspServe, ServerFor
    <3>2. PICK err \in BOOLEAN : err = (no \/ FspRefuses(p))
      BY DEF FspRefuses
    <3>3. Taken(p, err)
      BY <1>1, <3>1, <3>2 DEF Taken, ToServer, FspRefuses
    <3>4. Effect(p, err, fspServer')
      BY <3>1, <3>2, <3>3, ServerIs
    <3>5. p.cmd # "install"
      <4>1. CASE ~p.late
        BY <1>1, <2>5, <3>3, <4>1, FreshIs DEF Taken
      <4>2. CASE p.late
        BY <2>5, <3>3, <4>2, LateIs DEF Harmful
      <4> QED
        BY <4>1, <4>2
    <3>6. CASE err \/ ~Harmful(p)
      BY <3>4, <3>6 DEF Effect
    <3>7. CASE ~err /\ p.cmd \in {"write", "cancel"}
      BY <3>4, <3>7 DEF Effect
    <3> QED
      BY <3>2, <3>5, <3>6, <3>7 DEF Harmful
  <2>7. CASE FspClient
    <3>1. CASE FspResend
      BY <3>1 DEF FspResend
    <3>2. ASSUME NEW s, NEW o, FspApply(s, o) PROVE fspServer'.file = fspServer.file
      BY <2>1, <3>2 DEF FspApply, ServerType
    <3>3. CASE FspReceive
      BY <3>2, <3>3 DEF FspReceive
    <3>4. CASE FspTimeout
      BY <3>2, <3>4 DEF FspTimeout
    <3> QED
      BY <2>7, <3>1, <3>3, <3>4 DEF FspClient
  <2>8. CASE FspCaller
    BY <2>4, <2>5, <2>8 DEF FspCaller, FspConnect, FspGetFile, FspPutFile, FspListFiles, FspChdir, FspCommand, FspCallOp,
                            FspNextRead, FspNextWrite, FspAbort, FspDisconnect, FspIdle, FspMoving
  <2>9. CASE UNCHANGED fspVars
    BY <2>9 DEF fspVars
  <2> QED
    BY <1>1, <2>6, <2>7, <2>8, <2>9 DEF FspNext
<1> QED
  BY <1>1

\* While an upload that the user aborted is undone, the server keeps the file that it has.
THEOREM FspAbortsKeep == FspSpec => FspAbortKeeps
<1>1. FspInv /\ [FspNext]_fspVars =>
        [fspJob.op = "abort" /\ fspFile.pos > 0 => fspServer'.file = fspServer.file]_fspVars
  BY FspAbortStep
<1> QED
  BY <1>1, FspInvariant, PTL DEF FspSpec, FspAbortKeeps

-----------------------------------------------------------------------------
(* The three clients: a request keeps to one of them, so each of them is in *)
(* a session of its own, or has not started one.                           *)

ClientsInv == FspInv /\ SftpInv /\ HttpTyped /\ HttpPlaced

\* A step of the client that protonum names is one of its session, and leaves the others alone.
LEMMA ClientsStep ==
  ASSUME [ClientsNext]_vars
  PROVE  [FspNext]_fspVars /\ [SftpNext]_sftpVars /\ [HttpNext]_httpVars
BY DEF ClientsNext, FspStep, SftpStep, HttpStep, vars

\* The invariants of the three clients hold of a request of any protocol.
THEOREM ClientsInvariant == ClientsSpec => []ClientsInv
<1>1. ClientsInit => ClientsInv
  BY InitOk, SftpInitOk, HttpInitTypes, HttpInitOrderly DEF ClientsInit, ClientsInv
<1>2. ClientsInv /\ [ClientsNext]_vars => ClientsInv'
  BY ClientsStep, FspInvStep, SftpInvStep, HttpStepTypes, HttpStepOrderly DEF ClientsInv
<1> QED
  BY <1>1, <1>2, PTL DEF ClientsSpec

\* The three clients and their connections are well formed (FSP_SESSION, sshv2_params, rfc2068_params).
THEOREM ClientsTypes == ClientsSpec => []ClientsTypeOK
<1>1. ClientsInv => ClientsTypeOK
  BY FspInvTypes, SftpInvTypes DEF ClientsInv, HttpTyped, ClientsTypeOK
<1> QED
  BY <1>1, ClientsInvariant, PTL

\* What a request of any protocol delivers is the data of its source, in order: a command of the FSP
\* client was obeyed, the SFTP client took no other answer than its own, and the HTTP client no
\* other response.
THEOREM ClientsIntact ==
  ClientsSpec => [](FspOkIsDone /\ FspBytesIntact /\ SftpInStep /\ SftpRightHandle /\ SftpIntact /\ HttpInOrder)
<1>1. ClientsInv => FspOkIsDone /\ FspBytesIntact /\ SftpInStep /\ SftpRightHandle /\ SftpIntact /\ HttpInOrder
  BY FspInvDone, FspInvIntact, SftpInvInStep, SftpInvHandles, SftpInvIntact, HttpPlacedInOrder DEF ClientsInv
<1> QED
  BY <1>1, ClientsInvariant, PTL

\* An upload over FSP that is aborted leaves the file of the server alone, in the program as well.
THEOREM ClientsAbortsKeep == ClientsSpec => FspAbortKeeps
<1>1. ClientsInv /\ [ClientsNext]_vars =>
        [fspJob.op = "abort" /\ fspFile.pos > 0 => fspServer'.file = fspServer.file]_fspVars
  BY ClientsStep, FspAbortStep DEF ClientsInv
<1> QED
  BY <1>1, ClientsInvariant, PTL DEF ClientsSpec, FspAbortKeeps
=============================================================================
