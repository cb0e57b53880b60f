----------------------------- MODULE SftpProofs -----------------------------
(***************************************************************************)
(* Proofs about Sftp, for any number of handles, sizes of the file and of  *)
(* the packets: each answer is the one to the request that was sent, each  *)
(* READ, WRITE and READDIR names the handle that is open for it, and what  *)
(* is transferred or listed is what the other end has, in order.           *)
(***************************************************************************)
EXTENDS Sftp, SequenceTheorems, TLAPS

(***************************************************************************)
(* Consecutive bytes of a file, each byte being its own place in it, which *)
(* FspProofs is about too                                                  *)
(***************************************************************************)

\* The bytes of the source, or the names of the directory, after the first a up to the b-th
Part(a, b) == [i \in 1..(b - a) |-> a + i]

\* The consecutive bytes from one place to another: how many there are.
LEMMA PartLen ==
  ASSUME NEW a \in Nat, NEW b \in Nat, a <= b
  PROVE  /\ Part(a, b) \in Seq(Nat) /\ Len(Part(a, b)) = b - a /\ DOMAIN Part(a, b) = 1..(b - a)
         /\ \A i \in 1..(b - a) : Part(a, b)[i] = a + i
<1>1. Part(a, b) \in [1..(b - a) -> Nat]
  BY DEF Part
<1>2. b - a \in Nat
  OBVIOUS
<1> QED
  BY <1>1, <1>2 DEF Part

\* Nothing has been read before the first byte.
LEMMA PartNone ==
  ASSUME NEW a \in Nat
  PROVE  Part(a, a) = <<>>
<1>1. Part(a, a) \in Seq(Nat) /\ Len(Part(a, a)) = 0
  BY PartLen
<1> QED
  BY <1>1

\* Only the empty part has no bytes.
LEMMA PartEmpty ==
  ASSUME NEW a \in Nat, NEW b \in Nat, a <= b
  PROVE  Part(a, b) = <<>> <=> a = b
<1>1. CASE a = b
  BY PartNone, <1>1
<1>2. CASE a < b
  <2>1. PICK n \in Nat : n = b - a /\ n # 0
    BY <1>2
  <2>2. Len(Part(a, b)) = n
    BY <2>1, PartLen
  <2> QED
    BY <2>1, <2>2, <1>2
<1> QED
  BY <1>1, <1>2

\* Two sequences are equal when they agree at each place.
LEMMA SameSeq ==
  ASSUME NEW s \in Seq(Nat), NEW t \in Seq(Nat), Len(s) = Len(t), \A i \in 1..Len(s) : s[i] = t[i]
  PROVE  s = t
OBVIOUS

\* What comes next is appended.
LEMMA PartCat ==
  ASSUME NEW a \in Nat, NEW b \in Nat, NEW c \in Nat, a <= b, b <= c
  PROVE  Part(a, b) \o Part(b, c) = Part(a, c)
<1> DEFINE s == Part(a, b)
           t == Part(b, c)
<1>1. PICK n \in Nat : n = b - a
  OBVIOUS
<1>2. PICK m \in Nat : m = c - b
  OBVIOUS
<1>3. s \in Seq(Nat) /\ Len(s) = n /\ \A i \in 1..n : s[i] = a + i
  BY <1>1, PartLen
<1>4. t \in Seq(Nat) /\ Len(t) = m /\ \A i \in 1..m : t[i] = b + i
  BY <1>2, PartLen
<1>5. n + m = c - a /\ n + m \in Nat /\ a + n = b /\ a <= c
  BY <1>1, <1>2
<1>6. Part(a, c) \in Seq(Nat) /\ Len(Part(a, c)) = n + m /\ \A i \in 1..(n + m) : Part(a, c)[i] = a + i
  BY <1>5, PartLen
<1> HIDE DEF s, t
<1>7. s \o t \in Seq(Nat) /\ Len(s \o t) = n + m
  BY <1>3, <1>4
<1>8. ASSUME NEW i \in 1..(n + m) PROVE (s \o t)[i] = a + i
  <2>1. CASE i <= n
    BY <1>3, <1>4, <2>1
  <2>2. CASE i > n
    <3>1. (s \o t)[i] = t[i - n]
      BY <1>3, <1>4, <2>2
    <3>2. i - n \in 1..m /\ b + (i - n) = a + i
      BY <2>2, <1>5
    <3> QED
      BY <3>1, <3>2, <1>4
  <2>3. i <= n \/ i > n
    OBVIOUS
  <2> QED
    BY <2>1, <2>2, <2>3
<1>9. s \o t = Part(a, c)
  BY <1>6, <1>7, <1>8, SameSeq
<1> QED
  BY <1>9 DEF s, t

\* The next byte, and the rest
LEMMA PartStep ==
  ASSUME NEW a \in Nat, NEW b \in Nat, a < b
  PROVE  /\ Head(Part(a, b)) = a + 1
         /\ Tail(Part(a, b)) = Part(a + 1, b)
<1>1. Part(a, b) \in Seq(Nat) /\ Len(Part(a, b)) = b - a /\ \A i \in 1..(b - a) : Part(a, b)[i] = a + i
  BY PartLen
<1>2. 1 \in 1..(b - a) /\ Part(a, b) # <<>>
  BY <1>1
<1>3. Part(a + 1, b) \in Seq(Nat) /\ Len(Part(a + 1, b)) = b - (a + 1)
      /\ \A i \in 1..(b - (a + 1)) : Part(a + 1, b)[i] = (a + 1) + i
  BY PartLen
<1>4. Tail(Part(a, b)) \in Seq(Nat) /\ Len(Tail(Part(a, b))) = (b - a) - 1
      /\ \A i \in 1..((b - a) - 1) : Tail(Part(a, b))[i] = Part(a, b)[i + 1]
  BY <1>1, <1>2
<1>5. (b - a) - 1 = b - (a + 1) /\ \A i \in 1..((b - a) - 1) : i + 1 \in 1..(b - a) /\ a + (i + 1) = (a + 1) + i
  OBVIOUS
<1>6. PICK n \in Nat : n = (b - a) - 1 /\ n = b - (a + 1)
  OBVIOUS
<1>7. Tail(Part(a, b)) \in Seq(Nat) /\ Len(Tail(Part(a, b))) = n
      /\ \A i \in 1..n : Tail(Part(a, b))[i] = Part(a + 1, b)[i]
  BY <1>1, <1>3, <1>4, <1>5, <1>6
<1>8. Part(a + 1, b) \in Seq(Nat) /\ Len(Part(a + 1, b)) = n
  BY <1>3, <1>6
<1>9. Tail(Part(a, b)) = Part(a + 1, b)
  BY <1>7, <1>8, SameSeq
<1> QED
  BY <1>1, <1>2, <1>9

\* One byte more
LEMMA PartAppend ==
  ASSUME NEW a \in Nat, NEW b \in Nat, a <= b
  PROVE  Append(Part(a, b), b + 1) = Part(a, b + 1)
<1> DEFINE s == Part(a, b)
<1>1. PICK n \in Nat : n = b - a
  OBVIOUS
<1>2. s \in Seq(Nat) /\ Len(s) = n /\ \A i \in 1..n : s[i] = a + i
  BY <1>1, PartLen
<1>3. n + 1 = (b + 1) - a /\ n + 1 \in Nat /\ a + (n + 1) = b + 1 /\ a <= b + 1 /\ b + 1 \in Nat
  BY <1>1
<1>4. Part(a, b + 1) \in Seq(Nat) /\ Len(Part(a, b + 1)) = n + 1
      /\ \A i \in 1..(n + 1) : Part(a, b + 1)[i] = a + i
  BY <1>3, PartLen
<1> HIDE DEF s
<1>5. Append(s, b + 1) \in Seq(Nat) /\ Len(Append(s, b + 1)) = n + 1
  BY <1>2, <1>3
<1>6. ASSUME NEW i \in 1..(n + 1) PROVE Append(s, b + 1)[i] = a + i
  <2>1. CASE i <= n
    BY <1>2, <2>1
  <2>2. CASE i = n + 1
    BY <1>2, <1>3, <2>2
  <2>3. i <= n \/ i = n + 1
    OBVIOUS
  <2> QED
    BY <2>1, <2>2, <2>3
<1>7. PICK p \in Seq(Nat) : p = Append(s, b + 1)
  BY <1>5
<1>8. Append(s, b + 1) = Part(a, b + 1)
  <2>1. PICK t \in Seq(Nat) : t = Part(a, b + 1) /\ Len(t) = n + 1 /\ \A i \in 1..(n + 1) : t[i] = a + i
    BY <1>4
  <2>2. Len(p) = n + 1 /\ \A i \in 1..(n + 1) : p[i] = a + i
    BY <1>5, <1>6, <1>7
  <2>3. p = t
    BY <2>1, <2>2, SameSeq
  <2> QED
    BY <1>7, <2>1, <2>3
<1> QED
  BY <1>8 DEF s

\* What has come so far is the beginning of what comes.
LEMMA PartPrefix ==
  ASSUME NEW a \in Nat, NEW b \in Nat, NEW c \in Nat, a <= b, b <= c
  PROVE  IsPrefix(Part(a, b), Part(a, c))
<1>1. Part(a, b) \in Seq(Nat) /\ Len(Part(a, b)) = b - a /\ \A i \in 1..(b - a) : Part(a, b)[i] = a + i
  BY PartLen
<1>2. Part(a, c) \in Seq(Nat) /\ Len(Part(a, c)) = c - a /\ \A i \in 1..(c - a) : Part(a, c)[i] = a + i
  BY PartLen
<1>3. PICK n \in Nat : n = b - a
  OBVIOUS
<1>4. SubSeq(Part(a, b), 1, n) \in Seq(Nat) /\ Len(SubSeq(Part(a, b), 1, n)) = n
      /\ \A i \in 1..n : SubSeq(Part(a, b), 1, n)[i] = Part(a, b)[i]
  BY <1>1, <1>3
<1>5. SubSeq(Part(a, c), 1, n) \in Seq(Nat) /\ Len(SubSeq(Part(a, c), 1, n)) = n
      /\ \A i \in 1..n : SubSeq(Part(a, c), 1, n)[i] = Part(a, c)[i]
  BY <1>2, <1>3
<1>6. \A i \in 1..n : Part(a, b)[i] = Part(a, c)[i]
  BY <1>1, <1>2, <1>3
<1>7. SubSeq(Part(a, b), 1, n) = SubSeq(Part(a, c), 1, n)
  BY <1>4, <1>5, <1>6, SameSeq
<1> QED
  BY <1>1, <1>2, <1>3, <1>7 DEF IsPrefix

\* SubSeq() of a part
LEMMA PartSub ==
  ASSUME NEW a \in Nat, NEW i \in Nat, NEW j \in Nat, NEW d \in Nat, i <= j, a + j <= d
  PROVE  SubSeq(Part(a, d), i + 1, j) = Part(a + i, a + j)
<1> DEFINE s == Part(a, d)
<1>1. s \in Seq(Nat) /\ Len(s) = d - a /\ \A k \in 1..(d - a) : s[k] = a + k
  BY PartLen
<1>2. PICK n \in Nat : n = j - i
  OBVIOUS
<1>3. PICK b \in Nat : b = a + i
  OBVIOUS
<1>4. PICK e \in Nat : e = a + j /\ b <= e /\ e - b = n
  BY <1>2, <1>3
<1>5. j <= d - a
  OBVIOUS
<1> HIDE DEF s
<1>6. SubSeq(s, i + 1, j) \in Seq(Nat) /\ Len(SubSeq(s, i + 1, j)) = n
      /\ \A k \in 1..n : SubSeq(s, i + 1, j)[k] = s[i + k]
  BY <1>1, <1>2, <1>5
<1>7. \A k \in 1..n : i + k \in 1..(d - a) /\ a + (i + k) = b + k
  BY <1>2, <1>3, <1>5
<1>8. Part(b, e) \in Seq(Nat) /\ Len(Part(b, e)) = n /\ \A k \in 1..n : Part(b, e)[k] = b + k
  BY <1>4, PartLen
<1>9. SubSeq(s, i + 1, j) = Part(b, e)
  <2>1. \A k \in 1..n : s[i + k] = b + k
    BY <1>1, <1>7
  <2>2. \A k \in 1..n : SubSeq(s, i + 1, j)[k] = Part(b, e)[k]
    BY <2>1, <1>6, <1>8
  <2> QED
    BY <2>2, <1>6, <1>8, SameSeq
<1> QED
  BY <1>3, <1>4, <1>9 DEF s

(***************************************************************************)
(* The inductive invariant                                                 *)
(***************************************************************************)

ReqType ==
  [up : BOOLEAN, login : {"no", "yes", "wrotepw"}, handle : SftpHandles \cup {"none"},
   buf : SftpHandles \cup {"none"}, stale : BOOLEAN, offset : 0..SftpSize, names : SftpBytes]
SftpJobType ==
  [op : {"none", "connect", "list", "get", "put", "chdir", "command"}, on : BOOLEAN,
   ret : {"none", "ok", "retry", "fatal"}, start : 0..SftpSize, from : 0..SftpSize, got : SftpBytes,
   clean : BOOLEAN]
SftpServerType ==
  [open : [SftpHandles -> {"free", "dir", "get", "put"}], names : 0..SftpSize, file : SftpBytes,
   gone : BOOLEAN, prompts : 0..SftpPrompts]
Types(req, job, server) == req \in ReqType /\ job \in SftpJobType /\ server \in SftpServerType

\* The waits of an operation, and the request that each is for
WaitFits(wait, op) ==
  \/ op = "connect" /\ wait \in {"version", "cwd", "cwd again"}
  \/ op = "list" /\ wait \in {"list", "none", "next", "close"}
  \/ op = "get" /\ wait \in {"open", "size", "none", "read", "close"}
  \/ op = "put" /\ wait \in {"open", "none", "write", "close"}
  \/ op = "chdir" /\ wait = "chdir"
  \/ op = "command" /\ wait \in {"stat", "command"}
Cmd(wait) ==
  CASE wait = "version" -> "INIT"
    [] wait \in {"cwd", "cwd again", "chdir"} -> "REALPATH"
    [] wait = "list" -> "OPENDIR"
    [] wait = "next" -> "READDIR"
    [] wait = "open" -> "OPEN"
    [] wait \in {"size", "stat"} -> "STAT"
    [] wait = "read" -> "READ"
    [] wait = "write" -> "WRITE"
    [] wait = "close" -> "CLOSE"
    [] wait = "command" -> "COMMAND"

\* A call waits for what it has asked, a connection for nothing without a call; what a session
\* had is gone with it.
SftpCallInv(req, wait, job, server) ==
  /\ IF job.on THEN req.up /\ job.ret = "none" /\ WaitFits(wait, job.op) ELSE wait = "none"
  /\ req.login # "no" <=> wait = "version"
  /\ ~req.up => server = SftpFresh(server.file)

\* From the answer to OPEN or OPENDIR to the CLOSE the handle is the server's.
Transfers == {"list", "get", "put"}
UseOf(op) == IF op = "list" THEN "dir" ELSE op
HandleInv(req, wait, job, server) ==
  job.on /\ job.op \in Transfers /\ wait \notin {"list", "open", "close"} =>
    req.handle \in SftpHandles /\ server.open[req.handle] = UseOf(job.op)

\* A transfer_buffer that is not stale is the one of the transfer that goes on.
BufferInv(req, wait, job) ==
  req.buf # "none" /\ ~req.stale =>
    job.on /\ wait \in {"none", "read", "write", "close"} /\ job.op \in {"get", "put"} /\ req.buf = req.handle

\* Where the file, and the names that were read but not given, begin and end
FileInv(server) == server.file = Part(0, Len(server.file))
SftpGotInv(job) == job.got = Part(job.start, job.start + Len(job.got)) /\ job.start + Len(job.got) <= SftpSize
SftpWhole(job, server) ==
  IF job.op = "put" THEN Len(server.file) = SftpSize ELSE job.start + Len(job.got) = SftpSize
Ends(wait, job) == job.clean /\ (wait = "close" \/ job.ret = "ok")
SftpGetInv(req, job) == job.op = "get" /\ job.on => req.offset = job.start + Len(job.got)
SftpPutInv(req, wait, job, server) ==
  job.op = "put" /\ job.on =>
    /\ req.offset = job.from
    /\ wait = "none" => job.from = Len(server.file)
SftpListInv(req, wait, job, server) ==
  job.op = "list" =>
    /\ job.start = 0
    /\ job.on /\ wait = "list" => job.got = <<>>
    /\ job.on /\ wait = "none" =>
         Len(job.got) <= server.names /\ req.names = Part(Len(job.got), server.names)
    /\ job.on /\ wait \in {"list", "next"} => req.names = <<>>
DataInv(req, wait, job, server) ==
  /\ FileInv(server)
  /\ SftpGotInv(job)
  /\ Ends(wait, job) /\ job.op \in Transfers => SftpWhole(job, server)
  /\ SftpGetInv(req, job) /\ SftpPutInv(req, wait, job, server) /\ SftpListInv(req, wait, job, server)

\* The request that is on its way
Asked(q, req, wait, job, server) ==
  /\ q.cmd = Cmd(wait)
  /\ q.cmd \in {"READ", "WRITE"} => q.h = req.buf /\ q.h # "none" /\ q.pos = req.offset
  /\ q.cmd = "READDIR" => q.h = req.handle /\ server.names = Len(job.got)
  /\ q.cmd = "WRITE" => q.data = SftpChunk(job) /\ job.from = Len(server.file)
  /\ q.cmd = "OPEN" /\ job.op = "put" => job.start = job.from /\ job.start \in {0, Len(server.file)}

\* The answer that is on its way
Told(r, req, wait, job, server) ==
  /\ r.to = Cmd(wait)
  /\ r.kind = "HANDLE" =>
       /\ r.h \in SftpHandles /\ server.open[r.h] = UseOf(job.op)
       /\ r.to = "OPENDIR" => server.names = 0
       /\ r.to = "OPEN" /\ job.op = "put" => job.from = Len(server.file)
  /\ r.to = "READDIR" /\ r.kind = "NAME" =>
       Len(job.got) < server.names /\ r.data = Part(Len(job.got), server.names)
  /\ r.to \in {"READ", "READDIR"} /\ r.code = "eof" => job.start + Len(job.got) = SftpSize
  /\ r.to = "READ" /\ r.kind = "DATA" =>
       req.offset + Len(r.data) <= SftpSize /\ r.data = Part(req.offset, req.offset + Len(r.data))
  /\ r.to = "WRITE" /\ r.code = "ok" => Len(server.file) = job.from + Len(SftpChunk(job))

\* One request, or its answer, is on its way while a call waits.
WireInv(req, wait, job, out, in, server) ==
  IF wait = "none" THEN out = <<>> /\ in = <<>>
  ELSE \/ in = <<>> /\ \E q \in SftpRequests : out = <<q>> /\ Asked(q, req, wait, job, server)
       \/ out = <<>> /\ \E r \in SftpMessages : in = <<r>> /\ Told(r, req, wait, job, server)

StateInv(req, wait, job, server) ==
  /\ Types(req, job, server) /\ SftpCallInv(req, wait, job, server)
  /\ HandleInv(req, wait, job, server) /\ BufferInv(req, wait, job)
  /\ DataInv(req, wait, job, server)
SftpInv ==
  /\ StateInv(sftpReq, sftpWait, sftpJob, sftpServer)
  /\ WireInv(sftpReq, sftpWait, sftpJob, sftpOut, sftpIn, sftpServer)
  /\ sftpTty \in SftpQuestions

-----------------------------------------------------------------------------
(* The bytes of the source *)

\* Part of the file is bytes of the file.
LEMMA SftpPartType ==
  ASSUME NEW a \in Nat, NEW b \in Nat, a <= b, b <= SftpSize
  PROVE  Part(a, b) \in SftpBytes
<1>1. Part(a, b) \in [1..(b - a) -> 0..SftpSize]
  BY SftpSizeAssumption DEF Part
<1>2. b - a \in 0..SftpSize
  BY SftpSizeAssumption
<1> QED
  BY <1>1, <1>2 DEF SftpBytes

\* A string of bytes is a sequence no longer than the file.
LEMMA SftpBytesSeq ==
  ASSUME NEW s \in SftpBytes
  PROVE  s \in Seq(Nat) /\ Len(s) \in Nat /\ Len(s) <= SftpSize
<1>1. PICK n \in 0..SftpSize : s \in [1..n -> 0..SftpSize]
  BY DEF SftpBytes
<1>2. n \in Nat /\ n <= SftpSize /\ s \in [1..n -> Nat]
  BY <1>1, SftpSizeAssumption
<1>3. s \in Seq(Nat) /\ Len(s) = n
  BY <1>2
<1> QED
  BY <1>2, <1>3

\* SubSeq() of the source
LEMMA SftpPartOfData ==
  ASSUME NEW a \in Nat, NEW b \in Nat, a <= b, b <= SftpSize
  PROVE  SubSeq(SftpData, a + 1, b) = Part(a, b)
<1>1. SftpData \in Seq(Nat) /\ Len(SftpData) = SftpSize /\ \A i \in 1..SftpSize : SftpData[i] = i
  <2>1. SftpSize \in Nat /\ SftpData \in [1..SftpSize -> Nat]
    BY SftpSizeAssumption DEF SftpData
  <2> QED
    BY <2>1 DEF SftpData
<1>2. SftpSize \in Nat
  BY SftpSizeAssumption
<1>3. SubSeq(SftpData, a + 1, b) \in Seq(Nat) /\ Len(SubSeq(SftpData, a + 1, b)) = b - a
      /\ \A i \in 1..(b - a) : SubSeq(SftpData, a + 1, b)[i] = a + i
  BY <1>1, <1>2
<1>4. PICK n \in Nat : n = b - a
  OBVIOUS
<1>5. Part(a, b) \in Seq(Nat) /\ Len(Part(a, b)) = n /\ \A i \in 1..n : Part(a, b)[i] = a + i
  BY <1>4, PartLen
<1>6. SubSeq(SftpData, a + 1, b) \in Seq(Nat) /\ Len(SubSeq(SftpData, a + 1, b)) = n
      /\ \A i \in 1..n : SubSeq(SftpData, a + 1, b)[i] = a + i
  BY <1>3, <1>4
<1> QED
  BY <1>5, <1>6, SameSeq

\* The source is the part from its start to its end.
LEMMA SftpDataIsPart == SftpData = Part(0, SftpSize)
<1>1. SftpSize \in Nat
  BY SftpSizeAssumption
<1>2. SftpSize - 0 = SftpSize /\ \A i \in 1..SftpSize : 0 + i = i
  BY <1>1
<1> QED
  BY <1>2 DEF SftpData, Part

\* SftpLaid() at the end of the file
LEMMA PartLaid ==
  ASSUME NEW n \in Nat, NEW m \in Nat, n <= m
  PROVE  SftpLaid(Part(0, n), n, Part(n, m)) = Part(0, m)
<1>0. n - 0 = n /\ 0 <= n /\ 0 <= m
  OBVIOUS
<1>1. Part(0, n) \in Seq(Nat) /\ Len(Part(0, n)) = n
  BY PartLen, <1>0
<1>2. Part(n, m) \in Seq(Nat) /\ Len(Part(n, m)) = m - n
  BY PartLen
<1>3. SubSeq(Part(0, n), 1, n) = Part(0, n)
  BY <1>1
<1>4. n + (m - n) + 1 > n
  OBVIOUS
<1>5. SubSeq(Part(0, n), n + (m - n) + 1, n) = <<>>
  BY <1>1, <1>4
<1>6. Part(0, n) \o Part(n, m) = Part(0, m) /\ Part(0, m) \in Seq(Nat)
  BY PartCat, PartLen, <1>0
<1>7. Part(0, m) \o <<>> = Part(0, m)
  BY <1>6
<1> QED
  BY <1>1, <1>2, <1>3, <1>5, <1>6, <1>7 DEF SftpLaid

-----------------------------------------------------------------------------
(* Outcomes *)

\* The session after outcome o, whose request is on its way, if any
OutcomeOk(o, server) ==
  IF o.req.up THEN StateInv(o.req, o.for, o.job, server) /\ WireInv(o.req, o.for, o.job, o.send, <<>>, server)
  ELSE StateInv(o.req, "none", o.job, SftpFresh(server.file))

\* What is left when a call fails
Known(req, job, server) ==
  /\ Types(req, job, server) /\ FileInv(server) /\ SftpGotInv(job)
  /\ job.op = "list" => job.start = 0

\* A new server has the old file.
LEMMA FreshType ==
  ASSUME NEW server \in SftpServerType
  PROVE  /\ SftpFresh(server.file) \in SftpServerType
         /\ SftpFresh(server.file).file = server.file
         /\ SftpFresh(SftpFresh(server.file).file) = SftpFresh(server.file)
<1>1. 0 \in 0..SftpSize /\ 0 \in 0..SftpPrompts
  BY SftpSizeAssumption
<1>2. [h \in SftpHandles |-> "free"] \in [SftpHandles -> {"free", "dir", "get", "put"}]
  OBVIOUS
<1> QED
  BY <1>1, <1>2 DEF SftpFresh, SftpServerType

\* sshv2_disconnect() leaves a request.
LEMMA DroppedType ==
  ASSUME NEW req \in ReqType
  PROVE  /\ SftpDropped(req) \in ReqType /\ ~SftpDropped(req).up /\ SftpDropped(req).login = "no"
         /\ SftpDropped(req).buf = req.buf
<1>1. <<>> \in SftpBytes
  <2>1. Part(0, 0) \in SftpBytes /\ Part(0, 0) = <<>>
    BY SftpPartType, PartNone, SftpSizeAssumption
  <2> QED
    BY <2>1
<1> QED
  BY <1>1 DEF SftpDropped, ReqType

\* A call returns.
LEMMA SftpReturnOk ==
  ASSUME NEW req, NEW job, NEW server, Known(req, job, server), req.login = "no",
         NEW ret \in {"none", "ok", "retry", "fatal"},
         req.buf # "none" => req.stale,
         ret = "ok" /\ job.clean /\ job.op \in Transfers => SftpWhole(job, server),
         req.up \/ ret # "ok"
  PROVE  OutcomeOk(SftpReturn(req, job, ret), server)
<1> DEFINE j == [job EXCEPT !.on = FALSE, !.ret = ret]
<1>1. req \in ReqType /\ job \in SftpJobType /\ server \in SftpServerType
  BY DEF Known, Types
<1>2. /\ j \in SftpJobType /\ ~j.on /\ j.ret = ret /\ j.op = job.op /\ j.clean = job.clean
      /\ j.start = job.start /\ j.got = job.got /\ j.from = job.from
  BY <1>1 DEF SftpJobType
<1>3. SftpReturn(req, job, ret) = [req |-> req, job |-> j, for |-> "none", send |-> <<>>]
  BY DEF SftpReturn, SftpOutcome
<1> HIDE DEF j
<1>4. ASSUME NEW s \in SftpServerType, s.file = server.file, req.up \/ s = SftpFresh(s.file)
      PROVE  StateInv(req, "none", j, s)
  <2>1. Types(req, j, s)
    BY <1>1, <1>2, <1>4 DEF Types
  <2>2. SftpCallInv(req, "none", j, s)
    BY <1>2, <1>4 DEF SftpCallInv
  <2>3. HandleInv(req, "none", j, s) /\ BufferInv(req, "none", j)
    BY <1>2 DEF HandleInv, BufferInv
  <2>4. DataInv(req, "none", j, s)
    <3>1. FileInv(s) /\ SftpGotInv(j)
      BY <1>2, <1>4 DEF Known, FileInv, SftpGotInv
    <3>2. Ends("none", j) /\ j.op \in Transfers => SftpWhole(j, s)
      BY <1>2, <1>4 DEF Ends, SftpWhole
    <3>3. SftpGetInv(req, j) /\ SftpPutInv(req, "none", j, s) /\ SftpListInv(req, "none", j, s)
      BY <1>2 DEF SftpGetInv, SftpPutInv, SftpListInv, Known
    <3> QED
      BY <3>1, <3>2, <3>3 DEF DataInv
  <2> QED
    BY <2>1, <2>2, <2>3, <2>4 DEF StateInv
<1>5. CASE req.up
  <2>1. StateInv(req, "none", j, server)
    BY <1>4, <1>5, <1>1
  <2>2. WireInv(req, "none", j, <<>>, <<>>, server)
    BY DEF WireInv
  <2> QED
    BY <2>1, <2>2, <1>3, <1>5 DEF OutcomeOk
<1>6. CASE ~req.up
  <2>1. StateInv(req, "none", j, SftpFresh(server.file))
    BY <1>4, <1>1, FreshType
  <2> QED
    BY <2>1, <1>3, <1>6 DEF OutcomeOk
<1> QED
  BY <1>5, <1>6

\* A call fails: what it has brought is the beginning of what it was for, and its buffer
\* is stale.
LEMMA FailOk ==
  ASSUME NEW req, NEW job, NEW server, Known(req, job, server), req.login = "no",
         NEW ret \in {"none", "retry", "fatal"}
  PROVE  OutcomeOk(SftpFail(req, job, ret), server)
<1> DEFINE q == [req EXCEPT !.stale = req.buf # "none"]
<1>1. req \in ReqType
  BY DEF Known, Types
<1>2. (req.buf # "none") \in BOOLEAN
  OBVIOUS
<1>3. q \in ReqType /\ q.login = "no" /\ q.up = req.up /\ q.buf = req.buf /\ q.stale = (req.buf # "none")
  BY <1>1, <1>2 DEF ReqType
<1>4. Known(q, job, server) /\ (q.buf # "none" => q.stale)
  BY <1>3 DEF Known, Types
<1>5. SftpFail(req, job, ret) = SftpReturn(q, job, ret)
  BY DEF SftpFail
<1> HIDE DEF q
<1> QED
  BY <1>3, <1>4, <1>5, SftpReturnOk

\* An answer that nobody expects ends the session.
LEMMA WrongOk ==
  ASSUME NEW req, NEW job, NEW server, Known(req, job, server)
  PROVE  OutcomeOk(SftpWrong(req, job), server)
<1>1. Known(SftpDropped(req), job, server) /\ SftpDropped(req).login = "no"
  BY DroppedType DEF Known, Types
<1> QED
  BY <1>1, FailOk DEF SftpWrong

\* sshv2_response_return_code()
LEMMA CodeOk ==
  ASSUME NEW req, NEW job, NEW server, Known(req, job, server), req.login = "no", NEW code \in SftpCodes
  PROVE  OutcomeOk(SftpReturnCode(req, job, code), server)
<1>1. OutcomeOk(SftpFail(req, job, "retry"), server) /\ OutcomeOk(SftpFail(req, job, "fatal"), server)
      /\ OutcomeOk(SftpWrong(req, job), server)
  BY FailOk, WrongOk
<1> QED
  BY <1>1 DEF SftpReturnCode, SftpCodes

\* sshv2_read_status_response()
LEMMA RefusedOk ==
  ASSUME NEW req, NEW job, NEW server, Known(req, job, server), req.login = "no", NEW r
  PROVE  OutcomeOk(SftpRefused(r, req, job), server)
<1>1. OutcomeOk(SftpFail(req, job, "retry"), server) /\ OutcomeOk(SftpFail(req, job, "fatal"), server)
      /\ OutcomeOk(SftpWrong(req, job), server)
  BY FailOk, WrongOk
<1> QED
  BY <1>1 DEF SftpRefused

\* A refusal is returned, or ends the session; the buffer is stale in either case.
LEMMA RefusedReturns ==
  ASSUME NEW req \in ReqType, NEW job, NEW r
  PROVE  \E q \in ReqType, ret \in {"retry", "fatal"} :
           SftpRefused(r, req, job) = SftpReturn(q, job, ret) /\ (q.buf # "none" => q.stale)
<1>1. ASSUME NEW p \in ReqType, NEW ret \in {"retry", "fatal"}
      PROVE  \E q \in ReqType : SftpFail(p, job, ret) = SftpReturn(q, job, ret) /\ (q.buf # "none" => q.stale)
  <2> DEFINE q == [p EXCEPT !.stale = p.buf # "none"]
  <2>1. (p.buf # "none") \in BOOLEAN
    OBVIOUS
  <2>2. q \in ReqType /\ q.buf = p.buf /\ q.stale = (p.buf # "none")
    BY <1>1, <2>1 DEF ReqType
  <2>3. SftpFail(p, job, ret) = SftpReturn(q, job, ret)
    BY DEF SftpFail
  <2> HIDE DEF q
  <2> QED
    BY <2>2, <2>3
<1>2. SftpDropped(req) \in ReqType
  BY DroppedType
<1>3. SftpWrong(req, job) = SftpFail(SftpDropped(req), job, "fatal")
  BY DEF SftpWrong
<1>4. SftpRefused(r, req, job) \in
        {SftpFail(SftpDropped(req), job, "fatal"), SftpFail(req, job, "fatal"), SftpFail(req, job, "retry")}
  BY <1>3 DEF SftpRefused
<1> QED
  BY <1>1, <1>2, <1>4

\* What a call returns
LEMMA ReturnRet ==
  ASSUME NEW job \in SftpJobType, NEW ret, NEW req
  PROVE  SftpReturn(req, job, ret).job.ret = ret
<1> DEFINE j == [job EXCEPT !.on = FALSE, !.ret = ret]
<1>1. SftpReturn(req, job, ret).job = j
  BY DEF SftpReturn, SftpOutcome
<1>2. j.ret = ret
  BY DEF SftpJobType
<1> HIDE DEF j
<1> QED
  BY <1>1, <1>2

\* A call that returns without a session instead
LEMMA ReturnReq ==
  ASSUME NEW r, NEW req, NEW job, NEW q, NEW ret, NEW server,
         SftpGotCwd(r, req, job) = SftpReturn(q, job, ret), SftpGotCwd(r, req, job).job.ret # "ok",
         OutcomeOk(SftpReturn(SftpDropped(q), job, ret), server)
  PROVE  OutcomeOk(SftpGotSecond(r, req, job), server)
<1> DEFINE j == [job EXCEPT !.on = FALSE, !.ret = ret]
           d == SftpDropped(q)
<1>1. SftpGotCwd(r, req, job) = [req |-> q, job |-> j, for |-> "none", send |-> <<>>]
  BY DEF SftpReturn, SftpOutcome
<1>2. SftpReturn(d, job, ret) = [req |-> d, job |-> j, for |-> "none", send |-> <<>>]
  BY DEF SftpReturn, SftpOutcome
<1>3. SftpGotCwd(r, req, job).req = q
  BY <1>1
<1>4. SftpGotSecond(r, req, job) = [SftpGotCwd(r, req, job) EXCEPT !.req = d]
  BY <1>3 DEF SftpGotSecond
<1> HIDE DEF j, d
<1>5. [SftpGotCwd(r, req, job) EXCEPT !.req = d] = [req |-> d, job |-> j, for |-> "none", send |-> <<>>]
  BY <1>1
<1> QED
  BY <1>2, <1>4, <1>5 DEF d

\* The caller goes on.
LEMMA GoOnOk ==
  ASSUME NEW req, NEW job, NEW server, StateInv(req, "none", job, server), req.up
  PROVE  OutcomeOk(SftpGoOn(req, job), server)
BY DEF SftpGoOn, SftpOutcome, OutcomeOk, WireInv

\* A request is sent.
LEMMA SendOk ==
  ASSUME NEW req, NEW job, NEW server, NEW wait, wait # "none", StateInv(req, wait, job, server), req.up,
         NEW cmd \in SftpCmds, NEW h \in SftpHandles \cup {"none"}, NEW pos \in 0..SftpSize, NEW data \in SftpBytes,
         Asked([cmd |-> cmd, h |-> h, pos |-> pos, data |-> data], req, wait, job, server)
  PROVE  OutcomeOk(SftpSend(req, job, wait, cmd, h, pos, data), server)
<1>1. [cmd |-> cmd, h |-> h, pos |-> pos, data |-> data] \in SftpRequests
  BY DEF SftpRequests
<1> QED
  BY <1>1 DEF SftpSend, SftpOutcome, OutcomeOk, WireInv

\* A request without data is sent.
LEMMA SftpAskOk ==
  ASSUME NEW req, NEW job, NEW server, NEW wait, wait # "none", StateInv(req, wait, job, server), req.up,
         NEW cmd \in SftpCmds \ {"READ", "WRITE", "READDIR"}, cmd = Cmd(wait),
         cmd = "OPEN" /\ job.op = "put" => job.start = job.from /\ job.start \in {0, Len(server.file)}
  PROVE  OutcomeOk(SftpAsk(req, job, wait, cmd), server)
<1>1. <<>> \in SftpBytes /\ 0 \in 0..SftpSize
  <2>1. Part(0, 0) \in SftpBytes /\ Part(0, 0) = <<>>
    BY SftpPartType, PartNone, SftpSizeAssumption
  <2> QED
    BY <2>1, SftpSizeAssumption
<1>2. Asked([cmd |-> cmd, h |-> "none", pos |-> 0, data |-> <<>>], req, wait, job, server)
  BY DEF Asked
<1> QED
  BY <1>1, <1>2, SendOk DEF SftpAsk

-----------------------------------------------------------------------------
(* The end of a transfer *)

\* The end of sshv2_end_transfer(): what ends without a refusal is whole.
LEMMA EndedOk ==
  ASSUME NEW req, NEW job, NEW server, Known(req, job, server), req.up, req.login = "no",
         job.clean /\ job.op \in Transfers => SftpWhole(job, server)
  PROVE  OutcomeOk(SftpEnded(req, job), server)
<1> DEFINE q == [req EXCEPT !.handle = "none", !.buf = "none", !.stale = FALSE]
<1>1. q \in ReqType /\ q.up /\ q.login = "no" /\ q.buf = "none"
  BY DEF Known, Types, ReqType
<1>2. Known(q, job, server)
  BY <1>1 DEF Known, Types
<1>3. SftpEnded(req, job) = SftpReturn(q, job, "ok")
  BY DEF SftpEnded
<1> HIDE DEF q
<1> QED
  BY <1>1, <1>2, <1>3, SftpReturnOk

\* sshv2_end_transfer() in a transfer
LEMMA EndOk ==
  ASSUME NEW req, NEW job, NEW server, Known(req, job, server), req.up, req.login = "no",
         job.on, job.ret = "none", job.op \in Transfers, req.handle \in SftpHandles,
         job.clean => SftpWhole(job, server), SftpGetInv(req, job), job.op = "put" => req.offset = job.from,
         req.buf # "none" /\ ~req.stale => job.op \in {"get", "put"} /\ req.buf = req.handle
  PROVE  OutcomeOk(SftpEnd(req, job), server)
<1> DEFINE q == [req EXCEPT !.names = <<>>]
<1>1. <<>> \in SftpBytes /\ 0 \in 0..SftpSize
  <2>1. Part(0, 0) \in SftpBytes /\ Part(0, 0) = <<>>
    BY SftpPartType, PartNone, SftpSizeAssumption
  <2> QED
    BY <2>1, SftpSizeAssumption
<1>2. /\ q \in ReqType /\ q.up /\ q.login = "no" /\ q.handle = req.handle /\ q.buf = req.buf
      /\ q.stale = req.stale /\ q.offset = req.offset
  BY <1>1 DEF Known, Types, ReqType
<1>3. req.handle # "none"
  BY SftpHandleAssumption
<1>4. SftpEnd(req, job) = SftpSend(q, job, "close", "CLOSE", req.handle, 0, <<>>)
  BY <1>3 DEF SftpEnd
<1> HIDE DEF q
<1>5. StateInv(q, "close", job, server)
  <2>1. Types(q, job, server)
    BY <1>2 DEF Known, Types
  <2>2. SftpCallInv(q, "close", job, server)
    BY <1>2 DEF SftpCallInv, WaitFits, Transfers
  <2>3. HandleInv(q, "close", job, server) /\ BufferInv(q, "close", job)
    BY <1>2 DEF HandleInv, BufferInv
  <2>4. DataInv(q, "close", job, server)
    BY <1>2 DEF DataInv, Known, Ends, SftpGetInv, SftpPutInv, SftpListInv
  <2> QED
    BY <2>1, <2>2, <2>3, <2>4 DEF StateInv
<1>6. Asked([cmd |-> "CLOSE", h |-> req.handle, pos |-> 0, data |-> <<>>], q, "close", job, server)
  BY DEF Asked, Cmd
<1>7. "CLOSE" \in SftpCmds
  BY DEF SftpCmds
<1> QED
  BY <1>1, <1>2, <1>4, <1>5, <1>6, <1>7, SendOk

-----------------------------------------------------------------------------
(* Answers *)

SftpOn(wait) == StateInv(sftpReq, wait, sftpJob, sftpServer)
Hears(wait, r) == SftpOn(wait) /\ r \in SftpMessages /\ Told(r, sftpReq, wait, sftpJob, sftpServer)

\* What is known of a call that waits
LEMMA OnFacts ==
  ASSUME NEW wait, SftpOn(wait), wait # "none"
  PROVE  /\ Known(sftpReq, sftpJob, sftpServer)
         /\ sftpReq \in ReqType /\ sftpJob \in SftpJobType /\ sftpServer \in SftpServerType
         /\ sftpReq.up /\ sftpJob.on /\ sftpJob.ret = "none" /\ WaitFits(wait, sftpJob.op)
         /\ wait # "version" => sftpReq.login = "no"
         /\ wait \notin {"read", "write", "close"} /\ sftpReq.buf # "none" => sftpReq.stale
BY DEF SftpOn, StateInv, Known, Types, DataInv, SftpListInv, SftpCallInv, BufferInv

\* A call of an operation without a transfer goes on to another request.
LEMMA PlainOk ==
  ASSUME NEW req \in ReqType, NEW job, NEW server, NEW wait, Known(req, job, server), req.up, job.on,
         job.ret = "none", WaitFits(wait, job.op), job.op \notin Transfers, req.login # "no" <=> wait = "version",
         req.buf # "none" => req.stale
  PROVE  StateInv(req, wait, job, server)
<1>1. SftpCallInv(req, wait, job, server)
  BY DEF SftpCallInv
<1>2. HandleInv(req, wait, job, server) /\ BufferInv(req, wait, job)
  BY DEF HandleInv, BufferInv
<1>3. DataInv(req, wait, job, server)
  BY DEF DataInv, Known, Ends, SftpGetInv, SftpPutInv, SftpListInv, Transfers
<1> QED
  BY <1>1, <1>2, <1>3 DEF StateInv, Known

\* sshv2_connect(): VERSION has come.
LEMMA VersionOk ==
  ASSUME NEW r, Hears("version", r)
  PROVE  OutcomeOk(SftpGotVersion(r, sftpReq, sftpJob), sftpServer)
<1> DEFINE q == [sftpReq EXCEPT !.login = "no"]
<1>0. PICK w : w = "version"
  OBVIOUS
<1>1. SftpOn(w) /\ w # "none"
  BY <1>0 DEF Hears
<1>2. /\ Known(sftpReq, sftpJob, sftpServer) /\ sftpReq \in ReqType /\ sftpReq.up /\ sftpJob.on
      /\ sftpJob.ret = "none" /\ sftpJob.op = "connect" /\ (sftpReq.buf # "none" => sftpReq.stale)
  <2>1. WaitFits(w, sftpJob.op)
    BY <1>1, OnFacts
  <2>2. sftpJob.op = "connect"
    BY <1>0, <2>1 DEF WaitFits
  <2> QED
    BY <1>0, <1>1, <2>2, OnFacts
<1>3. /\ q \in ReqType /\ q.login = "no" /\ q.up /\ q.buf = sftpReq.buf /\ q.stale = sftpReq.stale
  BY <1>2 DEF ReqType
<1>4. SftpGotVersion(r, sftpReq, sftpJob) =
        IF r.kind = "VERSION" THEN SftpAsk(q, sftpJob, "cwd", "REALPATH") ELSE SftpWrong(sftpReq, sftpJob)
  BY DEF SftpGotVersion, SftpGetcwd
<1> HIDE DEF q
<1>5. StateInv(q, "cwd", sftpJob, sftpServer)
  <2>1. Known(q, sftpJob, sftpServer)
    BY <1>2, <1>3 DEF Known, Types
  <2>2. WaitFits("cwd", sftpJob.op) /\ sftpJob.op \notin Transfers
    BY <1>2 DEF WaitFits, Transfers
  <2> QED
    BY <1>2, <1>3, <2>1, <2>2, PlainOk
<1>6. "REALPATH" = Cmd("cwd") /\ "REALPATH" \in SftpCmds \ {"READ", "WRITE", "READDIR"} /\ "REALPATH" # "OPEN"
  BY DEF Cmd, SftpCmds
<1>7. OutcomeOk(SftpAsk(q, sftpJob, "cwd", "REALPATH"), sftpServer)
  BY <1>3, <1>5, <1>6, SftpAskOk
<1> QED
  BY <1>2, <1>4, <1>7, WrongOk

\* sshv2_getcwd(), sshv2_chdir()
LEMMA CwdOk ==
  ASSUME NEW wait \in {"cwd", "cwd again", "chdir"}, NEW r, Hears(wait, r)
  PROVE  OutcomeOk(SftpGotCwd(r, sftpReq, sftpJob), sftpServer)
<1>1. SftpOn(wait) /\ wait # "none"
  BY DEF Hears
<1>2. /\ Known(sftpReq, sftpJob, sftpServer) /\ sftpReq.up /\ sftpReq.login = "no"
      /\ sftpJob.op \notin Transfers /\ (sftpReq.buf # "none" => sftpReq.stale)
  BY <1>1, OnFacts DEF WaitFits, Transfers
<1>3. OutcomeOk(SftpReturn(sftpReq, sftpJob, "ok"), sftpServer)
  BY <1>2, SftpReturnOk
<1> QED
  BY <1>2, <1>3, RefusedOk DEF SftpGotCwd

\* sshv2_connect(): the directory, or the one of the login
LEMMA FirstOk ==
  ASSUME NEW r, Hears("cwd", r)
  PROVE  OutcomeOk(SftpGotFirst(r, sftpReq, sftpJob), sftpServer)
<1>0. PICK w : w = "cwd"
  OBVIOUS
<1>1. SftpOn(w) /\ w # "none"
  BY <1>0 DEF Hears
<1>2. /\ Known(sftpReq, sftpJob, sftpServer) /\ sftpReq \in ReqType /\ sftpReq.up /\ sftpReq.login = "no" /\ sftpJob.on
      /\ sftpJob.ret = "none" /\ sftpJob.op = "connect" /\ (sftpReq.buf # "none" => sftpReq.stale)
  <2>1. WaitFits(w, sftpJob.op)
    BY <1>1, OnFacts
  <2>2. sftpJob.op = "connect"
    BY <1>0, <2>1 DEF WaitFits
  <2> QED
    BY <1>0, <1>1, <2>2, OnFacts
<1>3. OutcomeOk(SftpGotCwd(r, sftpReq, sftpJob), sftpServer)
  BY CwdOk
<1>4. StateInv(sftpReq, "cwd again", sftpJob, sftpServer)
  <2>1. WaitFits("cwd again", sftpJob.op) /\ sftpJob.op \notin Transfers
    BY <1>2 DEF WaitFits, Transfers
  <2> QED
    BY <1>2, <2>1, PlainOk
<1>5. "REALPATH" = Cmd("cwd again") /\ "REALPATH" \in SftpCmds \ {"READ", "WRITE", "READDIR"} /\ "REALPATH" # "OPEN"
  BY DEF Cmd, SftpCmds
<1>6. OutcomeOk(SftpAsk(sftpReq, sftpJob, "cwd again", "REALPATH"), sftpServer)
  BY <1>2, <1>4, <1>5, SftpAskOk
<1>7. OutcomeOk(SftpWrong(sftpReq, sftpJob), sftpServer)
  BY <1>2, WrongOk
<1> QED
  BY <1>3, <1>6, <1>7 DEF SftpGotFirst, SftpGetcwd

\* The second failure leaves the session.
LEMMA SecondOk ==
  ASSUME NEW r, Hears("cwd again", r)
  PROVE  OutcomeOk(SftpGotSecond(r, sftpReq, sftpJob), sftpServer)
<1> DEFINE second == SftpGotCwd(r, sftpReq, sftpJob)
<1>0. PICK w : w = "cwd again"
  OBVIOUS
<1>1. SftpOn(w) /\ w # "none"
  BY <1>0 DEF Hears
<1>2. /\ Known(sftpReq, sftpJob, sftpServer) /\ sftpReq \in ReqType
      /\ sftpJob \in SftpJobType
  BY <1>0, <1>1, OnFacts
<1>3. OutcomeOk(second, sftpServer)
  BY CwdOk
<1>4. CASE second.job.ret = "ok"
  BY <1>3, <1>4 DEF SftpGotSecond
<1>5. CASE second.job.ret # "ok"
  <2>1. r.kind # "NAME"
    BY <1>2, <1>5 DEF SftpGotCwd, SftpReturn, SftpOutcome, SftpJobType
  <2>2. second = SftpRefused(r, sftpReq, sftpJob)
    BY <2>1 DEF SftpGotCwd
  <2>3. PICK q \in ReqType, ret \in {"retry", "fatal"} :
          SftpRefused(r, sftpReq, sftpJob) = SftpReturn(q, sftpJob, ret) /\ (q.buf # "none" => q.stale)
    BY <1>2, RefusedReturns
  <2>4. SftpGotCwd(r, sftpReq, sftpJob) = SftpReturn(q, sftpJob, ret)
    BY <2>2, <2>3, Zenon
  <2>5. SftpGotCwd(r, sftpReq, sftpJob).job.ret # "ok"
    BY <1>5
  <2>6. Known(SftpDropped(q), sftpJob, sftpServer) /\ SftpDropped(q).login = "no"
    BY <1>2, DroppedType DEF Known, Types
  <2>7. SftpDropped(q).buf = q.buf /\ SftpDropped(q).stale = q.stale
    BY DEF SftpDropped, ReqType
  <2>8. OutcomeOk(SftpReturn(SftpDropped(q), sftpJob, ret), sftpServer)
    BY <2>3, <2>6, <2>7, SftpReturnOk
  <2> QED
    BY <2>4, <2>5, <2>8, ReturnReq
<1> QED
  BY <1>4, <1>5

\* sshv2_send_command_and_check_response(), sshv2_stat_filename(), sshv2_get_file_size()
LEMMA CommandOk ==
  ASSUME NEW wait \in {"stat", "command"}, NEW r, Hears(wait, r)
  PROVE  /\ OutcomeOk(SftpChecked(r, sftpReq, sftpJob), sftpServer)
         /\ OutcomeOk(SftpReturn(sftpReq, sftpJob, IF r.kind = "ATTRS" THEN "ok"
                                                   ELSE SftpRefused(r, sftpReq, sftpJob).job.ret), sftpServer)
<1>1. SftpOn(wait) /\ wait # "none" /\ r.code \in SftpCodes
  BY DEF Hears, SftpMessages
<1>2. /\ Known(sftpReq, sftpJob, sftpServer) /\ sftpReq \in ReqType /\ sftpJob \in SftpJobType
      /\ sftpReq.up /\ sftpReq.login = "no"
      /\ sftpJob.op \notin Transfers /\ (sftpReq.buf # "none" => sftpReq.stale)
  BY <1>1, OnFacts DEF WaitFits, Transfers
<1>3. \A ret \in {"ok", "retry", "fatal"} : OutcomeOk(SftpReturn(sftpReq, sftpJob, ret), sftpServer)
  BY <1>2, SftpReturnOk
<1>4. SftpRefused(r, sftpReq, sftpJob).job.ret \in {"retry", "fatal"}
  <2>1. PICK q \in ReqType, ret \in {"retry", "fatal"} : SftpRefused(r, sftpReq, sftpJob) = SftpReturn(q, sftpJob, ret)
    BY <1>2, RefusedReturns
  <2> QED
    BY <1>2, <2>1, ReturnRet
<1> QED
  BY <1>1, <1>2, <1>3, <1>4, CodeOk DEF SftpChecked

\* What a transfer that goes on or waits knows
LEMMA TransferOk ==
  ASSUME NEW req \in ReqType, NEW job, NEW server, NEW wait, Known(req, job, server),
         req.up, req.login = "no", job.on, job.ret = "none", WaitFits(wait, job.op), job.op \in Transfers,
         wait \notin {"list", "open", "close"}, req.handle \in SftpHandles, server.open[req.handle] = UseOf(job.op),
         BufferInv(req, wait, job), SftpGetInv(req, job), SftpPutInv(req, wait, job, server), SftpListInv(req, wait, job, server)
  PROVE  StateInv(req, wait, job, server)
<1>1. SftpCallInv(req, wait, job, server)
  BY DEF SftpCallInv, WaitFits, Transfers
<1>2. HandleInv(req, wait, job, server)
  BY DEF HandleInv
<1>3. DataInv(req, wait, job, server)
  BY DEF DataInv, Known, Ends
<1> QED
  BY <1>1, <1>2, <1>3 DEF StateInv, Known

\* sshv2_list_files(), sshv2_open_file(): the handle has come.
LEMMA HandleOk ==
  ASSUME NEW wait \in {"list", "open"}, NEW r, Hears(wait, r)
  PROVE  OutcomeOk(SftpGotHandle(r, sftpReq, sftpJob), sftpServer)
<1> DEFINE q == [sftpReq EXCEPT !.handle = r.h]
<1>1. SftpOn(wait) /\ wait # "none"
  BY DEF Hears
<1>2. /\ Known(sftpReq, sftpJob, sftpServer) /\ sftpReq \in ReqType /\ sftpReq.up /\ sftpReq.login = "no"
      /\ sftpJob.on /\ sftpJob.ret = "none" /\ (sftpReq.buf # "none" => sftpReq.stale) /\ WaitFits(wait, sftpJob.op)
  BY <1>1, OnFacts
<1>3. /\ (wait = "list" /\ sftpJob.op = "list") \/ (wait = "open" /\ sftpJob.op \in {"get", "put"})
      /\ sftpJob.op \in Transfers
  <2>1. CASE wait = "list"
    <3>1. WaitFits(wait, sftpJob.op)
      BY <1>2
    <3>2. sftpJob.op = "list"
      BY <2>1, <3>1 DEF WaitFits
    <3> QED
      BY <2>1, <3>2 DEF Transfers
  <2>2. CASE wait = "open"
    BY <1>2, <2>2 DEF WaitFits, Transfers
  <2> QED
    BY <2>1, <2>2
<1>4. CASE r.kind = "HANDLE"
  <2>1. r.h \in SftpHandles /\ sftpServer.open[r.h] = UseOf(sftpJob.op)
    BY <1>4 DEF Hears, Told
  <2>2. /\ q \in ReqType /\ q.up /\ q.login = "no" /\ q.handle = r.h /\ q.buf = sftpReq.buf /\ q.stale = sftpReq.stale
        /\ q.offset = sftpReq.offset /\ q.names = sftpReq.names
    BY <1>2, <2>1 DEF ReqType
  <2>3. Known(q, sftpJob, sftpServer)
    BY <1>2, <2>2 DEF Known, Types
  <2>4. SftpGotHandle(r, sftpReq, sftpJob) =
          IF sftpJob.op = "get" THEN SftpAsk(q, sftpJob, "size", "STAT") ELSE SftpGoOn(q, sftpJob)
    BY <1>4 DEF SftpGotHandle
  <2> HIDE DEF q
  <2>5. \A w : BufferInv(q, w, sftpJob)
    BY <1>2, <2>2 DEF BufferInv
  <2>6. SftpGetInv(q, sftpJob)
    BY <1>1, <2>2 DEF SftpOn, StateInv, DataInv, SftpGetInv
  <2>7. CASE sftpJob.op = "get"
    <3>1. PICK w : w = "size"
      OBVIOUS
    <3>2. SftpPutInv(q, w, sftpJob, sftpServer) /\ SftpListInv(q, w, sftpJob, sftpServer) /\ WaitFits(w, sftpJob.op)
      BY <2>7, <3>1 DEF SftpPutInv, SftpListInv, WaitFits
    <3>3. StateInv(q, w, sftpJob, sftpServer)
      BY <1>2, <1>3, <2>1, <2>2, <2>3, <2>5, <2>6, <3>1, <3>2, TransferOk
    <3>4. "STAT" = Cmd(w) /\ "STAT" \in SftpCmds \ {"READ", "WRITE", "READDIR"} /\ "STAT" # "OPEN"
      BY <3>1 DEF Cmd, SftpCmds
    <3>5. OutcomeOk(SftpAsk(q, sftpJob, w, "STAT"), sftpServer)
      BY <2>2, <3>1, <3>3, <3>4, SftpAskOk
    <3> QED
      BY <2>4, <2>7, <3>1, <3>5
  <2>8. CASE sftpJob.op # "get"
    <3>1. PICK w : w = "none"
      OBVIOUS
    <3>2. SftpPutInv(q, w, sftpJob, sftpServer)
      <4>1. CASE wait = "open"
        <5>1. r.to = "OPEN"
          BY <4>1 DEF Hears, Told, Cmd
        <5>2. sftpJob.op = "put" => sftpJob.from = Len(sftpServer.file)
          BY <1>4, <5>1 DEF Hears, Told
        <5>3. sftpJob.op = "put" => sftpReq.offset = sftpJob.from
          BY <1>1, <1>2 DEF SftpOn, StateInv, DataInv, SftpPutInv
        <5> QED
          BY <5>2, <5>3, <2>2 DEF SftpPutInv
      <4> QED
        BY <1>3, <4>1 DEF SftpPutInv
    <3>3. SftpListInv(q, w, sftpJob, sftpServer)
      <4>1. CASE wait = "list"
        <5>1. r.to = "OPENDIR"
          BY <4>1 DEF Hears, Told, Cmd
        <5>2. sftpServer.names = 0
          BY <1>4, <5>1 DEF Hears, Told
        <5>3. sftpJob.start = 0 /\ sftpJob.got = <<>> /\ sftpReq.names = <<>>
          BY <1>1, <1>2, <1>3, <4>1 DEF SftpOn, StateInv, DataInv, SftpListInv
        <5>4. Len(sftpJob.got) = 0 /\ Part(0, 0) = <<>>
          BY <5>3, PartNone
        <5> QED
          BY <5>2, <5>3, <5>4, <2>2, <3>1 DEF SftpListInv
      <4> QED
        BY <1>3, <4>1 DEF SftpListInv
    <3>4. WaitFits(w, sftpJob.op)
      BY <1>3, <2>8, <3>1 DEF WaitFits
    <3>5. StateInv(q, w, sftpJob, sftpServer)
      BY <1>2, <1>3, <2>1, <2>2, <2>3, <2>5, <2>6, <3>1, <3>2, <3>3, <3>4, TransferOk
    <3> QED
      BY <2>2, <2>4, <2>8, <3>1, <3>5, GoOnOk
  <2> QED
    BY <2>7, <2>8
<1>5. CASE r.kind # "HANDLE"
  <2>1. SftpGotHandle(r, sftpReq, sftpJob) = SftpRefused(r, sftpReq, sftpJob)
    BY <1>5 DEF SftpGotHandle
  <2> QED
    BY <1>2, <2>1, RefusedOk
<1> QED
  BY <1>4, <1>5

\* What a transfer knows while it waits for anything but its handle
LEMMA SftpMovingFacts ==
  ASSUME NEW wait, SftpOn(wait), sftpJob.on, sftpJob.op \in Transfers, wait \notin {"list", "open"}
  PROVE  /\ Known(sftpReq, sftpJob, sftpServer)
         /\ sftpReq \in ReqType /\ sftpJob \in SftpJobType /\ sftpServer \in SftpServerType
         /\ sftpReq.up /\ sftpJob.ret = "none" /\ WaitFits(wait, sftpJob.op) /\ sftpReq.login = "no"
         /\ wait # "close" =>
              sftpReq.handle \in SftpHandles /\ sftpServer.open[sftpReq.handle] = UseOf(sftpJob.op)
         /\ BufferInv(sftpReq, wait, sftpJob) /\ SftpGetInv(sftpReq, sftpJob)
         /\ SftpPutInv(sftpReq, wait, sftpJob, sftpServer) /\ SftpListInv(sftpReq, wait, sftpJob, sftpServer)
         /\ sftpJob.op = "put" => sftpReq.offset = sftpJob.from
BY DEF SftpOn, StateInv, Known, Types, DataInv, SftpListInv, SftpCallInv, HandleInv, SftpPutInv, WaitFits, Transfers

\* sshv2_get_file()
LEMMA SizeOk ==
  ASSUME NEW r, Hears("size", r)
  PROVE  OutcomeOk(SftpGotSize(r, sftpReq, sftpJob), sftpServer)
<1>1. PICK w, n : w = "size" /\ n = "none"
  OBVIOUS
<1>2. SftpOn(w) /\ w # "none" /\ w # "version"
  BY <1>1 DEF Hears
<1>3. WaitFits(w, sftpJob.op) /\ sftpJob.on
  BY <1>2, OnFacts
<1>4. sftpJob.op = "get" /\ sftpJob.op \in Transfers /\ WaitFits(n, sftpJob.op)
  BY <1>1, <1>3 DEF WaitFits, Transfers
<1>5. /\ Known(sftpReq, sftpJob, sftpServer) /\ sftpReq \in ReqType /\ sftpReq.up /\ sftpReq.login = "no"
      /\ sftpJob.ret = "none" /\ sftpReq.handle \in SftpHandles
      /\ sftpServer.open[sftpReq.handle] = UseOf(sftpJob.op) /\ SftpGetInv(sftpReq, sftpJob)
  BY <1>1, <1>2, <1>3, <1>4, SftpMovingFacts
<1>6. sftpReq.buf # "none" => sftpReq.stale
  BY <1>1, <1>2, OnFacts
<1>7. BufferInv(sftpReq, n, sftpJob) /\ SftpPutInv(sftpReq, n, sftpJob, sftpServer) /\ SftpListInv(sftpReq, n, sftpJob, sftpServer)
  BY <1>4, <1>6 DEF BufferInv, SftpPutInv, SftpListInv
<1>8. StateInv(sftpReq, n, sftpJob, sftpServer)
  BY <1>1, <1>3, <1>4, <1>5, <1>7, TransferOk
<1> QED
  BY <1>1, <1>5, <1>8, GoOnOk, RefusedOk DEF SftpGotSize

\* More has come of what a job is for.
LEMMA GrownOk ==
  ASSUME NEW job \in SftpJobType, NEW n \in Nat, SftpGotInv(job), n <= SftpSize, job.start + Len(job.got) <= n
  PROVE  LET j == [job EXCEPT !.got = @ \o Part(job.start + Len(job.got), n)]
         IN  j \in SftpJobType /\ SftpGotInv(j) /\ j.start + Len(j.got) = n
<1> DEFINE s == job.got \o Part(job.start + Len(job.got), n)
           j == [job EXCEPT !.got = s]
<1>1. job.start \in Nat /\ job.got \in SftpBytes
  BY SftpSizeAssumption DEF SftpJobType
<1>2. PICK m \in Nat : m = Len(job.got)
  BY <1>1, SftpBytesSeq
<1>3. PICK a \in Nat : a = job.start
  BY <1>1
<1>4. PICK b \in Nat : b = a + m
  BY <1>2, <1>3
<1>5. a <= b /\ b <= n /\ a <= n /\ job.start + Len(job.got) = b
  BY <1>2, <1>3, <1>4
<1>6. job.got = Part(a, b)
  BY <1>3, <1>5 DEF SftpGotInv
<1>7. s = Part(a, n)
  <2>1. Part(a, b) \o Part(b, n) = Part(a, n)
    BY <1>5, PartCat
  <2> QED
    BY <1>5, <1>6, <2>1
<1>8. Part(a, n) \in SftpBytes /\ Len(Part(a, n)) = n - a
  BY <1>5, SftpPartType, PartLen
<1>9. a + (n - a) = n
  OBVIOUS
<1> HIDE DEF s
<1>10. j \in SftpJobType /\ j.got = s /\ j.start = job.start
  BY <1>7, <1>8 DEF SftpJobType
<1> HIDE DEF j
<1>11. j.start + Len(j.got) = n
  BY <1>3, <1>7, <1>8, <1>9, <1>10
<1>12. SftpGotInv(j)
  BY <1>3, <1>7, <1>10, <1>11 DEF SftpGotInv
<1> QED
  BY <1>10, <1>11, <1>12 DEF s, j

\* sshv2_get_next_file(): the next name is given.
LEMMA GiveOk ==
  ASSUME NEW req, NEW job, NEW server, StateInv(req, "none", job, server), job.on, job.op = "list", req.names # <<>>
  PROVE  OutcomeOk(SftpGiveName(req, job), server)
<1> DEFINE q == [req EXCEPT !.names = Tail(@)]
           j == [job EXCEPT !.got = Append(@, Head(req.names))]
<1>1. /\ Known(req, job, server) /\ req \in ReqType /\ job \in SftpJobType /\ server \in SftpServerType /\ req.up /\ req.login = "no"
      /\ job.ret = "none" /\ job.start = 0 /\ SftpGotInv(job)
      /\ BufferInv(req, "none", job) /\ req.handle \in SftpHandles /\ server.open[req.handle] = UseOf(job.op)
      /\ Len(job.got) <= server.names /\ req.names = Part(Len(job.got), server.names)
  BY DEF StateInv, Known, Types, SftpCallInv, DataInv, SftpListInv, HandleInv, Transfers
<1>2. PICK g \in Nat : g = Len(job.got)
  BY <1>1, SftpBytesSeq DEF SftpJobType
<1>3. PICK n \in Nat : n = server.names /\ n <= SftpSize
  BY <1>1, SftpSizeAssumption DEF SftpServerType
<1>4. g < n
  <2>1. g <= n /\ Part(g, n) # <<>>
    BY <1>1, <1>2, <1>3
  <2>2. g # n
    BY <2>1, PartNone
  <2> QED
    BY <2>1, <2>2
<1>5. Head(req.names) = g + 1 /\ Tail(req.names) = Part(g + 1, n)
  BY <1>1, <1>2, <1>3, <1>4, PartStep
<1>6. Part(g + 1, n) \in SftpBytes
  BY <1>3, <1>4, SftpPartType
<1>7. /\ q \in ReqType /\ q.up /\ q.login = "no" /\ q.handle = req.handle /\ q.buf = req.buf /\ q.stale = req.stale
      /\ q.names = Part(g + 1, n)
  BY <1>1, <1>5, <1>6 DEF ReqType
<1>8. job.got = Part(0, g)
  <2>1. 0 + g = g
    OBVIOUS
  <2> QED
    BY <1>1, <1>2, <2>1 DEF SftpGotInv
<1>9. Append(job.got, Head(req.names)) = Part(0, g + 1)
  <2>1. Append(Part(0, g), g + 1) = Part(0, g + 1)
    <3>1. 0 <= g
      OBVIOUS
    <3> QED
      BY <3>1, PartAppend
  <2> QED
    BY <1>5, <1>8, <2>1
<1>10. Part(0, g + 1) \in SftpBytes /\ Len(Part(0, g + 1)) = g + 1 /\ g + 1 <= SftpSize
  <2>1. g + 1 <= SftpSize /\ g + 1 \in Nat /\ 0 <= g + 1 /\ (g + 1) - 0 = g + 1
    BY <1>3, <1>4, SftpSizeAssumption
  <2> QED
    BY <2>1, SftpPartType, PartLen
<1>11. /\ j \in SftpJobType /\ j.on /\ j.ret = "none" /\ j.op = "list" /\ j.start = 0 /\ j.got = Part(0, g + 1)
  BY <1>1, <1>9, <1>10 DEF SftpJobType
<1>12. SftpGiveName(req, job) = SftpGoOn(q, j)
  BY DEF SftpGiveName
<1> HIDE DEF q, j
<1>13. Known(q, j, server)
  <2>1. 0 + (g + 1) = g + 1
    OBVIOUS
  <2>2. SftpGotInv(j)
    BY <1>10, <1>11, <2>1 DEF SftpGotInv
  <2> QED
    BY <1>1, <1>7, <1>11, <2>2 DEF Known, Types
<1>14. PICK w : w = "none"
  OBVIOUS
<1>15. BufferInv(q, w, j) /\ SftpGetInv(q, j) /\ SftpPutInv(q, w, j, server)
  BY <1>1, <1>7, <1>11, <1>14 DEF BufferInv, SftpGetInv, SftpPutInv
<1>16. SftpListInv(q, w, j, server)
  <2>1. Len(j.got) = g + 1 /\ g + 1 <= server.names
    BY <1>3, <1>4, <1>10, <1>11
  <2> QED
    BY <1>3, <1>7, <1>11, <1>14, <2>1 DEF SftpListInv
<1>17. WaitFits(w, j.op) /\ j.op \in Transfers /\ UseOf(j.op) = UseOf(job.op)
  BY <1>11, <1>14 DEF WaitFits, Transfers
<1>18. StateInv(q, w, j, server)
  BY <1>1, <1>7, <1>11, <1>13, <1>14, <1>15, <1>16, <1>17, TransferOk
<1> QED
  BY <1>7, <1>12, <1>14, <1>18, GoOnOk

\* sshv2_get_next_file(): names have come, or the end.
LEMMA NamesOk ==
  ASSUME NEW r, Hears("next", r)
  PROVE  OutcomeOk(SftpGotNames(r, sftpReq, sftpJob), sftpServer)
<1>1. PICK w, n : w = "next" /\ n = "none"
  OBVIOUS
<1>2. SftpOn(w) /\ w # "none" /\ w # "version"
  BY <1>1 DEF Hears
<1>3. WaitFits(w, sftpJob.op) /\ sftpJob.on
  BY <1>2, OnFacts
<1>4. sftpJob.op = "list"
  BY <1>1, <1>3 DEF WaitFits
<1>5. sftpJob.op \in Transfers /\ WaitFits(n, sftpJob.op)
  BY <1>1, <1>4 DEF WaitFits, Transfers
<1>6. /\ Known(sftpReq, sftpJob, sftpServer) /\ sftpReq \in ReqType /\ sftpJob \in SftpJobType /\ sftpServer \in SftpServerType
      /\ sftpReq.up /\ sftpReq.login = "no"
      /\ sftpJob.ret = "none" /\ sftpReq.handle \in SftpHandles
      /\ sftpServer.open[sftpReq.handle] = UseOf(sftpJob.op) /\ SftpListInv(sftpReq, w, sftpJob, sftpServer)
  BY <1>1, <1>2, <1>3, <1>5, SftpMovingFacts
<1>7. sftpReq.buf # "none" => sftpReq.stale
  BY <1>1, <1>2, OnFacts
<1>8. CASE r.kind = "NAME"
  <2> DEFINE q == [sftpReq EXCEPT !.names = r.data]
  <2>1. Len(sftpJob.got) < sftpServer.names /\ r.data = Part(Len(sftpJob.got), sftpServer.names)
    <3>1. r.to = "READDIR"
      BY DEF Hears, Told, Cmd
    <3> QED
      BY <1>8, <3>1 DEF Hears, Told
  <2>2. r.data \in SftpBytes
    BY DEF Hears, SftpMessages
  <2>3. /\ q \in ReqType /\ q.up /\ q.login = "no" /\ q.handle = sftpReq.handle /\ q.buf = sftpReq.buf
        /\ q.stale = sftpReq.stale /\ q.names = r.data
    BY <1>6, <2>2 DEF ReqType
  <2>4. SftpGotNames(r, sftpReq, sftpJob) = SftpGiveName(q, sftpJob)
    BY <1>8 DEF SftpGotNames
  <2> HIDE DEF q
  <2>5. Known(q, sftpJob, sftpServer)
    BY <1>6, <2>3 DEF Known, Types
  <2>6. BufferInv(q, n, sftpJob) /\ SftpGetInv(q, sftpJob) /\ SftpPutInv(q, n, sftpJob, sftpServer)
    BY <1>4, <1>7, <2>3 DEF BufferInv, SftpGetInv, SftpPutInv
  <2>7. PICK g \in Nat : g = Len(sftpJob.got)
    BY <1>6, SftpBytesSeq DEF SftpJobType
  <2>8. PICK m \in Nat : m = sftpServer.names
    BY <1>6, SftpSizeAssumption DEF SftpServerType
  <2>9. g < m /\ g <= m
    BY <2>1, <2>7, <2>8
  <2>10. SftpListInv(q, n, sftpJob, sftpServer)
    BY <1>1, <1>4, <1>6, <2>1, <2>3, <2>7, <2>8, <2>9 DEF SftpListInv
  <2>11. StateInv(q, n, sftpJob, sftpServer)
    BY <1>1, <1>3, <1>5, <1>6, <2>3, <2>5, <2>6, <2>10, TransferOk
  <2>12. q.names # <<>>
    BY <2>1, <2>3, <2>7, <2>8, <2>9, PartEmpty
  <2> QED
    BY <1>1, <1>3, <1>4, <2>4, <2>11, <2>12, GiveOk
<1>9. CASE r.kind = "STATUS"
  <2> DEFINE j == [sftpJob EXCEPT !.clean = r.code = "eof"]
  <2>1. (r.code = "eof") \in BOOLEAN
    OBVIOUS
  <2>2. /\ j \in SftpJobType /\ j.clean = (r.code = "eof") /\ j.on /\ j.op = "list" /\ j.ret = "none"
        /\ j.start = sftpJob.start /\ j.got = sftpJob.got
    BY <1>3, <1>4, <1>6, <2>1 DEF SftpJobType
  <2>3. SftpGotNames(r, sftpReq, sftpJob) = SftpEnd(sftpReq, j)
    BY <1>9 DEF SftpGotNames
  <2> HIDE DEF j
  <2>4. Known(sftpReq, j, sftpServer)
    BY <1>6, <1>4, <2>2 DEF Known, Types, SftpGotInv
  <2>5. j.clean => SftpWhole(j, sftpServer)
    <3>1. r.to = "READDIR"
      BY DEF Hears, Told, Cmd
    <3>2. r.code = "eof" => sftpJob.start + Len(sftpJob.got) = SftpSize
      BY <3>1 DEF Hears, Told
    <3> QED
      BY <2>2, <3>2 DEF SftpWhole
  <2>6. SftpGetInv(sftpReq, j) /\ j.op \in Transfers /\ j.op # "put"
    BY <2>2 DEF SftpGetInv, Transfers
  <2> QED
    BY <1>6, <1>7, <2>2, <2>3, <2>4, <2>5, <2>6, EndOk
<1>10. CASE r.kind \notin {"NAME", "STATUS"}
  <2>1. SftpGotNames(r, sftpReq, sftpJob) = SftpWrong(sftpReq, sftpJob)
    BY <1>10 DEF SftpGotNames
  <2> QED
    BY <1>6, <2>1, WrongOk
<1> QED
  BY <1>8, <1>9, <1>10

\* A job whose transfer did not end as it should
LEMMA UncleanOk ==
  ASSUME NEW req, NEW job, NEW server, Known(req, job, server), req.up, req.login = "no",
         job.on, job.ret = "none", job.op \in Transfers, req.handle \in SftpHandles,
         SftpGetInv(req, job), job.op = "put" => req.offset = job.from,
         req.buf # "none" /\ ~req.stale => job.op \in {"get", "put"} /\ req.buf = req.handle
  PROVE  OutcomeOk(SftpEnd(req, [job EXCEPT !.clean = FALSE]), server)
<1> DEFINE j == [job EXCEPT !.clean = FALSE]
<1>1. job \in SftpJobType
  BY DEF Known, Types
<1>2. /\ j \in SftpJobType /\ ~j.clean /\ j.on /\ j.op = job.op /\ j.ret = "none" /\ j.from = job.from
      /\ j.start = job.start /\ j.got = job.got
  BY <1>1 DEF SftpJobType
<1> HIDE DEF j
<1>3. Known(req, j, server)
  BY <1>2 DEF Known, Types, SftpGotInv
<1>4. SftpGetInv(req, j)
  BY <1>2 DEF SftpGetInv
<1>5. OutcomeOk(SftpEnd(req, j), server)
  BY <1>2, <1>3, <1>4, EndOk
<1> QED
  BY <1>5 DEF j

\* sshv2_get_next_file_chunk(): bytes have come, or the end.
LEMMA DataOk ==
  ASSUME NEW r, Hears("read", r)
  PROVE  OutcomeOk(SftpGotData(r, sftpReq, sftpJob), sftpServer)
<1>1. PICK w, n : w = "read" /\ n = "none"
  OBVIOUS
<1>2. SftpOn(w) /\ w # "none" /\ w # "version"
  BY <1>1 DEF Hears
<1>3. WaitFits(w, sftpJob.op) /\ sftpJob.on
  BY <1>2, OnFacts
<1>4. sftpJob.op = "get"
  BY <1>1, <1>3 DEF WaitFits
<1>5. sftpJob.op \in Transfers /\ WaitFits(n, sftpJob.op)
  BY <1>1, <1>4 DEF WaitFits, Transfers
<1>6. /\ Known(sftpReq, sftpJob, sftpServer) /\ sftpReq \in ReqType /\ sftpJob \in SftpJobType /\ sftpServer \in SftpServerType
      /\ sftpReq.up /\ sftpReq.login = "no"
      /\ sftpJob.ret = "none" /\ sftpReq.handle \in SftpHandles
      /\ sftpServer.open[sftpReq.handle] = UseOf(sftpJob.op)
      /\ BufferInv(sftpReq, w, sftpJob) /\ SftpGetInv(sftpReq, sftpJob)
  BY <1>1, <1>2, <1>3, <1>5, SftpMovingFacts
<1>7. sftpReq.buf # "none" /\ ~sftpReq.stale => sftpReq.buf = sftpReq.handle
  BY <1>6 DEF BufferInv
<1>8. r.to = "READ" /\ r.code \in SftpCodes /\ r.data \in SftpBytes
  BY DEF Hears, Told, Cmd, SftpMessages
<1>9. CASE r.kind = "DATA"
  <2>1. PICK d \in Nat : d = Len(r.data)
    BY <1>8, SftpBytesSeq
  <2>2. PICK a \in Nat : a = sftpReq.offset
    BY <1>6, SftpSizeAssumption DEF ReqType
  <2>3. a + d <= SftpSize /\ r.data = Part(a, a + d)
    BY <1>8, <1>9, <2>1, <2>2 DEF Hears, Told
  <2>4. a = sftpJob.start + Len(sftpJob.got)
    BY <1>3, <1>4, <1>6, <2>2 DEF SftpGetInv
  <2>5. PICK m \in Nat : m = a + d /\ a <= m
    BY <2>1, <2>2
  <2>6. m \in 0..SftpSize
    BY <2>3, <2>5, SftpSizeAssumption
  <2> DEFINE q == [sftpReq EXCEPT !.offset = m]
             j == [sftpJob EXCEPT !.got = @ \o Part(sftpJob.start + Len(sftpJob.got), m)]
  <2>7. SftpGotData(r, sftpReq, sftpJob) = SftpGoOn(q, j)
    <3>1. sftpReq.offset + Len(r.data) = m /\ r.data = Part(sftpJob.start + Len(sftpJob.got), m)
      BY <2>1, <2>2, <2>3, <2>4, <2>5
    <3> QED
      BY <1>9, <3>1 DEF SftpGotData
  <2>8. j \in SftpJobType /\ SftpGotInv(j) /\ j.start + Len(j.got) = m
    BY <1>6, <2>3, <2>4, <2>5, GrownOk DEF Known
  <2>9. j.on /\ j.op = "get" /\ j.ret = "none"
    BY <1>3, <1>4, <1>6 DEF SftpJobType
  <2>10. /\ q \in ReqType /\ q.up /\ q.login = "no" /\ q.handle = sftpReq.handle /\ q.buf = sftpReq.buf
         /\ q.stale = sftpReq.stale /\ q.offset = m
    BY <1>6, <2>6 DEF ReqType
  <2> HIDE DEF q, j
  <2>11. Known(q, j, sftpServer)
    BY <1>6, <2>8, <2>9, <2>10 DEF Known, Types
  <2>12. BufferInv(q, n, j) /\ SftpGetInv(q, j) /\ SftpPutInv(q, n, j, sftpServer) /\ SftpListInv(q, n, j, sftpServer)
    BY <1>1, <1>7, <2>8, <2>9, <2>10 DEF BufferInv, SftpGetInv, SftpPutInv, SftpListInv
  <2>13. j.op = sftpJob.op
    BY <1>4, <2>9
  <2>14. StateInv(q, n, j, sftpServer)
    BY <1>1, <1>5, <1>6, <2>9, <2>10, <2>11, <2>12, <2>13, TransferOk
  <2> QED
    BY <1>1, <2>7, <2>10, <2>14, GoOnOk
<1>10. CASE r.kind # "DATA" /\ r.code = "eof"
  <2>1. sftpJob.start + Len(sftpJob.got) = SftpSize
    BY <1>8, <1>10 DEF Hears, Told
  <2>2. SftpWhole(sftpJob, sftpServer)
    BY <1>4, <2>1 DEF SftpWhole
  <2>3. SftpGotData(r, sftpReq, sftpJob) = SftpEnd(sftpReq, sftpJob)
    BY <1>10 DEF SftpGotData
  <2> QED
    BY <1>3, <1>4, <1>5, <1>6, <1>7, <2>2, <2>3, EndOk
<1>11. CASE r.kind # "DATA" /\ r.code # "eof"
  <2>1. SftpGotData(r, sftpReq, sftpJob) = SftpReturnCode(sftpReq, sftpJob, r.code)
    BY <1>11 DEF SftpGotData
  <2> QED
    BY <1>6, <1>8, <2>1, CodeOk
<1> QED
  BY <1>9, <1>10, <1>11

\* The bytes of the next WRITE: those that come next in the source, none at its end
LEMMA ChunkIs ==
  ASSUME NEW job \in SftpJobType
  PROVE  \E m \in Nat : /\ job.from <= m /\ m <= SftpSize /\ (job.from < SftpSize => job.from < m)
                        /\ SftpChunk(job) = Part(job.from, m) /\ Len(SftpChunk(job)) = m - job.from
                        /\ SftpChunk(job) \in SftpBytes
                        /\ (SftpChunk(job) = <<>> <=> job.from = SftpSize)
<1>1. PICK a \in Nat : a = job.from /\ a <= SftpSize
  BY SftpSizeAssumption DEF SftpJobType
<1>2. PICK m : m = IF a + SftpBlock < SftpSize THEN a + SftpBlock ELSE SftpSize
  OBVIOUS
<1>3. m \in Nat /\ a <= m /\ m <= SftpSize /\ (a < SftpSize => a < m)
  BY <1>1, <1>2, SftpSizeAssumption
<1>4. SftpChunk(job) = SubSeq(SftpData, a + 1, m)
  BY <1>1, <1>2 DEF SftpChunk
<1>5. SftpChunk(job) = Part(a, m)
  BY <1>1, <1>3, <1>4, SftpPartOfData
<1>6. Len(Part(a, m)) = m - a /\ Part(a, m) \in SftpBytes
  BY <1>1, <1>3, PartLen, SftpPartType
<1>7. SftpChunk(job) = <<>> <=> a = SftpSize
  <2>1. Part(a, m) = <<>> <=> a = m
    BY <1>3, PartEmpty
  <2>2. a = m <=> a = SftpSize
    BY <1>1, <1>3, SftpSizeAssumption
  <2> QED
    BY <1>5, <2>1, <2>2
<1> QED
  BY <1>1, <1>3, <1>5, <1>6, <1>7

\* sshv2_put_next_file_chunk(): the bytes are in the file, or refused.
LEMMA WrittenOk ==
  ASSUME NEW r, Hears("write", r), NEW o \in SftpGotWritten(r, sftpReq, sftpJob)
  PROVE  OutcomeOk(o, sftpServer)
<1>1. PICK w, n : w = "write" /\ n = "none"
  OBVIOUS
<1>2. SftpOn(w) /\ w # "none" /\ w # "version"
  BY <1>1 DEF Hears
<1>3. WaitFits(w, sftpJob.op) /\ sftpJob.on
  BY <1>2, OnFacts
<1>4. sftpJob.op = "put"
  BY <1>1, <1>3 DEF WaitFits
<1>5. sftpJob.op \in Transfers /\ WaitFits(n, sftpJob.op)
  BY <1>1, <1>4 DEF WaitFits, Transfers
<1>6. /\ Known(sftpReq, sftpJob, sftpServer) /\ sftpReq \in ReqType /\ sftpJob \in SftpJobType /\ sftpServer \in SftpServerType
      /\ sftpReq.up /\ sftpReq.login = "no"
      /\ sftpJob.ret = "none" /\ sftpReq.handle \in SftpHandles
      /\ sftpServer.open[sftpReq.handle] = UseOf(sftpJob.op)
      /\ BufferInv(sftpReq, w, sftpJob) /\ SftpGetInv(sftpReq, sftpJob)
  BY <1>1, <1>2, <1>3, <1>5, SftpMovingFacts
<1>7. sftpReq.offset = sftpJob.from
  BY <1>1, <1>2, <1>3, <1>4, <1>5, SftpMovingFacts
<1>8. sftpReq.buf # "none" /\ ~sftpReq.stale => sftpReq.buf = sftpReq.handle
  BY <1>6 DEF BufferInv
<1>9. r.to = "WRITE" /\ r.code \in SftpCodes
  BY DEF Hears, Told, Cmd, SftpMessages
<1>10. CASE r.kind = "STATUS" /\ r.code = "ok"
  <2>1. PICK m \in Nat : m <= SftpSize /\ Len(SftpChunk(sftpJob)) = m - sftpJob.from /\ sftpJob.from <= m
    BY <1>6, ChunkIs
  <2>2. PICK a \in Nat : a = sftpJob.from
    BY <1>6, SftpSizeAssumption DEF SftpJobType
  <2>3. a + (m - a) = m /\ m \in 0..SftpSize
    BY <2>1, <2>2, SftpSizeAssumption
  <2>4. Len(sftpServer.file) = m
    BY <1>9, <1>10, <2>1, <2>2, <2>3 DEF Hears, Told
  <2> DEFINE q == [sftpReq EXCEPT !.offset = m]
             j == [sftpJob EXCEPT !.from = m]
  <2>5. o = SftpGoOn(q, j)
    <3>1. sftpReq.offset + Len(SftpChunk(sftpJob)) = m /\ sftpJob.from + Len(SftpChunk(sftpJob)) = m
      BY <1>7, <2>1, <2>2, <2>3
    <3> QED
      BY <1>10, <3>1 DEF SftpGotWritten
  <2>6. /\ j \in SftpJobType /\ j.on /\ j.op = "put" /\ j.ret = "none" /\ j.from = m
        /\ j.start = sftpJob.start /\ j.got = sftpJob.got
    BY <1>3, <1>4, <1>6, <2>3 DEF SftpJobType
  <2>7. /\ q \in ReqType /\ q.up /\ q.login = "no" /\ q.handle = sftpReq.handle /\ q.buf = sftpReq.buf
        /\ q.stale = sftpReq.stale /\ q.offset = m
    BY <1>6, <2>3 DEF ReqType
  <2> HIDE DEF q, j
  <2>8. Known(q, j, sftpServer)
    BY <1>6, <2>6, <2>7 DEF Known, Types, SftpGotInv
  <2>9. BufferInv(q, n, j) /\ SftpGetInv(q, j) /\ SftpPutInv(q, n, j, sftpServer) /\ SftpListInv(q, n, j, sftpServer)
    BY <1>1, <1>8, <2>4, <2>6, <2>7 DEF BufferInv, SftpGetInv, SftpPutInv, SftpListInv
  <2>10. j.op = sftpJob.op
    BY <1>4, <2>6
  <2>11. StateInv(q, n, j, sftpServer)
    BY <1>1, <1>5, <1>6, <2>6, <2>7, <2>8, <2>9, <2>10, TransferOk
  <2> QED
    BY <1>1, <2>5, <2>7, <2>11, GoOnOk
<1>11. CASE r.kind # "STATUS"
  <2>1. o = SftpWrong(sftpReq, sftpJob)
    BY <1>11 DEF SftpGotWritten
  <2> QED
    BY <1>6, <2>1, WrongOk
<1>12. CASE r.kind = "STATUS" /\ r.code # "ok"
  <2>1. OutcomeOk(SftpReturnCode(sftpReq, sftpJob, r.code), sftpServer)
    BY <1>6, <1>9, CodeOk
  <2>2. OutcomeOk(SftpEnd(sftpReq, [sftpJob EXCEPT !.clean = FALSE]), sftpServer)
    BY <1>3, <1>4, <1>5, <1>6, <1>7, <1>8, UncleanOk
  <2>3. o \in {SftpReturnCode(sftpReq, sftpJob, r.code), SftpEnd(sftpReq, [sftpJob EXCEPT !.clean = FALSE])}
    BY <1>12 DEF SftpGotWritten
  <2> QED
    BY <2>1, <2>2, <2>3
<1> QED
  BY <1>10, <1>11, <1>12

\* The rest of sshv2_end_transfer()
LEMMA SftpClosedOk ==
  ASSUME NEW r, Hears("close", r)
  PROVE  OutcomeOk(SftpClosed(r, sftpReq, sftpJob), sftpServer)
<1>1. PICK w : w = "close"
  OBVIOUS
<1>2. SftpOn(w) /\ w # "none" /\ w # "version"
  BY <1>1 DEF Hears
<1>3. Known(sftpReq, sftpJob, sftpServer) /\ sftpReq.up /\ sftpReq.login = "no"
  BY <1>2, OnFacts
<1>4. sftpJob.clean /\ sftpJob.op \in Transfers => SftpWhole(sftpJob, sftpServer)
  BY <1>1, <1>2 DEF SftpOn, StateInv, DataInv, Ends
<1> QED
  BY <1>3, <1>4, EndedOk, WrongOk DEF SftpClosed

\* Whatever the answer is
LEMMA SftpOutcomesOk ==
  ASSUME NEW r, sftpWait \in SftpPurposes \ {"none"}, Hears(sftpWait, r), NEW o \in SftpOutcomes(r)
  PROVE  OutcomeOk(o, sftpServer)
<1>1. CASE sftpWait = "version"
  <2>1. Hears("version", r) /\ o = SftpGotVersion(r, sftpReq, sftpJob)
    BY <1>1 DEF SftpOutcomes
  <2> QED
    BY <2>1, VersionOk
<1>2. CASE sftpWait = "cwd"
  <2>1. Hears("cwd", r) /\ o = SftpGotFirst(r, sftpReq, sftpJob)
    BY <1>2 DEF SftpOutcomes
  <2> QED
    BY <2>1, FirstOk
<1>3. CASE sftpWait = "cwd again"
  <2>1. Hears("cwd again", r) /\ o = SftpGotSecond(r, sftpReq, sftpJob)
    BY <1>3 DEF SftpOutcomes
  <2> QED
    BY <2>1, SecondOk
<1>4. CASE sftpWait = "chdir"
  <2>1. o = SftpGotCwd(r, sftpReq, sftpJob)
    BY <1>4 DEF SftpOutcomes
  <2> QED
    BY <1>4, <2>1, CwdOk
<1>5. CASE sftpWait \in {"list", "open"}
  <2>1. o = SftpGotHandle(r, sftpReq, sftpJob)
    BY <1>5 DEF SftpOutcomes
  <2> QED
    BY <1>5, <2>1, HandleOk
<1>6. CASE sftpWait = "size"
  <2>1. Hears("size", r) /\ o = SftpGotSize(r, sftpReq, sftpJob)
    BY <1>6 DEF SftpOutcomes
  <2> QED
    BY <2>1, SizeOk
<1>7. CASE sftpWait = "next"
  <2>1. Hears("next", r) /\ o = SftpGotNames(r, sftpReq, sftpJob)
    BY <1>7 DEF SftpOutcomes
  <2> QED
    BY <2>1, NamesOk
<1>8. CASE sftpWait = "read"
  <2>1. Hears("read", r) /\ o = SftpGotData(r, sftpReq, sftpJob)
    BY <1>8 DEF SftpOutcomes
  <2> QED
    BY <2>1, DataOk
<1>9. CASE sftpWait = "write"
  <2>1. Hears("write", r) /\ o \in SftpGotWritten(r, sftpReq, sftpJob)
    BY <1>9 DEF SftpOutcomes
  <2> QED
    BY <2>1, WrittenOk
<1>10. CASE sftpWait = "close"
  <2>1. Hears("close", r) /\ o = SftpClosed(r, sftpReq, sftpJob)
    BY <1>10 DEF SftpOutcomes
  <2> QED
    BY <2>1, SftpClosedOk
<1>11. CASE sftpWait = "stat"
  <2>1. o = SftpReturn(sftpReq, sftpJob, IF r.kind = "ATTRS" THEN "ok" ELSE SftpRefused(r, sftpReq, sftpJob).job.ret)
    BY <1>11 DEF SftpOutcomes
  <2> QED
    BY <1>11, <2>1, CommandOk
<1>12. CASE sftpWait = "command"
  <2>1. o = SftpChecked(r, sftpReq, sftpJob)
    BY <1>12 DEF SftpOutcomes
  <2> QED
    BY <1>12, <2>1, CommandOk
<1> QED
  BY <1>1, <1>2, <1>3, <1>4, <1>5, <1>6, <1>7, <1>8, <1>9, <1>10, <1>11, <1>12 DEF SftpPurposes

-----------------------------------------------------------------------------
(* Steps of the client *)

\* The code goes on to an outcome.
LEMMA SftpApplied ==
  ASSUME NEW o, OutcomeOk(o, sftpServer), SftpApply(o, <<>>), sftpTty' \in SftpQuestions,
         o.req.up => sftpOut = <<>>
  PROVE  SftpInv'
<1>1. CASE o.req.up
  <2>1. StateInv(o.req, o.for, o.job, sftpServer) /\ WireInv(o.req, o.for, o.job, o.send, <<>>, sftpServer)
    BY <1>1 DEF OutcomeOk
  <2>2. /\ sftpReq' = o.req /\ sftpJob' = o.job /\ sftpWait' = o.for /\ sftpOut' = <<>> \o o.send /\ sftpIn' = <<>>
        /\ sftpServer' = sftpServer
    BY <1>1 DEF SftpApply
  <2>3. <<>> \o o.send = o.send
    <3>1. o.send = <<>> \/ \E q \in SftpRequests : o.send = <<q>>
      BY <2>1 DEF WireInv
    <3> QED
      BY <3>1
  <2> QED
    BY <2>1, <2>2, <2>3 DEF SftpInv
<1>2. CASE ~o.req.up
  <2>1. StateInv(o.req, "none", o.job, SftpFresh(sftpServer.file))
    BY <1>2 DEF OutcomeOk
  <2>2. /\ sftpReq' = o.req /\ sftpJob' = o.job /\ sftpWait' = "none" /\ sftpOut' = <<>> /\ sftpIn' = <<>>
        /\ sftpServer' = SftpFresh(sftpServer.file)
    BY <1>2 DEF SftpApply
  <2>3. WireInv(o.req, "none", o.job, <<>>, <<>>, SftpFresh(sftpServer.file))
    BY DEF WireInv
  <2> QED
    BY <2>1, <2>2, <2>3 DEF SftpInv
<1> QED
  BY <1>1, <1>2

\* What is known whatever the session does
LEMMA AlwaysKnown ==
  ASSUME SftpInv
  PROVE  /\ Known(sftpReq, sftpJob, sftpServer) /\ SftpOn(sftpWait)
         /\ sftpReq \in ReqType /\ sftpJob \in SftpJobType /\ sftpServer \in SftpServerType
         /\ sftpTty \in SftpQuestions /\ sftpWait \in SftpPurposes
         /\ sftpReq.login # "no" <=> sftpWait = "version"
<1>1. sftpWait \in SftpPurposes
  BY DEF SftpInv, StateInv, SftpCallInv, WaitFits, SftpPurposes
<1> QED
  BY <1>1 DEF SftpInv, StateInv, Known, Types, DataInv, SftpListInv, SftpCallInv, SftpOn

\* sshv2_read_response()
LEMMA ReadStep ==
  ASSUME SftpInv, SftpRead
  PROVE  SftpInv'
<1>1. sftpWait # "none" /\ sftpIn # <<>> /\ sftpTty' = "none"
  BY DEF SftpRead
<1>2. PICK r \in SftpMessages : sftpOut = <<>> /\ sftpIn = <<r>> /\ Told(r, sftpReq, sftpWait, sftpJob, sftpServer)
  BY <1>1 DEF SftpInv, WireInv
<1>3. Hears(sftpWait, r) /\ sftpWait \in SftpPurposes \ {"none"}
  BY <1>1, <1>2, AlwaysKnown DEF Hears
<1>4. Head(sftpIn) = r /\ Tail(sftpIn) = <<>>
  BY <1>2
<1>5. PICK o \in SftpOutcomes(r) : SftpApply(o, <<>>)
  BY <1>4 DEF SftpRead
<1>6. OutcomeOk(o, sftpServer)
  BY <1>3, SftpOutcomesOk
<1>7. sftpTty' \in SftpQuestions
  BY <1>1 DEF SftpQuestions
<1> QED
  BY <1>2, <1>5, <1>6, <1>7, SftpApplied

\* The session is left.
LEMMA DroppedStep ==
  ASSUME SftpInv, NEW ret \in {"none", "retry", "fatal"}, sftpTty' \in SftpQuestions, NEW in,
         SftpApply(SftpFail(SftpDropped(sftpReq), sftpJob, ret), in)
  PROVE  SftpInv'
<1> DEFINE o == SftpFail(SftpDropped(sftpReq), sftpJob, ret)
<1>1. Known(SftpDropped(sftpReq), sftpJob, sftpServer) /\ SftpDropped(sftpReq).login = "no"
  BY AlwaysKnown, DroppedType DEF Known, Types
<1>2. OutcomeOk(o, sftpServer)
  BY <1>1, FailOk
<1>3. ~o.req.up
  <2>1. SftpDropped(sftpReq) \in ReqType /\ ~SftpDropped(sftpReq).up
    BY AlwaysKnown, DroppedType
  <2>2. PICK d \in ReqType : d = SftpDropped(sftpReq) /\ ~d.up
    BY <2>1
  <2>3. ~SftpFail(d, sftpJob, ret).req.up
    BY <2>2 DEF SftpFail, SftpReturn, SftpOutcome, ReqType
  <2> QED
    BY <2>2, <2>3
<1>4. SftpApply(o, <<>>)
  BY <1>3 DEF SftpApply
<1> HIDE DEF o
<1> QED
  BY <1>2, <1>3, <1>4, SftpApplied

\* gftp_fd_read() fails, or waits in vain; the login is broken off.
LEMMA BrokenStep ==
  ASSUME SftpInv, SftpBroken \/ SftpLoginBroken
  PROVE  SftpInv'
<1>1. sftpTty' \in SftpQuestions
  BY DEF SftpBroken, SftpLoginBroken, SftpQuestions
<1>2. PICK ret \in {"none", "retry", "fatal"} : SftpApply(SftpFail(SftpDropped(sftpReq), sftpJob, ret), <<>>)
  BY DEF SftpBroken, SftpLoginBroken
<1> QED
  BY <1>1, <1>2, DroppedStep

\* sshv2_start_login_sequence(): an answer to a question
LEMMA LoginStep ==
  ASSUME SftpInv, SftpLogin
  PROVE  SftpInv'
<1>1. sftpReq.login # "no" /\ sftpIn = <<>> /\ sftpTty' = "none"
  BY DEF SftpLogin
<1>2. PICK w : w = sftpWait /\ w = "version"
  BY <1>1, AlwaysKnown
<1>3. sftpTty' \in SftpQuestions
  BY <1>1 DEF SftpQuestions
<1>4. SftpOn(w) /\ w # "none"
  BY <1>2, AlwaysKnown
<1>5. /\ Known(sftpReq, sftpJob, sftpServer) /\ sftpReq \in ReqType /\ sftpReq.up /\ sftpJob.on
      /\ sftpJob.ret = "none" /\ (sftpReq.buf # "none" => sftpReq.stale) /\ WaitFits(w, sftpJob.op)
  BY <1>2, <1>4, OnFacts
<1>6. sftpJob.op = "connect"
  BY <1>2, <1>5 DEF WaitFits
<1> DEFINE given == [sftpReq EXCEPT !.login = "wrotepw"]
<1>7. PICK o \in SftpAnswers : SftpApply(o, <<>>)
  BY <1>1 DEF SftpLogin
<1>8. \/ \E p \in {sftpReq, given} : o = SftpOutcome(p, sftpJob, sftpWait, <<>>)
      \/ o = SftpWrong(sftpReq, sftpJob)
  <2>1. [SftpOutcome(sftpReq, sftpJob, sftpWait, <<>>) EXCEPT !.req.login = "wrotepw"]
          = SftpOutcome(given, sftpJob, sftpWait, <<>>)
    BY DEF SftpOutcome
  <2>2. o \in {SftpOutcome(sftpReq, sftpJob, sftpWait, <<>>),
               [SftpOutcome(sftpReq, sftpJob, sftpWait, <<>>) EXCEPT !.req.login = "wrotepw"],
               SftpWrong(sftpReq, sftpJob)}
    BY <1>7 DEF SftpAnswers
  <2> QED
    BY <2>1, <2>2
<1>9. given \in ReqType /\ given.up /\ given.login = "wrotepw" /\ given.buf = sftpReq.buf /\ given.stale = sftpReq.stale
  BY <1>5 DEF ReqType
<1> HIDE DEF given
<1>10. CASE \E p \in {sftpReq, given} : o = SftpOutcome(p, sftpJob, sftpWait, <<>>)
  <2>1. PICK p \in {sftpReq, given} : o = SftpOutcome(p, sftpJob, sftpWait, <<>>)
    BY <1>10
  <2>2. p \in ReqType /\ p.up /\ p.login # "no" /\ (p.buf # "none" => p.stale)
    BY <1>1, <1>5, <1>9
  <2>3. sftpReq' = p /\ sftpJob' = sftpJob /\ sftpWait' = sftpWait /\ sftpOut' = sftpOut \o <<>> /\ sftpIn' = <<>>
        /\ sftpServer' = sftpServer
    BY <1>7, <2>1, <2>2 DEF SftpApply, SftpOutcome
  <2>4. Known(p, sftpJob, sftpServer)
    BY <1>5, <2>2 DEF Known, Types
  <2>5. sftpJob.op \notin Transfers
    BY <1>6 DEF Transfers
  <2>6. StateInv(p, w, sftpJob, sftpServer)
    BY <1>2, <1>5, <2>2, <2>4, <2>5, PlainOk
  <2>7. PICK q \in SftpRequests : sftpOut = <<q>> /\ Asked(q, sftpReq, w, sftpJob, sftpServer)
    BY <1>1, <1>2 DEF SftpInv, WireInv
  <2>8. q.cmd = "INIT"
    BY <1>2, <2>7 DEF Asked, Cmd
  <2>9. Asked(q, p, w, sftpJob, sftpServer)
    BY <2>7, <2>8 DEF Asked
  <2>10. sftpOut' = <<q>>
    BY <2>3, <2>7
  <2>11. WireInv(p, w, sftpJob, sftpOut', <<>>, sftpServer)
    BY <1>2, <2>9, <2>10 DEF WireInv
  <2> QED
    BY <1>2, <1>3, <2>3, <2>6, <2>11 DEF SftpInv
<1>11. CASE o = SftpWrong(sftpReq, sftpJob)
  <2>1. SftpApply(SftpFail(SftpDropped(sftpReq), sftpJob, "fatal"), <<>>)
    BY <1>7, <1>11 DEF SftpWrong
  <2>2. PICK ret \in {"none", "retry", "fatal"} : ret = "fatal"
    OBVIOUS
  <2> QED
    BY <1>3, <2>1, <2>2, DroppedStep
<1> QED
  BY <1>8, <1>10, <1>11

\* No variable changes.
LEMMA StutterStep ==
  ASSUME SftpInv, UNCHANGED sftpVars
  PROVE  SftpInv'
BY DEF SftpInv, sftpVars

\* A step of the client
LEMMA SftpClientStep ==
  ASSUME SftpInv, SftpClient
  PROVE  SftpInv'
<1>1. SftpSpin => UNCHANGED sftpVars
  BY DEF SftpSpin
<1> QED
  BY <1>1, ReadStep, BrokenStep, LoginStep, StutterStep DEF SftpClient

-----------------------------------------------------------------------------
(* Steps of the caller *)

\* The caller's call, when nothing is on its way
LEMMA CallStep ==
  ASSUME SftpInv, sftpWait = "none", NEW o, SftpCall(o), OutcomeOk(o, sftpServer)
  PROVE  SftpInv'
<1>1. sftpOut = <<>> /\ sftpIn = <<>>
  BY DEF SftpInv, WireInv
<1>2. SftpApply(o, <<>>) /\ sftpTty' \in SftpQuestions
  BY <1>1 DEF SftpCall, SftpInv
<1> QED
  BY <1>1, <1>2, SftpApplied

\* A new operation begins from zero.
LEMMA NewType ==
  ASSUME NEW op \in {"none", "connect", "list", "get", "put", "chdir", "command"}
  PROVE  LET j == SftpNew(op)
         IN  /\ j \in SftpJobType /\ j.op = op /\ j.on /\ j.ret = "none" /\ j.start = 0 /\ j.from = 0
             /\ j.got = <<>> /\ j.clean
<1>1. <<>> \in SftpBytes /\ 0 \in 0..SftpSize
  <2>1. Part(0, 0) \in SftpBytes /\ Part(0, 0) = <<>>
    BY SftpPartType, PartNone, SftpSizeAssumption
  <2> QED
    BY <2>1, SftpSizeAssumption
<1>2. PICK j \in SftpJobType : /\ j = SftpNoJob /\ j.ret = "none" /\ j.start = 0 /\ j.from = 0
                          /\ j.got = <<>> /\ j.clean
  <2>1. SftpNoJob \in SftpJobType
    BY <1>1 DEF SftpNoJob, SftpJobType
  <2>2. /\ SftpNoJob.ret = "none" /\ SftpNoJob.start = 0 /\ SftpNoJob.from = 0
        /\ SftpNoJob.got = <<>> /\ SftpNoJob.clean
    BY DEF SftpNoJob
  <2> QED
    BY <2>1, <2>2
<1>3. SftpNew(op) = [j EXCEPT !.op = op, !.on = TRUE]
  BY <1>2 DEF SftpNew
<1> QED
  BY <1>2, <1>3 DEF SftpJobType

\* An operation that has brought nothing yet
LEMMA NothingGot ==
  ASSUME NEW j \in SftpJobType, j.got = <<>>
  PROVE  SftpGotInv(j) /\ j.start + Len(j.got) = j.start
<1>1. PICK s \in Nat : s = j.start /\ s <= SftpSize
  BY SftpSizeAssumption DEF SftpJobType
<1>2. Part(s, s) = <<>> /\ s + 0 = s /\ Len(<<>>) = 0
  BY PartNone
<1> QED
  BY <1>1, <1>2 DEF SftpGotInv

\* Between operations
LEMMA SftpIdleFacts ==
  ASSUME SftpInv, SftpIdle
  PROVE  /\ sftpReq \in ReqType /\ sftpServer \in SftpServerType /\ FileInv(sftpServer)
         /\ sftpWait = "none" /\ sftpReq.login = "no" /\ (sftpReq.buf # "none" => sftpReq.stale)
BY DEF SftpInv, StateInv, Types, SftpCallInv, DataInv, BufferInv, SftpIdle

\* An operation without a transfer begins.
LEMMA PlainStep ==
  ASSUME SftpInv, SftpIdle, NEW op \in {"connect", "chdir", "command"}, NEW wait, WaitFits(wait, op),
         NEW req \in ReqType, req.up, req.buf = sftpReq.buf, req.stale = sftpReq.stale,
         req.login # "no" <=> wait = "version",
         NEW cmd \in SftpCmds \ {"READ", "WRITE", "READDIR", "OPEN"}, cmd = Cmd(wait),
         SftpCall(SftpAsk(req, SftpNew(op), wait, cmd))
  PROVE  SftpInv'
<1> DEFINE j == SftpNew(op)
<1>1. 0 \in 0..SftpSize
  BY SftpSizeAssumption
<1>2. j \in SftpJobType /\ j.op = op /\ j.on /\ j.ret = "none" /\ j.start = 0 /\ j.got = <<>>
  BY NewType
<1> HIDE DEF j
<1>3. j \in SftpJobType /\ j.op = op /\ j.on /\ j.ret = "none" /\ j.start = 0 /\ SftpGotInv(j)
  BY <1>2, NothingGot
<1>4. sftpServer \in SftpServerType /\ FileInv(sftpServer) /\ sftpWait = "none" /\ (req.buf # "none" => req.stale)
  BY SftpIdleFacts
<1>5. Known(req, j, sftpServer)
  BY <1>3, <1>4 DEF Known, Types
<1>6. j.op \notin Transfers /\ wait # "none"
  BY <1>3 DEF Transfers, WaitFits
<1>7. StateInv(req, wait, j, sftpServer)
  BY <1>3, <1>4, <1>5, <1>6, PlainOk
<1>8. OutcomeOk(SftpAsk(req, j, wait, cmd), sftpServer)
  BY <1>6, <1>7, SftpAskOk
<1> QED
  BY <1>4, <1>8, CallStep DEF j

\* sshv2_connect()
LEMMA SftpConnectStep ==
  ASSUME SftpInv, SftpConnect
  PROVE  SftpInv'
<1> DEFINE q == [sftpReq EXCEPT !.up = TRUE, !.login = "yes"]
<1>1. SftpIdle /\ SftpCall(SftpAsk(q, SftpNew("connect"), "version", "INIT"))
  BY DEF SftpConnect
<1>2. q \in ReqType /\ q.up /\ q.login = "yes" /\ q.buf = sftpReq.buf /\ q.stale = sftpReq.stale
  BY <1>1, SftpIdleFacts DEF ReqType
<1> HIDE DEF q
<1>3. PICK op \in {"connect"}, wait \in {"version"}, cmd \in {"INIT"} :
        op = "connect" /\ wait = "version" /\ cmd = "INIT"
  OBVIOUS
<1>4. WaitFits(wait, op) /\ cmd = Cmd(wait) /\ cmd \in SftpCmds \ {"READ", "WRITE", "READDIR", "OPEN"}
  BY <1>3 DEF WaitFits, Cmd, SftpCmds
<1>5. op \in {"connect", "chdir", "command"} /\ SftpCall(SftpAsk(q, SftpNew(op), wait, cmd))
  BY <1>1, <1>3
<1>6. q.login # "no" <=> wait = "version"
  BY <1>2, <1>3
<1> QED
  BY <1>1, <1>2, <1>4, <1>5, <1>6, PlainStep

\* sshv2_rmdir() and the other commands, sshv2_stat_filename(), sshv2_get_file_size(), sshv2_chdir()
LEMMA CommandStep ==
  ASSUME SftpInv, SftpCommand \/ SftpStat \/ SftpChdir
  PROVE  SftpInv'
<1>1. SftpIdle /\ sftpReq.up
  BY DEF SftpCommand, SftpStat, SftpChdir, SftpReady
<1>2. sftpReq \in ReqType /\ sftpReq.login = "no"
  BY <1>1, SftpIdleFacts
<1>3. PICK op \in {"command", "chdir"}, wait \in {"command", "stat", "chdir"}, cmd \in {"COMMAND", "STAT", "REALPATH"} :
        /\ SftpCall(SftpAsk(sftpReq, SftpNew(op), wait, cmd))
        /\ \/ op = "command" /\ wait = "command" /\ cmd = "COMMAND"
           \/ op = "command" /\ wait = "stat" /\ cmd = "STAT"
           \/ op = "chdir" /\ wait = "chdir" /\ cmd = "REALPATH"
  BY DEF SftpCommand, SftpStat, SftpChdir, SftpGetcwd
<1>4. op \in {"connect", "chdir", "command"} /\ wait # "version" /\ WaitFits(wait, op) /\ cmd = Cmd(wait)
      /\ cmd \in SftpCmds \ {"READ", "WRITE", "READDIR", "OPEN"}
  BY <1>3 DEF WaitFits, Cmd, SftpCmds
<1> QED
  BY <1>1, <1>2, <1>3, <1>4, PlainStep

\* A transfer or a listing begins.
LEMMA SftpBeginStep ==
  ASSUME SftpInv, SftpIdle, NEW j \in SftpJobType, NEW wait, NEW cmd, NEW req \in ReqType,
         j.on, j.ret = "none", j.got = <<>>, SftpGotInv(j), j.start + Len(j.got) = j.start,
         \/ j.op = "list" /\ j.start = 0 /\ req.names = <<>> /\ wait = "list" /\ cmd = "OPENDIR"
         \/ j.op = "get" /\ req.offset = j.start /\ wait = "open" /\ cmd = "OPEN"
         \/ /\ j.op = "put" /\ req.offset = j.start /\ j.from = j.start /\ j.start \in {0, Len(sftpServer.file)}
            /\ wait = "open" /\ cmd = "OPEN",
         req.up, req.login = "no", req.buf = sftpReq.buf, req.stale = sftpReq.stale,
         SftpCall(SftpAsk(req, j, wait, cmd))
  PROVE  SftpInv'
<1>1. sftpServer \in SftpServerType /\ FileInv(sftpServer) /\ sftpWait = "none" /\ (req.buf # "none" => req.stale)
  BY SftpIdleFacts
<1>2. WaitFits(wait, j.op) /\ wait \in {"list", "open"} /\ cmd = Cmd(wait)
  BY DEF WaitFits, Cmd
<1>3. SftpCallInv(req, wait, j, sftpServer)
  BY <1>2 DEF SftpCallInv
<1>4. HandleInv(req, wait, j, sftpServer) /\ BufferInv(req, wait, j)
  BY <1>1, <1>2 DEF HandleInv, BufferInv
<1>5. DataInv(req, wait, j, sftpServer)
  <2>1. ~Ends(wait, j)
    BY <1>2 DEF Ends
  <2>2. SftpGetInv(req, j)
    BY DEF SftpGetInv
  <2>3. SftpPutInv(req, wait, j, sftpServer)
    BY <1>2 DEF SftpPutInv
  <2>4. SftpListInv(req, wait, j, sftpServer)
    BY <1>2 DEF SftpListInv
  <2> QED
    BY <1>1, <2>1, <2>2, <2>3, <2>4 DEF DataInv
<1>6. StateInv(req, wait, j, sftpServer)
  BY <1>1, <1>3, <1>4, <1>5 DEF StateInv, Types
<1>7. cmd \in SftpCmds \ {"READ", "WRITE", "READDIR"} /\ wait # "none"
  BY <1>2 DEF SftpCmds, Cmd
<1>8. cmd = "OPEN" /\ j.op = "put" => j.start = j.from /\ j.start \in {0, Len(sftpServer.file)}
  OBVIOUS
<1>9. OutcomeOk(SftpAsk(req, j, wait, cmd), sftpServer)
  BY <1>2, <1>6, <1>7, <1>8, SftpAskOk
<1> QED
  BY <1>1, <1>9, CallStep

\* sshv2_list_files()
LEMMA ListStep ==
  ASSUME SftpInv, SftpListFiles
  PROVE  SftpInv'
<1> DEFINE q == [sftpReq EXCEPT !.names = <<>>]
           j == SftpNew("list")
<1>1. SftpIdle /\ sftpReq.up /\ SftpCall(SftpAsk(q, j, "list", "OPENDIR"))
  BY DEF SftpListFiles, SftpReady
<1>2. 0 \in 0..SftpSize /\ <<>> \in SftpBytes
  <2>1. Part(0, 0) \in SftpBytes /\ Part(0, 0) = <<>>
    BY SftpPartType, PartNone, SftpSizeAssumption
  <2> QED
    BY <2>1, SftpSizeAssumption
<1>3. q \in ReqType /\ q.up /\ q.login = "no" /\ q.names = <<>> /\ q.buf = sftpReq.buf /\ q.stale = sftpReq.stale
  BY <1>1, <1>2, SftpIdleFacts DEF ReqType
<1>4. PICK op \in {"list"} : op = "list"
  OBVIOUS
<1>5. SftpNew(op) \in SftpJobType /\ SftpNew(op).op = op /\ SftpNew(op).on /\ SftpNew(op).ret = "none"
      /\ SftpNew(op).start = 0 /\ SftpNew(op).got = <<>>
  BY <1>4, NewType
<1>6. j = SftpNew(op)
  BY <1>4
<1> HIDE DEF j
<1>7. j \in SftpJobType /\ j.op = "list" /\ j.on /\ j.ret = "none" /\ j.start = 0 /\ j.got = <<>> /\ SftpGotInv(j)
      /\ j.start + Len(j.got) = j.start
  BY <1>4, <1>5, <1>6, NothingGot
<1> HIDE DEF q
<1>8. PICK wait, cmd : wait = "list" /\ cmd = "OPENDIR"
  OBVIOUS
<1> QED
  BY <1>1, <1>3, <1>8, <1>7, SftpBeginStep

\* sshv2_get_file()
LEMMA GetStep ==
  ASSUME SftpInv, SftpGetFile
  PROVE  SftpInv'
<1>1. PICK start \in {0, 1} :
        SftpReady /\ SftpCall(SftpAsk([sftpReq EXCEPT !.offset = start], [SftpNew("get") EXCEPT !.start = start],
                                      "open", "OPEN"))
  BY DEF SftpGetFile
<1> DEFINE q == [sftpReq EXCEPT !.offset = start]
           j == [SftpNew("get") EXCEPT !.start = start]
<1>2. SftpIdle /\ sftpReq.up
  BY <1>1 DEF SftpReady
<1>3. start \in 0..SftpSize /\ 0 \in 0..SftpSize
  BY SftpSizeAssumption
<1>4. q \in ReqType /\ q.up /\ q.login = "no" /\ q.offset = start /\ q.buf = sftpReq.buf /\ q.stale = sftpReq.stale
  BY <1>2, <1>3, SftpIdleFacts DEF ReqType
<1>5. PICK op \in {"get"} : op = "get"
  OBVIOUS
<1>6. PICK new \in SftpJobType : new = SftpNew(op) /\ new.op = op /\ new.on /\ new.ret = "none" /\ new.got = <<>>
  BY <1>5, NewType
<1>7. j = [new EXCEPT !.start = start]
  BY <1>5, <1>6
<1>8. SftpCall(SftpAsk(q, j, "open", "OPEN"))
  BY <1>1
<1> HIDE DEF j
<1>9. j \in SftpJobType /\ j.op = "get" /\ j.on /\ j.ret = "none" /\ j.start = start /\ j.got = <<>>
  BY <1>3, <1>5, <1>6, <1>7 DEF SftpJobType
<1>10. j \in SftpJobType /\ j.op = "get" /\ j.on /\ j.ret = "none" /\ j.start = start /\ j.got = <<>> /\ SftpGotInv(j)
      /\ j.start + Len(j.got) = j.start
  BY <1>9, NothingGot
<1> HIDE DEF q
<1>11. PICK wait, cmd : wait = "open" /\ cmd = "OPEN"
  OBVIOUS
<1> QED
  BY <1>2, <1>4, <1>10, <1>8, <1>11, SftpBeginStep

\* sshv2_put_file()
LEMMA PutStep ==
  ASSUME SftpInv, SftpPutFile
  PROVE  SftpInv'
<1>1. PICK start \in {0, Len(sftpServer.file)} :
        SftpReady /\ SftpCall(SftpAsk([sftpReq EXCEPT !.offset = start],
                                      [SftpNew("put") EXCEPT !.start = start, !.from = start], "open", "OPEN"))
  BY DEF SftpPutFile
<1> DEFINE q == [sftpReq EXCEPT !.offset = start]
           j == [SftpNew("put") EXCEPT !.start = start, !.from = start]
<1>2. SftpIdle /\ sftpReq.up
  BY <1>1 DEF SftpReady
<1>3. start \in 0..SftpSize
  <2>1. sftpServer.file \in SftpBytes
    BY <1>2, SftpIdleFacts DEF SftpServerType
  <2>2. PICK n \in Nat : n = Len(sftpServer.file) /\ n <= SftpSize
    BY <2>1, SftpBytesSeq
  <2> QED
    BY <2>2, SftpSizeAssumption
<1>4. q \in ReqType /\ q.up /\ q.login = "no" /\ q.offset = start /\ q.buf = sftpReq.buf /\ q.stale = sftpReq.stale
  BY <1>2, <1>3, SftpIdleFacts DEF ReqType
<1>5. PICK op \in {"put"} : op = "put"
  OBVIOUS
<1>6. PICK new \in SftpJobType : new = SftpNew(op) /\ new.op = op /\ new.on /\ new.ret = "none" /\ new.got = <<>>
  BY <1>5, NewType
<1>7. j = [new EXCEPT !.start = start, !.from = start]
  BY <1>5, <1>6
<1>8. SftpCall(SftpAsk(q, j, "open", "OPEN"))
  BY <1>1
<1> HIDE DEF j
<1>9. j \in SftpJobType /\ j.op = "put" /\ j.on /\ j.ret = "none" /\ j.start = start /\ j.from = start /\ j.got = <<>>
  BY <1>3, <1>5, <1>6, <1>7 DEF SftpJobType
<1>10. j \in SftpJobType /\ j.op = "put" /\ j.on /\ j.ret = "none" /\ j.start = start /\ j.from = start /\ j.got = <<>>
      /\ SftpGotInv(j) /\ j.start + Len(j.got) = j.start
  BY <1>9, NothingGot
<1> HIDE DEF q
<1>11. PICK wait, cmd : wait = "open" /\ cmd = "OPEN"
  OBVIOUS
<1>12. j.start \in {0, Len(sftpServer.file)}
  BY <1>10
<1> QED
  BY <1>2, <1>4, <1>10, <1>8, <1>11, <1>12, SftpBeginStep

\* What is known of a transfer between its calls
LEMMA MovingNow ==
  ASSUME SftpInv, NEW op \in Transfers, SftpMoving(op)
  PROVE  /\ sftpWait = "none" /\ SftpOn(sftpWait) /\ sftpJob.on /\ sftpJob.op = op /\ sftpJob.op \in Transfers
         /\ Known(sftpReq, sftpJob, sftpServer)
         /\ sftpReq \in ReqType /\ sftpJob \in SftpJobType /\ sftpServer \in SftpServerType
         /\ sftpReq.up /\ sftpJob.ret = "none" /\ sftpReq.login = "no"
         /\ sftpReq.handle \in SftpHandles /\ sftpServer.open[sftpReq.handle] = UseOf(sftpJob.op)
         /\ BufferInv(sftpReq, sftpWait, sftpJob) /\ SftpGetInv(sftpReq, sftpJob)
         /\ SftpPutInv(sftpReq, sftpWait, sftpJob, sftpServer) /\ SftpListInv(sftpReq, sftpWait, sftpJob, sftpServer)
         /\ sftpJob.op = "put" => sftpReq.offset = sftpJob.from
         /\ sftpReq.buf # "none" /\ ~sftpReq.stale => sftpJob.op \in {"get", "put"} /\ sftpReq.buf = sftpReq.handle
<1>1. sftpJob.on /\ sftpJob.op = op /\ sftpWait = "none"
  BY DEF SftpMoving
<1>2. SftpOn(sftpWait)
  BY AlwaysKnown
<1>3. BufferInv(sftpReq, sftpWait, sftpJob)
  BY <1>2 DEF SftpOn, StateInv
<1>4. sftpReq.buf # "none" /\ ~sftpReq.stale => sftpJob.op \in {"get", "put"} /\ sftpReq.buf = sftpReq.handle
  BY <1>3 DEF BufferInv
<1>5. sftpWait \notin {"list", "open", "close"}
  BY <1>1
<1> QED
  BY <1>1, <1>2, <1>4, <1>5, SftpMovingFacts

\* sshv2_get_next_file()
LEMMA NextFileStep ==
  ASSUME SftpInv, SftpNextFile
  PROVE  SftpInv'
<1>1. PICK op \in Transfers : op = "list"
  BY DEF Transfers
<1>2. SftpMoving(op)
  BY <1>1 DEF SftpNextFile
<1>3. /\ sftpWait = "none" /\ SftpOn(sftpWait) /\ sftpJob.on /\ sftpJob.op = "list" /\ sftpJob.op \in Transfers
      /\ Known(sftpReq, sftpJob, sftpServer) /\ sftpReq \in ReqType /\ sftpJob \in SftpJobType /\ sftpServer \in SftpServerType
      /\ sftpReq.up /\ sftpJob.ret = "none" /\ sftpReq.login = "no"
      /\ sftpReq.handle \in SftpHandles /\ sftpServer.open[sftpReq.handle] = UseOf(sftpJob.op)
      /\ SftpListInv(sftpReq, sftpWait, sftpJob, sftpServer)
      /\ (sftpReq.buf # "none" /\ ~sftpReq.stale => sftpJob.op \in {"get", "put"})
  BY <1>1, <1>2, MovingNow
<1>4. CASE sftpReq.names # <<>>
  <2>1. SftpCall(SftpGiveName(sftpReq, sftpJob))
    BY <1>4 DEF SftpNextFile
  <2>2. StateInv(sftpReq, "none", sftpJob, sftpServer)
    BY <1>3 DEF SftpOn
  <2>3. OutcomeOk(SftpGiveName(sftpReq, sftpJob), sftpServer)
    BY <1>3, <1>4, <2>2, GiveOk
  <2> QED
    BY <1>3, <2>1, <2>3, CallStep
<1>5. CASE sftpReq.names = <<>>
  <2>1. PICK w, cmd : w = "next" /\ cmd = "READDIR"
    OBVIOUS
  <2>2. SftpCall(SftpSend(sftpReq, sftpJob, w, cmd, sftpReq.handle, 0, <<>>))
    BY <1>5, <2>1 DEF SftpNextFile
  <2>3. WaitFits(w, sftpJob.op) /\ cmd \in SftpCmds /\ cmd = Cmd(w) /\ w \notin {"none", "list", "open", "close"}
    BY <1>3, <2>1 DEF WaitFits, Cmd, SftpCmds
  <2>4. sftpServer.names = Len(sftpJob.got)
    <3>1. PICK g \in Nat : g = Len(sftpJob.got)
      BY <1>3, SftpBytesSeq DEF SftpJobType
    <3>2. PICK n \in Nat : n = sftpServer.names
      BY <1>3, SftpSizeAssumption DEF SftpServerType
    <3>3. g <= n /\ Part(g, n) = <<>>
      BY <1>3, <1>5, <3>1, <3>2 DEF SftpListInv
    <3> QED
      BY <3>1, <3>2, <3>3, PartEmpty
  <2>5. BufferInv(sftpReq, w, sftpJob) /\ SftpGetInv(sftpReq, sftpJob) /\ SftpPutInv(sftpReq, w, sftpJob, sftpServer)
    BY <1>3 DEF BufferInv, SftpGetInv, SftpPutInv
  <2>6. SftpListInv(sftpReq, w, sftpJob, sftpServer)
    BY <1>3, <1>5, <2>1 DEF SftpListInv
  <2>7. StateInv(sftpReq, w, sftpJob, sftpServer)
    BY <1>3, <2>3, <2>5, <2>6, TransferOk
  <2>8. <<>> \in SftpBytes /\ 0 \in 0..SftpSize
    <3>1. Part(0, 0) \in SftpBytes /\ Part(0, 0) = <<>>
      BY SftpPartType, PartNone, SftpSizeAssumption
    <3> QED
      BY <3>1, SftpSizeAssumption
  <2>9. Asked([cmd |-> cmd, h |-> sftpReq.handle, pos |-> 0, data |-> <<>>], sftpReq, w, sftpJob, sftpServer)
    BY <2>1, <2>3, <2>4 DEF Asked
  <2>10. OutcomeOk(SftpSend(sftpReq, sftpJob, w, cmd, sftpReq.handle, 0, <<>>), sftpServer)
    BY <1>3, <2>3, <2>7, <2>8, <2>9, SendOk
  <2> QED
    BY <1>3, <2>2, <2>10, CallStep
<1> QED
  BY <1>4, <1>5

\* transfer_buffer is made for a READ or WRITE, or is there.
LEMMA BufferIs ==
  ASSUME NEW req \in ReqType, req.handle \in SftpHandles
  PROVE  LET q == SftpBuffer(req)
         IN  /\ q \in ReqType /\ q.buf # "none" /\ q.up = req.up /\ q.login = req.login /\ q.handle = req.handle
             /\ q.offset = req.offset /\ q.stale = req.stale /\ q.names = req.names
             /\ q.buf = IF req.buf = "none" THEN req.handle ELSE req.buf
BY SftpHandleAssumption DEF SftpBuffer, ReqType

\* sshv2_get_next_file_chunk(), sshv2_put_next_file_chunk(): a READ or a WRITE is sent.
LEMMA ChunkStep ==
  ASSUME SftpInv, NEW op \in {"get", "put"}, SftpMoving(op), NEW w, NEW cmd, NEW data \in SftpBytes,
         (op = "get" /\ w = "read" /\ cmd = "READ") \/ (op = "put" /\ w = "write" /\ cmd = "WRITE"),
         cmd = "WRITE" => data = SftpChunk(sftpJob),
         SftpCall(SftpSend(SftpBuffer(sftpReq), sftpJob, w, cmd, SftpBuffer(sftpReq).buf, SftpBuffer(sftpReq).offset, data))
  PROVE  SftpInv'
<1>1. op \in Transfers
  BY DEF Transfers
<1>2. /\ sftpWait = "none" /\ SftpOn(sftpWait) /\ sftpJob.on /\ sftpJob.op = op /\ sftpJob.op \in Transfers
      /\ Known(sftpReq, sftpJob, sftpServer) /\ sftpReq \in ReqType /\ sftpJob \in SftpJobType /\ sftpServer \in SftpServerType
      /\ sftpReq.up /\ sftpJob.ret = "none" /\ sftpReq.login = "no"
      /\ sftpReq.handle \in SftpHandles /\ sftpServer.open[sftpReq.handle] = UseOf(sftpJob.op)
      /\ SftpGetInv(sftpReq, sftpJob) /\ SftpPutInv(sftpReq, sftpWait, sftpJob, sftpServer)
      /\ (sftpReq.buf # "none" /\ ~sftpReq.stale => sftpReq.buf = sftpReq.handle)
  BY <1>1, MovingNow
<1>3. PICK q \in ReqType : q = SftpBuffer(sftpReq) /\ q.buf # "none" /\ q.up /\ q.login = "no" /\ q.handle = sftpReq.handle
             /\ q.offset = sftpReq.offset /\ (~q.stale => q.buf = q.handle)
  BY <1>2, BufferIs
<1>4. WaitFits(w, sftpJob.op) /\ cmd \in SftpCmds /\ cmd = Cmd(w) /\ w \in {"read", "write"}
  BY <1>2 DEF WaitFits, Cmd, SftpCmds
<1>5. BufferInv(q, w, sftpJob) /\ SftpGetInv(q, sftpJob)
  BY <1>2, <1>3, <1>4 DEF BufferInv, SftpGetInv
<1>6. sftpJob.op = "put" => sftpReq.offset = sftpJob.from /\ sftpJob.from = Len(sftpServer.file)
  BY <1>2 DEF SftpPutInv
<1>7. SftpPutInv(q, w, sftpJob, sftpServer) /\ SftpListInv(q, w, sftpJob, sftpServer)
  BY <1>2, <1>3, <1>6 DEF SftpPutInv, SftpListInv
<1>8. Known(q, sftpJob, sftpServer)
  BY <1>2, <1>3 DEF Known, Types
<1>9. StateInv(q, w, sftpJob, sftpServer)
  BY <1>2, <1>3, <1>4, <1>5, <1>7, <1>8, TransferOk
<1>10. Asked([cmd |-> cmd, h |-> q.buf, pos |-> q.offset, data |-> data], q, w, sftpJob, sftpServer)
  BY <1>2, <1>3, <1>4, <1>6 DEF Asked
<1>11. q.buf \in SftpHandles \cup {"none"} /\ q.offset \in 0..SftpSize
  BY <1>3 DEF ReqType
<1>12. OutcomeOk(SftpSend(q, sftpJob, w, cmd, q.buf, q.offset, data), sftpServer)
  BY <1>3, <1>4, <1>9, <1>10, <1>11, SendOk
<1>13. SftpCall(SftpSend(q, sftpJob, w, cmd, q.buf, q.offset, data))
  BY <1>3
<1> QED
  BY <1>2, <1>12, <1>13, CallStep

\* sshv2_get_next_file_chunk()
LEMMA SftpNextReadStep ==
  ASSUME SftpInv, SftpNextRead
  PROVE  SftpInv'
<1>1. <<>> \in SftpBytes
  <2>1. Part(0, 0) \in SftpBytes /\ Part(0, 0) = <<>>
    BY SftpPartType, PartNone, SftpSizeAssumption
  <2> QED
    BY <2>1
<1>2. PICK op \in {"get", "put"}, w \in {"read", "write"}, cmd \in {"READ", "WRITE"} : op = "get" /\ w = "read" /\ cmd = "READ"
  OBVIOUS
<1>3. SftpMoving(op) /\ SftpCall(SftpSend(SftpBuffer(sftpReq), sftpJob, w, cmd, SftpBuffer(sftpReq).buf,
                                          SftpBuffer(sftpReq).offset, <<>>))
  BY <1>2 DEF SftpNextRead
<1>4. PICK data \in SftpBytes : data = <<>>
  BY <1>1
<1>5. cmd = "WRITE" => data = SftpChunk(sftpJob)
  BY <1>2
<1> QED
  BY <1>2, <1>3, <1>4, <1>5, ChunkStep

\* sshv2_put_next_file_chunk()
LEMMA SftpNextWriteStep ==
  ASSUME SftpInv, SftpNextWrite
  PROVE  SftpInv'
<1>1. PICK op \in {"get", "put"}, w \in {"read", "write"}, cmd \in {"READ", "WRITE"} : op = "put" /\ w = "write" /\ cmd = "WRITE"
  OBVIOUS
<1>2. SftpMoving(op) /\ op \in Transfers
  BY <1>1 DEF SftpNextWrite, Transfers
<1>3. /\ sftpWait = "none" /\ SftpOn(sftpWait) /\ sftpJob.on /\ sftpJob.op = "put" /\ sftpJob.op \in Transfers
      /\ Known(sftpReq, sftpJob, sftpServer) /\ sftpReq \in ReqType /\ sftpJob \in SftpJobType /\ sftpServer \in SftpServerType
      /\ sftpReq.up /\ sftpJob.ret = "none" /\ sftpReq.login = "no" /\ sftpReq.handle \in SftpHandles
      /\ SftpGetInv(sftpReq, sftpJob) /\ SftpPutInv(sftpReq, sftpWait, sftpJob, sftpServer)
      /\ sftpReq.offset = sftpJob.from
      /\ (sftpReq.buf # "none" /\ ~sftpReq.stale => sftpJob.op \in {"get", "put"} /\ sftpReq.buf = sftpReq.handle)
  BY <1>1, <1>2, MovingNow
<1>4. SftpChunk(sftpJob) \in SftpBytes /\ (SftpChunk(sftpJob) = <<>> => sftpJob.from = SftpSize)
  BY <1>3, ChunkIs
<1>5. CASE SftpChunk(sftpJob) = <<>>
  <2>1. SftpCall(SftpEnd(sftpReq, sftpJob))
    BY <1>5 DEF SftpNextWrite
  <2>2. SftpWhole(sftpJob, sftpServer)
    BY <1>3, <1>4, <1>5 DEF SftpWhole, SftpPutInv
  <2>3. OutcomeOk(SftpEnd(sftpReq, sftpJob), sftpServer)
    BY <1>3, <2>2, EndOk
  <2> QED
    BY <1>3, <2>1, <2>3, CallStep
<1>6. CASE SftpChunk(sftpJob) # <<>>
  <2>1. SftpCall(SftpSend(SftpBuffer(sftpReq), sftpJob, w, cmd, SftpBuffer(sftpReq).buf,
                          SftpBuffer(sftpReq).offset, SftpChunk(sftpJob)))
    BY <1>1, <1>6 DEF SftpNextWrite
  <2> QED
    BY <1>1, <1>2, <1>4, <2>1, ChunkStep
<1> QED
  BY <1>5, <1>6

\* abort_transfer
LEMMA SftpAbortStep ==
  ASSUME SftpInv, SftpAbort
  PROVE  SftpInv'
<1>1. PICK op \in {"get", "put"} : SftpMoving(op)
  BY DEF SftpAbort
<1>2. op \in Transfers
  BY DEF Transfers
<1>3. /\ sftpWait = "none" /\ sftpJob.on /\ sftpJob.op \in Transfers
      /\ Known(sftpReq, sftpJob, sftpServer) /\ sftpReq.up /\ sftpJob.ret = "none" /\ sftpReq.login = "no"
      /\ sftpReq.handle \in SftpHandles /\ SftpGetInv(sftpReq, sftpJob)
      /\ (sftpJob.op = "put" => sftpReq.offset = sftpJob.from)
      /\ (sftpReq.buf # "none" /\ ~sftpReq.stale => sftpJob.op \in {"get", "put"} /\ sftpReq.buf = sftpReq.handle)
  BY <1>1, <1>2, MovingNow
<1>4. OutcomeOk(SftpEnd(sftpReq, [sftpJob EXCEPT !.clean = FALSE]), sftpServer)
  BY <1>3, UncleanOk
<1> QED
  BY <1>3, <1>4, CallStep DEF SftpAbort

\* sshv2_disconnect()
LEMMA SftpDisconnectStep ==
  ASSUME SftpInv, SftpDisconnect
  PROVE  SftpInv'
<1>1. PICK ret \in {"none", "retry", "fatal"} : ret = "none"
  OBVIOUS
<1>2. SftpApply(SftpFail(SftpDropped(sftpReq), sftpJob, ret), sftpIn) /\ sftpTty' = sftpTty
  BY <1>1 DEF SftpDisconnect, SftpCall
<1>3. sftpTty' \in SftpQuestions
  BY <1>2, AlwaysKnown
<1> QED
  BY <1>2, <1>3, DroppedStep

\* A step of the caller
LEMMA SftpCallerStep ==
  ASSUME SftpInv, SftpCaller
  PROVE  SftpInv'
BY SftpConnectStep, CommandStep, ListStep, NextFileStep, GetStep, PutStep, SftpNextReadStep, SftpNextWriteStep, SftpAbortStep,
   SftpDisconnectStep DEF SftpCaller

-----------------------------------------------------------------------------
(* Steps of the server *)

\* The answer m, with which the server becomes s
Served(m, s) ==
  /\ m \in SftpMessages /\ StateInv(sftpReq, sftpWait, sftpJob, s)
  /\ Told(m, sftpReq, sftpWait, sftpJob, s)
\* The server has request q.
Serves(q) == SftpInv /\ sftpWait # "none" /\ q \in SftpRequests /\ Asked(q, sftpReq, sftpWait, sftpJob, sftpServer)

\* Which request a wait is for
LEMMA CmdOfWait ==
  ASSUME NEW wait \in SftpPurposes \ {"none"}
  PROVE  /\ Cmd(wait) = "OPENDIR" <=> wait = "list"
         /\ Cmd(wait) = "OPEN" <=> wait = "open"
         /\ Cmd(wait) = "READDIR" <=> wait = "next"
         /\ Cmd(wait) = "READ" <=> wait = "read"
         /\ Cmd(wait) = "WRITE" <=> wait = "write"
         /\ Cmd(wait) = "CLOSE" <=> wait = "close"
BY DEF Cmd, SftpPurposes

\* What is known when the server has a request
LEMMA ServesFacts ==
  ASSUME NEW q, Serves(q)
  PROVE  /\ q \in SftpRequests /\ q.cmd = Cmd(sftpWait) /\ sftpWait \in SftpPurposes \ {"none"}
         /\ SftpOn(sftpWait) /\ Known(sftpReq, sftpJob, sftpServer) /\ FileInv(sftpServer)
         /\ sftpReq \in ReqType /\ sftpJob \in SftpJobType /\ sftpServer \in SftpServerType
         /\ sftpReq.up /\ sftpJob.on /\ sftpJob.ret = "none" /\ WaitFits(sftpWait, sftpJob.op)
<1>1. sftpWait \in SftpPurposes \ {"none"} /\ SftpOn(sftpWait)
  BY AlwaysKnown DEF Serves
<1>2. q \in SftpRequests /\ q.cmd = Cmd(sftpWait)
  BY DEF Serves, Asked
<1> QED
  BY <1>1, <1>2, OnFacts DEF Known

\* The server goes on while a call waits.
LEMMA ServedOk ==
  ASSUME NEW q, Serves(q), NEW s \in SftpServerType, FileInv(s), HandleInv(sftpReq, sftpWait, sftpJob, s),
         sftpWait = "close" => s.file = sftpServer.file
  PROVE  StateInv(sftpReq, sftpWait, sftpJob, s)
<1>1. /\ Known(sftpReq, sftpJob, sftpServer) /\ SftpOn(sftpWait) /\ sftpReq.up /\ sftpJob.on /\ sftpJob.ret = "none"
      /\ sftpWait # "none"
  BY ServesFacts
<1>2. Types(sftpReq, sftpJob, s)
  BY <1>1 DEF Known, Types
<1>3. SftpCallInv(sftpReq, sftpWait, sftpJob, s) /\ BufferInv(sftpReq, sftpWait, sftpJob)
  BY <1>1 DEF SftpOn, StateInv, SftpCallInv
<1>4. DataInv(sftpReq, sftpWait, sftpJob, s)
  BY <1>1 DEF SftpOn, StateInv, DataInv, Ends, SftpWhole, SftpPutInv, SftpListInv
<1> QED
  BY <1>2, <1>3, <1>4 DEF StateInv

\* The server is as it was.
LEMMA SameServer ==
  ASSUME NEW q, Serves(q)
  PROVE  StateInv(sftpReq, sftpWait, sftpJob, sftpServer) /\ HandleInv(sftpReq, sftpWait, sftpJob, sftpServer)
BY ServesFacts DEF SftpOn, StateInv

\* An answer
LEMMA MsgType ==
  ASSUME NEW q \in SftpRequests, NEW kind \in SftpKinds, NEW code \in SftpCodes,
         NEW h \in SftpHandles \cup {"none"}, NEW data \in SftpBytes
  PROVE  LET m == SftpMsg(q, kind, code, h, data)
         IN  /\ m \in SftpMessages /\ m.to = q.cmd /\ m.kind = kind /\ m.code = code /\ m.h = h /\ m.data = data
BY DEF SftpMsg, SftpMessages, SftpRequests

\* No bytes are bytes.
LEMMA SftpNoBytes == <<>> \in SftpBytes
<1>1. Part(0, 0) \in SftpBytes /\ Part(0, 0) = <<>>
  BY SftpPartType, PartNone, SftpSizeAssumption
<1> QED
  BY <1>1

\* A refusal
LEMMA RefusalServed ==
  ASSUME NEW q, Serves(q), NEW m \in SftpRefusals(q)
  PROVE  Served(m, sftpServer)
<1>1. PICK kind \in SftpKinds, code \in SftpCodes, h \in SftpHandles \cup {"none"} :
        /\ m = SftpMsg(q, kind, code, h, <<>>)
        /\ kind \in {"STATUS", "OTHER"} /\ code \in {"failure", "denied", "bad"}
  BY DEF SftpRefusals, SftpKinds, SftpCodes
<1>2. m \in SftpMessages /\ m.to = q.cmd /\ m.kind = kind /\ m.code = code
  BY <1>1, MsgType, SftpNoBytes, ServesFacts
<1>3. Told(m, sftpReq, sftpWait, sftpJob, sftpServer)
  BY <1>1, <1>2, ServesFacts DEF Told
<1> QED
  BY <1>2, <1>3, SameServer DEF Served

\* What is granted without a handle
LEMMA PlainServed ==
  ASSUME NEW q, Serves(q), NEW a \in SftpGrants(q), q.cmd \in {"INIT", "REALPATH", "STAT", "COMMAND"}
  PROVE  Served(a.msg, a.server)
<1>1. PICK kind \in {"VERSION", "NAME", "ATTRS", "STATUS"} : a \in SftpGrant(q, kind, <<>>, sftpServer)
  BY DEF SftpGrants
<1>2. PICK code \in SftpCodes : code = "ok"
  BY DEF SftpCodes
<1>3. a.msg = SftpMsg(q, kind, code, q.h, <<>>) /\ a.server = sftpServer
  BY <1>1, <1>2 DEF SftpGrant
<1>4. q \in SftpRequests /\ q.h \in SftpHandles \cup {"none"} /\ kind \in SftpKinds
  BY ServesFacts DEF SftpRequests, SftpKinds
<1>5. a.msg \in SftpMessages /\ a.msg.to = q.cmd /\ a.msg.kind = kind
  BY <1>3, <1>4, MsgType, SftpNoBytes
<1>6. Told(a.msg, sftpReq, sftpWait, sftpJob, sftpServer)
  BY <1>5, ServesFacts DEF Told
<1> QED
  BY <1>3, <1>5, <1>6, SameServer DEF Served

\* A handle is given out.
LEMMA OpenedServed ==
  ASSUME NEW q, Serves(q), sftpWait \in {"list", "open"}, NEW use \in {"dir", "get", "put"}, use = UseOf(sftpJob.op),
         NEW s \in SftpServerType, FileInv(s), NEW a \in SftpOpens(q, use, s),
         q.cmd = "OPENDIR" => s.names = 0,
         q.cmd = "OPEN" /\ sftpJob.op = "put" => sftpJob.from = Len(s.file)
  PROVE  Served(a.msg, a.server)
<1>1. PICK h \in SftpHandles : a = [msg |-> SftpMsg(q, "HANDLE", "ok", h, <<>>), server |-> [s EXCEPT !.open[h] = use]]
  BY DEF SftpOpens
<1> DEFINE t == [s EXCEPT !.open[h] = use]
<1>2. t \in SftpServerType /\ t.open[h] = use /\ t.names = s.names /\ t.file = s.file
  BY DEF SftpServerType
<1>3. PICK kind \in SftpKinds, code \in SftpCodes : kind = "HANDLE" /\ code = "ok"
  BY DEF SftpKinds, SftpCodes
<1>4. a.msg = SftpMsg(q, kind, code, h, <<>>) /\ a.server = t
  BY <1>1, <1>3
<1> HIDE DEF t
<1>5. a.msg \in SftpMessages /\ a.msg.to = q.cmd /\ a.msg.kind = kind /\ a.msg.code = code /\ a.msg.h = h
  BY <1>4, MsgType, SftpNoBytes, ServesFacts
<1>6. HandleInv(sftpReq, sftpWait, sftpJob, t) /\ FileInv(t)
  BY <1>2 DEF HandleInv, FileInv
<1>7. StateInv(sftpReq, sftpWait, sftpJob, t)
  BY <1>2, <1>6, ServedOk
<1>8. q.cmd = Cmd(sftpWait) /\ q.cmd \in {"OPENDIR", "OPEN"}
  BY ServesFacts, CmdOfWait
<1>9. Told(a.msg, sftpReq, sftpWait, sftpJob, t)
  BY <1>2, <1>3, <1>5, <1>8 DEF Told
<1> QED
  BY <1>4, <1>5, <1>7, <1>9 DEF Served

\* OPENDIR begins the listing.
LEMMA OpendirServed ==
  ASSUME NEW q, Serves(q), NEW a \in SftpGrants(q), q.cmd = "OPENDIR"
  PROVE  Served(a.msg, a.server)
<1> DEFINE s == [sftpServer EXCEPT !.names = 0]
<1>1. sftpWait = "list" /\ sftpServer \in SftpServerType /\ FileInv(sftpServer) /\ WaitFits(sftpWait, sftpJob.op)
  BY ServesFacts, CmdOfWait
<1>2. sftpJob.op = "list"
  BY <1>1 DEF WaitFits
<1>3. 0 \in 0..SftpSize
  BY SftpSizeAssumption
<1>4. s \in SftpServerType /\ s.names = 0 /\ s.file = sftpServer.file
  BY <1>1, <1>3 DEF SftpServerType
<1>5. PICK use \in {"dir", "get", "put"} : use = "dir"
  OBVIOUS
<1>6. a \in SftpOpens(q, use, s)
  BY <1>5 DEF SftpGrants
<1> HIDE DEF s
<1>7. FileInv(s) /\ use = UseOf(sftpJob.op)
  BY <1>1, <1>2, <1>4, <1>5 DEF FileInv, UseOf
<1>8. q.cmd # "OPEN" /\ sftpWait \in {"list", "open"}
  BY <1>1
<1> QED
  BY <1>4, <1>6, <1>7, <1>8, OpenedServed

\* OPEN empties the file, or lets the upload go on from its end.
LEMMA OpenServed ==
  ASSUME NEW q, Serves(q), NEW a \in SftpGrants(q), q.cmd = "OPEN"
  PROVE  Served(a.msg, a.server)
<1> DEFINE s == IF sftpJob.op = "put" /\ sftpJob.start = 0 THEN [sftpServer EXCEPT !.file = <<>>] ELSE sftpServer
<1>1. sftpWait = "open" /\ sftpServer \in SftpServerType /\ FileInv(sftpServer) /\ WaitFits(sftpWait, sftpJob.op)
  BY ServesFacts, CmdOfWait
<1>2. sftpJob.op \in {"get", "put"}
  BY <1>1 DEF WaitFits
<1>3. s \in SftpServerType /\ (s.file = sftpServer.file \/ s.file = <<>>)
      /\ (sftpJob.op = "put" => s.file = IF sftpJob.start = 0 THEN <<>> ELSE sftpServer.file)
  BY <1>1, SftpNoBytes DEF SftpServerType
<1>4. PICK use \in {"dir", "get", "put"} : use = sftpJob.op
  BY <1>2
<1>5. a \in SftpOpens(q, use, s)
  BY <1>4 DEF SftpGrants
<1> HIDE DEF s
<1>6. FileInv(s)
  <2>1. Part(0, 0) = <<>> /\ Len(<<>>) = 0
    BY PartNone
  <2> QED
    BY <1>1, <1>3, <2>1 DEF FileInv
<1>7. use = UseOf(sftpJob.op)
  BY <1>2, <1>4 DEF UseOf
<1>8. sftpJob.op = "put" => sftpJob.from = Len(s.file)
  <2>1. sftpJob.op = "put" => sftpJob.start = sftpJob.from /\ sftpJob.start \in {0, Len(sftpServer.file)}
    BY DEF Serves, Asked
  <2>2. Len(<<>>) = 0
    OBVIOUS
  <2> QED
    BY <1>3, <2>1, <2>2
<1>9. q.cmd # "OPENDIR" /\ sftpWait \in {"list", "open"}
  BY <1>1
<1> QED
  BY <1>3, <1>5, <1>6, <1>7, <1>8, <1>9, OpenedServed

\* The answer at the end of the file or of the listing
LEMMA EofServed ==
  ASSUME NEW q, Serves(q), NEW a \in SftpAtEnd(q), sftpJob.start + Len(sftpJob.got) = SftpSize
  PROVE  Served(a.msg, a.server)
<1>1. PICK kind \in SftpKinds, code \in SftpCodes, h \in SftpHandles \cup {"none"} :
        kind = "STATUS" /\ code = "eof" /\ h = "none"
  BY DEF SftpKinds, SftpCodes
<1>2. PICK data \in SftpBytes : data = <<>>
  BY SftpNoBytes
<1>3. a.msg = SftpMsg(q, kind, code, h, data) /\ a.server = sftpServer
  BY <1>1, <1>2 DEF SftpAtEnd
<1>4. q \in SftpRequests /\ q.cmd = Cmd(sftpWait)
  BY ServesFacts
<1>5. a.msg \in SftpMessages /\ a.msg.to = q.cmd /\ a.msg.kind = kind /\ a.msg.code = code
  BY <1>3, <1>4, MsgType
<1>6. Told(a.msg, sftpReq, sftpWait, sftpJob, sftpServer)
  BY <1>1, <1>4, <1>5 DEF Told
<1> QED
  BY <1>3, <1>5, <1>6, SameServer DEF Served

\* READDIR: the next names
LEMMA ReaddirServed ==
  ASSUME NEW q, Serves(q), NEW a \in SftpGrants(q), q.cmd = "READDIR"
  PROVE  Served(a.msg, a.server)
<1>1. sftpWait = "next" /\ sftpServer \in SftpServerType /\ FileInv(sftpServer) /\ WaitFits(sftpWait, sftpJob.op)
      /\ SftpOn(sftpWait) /\ sftpJob \in SftpJobType
  BY ServesFacts, CmdOfWait
<1>2. sftpJob.op = "list"
  BY <1>1 DEF WaitFits
<1>3. sftpJob.start = 0 /\ sftpServer.names = Len(sftpJob.got)
  BY <1>1, <1>2 DEF Serves, Asked, SftpOn, StateInv, DataInv, SftpListInv
<1>4. PICK n \in Nat : n = sftpServer.names
  BY <1>1, SftpSizeAssumption DEF SftpServerType
<1>5. CASE sftpServer.names = SftpSize
  <2>1. a \in SftpAtEnd(q)
    BY <1>5 DEF SftpGrants
  <2>2. sftpJob.start + Len(sftpJob.got) = SftpSize
    BY <1>3, <1>4, <1>5
  <2> QED
    BY <2>1, <2>2, EofServed
<1>6. CASE sftpServer.names # SftpSize
  <2>1. PICK k \in SftpUpTo(n) :
          a \in SftpGrant(q, "NAME", SubSeq(SftpData, n + 1, n + k), [sftpServer EXCEPT !.names = n + k])
    BY <1>4, <1>6 DEF SftpGrants
  <2>2. k \in Nat /\ 1 <= k /\ n + k <= SftpSize
    BY <2>1, SftpSizeAssumption DEF SftpUpTo
  <2>3. PICK m \in Nat : m = n + k /\ n < m /\ n <= m /\ m <= SftpSize
    BY <2>2
  <2>4. PICK data \in SftpBytes : data = Part(n, m) /\ data = SubSeq(SftpData, n + 1, m)
    BY <2>3, SftpPartOfData, SftpPartType
  <2> DEFINE t == [sftpServer EXCEPT !.names = m]
  <2>5. m \in 0..SftpSize
    BY <2>3, SftpSizeAssumption
  <2>6. t \in SftpServerType /\ t.names = m /\ t.file = sftpServer.file /\ t.open = sftpServer.open
    BY <1>1, <2>5 DEF SftpServerType
  <2>7. PICK kind \in SftpKinds, code \in SftpCodes : kind = "NAME" /\ code = "ok"
    BY DEF SftpKinds, SftpCodes
  <2>8. a \in SftpGrant(q, kind, data, t)
    BY <2>1, <2>3, <2>4, <2>7
  <2> HIDE DEF t
  <2>9. a.msg = SftpMsg(q, kind, code, q.h, data) /\ a.server = t
    BY <2>7, <2>8 DEF SftpGrant
  <2>10. q \in SftpRequests /\ q.h \in SftpHandles \cup {"none"} /\ q.cmd = Cmd(sftpWait)
    BY ServesFacts DEF SftpRequests
  <2>11. /\ a.msg \in SftpMessages /\ a.msg.to = q.cmd /\ a.msg.kind = kind /\ a.msg.code = code
         /\ a.msg.data = data
    BY <2>9, <2>10, MsgType
  <2>12. StateInv(sftpReq, sftpWait, sftpJob, t)
    <3>1. HandleInv(sftpReq, sftpWait, sftpJob, t) /\ FileInv(t)
      BY <1>1, <2>6, SameServer DEF HandleInv, FileInv
    <3> QED
      BY <1>1, <2>6, <3>1, ServedOk
  <2>13. Told(a.msg, sftpReq, sftpWait, sftpJob, t)
    BY <1>3, <1>4, <2>3, <2>4, <2>6, <2>7, <2>10, <2>11 DEF Told
  <2> QED
    BY <2>9, <2>11, <2>12, <2>13 DEF Served
<1> QED
  BY <1>5, <1>6

\* READ: the next bytes
LEMMA ReadServed ==
  ASSUME NEW q, Serves(q), NEW a \in SftpGrants(q), q.cmd = "READ"
  PROVE  Served(a.msg, a.server)
<1>1. sftpWait = "read" /\ WaitFits(sftpWait, sftpJob.op) /\ SftpOn(sftpWait) /\ sftpJob.on
      /\ sftpReq \in ReqType
  BY ServesFacts, CmdOfWait
<1>2. sftpJob.op = "get"
  BY <1>1 DEF WaitFits
<1>3. q.pos = sftpReq.offset /\ sftpReq.offset = sftpJob.start + Len(sftpJob.got)
  BY <1>1, <1>2 DEF Serves, Asked, SftpOn, StateInv, DataInv, SftpGetInv
<1>4. PICK n \in Nat : n = sftpReq.offset
  BY <1>1, SftpSizeAssumption DEF ReqType
<1>5. CASE q.pos = SftpSize
  <2>1. a \in SftpAtEnd(q)
    BY <1>5 DEF SftpGrants
  <2>2. sftpJob.start + Len(sftpJob.got) = SftpSize
    BY <1>3, <1>5
  <2> QED
    BY <2>1, <2>2, EofServed
<1>6. CASE q.pos # SftpSize
  <2>1. PICK k \in SftpUpTo(n) : a \in SftpGrant(q, "DATA", SubSeq(SftpData, n + 1, n + k), sftpServer)
    BY <1>3, <1>4, <1>6 DEF SftpGrants
  <2>2. k \in Nat /\ 1 <= k /\ n + k <= SftpSize
    BY <2>1, SftpSizeAssumption DEF SftpUpTo
  <2>3. PICK m \in Nat : m = n + k /\ n <= m /\ m <= SftpSize
    BY <2>2
  <2>4. PICK data \in SftpBytes : /\ data = Part(n, m) /\ data = SubSeq(SftpData, n + 1, m)
                                  /\ Len(data) = m - n
    BY <2>3, SftpPartOfData, SftpPartType, PartLen
  <2>5. n + Len(data) = m
    BY <2>4
  <2>6. PICK kind \in SftpKinds, code \in SftpCodes : kind = "DATA" /\ code = "ok"
    BY DEF SftpKinds, SftpCodes
  <2>7. a \in SftpGrant(q, kind, data, sftpServer)
    BY <2>1, <2>3, <2>4, <2>6
  <2>8. a.msg = SftpMsg(q, kind, code, q.h, data) /\ a.server = sftpServer
    BY <2>6, <2>7 DEF SftpGrant
  <2>9. q \in SftpRequests /\ q.h \in SftpHandles \cup {"none"} /\ q.cmd = Cmd(sftpWait)
    BY ServesFacts DEF SftpRequests
  <2>10. /\ a.msg \in SftpMessages /\ a.msg.to = q.cmd /\ a.msg.kind = kind /\ a.msg.code = code
         /\ a.msg.data = data
    BY <2>8, <2>9, MsgType
  <2>11. Told(a.msg, sftpReq, sftpWait, sftpJob, sftpServer)
    BY <1>4, <2>3, <2>4, <2>5, <2>6, <2>9, <2>10 DEF Told
  <2> QED
    BY <2>8, <2>10, <2>11, SameServer DEF Served
<1> QED
  BY <1>5, <1>6

\* WRITE: the bytes are laid at the end of the file.
LEMMA WriteServed ==
  ASSUME NEW q, Serves(q), NEW a \in SftpGrants(q), q.cmd = "WRITE"
  PROVE  Served(a.msg, a.server)
<1>1. /\ sftpWait = "write" /\ sftpServer \in SftpServerType /\ FileInv(sftpServer) /\ WaitFits(sftpWait, sftpJob.op)
      /\ SftpOn(sftpWait) /\ sftpJob.on /\ sftpJob \in SftpJobType
  BY ServesFacts, CmdOfWait
<1>2. sftpJob.op = "put"
  BY <1>1 DEF WaitFits
<1>3. /\ q.pos = sftpReq.offset /\ q.data = SftpChunk(sftpJob) /\ sftpJob.from = Len(sftpServer.file)
      /\ sftpReq.offset = sftpJob.from
  BY <1>1, <1>2 DEF Serves, Asked, SftpOn, StateInv, DataInv, SftpPutInv
<1>4. PICK n \in Nat : n = sftpJob.from
  BY <1>1, SftpSizeAssumption DEF SftpJobType
<1>5. PICK m \in Nat : /\ n <= m /\ m <= SftpSize /\ SftpChunk(sftpJob) = Part(n, m)
                      /\ Len(SftpChunk(sftpJob)) = m - n
  BY <1>1, <1>4, ChunkIs
<1>6. SftpLaid(sftpServer.file, q.pos, q.data) = Part(0, m)
  <2>1. sftpServer.file = Part(0, n)
    BY <1>1, <1>3, <1>4 DEF FileInv
  <2> QED
    BY <1>3, <1>4, <1>5, <2>1, PartLaid
<1>7. Part(0, m) \in SftpBytes /\ Len(Part(0, m)) = m
  <2>1. 0 <= m /\ m - 0 = m
    OBVIOUS
  <2> QED
    BY <1>5, <2>1, SftpPartType, PartLen
<1> DEFINE t == [sftpServer EXCEPT !.file = Part(0, m)]
<1>8. t \in SftpServerType /\ t.file = Part(0, m) /\ t.open = sftpServer.open
  BY <1>1, <1>7 DEF SftpServerType
<1>9. PICK kind \in SftpKinds, code \in SftpCodes : kind = "STATUS" /\ code = "ok"
  BY DEF SftpKinds, SftpCodes
<1>10. a \in SftpGrant(q, kind, <<>>, t)
  BY <1>6, <1>9 DEF SftpGrants
<1> HIDE DEF t
<1>11. a.msg = SftpMsg(q, kind, code, q.h, <<>>) /\ a.server = t
  BY <1>9, <1>10 DEF SftpGrant
<1>12. q \in SftpRequests /\ q.h \in SftpHandles \cup {"none"} /\ q.cmd = Cmd(sftpWait)
  BY ServesFacts DEF SftpRequests
<1>13. a.msg \in SftpMessages /\ a.msg.to = q.cmd /\ a.msg.kind = kind /\ a.msg.code = code
  BY <1>11, <1>12, MsgType, SftpNoBytes
<1>14. StateInv(sftpReq, sftpWait, sftpJob, t)
  <2>1. HandleInv(sftpReq, sftpWait, sftpJob, t)
    BY <1>1, <1>8, SameServer DEF HandleInv
  <2>2. FileInv(t)
    BY <1>7, <1>8 DEF FileInv
  <2> QED
    BY <1>1, <1>8, <2>1, <2>2, ServedOk
<1>15. Len(t.file) = sftpJob.from + Len(SftpChunk(sftpJob))
  BY <1>4, <1>5, <1>7, <1>8
<1>16. Told(a.msg, sftpReq, sftpWait, sftpJob, t)
  BY <1>9, <1>12, <1>13, <1>15 DEF Told
<1> QED
  BY <1>11, <1>13, <1>14, <1>16 DEF Served

\* CLOSE
LEMMA CloseServed ==
  ASSUME NEW q, Serves(q), NEW a \in SftpGrants(q), q.cmd = "CLOSE"
  PROVE  Served(a.msg, a.server)
<1>1. sftpWait = "close" /\ sftpServer \in SftpServerType /\ FileInv(sftpServer)
  BY ServesFacts, CmdOfWait
<1>2. q \in SftpRequests /\ q.h \in SftpHandles \cup {"none"} /\ q.cmd = Cmd(sftpWait)
  BY ServesFacts DEF SftpRequests
<1> DEFINE t == [sftpServer EXCEPT !.open[q.h] = "free"]
<1>3. a \in SftpGrant(q, "STATUS", <<>>, t)
  BY DEF SftpGrants
<1>4. t \in SftpServerType /\ t.file = sftpServer.file
  BY <1>1 DEF SftpServerType
<1> HIDE DEF t
<1>5. PICK kind \in SftpKinds, code \in SftpCodes : kind = "STATUS" /\ code = "ok"
  BY DEF SftpKinds, SftpCodes
<1>6. a.msg = SftpMsg(q, kind, code, q.h, <<>>) /\ a.server = t
  BY <1>3, <1>5 DEF SftpGrant
<1>7. a.msg \in SftpMessages /\ a.msg.to = q.cmd /\ a.msg.kind = kind /\ a.msg.code = code
  BY <1>2, <1>6, MsgType, SftpNoBytes
<1>8. HandleInv(sftpReq, sftpWait, sftpJob, t) /\ FileInv(t)
  BY <1>1, <1>4 DEF HandleInv, FileInv
<1>9. StateInv(sftpReq, sftpWait, sftpJob, t)
  BY <1>4, <1>8, ServedOk
<1>10. Told(a.msg, sftpReq, sftpWait, sftpJob, t)
  BY <1>2, <1>5, <1>7 DEF Told
<1> QED
  BY <1>6, <1>7, <1>9, <1>10 DEF Served

\* The server answers.
LEMMA SftpServeStep ==
  ASSUME SftpInv, SftpServe
  PROVE  SftpInv'
<1>1. sftpOut # <<>> /\ sftpOut' = Tail(sftpOut) /\ sftpReq' = sftpReq /\ sftpWait' = sftpWait /\ sftpJob' = sftpJob
      /\ sftpTty' = sftpTty
  BY DEF SftpServe
<1>2. PICK q \in SftpRequests : /\ sftpOut = <<q>> /\ sftpIn = <<>> /\ sftpWait # "none"
                               /\ Asked(q, sftpReq, sftpWait, sftpJob, sftpServer)
  BY <1>1 DEF SftpInv, WireInv
<1>3. Serves(q) /\ Head(sftpOut) = q
  BY <1>2 DEF Serves
<1>4. PICK a \in SftpGrants(q) \cup {[msg |-> m, server |-> sftpServer] : m \in SftpRefusals(q)} :
        sftpIn' = Append(sftpIn, a.msg) /\ sftpServer' = a.server
  BY <1>3 DEF SftpServe
<1>5. Served(a.msg, a.server)
  <2>1. CASE a \in SftpGrants(q)
    <3>1. q.cmd \in SftpCmds
      BY DEF SftpRequests
    <3> QED
      BY <1>3, <2>1, <3>1, PlainServed, OpendirServed, OpenServed, ReaddirServed, ReadServed, WriteServed, CloseServed
         DEF SftpCmds
  <2>2. CASE a \in {[msg |-> m, server |-> sftpServer] : m \in SftpRefusals(q)}
    <3>1. PICK m \in SftpRefusals(q) : a.msg = m /\ a.server = sftpServer
      BY <2>2
    <3> QED
      BY <1>3, <3>1, RefusalServed
  <2> QED
    BY <1>4, <2>1, <2>2
<1>6. sftpOut' = <<>> /\ sftpIn' = <<a.msg>>
  BY <1>1, <1>2, <1>4
<1>7. WireInv(sftpReq, sftpWait, sftpJob, sftpOut', sftpIn', a.server)
  BY <1>2, <1>5, <1>6 DEF WireInv, Served
<1> QED
  BY <1>1, <1>4, <1>5, <1>7 DEF SftpInv, Served

\* ssh asks, or is gone: neither the handles nor the file change.
LEMMA SshStep ==
  ASSUME SftpInv, SftpPrompt \/ SftpQuit
  PROVE  SftpInv'
<1>1. PICK s : sftpServer' = s /\ \/ s = [sftpServer EXCEPT !.prompts = @ + 1] /\ sftpServer.prompts < SftpPrompts
                                  \/ s = [sftpServer EXCEPT !.gone = TRUE]
  BY DEF SftpPrompt, SftpQuit
<1>2. sftpTty' \in SftpQuestions /\ sftpReq' = sftpReq /\ sftpWait' = sftpWait /\ sftpJob' = sftpJob
      /\ sftpOut' = sftpOut /\ sftpIn' = sftpIn
  BY AlwaysKnown DEF SftpPrompt, SftpQuit
<1>3. sftpReq.up
  BY DEF SftpPrompt, SftpQuit, SftpInv, StateInv, SftpCallInv
<1>4. s \in SftpServerType /\ s.open = sftpServer.open /\ s.names = sftpServer.names /\ s.file = sftpServer.file
  <2>1. sftpServer \in SftpServerType
    BY AlwaysKnown
  <2>2. sftpServer.prompts < SftpPrompts => sftpServer.prompts + 1 \in 0..SftpPrompts
    BY <2>1, SftpSizeAssumption DEF SftpServerType
  <2>3. CASE s = [sftpServer EXCEPT !.prompts = @ + 1] /\ sftpServer.prompts < SftpPrompts
    BY <2>1, <2>2, <2>3 DEF SftpServerType
  <2>4. CASE s = [sftpServer EXCEPT !.gone = TRUE]
    BY <2>1, <2>4 DEF SftpServerType
  <2> QED
    BY <1>1, <2>3, <2>4
<1>5. StateInv(sftpReq, sftpWait, sftpJob, s)
  <2>1. Types(sftpReq, sftpJob, s) /\ SftpCallInv(sftpReq, sftpWait, sftpJob, s)
    BY <1>3, <1>4 DEF SftpInv, StateInv, Types, SftpCallInv
  <2>2. HandleInv(sftpReq, sftpWait, sftpJob, s) /\ BufferInv(sftpReq, sftpWait, sftpJob)
    BY <1>4 DEF SftpInv, StateInv, HandleInv
  <2>3. DataInv(sftpReq, sftpWait, sftpJob, s)
    BY <1>4 DEF SftpInv, StateInv, DataInv, FileInv, SftpWhole, SftpPutInv, SftpListInv
  <2> QED
    BY <2>1, <2>2, <2>3 DEF StateInv
<1>6. WireInv(sftpReq, sftpWait, sftpJob, sftpOut, sftpIn, s)
  BY <1>4 DEF SftpInv, WireInv, Asked, Told
<1> QED
  BY <1>1, <1>2, <1>5, <1>6 DEF SftpInv

\* A step of ssh or of the server
LEMMA ServerStep ==
  ASSUME SftpInv, SftpServerSide
  PROVE  SftpInv'
BY SftpServeStep, SshStep DEF SftpServerSide

-----------------------------------------------------------------------------
(* The theorems *)

\* The program starts without a session.
LEMMA SftpInitOk ==
  ASSUME SftpInit
  PROVE  SftpInv
<1>1. 0 \in 0..SftpSize /\ 0 \in 0..SftpPrompts /\ <<>> \in SftpBytes
  BY SftpSizeAssumption, SftpNoBytes
<1>2. /\ sftpReq \in ReqType /\ ~sftpReq.up /\ sftpReq.login = "no" /\ sftpReq.buf = "none"
  BY <1>1 DEF SftpInit, ReqType
<1>3. PICK j \in SftpJobType : j = sftpJob /\ ~j.on /\ j.op = "none" /\ j.ret = "none" /\ j.got = <<>>
  <2>1. SftpNoJob \in SftpJobType
    BY <1>1 DEF SftpNoJob, SftpJobType
  <2>2. ~SftpNoJob.on /\ SftpNoJob.op = "none" /\ SftpNoJob.ret = "none" /\ SftpNoJob.got = <<>>
    BY DEF SftpNoJob
  <2> QED
    BY <2>1, <2>2 DEF SftpInit
<1>4. PICK file \in SftpBytes : file = <<>> /\ sftpServer = SftpFresh(file)
  BY <1>1 DEF SftpInit
<1>5. [h \in SftpHandles |-> "free"] \in [SftpHandles -> {"free", "dir", "get", "put"}]
  OBVIOUS
<1>6. sftpServer \in SftpServerType /\ sftpServer.file = file
  BY <1>1, <1>4, <1>5 DEF SftpFresh, SftpServerType
<1>7. FileInv(sftpServer)
  <2>1. Part(0, 0) = <<>> /\ Len(<<>>) = 0
    BY PartNone
  <2> QED
    BY <1>4, <1>6, <2>1 DEF FileInv
<1>8. SftpGotInv(sftpJob)
  BY <1>3, NothingGot
<1>9. Types(sftpReq, sftpJob, sftpServer)
  BY <1>2, <1>3, <1>6 DEF Types
<1>10. SftpCallInv(sftpReq, "none", sftpJob, sftpServer)
  BY <1>2, <1>3, <1>4, <1>6 DEF SftpCallInv
<1>11. HandleInv(sftpReq, "none", sftpJob, sftpServer) /\ BufferInv(sftpReq, "none", sftpJob)
  BY <1>2, <1>3 DEF HandleInv, BufferInv
<1>12. DataInv(sftpReq, "none", sftpJob, sftpServer)
  BY <1>3, <1>7, <1>8 DEF DataInv, Ends, SftpGetInv, SftpPutInv, SftpListInv
<1>13. sftpWait = "none" /\ sftpOut = <<>> /\ sftpIn = <<>> /\ sftpTty \in SftpQuestions
  BY DEF SftpInit, SftpQuestions
<1> QED
  BY <1>9, <1>10, <1>11, <1>12, <1>13 DEF SftpInv, StateInv, WireInv

\* Every step of a session keeps the invariant.
LEMMA SftpInvStep == SftpInv /\ [SftpNext]_sftpVars => SftpInv'
BY SftpClientStep, SftpCallerStep, ServerStep, StutterStep DEF SftpNext

\* The inductive invariant of a session: while a call waits there is one request, or the
\* answer to it, on its way; a transfer has its handle open from the answer to OPEN or OPENDIR
\* until its CLOSE, and a transfer_buffer that is not stale is its own; what the file, the
\* download and the listing hold are consecutive bytes of the source
\* (sshv2_read_response() and the functions that send and read in lib/sshv2.c).
THEOREM SftpInvariant == SftpSpec => []SftpInv
<1>1. SftpInit => SftpInv
  BY SftpInitOk
<1>2. SftpInv /\ [SftpNext]_sftpVars => SftpInv'
  BY SftpInvStep
<1> QED
  BY <1>1, <1>2, PTL DEF SftpSpec

\* The invariant gives the types.
LEMMA SftpInvTypes == SftpInv => SftpTypeOK
<1> SUFFICES ASSUME SftpInv PROVE SftpTypeOK
  OBVIOUS
<1>1. sftpOut \in Seq(SftpRequests) /\ sftpIn \in Seq(SftpMessages)
  <2>1. \/ sftpOut = <<>> /\ sftpIn = <<>>
        \/ sftpIn = <<>> /\ \E q \in SftpRequests : sftpOut = <<q>>
        \/ sftpOut = <<>> /\ \E r \in SftpMessages : sftpIn = <<r>>
    BY DEF SftpInv, WireInv
  <2>2. <<>> \in Seq(SftpRequests) /\ <<>> \in Seq(SftpMessages)
    OBVIOUS
  <2>3. \A q \in SftpRequests : <<q>> \in Seq(SftpRequests)
    OBVIOUS
  <2>4. \A r \in SftpMessages : <<r>> \in Seq(SftpMessages)
    OBVIOUS
  <2> QED
    BY <2>1, <2>2, <2>3, <2>4
<1> QED
  BY <1>1, AlwaysKnown DEF SftpTypeOK, ReqType, SftpJobType, SftpServerType

\* Every variable stays within its type, whatever the session and the server do.
THEOREM SftpTypes == SftpSpec => []SftpTypeOK
BY SftpInvTypes, SftpInvariant, PTL

\* The answer on its way is to the request that is waited for.
LEMMA SftpInvInStep == SftpInv => SftpInStep
<1> SUFFICES ASSUME SftpInv PROVE SftpInStep
  OBVIOUS
<1>1. WireInv(sftpReq, sftpWait, sftpJob, sftpOut, sftpIn, sftpServer) /\ sftpWait \in SftpPurposes
  BY AlwaysKnown DEF SftpInv
<1>2. CASE sftpWait = "none"
  <2>1. sftpOut = <<>> /\ sftpIn = <<>>
    BY <1>1, <1>2 DEF WireInv
  <2> QED
    BY <1>2, <2>1 DEF SftpInStep
<1>3. CASE sftpWait # "none" /\ \E q \in SftpRequests : sftpOut = <<q>> /\ sftpIn = <<>>
  BY <1>3 DEF SftpInStep
<1>4. CASE /\ sftpWait # "none" /\ sftpOut = <<>>
           /\ \E r \in SftpMessages : sftpIn = <<r>> /\ r.to = Cmd(sftpWait)
  <2>1. PICK r \in SftpMessages : sftpIn = <<r>> /\ r.to = Cmd(sftpWait)
    BY <1>4
  <2>2. r.to = "CLOSE" <=> sftpWait = "close"
    BY <1>1, <1>4, <2>1, CmdOfWait
  <2> QED
    BY <1>4, <2>1, <2>2 DEF SftpInStep
<1> QED
  BY <1>1, <1>2, <1>3, <1>4 DEF WireInv, Told

\* One request is answered at a time, and the message that is read is the answer to it, though
\* nobody compares their numbers (sshv2_read_response(), sshv2_end_transfer()).
THEOREM SftpAnswersInStep == SftpSpec => []SftpInStep
BY SftpInvInStep, SftpInvariant, PTL

\* A request that is on its way names the handle of its transfer.
LEMMA SftpInvHandles == SftpInv => SftpRightHandle
<1> SUFFICES ASSUME SftpInv, NEW i \in 1..Len(sftpOut)
             PROVE  /\ sftpOut[i].cmd \in {"READ", "WRITE"} => sftpReq.stale \/ SftpUse(sftpOut[i]) = sftpJob.op
                    /\ sftpOut[i].cmd = "READDIR" => SftpUse(sftpOut[i]) = "dir"
  BY DEF SftpRightHandle
<1>1. sftpOut # <<>>
  OBVIOUS
<1>2. PICK q \in SftpRequests : sftpOut = <<q>> /\ sftpWait # "none" /\ Asked(q, sftpReq, sftpWait, sftpJob, sftpServer)
  BY <1>1 DEF SftpInv, WireInv
<1>3. sftpOut[i] = q /\ Serves(q)
  BY <1>2 DEF Serves
<1>4. /\ q.cmd = Cmd(sftpWait) /\ sftpWait \in SftpPurposes \ {"none"} /\ SftpOn(sftpWait) /\ sftpJob.on
      /\ WaitFits(sftpWait, sftpJob.op)
  BY <1>3, ServesFacts
<1>5. ASSUME q.cmd \in {"READ", "WRITE"}, ~sftpReq.stale PROVE SftpUse(q) = sftpJob.op
  <2>1. q.h = sftpReq.buf /\ q.h # "none" /\ sftpWait \in {"read", "write"}
    BY <1>2, <1>4, <1>5, CmdOfWait DEF Asked
  <2>2. sftpReq.buf = sftpReq.handle /\ sftpJob.op \in {"get", "put"}
    BY <1>4, <1>5, <2>1 DEF SftpOn, StateInv, BufferInv
  <2>3. sftpServer.open[sftpReq.handle] = UseOf(sftpJob.op)
    BY <1>4, <2>1, <2>2 DEF SftpOn, StateInv, HandleInv, Transfers
  <2> QED
    BY <2>1, <2>2, <2>3 DEF SftpUse, UseOf
<1>6. ASSUME q.cmd = "READDIR" PROVE SftpUse(q) = "dir"
  <2>1. q.h = sftpReq.handle /\ sftpWait = "next"
    BY <1>2, <1>4, <1>6, CmdOfWait DEF Asked
  <2>2. sftpJob.op = "list"
    BY <1>4, <2>1 DEF WaitFits
  <2>3. sftpReq.handle \in SftpHandles /\ sftpServer.open[sftpReq.handle] = UseOf(sftpJob.op)
    BY <1>4, <2>1, <2>2 DEF SftpOn, StateInv, HandleInv, Transfers
  <2> QED
    BY <2>1, <2>2, <2>3, SftpHandleAssumption DEF SftpUse, UseOf
<1> QED
  BY <1>3, <1>5, <1>6

\* A READ or WRITE names the handle that is open for its transfer, unless the buffer that
\* carries it is left from a transfer that failed; a READDIR that of a directory
\* (sshv2_get_next_file_chunk(), sshv2_put_next_file_chunk(), sshv2_get_next_file()).
THEOREM SftpHandlesRight == SftpSpec => []SftpRightHandle
BY SftpInvHandles, SftpInvariant, PTL

\* The invariant gives what was transferred.
LEMMA SftpInvIntact == SftpInv => SftpIntact
<1> SUFFICES ASSUME SftpInv PROVE SftpIntact
  OBVIOUS
<1>1. sftpJob \in SftpJobType /\ sftpServer \in SftpServerType /\ FileInv(sftpServer) /\ SftpGotInv(sftpJob)
  BY AlwaysKnown DEF Known
<1>2. sftpJob.ret = "ok" /\ sftpJob.clean /\ sftpJob.op \in Transfers => SftpWhole(sftpJob, sftpServer)
  BY DEF SftpInv, StateInv, DataInv, Ends
<1>3. PICK s \in Nat : s = sftpJob.start /\ s <= SftpSize
  BY <1>1, SftpSizeAssumption DEF SftpJobType
<1>4. PICK g \in Nat : g = Len(sftpJob.got)
  BY <1>1, SftpBytesSeq DEF SftpJobType
<1>5. PICK n \in Nat : n = Len(sftpServer.file) /\ n <= SftpSize
  BY <1>1, SftpBytesSeq DEF SftpServerType
<1>6. PICK e \in Nat : e = s + g /\ s <= e /\ e <= SftpSize
  BY <1>1, <1>3, <1>4 DEF SftpGotInv
<1>7. sftpJob.got = Part(s, e) /\ sftpServer.file = Part(0, n)
  BY <1>1, <1>3, <1>4, <1>5, <1>6 DEF SftpGotInv, FileInv
<1>8. SubSeq(SftpData, sftpJob.start + 1, SftpSize) = Part(s, SftpSize) /\ SftpSize \in Nat
  <2>1. PICK z \in Nat : z = SftpSize
    BY SftpSizeAssumption
  <2>2. s <= z /\ z <= SftpSize
    BY <1>3, <2>1
  <2>3. SubSeq(SftpData, s + 1, z) = Part(s, z)
    BY <2>2, SftpPartOfData
  <2> QED
    BY <1>3, <2>1, <2>3
<1>9. IsPrefix(Part(0, n), Part(0, SftpSize)) /\ IsPrefix(Part(s, e), Part(s, SftpSize))
  <2>1. 0 <= n /\ n <= SftpSize
    BY <1>5
  <2> QED
    BY <1>6, <1>8, <2>1, PartPrefix
<1>10. sftpJob.ret = "ok" /\ sftpJob.clean /\ sftpJob.op \in {"get", "list"} => e = SftpSize
  BY <1>2, <1>3, <1>4, <1>6 DEF SftpWhole, Transfers
<1>11. sftpJob.ret = "ok" /\ sftpJob.clean /\ sftpJob.op = "put" => n = SftpSize
  BY <1>2, <1>5 DEF SftpWhole, Transfers
<1> QED
  BY <1>7, <1>8, <1>9, <1>10, <1>11, SftpDataIsPart DEF SftpIntact

\* What was downloaded or listed, and the file of the server, are the bytes of the source in
\* order, and all of them after an operation that ended without a refusal
\* (sshv2_get_next_file_chunk(), sshv2_put_next_file_chunk(), sshv2_get_next_file()).
THEOREM SftpBytesIntact == SftpSpec => []SftpIntact
BY SftpInvIntact, SftpInvariant, PTL
=============================================================================
