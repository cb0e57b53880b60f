-------------------------- MODULE FtpControlProofs --------------------------
(***************************************************************************)
(* Proofs about FtpControl, for every depth of logins inside each other,   *)
(* any number of unread replies and all the options: as long as no         *)
(* transfer is aborted, the session is logged in and in step between       *)
(* operations, an operation succeeds only by its own reply, and a transfer *)
(* starts where the caller asked.                                          *)
(***************************************************************************)
EXTENDS FtpControl, SequenceTheorems, TLAPS

(***************************************************************************)
(* The inductive invariant                                                 *)
(***************************************************************************)

FrameType == [fn : {"op", "connect"}, cmd : Cmds \cup {"END", "RECONNECT"}, again : BOOLEAN, pre : BOOLEAN]
ConnType ==
  [up : BOOLEAN, data : {"none", "made", "open"}, ascii : BOOLEAN, passive : BOOLEAN, moving : BOOLEAN]
JobType == [op : AllOps, ascii : BOOLEAN, resume : BOOLEAN]

LoginCmds == Logins \cup {"BANNER", "TYPE A", "TYPE I"}
TransferCmds == Setups \cup {"XFER"}
OpCmds == TransferCmds \cup {"CWD", "PWD", "CMD", "RNFR", "RNTO", "ABOR", "END", "RECONNECT"}
TransferOps == {"list", "get", "put"}

\* A stack of calls of request k for job j: an operation at the bottom, logins above it, which
\* only a busy server puts there; it did not answer the command of the call below.
FrameFits(frames, i, j) ==
  LET f == frames[i]
  IN /\ f.fn = "connect" => f.cmd \in LoginCmds
     /\ f.fn = "op" => i = 1 /\ f.cmd \in OpCmds
     /\ i < Len(frames) => f.cmd \notin {"BANNER", "END", "ABOR"}
     /\ i = Len(frames) => f.cmd # "RECONNECT"
     /\ f.fn = "op" /\ f.cmd \in TransferCmds => j.op \in TransferOps
     /\ f.cmd = "REST" => j.op # "list" /\ j.resume
     /\ f.fn = "op" /\ f.cmd \in {"TYPE A", "TYPE I"} => j.op # "list"
     /\ f.cmd = "RECONNECT" => j.op = "get"
StackFits(frames, k, j) ==
  /\ \A i \in 1..Len(frames) : FrameFits(frames, i, j)
  /\ frames # <<>> => k.up /\ ~k.moving
  /\ k.moving => k.up /\ j.op \in TransferOps
CallsInv == StackFits(calls, conn, job)

\* The replies that the client has not used yet, the oldest first.
Lines == inbox \o net
\* Only a busy or a closing server speaks unasked.
Polite(s) == \A i \in 1..Len(s) : Farewell(s[i]) => s[i].c = "42"
\* The two ends of the connection
WireInv ==
  /\ ~srv.open => toServer = <<>>
  /\ ~conn.up => srv = NoServer /\ net = <<>> /\ calls = <<>>
  /\ Polite(Lines)

\* From line n on there is at most the farewell of a server that is gone.
Ends(n) == Len(Lines) <= n /\ (Len(Lines) = n => Farewell(Lines[n]) /\ ~srv.open)

\* The command cmd is on its way, is answered, or will never be.
Sent(cmd) == srv.open /\ toServer = <<cmd>> /\ Len(Lines) = 0
Answered(cmd) == toServer = <<>> /\ Len(Lines) >= 1 /\ Lines[1].cmd = cmd /\ Lines[1].mine /\ Ends(2)
Unheard == toServer = <<>> /\ ~srv.open /\ Ends(1)

\* At most two lines of an earlier connection, the second a farewell
FewLines(s) == Len(s) <= 2 /\ (Len(s) = 2 => Farewell(s[2]))
\* No connection, only what is left in the buffer
Down == ~conn.up /\ FewLines(inbox)

\* The end of file was read: nobody is there any more.
Dead == conn.up /\ skew = "eof" /\ ~srv.open /\ Len(Lines) = 0

\* A login whose answers are one behind, because of a line in the buffer, does not get past
\* PWD; one with a farewell in the buffer fails when it reads that.
OldFirst == Top.cmd = "PWD" => Lines[1].cmd # "PWD"
NewSecond == Top.cmd # "PWD" => Lines[2].cmd # "PWD"
Behind ==
  \/ /\ srv.open /\ Len(Lines) = 0 /\ Len(toServer) = 2
     /\ toServer[1] \in LoginCmds \ {"PWD"} /\ toServer[2] = Top.cmd
  \/ srv.open /\ toServer = <<Top.cmd>> /\ Len(Lines) = 1 /\ OldFirst
  \/ toServer = <<>> /\ Len(Lines) >= 2 /\ OldFirst /\ NewSecond /\ Ends(3)
  \/ toServer = <<>> /\ ~srv.open /\ Len(Lines) >= 1 /\ OldFirst /\ Ends(2)
Doomed ==
  /\ Len(inbox) \in {1, 2} /\ Farewell(inbox[Len(inbox)])
  /\ Len(inbox) = 2 => Top.cmd = "BANNER"
LoggingIn ==
  /\ ~srv.xfer /\ ~srv.data /\ ~srv.rest
  /\ \/ Sent(Top.cmd) \/ Unheard \/ Behind
     \/ Answered(Top.cmd) /\ (Top.cmd = "PWD" /\ Lines[1].c = "2" => srv.login = "yes")
InLogin == conn.up /\ ~Idle /\ Top.fn = "connect" /\ (Doomed \/ LoggingIn)

\* A transfer goes on, or is over and said so.
Transferring ==
  /\ toServer = <<>> /\ ~srv.rest
  /\ \/ Len(Lines) = 0 /\ (srv.open => srv.xfer)
     \/ ~srv.xfer /\ Answered("XFER") /\ Lines[1].c \in {"2", "4"}
Offset == job.op = "list" \/ srv.offset = job.resume

\* It may be over before the client has read that it starts.
Started ==
  /\ toServer = <<>> /\ Len(Lines) >= 1 /\ Lines[1].cmd = "XFER" /\ Lines[1].c = "1" /\ Lines[1].mine
  /\ ~srv.rest /\ Offset
  /\ \/ Len(Lines) = 1 /\ (srv.open => srv.xfer)
     \/ /\ ~srv.xfer /\ Len(Lines) >= 2 /\ Ends(3)
        /\ Lines[2].cmd = "XFER" /\ Lines[2].c \in {"2", "4"} /\ Lines[2].mine

\* An operation waits; a transfer asked for after a reconnect finds no data connection.
OnRest ==
  /\ Top.cmd = "REST" /\ ~srv.xfer
  /\ \/ Sent("REST") /\ ~srv.rest
     \/ Unheard
     \/ Answered("REST") /\ (srv.rest <=> Lines[1].c = "3")
Resumes == job.op # "list" /\ job.resume
OnXfer ==
  /\ Top.cmd = "XFER"
  /\ \/ Sent("XFER") /\ ~srv.xfer /\ (Top.again => ~srv.data) /\ (~Top.again => srv.rest = Resumes)
     \/ Unheard /\ ~srv.xfer
     \/ Answered("XFER") /\ ~srv.xfer /\ Lines[1].c \in {"4", "5", "42"} /\ (Lines[1].c # "42" => ~srv.rest)
     \/ Started
OnOther ==
  /\ Top.cmd \notin {"REST", "XFER", "END"} /\ ~srv.xfer /\ ~srv.rest
  /\ Sent(Top.cmd) \/ Unheard \/ Answered(Top.cmd)
OnEnd == Top.cmd = "END" /\ Transferring
InOp ==
  /\ conn.up /\ ~Idle /\ Top.fn = "op" /\ skew = "no" /\ srv.login = "yes"
  /\ OnRest \/ OnXfer \/ OnOther \/ OnEnd

\* Between operations
Rested == toServer = <<>> /\ Ends(1) /\ ~srv.xfer /\ ~srv.rest
Resting ==
  /\ conn.up /\ Idle /\ skew = "no" /\ srv.login = "yes"
  /\ IF conn.moving THEN Transferring /\ Offset ELSE Rested

SessionInv == Down \/ Dead \/ InLogin \/ InOp \/ Resting
FtpInv == TypeOK /\ CallsInv /\ WireInv /\ SessionInv

NoAbort == skew # "abort"

-----------------------------------------------------------------------------
(* Sequences *)

\* Lines that got old are the same lines, of an earlier command.
LEMMA AgedFacts ==
  ASSUME NEW s \in Seq(Replies)
  PROVE  /\ Aged(s) \in Seq(Replies) /\ Len(Aged(s)) = Len(s)
         /\ \A i \in 1..Len(s) : /\ Aged(s)[i].cmd = s[i].cmd /\ Aged(s)[i].c = s[i].c
                                 /\ Farewell(Aged(s)[i]) <=> Farewell(s[i])
<1>1. \A i \in 1..Len(s) : s[i] \in Replies
  OBVIOUS
<1>2. DOMAIN s = 1..Len(s) /\ Len(s) \in Nat
  OBVIOUS
<1>3. \A i \in 1..Len(s) : [s[i] EXCEPT !.mine = FALSE] \in Replies
  BY <1>1 DEF Replies
<1>4. Aged(s) = [i \in 1..Len(s) |-> [s[i] EXCEPT !.mine = FALSE]]
  BY <1>2 DEF Aged
<1>5. Aged(s) \in Seq(Replies) /\ Len(Aged(s)) = Len(s)
  <2>1. Aged(s) \in [1..Len(s) -> Replies]
    BY <1>3, <1>4
  <2> QED
    BY <2>1, <1>2
<1>6. \A i \in 1..Len(s) : Aged(s)[i].cmd = s[i].cmd /\ Aged(s)[i].c = s[i].c
  <2> TAKE i \in 1..Len(s)
  <2>1. Aged(s)[i] = [s[i] EXCEPT !.mine = FALSE]
    BY <1>4
  <2> QED
    BY <2>1, <1>1 DEF Replies
<1> QED
  BY <1>5, <1>6 DEF Farewell

\* A sequence after another one
LEMMA Joined ==
  ASSUME NEW s \in Seq(Replies), NEW t \in Seq(Replies)
  PROVE  /\ s \o t \in Seq(Replies) /\ Len(s \o t) = Len(s) + Len(t)
         /\ \A i \in 1..Len(s) : (s \o t)[i] = s[i]
         /\ \A i \in 1..Len(t) : (s \o t)[Len(s) + i] = t[i]
         /\ \A i \in 1..Len(s) + Len(t) : (s \o t)[i] = IF i <= Len(s) THEN s[i] ELSE t[i - Len(s)]
<1>1. /\ s \o t \in Seq(Replies) /\ Len(s \o t) = Len(s) + Len(t)
      /\ \A i \in 1..Len(s) + Len(t) : (s \o t)[i] = IF i <= Len(s) THEN s[i] ELSE t[i - Len(s)]
  OBVIOUS
<1>2. Len(s) \in Nat /\ Len(t) \in Nat
  OBVIOUS
<1>3. \A i \in 1..Len(s) : i \in 1..Len(s) + Len(t) /\ i <= Len(s)
  BY <1>2
<1>4. \A i \in 1..Len(t) : Len(s) + i \in 1..Len(s) + Len(t) /\ ~(Len(s) + i <= Len(s)) /\ Len(s) + i - Len(s) = i
  BY <1>2
<1> QED
  BY <1>1, <1>3, <1>4

\* What the client has still to read, as one sequence
LEMMA LinesFacts ==
  ASSUME inbox \in Seq(Replies), net \in Seq(Replies)
  PROVE  /\ Lines \in Seq(Replies) /\ Len(Lines) = Len(inbox) + Len(net)
         /\ Len(inbox) \in Nat /\ Len(net) \in Nat
         /\ \A i \in 1..Len(inbox) : Lines[i] = inbox[i]
         /\ \A i \in 1..Len(net) : Lines[Len(inbox) + i] = net[i]
         /\ \A i \in 1..Len(Lines) : Lines[i] \in Replies
<1>1. Len(inbox) \in Nat /\ Len(net) \in Nat
  OBVIOUS
<1>2. /\ Lines \in Seq(Replies) /\ Len(Lines) = Len(inbox) + Len(net)
      /\ \A i \in 1..Len(inbox) : Lines[i] = inbox[i]
      /\ \A i \in 1..Len(net) : Lines[Len(inbox) + i] = net[i]
  BY Joined DEF Lines
<1>3. \A i \in 1..Len(Lines) : Lines[i] \in Replies
  BY <1>2
<1> QED
  BY <1>1, <1>2, <1>3

\* One more element
LEMMA AppendFacts ==
  ASSUME NEW S, NEW s \in Seq(S), NEW e \in S
  PROVE  /\ Append(s, e) \in Seq(S) /\ Len(Append(s, e)) = Len(s) + 1 /\ Append(s, e) # <<>>
         /\ Append(s, e)[Len(s) + 1] = e /\ Last(Append(s, e)) = e
         /\ \A i \in 1..Len(s) : Append(s, e)[i] = s[i]
<1>1. Len(s) \in Nat
  OBVIOUS
<1>2. /\ Append(s, e) \in Seq(S) /\ Len(Append(s, e)) = Len(s) + 1
      /\ Append(s, e)[Len(s) + 1] = e
      /\ \A i \in 1..Len(s) : Append(s, e)[i] = s[i]
  OBVIOUS
<1>3. Append(s, e) # <<>>
  BY <1>1, <1>2
<1> QED
  BY <1>2, <1>3 DEF Last

\* The last element and the others
LEMMA FrontFacts ==
  ASSUME NEW S, NEW s \in Seq(S), s # <<>>
  PROVE  /\ Front(s) \in Seq(S) /\ Len(Front(s)) = Len(s) - 1 /\ Len(s) \in Nat /\ Len(s) >= 1
         /\ \A i \in 1..Len(s) - 1 : Front(s)[i] = s[i]
         /\ Last(s) = s[Len(s)] /\ Last(s) \in S
<1>1. Len(s) \in Nat /\ Len(s) >= 1
  OBVIOUS
<1>2. Front(s) = [i \in 1..Len(s) - 1 |-> s[i]]
  BY <1>1 DEF Front
<1>3. \A i \in 1..Len(s) - 1 : s[i] \in S
  BY <1>1
<1>4. Front(s) \in [1..Len(s) - 1 -> S] /\ Len(s) - 1 \in Nat
  BY <1>1, <1>2, <1>3
<1>5. Front(s) \in Seq(S) /\ Len(Front(s)) = Len(s) - 1
  BY <1>4
<1>6. Last(s) = s[Len(s)] /\ Last(s) \in S
  BY <1>1 DEF Last
<1> QED
  BY <1>1, <1>2, <1>5, <1>6

\* The first element and the others
LEMMA TailFacts ==
  ASSUME NEW S, NEW s \in Seq(S), Len(s) >= 1
  PROVE  /\ s # <<>> /\ Head(s) = s[1] /\ Tail(s) \in Seq(S) /\ Len(Tail(s)) = Len(s) - 1 /\ Len(s) \in Nat
         /\ \A i \in 1..Len(s) - 1 : Tail(s)[i] = s[i + 1]
<1>1. s # <<>> /\ Len(s) \in Nat
  OBVIOUS
<1> QED
  BY <1>1, HeadTailProperties

\* The buffer after a read() that brought n lines, rest not being there yet
Brings(n, buffer, rest) ==
  /\ n \in Nat /\ n <= Len(net) /\ (n = 0 <=> Len(inbox) > 0)
  /\ buffer \in Seq(Replies) /\ Len(buffer) = Len(inbox) + n
  /\ \A i \in 1..Len(inbox) : buffer[i] = inbox[i]
  /\ \A i \in 1..n : buffer[Len(inbox) + i] = net[i]
  /\ rest \in Seq(Replies) /\ Len(rest) = Len(net) - n
  /\ \A i \in 1..Len(net) - n : rest[i] = net[n + i]
\* The buffer gives the first line, and rest comes after what it keeps.
TakesOne(buffer, rest) ==
  /\ buffer \in Seq(Replies) /\ rest \in Seq(Replies)
  /\ buffer # <<>> /\ Len(Lines) >= 1 /\ Len(Lines) \in Nat /\ Head(buffer) = Lines[1]
  /\ Tail(buffer) \in Seq(Replies)
  /\ Len(Tail(buffer)) + Len(rest) = Len(Lines) - 1
  /\ \A i \in 1..Len(Lines) - 1 : (Tail(buffer) \o rest)[i] = Lines[i + 1]
  /\ \A i \in 1..Len(Tail(buffer)) : Tail(buffer)[i] = Lines[i + 1]
  /\ Len(inbox) > 0 => Len(Tail(buffer)) = Len(inbox) - 1

\* The line taken is the first of all, and the others keep their order.
LEMMA ReadPlaces ==
  ASSUME inbox \in Seq(Replies), net \in Seq(Replies), NEW n, NEW buffer, NEW rest, Brings(n, buffer, rest)
  PROVE  TakesOne(buffer, rest)
<1> USE DEF Brings
<1>1. Len(net) \in Nat /\ Len(inbox) \in Nat
  OBVIOUS
<1>2. /\ Len(Lines) = Len(inbox) + Len(net)
      /\ \A i \in 1..Len(inbox) : Lines[i] = inbox[i]
      /\ \A i \in 1..Len(net) : Lines[Len(inbox) + i] = net[i]
  BY LinesFacts
<1>3. Len(buffer) >= 1 /\ (Len(inbox) > 0 => Len(buffer) = Len(inbox))
  BY <1>1
<1>4. /\ buffer # <<>> /\ Head(buffer) = buffer[1] /\ Tail(buffer) \in Seq(Replies)
      /\ Len(Tail(buffer)) = Len(buffer) - 1 /\ Len(buffer) \in Nat
      /\ \A i \in 1..Len(buffer) - 1 : Tail(buffer)[i] = buffer[i + 1]
  BY <1>3, TailFacts
<1>5. \A i \in 1..Len(buffer) : buffer[i] = Lines[i]
  <2> TAKE i \in 1..Len(buffer)
  <2>1. CASE i \in 1..Len(inbox)
    BY <2>1, <1>2
  <2>2. CASE i \notin 1..Len(inbox)
    <3>1. PICK k : k = i - Len(inbox)
      OBVIOUS
    <3>2. k \in 1..n /\ k \in 1..Len(net) /\ i = Len(inbox) + k
      BY <3>1, <2>2, <1>1
    <3> QED
      BY <3>2, <1>2
  <2> QED
    BY <2>1, <2>2
<1>6. \A i \in 1..Len(Tail(buffer)) : Tail(buffer)[i] = Lines[i + 1]
  <2>1. PICK m : m = Len(buffer)
    OBVIOUS
  <2>2. \A i \in 1..m - 1 : i + 1 \in 1..m
    BY <2>1, <1>4
  <2> QED
    BY <2>1, <2>2, <1>4, <1>5
<1>7. \A i \in 1..Len(Lines) - 1 : (Tail(buffer) \o rest)[i] = Lines[i + 1]
  <2> TAKE i \in 1..Len(Lines) - 1
  <2>1. /\ \A k \in 1..Len(Tail(buffer)) : (Tail(buffer) \o rest)[k] = Tail(buffer)[k]
        /\ \A k \in 1..Len(rest) : (Tail(buffer) \o rest)[Len(Tail(buffer)) + k] = rest[k]
    BY SMTT(20), <1>4, Joined
  <2>2. CASE i \in 1..Len(Tail(buffer))
    BY <2>2, <2>1, <1>6
  <2>3. CASE i \notin 1..Len(Tail(buffer))
    <3>1. PICK m : m = Len(Tail(buffer))
      OBVIOUS
    <3>2. m = Len(inbox) + n - 1 /\ m \in Nat
      BY <3>1, <1>1, <1>3, <1>4
    <3>3. PICK k : k = i - m
      OBVIOUS
    <3>4. i \in Nat /\ 1 <= i /\ i <= Len(inbox) + Len(net) - 1 /\ ~(i <= m)
      BY <2>3, <3>1, <3>2, <1>1, <1>2
    <3>5. k \in 1..Len(net) - n /\ i = m + k
      BY <3>2, <3>3, <3>4, <1>1
    <3>6. n + k \in 1..Len(net) /\ i + 1 = Len(inbox) + (n + k)
      BY <3>2, <3>5, <1>1
    <3>7. (Tail(buffer) \o rest)[i] = rest[k] /\ rest[k] = net[n + k]
      BY <3>1, <3>5, <2>1
    <3>8. Lines[i + 1] = net[n + k]
      BY <3>6, <1>2
    <3> QED
      BY <3>7, <3>8
  <2> QED
    BY <2>2, <2>3
<1>8. Len(Tail(buffer)) + Len(rest) = Len(Lines) - 1
  <2>1. PICK m : m = Len(Tail(buffer))
    OBVIOUS
  <2>2. m = Len(inbox) + n - 1
    BY <2>1, <1>1, <1>4
  <2>3. m + Len(rest) = Len(inbox) + Len(net) - 1
    BY <2>2, <1>1
  <2> QED
    BY <2>1, <2>3, <1>2
<1>9. Len(Lines) >= 1 /\ Len(Lines) \in Nat
  BY <1>1, <1>2, <1>3
<1>10. buffer[1] = Lines[1]
  BY <1>3, <1>4, <1>5
<1>11. Len(inbox) > 0 => Len(Tail(buffer)) = Len(inbox) - 1
  BY <1>3, <1>4
<1> QED
  BY <1>4, <1>6, <1>7, <1>8, <1>9, <1>10, <1>11 DEF TakesOne

\* gftp_get_line() takes the first line; what one read() brought and it does not need stays in
\* the buffer.
LEMMA ReadLines ==
  ASSUME inbox \in Seq(Replies), net \in Seq(Replies), NEW n \in 0..Len(net), (n = 0) <=> (inbox # <<>>),
         NEW buffer, buffer = inbox \o SubSeq(net, 1, n),
         NEW rest, rest = SubSeq(net, n + 1, Len(net))
  PROVE  TakesOne(buffer, rest) /\ Head(buffer) = Head(Lines)
<1>1. n \in Nat /\ n <= Len(net) /\ (n = 0 <=> Len(inbox) > 0)
  <2>1. Len(inbox) \in Nat /\ (inbox # <<>> <=> Len(inbox) > 0) /\ Len(net) \in Nat
    OBVIOUS
  <2> QED
    BY <2>1
<1>2. rest \in Seq(Replies) /\ Len(rest) = Len(net) - n /\ \A i \in 1..Len(net) - n : rest[i] = net[n + i]
  <2>1. PICK m : m = Len(net) /\ m \in Nat
    BY LinesFacts
  <2>2. \A i \in (n + 1)..m : net[i] \in Replies
    BY <1>1, <2>1
  <2>3. n + 1 \in Int /\ m \in Int /\ rest = SubSeq(net, n + 1, m)
    BY <1>1, <2>1
  <2>4. /\ rest \in Seq(Replies) /\ Len(rest) = IF n + 1 <= m THEN m - (n + 1) + 1 ELSE 0
        /\ \A i \in 1..m - (n + 1) + 1 : rest[i] = net[(n + 1) + i - 1]
    BY <2>2, <2>3, SubSeqProperties
  <2>5. (IF n + 1 <= m THEN m - (n + 1) + 1 ELSE 0) = m - n /\ m - (n + 1) + 1 = m - n
    BY <1>1, <2>1
  <2>6. \A i \in 1..m - n : (n + 1) + i - 1 = n + i
    BY <1>1, <2>1
  <2> QED
    BY <2>1, <2>4, <2>5, <2>6
<1>3. PICK first : first = SubSeq(net, 1, n)
  OBVIOUS
<1>4. first \in Seq(Replies) /\ Len(first) = n /\ \A i \in 1..n : first[i] = net[i]
  BY <1>1, <1>3
<1>5. /\ buffer \in Seq(Replies) /\ Len(buffer) = Len(inbox) + n
      /\ \A i \in 1..Len(inbox) : buffer[i] = inbox[i]
      /\ \A i \in 1..n : buffer[Len(inbox) + i] = net[i]
  BY <1>3, <1>4, Joined
<1>6. TakesOne(buffer, rest)
  <2>1. Brings(n, buffer, rest)
    BY <1>1, <1>2, <1>5 DEF Brings
  <2> QED
    BY <2>1, ReadPlaces
<1>7. Head(Lines) = Lines[1]
  <2>1. Lines \in Seq(Replies)
    BY LinesFacts
  <2>2. Len(Lines) >= 1
    BY <1>6 DEF TakesOne
  <2> QED
    BY <2>1, <2>2, TailFacts
<1> QED
  BY <1>6, <1>7 DEF TakesOne

-----------------------------------------------------------------------------
(* What the client leaves on the wire with an outcome o of job j *)

OutcomeOk(o, j) ==
  /\ o.conn \in ConnType /\ o.calls \in Seq(FrameType)
  /\ o.ret \in {"none", "ok", "retry", "fatal", "timeout"} /\ o.send \in Cmds \cup {"nothing"}
  /\ StackFits(o.calls, o.conn, j)
  /\ o.send = "nothing" => o.calls = <<>> \/ Last(o.calls).cmd = "END"
  /\ o.send # "nothing" => o.calls # <<>> /\ Last(o.calls).cmd = o.send

\* The lines s, of an earlier command where it is not keep
SameLines(s, t, keep) ==
  /\ Len(t) = Len(s)
  /\ \A i \in 1..Len(s) : /\ t[i].cmd = s[i].cmd /\ t[i].c = s[i].c /\ (Farewell(t[i]) <=> Farewell(s[i]))
                          /\ keep => t[i] = s[i]

\* Lines that got old, and lines that did not
LEMMA AgedSame ==
  ASSUME NEW s \in Seq(Replies)
  PROVE  SameLines(s, Aged(s), FALSE) /\ SameLines(s, s, TRUE)
BY AgedFacts DEF SameLines

\* Those of the buffer and those on the network
LEMMA AgedJoined ==
  ASSUME NEW s \in Seq(Replies), NEW t \in Seq(Replies)
  PROVE  SameLines(s \o t, Aged(s) \o Aged(t), FALSE)
<1>1. PICK a : a = Aged(s)
  OBVIOUS
<1>2. PICK b : b = Aged(t)
  OBVIOUS
<1>3. /\ a \in Seq(Replies) /\ Len(a) = Len(s)
      /\ \A i \in 1..Len(s) : a[i].cmd = s[i].cmd /\ a[i].c = s[i].c
  BY <1>1, AgedFacts
<1>4. /\ b \in Seq(Replies) /\ Len(b) = Len(t)
      /\ \A i \in 1..Len(t) : b[i].cmd = t[i].cmd /\ b[i].c = t[i].c
  BY <1>2, AgedFacts
<1>5. /\ Len(s \o t) = Len(s) + Len(t) /\ Len(a \o b) = Len(s) + Len(t)
      /\ \A i \in 1..Len(s) + Len(t) : (s \o t)[i] = IF i <= Len(s) THEN s[i] ELSE t[i - Len(s)]
      /\ \A i \in 1..Len(s) + Len(t) : (a \o b)[i] = IF i <= Len(s) THEN a[i] ELSE b[i - Len(s)]
  <2>1. Len(a \o b) = Len(a) + Len(b) /\ Len(s \o t) = Len(s) + Len(t)
    BY <1>3, <1>4, Joined
  <2>2. \A i \in 1..Len(s) + Len(t) : (s \o t)[i] = IF i <= Len(s) THEN s[i] ELSE t[i - Len(s)]
    BY Joined
  <2>3. \A i \in 1..Len(a) + Len(b) : (a \o b)[i] = IF i <= Len(a) THEN a[i] ELSE b[i - Len(a)]
    BY <1>3, <1>4, Joined
  <2> QED
    BY <1>3, <1>4, <2>1, <2>2, <2>3
<1>6. Len(s) \in Nat /\ Len(t) \in Nat
  OBVIOUS
<1>7. \A i \in 1..Len(s) + Len(t) : (a \o b)[i].cmd = (s \o t)[i].cmd /\ (a \o b)[i].c = (s \o t)[i].c
  <2> TAKE i \in 1..Len(s) + Len(t)
  <2>1. CASE i <= Len(s)
    <3>1. i \in 1..Len(s)
      BY <2>1, <1>6
    <3> QED
      BY <3>1, <2>1, <1>3, <1>5
  <2>2. CASE ~(i <= Len(s))
    <3>1. PICK k : k = i - Len(s)
      OBVIOUS
    <3>2. k \in 1..Len(t)
      BY <3>1, <2>2, <1>6
    <3>3. (a \o b)[i] = b[k] /\ (s \o t)[i] = t[k]
      BY <3>1, <2>2, <1>5
    <3> QED
      BY <3>2, <3>3, <1>4
  <2> QED
    BY <2>1, <2>2
<1> QED
  BY <1>1, <1>2, <1>5, <1>7 DEF SameLines, Farewell

\* The connection is closed: only the buffer is left.
LEMMA ApplyDrop ==
  ASSUME NEW o, NEW j, NEW buffer, NEW line, OutcomeOk(o, j), ~o.conn.up, Apply(o, buffer, line, j)
  PROVE  /\ calls' = <<>> /\ Idle' /\ conn' = o.conn /\ ~conn'.up /\ ~conn'.moving /\ ret' = o.ret
         /\ job' = Plain("connect")
         /\ srv' = NoServer /\ net' = <<>> /\ toServer' = <<>> /\ inbox' = buffer
<1>1. ~o.conn.moving /\ o.calls = <<>>
  BY DEF OutcomeOk, StackFits, ConnType
<1>2. o.send = "nothing"
  BY <1>1 DEF OutcomeOk
<1>3. srv' = NoServer /\ ~NoServer.open
  BY <1>2 DEF Apply, NoServer, FreshServer
<1> QED
  BY <1>1, <1>2, <1>3 DEF Apply, Heard, Idle

\* A new session starts, with what was in the buffer.
LEMMA ApplyFresh ==
  ASSUME NEW o, NEW j, NEW buffer \in Seq(Replies), NEW line, OutcomeOk(o, j), o.send = "BANNER",
         Apply(o, buffer, line, j)
  PROVE  /\ calls' = o.calls /\ conn' = o.conn /\ ret' = o.ret /\ job' = j
         /\ srv' = FreshServer /\ net' = <<>> /\ toServer' = <<"BANNER">>
         /\ inbox' \in Seq(Replies) /\ SameLines(buffer, inbox', FALSE)
<1>1. o.calls # <<>>
  BY DEF OutcomeOk
<1>2. srv' = FreshServer /\ FreshServer.open
  BY DEF Apply, FreshServer
<1>3. net' = Aged(<<>>) /\ inbox' = Aged(buffer) /\ toServer' = Append(<<>>, "BANNER")
  BY <1>2 DEF Apply, Heard
<1>4. Aged(<<>>) = <<>>
  BY DEF Aged
<1>5. inbox' \in Seq(Replies) /\ SameLines(buffer, inbox', FALSE)
  BY <1>3, AgedFacts, AgedSame
<1>6. toServer' = <<"BANNER">>
  BY <1>3
<1>7. calls' = o.calls /\ conn' = o.conn /\ ret' = o.ret /\ job' = j
  BY <1>1 DEF Apply
<1> QED
  BY <1>2, <1>3, <1>4, <1>5, <1>6, <1>7

\* The session goes on.
LEMMA ApplyGo ==
  ASSUME NEW o, NEW j, NEW buffer \in Seq(Replies), NEW line \in Seq(Replies), OutcomeOk(o, j),
         conn.up, o.conn.up, o.send # "BANNER", ~srv.open => toServer = <<>>, Apply(o, buffer, line, j)
  PROVE  /\ calls' = o.calls /\ conn' = o.conn /\ ret' = o.ret
         /\ job' = IF o.calls = <<>> /\ ~o.conn.moving THEN Plain("connect") ELSE j
         /\ srv' = srv /\ net' \in Seq(Replies) /\ inbox' \in Seq(Replies)
         /\ Len(net') = Len(line) /\ Len(inbox') = Len(buffer)
         /\ SameLines(buffer \o line, Lines', o.send = "nothing")
         /\ SameLines(buffer, inbox', o.send = "nothing")
         /\ o.send = "nothing" => toServer' = toServer
         /\ o.send # "nothing" => toServer' = IF srv.open THEN Append(toServer, o.send) ELSE <<>>
<1>1. srv' = srv
  BY DEF Apply
<1>2. CASE o.send = "nothing"
  <2>1. net' = line /\ inbox' = buffer /\ toServer' = toServer
    BY <1>1, <1>2 DEF Apply, Heard
  <2>2. buffer \o line \in Seq(Replies)
    BY Joined
  <2> QED
    BY <1>1, <1>2, <2>1, <2>2, AgedSame DEF Apply, Lines
<1>3. CASE o.send # "nothing"
  <2>1. net' = Aged(line) /\ inbox' = Aged(buffer) /\ toServer' = IF srv.open THEN Append(toServer, o.send) ELSE <<>>
    BY <1>1, <1>3 DEF Apply, Heard
  <2>2. /\ net' \in Seq(Replies) /\ Len(net') = Len(line)
        /\ inbox' \in Seq(Replies) /\ Len(inbox') = Len(buffer)
    BY <2>1, AgedFacts
  <2>3. SameLines(buffer \o line, Lines', FALSE) /\ SameLines(buffer, inbox', FALSE)
    BY <2>1, AgedJoined, AgedSame DEF Lines
  <2>4. /\ calls' = o.calls /\ conn' = o.conn /\ ret' = o.ret
        /\ job' = IF o.calls = <<>> /\ ~o.conn.moving THEN Plain("connect") ELSE j
    BY DEF Apply
  <2> QED
    BY <1>1, <1>3, <2>1, <2>2, <2>3, <2>4
<1> QED
  BY <1>2, <1>3

-----------------------------------------------------------------------------
(* The outcomes, and the stacks that they leave *)

\* Frames that wait below another call
BelowFits(frames, j) ==
  \A i \in 1..Len(frames) :
    LET f == frames[i]
    IN /\ f.fn = "connect" => f.cmd \in LoginCmds
       /\ f.fn = "op" => i = 1 /\ f.cmd \in OpCmds
       /\ f.cmd \notin {"BANNER", "END", "ABOR"}
       /\ f.fn = "op" /\ f.cmd \in TransferCmds => j.op \in TransferOps
       /\ f.cmd = "REST" => j.op # "list" /\ j.resume
       /\ f.fn = "op" /\ f.cmd \in {"TYPE A", "TYPE I"} => j.op # "list"
       /\ f.cmd = "RECONNECT" => j.op = "get"
\* A frame that may come on top of n others
TopFits(f, n, j) ==
  /\ f.fn = "connect" => f.cmd \in LoginCmds
  /\ f.fn = "op" => n = 0 /\ f.cmd \in OpCmds
  /\ f.cmd # "RECONNECT"
  /\ f.fn = "op" /\ f.cmd \in TransferCmds => j.op \in TransferOps
  /\ f.cmd = "REST" => j.op # "list" /\ j.resume
  /\ f.fn = "op" /\ f.cmd \in {"TYPE A", "TYPE I"} => j.op # "list"

\* A frame on top of frames that wait is a stack of calls.
LEMMA Push ==
  ASSUME NEW frames \in Seq(FrameType), NEW j, BelowFits(frames, j), NEW f \in FrameType, TopFits(f, Len(frames), j)
  PROVE  \A i \in 1..Len(Append(frames, f)) : FrameFits(Append(frames, f), i, j)
<1>1. PICK s : s = Append(frames, f)
  OBVIOUS
<1>2. PICK n : n = Len(frames)
  OBVIOUS
<1>3. n \in Nat /\ Len(s) = n + 1 /\ s[n + 1] = f /\ \A i \in 1..n : s[i] = frames[i]
  BY <1>1, <1>2, AppendFacts
<1>4. \A i \in 1..n : FrameFits(s, i, j)
  <2> TAKE i \in 1..n
  <2>1. s[i] = frames[i] /\ i # Len(s)
    BY <1>3
  <2> QED
    BY <1>2, <2>1 DEF FrameFits, BelowFits
<1>5. FrameFits(s, n + 1, j)
  <2>1. ~(n + 1 < Len(s)) /\ (n = 0 => n + 1 = 1)
    BY <1>3
  <2> QED
    BY <1>2, <1>3, <2>1 DEF FrameFits, TopFits
<1>6. \A i \in 1..n + 1 : i = n + 1 \/ i \in 1..n
  BY <1>3
<1> QED
  BY <1>1, <1>3, <1>4, <1>5, <1>6

\* Nothing waits below the operation of a caller.
LEMMA EmptyBelow ==
  ASSUME NEW j PROVE <<>> \in Seq(FrameType) /\ BelowFits(<<>>, j) /\ Len(<<>>) = 0
BY DEF BelowFits

\* The command of frame f is sent, from the innermost of frames.
CanAsk(k, frames, j, f) ==
  /\ k \in ConnType /\ k.up /\ ~k.moving /\ frames \in Seq(FrameType) /\ BelowFits(frames, j)
  /\ f \in FrameType /\ f.cmd \in Cmds /\ TopFits(f, Len(frames), j)
AsksIn(o, k, frames, j, f) ==
  /\ OutcomeOk(o, j) /\ o.send = f.cmd /\ o.conn = k /\ o.calls # <<>> /\ o.ret = "none"
  /\ o.calls = Append(frames, f) /\ Last(o.calls) = f

\* Every command sent with Ask leaves a stack of calls.
LEMMA AskOk ==
  ASSUME NEW k, NEW frames, NEW j, NEW f, CanAsk(k, frames, j, f),
         NEW o, o = Ask(k, frames, f.fn, f.cmd, f.again, f.pre)
  PROVE  AsksIn(o, k, frames, j, f)
<1> USE DEF CanAsk
<1>1. f = Frame(f.fn, f.cmd, f.again, f.pre)
  BY DEF Frame, FrameType
<1>2. o = [conn |-> k, calls |-> Append(frames, f), send |-> f.cmd, ret |-> "none"]
  BY <1>1 DEF Ask, Outcome
<1>3. /\ Append(frames, f) \in Seq(FrameType) /\ Append(frames, f) # <<>> /\ Last(Append(frames, f)) = f
      /\ Append(frames, f)[Len(Append(frames, f))] = f
  BY AppendFacts
<1>4. \A i \in 1..Len(Append(frames, f)) : FrameFits(Append(frames, f), i, j)
  BY Push
<1>5. StackFits(o.calls, o.conn, j)
  BY <1>2, <1>3, <1>4 DEF StackFits
<1>6. f.cmd # "nothing"
  BY DEF Cmds, Logins, Setups
<1> QED
  BY <1>2, <1>3, <1>5, <1>6 DEF OutcomeOk, AsksIn

\* The connection is closed, and the operation fails.
Drops(o) == ~o.conn.up /\ o.ret # "ok"
\* A new session starts.
Starts(o) == o.conn.up /\ o.send = "BANNER"

\* An operation that returns leaves none.
LEMMA ReturnOk ==
  ASSUME NEW k \in ConnType, NEW j, k.moving => k.up /\ j.op \in TransferOps,
         NEW r \in {"none", "ok", "retry", "fatal", "timeout"}, NEW o, o = Return(k, r)
  PROVE  OutcomeOk(o, j) /\ o.send = "nothing" /\ o.conn = k /\ o.calls = <<>> /\ o.ret = r
<1>1. o = [conn |-> k, calls |-> <<>>, send |-> "nothing", ret |-> r]
  BY DEF Return, Outcome
<1>2. StackFits(<<>>, k, j)
  BY DEF StackFits
<1> QED
  BY <1>1, <1>2 DEF OutcomeOk

\* gftp_disconnect() leaves a request with no connection.
LEMMA DroppedType ==
  ASSUME NEW k \in ConnType
  PROVE  Dropped(k) \in ConnType /\ ~Dropped(k).up /\ ~Dropped(k).moving
BY DEF Dropped, ConnType

\* gftp_connect() starts a session, or returns an error.
LEMMA ConnectOk ==
  ASSUME NEW k \in ConnType, ~k.up, ~k.moving, NEW frames \in Seq(FrameType), NEW j,
         BelowFits(frames, j), NEW o \in Connect(k, frames)
  PROVE  /\ OutcomeOk(o, j) /\ (Drops(o) \/ Starts(o))
         /\ Starts(o) => Last(o.calls) = Frame("connect", "BANNER", FALSE, FALSE)
<1>1. PICK f : f = [k EXCEPT !.up = TRUE]
  OBVIOUS
<1>2. f \in ConnType /\ f.up /\ ~f.moving
  BY <1>1 DEF ConnType
<1>3. "BANNER" \in Cmds /\ TopFits(Frame("connect", "BANNER", FALSE, FALSE), Len(frames), j)
  BY DEF Cmds, TopFits, Frame, LoginCmds
<1>4. o = Ask(f, frames, "connect", "BANNER", FALSE, FALSE) \/ o = Return(k, "retry") \/ o = Return(k, "fatal")
  BY <1>1 DEF Connect
<1>5. CASE o = Ask(f, frames, "connect", "BANNER", FALSE, FALSE)
  <2>1. PICK b : b = Frame("connect", "BANNER", FALSE, FALSE)
    OBVIOUS
  <2>2. /\ b \in FrameType /\ b.fn = "connect" /\ b.cmd = "BANNER" /\ ~b.again /\ ~b.pre
        /\ o = Ask(f, frames, b.fn, b.cmd, b.again, b.pre)
    BY <2>1, <1>5 DEF Frame, FrameType, Cmds
  <2>3. CanAsk(f, frames, j, b)
    BY <2>1, <2>2, <1>2, <1>3 DEF CanAsk
  <2>4. AsksIn(o, f, frames, j, b)
    BY <2>2, <2>3, AskOk
  <2> QED
    BY <2>1, <2>2, <2>4, <1>2 DEF Starts, AsksIn
<1>6. CASE o = Return(k, "retry")
  <2>1. PICK r : r = "retry"
    OBVIOUS
  <2>2. o = Return(k, r) /\ r \in {"none", "ok", "retry", "fatal", "timeout"}
    BY <1>6, <2>1
  <2>3. OutcomeOk(o, j) /\ o.send = "nothing" /\ o.conn = k /\ o.ret = r
    BY <2>2, ReturnOk
  <2> QED
    BY <2>1, <2>3 DEF Drops, Starts
<1>7. CASE o = Return(k, "fatal")
  <2>1. PICK r : r = "fatal"
    OBVIOUS
  <2>2. o = Return(k, r) /\ r \in {"none", "ok", "retry", "fatal", "timeout"}
    BY <1>7, <2>1
  <2>3. OutcomeOk(o, j) /\ o.send = "nothing" /\ o.conn = k /\ o.ret = r
    BY <2>2, ReturnOk
  <2> QED
    BY <2>1, <2>3 DEF Drops, Starts
<1> QED
  BY <1>4, <1>5, <1>6, <1>7

\* A failure does too: gftp_transfer_file() may reconnect.
LEMMA FailOk ==
  ASSUME TypeOK, NEW k \in ConnType, ~k.up, ~k.moving, NEW e \in {"none", "retry", "fatal", "timeout"},
         NEW o \in Fail(k, e)
  PROVE  OutcomeOk(o, job) /\ (Drops(o) \/ Starts(o))
<1>1. CASE o \in Connect(k, <<Frame("op", "RECONNECT", FALSE, FALSE)>>) /\ job.op = "get"
  <2>1. PICK f : f = Frame("op", "RECONNECT", FALSE, FALSE)
    OBVIOUS
  <2>2. f \in FrameType /\ f.fn = "op" /\ f.cmd = "RECONNECT"
    BY <2>1 DEF Frame, FrameType
  <2>3. PICK s : s = <<f>>
    OBVIOUS
  <2>4. s \in Seq(FrameType) /\ Len(s) = 1 /\ s[1] = f
    BY <2>2, <2>3
  <2>5. BelowFits(s, job)
    <3>1. \A i \in 1..Len(s) : i = 1 /\ s[i] = f
      BY <2>4
    <3> QED
      BY <1>1, <2>2, <3>1 DEF BelowFits, OpCmds, TransferCmds, Setups
  <2> QED
    BY <1>1, <2>1, <2>3, <2>4, <2>5, ConnectOk
<1>2. CASE o = Return(k, e)
  BY <1>2, ReturnOk DEF Drops, Starts
<1> QED
  BY <1>1, <1>2 DEF Fail

-----------------------------------------------------------------------------
(* The commands of an operation *)

\* cmd is sent for the operation itself, the data connection and the request being ready for it.
AsksOp(o, j, cmd, again) ==
  /\ OutcomeOk(o, j) /\ o.conn.up /\ o.send = cmd /\ o.calls # <<>> /\ o.ret = "none"
  /\ Last(o.calls).fn = "op" /\ Last(o.calls).cmd = cmd /\ Last(o.calls).again = again
Working(k) == k \in ConnType /\ k.up /\ ~k.moving

\* A command of an operation has nothing below it;
LEMMA AskOpOk ==
  ASSUME NEW k, Working(k), NEW j, NEW cmd \in Cmds, cmd \in OpCmds, cmd # "RECONNECT",
         cmd \in TransferCmds => j.op \in TransferOps, cmd = "REST" => j.op # "list" /\ j.resume,
         cmd \in {"TYPE A", "TYPE I"} => j.op # "list",
         NEW again \in BOOLEAN, NEW pre \in BOOLEAN, NEW o, o = Ask(k, <<>>, "op", cmd, again, pre)
  PROVE  AsksOp(o, j, cmd, again)
<1>1. PICK f : f = Frame("op", cmd, again, pre)
  OBVIOUS
<1>2. /\ f \in FrameType /\ f.fn = "op" /\ f.cmd = cmd /\ f.again = again /\ f.pre = pre
      /\ o = Ask(k, <<>>, f.fn, f.cmd, f.again, f.pre)
  BY <1>1 DEF Frame, FrameType
<1>3. <<>> \in Seq(FrameType) /\ BelowFits(<<>>, j) /\ Len(<<>>) = 0
  BY EmptyBelow
<1>4. TopFits(f, 0, j)
  BY <1>2 DEF TopFits
<1>5. CanAsk(k, <<>>, j, f)
  BY <1>2, <1>3, <1>4 DEF CanAsk, Working
<1>6. AsksIn(o, k, <<>>, j, f)
  BY <1>2, <1>5, AskOk
<1> QED
  BY <1>2, <1>6 DEF AsksOp, AsksIn, Working

\* so has the first attempt at one.
LEMMA AskPlainOk ==
  ASSUME NEW k, Working(k), NEW j, NEW cmd \in Cmds, cmd \in OpCmds, cmd # "RECONNECT",
         cmd \in TransferCmds => j.op \in TransferOps, cmd = "REST" => j.op # "list" /\ j.resume,
         cmd \in {"TYPE A", "TYPE I"} => j.op # "list",
         NEW o, o = Ask(k, <<>>, "op", cmd, FALSE, FALSE)
  PROVE  AsksOp(o, j, cmd, FALSE)
<1>1. PICK no : no = FALSE
  OBVIOUS
<1>2. no \in BOOLEAN /\ o = Ask(k, <<>>, "op", cmd, no, no)
  BY <1>1
<1>3. AsksOp(o, j, cmd, no)
  BY <1>2, AskOpOk
<1> QED
  BY <1>1, <1>3

\* The next command of a transfer's preparation, up to the transfer itself
SetsUp(o, j) ==
  \E cmd \in TransferCmds, again \in BOOLEAN :
    /\ AsksOp(o, j, cmd, again)
    /\ cmd = "XFER" => ~again /\ ~(j.op # "list" /\ j.resume)

\* The steps of rfc959_setup_file_transfer(): the transfer,
LEMMA AskTransferOk ==
  ASSUME NEW k, Working(k), NEW j, j.op \in TransferOps, NEW o, o = AskTransfer(k)
  PROVE  AsksOp(o, j, "XFER", FALSE)
<1>1. PICK cmd : cmd = "XFER"
  OBVIOUS
<1>2. /\ cmd \in Cmds /\ cmd \in OpCmds /\ cmd # "RECONNECT" /\ cmd # "REST" /\ cmd \notin {"TYPE A", "TYPE I"}
      /\ o = Ask(k, <<>>, "op", cmd, FALSE, FALSE)
  BY <1>1 DEF Cmds, OpCmds, TransferCmds, AskTransfer
<1>3. AsksOp(o, j, cmd, FALSE)
  BY <1>2, AskPlainOk
<1> QED
  BY <1>1, <1>3

\* the offset,
LEMMA AskOffsetOk ==
  ASSUME NEW k, Working(k), NEW j, j.op \in {"get", "put"}, NEW o, o = AskOffset(k, j)
  PROVE  SetsUp(o, j)
<1>1. CASE j.resume
  <2>1. PICK cmd : cmd = "REST"
    OBVIOUS
  <2>2. /\ cmd \in Cmds /\ cmd \in OpCmds /\ cmd \in TransferCmds /\ cmd # "RECONNECT" /\ cmd # "XFER"
        /\ o = Ask(k, <<>>, "op", cmd, FALSE, FALSE)
    BY <1>1, <2>1 DEF Cmds, OpCmds, TransferCmds, Setups, AskOffset
  <2>3. AsksOp(o, j, cmd, FALSE)
    BY <1>1, <2>2, AskPlainOk DEF TransferOps
  <2> QED
    BY <2>2, <2>3 DEF SetsUp
<1>2. CASE ~j.resume
  <2>0. o = AskTransfer(k) /\ j.op \in TransferOps
    BY <1>2 DEF AskOffset, TransferOps
  <2>1. AsksOp(o, j, "XFER", FALSE)
    BY <2>0, AskTransferOk
  <2> QED
    BY <1>2, <2>1 DEF SetsUp, TransferCmds
<1> QED
  BY <1>1, <1>2

\* the data connection,
LEMMA MakeDataOk ==
  ASSUME NEW k, Working(k), NEW j, j.op \in TransferOps, NEW again \in BOOLEAN, NEW pre \in BOOLEAN,
         NEW o, o = MakeData(k, <<>>, again, pre)
  PROVE  SetsUp(o, j) /\ Last(o.calls).cmd \in {"PASV", "PORT"}
<1>1. PICK cmd : cmd = IF k.passive THEN "PASV" ELSE "PORT"
  OBVIOUS
<1>2. /\ cmd \in Cmds /\ cmd \in OpCmds /\ cmd \in TransferCmds /\ cmd # "RECONNECT" /\ cmd # "XFER" /\ cmd # "REST"
      /\ cmd \in {"PASV", "PORT"}
  BY <1>1 DEF Cmds, OpCmds, TransferCmds, Setups
<1>3. PICK m : m = [k EXCEPT !.data = "made"]
  OBVIOUS
<1>4. Working(m)
  BY <1>3 DEF Working, ConnType
<1>5. o = Ask(m, <<>>, "op", cmd, again, pre)
  BY <1>1, <1>3 DEF MakeData
<1>6. AsksOp(o, j, cmd, again)
  BY <1>2, <1>4, <1>5, AskOpOk
<1> QED
  BY <1>2, <1>6 DEF SetsUp, AsksOp

\* the data connection where it is missing,
LEMMA AskDataOk ==
  ASSUME NEW k, Working(k), NEW j, j.op \in {"get", "put"}, NEW pre \in BOOLEAN, NEW o, o = AskData(k, j, pre)
  PROVE  SetsUp(o, j)
<1>1. CASE k.data = "none"
  <2>1. PICK no : no = FALSE
    OBVIOUS
  <2>2. no \in BOOLEAN /\ o = MakeData(k, <<>>, no, pre)
    BY <1>1, <2>1 DEF AskData
  <2>3. j.op \in TransferOps
    BY DEF TransferOps
  <2> QED
    BY <2>2, <2>3, MakeDataOk
<1>2. CASE k.data # "none"
  BY <1>2, AskOffsetOk DEF AskData
<1> QED
  BY <1>1, <1>2

\* the type,
LEMMA AskTypeOk ==
  ASSUME NEW k, Working(k), NEW j \in JobType, j.op \in {"get", "put"}, NEW pre \in BOOLEAN,
         NEW o, o = AskType(k, j, pre)
  PROVE  SetsUp(o, j)
<1>1. CASE k.ascii = j.ascii
  BY <1>1, AskDataOk DEF AskType
<1>2. CASE k.ascii # j.ascii
  <2>1. PICK no, cmd : no = FALSE /\ cmd = TypeCmd(j.ascii)
    OBVIOUS
  <2>2. /\ cmd \in Cmds /\ cmd \in OpCmds /\ cmd \in TransferCmds /\ cmd # "RECONNECT" /\ cmd # "XFER" /\ cmd # "REST"
        /\ no \in BOOLEAN
    BY <2>1 DEF Cmds, OpCmds, TransferCmds, Setups, TypeCmd
  <2>3. PICK m : m = [k EXCEPT !.ascii = j.ascii]
    OBVIOUS
  <2>4. Working(m)
    BY <2>3 DEF Working, ConnType, JobType
  <2>5. o = Ask(m, <<>>, "op", cmd, no, pre)
    BY <1>2, <2>1, <2>3 DEF AskType
  <2>6. j.op \in TransferOps
    BY DEF TransferOps
  <2>7. AsksOp(o, j, cmd, no)
    BY <2>2, <2>4, <2>5, <2>6, AskOpOk
  <2> QED
    BY <2>2, <2>7 DEF SetsUp
<1> QED
  BY <1>1, <1>2

\* and what follows the answer to PASV or PORT.
LEMMA DataReadyOk ==
  ASSUME NEW k, Working(k), job \in JobType, job.op \in TransferOps, NEW pre \in BOOLEAN, NEW o, o = DataReady(k, pre)
  PROVE  SetsUp(o, job)
<1>1. CASE job.op = "list"
  <2>0. o = AskTransfer(k)
    BY <1>1 DEF DataReady
  <2>1. AsksOp(o, job, "XFER", FALSE)
    BY <2>0, AskTransferOk
  <2> QED
    BY <1>1, <2>1 DEF SetsUp, TransferCmds
<1>2. CASE job.op # "list" /\ pre
  <2>1. PICK no : no = FALSE
    OBVIOUS
  <2>2. no \in BOOLEAN /\ o = AskType(k, job, no) /\ job.op \in {"get", "put"}
    BY <1>2, <2>1 DEF DataReady, TransferOps
  <2> QED
    BY <2>2, AskTypeOk
<1>3. CASE job.op # "list" /\ ~pre
  BY <1>3, AskOffsetOk DEF DataReady, TransferOps
<1> QED
  BY <1>1, <1>2, <1>3

-----------------------------------------------------------------------------
(* What the client does with a reply *)

Reopens(o) == OutcomeOk(o, job) /\ (Drops(o) \/ Starts(o))

\* The operation returns, connected.
Returns(r, o) ==
  /\ OutcomeOk(o, job) /\ o.calls = <<>> /\ o.conn.up /\ o.send = "nothing"
  /\ r.c = "42" => Top.cmd = "ABOR"
  /\ o.conn.moving <=> Top.cmd = "XFER" /\ r.c = "1"
  /\ Top.cmd = "REST" => r.c # "3"
  /\ o.ret = "ok" => Top.cmd # "ABOR"
\* It sends its next command.
Asks(r, o) ==
  /\ r.c # "42" /\ Top.cmd \notin {"XFER", "END", "ABOR"}
  /\ \E cmd \in OpCmds, again \in BOOLEAN :
       /\ AsksOp(o, job, cmd, again) /\ cmd \notin {"END", "ABOR", "RECONNECT"}
       /\ cmd = "XFER" => ~again /\ (Top.cmd = "REST" \/ ~Resumes)
       /\ Top.cmd = "REST" => r.c = "3" /\ cmd = "XFER"

\* The login sends its next command.
AsksLogin(o) ==
  /\ OutcomeOk(o, job) /\ o.conn.up /\ o.calls # <<>> /\ o.ret = "none"
  /\ o.send \in LoginCmds \ {"BANNER"} /\ Last(o.calls).fn = "connect" /\ Last(o.calls).cmd = o.send
\* The login is over, and the call below it sends its command again.
LoginOver(o) ==
  \/ OutcomeOk(o, job) /\ o.calls = <<>> /\ o.conn.up /\ o.send = "nothing" /\ ~o.conn.moving
  \/ AsksLogin(o)
  \/ \E cmd \in OpCmds, again \in BOOLEAN :
       /\ AsksOp(o, job, cmd, again) /\ cmd \notin {"END", "ABOR", "RECONNECT"}
       /\ cmd = "XFER" => again \/ ~Resumes

\* The frames below the innermost one wait for a login.
LEMMA CallsBelow ==
  ASSUME TypeOK, CallsInv, calls # <<>>
  PROVE  /\ calls \in Seq(FrameType) /\ Len(calls) \in Nat /\ Len(calls) >= 1 /\ Top = calls[Len(calls)]
         /\ Top \in FrameType /\ FrameFits(calls, Len(calls), job)
         /\ Front(calls) \in Seq(FrameType) /\ Len(Front(calls)) = Len(calls) - 1 /\ BelowFits(Front(calls), job)
         /\ \A i \in 1..Len(calls) - 1 : Front(calls)[i] = calls[i]
<1>1. calls \in Seq(FrameType)
  BY DEF TypeOK, FrameType
<1>2. /\ Len(calls) \in Nat /\ Len(calls) >= 1 /\ Top = calls[Len(calls)] /\ Top \in FrameType
      /\ Front(calls) \in Seq(FrameType) /\ Len(Front(calls)) = Len(calls) - 1
      /\ \A i \in 1..Len(calls) - 1 : Front(calls)[i] = calls[i]
  BY <1>1, FrontFacts DEF Top
<1>3. \A i \in 1..Len(calls) : FrameFits(calls, i, job)
  BY DEF CallsInv, StackFits
<1>4. \A i \in 1..Len(calls) - 1 : i \in 1..Len(calls) /\ i < Len(calls)
  BY <1>2
<1>5. BelowFits(Front(calls), job)
  BY <1>2, <1>3, <1>4 DEF BelowFits, FrameFits
<1> QED
  BY <1>1, <1>2, <1>3, <1>5

\* The frames below frames that wait wait too.
LEMMA BelowFront ==
  ASSUME NEW s \in Seq(FrameType), s # <<>>, BelowFits(s, job)
  PROVE  Front(s) \in Seq(FrameType) /\ BelowFits(Front(s), job) /\ Len(Front(s)) = Len(s) - 1
<1>1. /\ Front(s) \in Seq(FrameType) /\ Len(Front(s)) = Len(s) - 1 /\ Len(s) \in Nat
      /\ \A i \in 1..Len(s) - 1 : Front(s)[i] = s[i]
  BY FrontFacts
<1>2. \A i \in 1..Len(s) - 1 : i \in 1..Len(s)
  BY <1>1
<1> QED
  BY <1>1, <1>2 DEF BelowFits

\* A transfer starts with its type, its data connection, or a transfer from the beginning.
LEMMA SetsUpAsks ==
  ASSUME NEW o, SetsUp(o, job)
  PROVE  \E cmd \in OpCmds, again \in BOOLEAN :
           /\ AsksOp(o, job, cmd, again) /\ cmd \notin {"END", "ABOR", "RECONNECT"}
           /\ cmd = "XFER" => ~again /\ ~Resumes
<1>1. PICK cmd \in TransferCmds, again \in BOOLEAN :
        AsksOp(o, job, cmd, again) /\ (cmd = "XFER" => ~again /\ ~(job.op # "list" /\ job.resume))
  BY DEF SetsUp
<1>2. cmd \in OpCmds /\ cmd \notin {"END", "ABOR", "RECONNECT"}
  BY DEF OpCmds, TransferCmds, Setups
<1> QED
  BY <1>1, <1>2 DEF Resumes

\* Reconnected, one case at a time: f is the call below the login
LEMMA ReconnectedIs ==
  ASSUME NEW k, NEW n, n = Len(calls), n # 1, n > 1, NEW f, f = calls[n - 1]
  PROVE  /\ f.cmd = "RECONNECT" => Reconnected(k) = AskType(k, job, FALSE)
         /\ f.cmd \in {"PASV", "PORT"} => Reconnected(k) = MakeData(k, Front(Front(calls)), TRUE, f.pre)
         /\ f.cmd \notin {"RECONNECT", "PASV", "PORT"} =>
              Reconnected(k) = Ask(k, Front(Front(calls)), f.fn, f.cmd, TRUE, f.pre)
<1>1. CASE f.cmd = "RECONNECT"
  BY <1>1, Zenon DEF Reconnected
<1>2. CASE f.cmd \in {"PASV", "PORT"}
  BY <1>2, Zenon DEF Reconnected
<1>3. CASE f.cmd \notin {"RECONNECT", "PASV", "PORT"}
  BY <1>3, Zenon DEF Reconnected
<1> QED
  BY <1>1, <1>2, <1>3

\* After a login the call below sends its command again, or the caller is told.
LEMMA ReconnectedOk ==
  ASSUME TypeOK, CallsInv, calls # <<>>, Top.fn = "connect", NEW o, o = Reconnected(conn)
  PROVE  LoginOver(o)
<1>1. /\ calls \in Seq(FrameType) /\ Len(calls) \in Nat /\ Len(calls) >= 1 /\ Top = calls[Len(calls)]
      /\ Front(calls) \in Seq(FrameType) /\ Len(Front(calls)) = Len(calls) - 1 /\ BelowFits(Front(calls), job)
      /\ \A i \in 1..Len(calls) - 1 : Front(calls)[i] = calls[i]
  BY CallsBelow
<1>2. conn \in ConnType /\ conn.up /\ ~conn.moving
  BY <1>1 DEF TypeOK, ConnType, CallsInv, StackFits
<1>3. Working(conn)
  BY <1>2 DEF Working
<1>4. CASE Len(calls) = 1
  <2>1. PICK r : r = "ok"
    OBVIOUS
  <2>2. o = Return(conn, r) /\ r \in {"none", "ok", "retry", "fatal", "timeout"}
    BY <1>4, <2>1 DEF Reconnected
  <2>3. OutcomeOk(o, job) /\ o.send = "nothing" /\ o.conn = conn /\ o.calls = <<>>
    BY <2>2, <1>2, ReturnOk
  <2> QED
    BY <2>3, <1>2 DEF LoginOver
<1>5. CASE Len(calls) > 1
  <2>1. PICK f, below : f = calls[Len(calls) - 1] /\ below = Front(Front(calls))
    OBVIOUS
  <2>2. /\ Front(calls) # <<>> /\ Len(calls) - 1 \in 1..Len(calls) - 1 /\ Len(calls) - 1 \in 1..Len(calls)
        /\ f = Front(calls)[Len(calls) - 1]
    BY <1>1, <1>5, <2>1
  <2>3. f \in FrameType
    BY <1>1, <2>1, <2>2
  <2>4. below \in Seq(FrameType) /\ BelowFits(below, job) /\ Len(below) = Len(calls) - 2
    <3>1. /\ Front(Front(calls)) \in Seq(FrameType) /\ BelowFits(Front(Front(calls)), job)
          /\ Len(Front(Front(calls))) = Len(Front(calls)) - 1
      BY <1>1, <2>2, BelowFront
    <3> QED
      BY <3>1, <1>1, <2>1
  <2>5. /\ f.fn = "connect" => f.cmd \in LoginCmds
        /\ f.fn = "op" => Len(calls) - 1 = 1 /\ f.cmd \in OpCmds
        /\ f.cmd \notin {"BANNER", "END", "ABOR"}
        /\ f.fn = "op" /\ f.cmd \in TransferCmds => job.op \in TransferOps
        /\ f.cmd = "REST" => job.op # "list" /\ job.resume
        /\ f.fn = "op" /\ f.cmd \in {"TYPE A", "TYPE I"} => job.op # "list"
        /\ f.cmd = "RECONNECT" => job.op = "get"
    <3>1. PICK i, s : i = Len(calls) - 1 /\ s = Front(calls)
      OBVIOUS
    <3>2. i \in 1..Len(s) /\ f = s[i] /\ BelowFits(s, job)
      BY <1>1, <2>2, <3>1
    <3>3. /\ f.fn = "connect" => f.cmd \in LoginCmds
          /\ f.fn = "op" => i = 1 /\ f.cmd \in OpCmds
          /\ f.cmd \notin {"BANNER", "END", "ABOR"}
          /\ f.fn = "op" /\ f.cmd \in TransferCmds => job.op \in TransferOps
          /\ f.cmd = "REST" => job.op # "list" /\ job.resume
          /\ f.fn = "op" /\ f.cmd \in {"TYPE A", "TYPE I"} => job.op # "list"
          /\ f.cmd = "RECONNECT" => job.op = "get"
      BY <3>2 DEF BelowFits
    <3> QED
      BY <3>1, <3>3
  <2>6. f.fn = "op" => below = <<>>
    <3>1. PICK n : n = Len(calls) /\ n \in Nat
      BY <1>1
    <3>0. f.fn = "op" => Len(calls) - 1 = 1
      BY <2>5
    <3>2. f.fn = "op" => n - 1 = 1 /\ n - 2 = 0
      BY <3>0, <3>1
    <3>3. f.fn = "op" => Len(below) = 0
      BY <2>4, <3>1, <3>2
    <3> QED
      BY <2>4, <3>3, EmptySeq
  <2>10. /\ f.cmd = "RECONNECT" => o = AskType(conn, job, FALSE)
         /\ f.cmd \in {"PASV", "PORT"} => o = MakeData(conn, below, TRUE, f.pre)
         /\ f.cmd \notin {"RECONNECT", "PASV", "PORT"} => o = Ask(conn, below, f.fn, f.cmd, TRUE, f.pre)
    <3>1. PICK n : n = Len(calls) /\ n # 1 /\ n > 1 /\ f = calls[n - 1]
      BY <1>1, <1>5, <2>1
    <3> QED
      BY <3>1, <2>1, ReconnectedIs, Zenon
  <2>7. CASE f.cmd = "RECONNECT"
    <3>1. PICK no : no = FALSE
      OBVIOUS
    <3>2. no \in BOOLEAN /\ o = AskType(conn, job, no)
      BY <2>10, <2>7, <3>1
    <3>3. job \in JobType /\ job.op \in {"get", "put"}
      BY <2>5, <2>7 DEF TypeOK, JobType
    <3>4. SetsUp(o, job)
      BY <1>3, <3>2, <3>3, AskTypeOk
    <3> QED
      BY <3>4, SetsUpAsks DEF LoginOver
  <2>8. CASE f.cmd \in {"PASV", "PORT"}
    <3>1. PICK yes : yes = TRUE
      OBVIOUS
    <3>2. f.fn = "op" /\ f.cmd \in TransferCmds
      BY <2>3, <2>5, <2>8 DEF FrameType, LoginCmds, Logins, TransferCmds, Setups
    <3>3. PICK pre : pre = f.pre
      OBVIOUS
    <3>4. o = MakeData(conn, <<>>, yes, pre) /\ yes \in BOOLEAN /\ pre \in BOOLEAN
      <4>1. o = MakeData(conn, below, TRUE, f.pre)
        BY <2>10, <2>8
      <4> QED
        BY <4>1, <3>1, <3>2, <3>3, <2>3, <2>6 DEF FrameType
    <3>5. job.op \in TransferOps
      BY <3>2, <2>5
    <3>6. SetsUp(o, job)
      BY <1>3, <3>4, <3>5, MakeDataOk
    <3> QED
      BY <3>6, SetsUpAsks DEF LoginOver
  <2>9. CASE f.cmd \notin {"RECONNECT", "PASV", "PORT"}
    <3>1. PICK g : g = [f EXCEPT !.again = TRUE]
      OBVIOUS
    <3>2. g \in FrameType /\ g.fn = f.fn /\ g.cmd = f.cmd /\ g.again = TRUE /\ g.pre = f.pre
      BY <2>3, <3>1 DEF FrameType
    <3>3. o = Ask(conn, below, g.fn, g.cmd, g.again, g.pre)
      BY <2>10, <2>9, <3>2
    <3>4. TopFits(g, Len(below), job)
      <4>1. f.fn = "op" => Len(below) = 0
        BY <2>6
      <4>2. /\ f.fn = "connect" => f.cmd \in LoginCmds
            /\ f.fn = "op" => f.cmd \in OpCmds
            /\ f.fn = "op" /\ f.cmd \in TransferCmds => job.op \in TransferOps
            /\ f.cmd = "REST" => job.op # "list" /\ job.resume
            /\ f.fn = "op" /\ f.cmd \in {"TYPE A", "TYPE I"} => job.op # "list"
        BY <2>5
      <4> QED
        BY <4>1, <4>2, <2>9, <3>2 DEF TopFits
    <3>5. g.cmd \in Cmds
      BY <2>3, <2>5, <2>9, <3>2 DEF FrameType
    <3>6. CanAsk(conn, below, job, g)
      BY <1>2, <2>4, <3>2, <3>4, <3>5 DEF CanAsk
    <3>7. AsksIn(o, conn, below, job, g)
      BY <3>3, <3>6, AskOk
    <3>8. CASE f.fn = "connect"
      <4>1. AsksLogin(o)
        BY <1>2, <2>5, <3>2, <3>7, <3>8 DEF AsksLogin, AsksIn
      <4> QED
        BY <4>1 DEF LoginOver
    <3>9. CASE f.fn = "op"
      <4>1. AsksOp(o, job, g.cmd, g.again) /\ g.cmd \in OpCmds /\ g.again \in BOOLEAN
        BY <1>2, <2>5, <3>2, <3>7, <3>9 DEF AsksOp, AsksIn
      <4> QED
        BY <4>1, <2>5, <2>9, <3>2 DEF LoginOver
    <3> QED
      BY <3>8, <3>9, <2>3 DEF FrameType
  <2> QED
    BY <2>7, <2>8, <2>9
<1> QED
  BY <1>1, <1>4, <1>5


\* An error on a connection that is closed
LEMMA DropFails ==
  ASSUME TypeOK, NEW e \in {"none", "retry", "fatal", "timeout"}, NEW o \in Fail(Dropped(conn), e)
  PROVE  Reopens(o)
<1>1. PICK k : k = Dropped(conn)
  OBVIOUS
<1>2. k \in ConnType /\ ~k.up /\ ~k.moving
  BY <1>1, DroppedType DEF TypeOK, ConnType
<1> QED
  BY <1>1, <1>2, FailOk DEF Reopens

\* and the three codes it can have
LEMMA RetryFails ==
  ASSUME TypeOK, NEW o, o \in Fail(Dropped(conn), "retry") \/ o \in Fail(Dropped(conn), "fatal")
                        \/ o \in Fail(Dropped(conn), "timeout")
  PROVE  Reopens(o)
<1>1. PICK e : e \in {"none", "retry", "fatal", "timeout"} /\ o \in Fail(Dropped(conn), e)
  OBVIOUS
<1> QED
  BY <1>1, DropFails

\* rfc959_getcwd() takes the answer to PWD only.
LEMMA GotCwdOk ==
  ASSUME TypeOK, NEW r, NEW done, NEW o \in GotCwd(r, done)
  PROVE  Reopens(o) \/ (o = done /\ r.c = "2" /\ r.cmd = "PWD")
<1>1. CASE r.c # "2"
  BY <1>1, RetryFails DEF GotCwd
<1>2. CASE r.c = "2" /\ r.cmd # "PWD"
  BY <1>2, RetryFails DEF GotCwd
<1>3. CASE r.c = "2" /\ r.cmd = "PWD"
  BY <1>3 DEF GotCwd
<1> QED
  BY <1>1, <1>2, <1>3

\* The next command of a login
LEMMA NextLoginType ==
  ASSUME NEW cmd, NEW c, NextLogin(cmd, c) # "refused"
  PROVE  NextLogin(cmd, c) \in LoginCmds \ {"BANNER"}
<1>1. TypeCmd(DefaultAscii) \in LoginCmds \ {"BANNER"}
  BY DEF TypeCmd, LoginCmds
<1>2. {"USER", "PASS", "ACCT", "SYST", "CWD", "PWD"} \subseteq LoginCmds \ {"BANNER"}
  BY DEF LoginCmds, Logins
<1> QED
  BY <1>1, <1>2 DEF NextLogin

\* What a login does with a reply
LEMMA GotLoginOk ==
  ASSUME TypeOK, CallsInv, calls # <<>>, Top.fn = "connect", NEW r, NEW o \in GotLogin(Top.cmd, r)
  PROVE  \/ Reopens(o)
         \/ Top.cmd # "PWD" /\ AsksLogin(o)
         \/ Top.cmd = "PWD" /\ r.cmd = "PWD" /\ r.c = "2" /\ LoginOver(o)
<1>1. CASE Top.cmd = "PWD"
  <2>1. o \in GotCwd(r, Reconnected(conn))
    BY <1>1 DEF GotLogin
  <2> QED
    BY <1>1, <2>1, GotCwdOk, ReconnectedOk
<1>2. CASE Top.cmd # "PWD" /\ NextLogin(Top.cmd, r.c) # "refused"
  <2>1. PICK next : next = NextLogin(Top.cmd, r.c)
    OBVIOUS
  <2>2. next \in LoginCmds \ {"BANNER"}
    BY <1>2, <2>1, NextLoginType
  <2>3. PICK k : k = IF Top.cmd = "SYST" THEN [conn EXCEPT !.ascii = DefaultAscii] ELSE conn
    OBVIOUS
  <2>4. PICK f : f = Frame("connect", next, FALSE, FALSE)
    OBVIOUS
  <2>5. o = Ask(k, Front(calls), "connect", next, FALSE, FALSE)
    BY <1>2, <2>1, <2>3 DEF GotLogin
  <2>6. f \in FrameType /\ f.fn = "connect" /\ f.cmd = next /\ ~f.again /\ ~f.pre /\ next \in Cmds
    BY <2>2, <2>4 DEF Frame, FrameType, Cmds, LoginCmds, Setups
  <2>7. k \in ConnType /\ k.up /\ ~k.moving
    <3>1. conn \in ConnType /\ conn.up /\ ~conn.moving
      BY CallsBelow DEF TypeOK, ConnType, CallsInv, StackFits
    <3>2. DefaultAscii \in BOOLEAN
      BY OptionAssumption
    <3> QED
      BY <3>1, <3>2, <2>3 DEF ConnType
  <2>0. PICK below : below = Front(calls)
    OBVIOUS
  <2>8. below \in Seq(FrameType) /\ BelowFits(below, job)
    BY <2>0, CallsBelow
  <2>9. TopFits(f, Len(below), job)
    BY <2>2, <2>6 DEF TopFits, LoginCmds, Logins
  <2>10. CanAsk(k, below, job, f)
    BY <2>6, <2>7, <2>8, <2>9 DEF CanAsk
  <2>11. o = Ask(k, below, f.fn, f.cmd, f.again, f.pre)
    BY <2>0, <2>4, <2>5 DEF Frame
  <2>12. AsksIn(o, k, below, job, f)
    BY <2>10, <2>11, AskOk
  <2> QED
    BY <1>2, <2>2, <2>6, <2>7, <2>12 DEF AsksLogin, AsksIn
<1>3. CASE Top.cmd # "PWD" /\ NextLogin(Top.cmd, r.c) = "refused"
  <2>1. o \in Fail(Dropped(conn), "retry") \/ o \in Fail(Dropped(conn), "fatal")
    BY <1>3 DEF GotLogin
  <2> QED
    BY <2>1, RetryFails
<1> QED
  BY <1>1, <1>2, <1>3

-----------------------------------------------------------------------------
(* An operation gets its reply. *)

\* The operation returns connected, no transfer being under way.
LEMMA ReturnsOk ==
  ASSUME NEW k \in ConnType, k.up, ~k.moving, NEW x \in {"none", "ok", "retry", "fatal", "timeout"},
         NEW r, r.c = "42" => Top.cmd = "ABOR", ~(Top.cmd = "XFER" /\ r.c = "1"), Top.cmd = "REST" => r.c # "3",
         x = "ok" => Top.cmd # "ABOR", NEW o, o = Return(k, x)
  PROVE  Returns(r, o)
<1>1. OutcomeOk(o, job) /\ o.send = "nothing" /\ o.conn = k /\ o.calls = <<>> /\ o.ret = x
  BY ReturnOk
<1> QED
  BY <1>1 DEF Returns

\* A step of the preparation of a transfer that is not REST's answer
LEMMA SetsUpOk ==
  ASSUME NEW r, r.c # "42", Top.cmd \notin {"XFER", "END", "ABOR", "REST"}, NEW o, SetsUp(o, job)
  PROVE  Asks(r, o)
BY SetsUpAsks DEF Asks

\* What an operation does with a reply to PASV or PORT,
LEMMA GotDataOk ==
  ASSUME TypeOK, Working(conn), job.op \in TransferOps, NEW r, r.c # "42", Top.cmd \in {"PASV", "PORT"},
         NEW o \in GotData(Top, r), Top \in FrameType
  PROVE  Reopens(o) \/ Asks(r, o)
<1>0. job \in JobType /\ conn \in ConnType /\ Top.pre \in BOOLEAN /\ Top.again \in BOOLEAN
  BY DEF TypeOK, JobType, ConnType, FrameType
<1>1. CASE Top.cmd = "PASV" /\ r.c # "2"
  <2>1. PICK k : k = [conn EXCEPT !.passive = FALSE]
    OBVIOUS
  <2>2. Working(k)
    BY <2>1 DEF Working, ConnType
  <2>3. o = MakeData(k, <<>>, Top.again, Top.pre)
    BY <1>1, <2>1 DEF GotData
  <2>4. SetsUp(o, job)
    BY <1>0, <2>2, <2>3, MakeDataOk
  <2> QED
    BY <2>4, <1>1, SetsUpOk
<1>2. CASE Top.cmd = "PASV" /\ r.c = "2"
  <2>1. PICK k : k = [conn EXCEPT !.data = "open"]
    OBVIOUS
  <2>2. Working(k)
    BY <2>1 DEF Working, ConnType
  <2>3. o = DataReady(k, Top.pre) \/ o \in Fail(Dropped(conn), "retry") \/ o \in Fail(Dropped(conn), "fatal")
    <3>1. CASE r.cmd = "PASV"
      BY <3>1, <1>2, <2>1 DEF GotData
    <3>2. CASE r.cmd # "PASV"
      BY <3>2, <1>2 DEF GotData
    <3> QED
      BY <3>1, <3>2
  <2>4. CASE o = DataReady(k, Top.pre)
    <3>1. SetsUp(o, job)
      BY <1>0, <2>2, <2>4, DataReadyOk
    <3> QED
      BY <3>1, <1>2, SetsUpOk
  <2> QED
    BY <2>3, <2>4, RetryFails
<1>3. CASE Top.cmd = "PORT" /\ r.c = "2"
  <2>1. o = DataReady(conn, Top.pre)
    BY <1>3 DEF GotData
  <2>2. SetsUp(o, job)
    BY <1>0, <2>1, DataReadyOk
  <2> QED
    BY <2>2, <1>3, SetsUpOk
<1>4. CASE Top.cmd = "PORT" /\ r.c # "2"
  BY <1>4, RetryFails DEF GotData
<1> QED
  BY <1>1, <1>2, <1>3, <1>4

\* to REST,
LEMMA GotOffsetOk ==
  ASSUME TypeOK, Working(conn), job.op \in TransferOps, NEW r, r.c # "42", Top.cmd = "REST", NEW o, o = GotOffset(r)
  PROVE  Returns(r, o) \/ Asks(r, o)
<1>1. CASE r.c = "3"
  <2>1. o = AskTransfer(conn)
    BY <1>1 DEF GotOffset
  <2>2. AsksOp(o, job, "XFER", FALSE)
    BY <2>1, AskTransferOk
  <2>3. "XFER" \in OpCmds
    BY DEF OpCmds, TransferCmds
  <2> QED
    BY <1>1, <2>2, <2>3 DEF Asks
<1>2. CASE r.c # "3"
  <2>1. PICK k, x : k = NoData(conn) /\ x = "retry"
    OBVIOUS
  <2>2. k \in ConnType /\ k.up /\ ~k.moving
    BY <2>1 DEF NoData, ConnType, Working
  <2>3. o = Return(k, x) /\ x \in {"none", "ok", "retry", "fatal", "timeout"} /\ x # "ok"
    BY <1>2, <2>1 DEF GotOffset
  <2> QED
    BY <1>2, <2>2, <2>3, ReturnsOk
<1> QED
  BY <1>1, <1>2

\* to the transfer,
LEMMA GotTransferOk ==
  ASSUME TypeOK, Working(conn), job.op \in TransferOps, NEW r, r.c # "42", Top.cmd = "XFER", NEW o \in GotTransfer(r)
  PROVE  Reopens(o) \/ Returns(r, o)
<1>1. CASE r.c = "1"
  <2>1. PICK k, x : k = [conn EXCEPT !.data = "open", !.moving = TRUE] /\ x = "ok"
    OBVIOUS
  <2>2. k \in ConnType /\ k.up /\ k.moving /\ x \in {"none", "ok", "retry", "fatal", "timeout"}
    BY <2>1 DEF ConnType, Working
  <2>3. CASE o = Return(k, x)
    <3>1. OutcomeOk(o, job) /\ o.send = "nothing" /\ o.conn = k /\ o.calls = <<>>
      BY <2>2, <2>3, ReturnOk
    <3> QED
      BY <1>1, <2>2, <3>1 DEF Returns
  <2>4. CASE o = Return(Dropped(conn), "retry")
    <3>1. PICK d, y : d = Dropped(conn) /\ y = "retry"
      OBVIOUS
    <3>2. d \in ConnType /\ ~d.up /\ ~d.moving /\ y \in {"none", "ok", "retry", "fatal", "timeout"} /\ o = Return(d, y)
      BY <2>4, <3>1, DroppedType DEF Working
    <3>3. OutcomeOk(o, job) /\ o.conn = d /\ o.ret = y
      BY <3>2, ReturnOk
    <3> QED
      BY <3>1, <3>2, <3>3 DEF Reopens, Drops
  <2>5. o = Return(k, x) \/ o = Return(Dropped(conn), "retry")
    BY <1>1, <2>1 DEF GotTransfer
  <2> QED
    BY <2>3, <2>4, <2>5
<1>2. CASE r.c # "1" /\ job.op = "list"
  <2>1. PICK x : x = "retry"
    OBVIOUS
  <2>2. o = Return(conn, x) /\ x \in {"none", "ok", "retry", "fatal", "timeout"} /\ x # "ok"
    BY <1>2, <2>1 DEF GotTransfer
  <2> QED
    BY <1>2, <2>2, ReturnsOk DEF Working
<1>3. CASE r.c # "1" /\ job.op # "list"
  <2>1. PICK k, x : k = NoData(conn) /\ x = IF r.c = "5" THEN "fatal" ELSE "retry"
    OBVIOUS
  <2>2. k \in ConnType /\ k.up /\ ~k.moving
    BY <2>1 DEF NoData, ConnType, Working
  <2>3. o = Return(k, x) /\ x \in {"none", "ok", "retry", "fatal", "timeout"} /\ x # "ok"
    BY <1>3, <2>1 DEF GotTransfer
  <2> QED
    BY <1>3, <2>2, <2>3, ReturnsOk
<1> QED
  BY <1>1, <1>2, <1>3

\* to the last command of a simple operation,
LEMMA ConfirmedOk ==
  ASSUME Working(conn), NEW r, r.c # "42", Top.cmd \in {"CMD", "RNTO", "END", "PWD"},
         NEW x \in {"ok", "retry"}, NEW o, o = Return(conn, x)
  PROVE  Returns(r, o)
<1>1. x \in {"none", "ok", "retry", "fatal", "timeout"} /\ Top.cmd \notin {"XFER", "REST", "ABOR"}
  OBVIOUS
<1> QED
  BY <1>1, ReturnsOk DEF Working

\* rfc959_rename() and rfc959_chdir() send their second command.
LEMMA SecondOk ==
  ASSUME Working(conn), NEW r, r.c # "42", Top.cmd \in {"RNFR", "CWD"}, NEW cmd \in {"RNTO", "PWD"},
         NEW x, x = "retry", NEW o, o = Ask(conn, <<>>, "op", cmd, FALSE, FALSE) \/ o = Return(conn, x)
  PROVE  Returns(r, o) \/ Asks(r, o)
<1>1. CASE o = Return(conn, x)
  <2>1. /\ x \in {"none", "ok", "retry", "fatal", "timeout"} /\ x # "ok"
        /\ Top.cmd \notin {"XFER", "REST", "ABOR"}
    OBVIOUS
  <2> QED
    BY <1>1, <2>1, ReturnsOk DEF Working
<1>2. CASE o = Ask(conn, <<>>, "op", cmd, FALSE, FALSE)
  <2>1. /\ cmd \in Cmds /\ cmd \in OpCmds /\ cmd \notin {"END", "ABOR", "RECONNECT"} /\ cmd \notin TransferCmds
        /\ cmd # "REST" /\ cmd # "XFER"
    BY DEF Cmds, Logins, OpCmds, TransferCmds, Setups
  <2>2. AsksOp(o, job, cmd, FALSE)
    BY <1>2, <2>1, AskPlainOk
  <2> QED
    BY <2>1, <2>2 DEF Asks
<1> QED
  BY <1>1, <1>2

\* and to any command.
LEMMA GotOpOk ==
  ASSUME TypeOK, CallsInv, calls # <<>>, Top.fn = "op", NEW r, r.c # "42" \/ Top.cmd = "ABOR",
         NEW o \in GotOp(Top, r)
  PROVE  Reopens(o) \/ Returns(r, o) \/ Asks(r, o)
<1>1. /\ Top \in FrameType /\ Top.cmd \in OpCmds /\ Top.cmd # "RECONNECT" /\ Len(calls) = 1
      /\ Top.cmd \in TransferCmds => job.op \in TransferOps
      /\ Top.cmd \in {"TYPE A", "TYPE I"} => job.op # "list"
  <2>1. /\ Top = calls[Len(calls)] /\ Top \in FrameType /\ FrameFits(calls, Len(calls), job)
    BY CallsBelow
  <2> QED
    BY <2>1 DEF FrameFits
<1>2. Working(conn) /\ conn \in ConnType
  BY CallsBelow DEF Working, TypeOK, ConnType, CallsInv, StackFits
<1>3. CASE Top.cmd \in {"CMD", "RNTO", "END"}
  <2>1. PICK x : x = IF r.c = "2" THEN "ok" ELSE "retry"
    OBVIOUS
  <2>2. o = Return(conn, x) /\ x \in {"ok", "retry"}
    BY <1>3, <2>1 DEF GotOp, Confirmed
  <2> QED
    BY <1>2, <1>3, <2>2, ConfirmedOk
<1>4. CASE Top.cmd = "RNFR"
  <2>1. PICK cmd, x : cmd = "RNTO" /\ x = "retry"
    OBVIOUS
  <2>2. o = Ask(conn, <<>>, "op", cmd, FALSE, FALSE) \/ o = Return(conn, x)
    BY <1>4, <2>1 DEF GotOp
  <2> QED
    BY <1>2, <1>4, <2>1, <2>2, SecondOk
<1>5. CASE Top.cmd = "CWD"
  <2>1. PICK cmd, x : cmd = "PWD" /\ x = "retry"
    OBVIOUS
  <2>2. o = Ask(conn, <<>>, "op", cmd, FALSE, FALSE) \/ o = Return(conn, x)
    BY <1>5, <2>1 DEF GotOp
  <2> QED
    BY <1>2, <1>5, <2>1, <2>2, SecondOk
<1>6. CASE Top.cmd = "PWD"
  <2>1. PICK x, done : x = "ok" /\ done = Return(conn, x)
    OBVIOUS
  <2>2. o \in GotCwd(r, done)
    BY <1>6, <2>1 DEF GotOp
  <2>3. Reopens(o) \/ o = done
    BY <2>2, GotCwdOk
  <2>4. CASE o = done
    <3>1. x \in {"ok", "retry"} /\ o = Return(conn, x)
      BY <2>1, <2>4
    <3> QED
      BY <1>2, <1>6, <3>1, ConfirmedOk
  <2> QED
    BY <2>3, <2>4
<1>7. CASE Top.cmd \in {"TYPE A", "TYPE I"}
  <2>1. o = AskData(conn, job, Top.pre)
    BY <1>7 DEF GotOp
  <2>2. Top.pre \in BOOLEAN /\ job.op \in TransferOps
    BY <1>1, <1>7 DEF FrameType, TransferCmds, Setups
  <2>3. CASE job.op \in {"get", "put"}
    <3>1. SetsUp(o, job)
      BY <1>2, <2>1, <2>2, <2>3, AskDataOk
    <3> QED
      BY <1>7, <3>1, SetsUpOk
  <2> QED
    BY <1>1, <1>7, <2>2, <2>3 DEF TransferOps
<1>8. CASE Top.cmd \in {"PASV", "PORT"}
  <2>1. o \in GotData(Top, r) /\ job.op \in TransferOps
    BY <1>1, <1>8 DEF GotOp, TransferCmds, Setups
  <2> QED
    BY <1>1, <1>2, <1>8, <2>1, GotDataOk
<1>9. CASE Top.cmd = "REST"
  <2>1. o = GotOffset(r) /\ job.op \in TransferOps
    BY <1>1, <1>9 DEF GotOp, TransferCmds, Setups
  <2> QED
    BY <1>2, <1>9, <2>1, GotOffsetOk
<1>10. CASE Top.cmd = "XFER"
  <2>1. o \in GotTransfer(r) /\ job.op \in TransferOps
    BY <1>1, <1>10 DEF GotOp, TransferCmds
  <2> QED
    BY <1>2, <1>10, <2>1, GotTransferOk
<1>11. CASE Top.cmd = "ABOR"
  <2>1. PICK x : x = "none"
    OBVIOUS
  <2>2. o = Return(conn, x) /\ x \in {"none", "ok", "retry", "fatal", "timeout"} /\ x # "ok"
    BY <1>11, <2>1 DEF GotOp
  <2> QED
    BY <1>2, <1>11, <2>2, ReturnsOk DEF Working
<1> QED
  BY <1>1, <1>3, <1>4, <1>5, <1>6, <1>7, <1>8, <1>9, <1>10, <1>11 DEF OpCmds, TransferCmds, Setups

\* After 42x the session is replaced, or the operation fails.
LEMMA BusyOk ==
  ASSUME TypeOK, CallsInv, calls # <<>>, Top.cmd # "ABOR", NEW o \in Busy(Top)
  PROVE  Reopens(o)
<1>1. CASE o \in Fail(Dropped(conn), "timeout")
  BY <1>1, RetryFails
<1>2. CASE o \in Connect(Dropped(conn), calls) /\ Top.cmd \notin {"BANNER", "END"}
  <2>1. PICK k : k = Dropped(conn)
    OBVIOUS
  <2>2. k \in ConnType /\ ~k.up /\ ~k.moving
    BY <2>1, DroppedType DEF TypeOK, ConnType
  <2>3. /\ calls \in Seq(FrameType) /\ Len(calls) \in Nat /\ Top = calls[Len(calls)]
        /\ \A i \in 1..Len(calls) : FrameFits(calls, i, job)
    BY CallsBelow DEF CallsInv, StackFits
  <2>4. BelowFits(calls, job)
    <3> SUFFICES ASSUME NEW i \in 1..Len(calls)
                 PROVE  LET f == calls[i]
                        IN /\ f.fn = "connect" => f.cmd \in LoginCmds
                           /\ f.fn = "op" => i = 1 /\ f.cmd \in OpCmds
                           /\ f.cmd \notin {"BANNER", "END", "ABOR"}
                           /\ f.fn = "op" /\ f.cmd \in TransferCmds => job.op \in TransferOps
                           /\ f.cmd = "REST" => job.op # "list" /\ job.resume
                           /\ f.fn = "op" /\ f.cmd \in {"TYPE A", "TYPE I"} => job.op # "list"
                           /\ f.cmd = "RECONNECT" => job.op = "get"
      BY DEF BelowFits
    <3>1. FrameFits(calls, i, job)
      BY <2>3
    <3>2. i = Len(calls) \/ i < Len(calls)
      BY <2>3
    <3>3. i = Len(calls) => calls[i] = Top
      BY <2>3
    <3> QED
      BY <3>1, <3>2, <3>3, <1>2 DEF FrameFits
  <2> QED
    BY <1>2, <2>1, <2>2, <2>3, <2>4, ConnectOk DEF Reopens
<1> QED
  BY <1>1, <1>2 DEF Busy

\* What a reply r can lead to
Reacts(r, o) ==
  \/ Reopens(o)
  \/ Top.fn = "connect" /\ Top.cmd # "PWD" /\ r.c # "42" /\ AsksLogin(o)
  \/ Top.fn = "connect" /\ Top.cmd = "PWD" /\ r.cmd = "PWD" /\ r.c = "2" /\ LoginOver(o)
  \/ Top.fn = "op" /\ (Returns(r, o) \/ Asks(r, o))

\* What the client does with a reply, whatever it says
LEMMA GotOk ==
  ASSUME TypeOK, CallsInv, calls # <<>>, NEW r, NEW o \in Got(Top, r)
  PROVE  Reacts(r, o)
<1>1. CASE r.c = "42" /\ Top.cmd # "ABOR"
  <2>1. o \in Busy(Top)
    BY <1>1 DEF Got
  <2> QED
    BY <1>1, <2>1, BusyOk DEF Reacts
<1>2. CASE ~(r.c = "42" /\ Top.cmd # "ABOR") /\ Top.fn = "connect"
  <2>1. o \in GotLogin(Top.cmd, r)
    BY <1>2 DEF Got
  <2>2. r.c # "42"
    <3>1. Top = calls[Len(calls)] /\ FrameFits(calls, Len(calls), job)
      BY CallsBelow
    <3> QED
      BY <3>1, <1>2 DEF FrameFits, LoginCmds, Logins
  <2> QED
    BY <1>2, <2>1, <2>2, GotLoginOk DEF Reacts
<1>3. CASE ~(r.c = "42" /\ Top.cmd # "ABOR") /\ Top.fn = "op"
  <2>1. o \in GotOp(Top, r)
    BY <1>3 DEF Got
  <2> QED
    BY <1>3, <2>1, GotOpOk DEF Reacts
<1>4. Top.fn \in {"op", "connect"}
  BY CallsBelow DEF FrameType
<1> QED
  BY <1>1, <1>2, <1>3, <1>4

-----------------------------------------------------------------------------
(* Types, calls and wire after an outcome *)

\* Lines that say the same are as polite.
LEMMA PoliteSame ==
  ASSUME NEW s \in Seq(Replies), NEW t \in Seq(Replies), NEW keep, SameLines(s, t, keep), Polite(s)
  PROVE  Polite(t)
BY DEF SameLines, Polite

\* The buffer is as polite as all the lines.
LEMMA PoliteBuffer ==
  ASSUME NEW s \in Seq(Replies), NEW t \in Seq(Replies), Polite(s \o t)
  PROVE  Polite(s)
<1>1. /\ Len(s \o t) = Len(s) + Len(t) /\ Len(s) \in Nat /\ Len(t) \in Nat
      /\ \A i \in 1..Len(s) : (s \o t)[i] = s[i]
  BY Joined
<1>2. \A i \in 1..Len(s) : i \in 1..Len(s \o t)
  BY <1>1
<1> QED
  BY <1>1, <1>2 DEF Polite

\* With nothing on the network the buffer is all there is.
LEMMA NoNet ==
  ASSUME NEW s \in Seq(Replies) PROVE s \o <<>> = s
OBVIOUS

SrvType == [open : BOOLEAN, login : {"no", "user", "account", "yes"}, data : BOOLEAN,
            rest : BOOLEAN, from : BOOLEAN, xfer : BOOLEAN, offset : BOOLEAN]

\* A server that accepts, and none
LEMMA ServerTypes == FreshServer \in SrvType /\ NoServer \in SrvType /\ FreshServer.open /\ ~NoServer.open
BY DEF FreshServer, NoServer, SrvType

\* The job of a caller that has none
LEMMA PlainType == Plain("connect") \in JobType
BY DEF Plain, Job, JobType, AllOps

Typed == TypeOK /\ CallsInv /\ WireInv

\* The stack and the request of the outcome are the next ones.
LEMMA ApplyCalls ==
  ASSUME NEW o, NEW j \in JobType, NEW buffer, NEW line, OutcomeOk(o, j), Apply(o, buffer, line, j)
  PROVE  /\ calls' = o.calls /\ conn' = o.conn /\ ret' = o.ret /\ job' \in JobType
         /\ CallsInv' /\ calls' \in Seq(FrameType) /\ conn' \in ConnType
         /\ ret' \in {"none", "ok", "retry", "fatal", "timeout"}
<1>1. /\ calls' = o.calls /\ conn' = o.conn /\ ret' = o.ret
      /\ job' = IF o.calls = <<>> /\ ~o.conn.moving THEN Plain("connect") ELSE j
  BY DEF Apply
<1>2. job' \in JobType
  BY <1>1, PlainType
<1>3. CASE o.calls = <<>> /\ ~o.conn.moving
  <2>1. job' = Plain("connect")
    BY <1>1, <1>3
  <2>2. StackFits(calls', conn', job')
    BY <1>1, <1>3, <2>1 DEF StackFits
  <2> QED
    BY <1>1, <1>2, <2>2 DEF OutcomeOk, CallsInv
<1>4. CASE ~(o.calls = <<>> /\ ~o.conn.moving)
  <2>1. job' = j
    BY <1>1, <1>4
  <2>2. StackFits(calls', conn', job')
    BY <1>1, <2>1 DEF OutcomeOk
  <2> QED
    BY <1>1, <1>2, <2>2 DEF OutcomeOk, CallsInv
<1> QED
  BY <1>3, <1>4

\* An outcome leaves types, calls and wire in order.
LEMMA ApplyTypes ==
  ASSUME Typed, NEW o, NEW j \in JobType, NEW buffer \in Seq(Replies), NEW line \in Seq(Replies),
         OutcomeOk(o, j), conn.up \/ ~o.conn.up \/ o.send = "BANNER", Polite(buffer \o line),
         skew' \in {"no", "abort", "eof"}, Apply(o, buffer, line, j)
  PROVE  Typed'
<1>1. /\ calls' = o.calls /\ conn' = o.conn /\ ret' = o.ret /\ job' \in JobType
      /\ CallsInv' /\ calls' \in Seq(FrameType) /\ conn' \in ConnType
      /\ ret' \in {"none", "ok", "retry", "fatal", "timeout"}
  BY ApplyCalls
<1>2. Polite(buffer)
  BY PoliteBuffer
<1>3. srv \in SrvType /\ toServer \in Seq(Cmds) /\ (~srv.open => toServer = <<>>)
  BY DEF Typed, TypeOK, WireInv, SrvType
<1>4. ASSUME srv' \in SrvType, toServer' \in Seq(Cmds), net' \in Seq(Replies), inbox' \in Seq(Replies),
             ~srv'.open => toServer' = <<>>, ~conn'.up => srv' = NoServer /\ net' = <<>> /\ calls' = <<>>,
             Polite(inbox' \o net')
      PROVE  Typed'
  <2>1. TypeOK'
    BY <1>1, <1>4 DEF TypeOK, FrameType, ConnType, JobType, SrvType
  <2>2. WireInv'
    BY <1>4 DEF WireInv, Lines
  <2> QED
    BY <1>1, <2>1, <2>2 DEF Typed
<1>5. CASE ~o.conn.up
  <2>1. /\ calls' = <<>> /\ ~conn'.up
        /\ srv' = NoServer /\ net' = <<>> /\ toServer' = <<>> /\ inbox' = buffer
    BY <1>5, ApplyDrop
  <2>2. inbox' \o net' = buffer
    BY <2>1, NoNet
  <2>3. toServer' \in Seq(Cmds) /\ net' \in Seq(Replies)
    BY <2>1
  <2> QED
    BY <1>2, <1>4, <2>1, <2>2, <2>3, ServerTypes
<1>6. CASE o.conn.up /\ o.send = "BANNER"
  <2>1. /\ srv' = FreshServer /\ net' = <<>> /\ toServer' = <<"BANNER">>
        /\ inbox' \in Seq(Replies) /\ SameLines(buffer, inbox', FALSE)
    BY <1>6, ApplyFresh
  <2>2. inbox' \o net' = inbox'
    BY <2>1, NoNet
  <2>3. toServer' \in Seq(Cmds) /\ net' \in Seq(Replies)
    BY <2>1 DEF Cmds
  <2>4. Polite(inbox')
    <3>1. PICK keep : keep = FALSE
      OBVIOUS
    <3> QED
      BY <2>1, <1>2, <3>1, PoliteSame
  <2> QED
    BY <1>1, <1>4, <1>6, <2>1, <2>2, <2>3, <2>4, ServerTypes
<1>7. CASE conn.up /\ o.conn.up /\ o.send # "BANNER"
  <2>1. /\ srv' = srv /\ net' \in Seq(Replies) /\ inbox' \in Seq(Replies)
        /\ SameLines(buffer \o line, Lines', o.send = "nothing")
        /\ o.send = "nothing" => toServer' = toServer
        /\ o.send # "nothing" => toServer' = IF srv.open THEN Append(toServer, o.send) ELSE <<>>
    BY <1>3, <1>7, ApplyGo
  <2>2. Polite(Lines')
    <3>1. buffer \o line \in Seq(Replies) /\ Lines' \in Seq(Replies)
      BY <2>1, Joined DEF Lines
    <3>2. PICK keep : keep = (o.send = "nothing")
      OBVIOUS
    <3> QED
      BY <2>1, <3>1, <3>2, PoliteSame
  <2>3. toServer' \in Seq(Cmds) /\ (~srv'.open => toServer' = <<>>)
    <3>1. CASE o.send = "nothing"
      BY <1>3, <2>1, <3>1
    <3>2. CASE o.send # "nothing"
      <4>1. o.send \in Cmds
        BY <3>2 DEF OutcomeOk
      <4>2. Append(toServer, o.send) \in Seq(Cmds)
        BY <1>3, <4>1
      <4>3. toServer' = IF srv.open THEN Append(toServer, o.send) ELSE <<>>
        BY <2>1, <3>2
      <4> QED
        BY <1>3, <2>1, <4>2, <4>3
    <3> QED
      BY <3>1, <3>2
  <2> QED
    BY <1>1, <1>3, <1>4, <1>7, <2>1, <2>2, <2>3 DEF Lines
<1> QED
  BY <1>5, <1>6, <1>7

-----------------------------------------------------------------------------
(* The session after an outcome *)

\* A new session starts: what is left in the buffer makes its answers late, or ends it.
LEMMA LoginStarts ==
  ASSUME NEW o, NEW j, NEW buffer \in Seq(Replies), NEW line, OutcomeOk(o, j), Starts(o), FewLines(buffer),
         Apply(o, buffer, line, j)
  PROVE  InLogin'
<1>1. /\ calls' = o.calls /\ conn' = o.conn /\ srv' = FreshServer /\ net' = <<>> /\ toServer' = <<"BANNER">>
      /\ inbox' \in Seq(Replies) /\ SameLines(buffer, inbox', FALSE)
  BY ApplyFresh DEF Starts
<1>2. calls' # <<>> /\ Last(calls').cmd = "BANNER" /\ conn'.up
  BY <1>1 DEF OutcomeOk, Starts
<1>3. Last(calls').fn = "connect"
  <2>1. /\ calls' \in Seq(FrameType) /\ \A i \in 1..Len(calls') : FrameFits(calls', i, j)
    BY <1>1 DEF OutcomeOk, StackFits
  <2>2. PICK s : s = calls'
    OBVIOUS
  <2>3. Last(s) = s[Len(s)] /\ Len(s) \in 1..Len(s) /\ Last(s) \in FrameType
    BY <1>2, <2>1, <2>2, FrontFacts
  <2>4. FrameFits(s, Len(s), j)
    BY <2>1, <2>2, <2>3
  <2>5. s[Len(s)].fn = "op" => s[Len(s)].cmd \in OpCmds
    BY <2>4 DEF FrameFits
  <2> QED
    BY <1>2, <2>2, <2>3, <2>5 DEF FrameType, OpCmds, TransferCmds, Setups
<1>4. Top'.cmd = "BANNER" /\ Top'.fn = "connect"
  BY <1>2, <1>3 DEF Top
<1>5. Lines' = inbox' /\ Len(inbox') = Len(buffer) /\ Len(buffer) \in Nat
  BY <1>1, NoNet DEF Lines, SameLines
<1>6. srv'.open /\ ~srv'.xfer /\ ~srv'.data /\ ~srv'.rest
  BY <1>1 DEF FreshServer
<1>7. CASE Len(buffer) = 0
  <2>1. Sent(Top.cmd)'
    BY <1>1, <1>4, <1>5, <1>6, <1>7 DEF Sent
  <2> QED
    BY <1>2, <1>4, <1>6, <2>1 DEF InLogin, LoggingIn, Idle
<1>8. CASE Len(buffer) = 1
  <2>1. Behind'
    BY <1>1, <1>4, <1>5, <1>6, <1>8 DEF Behind, OldFirst
  <2> QED
    BY <1>2, <1>4, <1>6, <2>1 DEF InLogin, LoggingIn, Idle
<1>9. CASE Len(buffer) = 2
  <2>1. Farewell(buffer[2]) /\ 2 \in 1..Len(buffer)
    BY <1>9 DEF FewLines
  <2>2. Farewell(inbox'[2])
    BY <1>1, <2>1 DEF SameLines
  <2>3. Doomed'
    BY <1>4, <1>5, <1>9, <2>2 DEF Doomed
  <2> QED
    BY <1>2, <1>4, <2>3 DEF InLogin, Idle
<1> QED
  BY <1>5, <1>7, <1>8, <1>9 DEF FewLines

\* The connection is closed, and perhaps opened again.
LEMMA Reopened ==
  ASSUME NEW o, NEW j, NEW buffer \in Seq(Replies), NEW line, OutcomeOk(o, j), Drops(o) \/ Starts(o),
         FewLines(buffer), Apply(o, buffer, line, j)
  PROVE  SessionInv'
<1>1. CASE Starts(o)
  BY <1>1, LoginStarts DEF SessionInv
<1>2. CASE Drops(o)
  <2>1. ~conn'.up /\ inbox' = buffer
    BY <1>2, ApplyDrop DEF Drops
  <2> QED
    BY <2>1 DEF SessionInv, Down, FewLines
<1> QED
  BY <1>1, <1>2

-----------------------------------------------------------------------------
(* A line is read. *)

\* The first line is used; left stays in the buffer, and rest on the network.
Takes(left, rest) ==
  /\ left \in Seq(Replies) /\ rest \in Seq(Replies)
  /\ Len(Lines) >= 1 /\ Len(Lines) \in Nat /\ Lines[1] \in Replies
  /\ Len(left) + Len(rest) = Len(Lines) - 1
  /\ \A i \in 1..Len(Lines) - 1 : (left \o rest)[i] = Lines[i + 1]
  /\ \A i \in 1..Len(left) : left[i] = Lines[i + 1]
  /\ Len(inbox) > 0 => Len(left) = Len(inbox) - 1 /\ Lines[1] = inbox[1]
Reads(o, left, rest) ==
  /\ Takes(left, rest) /\ Reacts(Lines[1], o) /\ Apply(o, left, rest, job)
  /\ skew' = IF LoginDone(Lines[1]) THEN "no" ELSE skew

\* Read takes the oldest line and reacts to it.
LEMMA ReadIs ==
  ASSUME Typed, Read
  PROVE  calls # <<>> /\ \E o, left, rest : Reads(o, left, rest)
<1>1. TypeOK /\ CallsInv /\ calls # <<>> /\ inbox \in Seq(Replies) /\ net \in Seq(Replies)
  BY DEF Typed, Read, TypeOK
<1>2. PICK n \in 0..Len(net) :
        LET buffer == inbox \o SubSeq(net, 1, n)
        IN /\ (n = 0) <=> (inbox # <<>>)
           /\ \E o \in Got(Top, Head(buffer)) : Apply(o, Tail(buffer), SubSeq(net, n + 1, Len(net)), job)
           /\ skew' = IF LoginDone(Head(buffer)) THEN "no" ELSE skew
  BY DEF Read
<1>3. PICK buffer, rest : buffer = inbox \o SubSeq(net, 1, n) /\ rest = SubSeq(net, n + 1, Len(net))
  OBVIOUS
<1>4. (n = 0) <=> (inbox # <<>>)
  BY <1>2
<1>5. PICK o \in Got(Top, Head(buffer)) : Apply(o, Tail(buffer), rest, job)
  BY <1>2, <1>3
<1>6. skew' = IF LoginDone(Head(buffer)) THEN "no" ELSE skew
  BY <1>2, <1>3
<1>7. TakesOne(buffer, rest)
  BY <1>1, <1>3, <1>4, ReadLines
<1>8. Head(buffer) = Lines[1]
  BY <1>7 DEF TakesOne
<1>9. /\ Len(Lines) >= 1 /\ Len(Lines) \in Nat /\ Len(inbox) \in Nat
      /\ \A i \in 1..Len(inbox) : Lines[i] = inbox[i]
      /\ \A i \in 1..Len(Lines) : Lines[i] \in Replies
  BY <1>1, <1>7, LinesFacts DEF TakesOne
<1>10. Lines[1] \in Replies /\ (Len(inbox) > 0 => Lines[1] = inbox[1])
  BY <1>9
<1>11. PICK left : left = Tail(buffer)
  OBVIOUS
<1>12. Takes(left, rest)
  BY <1>7, <1>9, <1>10, <1>11 DEF TakesOne, Takes
<1>13. Reacts(Lines[1], o)
  BY <1>1, <1>5, <1>8, <1>10, GotOk
<1> QED
  BY <1>1, <1>5, <1>6, <1>8, <1>11, <1>12, <1>13 DEF Reads

\* A session that breaks leaves at most two lines in the buffer, the second a farewell.
LEMMA LeftFew ==
  ASSUME NEW left, NEW rest, Takes(left, rest), inbox \in Seq(Replies), Ends(3) \/ Doomed
  PROVE  FewLines(left)
<1>1. Len(left) \in Nat /\ Len(rest) \in Nat /\ Len(inbox) \in Nat
  BY DEF Takes
<1>2. CASE Doomed
  <2>1. Len(inbox) = 1 \/ Len(inbox) = 2
    BY <1>2 DEF Doomed
  <2>2. Len(left) = Len(inbox) - 1
    <3>1. Len(inbox) > 0 => Len(left) = Len(inbox) - 1
      BY DEF Takes
    <3> QED
      BY SMTT(20), <1>1, <2>1, <3>1
  <2> QED
    BY SMTT(20), <2>1, <2>2, <1>1 DEF FewLines
<1>3. CASE Ends(3)
  <2>1. Len(left) <= 2
    BY <1>1, <1>3 DEF Takes, Ends
  <2>2. ASSUME Len(left) = 2
        PROVE  Farewell(left[2])
    <3>1. Len(Lines) = 3 /\ 2 \in 1..Len(left)
      BY <1>1, <1>3, <2>2 DEF Takes, Ends
    <3>2. left[2] = Lines[2 + 1]
      BY <3>1 DEF Takes
    <3> QED
      BY <1>3, <3>1, <3>2 DEF Ends
  <2> QED
    BY <2>1, <2>2 DEF FewLines
<1> QED
  BY <1>2, <1>3

\* The lines after the first one come first now.
Shifted(keep) ==
  /\ Len(Lines') = Len(Lines) - 1
  /\ \A i \in 1..Len(Lines) - 1 :
       /\ Lines'[i].cmd = Lines[i + 1].cmd /\ Lines'[i].c = Lines[i + 1].c
       /\ Farewell(Lines'[i]) <=> Farewell(Lines[i + 1])
       /\ keep => Lines'[i] = Lines[i + 1]
GoesOn(o) ==
  /\ calls' = o.calls /\ conn' = o.conn /\ srv' = srv
  /\ job' = IF o.calls = <<>> /\ ~o.conn.moving THEN Plain("connect") ELSE job
  /\ o.send = "nothing" => toServer' = toServer
  /\ o.send # "nothing" => toServer' = IF srv.open THEN Append(toServer, o.send) ELSE <<>>
  /\ Shifted(o.send = "nothing")

\* The session goes on after a read: the other lines are still there.
LEMMA ReadGoesOn ==
  ASSUME Typed, NEW left, NEW rest, Takes(left, rest), NEW o, OutcomeOk(o, job), conn.up, o.conn.up,
         o.send # "BANNER", Apply(o, left, rest, job)
  PROVE  /\ GoesOn(o) /\ Len(inbox') = Len(left)
         /\ \A i \in 1..Len(left) : Farewell(inbox'[i]) <=> Farewell(Lines[i + 1])
<1>1. left \in Seq(Replies) /\ rest \in Seq(Replies) /\ (~srv.open => toServer = <<>>)
  BY DEF Takes, Typed, WireInv
<1>2. /\ calls' = o.calls /\ conn' = o.conn
      /\ job' = IF o.calls = <<>> /\ ~o.conn.moving THEN Plain("connect") ELSE job
      /\ srv' = srv /\ Len(inbox') = Len(left)
      /\ SameLines(left \o rest, Lines', o.send = "nothing")
      /\ SameLines(left, inbox', o.send = "nothing")
      /\ o.send = "nothing" => toServer' = toServer
      /\ o.send # "nothing" => toServer' = IF srv.open THEN Append(toServer, o.send) ELSE <<>>
  BY <1>1, ApplyGo
<1>3. Len(left \o rest) = Len(Lines) - 1
  BY <1>1, Joined DEF Takes
<1>4. Shifted(o.send = "nothing")
  <2>1. PICK s : s = left \o rest
    OBVIOUS
  <2>2. Len(s) = Len(Lines) - 1 /\ \A i \in 1..Len(Lines) - 1 : s[i] = Lines[i + 1]
    BY <1>3, <2>1 DEF Takes
  <2>3. SameLines(s, Lines', o.send = "nothing")
    BY <1>2, <2>1
  <2> QED
    BY <2>2, <2>3 DEF SameLines, Shifted
<1>5. \A i \in 1..Len(left) : Farewell(inbox'[i]) <=> Farewell(Lines[i + 1])
  BY <1>2 DEF SameLines, Takes
<1> QED
  BY <1>2, <1>4, <1>5 DEF GoesOn

\* A bound on the lines is a bound with one more line.
LEMMA EndsUp ==
  ASSUME Len(Lines) \in Nat
  PROVE  /\ Ends(1) => Ends(2)
         /\ Ends(2) => Ends(3)
         /\ Len(Lines) <= 1 => Ends(2)
         /\ Ends(1) /\ srv.open => Len(Lines) = 0
         /\ Ends(2) /\ srv.open => Len(Lines) <= 1
         /\ Ends(3) /\ srv.open => Len(Lines) <= 2
         /\ Ends(1) /\ Len(Lines) >= 1 => Len(Lines) = 1 /\ Farewell(Lines[1])
<1>1. PICK n : n = Len(Lines) /\ n \in Nat
  OBVIOUS
<1>2. /\ Ends(1) <=> n <= 1 /\ (n = 1 => Farewell(Lines[1]) /\ ~srv.open)
      /\ Ends(2) <=> n <= 2 /\ (n = 2 => Farewell(Lines[2]) /\ ~srv.open)
      /\ Ends(3) <=> n <= 3 /\ (n = 3 => Farewell(Lines[3]) /\ ~srv.open)
  BY <1>1 DEF Ends
<1>3. /\ n <= 1 <=> n = 0 \/ n = 1
      /\ n <= 2 <=> n = 0 \/ n = 1 \/ n = 2
      /\ n <= 3 <=> n = 0 \/ n = 1 \/ n = 2 \/ n = 3
      /\ n >= 1 <=> n # 0
  BY <1>1
<1> QED
  BY SMTT(20), <1>1, <1>2, <1>3

\* It is one less once a line is read.
LEMMA ShiftEnds ==
  ASSUME NEW keep, Shifted(keep), Len(Lines) \in Nat, Len(Lines) >= 1, srv' = srv
  PROVE  /\ Ends(2) => Ends(1)'
         /\ Ends(3) => Ends(2)'
         /\ Len(Lines) = 1 => Ends(1)' /\ Len(Lines') = 0
<1>1. Len(Lines') = Len(Lines) - 1 /\ \A i \in 1..Len(Lines) - 1 : Farewell(Lines'[i]) <=> Farewell(Lines[i + 1])
  BY DEF Shifted
<1>2. ASSUME Ends(2) PROVE Ends(1)'
  <2>1. Len(Lines) <= 2 /\ (Len(Lines) = 2 => Farewell(Lines[2]) /\ ~srv.open)
    BY <1>2 DEF Ends
  <2>2. Len(Lines) = 2 => Farewell(Lines'[1])
    <3>1. Len(Lines) = 2 => 1 \in 1..Len(Lines) - 1 /\ 1 + 1 = 2
      OBVIOUS
    <3> QED
      BY <1>1, <2>1, <3>1
  <2> QED
    BY <1>1, <2>1, <2>2 DEF Ends
<1>3. ASSUME Ends(3) PROVE Ends(2)'
  <2>1. Len(Lines) <= 3 /\ (Len(Lines) = 3 => Farewell(Lines[3]) /\ ~srv.open)
    BY <1>3 DEF Ends
  <2>2. Len(Lines) = 3 => Farewell(Lines'[2])
    <3>1. Len(Lines) = 3 => 2 \in 1..Len(Lines) - 1 /\ 2 + 1 = 3
      OBVIOUS
    <3> QED
      BY <1>1, <2>1, <3>1
  <2> QED
    BY <1>1, <2>1, <2>2 DEF Ends
<1>4. Len(Lines) = 1 => Ends(1)' /\ Len(Lines') = 0
  BY <1>1 DEF Ends
<1> QED
  BY <1>2, <1>3, <1>4

\* A farewell leads to a reconnect, except where any reply does.
LEMMA FarewellReopens ==
  ASSUME NEW r, NEW o, Reacts(r, o), r.c = "42"
  PROVE  Reopens(o) \/ (Top.fn = "op" /\ Top.cmd = "ABOR" /\ Returns(r, o))
BY DEF Reacts, Returns, Asks

\* The login sends its next command into a session that has nothing more to say.
LEMMA LoginAsked ==
  ASSUME NEW o, AsksLogin(o), GoesOn(o), Len(Lines') \in Nat, toServer = <<>>, Ends(1)',
         ~srv.xfer, ~srv.data, ~srv.rest
  PROVE  InLogin'
<1>1. /\ calls' # <<>> /\ Top'.fn = "connect" /\ Top'.cmd = o.send /\ conn'.up /\ o.send # "nothing"
  BY DEF AsksLogin, GoesOn, Top, LoginCmds, Logins
<1>2. srv' = srv /\ toServer' = IF srv.open THEN <<o.send>> ELSE <<>>
  BY <1>1 DEF GoesOn
<1>3. Sent(Top.cmd)' \/ Unheard'
  <2>1. CASE srv.open
    <3>1. Len(Lines') = 0
      BY <1>2, <2>1 DEF Ends
    <3> QED
      BY <1>1, <1>2, <2>1, <3>1 DEF Sent
  <2>2. CASE ~srv.open
    BY <1>2, <2>2 DEF Unheard
  <2> QED
    BY <2>1, <2>2
<1> QED
  BY <1>1, <1>2, <1>3 DEF InLogin, LoggingIn, Idle

\* An operation sends a command into a session that has nothing more to say.
LEMMA OpAsked ==
  ASSUME NEW o, NEW j, NEW cmd \in OpCmds, NEW again \in BOOLEAN, AsksOp(o, j, cmd, again),
         cmd \notin {"END", "RECONNECT"}, calls' = o.calls, conn' = o.conn, srv' = srv, job' = j,
         toServer' = IF srv.open THEN <<cmd>> ELSE <<>>, Len(Lines') \in Nat, Ends(1)',
         skew' = "no", srv.login = "yes", ~srv.xfer, cmd # "XFER" => ~srv.rest,
         cmd = "XFER" => (again => ~srv.data) /\ (~again => srv.rest = (j.op # "list" /\ j.resume))
  PROVE  InOp'
<1>1. /\ calls' # <<>> /\ Top'.fn = "op" /\ Top'.cmd = cmd /\ Top'.again = again /\ conn'.up
  BY DEF AsksOp, Top
<1>2. Resumes' = (j.op # "list" /\ j.resume)
  BY DEF Resumes
<1>3. Sent(cmd)' \/ Unheard'
  <2>1. CASE srv.open
    <3>0. srv'.open /\ Len(Lines') <= 1 /\ (Len(Lines') = 1 => ~srv'.open)
      BY <2>1 DEF Ends
    <3>1. Len(Lines') = 0
      <4>1. PICK n : n = Len(Lines') /\ n \in Nat
        OBVIOUS
      <4>2. n <= 1 /\ n # 1
        BY <3>0, <4>1
      <4> QED
        BY <4>1, <4>2
    <3> QED
      BY <2>1, <3>1 DEF Sent
  <2>2. CASE ~srv.open
    BY <2>2 DEF Unheard
  <2> QED
    BY <2>1, <2>2
<1>4. CASE cmd = "REST"
  BY <1>1, <1>3, <1>4 DEF InOp, OnRest, Idle
<1>5. CASE cmd = "XFER"
  BY <1>1, <1>2, <1>3, <1>5 DEF InOp, OnXfer, Idle
<1>6. CASE cmd \notin {"REST", "XFER"}
  <2>1. OnOther'
    BY <1>1, <1>3, <1>6 DEF OnOther
  <2> QED
    BY <1>1, <2>1 DEF InOp, Idle
<1> QED
  BY <1>4, <1>5, <1>6

\* An operation is over, and no transfer goes on.
LEMMA OpReturned ==
  ASSUME NEW o, o.calls = <<>>, o.conn.up, o.send = "nothing", ~o.conn.moving, GoesOn(o), toServer = <<>>, Ends(1)',
         skew' = "no", srv.login = "yes", ~srv.xfer, ~srv.rest
  PROVE  Resting'
<1>1. calls' = <<>> /\ conn' = o.conn /\ srv' = srv /\ toServer' = <<>>
  BY DEF GoesOn
<1> QED
  BY <1>1 DEF Resting, Rested, Idle

-----------------------------------------------------------------------------
(* A read during a login *)

\* A login that has a farewell in the buffer fails there, and finds out at the latest then.
LEMMA DoomedRead ==
  ASSUME Typed, conn.up, calls # <<>>, Top.fn = "connect", Doomed, NEW o, NEW left, NEW rest, Reads(o, left, rest)
  PROVE  SessionInv'
<1>1. Takes(left, rest) /\ Reacts(Lines[1], o) /\ Apply(o, left, rest, job)
  BY DEF Reads
<1>2. inbox \in Seq(Replies) /\ net \in Seq(Replies) /\ Polite(Lines)
  BY DEF Typed, TypeOK, WireInv
<1>3. FewLines(left)
  BY <1>1, <1>2, LeftFew
<1>4. CASE Reopens(o)
  BY <1>1, <1>3, <1>4, Reopened DEF Takes, Reopens
<1>5. CASE Len(inbox) = 1
  <2>1. Lines[1] = inbox[1] /\ Len(Lines) >= 1 /\ Len(Lines) \in Nat
    BY <1>1, <1>5 DEF Takes
  <2>2. Farewell(Lines[1])
    BY <2>1, <1>5 DEF Doomed
  <2>3. Lines[1].c = "42"
    BY <1>2, <2>1, <2>2 DEF Polite
  <2> QED
    BY <1>1, <1>4, <2>3, FarewellReopens
<1>6. CASE Len(inbox) = 2 /\ ~Reopens(o)
  <2>1. Top.cmd = "BANNER" /\ Farewell(inbox[2])
    BY <1>6 DEF Doomed
  <2>2. AsksLogin(o)
    BY <1>1, <1>6, <2>1 DEF Reacts
  <2>3. OutcomeOk(o, job) /\ o.conn.up /\ o.send # "BANNER"
    BY <2>2 DEF AsksLogin
  <2>4. /\ GoesOn(o) /\ Len(inbox') = Len(left)
        /\ \A i \in 1..Len(left) : Farewell(inbox'[i]) <=> Farewell(Lines[i + 1])
    BY <1>1, <2>3, ReadGoesOn
  <2>5. Len(left) = 1
    BY <1>1, <1>6 DEF Takes
  <2>6. Lines[2] = inbox[2]
    <3>1. \A i \in 1..Len(inbox) : Lines[i] = inbox[i]
      BY <1>2, LinesFacts
    <3> QED
      BY <1>6, <3>1
  <2>7. Farewell(inbox'[1])
    <3>1. 1 \in 1..Len(left) /\ 1 + 1 = 2
      BY <2>5
    <3> QED
      BY <2>1, <2>4, <2>6, <3>1
  <2>8. Doomed'
    BY <2>4, <2>5, <2>7 DEF Doomed
  <2>9. conn'.up /\ calls' # <<>> /\ Top'.fn = "connect"
    BY <2>2, <2>4 DEF AsksLogin, GoesOn, Top
  <2> QED
    BY <2>8, <2>9 DEF SessionInv, InLogin, Idle
<1> QED
  BY <1>4, <1>5, <1>6 DEF Doomed

\* The facts that every read below starts from
Reading(o, left, rest) ==
  /\ Typed /\ conn.up /\ calls # <<>> /\ Reads(o, left, rest)

\* What is known of a read
LEMMA ReadingFacts ==
  ASSUME NEW o, NEW left, NEW rest, Reading(o, left, rest)
  PROVE  /\ Takes(left, rest) /\ Reacts(Lines[1], o) /\ Apply(o, left, rest, job)
         /\ left \in Seq(Replies) /\ Len(Lines) >= 1 /\ Len(Lines) \in Nat
         /\ inbox \in Seq(Replies) /\ Top \in FrameType /\ FrameFits(calls, Len(calls), job) /\ Top = calls[Len(calls)]
         /\ Farewell(Lines[1]) => Lines[1].c = "42"
<1>1. Takes(left, rest) /\ Reacts(Lines[1], o) /\ Apply(o, left, rest, job)
  BY DEF Reading, Reads
<1>2. left \in Seq(Replies) /\ Len(Lines) >= 1 /\ Len(Lines) \in Nat
  BY <1>1 DEF Takes
<1>3. inbox \in Seq(Replies) /\ Top \in FrameType /\ FrameFits(calls, Len(calls), job) /\ Top = calls[Len(calls)]
  BY CallsBelow DEF Reading, Typed, TypeOK
<1>4. Farewell(Lines[1]) => Lines[1].c = "42"
  BY <1>2 DEF Reading, Typed, WireInv, Polite
<1> QED
  BY <1>1, <1>2, <1>3, <1>4

\* The session is replaced after a read: what is left in the buffer dooms the new login.
LEMMA ReadReopens ==
  ASSUME NEW o, NEW left, NEW rest, Reading(o, left, rest), Reopens(o), Ends(3)
  PROVE  SessionInv'
<1>1. FewLines(left)
  BY ReadingFacts, LeftFew
<1> QED
  BY <1>1, ReadingFacts, Reopened DEF Reopens

\* The session goes on.
LEMMA ReadStays ==
  ASSUME NEW o, NEW left, NEW rest, Reading(o, left, rest), OutcomeOk(o, job), o.conn.up, o.send # "BANNER"
  PROVE  /\ GoesOn(o) /\ Len(Lines') \in Nat /\ Len(Lines') = Len(Lines) - 1
         /\ Ends(2) => Ends(1)'
         /\ Ends(3) => Ends(2)'
         /\ Len(Lines) = 1 => Ends(1)' /\ Len(Lines') = 0
<1>1. GoesOn(o)
  BY ReadingFacts, ReadGoesOn DEF Reading
<1>2. PICK keep : keep = (o.send = "nothing") /\ Shifted(keep)
  BY <1>1 DEF GoesOn
<1>3. srv' = srv
  BY <1>1 DEF GoesOn
<1>4. Len(Lines') = Len(Lines) - 1
  BY <1>2 DEF Shifted
<1>5. Len(Lines) >= 1 /\ Len(Lines) \in Nat
  BY ReadingFacts
<1> QED
  BY <1>1, <1>2, <1>3, <1>4, <1>5, ShiftEnds

\* The lines after a line that is not the answer to PWD
LEMMA NextLines ==
  ASSUME NEW o, GoesOn(o), Len(Lines) \in Nat
  PROVE  /\ Len(Lines) >= 2 => Lines'[1].cmd = Lines[2].cmd /\ Lines'[1].c = Lines[2].c
                               /\ (Farewell(Lines'[1]) <=> Farewell(Lines[2]))
                               /\ (o.send = "nothing" => Lines'[1] = Lines[2])
<1>1. ASSUME Len(Lines) >= 2
      PROVE  /\ Lines'[1].cmd = Lines[2].cmd /\ Lines'[1].c = Lines[2].c /\ (Farewell(Lines'[1]) <=> Farewell(Lines[2]))
             /\ (o.send = "nothing" => Lines'[1] = Lines[2])
  <2>1. 1 \in 1..Len(Lines) - 1 /\ 1 + 1 = 2
    BY <1>1
  <2>2. Shifted(o.send = "nothing")
    BY DEF GoesOn
  <2> QED
    BY <2>1, <2>2 DEF Shifted
<1> QED
  BY <1>1

\* Two commands on their way
LEMMA TwoCommands ==
  ASSUME NEW a, NEW b
  PROVE  LET s == Append(<<a>>, b) IN Len(s) = 2 /\ s[1] = a /\ s[2] = b
<1>1. PICK t, S : t = <<a>> /\ S = {a, b}
  OBVIOUS
<1>2. t \in Seq(S) /\ Len(t) = 1 /\ t[1] = a /\ b \in S
  BY <1>1
<1> QED
  BY <1>1, <1>2, AppendFacts

\* A login that is one answer behind goes on like that, until PWD.
LEMMA BehindRead ==
  ASSUME NEW o, NEW left, NEW rest, Reading(o, left, rest), Top.fn = "connect", Behind,
         ~srv.xfer, ~srv.data, ~srv.rest
  PROVE  SessionInv'
<1>0. /\ Len(Lines) >= 1 /\ Len(Lines) \in Nat /\ Reacts(Lines[1], o)
      /\ Top \in FrameType /\ FrameFits(calls, Len(calls), job) /\ Top = calls[Len(calls)]
  BY ReadingFacts
<1>1. Ends(3) /\ OldFirst
  <2>1. Len(Lines) # 0
    BY <1>0
  <2> QED
    BY <1>0, <2>1, EndsUp DEF Behind
<1>2. CASE Reopens(o)
  BY <1>1, <1>2, ReadReopens
<1>3. CASE ~Reopens(o)
  <2>1. Top.cmd # "PWD" /\ AsksLogin(o)
    BY <1>0, <1>1, <1>3 DEF Reacts, OldFirst
  <2>2. OutcomeOk(o, job) /\ o.conn.up /\ o.send # "BANNER" /\ o.send # "nothing"
    BY <2>1 DEF AsksLogin, LoginCmds, Logins
  <2>3. /\ GoesOn(o) /\ Len(Lines') \in Nat /\ Len(Lines') = Len(Lines) - 1
        /\ Ends(2) => Ends(1)'
        /\ Ends(3) => Ends(2)'
        /\ Len(Lines) = 1 => Ends(1)' /\ Len(Lines') = 0
    BY <2>2, ReadStays
  <2>4. /\ calls' # <<>> /\ Top'.fn = "connect" /\ Top'.cmd = o.send /\ conn'.up /\ srv' = srv
        /\ toServer' = IF srv.open THEN Append(toServer, o.send) ELSE <<>>
    BY <2>1, <2>2, <2>3 DEF AsksLogin, GoesOn, Top
  <2>5. CASE srv.open /\ toServer = <<Top.cmd>> /\ Len(Lines) = 1
    <3>1. Top.cmd \in LoginCmds \ {"PWD"}
      BY <1>0, <2>1 DEF FrameFits
    <3>2. Len(toServer') = 2 /\ toServer'[1] = Top.cmd /\ toServer'[2] = o.send
      <4>1. PICK a, b : a = Top.cmd /\ b = o.send
        OBVIOUS
      <4>2. toServer' = Append(<<a>>, b)
        BY <2>4, <2>5, <4>1
      <4> QED
        BY <4>1, <4>2, TwoCommands
    <3>3. Behind'
      BY <2>3, <2>4, <2>5, <3>1, <3>2 DEF Behind
    <3> QED
      BY <2>4, <3>3 DEF SessionInv, InLogin, LoggingIn, Idle
  <2>6. CASE toServer = <<>> /\ Len(Lines) >= 2 /\ NewSecond
    <3>1. Lines'[1].cmd # "PWD"
      BY <1>0, <2>1, <2>3, <2>6, NextLines DEF NewSecond
    <3>2. Ends(2)'
      BY <1>1, <2>3
    <3>3. CASE srv.open
      <4>1. Len(Lines) = 2
        <5>1. Len(Lines) <= 2
          BY <1>0, <1>1, <3>3, EndsUp
        <5> QED
          <6>1. PICK n : n = Len(Lines) /\ n \in Nat
            BY <1>0
          <6>2. n >= 2 /\ n <= 2
            BY <2>6, <5>1, <6>1
          <6> QED
            BY <6>1, <6>2
      <4>2. toServer' = <<o.send>> /\ Len(Lines') = 1
        BY <2>3, <2>4, <2>6, <3>3, <4>1
      <4>3. Behind'
        BY <2>4, <3>1, <3>3, <4>2 DEF Behind, OldFirst
      <4> QED
        BY <2>4, <4>3 DEF SessionInv, InLogin, LoggingIn, Idle
    <3>4. CASE ~srv.open
      <4>1. toServer' = <<>> /\ ~srv'.open /\ Len(Lines') >= 1
        BY <1>0, <2>3, <2>4, <2>6, <3>4
      <4>2. Behind'
        BY <3>1, <3>2, <4>1 DEF Behind, OldFirst
      <4> QED
        BY <2>4, <4>2 DEF SessionInv, InLogin, LoggingIn, Idle
    <3> QED
      BY <3>3, <3>4
  <2>7. CASE toServer = <<>> /\ ~srv.open /\ Ends(2)
    <3>1. InLogin'
      BY <2>1, <2>3, <2>7, LoginAsked
    <3> QED
      BY <3>1 DEF SessionInv
  <2> QED
    <3>1. ~(Len(Lines) = 0)
      BY <1>0
    <3> QED
      BY <3>1, <2>5, <2>6, <2>7 DEF Behind
<1> QED
  BY <1>2, <1>3

\* The login is over; the operation below it, or another login, goes on in the new session.
LEMMA LoginEnds ==
  ASSUME NEW o, NEW left, NEW rest, Reading(o, left, rest), LoginOver(o), skew' = "no", toServer = <<>>, Ends(2),
         srv.login = "yes", ~srv.xfer, ~srv.data, ~srv.rest
  PROVE  SessionInv'
<1>1. CASE OutcomeOk(o, job) /\ o.calls = <<>> /\ o.conn.up /\ o.send = "nothing" /\ ~o.conn.moving
  <2>1. GoesOn(o) /\ Ends(1)'
    BY <1>1, ReadStays
  <2>2. Resting'
    BY <1>1, <2>1, OpReturned
  <2> QED
    BY <2>2 DEF SessionInv
<1>2. CASE AsksLogin(o)
  <2>1. GoesOn(o) /\ Ends(1)' /\ Len(Lines') \in Nat
    BY <1>2, ReadStays DEF AsksLogin
  <2>2. InLogin'
    BY <1>2, <2>1, LoginAsked
  <2> QED
    BY <2>2 DEF SessionInv
<1>3. ASSUME NEW cmd \in OpCmds, NEW again \in BOOLEAN, AsksOp(o, job, cmd, again),
             cmd \notin {"END", "ABOR", "RECONNECT"}, cmd = "XFER" => again \/ ~Resumes
      PROVE  SessionInv'
  <2>1. OutcomeOk(o, job) /\ o.conn.up /\ o.send = cmd /\ cmd # "BANNER" /\ cmd # "nothing"
    BY <1>3 DEF AsksOp, OpCmds, TransferCmds, Setups
  <2>2. GoesOn(o) /\ Ends(1)' /\ Len(Lines') \in Nat
    BY <2>1, ReadStays
  <2>3. /\ calls' = o.calls /\ conn' = o.conn /\ srv' = srv /\ job' = job
        /\ toServer' = IF srv.open THEN <<cmd>> ELSE <<>>
    BY <1>3, <2>1, <2>2 DEF GoesOn, AsksOp
  <2>4. cmd = "XFER" => (again => ~srv.data) /\ (~again => srv.rest = (job.op # "list" /\ job.resume))
    <3>1. cmd = "XFER" /\ ~again => ~Resumes
      BY <1>3
    <3>2. srv.rest = FALSE
      BY DEF Reading, Typed, TypeOK
    <3> QED
      BY <3>1, <3>2 DEF Resumes
  <2>5. InOp'
    BY <1>3, <2>2, <2>3, <2>4, OpAsked
  <2> QED
    BY <2>5 DEF SessionInv
<1> QED
  BY <1>1, <1>2, <1>3 DEF LoginOver

\* A read in a login
LEMMA LoginRead ==
  ASSUME NEW o, NEW left, NEW rest, Reading(o, left, rest), Top.fn = "connect", LoggingIn
  PROVE  SessionInv'
<1>0. Len(Lines) >= 1 /\ Len(Lines) \in Nat
  BY ReadingFacts
<1>1. ~srv.xfer /\ ~srv.data /\ ~srv.rest
  BY DEF LoggingIn
<1>2. CASE Sent(Top.cmd)
  BY <1>0, <1>2 DEF Sent
<1>3. CASE Unheard
  <2>1. Len(Lines) = 1 /\ Farewell(Lines[1]) /\ Ends(3)
    BY <1>0, <1>3, EndsUp DEF Unheard
  <2>2. Reopens(o)
    BY <2>1, ReadingFacts, FarewellReopens
  <2> QED
    BY <2>1, <2>2, ReadReopens
<1>4. CASE Behind
  BY <1>1, <1>4, BehindRead
<1>5. CASE Answered(Top.cmd) /\ (Top.cmd = "PWD" /\ Lines[1].c = "2" => srv.login = "yes")
  <2>1. Ends(2) /\ Ends(3) /\ toServer = <<>> /\ Lines[1].cmd = Top.cmd
    BY <1>0, <1>5, EndsUp DEF Answered
  <2>2. CASE Reopens(o)
    BY <2>1, <2>2, ReadReopens
  <2>3. CASE AsksLogin(o)
    <3>1. GoesOn(o) /\ Ends(1)' /\ Len(Lines') \in Nat
      BY <2>1, <2>3, ReadStays DEF AsksLogin
    <3>2. InLogin'
      BY <1>1, <2>1, <2>3, <3>1, LoginAsked
    <3> QED
      BY <3>2 DEF SessionInv
  <2>4. CASE Top.cmd = "PWD" /\ Lines[1].cmd = "PWD" /\ Lines[1].c = "2" /\ LoginOver(o)
    <3>1. skew' = "no"
      BY <2>4 DEF Reading, Reads, LoginDone
    <3> QED
      BY <1>1, <1>5, <2>1, <2>4, <3>1, LoginEnds
  <2> QED
    BY <2>2, <2>3, <2>4, ReadingFacts DEF Reacts
<1> QED
  BY <1>2, <1>3, <1>4, <1>5 DEF LoggingIn

-----------------------------------------------------------------------------
(* A read during an operation *)

\* The answer is there, and nothing else: the operation returns, or goes on.
LEMMA AnswerReturns ==
  ASSUME NEW o, NEW left, NEW rest, Reading(o, left, rest), Returns(Lines[1], o), ~(Top.cmd = "XFER" /\ Lines[1].c = "1"),
         Ends(2), toServer = <<>>, skew' = "no", srv.login = "yes", ~srv.xfer, ~srv.rest
  PROVE  SessionInv'
<1>1. OutcomeOk(o, job) /\ o.conn.up /\ o.send # "BANNER" /\ o.send = "nothing" /\ o.calls = <<>> /\ ~o.conn.moving
  BY DEF Returns
<1>2. GoesOn(o) /\ Ends(1)'
  BY <1>1, ReadStays
<1>3. Resting'
  BY <1>1, <1>2, OpReturned
<1> QED
  BY <1>3 DEF SessionInv

\* The answer came and the operation goes on.
LEMMA AnswerAsks ==
  ASSUME NEW o, NEW left, NEW rest, Reading(o, left, rest), Asks(Lines[1], o),
         Ends(2), toServer = <<>>, skew' = "no", srv.login = "yes", ~srv.xfer,
         srv.rest = (Top.cmd = "REST"), Top.cmd = "REST" => Resumes
  PROVE  SessionInv'
<1>1. PICK cmd \in OpCmds, again \in BOOLEAN :
        /\ AsksOp(o, job, cmd, again) /\ cmd \notin {"END", "ABOR", "RECONNECT"}
        /\ cmd = "XFER" => ~again /\ (Top.cmd = "REST" \/ ~Resumes)
        /\ Top.cmd = "REST" => cmd = "XFER"
  BY DEF Asks
<1>2. OutcomeOk(o, job) /\ o.conn.up /\ o.send = cmd /\ cmd # "BANNER" /\ cmd # "nothing"
  BY <1>1 DEF AsksOp, OpCmds, TransferCmds, Setups
<1>3. GoesOn(o) /\ Ends(1)' /\ Len(Lines') \in Nat
  BY <1>2, ReadStays
<1>4. /\ calls' = o.calls /\ conn' = o.conn /\ srv' = srv /\ job' = job
      /\ toServer' = IF srv.open THEN <<cmd>> ELSE <<>>
  BY <1>1, <1>2, <1>3 DEF GoesOn, AsksOp
<1>5. cmd = "XFER" => (again => ~srv.data) /\ (~again => srv.rest = (job.op # "list" /\ job.resume))
  <2>1. job.resume \in BOOLEAN
    BY DEF Reading, Typed, TypeOK
  <2>2. cmd = "XFER" => ~again /\ (Top.cmd = "REST" \/ ~Resumes)
    BY <1>1
  <2>3. CASE Top.cmd = "REST"
    BY <2>1, <2>2, <2>3 DEF Resumes
  <2>4. CASE Top.cmd # "REST"
    BY <2>1, <2>2, <2>4 DEF Resumes
  <2> QED
    BY <2>3, <2>4
<1>6. cmd # "XFER" => ~srv.rest
  BY <1>1
<1>7. InOp'
  BY <1>1, <1>3, <1>4, <1>5, <1>6, OpAsked
<1> QED
  BY <1>7 DEF SessionInv

\* The server is gone, and said so.
LEMMA FarewellRead ==
  ASSUME NEW o, NEW left, NEW rest, Reading(o, left, rest), Top.fn = "op", Unheard, skew' = "no",
         srv.login = "yes", Top.cmd = "ABOR" => ~srv.xfer /\ ~srv.rest
  PROVE  SessionInv'
<1>1. Len(Lines) >= 1 /\ Len(Lines) \in Nat /\ Reacts(Lines[1], o) /\ (Farewell(Lines[1]) => Lines[1].c = "42")
  BY ReadingFacts
<1>2. Ends(1) /\ Ends(2) /\ Ends(3) /\ Farewell(Lines[1]) /\ toServer = <<>>
  BY <1>1, EndsUp DEF Unheard
<1>3. CASE Reopens(o)
  BY <1>2, <1>3, ReadReopens
<1>4. CASE Top.cmd = "ABOR" /\ Returns(Lines[1], o)
  BY <1>2, <1>4, AnswerReturns
<1> QED
  BY <1>1, <1>2, <1>3, <1>4, FarewellReopens

\* An operation reads a line in a session that is not at work on a transfer.
LEMMA OpReadSkew ==
  ASSUME NEW o, NEW left, NEW rest, Reading(o, left, rest), Top.fn = "op"
  PROVE  skew' = skew
BY DEF Reading, Reads, LoginDone

\* A read while REST is asked
LEMMA RestRead ==
  ASSUME NEW o, NEW left, NEW rest, Reading(o, left, rest), Top.fn = "op", skew = "no", srv.login = "yes", OnRest
  PROVE  SessionInv'
<1>1. /\ Len(Lines) >= 1 /\ Len(Lines) \in Nat /\ Reacts(Lines[1], o) /\ skew' = "no"
      /\ FrameFits(calls, Len(calls), job) /\ Top = calls[Len(calls)] /\ Top.cmd = "REST" /\ ~srv.xfer
  BY ReadingFacts, OpReadSkew DEF OnRest
<1>2. CASE Sent("REST")
  BY <1>1, <1>2 DEF Sent
<1>3. CASE Unheard
  BY <1>1, <1>3, FarewellRead
<1>4. CASE Answered("REST") /\ (srv.rest <=> Lines[1].c = "3")
  <2>1. Ends(2) /\ Ends(3) /\ toServer = <<>>
    BY <1>1, <1>4, EndsUp DEF Answered
  <2>2. CASE Reopens(o)
    BY <2>1, <2>2, ReadReopens
  <2>3. CASE Returns(Lines[1], o)
    <3>1. Lines[1].c # "3"
      BY <1>1, <2>3 DEF Returns
    <3> QED
      BY <1>1, <1>4, <2>1, <2>3, <3>1, AnswerReturns
  <2>4. CASE Asks(Lines[1], o)
    <3>1. Resumes
      BY <1>1 DEF FrameFits, Resumes
    <3>2. srv.rest = TRUE
      <4>1. Lines[1].c = "3"
        BY <1>1, <2>4 DEF Asks
      <4> QED
        BY <1>4, <4>1 DEF Reading, Typed, TypeOK
    <3> QED
      BY <1>1, <2>1, <2>4, <3>1, <3>2, AnswerAsks
  <2> QED
    BY <1>1, <2>2, <2>3, <2>4 DEF Reacts
<1> QED
  BY <1>2, <1>3, <1>4 DEF OnRest

\* A read while another command is asked
LEMMA OtherRead ==
  ASSUME NEW o, NEW left, NEW rest, Reading(o, left, rest), Top.fn = "op", skew = "no", srv.login = "yes", OnOther
  PROVE  SessionInv'
<1>1. /\ Len(Lines) >= 1 /\ Len(Lines) \in Nat /\ Reacts(Lines[1], o) /\ skew' = "no"
      /\ Top.cmd \notin {"REST", "XFER", "END"} /\ ~srv.xfer /\ ~srv.rest
  BY ReadingFacts, OpReadSkew DEF OnOther
<1>2. CASE Sent(Top.cmd)
  BY <1>1, <1>2 DEF Sent
<1>3. CASE Unheard
  BY <1>1, <1>3, FarewellRead
<1>4. CASE Answered(Top.cmd)
  <2>1. Ends(2) /\ Ends(3) /\ toServer = <<>>
    BY <1>1, <1>4, EndsUp DEF Answered
  <2>2. CASE Reopens(o)
    BY <2>1, <2>2, ReadReopens
  <2>3. CASE Returns(Lines[1], o)
    BY <1>1, <2>1, <2>3, AnswerReturns
  <2>4. CASE Asks(Lines[1], o)
    <3>1. srv.rest = FALSE
      BY <1>1 DEF Reading, Typed, TypeOK
    <3> QED
      BY <1>1, <2>1, <2>4, <3>1, AnswerAsks
  <2> QED
    BY <1>1, <2>2, <2>3, <2>4 DEF Reacts
<1> QED
  BY <1>2, <1>3, <1>4 DEF OnOther

\* rfc959_end_transfer() reads how the transfer ended.
LEMMA EndRead ==
  ASSUME NEW o, NEW left, NEW rest, Reading(o, left, rest), Top.fn = "op", skew = "no", srv.login = "yes", OnEnd
  PROVE  SessionInv'
<1>1. /\ Len(Lines) >= 1 /\ Len(Lines) \in Nat /\ Reacts(Lines[1], o) /\ skew' = "no"
      /\ Top.cmd = "END" /\ toServer = <<>> /\ ~srv.rest
  BY ReadingFacts, OpReadSkew DEF OnEnd, Transferring
<1>2. ~srv.xfer /\ Answered("XFER")
  <2>1. ~(Len(Lines) = 0)
    BY <1>1
  <2> QED
    BY <2>1 DEF OnEnd, Transferring
<1>3. Ends(2) /\ Ends(3)
  BY <1>1, <1>2, EndsUp DEF Answered
<1>4. CASE Reopens(o)
  BY <1>3, <1>4, ReadReopens
<1>5. CASE Returns(Lines[1], o)
  BY <1>1, <1>2, <1>3, <1>5, AnswerReturns
<1> QED
  BY <1>1, <1>4, <1>5 DEF Reacts, Asks

\* The transfer starts, and may have ended already.
LEMMA StartedRead ==
  ASSUME NEW o, NEW left, NEW rest, Reading(o, left, rest), Top.fn = "op", skew = "no", srv.login = "yes",
         Top.cmd = "XFER", Started
  PROVE  SessionInv'
<1>1. /\ Len(Lines) >= 1 /\ Len(Lines) \in Nat /\ Reacts(Lines[1], o) /\ skew' = "no"
  BY ReadingFacts, OpReadSkew
<1>2. /\ toServer = <<>> /\ Lines[1].c = "1" /\ ~srv.rest /\ Offset
  BY DEF Started
<1>3. Ends(3)
  BY <1>1, EndsUp DEF Started
<1>4. CASE Reopens(o)
  BY <1>3, <1>4, ReadReopens
<1>5. CASE Returns(Lines[1], o)
  <2>1. OutcomeOk(o, job) /\ o.conn.up /\ o.send # "BANNER" /\ o.send = "nothing" /\ o.calls = <<>> /\ o.conn.moving
    BY <1>2, <1>5 DEF Returns
  <2>2. /\ GoesOn(o) /\ Len(Lines') \in Nat /\ Len(Lines') = Len(Lines) - 1
        /\ Ends(3) => Ends(2)'
        /\ Len(Lines) = 1 => Len(Lines') = 0
    BY <2>1, ReadStays
  <2>3. calls' = <<>> /\ conn'.up /\ conn'.moving /\ srv' = srv /\ job' = job /\ toServer' = <<>>
    BY <1>2, <2>1, <2>2 DEF GoesOn
  <2>4. Transferring'
    <3>1. CASE Len(Lines) = 1 /\ (srv.open => srv.xfer)
      BY <1>2, <2>2, <2>3, <3>1 DEF Transferring
    <3>2. CASE /\ ~srv.xfer /\ Len(Lines) >= 2 /\ Ends(3)
               /\ Lines[2].cmd = "XFER" /\ Lines[2].c \in {"2", "4"} /\ Lines[2].mine
      <4>1. Lines'[1] = Lines[2]
        BY <1>1, <2>1, <2>2, <3>2, NextLines
      <4>2. Len(Lines') >= 1
        BY <1>1, <2>2, <3>2
      <4>3. Answered("XFER")'
        BY <2>2, <2>3, <3>2, <4>1, <4>2 DEF Answered
      <4> QED
        BY <1>2, <2>3, <3>2, <4>1, <4>3 DEF Transferring
    <3> QED
      BY <3>1, <3>2 DEF Started
  <2>5. Offset'
    BY <1>2, <2>3 DEF Offset
  <2>6. Resting'
    BY <1>1, <2>3, <2>4, <2>5 DEF Resting, Idle
  <2> QED
    BY <2>6 DEF SessionInv
<1> QED
  BY <1>1, <1>4, <1>5 DEF Reacts, Asks

\* A read while the transfer is asked
LEMMA XferRead ==
  ASSUME NEW o, NEW left, NEW rest, Reading(o, left, rest), Top.fn = "op", skew = "no", srv.login = "yes", OnXfer
  PROVE  SessionInv'
<1>1. /\ Len(Lines) >= 1 /\ Len(Lines) \in Nat /\ Reacts(Lines[1], o) /\ skew' = "no" /\ Top.cmd = "XFER"
  BY ReadingFacts, OpReadSkew DEF OnXfer
<1>2. CASE Sent("XFER")
  BY <1>1, <1>2 DEF Sent
<1>3. CASE Unheard
  BY <1>1, <1>3, FarewellRead
<1>4. CASE Answered("XFER") /\ ~srv.xfer /\ Lines[1].c \in {"4", "5", "42"} /\ (Lines[1].c # "42" => ~srv.rest)
  <2>1. Ends(2) /\ Ends(3) /\ toServer = <<>>
    BY <1>1, <1>4, EndsUp DEF Answered
  <2>2. CASE Reopens(o)
    BY <2>1, <2>2, ReadReopens
  <2>3. CASE Returns(Lines[1], o)
    <3>1. Lines[1].c # "42"
      BY <1>1, <2>3 DEF Returns
    <3> QED
      BY <1>1, <1>4, <2>1, <2>3, <3>1, AnswerReturns
  <2> QED
    BY <1>1, <2>2, <2>3 DEF Reacts, Asks
<1>5. CASE Started
  BY <1>1, <1>5, StartedRead
<1> QED
  BY <1>2, <1>3, <1>4, <1>5 DEF OnXfer

\* Everything that the client can read keeps the two ends together.
LEMMA ReadSession ==
  ASSUME Typed, SessionInv, Read
  PROVE  SessionInv'
<1>1. PICK o, left, rest : Reads(o, left, rest)
  BY ReadIs
<1>2. calls # <<>> /\ conn.up
  BY ReadIs DEF Typed, CallsInv, StackFits
<1>3. Reading(o, left, rest)
  BY <1>1, <1>2 DEF Reading
<1>4. Len(Lines) >= 1 /\ Len(Lines) \in Nat
  BY <1>3, ReadingFacts
<1>5. CASE InLogin
  BY <1>1, <1>2, <1>3, <1>5, DoomedRead, LoginRead DEF InLogin
<1>6. CASE InOp
  BY <1>3, <1>6, RestRead, XferRead, OtherRead, EndRead DEF InOp
<1>7. ~Down /\ ~Dead /\ ~Resting
  BY <1>2, <1>4 DEF Down, Dead, Resting, Idle
<1> QED
  BY <1>5, <1>6, <1>7 DEF SessionInv

\* Types too
LEMMA ReactsOk ==
  ASSUME NEW r, NEW o, Reacts(r, o)
  PROVE  OutcomeOk(o, job)
BY DEF Reacts, Reopens, AsksLogin, LoginOver, AsksOp, Returns, Asks

\* A read leaves types, calls and wire in order.
LEMMA ReadTyped ==
  ASSUME Typed, Read
  PROVE  Typed'
<1>1. PICK o, left, rest : Reads(o, left, rest)
  BY ReadIs
<1>2. conn.up
  BY ReadIs DEF Typed, CallsInv, StackFits
<1>3. left \in Seq(Replies) /\ rest \in Seq(Replies) /\ OutcomeOk(o, job) /\ Apply(o, left, rest, job)
  BY <1>1, ReactsOk DEF Reads, Takes
<1>4. Polite(left \o rest)
  <2>1. PICK s : s = left \o rest
    OBVIOUS
  <2>2. Len(s) = Len(Lines) - 1 /\ Len(Lines) \in Nat /\ \A i \in 1..Len(Lines) - 1 : s[i] = Lines[i + 1]
    <3>1. Len(left \o rest) = Len(left) + Len(rest)
      BY <1>3, Joined
    <3> QED
      BY <1>1, <2>1, <3>1 DEF Reads, Takes
  <2>3. \A i \in 1..Len(Lines) - 1 : i + 1 \in 1..Len(Lines)
    BY <2>2
  <2>4. Polite(Lines)
    BY DEF Typed, WireInv
  <2>5. Polite(s)
    BY <2>2, <2>3, <2>4 DEF Polite
  <2> QED
    BY <2>1, <2>5
<1>5. skew' \in {"no", "abort", "eof"} /\ job \in JobType
  BY <1>1 DEF Reads, Typed, TypeOK, JobType
<1> QED
  BY <1>2, <1>3, <1>4, <1>5, ApplyTypes

-----------------------------------------------------------------------------
(* The other steps of the client *)

\* An outcome o with the lines as they are
LEMMA OutcomeTyped ==
  ASSUME Typed, NEW o, NEW j \in JobType, OutcomeOk(o, j), conn.up \/ ~o.conn.up \/ o.send = "BANNER",
         skew' \in {"no", "abort", "eof"}, Apply(o, inbox, net, j)
  PROVE  Typed'
<1>1. inbox \in Seq(Replies) /\ net \in Seq(Replies) /\ Polite(inbox \o net)
  BY DEF Typed, TypeOK, WireInv, Lines
<1> QED
  BY <1>1, ApplyTypes

\* The end of file: the client may take it for an answer, but there is nobody to ask.
LEMMA EofStep ==
  ASSUME Typed, ReadEof
  PROVE  Typed' /\ SessionInv'
<1>1. calls # <<>> /\ ~srv.open /\ inbox = <<>> /\ net = <<>> /\ skew' = "eof"
  BY DEF ReadEof
<1>2. PICK r, o : o \in Got(Top, r) /\ Apply(o, inbox, net, job)
  BY DEF ReadEof
<1>3. OutcomeOk(o, job) /\ Reacts(r, o)
  BY <1>1, <1>2, GotOk, ReactsOk DEF Typed
<1>4. job \in JobType /\ conn.up /\ inbox \in Seq(Replies) /\ net \in Seq(Replies) /\ (~srv.open => toServer = <<>>)
  BY <1>1 DEF Typed, TypeOK, JobType, CallsInv, StackFits, WireInv
<1>5. Typed'
  BY <1>1, <1>2, <1>3, <1>4, OutcomeTyped
<1>6. FewLines(inbox)
  BY <1>1 DEF FewLines
<1>7. CASE ~o.conn.up
  <2>1. ~conn'.up /\ inbox' = inbox
    BY <1>2, <1>3, <1>7, ApplyDrop
  <2> QED
    BY <1>5, <1>6, <2>1 DEF SessionInv, Down, FewLines
<1>8. CASE o.conn.up /\ o.send = "BANNER"
  <2>1. InLogin'
    BY <1>2, <1>3, <1>4, <1>6, <1>8, LoginStarts DEF Starts
  <2> QED
    BY <1>5, <2>1 DEF SessionInv
<1>9. CASE o.conn.up /\ o.send # "BANNER"
  <2>1. /\ conn' = o.conn /\ srv' = srv /\ net' \in Seq(Replies) /\ inbox' \in Seq(Replies)
        /\ Len(net') = Len(net) /\ Len(inbox') = Len(inbox)
    BY <1>2, <1>3, <1>4, <1>9, ApplyGo
  <2>2. Len(net') = 0 /\ Len(inbox') = 0
    BY <1>1, <2>1
  <2>3. Len(inbox' \o net') = Len(inbox') + Len(net')
    BY <2>1, Joined
  <2>4. Len(Lines') = 0
    BY <2>2, <2>3 DEF Lines
  <2>5. Dead'
    BY <1>1, <1>9, <2>1, <2>4 DEF Dead
  <2> QED
    BY <1>5, <2>5 DEF SessionInv
<1> QED
  BY <1>7, <1>8, <1>9

\* A read or a write that fails closes the connection.
LEMMA FailsStep ==
  ASSUME Typed, ReadFails
  PROVE  Typed' /\ SessionInv'
<1>1. calls # <<>> /\ inbox = <<>> /\ skew' = skew
  BY DEF ReadFails
<1>2. PICK e : e = IF Top.cmd = "ABOR" THEN "none" ELSE "retry"
  OBVIOUS
<1>3. PICK o \in Fail(Dropped(conn), e) : Apply(o, inbox, net, job)
  BY <1>2 DEF ReadFails
<1>4. Reopens(o)
  <2>1. e \in {"none", "retry", "fatal", "timeout"}
    BY <1>2
  <2> QED
    BY <1>3, <2>1, DropFails DEF Typed
<1>5. job \in JobType /\ conn.up /\ inbox \in Seq(Replies)
  BY <1>1 DEF Typed, TypeOK, JobType, CallsInv, StackFits
<1>6. FewLines(inbox)
  BY <1>1 DEF FewLines
<1>7. OutcomeOk(o, job) /\ (Drops(o) \/ Starts(o))
  BY <1>4 DEF Reopens
<1>8. skew' \in {"no", "abort", "eof"}
  BY <1>1 DEF Typed, TypeOK
<1>9. Typed'
  BY <1>3, <1>5, <1>7, <1>8, OutcomeTyped
<1>10. SessionInv'
  BY <1>3, <1>5, <1>6, <1>7, Reopened
<1> QED
  BY <1>9, <1>10

-----------------------------------------------------------------------------
(* The caller *)

\* The lines at rest
LEMMA IdleLines ==
  ASSUME Typed, SessionInv, Idle
  PROVE  FewLines(inbox) /\ inbox \in Seq(Replies)
<1>1. inbox \in Seq(Replies) /\ net \in Seq(Replies)
  BY DEF Typed, TypeOK
<1>2. /\ Len(Lines) \in Nat /\ Len(Lines) = Len(inbox) + Len(net) /\ Len(inbox) \in Nat /\ Len(net) \in Nat
      /\ \A i \in 1..Len(inbox) : Lines[i] = inbox[i]
  BY <1>1, LinesFacts
<1>3. CASE Down
  BY <1>1, <1>3 DEF Down
<1>4. CASE ~Down
  <2>1. Ends(2)
    <3>1. Len(Lines) = 0 => Ends(2)
      BY <1>2, EndsUp
    <3> QED
      BY <1>2, <1>4, <3>1, EndsUp DEF SessionInv, Dead, InLogin, InOp, Resting, Rested, Transferring, Answered
  <2>2. Len(Lines) <= 2 /\ (Len(Lines) = 2 => Farewell(Lines[2]))
    BY <2>1 DEF Ends
  <2>3. PICK n, m : n = Len(inbox) /\ m = Len(net)
    OBVIOUS
  <2>4. n <= 2 /\ (n = 2 => Len(Lines) = 2 /\ 2 \in 1..Len(inbox))
    BY <1>2, <2>2, <2>3
  <2> QED
    BY <1>1, <1>2, <2>2, <2>3, <2>4 DEF FewLines
<1> QED
  BY <1>3, <1>4

\* The session goes on after a call.
LEMMA CallStays ==
  ASSUME Typed, NEW o, NEW j, OutcomeOk(o, j), conn.up, o.conn.up, o.send # "BANNER", Call(o, j)
  PROVE  /\ calls' = o.calls /\ conn' = o.conn /\ srv' = srv /\ Len(Lines') = Len(Lines) /\ Len(Lines) \in Nat
         /\ job' = IF o.calls = <<>> /\ ~o.conn.moving THEN Plain("connect") ELSE j
         /\ o.send = "nothing" => toServer' = toServer /\ Lines' = Lines
         /\ o.send # "nothing" => toServer' = IF srv.open THEN Append(toServer, o.send) ELSE <<>>
         /\ Ends(1) => Ends(1)'
<1>1. inbox \in Seq(Replies) /\ net \in Seq(Replies) /\ (~srv.open => toServer = <<>>)
  BY DEF Typed, TypeOK, WireInv
<1>2. /\ calls' = o.calls /\ conn' = o.conn /\ srv' = srv /\ SameLines(Lines, Lines', o.send = "nothing")
      /\ job' = IF o.calls = <<>> /\ ~o.conn.moving THEN Plain("connect") ELSE j
      /\ net' \in Seq(Replies) /\ inbox' \in Seq(Replies)
      /\ o.send = "nothing" => toServer' = toServer
      /\ o.send # "nothing" => toServer' = IF srv.open THEN Append(toServer, o.send) ELSE <<>>
  BY <1>1, ApplyGo DEF Call, Lines
<1>3. o.send = "nothing" => Lines' = Lines
  <2>1. o.send = "nothing" => inbox' = inbox /\ net' = net
    <3>1. o.send = "nothing" => net' = IF conn.up /\ o.conn.up THEN net ELSE <<>>
      BY DEF Call, Apply
    <3>2. o.send = "nothing" => inbox' = inbox
      BY DEF Call, Apply
    <3> QED
      BY <3>1, <3>2
  <2> QED
    BY <2>1 DEF Lines
<1>4. Len(Lines') = Len(Lines) /\ \A i \in 1..Len(Lines) : Farewell(Lines'[i]) <=> Farewell(Lines[i])
  BY <1>2 DEF SameLines
<1>5. Len(Lines) \in Nat
  BY <1>1, LinesFacts
<1>6. ASSUME Ends(1) PROVE Ends(1)'
  <2>1. Len(Lines) <= 1 /\ (Len(Lines) = 1 => Farewell(Lines[1]) /\ ~srv.open)
    BY <1>6 DEF Ends
  <2>2. Len(Lines) = 1 => 1 \in 1..Len(Lines)
    BY <1>5
  <2>3. Len(Lines') = 1 => Farewell(Lines'[1]) /\ ~srv'.open
    BY <1>2, <1>4, <2>1, <2>2
  <2>4. Len(Lines') <= 1
    BY <1>4, <2>1
  <2> QED
    BY <2>3, <2>4 DEF Ends
<1> QED
  BY <1>2, <1>3, <1>4, <1>5, <1>6

\* An operation on a connection whose end of file was read gets no answer.
LEMMA CallDead ==
  ASSUME Typed, NEW o, NEW j, OutcomeOk(o, j), Dead, o.conn.up, o.send # "BANNER", Call(o, j), skew' = "eof"
  PROVE  SessionInv'
<1>1. conn' = o.conn /\ srv' = srv /\ Len(Lines') = Len(Lines)
  BY CallStays DEF Dead
<1>2. Dead'
  BY <1>1 DEF Dead
<1> QED
  BY <1>2 DEF SessionInv

\* An operation's first command in a session that is still, or whose server is gone
LEMMA OpCalled ==
  ASSUME Typed, SessionInv, Idle, conn.up, Dead \/ ~conn.moving, NEW o, NEW j \in JobType,
         NEW cmd \in OpCmds, NEW again \in BOOLEAN, AsksOp(o, j, cmd, again), cmd \notin {"END", "RECONNECT"},
         cmd = "XFER" => ~again /\ ~(j.op # "list" /\ j.resume), Call(o, j), skew' = skew
  PROVE  SessionInv'
<1>1. OutcomeOk(o, j) /\ o.conn.up /\ o.send = cmd /\ cmd # "BANNER" /\ cmd # "nothing" /\ o.calls # <<>>
  BY DEF AsksOp, OpCmds, TransferCmds, Setups
<1>2. CASE Dead
  <2>1. skew' = "eof"
    BY <1>2 DEF Dead
  <2> QED
    BY <1>1, <1>2, <2>1, CallDead
<1>3. CASE Resting /\ ~conn.moving
  <2>1. skew = "no" /\ srv.login = "yes" /\ toServer = <<>> /\ Ends(1) /\ ~srv.xfer /\ ~srv.rest
    BY <1>3 DEF Resting, Rested
  <2>2. /\ calls' = o.calls /\ conn' = o.conn /\ srv' = srv /\ Len(Lines') \in Nat /\ job' = j /\ Ends(1)'
        /\ toServer' = IF srv.open THEN Append(toServer, cmd) ELSE <<>>
    BY <1>1, <2>1, CallStays
  <2>3. toServer' = IF srv.open THEN <<cmd>> ELSE <<>>
    BY <2>1, <2>2
  <2>4. cmd = "XFER" => (again => ~srv.data) /\ (~again => srv.rest = (j.op # "list" /\ j.resume))
    <3>1. srv.rest = FALSE /\ j.resume \in BOOLEAN
      BY <2>1 DEF Typed, TypeOK, JobType
    <3> QED
      BY <3>1
  <2>5. InOp'
    BY <1>1, <2>1, <2>2, <2>3, <2>4, OpAsked
  <2> QED
    BY <2>5 DEF SessionInv
<1>4. Dead \/ Resting
  BY DEF SessionInv, Down, InLogin, InOp
<1> QED
  BY <1>2, <1>3, <1>4

\* A transfer that begins
LEMMA SetupCalled ==
  ASSUME Typed, SessionInv, Idle, conn.up, ~conn.moving, NEW o, NEW j \in JobType, SetsUp(o, j),
         Call(o, j), skew' = skew
  PROVE  Typed' /\ SessionInv'
<1>1. PICK cmd \in TransferCmds, again \in BOOLEAN :
        AsksOp(o, j, cmd, again) /\ (cmd = "XFER" => ~again /\ ~(j.op # "list" /\ j.resume))
  BY DEF SetsUp
<1>2. cmd \in OpCmds /\ cmd \notin {"END", "ABOR", "RECONNECT"}
  BY DEF OpCmds, TransferCmds, Setups
<1>3. SessionInv'
  BY <1>1, <1>2, OpCalled
<1>4. OutcomeOk(o, j) /\ skew' \in {"no", "abort", "eof"}
  BY <1>1 DEF AsksOp, Typed, TypeOK
<1> QED
  BY <1>3, <1>4, OutcomeTyped DEF Call

\* The request at rest
LEMMA IdleConn ==
  ASSUME Typed, conn.up
  PROVE  conn \in ConnType /\ (~conn.moving => Working(conn)) /\ job \in JobType /\ skew \in {"no", "abort", "eof"}
BY DEF Typed, TypeOK, ConnType, Working, JobType

\* The job of an operation that is no transfer
LEMMA PlainJob ==
  ASSUME NEW op \in AllOps
  PROVE  Plain(op) \in JobType /\ Plain(op).op = op /\ ~Plain(op).resume
BY DEF Plain, Job, JobType

\* gftp_connect() by the caller
LEMMA ConnectCalled ==
  ASSUME Typed, CallConnect
  PROVE  Typed' /\ (SessionInv => SessionInv')
<1>1. Idle /\ ~conn.up /\ skew' = skew
  BY DEF CallConnect
<1>2. PICK o \in Connect(conn, <<>>) : Call(o, Plain("connect"))
  BY DEF CallConnect
<1>3. PICK j : j = Plain("connect")
  OBVIOUS
<1>4. conn \in ConnType /\ ~conn.moving /\ j \in JobType /\ skew' \in {"no", "abort", "eof"}
  BY <1>1, <1>3, PlainType DEF Typed, TypeOK, ConnType, CallsInv, StackFits
<1>5. OutcomeOk(o, j) /\ (Drops(o) \/ Starts(o))
  BY <1>1, <1>2, <1>4, EmptyBelow, ConnectOk
<1>6. Typed'
  BY <1>2, <1>3, <1>4, <1>5, OutcomeTyped DEF Call, Drops, Starts
<1>7. ASSUME SessionInv PROVE SessionInv'
  BY <1>1, <1>2, <1>3, <1>5, <1>7, IdleLines, Reopened DEF Call
<1> QED
  BY <1>6, <1>7

\* An operation of one or two commands
LEMMA CommandCalled ==
  ASSUME Typed, NEW op \in AllOps, NEW cmd \in {"CMD", "RNFR", "CWD"}, CallCommand(op, cmd)
  PROVE  Typed' /\ (SessionInv => SessionInv')
<1>1. Idle /\ conn.up /\ ~conn.moving /\ skew' = skew
  BY DEF CallCommand, Ready
<1>2. PICK o, j : o = Ask(conn, <<>>, "op", cmd, FALSE, FALSE) /\ j = Plain(op)
  OBVIOUS
<1>3. Call(o, j)
  BY <1>2 DEF CallCommand
<1>4. Working(conn) /\ j \in JobType /\ skew' \in {"no", "abort", "eof"}
  BY <1>1, <1>2, IdleConn, PlainJob
<1>5. /\ cmd \in Cmds /\ cmd \in OpCmds /\ cmd \notin {"END", "ABOR", "RECONNECT", "XFER", "REST", "TYPE A", "TYPE I"}
      /\ cmd \notin TransferCmds
  BY DEF Cmds, Logins, OpCmds, TransferCmds, Setups
<1>6. PICK no : no = FALSE /\ no \in BOOLEAN
  OBVIOUS
<1>7. AsksOp(o, j, cmd, no)
  BY <1>2, <1>4, <1>5, <1>6, AskPlainOk
<1>8. OutcomeOk(o, j)
  BY <1>7 DEF AsksOp
<1>9. Typed'
  BY <1>1, <1>3, <1>4, <1>8, OutcomeTyped DEF Call
<1>10. ASSUME SessionInv PROVE SessionInv'
  BY <1>1, <1>3, <1>4, <1>5, <1>6, <1>7, <1>10, OpCalled
<1> QED
  BY <1>9, <1>10

\* A transfer that begins has an outcome like the others.
LEMMA SetsUpOutcome ==
  ASSUME NEW o, NEW j, SetsUp(o, j)
  PROVE  OutcomeOk(o, j)
BY DEF SetsUp, AsksOp

\* rfc959_list_files()
LEMMA ListCalled ==
  ASSUME Typed, CallList
  PROVE  Typed' /\ (SessionInv => SessionInv')
<1>1. Idle /\ conn.up /\ ~conn.moving /\ skew' = skew
  BY DEF CallList, Ready
<1>2. PICK o, j : o = MakeData(conn, <<>>, FALSE, FALSE) /\ j = Plain("list")
  OBVIOUS
<1>3. Call(o, j)
  BY <1>2 DEF CallList
<1>4. Working(conn) /\ j \in JobType /\ j.op \in TransferOps /\ skew' \in {"no", "abort", "eof"}
  BY <1>1, <1>2, IdleConn, PlainJob DEF AllOps, TransferOps
<1>5. PICK no : no = FALSE /\ no \in BOOLEAN
  OBVIOUS
<1>6. o = MakeData(conn, <<>>, no, no)
  BY <1>2, <1>5
<1>7. SetsUp(o, j)
  BY <1>4, <1>5, <1>6, MakeDataOk
<1>8. OutcomeOk(o, j)
  BY <1>7, SetsUpOutcome
<1>9. Typed'
  BY <1>1, <1>3, <1>4, <1>8, OutcomeTyped DEF Call
<1>10. ASSUME SessionInv PROVE SessionInv'
  BY <1>1, <1>3, <1>4, <1>7, <1>10, SetupCalled
<1> QED
  BY <1>9, <1>10

\* rfc959_get_file() and rfc959_put_file()
LEMMA TransferCalled ==
  ASSUME Typed, NEW op \in {"get", "put"}, CallTransfer(op)
  PROVE  Typed' /\ (SessionInv => SessionInv')
<1>1. Idle /\ conn.up /\ ~conn.moving /\ skew' = skew
  BY DEF CallTransfer, Ready
<1>2. PICK ascii, resume \in BOOLEAN :
        LET j == Job(op, ascii, resume) IN Call(AskType(conn, j, op = "put"), j)
  BY DEF CallTransfer
<1>3. PICK pre, j : pre = (op = "put") /\ j = Job(op, ascii, resume)
  OBVIOUS
<1>4. PICK o : o = AskType(conn, j, pre)
  OBVIOUS
<1>5. Call(o, j)
  BY <1>2, <1>3, <1>4
<1>6. Working(conn) /\ j \in JobType /\ j.op \in {"get", "put"} /\ pre \in BOOLEAN /\ skew' \in {"no", "abort", "eof"}
  BY <1>1, <1>3, IdleConn DEF Job, JobType, AllOps
<1>7. SetsUp(o, j)
  BY <1>4, <1>6, AskTypeOk
<1>8. OutcomeOk(o, j)
  BY <1>7, SetsUpOutcome
<1>9. Typed'
  BY <1>1, <1>5, <1>6, <1>8, OutcomeTyped DEF Call
<1>10. ASSUME SessionInv PROVE SessionInv'
  BY <1>1, <1>5, <1>6, <1>7, <1>10, SetupCalled
<1> QED
  BY <1>9, <1>10

\* The data connection is closed.
LEMMA StoppedConn ==
  ASSUME NEW k \in ConnType, k.up
  PROVE  Working([NoData(k) EXCEPT !.moving = FALSE])
BY DEF NoData, ConnType, Working

\* rfc959_end_transfer()
LEMMA EndCalled ==
  ASSUME Typed, CallEnd
  PROVE  Typed' /\ (SessionInv => SessionInv')
<1>1. Idle /\ conn.up /\ conn.moving /\ skew' = skew
  BY DEF CallEnd
<1>2. PICK k, f, j : k = [NoData(conn) EXCEPT !.moving = FALSE] /\ f = Frame("op", "END", FALSE, FALSE) /\ j = Plain("end")
  OBVIOUS
<1>3. PICK o : o = Outcome(k, <<f>>, "nothing", "none")
  OBVIOUS
<1>4. Call(o, j)
  BY <1>2, <1>3 DEF CallEnd
<1>5. Working(k) /\ conn \in ConnType /\ job \in JobType /\ j \in JobType /\ skew' \in {"no", "abort", "eof"}
  BY <1>1, <1>2, IdleConn, PlainJob, StoppedConn DEF AllOps
<1>6. f \in FrameType /\ f.fn = "op" /\ f.cmd = "END"
  BY <1>2 DEF Frame, FrameType
<1>7. PICK s : s = <<f>>
  OBVIOUS
<1>8. s \in Seq(FrameType) /\ Len(s) = 1 /\ s[1] = f /\ s # <<>> /\ Last(s) = f
  BY <1>6, <1>7 DEF Last
<1>9. o.conn = k /\ o.calls = s /\ o.send = "nothing" /\ o.ret = "none"
  BY <1>3, <1>7 DEF Outcome
<1>10. OutcomeOk(o, j)
  <2>1. FrameFits(s, 1, j)
    <3>1. ~(1 < Len(s)) /\ f.cmd \in OpCmds /\ f.cmd \notin TransferCmds
      BY <1>6, <1>8 DEF OpCmds, TransferCmds, Setups
    <3> QED
      BY <1>6, <1>8, <3>1 DEF FrameFits
  <2>2. StackFits(s, k, j)
    <3>1. \A i \in 1..Len(s) : i = 1
      BY <1>8
    <3> QED
      BY <1>5, <1>8, <2>1, <3>1 DEF StackFits, Working
  <2> QED
    BY <1>5, <1>6, <1>8, <1>9, <2>2 DEF OutcomeOk, Working
<1>11. Typed'
  BY <1>1, <1>4, <1>5, <1>10, OutcomeTyped DEF Call
<1>12. ASSUME SessionInv PROVE SessionInv'
  <2>1. CASE Dead
    <3>1. skew' = "eof" /\ o.conn.up /\ o.send # "BANNER"
      BY <1>1, <1>5, <1>9, <2>1 DEF Dead, Working
    <3> QED
      BY <1>4, <1>10, <2>1, <3>1, CallDead
  <2>2. CASE Resting
    <3>1. skew = "no" /\ srv.login = "yes" /\ Transferring
      BY <1>1, <2>2 DEF Resting
    <3>2. calls' = s /\ conn' = k /\ srv' = srv /\ Lines' = Lines /\ toServer' = toServer
      BY <1>1, <1>4, <1>5, <1>9, <1>10, CallStays DEF Working
    <3>3. Transferring'
      BY <3>1, <3>2 DEF Transferring, Answered, Ends
    <3>4. Top'.cmd = "END" /\ Top'.fn = "op" /\ calls' # <<>> /\ conn'.up
      BY <1>5, <1>6, <1>8, <3>2 DEF Top, Working
    <3>5. InOp'
      BY <1>1, <3>1, <3>2, <3>3, <3>4 DEF InOp, OnEnd, Idle
    <3> QED
      BY <3>5 DEF SessionInv
  <2> QED
    BY <1>1, <1>12, <2>1, <2>2 DEF SessionInv, Down, InLogin, InOp
<1> QED
  BY <1>11, <1>12

\* rfc959_abort_transfer(): only in the middle of a transfer does it leave a reply too many.
LEMMA AbortCalled ==
  ASSUME Typed, CallAbort
  PROVE  Typed' /\ (SessionInv /\ skew' # "abort" => SessionInv')
<1>1. Idle /\ conn.up /\ skew' = IF conn.moving /\ skew = "no" THEN "abort" ELSE skew
  BY DEF CallAbort
<1>2. PICK k, j : k = [NoData(conn) EXCEPT !.moving = FALSE] /\ j = Plain("abort")
  OBVIOUS
<1>3. PICK o : o = Ask(k, <<>>, "op", "ABOR", FALSE, FALSE)
  OBVIOUS
<1>4. Call(o, j)
  BY <1>2, <1>3 DEF CallAbort
<1>5. Working(k) /\ conn \in ConnType /\ j \in JobType /\ skew' \in {"no", "abort", "eof"}
  BY <1>1, <1>2, IdleConn, PlainJob, StoppedConn DEF AllOps
<1>6. PICK cmd, no : cmd = "ABOR" /\ no = FALSE /\ no \in BOOLEAN
  OBVIOUS
<1>7. /\ cmd \in Cmds /\ cmd \in OpCmds /\ cmd \notin {"END", "RECONNECT", "XFER", "REST", "TYPE A", "TYPE I"}
      /\ cmd \notin TransferCmds /\ o = Ask(k, <<>>, "op", cmd, FALSE, FALSE)
  BY <1>3, <1>6 DEF Cmds, OpCmds, TransferCmds, Setups
<1>8. AsksOp(o, j, cmd, no)
  BY <1>5, <1>6, <1>7, AskPlainOk
<1>9. OutcomeOk(o, j)
  BY <1>8 DEF AsksOp
<1>10. Typed'
  BY <1>1, <1>4, <1>5, <1>9, OutcomeTyped DEF Call
<1>11. ASSUME SessionInv, skew' # "abort" PROVE SessionInv'
  <2>1. skew' = skew /\ ~(conn.moving /\ skew = "no")
    BY <1>1, <1>11
  <2>2. Dead \/ ~conn.moving
    BY <1>1, <1>11, <2>1 DEF SessionInv, Down, InLogin, InOp, Resting
  <2> QED
    BY <1>1, <1>4, <1>5, <1>6, <1>7, <1>8, <1>11, <2>1, <2>2, OpCalled
<1> QED
  BY <1>10, <1>11

\* gftp_disconnect()
LEMMA DisconnectCalled ==
  ASSUME Typed, CallDisconnect
  PROVE  Typed' /\ (SessionInv => SessionInv')
<1>1. Idle /\ conn.up /\ skew' = skew
  BY DEF CallDisconnect
<1>2. PICK k, r : k = Dropped(conn) /\ r = "none"
  OBVIOUS
<1>3. PICK o : o = Return(k, r)
  OBVIOUS
<1>4. Call(o, job)
  BY <1>2, <1>3 DEF CallDisconnect
<1>5. conn \in ConnType /\ job \in JobType /\ skew' \in {"no", "abort", "eof"}
  BY <1>1, IdleConn
<1>6. k \in ConnType /\ ~k.up /\ ~k.moving
  BY <1>2, <1>5, DroppedType
<1>7. OutcomeOk(o, job) /\ o.conn = k /\ o.ret = r
  BY <1>2, <1>3, <1>6, ReturnOk
<1>8. Drops(o)
  BY <1>2, <1>6, <1>7 DEF Drops
<1>9. Typed'
  BY <1>1, <1>4, <1>5, <1>7, OutcomeTyped DEF Call
<1>10. ASSUME SessionInv PROVE SessionInv'
  BY <1>1, <1>4, <1>7, <1>8, <1>10, IdleLines, Reopened DEF Call
<1> QED
  BY <1>9, <1>10

\* Everything the caller does
LEMMA CallerStep ==
  ASSUME Typed, Caller
  PROVE  Typed' /\ (SessionInv /\ skew' # "abort" => SessionInv')
<1>2. ASSUME CallCommand("command", "CMD") \/ CallCommand("rename", "RNFR") \/ CallCommand("chdir", "CWD")
      PROVE  Typed' /\ (SessionInv => SessionInv')
  <2>1. PICK op \in AllOps, cmd \in {"CMD", "RNFR", "CWD"} : CallCommand(op, cmd)
    BY <1>2 DEF AllOps
  <2> QED
    BY <2>1, CommandCalled
<1>3. ASSUME NEW op \in {"get", "put"}, CallTransfer(op)
      PROVE  Typed' /\ (SessionInv => SessionInv')
  BY <1>3, TransferCalled
<1> QED
  BY <1>2, <1>3, ConnectCalled, ListCalled, EndCalled, AbortCalled, DisconnectCalled DEF Caller

-----------------------------------------------------------------------------
(* The server *)

\* A line more on the network is the last of all the lines.
LEMMA AppendLine ==
  ASSUME inbox \in Seq(Replies), net \in Seq(Replies), inbox' = inbox, NEW e \in Replies, net' = Append(net, e)
  PROVE  /\ net' \in Seq(Replies) /\ Len(Lines) \in Nat /\ Len(Lines') = Len(Lines) + 1 /\ Lines'[Len(Lines) + 1] = e
         /\ \A i \in 1..Len(Lines) : Lines'[i] = Lines[i]
         /\ Polite(Lines) /\ (Farewell(e) => e.c = "42") => Polite(Lines')
<1>1. PICK t : t = Append(net, e)
  OBVIOUS
<1>2. /\ t \in Seq(Replies) /\ Len(t) = Len(net) + 1 /\ t[Len(net) + 1] = e
      /\ \A i \in 1..Len(net) : t[i] = net[i]
  BY <1>1, AppendFacts
<1>3. PICK n, m : n = Len(inbox) /\ m = Len(net) /\ n \in Nat /\ m \in Nat
  BY LinesFacts
<1>4. Lines' = inbox \o t
  BY <1>1 DEF Lines
<1>5. Len(Lines') = n + (m + 1) /\ \A i \in 1..n + (m + 1) : Lines'[i] = IF i <= n THEN inbox[i] ELSE t[i - n]
  <2>1. /\ Len(inbox \o t) = Len(inbox) + Len(t)
        /\ \A i \in 1..Len(inbox) + Len(t) : (inbox \o t)[i] = IF i <= Len(inbox) THEN inbox[i] ELSE t[i - Len(inbox)]
    BY <1>2, Joined
  <2>2. Len(inbox) = n /\ Len(t) = m + 1
    BY <1>2, <1>3
  <2> QED
    BY <1>4, <2>1, <2>2
<1>6. Len(Lines) = n + m /\ \A i \in 1..n + m : Lines[i] = IF i <= n THEN inbox[i] ELSE net[i - n]
  BY <1>3, Joined DEF Lines
<1>7. Lines'[Len(Lines) + 1] = e
  <2>1. n + m + 1 \in 1..n + (m + 1) /\ ~(n + m + 1 <= n) /\ n + m + 1 - n = m + 1
    BY <1>3
  <2> QED
    BY <1>2, <1>3, <1>5, <1>6, <2>1
<1>8. \A i \in 1..n + m : Lines'[i] = Lines[i]
  <2> TAKE i \in 1..n + m
  <2>1. i \in 1..n + (m + 1) /\ (~(i <= n) => i - n \in 1..m)
    BY <1>3
  <2> QED
    BY <1>2, <1>3, <1>5, <1>6, <2>1
<1>9. ASSUME Polite(Lines), Farewell(e) => e.c = "42"
      PROVE  Polite(Lines')
  <2>1. \A i \in 1..n + m + 1 : i = n + m + 1 \/ i \in 1..n + m
    BY SMTT(20), <1>3
  <2>2. Len(Lines') = n + m + 1
    BY <1>3, <1>5
  <2> QED
    BY <1>6, <1>7, <1>8, <1>9, <2>1, <2>2 DEF Polite
<1> QED
  BY <1>1, <1>2, <1>3, <1>5, <1>6, <1>7, <1>8, <1>9

\* What the reply c to cmd says about the server, which is then s
Effect(cmd, c, s) ==
  /\ c \in Classes /\ s \in SrvType
  /\ cmd # "XFER" => s.xfer = srv.xfer
  /\ cmd \notin {"XFER", "PASV", "PORT"} => s.data = srv.data
  /\ cmd \notin {"XFER", "REST"} => s.rest = srv.rest
  /\ cmd = "REST" /\ ~srv.rest => (s.rest <=> c = "3")
  /\ cmd \in OpCmds => s.login = srv.login
  /\ cmd = "PWD" /\ c = "2" => s.login = "yes"
  /\ cmd = "XFER" => /\ c \in {"1", "4", "5", "42"}
                     /\ c = "1" => srv.data /\ s.xfer /\ ~s.rest /\ s.offset = srv.rest
                     /\ c # "1" => s.xfer = srv.xfer
                     /\ c \in {"4", "5"} => ~s.rest

\* A reply that refuses a command
LEMMA RefusesOk ==
  ASSUME srv \in SrvType, NEW cmd, NEW a \in Refuses(cmd) \cup TooBusy
  PROVE  Effect(cmd, a.c, a.srv)
<1>1. /\ Settled \in SrvType /\ Settled.open = srv.open /\ Settled.login = srv.login /\ Settled.data = srv.data
      /\ Settled.rest = srv.rest /\ Settled.xfer = srv.xfer
  BY DEF Settled, SrvType
<1>2. CASE a \in TooBusy
  <2>1. a = [c |-> "42", srv |-> [srv EXCEPT !.open = FALSE]]
    BY <1>2 DEF TooBusy, Answer
  <2> QED
    BY <2>1 DEF Effect, SrvType, Classes
<1>3. CASE a \in Refuses(cmd) /\ cmd = "XFER"
  <2>1. PICK c \in {"4", "5"}, d \in {FALSE, srv.data} : a = Answer(c, [Settled EXCEPT !.rest = FALSE, !.data = d])
    BY <1>3 DEF Refuses
  <2>2. PICK s : s = [Settled EXCEPT !.rest = FALSE, !.data = d]
    OBVIOUS
  <2>3. s \in SrvType /\ s.rest = FALSE /\ s.xfer = srv.xfer /\ s.login = srv.login
    BY <1>1, <2>2 DEF SrvType
  <2>4. a.c = c /\ a.srv = s /\ c \in Classes
    BY <2>1, <2>2 DEF Answer, Classes
  <2> QED
    BY <1>3, <2>3, <2>4 DEF Effect
<1>4. CASE a \in Refuses(cmd) /\ cmd # "XFER"
  <2>1. a = [c |-> "5", srv |-> Settled]
    BY <1>4 DEF Refuses, Answer
  <2> QED
    BY <1>1, <1>4, <2>1 DEF Effect, Classes
<1> QED
  BY <1>2, <1>3, <1>4

\* A reply that accepts one
LEMMA AcceptsOk ==
  ASSUME srv \in SrvType, NEW cmd, NEW a \in Accepts(cmd)
  PROVE  Effect(cmd, a.c, a.srv)
<1>0. PICK s : s = Settled
  OBVIOUS
<1>1. /\ s \in SrvType /\ s.open = srv.open /\ s.login = srv.login /\ s.data = srv.data
      /\ s.rest = srv.rest /\ s.xfer = srv.xfer
  BY <1>0 DEF Settled, SrvType
<1>2. CASE cmd \in {"BANNER", "SYST", "TYPE A", "TYPE I"}
  <2>1. a = [c |-> "2", srv |-> s]
    BY <1>0, <1>2 DEF Accepts, Answer
  <2> QED
    BY <1>1, <1>2, <2>1 DEF Effect, Classes
<1>3. CASE cmd \in {"USER", "ACCT"} \/ (cmd = "PASS" /\ srv.login = "user")
  <2>1. PICK c \in {"2", "3"}, l \in {"user", "account", "yes"} : a = [c |-> c, srv |-> [s EXCEPT !.login = l]]
    BY <1>0, <1>3 DEF Accepts, Answer
  <2>2. cmd \notin OpCmds /\ cmd \notin {"XFER", "REST", "PWD"}
    BY <1>3 DEF OpCmds, TransferCmds, Setups
  <2> QED
    BY <1>1, <2>1, <2>2 DEF Effect, SrvType, Classes
<1>4. CASE cmd \in {"CWD", "PWD", "CMD"} \/ (cmd = "PASS" /\ srv.login # "user")
  <2>1. a = [c |-> "2", srv |-> s] /\ srv.login = "yes"
    BY <1>0, <1>4 DEF Accepts, Answer
  <2> QED
    BY <1>1, <1>4, <2>1 DEF Effect, Classes
<1>5. CASE cmd \in {"PASV", "PORT"}
  <2>1. a = [c |-> "2", srv |-> [s EXCEPT !.data = TRUE]]
    BY <1>0, <1>5 DEF Accepts, Answer
  <2> QED
    BY <1>1, <1>5, <2>1 DEF Effect, SrvType, Classes
<1>6. CASE cmd = "REST"
  <2>1. a = [c |-> "3", srv |-> [s EXCEPT !.rest = TRUE]]
    BY <1>0, <1>6 DEF Accepts, Answer
  <2> QED
    BY <1>1, <1>6, <2>1 DEF Effect, SrvType, Classes
<1>7. CASE cmd = "RNFR"
  <2>1. a = [c |-> "3", srv |-> [s EXCEPT !.from = TRUE]]
    BY <1>0, <1>7 DEF Accepts, Answer
  <2> QED
    BY <1>1, <1>7, <2>1 DEF Effect, SrvType, Classes
<1>8. CASE cmd = "RNTO"
  <2>1. a = [c |-> "2", srv |-> s]
    BY <1>0, <1>8 DEF Accepts, Answer
  <2> QED
    BY <1>1, <1>8, <2>1 DEF Effect, Classes
<1>9. CASE cmd = "XFER" /\ srv.data
  <2>1. PICK t : t = [s EXCEPT !.data = FALSE, !.rest = FALSE, !.xfer = TRUE, !.offset = srv.rest]
    OBVIOUS
  <2>2. a = [c |-> "1", srv |-> t]
    BY <1>0, <1>9, <2>1 DEF Accepts, Answer
  <2>3. srv.rest \in BOOLEAN
    BY DEF SrvType
  <2>4. t \in SrvType /\ t.xfer = TRUE /\ t.rest = FALSE /\ t.offset = srv.rest /\ t.login = s.login
    BY <1>1, <2>1, <2>3 DEF SrvType
  <2>5. cmd \notin {"REST", "PWD", "PASV", "PORT"} /\ a.c = "1" /\ a.srv = t
    BY <1>9, <2>2
  <2> QED
    BY <1>1, <1>9, <2>4, <2>5 DEF Effect, Classes
<1>10. CASE cmd = "XFER" /\ ~srv.data
  <2>1. a = [c |-> "42", srv |-> s]
    BY <1>0, <1>10 DEF Accepts, Answer
  <2> QED
    BY <1>1, <1>10, <2>1 DEF Effect, Classes
<1>11. CASE cmd \notin {"BANNER", "SYST", "TYPE A", "TYPE I", "USER", "PASS", "ACCT", "CWD", "PWD", "CMD",
                        "PASV", "PORT", "REST", "RNFR", "RNTO", "XFER"}
  BY <1>11 DEF Accepts
<1> QED
  BY <1>2, <1>3, <1>4, <1>5, <1>6, <1>7, <1>8, <1>9, <1>10, <1>11

\* The reply r to the oldest command
Served(cmd, r) ==
  /\ cmd \in Cmds /\ toServer # <<>> /\ cmd = Head(toServer) /\ srv.open
  /\ r \in Replies /\ r.cmd = cmd /\ (r.mine <=> Len(toServer) = 1)
  /\ net' = Append(net, r) /\ Effect(cmd, r.c, srv')
  /\ toServer' = IF srv'.open THEN Tail(toServer) ELSE <<>>
Untouched == calls' = calls /\ conn' = conn /\ job' = job /\ ret' = ret /\ skew' = skew /\ inbox' = inbox

\* A server that answers: one reply to one command, but for ABOR in a transfer
LEMMA ServeIs ==
  ASSUME Typed, Serve
  PROVE  /\ Untouched
         /\ (Head(toServer) = "ABOR" /\ srv.xfer) \/ \E cmd, r : Served(cmd, r)
<1>1. Untouched
  BY DEF Serve, Untouched
<1>2. srv \in SrvType /\ toServer \in Seq(Cmds) /\ toServer # <<>> /\ srv.open
  BY DEF Typed, TypeOK, SrvType, Serve
<1>3. PICK cmd : cmd = Head(toServer)
  OBVIOUS
<1>4. cmd \in Cmds
  BY <1>2, <1>3
<1>5. toServer' = IF srv'.open THEN Tail(toServer) ELSE <<>>
  BY DEF Serve, Heard
<1>6. PICK mine \in BOOLEAN : mine = (Len(toServer) = 1)
  OBVIOUS
<1>7. CASE cmd # "ABOR"
  <2>1. PICK a \in Accepts(cmd) \cup Refuses(cmd) \cup TooBusy :
          net' = Append(net, [cmd |-> cmd, c |-> a.c, mine |-> mine]) /\ srv' = a.srv
    BY <1>3, <1>6, <1>7 DEF Serve
  <2>2. Effect(cmd, a.c, a.srv)
    BY <1>2, AcceptsOk, RefusesOk
  <2>3. PICK r : r = [cmd |-> cmd, c |-> a.c, mine |-> mine]
    OBVIOUS
  <2>4. r \in Replies /\ r.cmd = cmd /\ r.c = a.c /\ r.mine = mine
    BY <1>4, <2>2, <2>3 DEF Replies, Effect
  <2>5. Served(cmd, r)
    BY <1>2, <1>3, <1>4, <1>5, <1>6, <2>1, <2>2, <2>3, <2>4 DEF Served
  <2> QED
    BY <1>1, <2>5
<1>8. CASE cmd = "ABOR" /\ ~srv.xfer
  <2>1. net' = Append(net, [cmd |-> cmd, c |-> "2", mine |-> mine]) /\ srv' = srv
    BY <1>3, <1>6, <1>8 DEF Serve
  <2>2. Effect(cmd, "2", srv')
    BY <1>2, <1>8, <2>1 DEF Effect, Classes
  <2>3. PICK r : r = [cmd |-> cmd, c |-> "2", mine |-> mine]
    OBVIOUS
  <2>4. r \in Replies /\ r.cmd = cmd /\ r.c = "2" /\ r.mine = mine
    BY <1>4, <2>2, <2>3 DEF Replies, Effect
  <2>5. Served(cmd, r)
    BY <1>2, <1>3, <1>4, <1>5, <1>6, <2>1, <2>2, <2>3, <2>4 DEF Served
  <2> QED
    BY <1>1, <2>5
<1> QED
  BY <1>1, <1>3, <1>7, <1>8

\* Where the reply r to cmd leaves the lines and the commands
LEMMA ServedFacts ==
  ASSUME Typed, Untouched, NEW cmd, NEW r, Served(cmd, r)
  PROVE  /\ Len(Lines) \in Nat /\ Len(Lines') = Len(Lines) + 1 /\ Lines'[Len(Lines) + 1] = r
         /\ \A i \in 1..Len(Lines) : Lines'[i] = Lines[i]
         /\ r.cmd = cmd /\ ~Farewell(r) /\ Effect(cmd, r.c, srv') /\ srv.open /\ toServer # <<>> /\ srv' \in SrvType
         /\ inbox' = inbox /\ Top' = Top /\ calls' = calls /\ conn' = conn /\ job' = job /\ skew' = skew
         /\ ~srv'.open => toServer' = <<>>
         /\ Polite(Lines')
<1>1. inbox \in Seq(Replies) /\ net \in Seq(Replies) /\ inbox' = inbox /\ r \in Replies /\ net' = Append(net, r)
  BY DEF Typed, TypeOK, Untouched, Served
<1>2. r.cmd = cmd /\ cmd \in Cmds
  BY DEF Served
<1>3. ~Farewell(r)
  BY <1>2 DEF Farewell, Cmds, Logins, Setups
<1>4. Polite(Lines)
  BY DEF Typed, WireInv
<1>5. /\ Len(Lines) \in Nat /\ Len(Lines') = Len(Lines) + 1 /\ Lines'[Len(Lines) + 1] = r
      /\ \A i \in 1..Len(Lines) : Lines'[i] = Lines[i]
      /\ Polite(Lines')
  BY <1>1, <1>3, <1>4, AppendLine
<1> QED
  BY <1>1, <1>2, <1>3, <1>5 DEF Served, Untouched, Top, Effect

\* One command on its way
LEMMA OneCommand ==
  ASSUME NEW a
  PROVE  Head(<<a>>) = a /\ Tail(<<a>>) = <<>> /\ Len(<<a>>) = 1
OBVIOUS

\* The only command on its way is answered.
LEMMA ServedLast ==
  ASSUME Typed, Untouched, NEW cmd, NEW r, Served(cmd, r), NEW last, Sent(last)
  PROVE  cmd = last /\ Answered(last)' /\ Len(Lines') = 1 /\ Lines'[1] = r /\ r.mine /\ toServer' = <<>>
<1>1. toServer = <<last>> /\ Len(Lines) = 0
  BY DEF Sent
<1>2. cmd = last /\ (r.mine <=> TRUE) /\ toServer' = <<>>
  <2>1. cmd = Head(toServer) /\ (r.mine <=> Len(toServer) = 1) /\ toServer' = IF srv'.open THEN Tail(toServer) ELSE <<>>
    BY DEF Served
  <2> QED
    BY <1>1, <2>1, OneCommand
<1>3. Len(Lines') = 1 /\ Lines'[1] = r /\ r.cmd = cmd
  BY <1>1, ServedFacts
<1> QED
  BY <1>2, <1>3 DEF Answered, Ends

\* A command of a login is answered.
LEMMA ServeLogin ==
  ASSUME Typed, Untouched, NEW cmd, NEW r, Served(cmd, r), InLogin
  PROVE  InLogin'
<1>1. /\ Len(Lines) \in Nat /\ Len(Lines') = Len(Lines) + 1 /\ Lines'[Len(Lines) + 1] = r
      /\ \A i \in 1..Len(Lines) : Lines'[i] = Lines[i]
      /\ r.cmd = cmd /\ Effect(cmd, r.c, srv') /\ srv.open /\ toServer # <<>>
      /\ inbox' = inbox /\ Top' = Top /\ calls' = calls /\ conn' = conn
      /\ ~srv'.open => toServer' = <<>>
  BY ServedFacts
<1>2. conn.up /\ calls # <<>> /\ Top.fn = "connect" /\ conn'.up /\ calls' # <<>> /\ Top'.fn = "connect"
  BY <1>1 DEF InLogin, Idle
<1>3. Top.cmd \in LoginCmds
  <2>1. FrameFits(calls, Len(calls), job) /\ Top = calls[Len(calls)]
    BY <1>2, CallsBelow DEF Typed
  <2> QED
    BY <1>2, <2>1 DEF FrameFits
<1>4. CASE Doomed
  <2>1. Doomed'
    BY <1>1, <1>4 DEF Doomed
  <2> QED
    BY <1>2, <2>1 DEF InLogin, Idle
<1>5. ASSUME LoggingIn, cmd \in LoginCmds
      PROVE  ~srv'.xfer /\ ~srv'.data /\ ~srv'.rest
  BY <1>1, <1>5 DEF LoggingIn, Effect, LoginCmds, Logins
<1>6. CASE LoggingIn /\ Sent(Top.cmd)
  <2>1. cmd = Top.cmd /\ Answered(Top.cmd)' /\ Lines'[1] = r
    BY <1>1, <1>6, ServedLast
  <2>2. Top'.cmd = "PWD" /\ Lines'[1].c = "2" => srv'.login = "yes"
    BY <1>1, <2>1 DEF Effect
  <2> QED
    BY <1>2, <1>3, <1>5, <1>6, <2>1, <2>2 DEF InLogin, LoggingIn, Idle
<1>7. CASE /\ LoggingIn /\ Len(Lines) = 0 /\ Len(toServer) = 2
           /\ toServer[1] \in LoginCmds \ {"PWD"} /\ toServer[2] = Top.cmd
  <2>1. PICK t : t = Tail(toServer)
    OBVIOUS
  <2>2. toServer \in Seq(Cmds)
    BY DEF Typed, TypeOK
  <2>3. Head(toServer) = toServer[1] /\ t \in Seq(Cmds) /\ Len(t) = 1 /\ t[1] = Top.cmd
    <3>1. /\ Head(toServer) = toServer[1] /\ t \in Seq(Cmds) /\ Len(t) = Len(toServer) - 1
          /\ \A i \in 1..Len(toServer) - 1 : t[i] = toServer[i + 1]
      <4>1. Len(toServer) >= 1
        BY <1>7
      <4> QED
        BY <2>1, <2>2, <4>1, TailFacts
    <3>2. 1 \in 1..Len(toServer) - 1 /\ 1 + 1 = 2
      BY <1>7
    <3> QED
      BY <1>7, <3>1, <3>2
  <2>4. t = <<Top.cmd>>
    BY <2>3
  <2>5. cmd = toServer[1] /\ toServer' = IF srv'.open THEN <<Top.cmd>> ELSE <<>>
    BY <2>1, <2>3, <2>4 DEF Served
  <2>6. Len(Lines') = 1 /\ Lines'[1].cmd # "PWD"
    BY <1>1, <1>7, <2>5
  <2>7. Behind'
    <3>1. CASE srv'.open
      BY <1>1, <2>5, <2>6, <3>1 DEF Behind, OldFirst
    <3>2. CASE ~srv'.open
      <4>1. Ends(2)' /\ Len(Lines') >= 1
        BY <2>6 DEF Ends
      <4>2. OldFirst'
        BY <2>6 DEF OldFirst
      <4> QED
        BY <2>5, <3>2, <4>1, <4>2 DEF Behind
    <3> QED
      BY <3>1, <3>2
  <2>8. ~srv'.xfer /\ ~srv'.data /\ ~srv'.rest
    BY <1>5, <1>7, <2>5
  <2> QED
    BY <1>2, <2>7, <2>8 DEF InLogin, LoggingIn, Idle
<1>8. CASE LoggingIn /\ toServer = <<Top.cmd>> /\ Len(Lines) = 1 /\ OldFirst
  <2>1. cmd = Top.cmd /\ toServer' = <<>>
    BY <1>1, <1>8, OneCommand DEF Served
  <2>2. Len(Lines') = 2 /\ Lines'[1] = Lines[1] /\ Lines'[2] = r
    <3>1. 1 \in 1..Len(Lines) /\ 1 + 1 = 2
      BY <1>8
    <3> QED
      BY <1>1, <1>8, <3>1
  <2>3. OldFirst' /\ NewSecond'
    BY <1>1, <1>8, <2>1, <2>2 DEF OldFirst, NewSecond
  <2>4. Behind'
    BY <2>1, <2>2, <2>3 DEF Behind, Ends
  <2>5. ~srv'.xfer /\ ~srv'.data /\ ~srv'.rest
    BY <1>3, <1>5, <1>8, <2>1
  <2> QED
    BY <1>2, <2>4, <2>5 DEF InLogin, LoggingIn, Idle
<1> QED
  BY <1>1, <1>4, <1>6, <1>7, <1>8 DEF InLogin, LoggingIn, Unheard, Answered, Behind

\* A command of an operation is answered.
LEMMA ServeOp ==
  ASSUME Typed, Untouched, NEW cmd, NEW r, Served(cmd, r), InOp
  PROVE  InOp'
<1>1. /\ r.cmd = cmd /\ Effect(cmd, r.c, srv') /\ srv.open /\ toServer # <<>> /\ srv' \in SrvType
      /\ Top' = Top /\ calls' = calls /\ conn' = conn /\ job' = job /\ skew' = skew
  BY ServedFacts
<1>2. conn.up /\ calls # <<>> /\ Top.fn = "op" /\ skew = "no" /\ srv.login = "yes"
  BY DEF InOp, Idle
<1>3. Top.cmd \in OpCmds
  <2>1. FrameFits(calls, Len(calls), job) /\ Top = calls[Len(calls)]
    BY <1>2, CallsBelow DEF Typed
  <2> QED
    BY <1>2, <2>1 DEF FrameFits
<1>4. srv \in SrvType
  BY DEF Typed, TypeOK, SrvType
<1>5. CASE OnRest
  <2>1. Sent("REST") /\ ~srv.rest /\ ~srv.xfer /\ Top.cmd = "REST"
    BY <1>1, <1>5 DEF OnRest, Unheard, Answered
  <2>2. PICK last : last = "REST"
    OBVIOUS
  <2>3. cmd = last /\ Answered(last)' /\ Lines'[1] = r
    BY <2>1, <2>2, ServedLast
  <2>4. (srv'.rest <=> r.c = "3") /\ ~srv'.xfer /\ srv'.login = "yes"
    BY <1>1, <1>2, <1>3, <2>1, <2>2, <2>3 DEF Effect
  <2>5. OnRest'
    BY <1>1, <2>1, <2>2, <2>3, <2>4 DEF OnRest
  <2> QED
    BY <1>1, <1>2, <2>4, <2>5 DEF InOp, Idle
<1>6. CASE OnXfer
  <2>1. /\ Sent("XFER") /\ ~srv.xfer /\ (Top.again => ~srv.data) /\ (~Top.again => srv.rest = Resumes)
        /\ Top.cmd = "XFER"
    BY <1>1, <1>6 DEF OnXfer, Unheard, Answered, Started
  <2>2. PICK last : last = "XFER"
    OBVIOUS
  <2>3. cmd = last /\ Answered(last)' /\ Len(Lines') = 1 /\ Lines'[1] = r /\ r.mine /\ toServer' = <<>>
    BY <2>1, <2>2, ServedLast
  <2>4. /\ srv'.login = "yes" /\ r.c \in {"1", "4", "5", "42"}
        /\ r.c = "1" => srv.data /\ srv'.xfer /\ ~srv'.rest /\ srv'.offset = srv.rest
        /\ r.c # "1" => ~srv'.xfer
        /\ r.c \in {"4", "5"} => ~srv'.rest
    BY <1>1, <1>2, <1>3, <2>1, <2>2, <2>3 DEF Effect
  <2>5. CASE r.c = "1"
    <3>1. srv'.offset = Resumes
      BY <2>1, <2>4, <2>5
    <3>2. Offset'
      BY <1>1, <3>1 DEF Offset, Resumes, Typed, TypeOK
    <3>3. Started'
      BY <1>1, <2>2, <2>3, <2>4, <2>5, <3>2 DEF Started
    <3>4. OnXfer'
      BY <1>1, <2>1, <3>3 DEF OnXfer
    <3> QED
      BY <1>1, <1>2, <2>4, <3>4 DEF InOp, Idle
  <2>6. CASE r.c # "1"
    <3>1. OnXfer'
      BY <1>1, <2>1, <2>2, <2>3, <2>4, <2>6 DEF OnXfer
    <3> QED
      BY <1>1, <1>2, <2>4, <3>1 DEF InOp, Idle
  <2> QED
    BY <2>5, <2>6
<1>7. CASE OnOther
  <2>1. Sent(Top.cmd) /\ ~srv.rest /\ ~srv.xfer /\ Top.cmd \notin {"REST", "XFER", "END"}
    BY <1>1, <1>7 DEF OnOther, Unheard, Answered
  <2>2. PICK last : last = Top.cmd
    OBVIOUS
  <2>3. cmd = last /\ Answered(last)'
    BY <2>1, <2>2, ServedLast
  <2>4. ~srv'.rest /\ ~srv'.xfer /\ srv'.login = "yes"
    BY <1>1, <1>2, <1>3, <2>1, <2>2, <2>3 DEF Effect
  <2>5. OnOther'
    BY <1>1, <2>1, <2>2, <2>3, <2>4 DEF OnOther
  <2> QED
    BY <1>1, <1>2, <2>4, <2>5 DEF InOp, Idle
<1> QED
  BY <1>1, <1>5, <1>6, <1>7 DEF InOp, OnEnd, Transferring

\* Every answer keeps the session invariant.
LEMMA ServeSession ==
  ASSUME Typed, SessionInv, Serve
  PROVE  SessionInv'
<1>1. Untouched /\ ((Head(toServer) = "ABOR" /\ srv.xfer) \/ \E cmd, r : Served(cmd, r))
  BY ServeIs
<1>2. srv.open /\ toServer # <<>>
  BY DEF Serve
<1>3. ~Down /\ ~Dead /\ ~Resting
  <2>1. ~Down
    BY <1>2 DEF Down, Typed, WireInv, NoServer, FreshServer
  <2> QED
    BY <1>2, <2>1 DEF Dead, Resting, Rested, Transferring
<1>4. CASE \E cmd, r : Served(cmd, r)
  BY <1>1, <1>3, <1>4, ServeLogin, ServeOp DEF SessionInv
<1>5. CASE Head(toServer) = "ABOR" /\ srv.xfer
  <2>1. CASE InLogin
    <3>1. Doomed
      BY <1>5, <2>1 DEF InLogin, LoggingIn
    <3>2. Doomed' /\ conn'.up /\ calls' # <<>> /\ Top'.fn = "connect"
      BY <1>1, <2>1, <3>1 DEF Doomed, InLogin, Untouched, Top, Idle
    <3> QED
      BY <3>2 DEF SessionInv, InLogin, Idle
  <2>2. CASE InOp
    BY <1>2, <1>5, <2>2 DEF InOp, OnRest, OnXfer, OnOther, OnEnd, Started, Unheard, Answered, Sent, Transferring
  <2> QED
    BY <1>3, <2>1, <2>2 DEF SessionInv
<1> QED
  BY <1>1, <1>4, <1>5

\* A transfer that ends: its last reply comes after what is there.
LEMMA CompleteSession ==
  ASSUME Typed, SessionInv, Complete
  PROVE  SessionInv'
<1>1. /\ srv.open /\ srv.xfer /\ toServer = <<>> /\ srv' = [srv EXCEPT !.xfer = FALSE] /\ toServer' = toServer
      /\ calls' = calls /\ conn' = conn /\ job' = job /\ skew' = skew /\ inbox' = inbox /\ Top' = Top
  BY DEF Complete, Top
<1>2. PICK c \in {"2", "4"} : net' = Append(net, [cmd |-> "XFER", c |-> c, mine |-> TRUE])
  BY DEF Complete
<1>3. PICK e : e = [cmd |-> "XFER", c |-> c, mine |-> TRUE]
  OBVIOUS
<1>4. e \in Replies /\ e.cmd = "XFER" /\ e.c \in {"2", "4"} /\ e.mine
  BY <1>3 DEF Replies, Cmds, Classes
<1>5. inbox \in Seq(Replies) /\ net \in Seq(Replies) /\ srv \in SrvType
  BY DEF Typed, TypeOK, SrvType
<1>6. /\ Len(Lines) \in Nat /\ Len(Lines') = Len(Lines) + 1 /\ Lines'[Len(Lines) + 1] = e
      /\ \A i \in 1..Len(Lines) : Lines'[i] = Lines[i]
  BY <1>1, <1>2, <1>3, <1>4, <1>5, AppendLine
<1>7. /\ ~srv'.xfer /\ srv'.open /\ srv'.rest = srv.rest /\ srv'.login = srv.login /\ srv'.offset = srv.offset
  BY <1>1, <1>5 DEF SrvType
<1>8. ASSUME Transferring PROVE Transferring'
  <2>1. Len(Lines) = 0 /\ ~srv.rest
    BY <1>1, <1>8 DEF Transferring
  <2>2. Len(Lines') = 1 /\ Lines'[1] = e
    BY <1>6, <2>1
  <2>3. Answered("XFER")'
    BY <1>1, <1>4, <2>2 DEF Answered, Ends
  <2> QED
    BY <1>1, <1>4, <1>7, <2>1, <2>2, <2>3 DEF Transferring
<1>9. CASE InLogin
  <2>1. Doomed
    BY <1>1, <1>9 DEF InLogin, LoggingIn
  <2>2. Doomed'
    BY <1>1, <2>1 DEF Doomed
  <2> QED
    BY <1>1, <1>9, <2>2 DEF SessionInv, InLogin, Idle
<1>10. CASE InOp /\ OnXfer
  <2>1. Started /\ Top.cmd = "XFER"
    BY <1>1, <1>10 DEF OnXfer, Unheard
  <2>2. Len(Lines) = 1
    BY <1>1, <2>1 DEF Started
  <2>3. Len(Lines') = 2 /\ Lines'[1] = Lines[1] /\ Lines'[2] = e
    <3>1. 1 \in 1..Len(Lines) /\ 1 + 1 = 2
      BY <2>2
    <3> QED
      BY <1>6, <2>2, <3>1
  <2>4. Ends(3)'
    BY <2>3 DEF Ends
  <2>5. Offset'
    BY <1>1, <1>7, <2>1 DEF Started, Offset
  <2>6. Started'
    BY <1>1, <1>4, <1>7, <2>1, <2>3, <2>4, <2>5 DEF Started
  <2>7. OnXfer'
    BY <1>1, <2>1, <2>6 DEF OnXfer
  <2> QED
    BY <1>1, <1>7, <1>10, <2>7 DEF SessionInv, InOp, Idle
<1>11. CASE InOp /\ OnEnd
  <2>1. OnEnd'
    BY <1>1, <1>8, <1>11 DEF OnEnd
  <2> QED
    BY <1>1, <1>7, <1>11, <2>1 DEF SessionInv, InOp, Idle
<1>12. CASE Resting
  <2>1. conn.moving /\ Transferring /\ Offset
    BY <1>1, <1>12 DEF Resting, Rested
  <2>2. Offset'
    BY <1>1, <1>7, <2>1 DEF Offset
  <2> QED
    BY <1>1, <1>7, <1>8, <1>12, <2>1, <2>2 DEF SessionInv, Resting, Idle
<1>13. ~Down /\ ~Dead
  <2>1. ~Down
    BY <1>1 DEF Down, Typed, WireInv, NoServer, FreshServer
  <2> QED
    BY <1>1, <2>1 DEF Dead
<1> QED
  BY <1>1, <1>9, <1>10, <1>11, <1>12, <1>13 DEF SessionInv, InOp, OnRest, OnOther

\* The server closes, with or without a farewell.
LEMMA CloseLines ==
  ASSUME Typed, Close
  PROVE  /\ srv.open /\ conn.up /\ ~srv'.open /\ toServer' = <<>> /\ srv' = [srv EXCEPT !.open = FALSE] /\ srv' \in SrvType
         /\ calls' = calls /\ conn' = conn /\ job' = job /\ skew' = skew /\ inbox' = inbox /\ ret' = ret /\ Top' = Top
         /\ net' \in Seq(Replies) /\ Polite(Lines') /\ Len(Lines) \in Nat
         /\ \A i \in 1..Len(Lines) : Lines'[i] = Lines[i]
         /\ \/ Len(Lines') = Len(Lines) /\ Lines' = Lines
            \/ ~srv.xfer /\ Len(Lines') = Len(Lines) + 1 /\ Farewell(Lines'[Len(Lines) + 1])
<1>1. /\ srv.open /\ conn.up /\ toServer' = <<>> /\ srv' = [srv EXCEPT !.open = FALSE]
      /\ calls' = calls /\ conn' = conn /\ job' = job /\ skew' = skew /\ inbox' = inbox /\ ret' = ret /\ Top' = Top
  BY DEF Close, Top
<1>2. inbox \in Seq(Replies) /\ net \in Seq(Replies) /\ srv \in SrvType /\ Polite(Lines)
  BY DEF Typed, TypeOK, SrvType, WireInv
<1>3. ~srv'.open /\ srv' \in SrvType
  BY <1>1, <1>2 DEF SrvType
<1>4. PICK e : e = [cmd |-> "IDLE", c |-> "42", mine |-> FALSE]
  OBVIOUS
<1>5. e \in Replies /\ Farewell(e) /\ e.c = "42"
  BY <1>4 DEF Replies, Classes, Farewell
<1>6. CASE ~srv.xfer /\ net' = Append(net, e)
  <2>1. /\ net' \in Seq(Replies) /\ Len(Lines) \in Nat /\ Len(Lines') = Len(Lines) + 1 /\ Lines'[Len(Lines) + 1] = e
        /\ \A i \in 1..Len(Lines) : Lines'[i] = Lines[i]
        /\ Polite(Lines')
    BY <1>1, <1>2, <1>5, <1>6, AppendLine
  <2> QED
    BY <1>1, <1>3, <1>5, <1>6, <2>1
<1>7. CASE net' = net
  <2>1. Lines' = Lines /\ Len(Lines) \in Nat
    BY <1>1, <1>2, <1>7, LinesFacts DEF Lines
  <2> QED
    BY <1>1, <1>2, <1>3, <1>7, <2>1
<1>8. (~srv.xfer /\ net' = Append(net, e)) \/ net' = net
  BY <1>4 DEF Close
<1> QED
  BY <1>6, <1>7, <1>8

\* The farewell of a server is its last line.
LEMMA CloseEnds ==
  ASSUME Typed, Close
  PROVE  /\ Ends(1) => Ends(1)'
         /\ Ends(2) => Ends(2)'
         /\ Ends(3) => Ends(3)'
         /\ Len(Lines) <= 1 => Ends(2)'
         /\ Len(Lines) <= 2 => Ends(3)'
<1>1. PICK n : n = Len(Lines) /\ n \in Nat
  BY CloseLines
<1>2. ~srv'.open /\ srv.open
  BY CloseLines
<1>3. PICK m : m = Len(Lines')
  OBVIOUS
<1>4. m = n \/ (m = n + 1 /\ Farewell(Lines'[n + 1]))
  BY <1>1, <1>3, CloseLines
<1>5. m \in Nat /\ n + 1 \in Nat
  BY <1>1, <1>4
<1>6. /\ Ends(1) => n <= 1 /\ n # 1
      /\ Ends(2) => n <= 2 /\ n # 2
      /\ Ends(3) => n <= 3 /\ n # 3
  BY <1>1, <1>2 DEF Ends
<1>7. /\ Ends(1)' <=> m <= 1 /\ (m = 1 => Farewell(Lines'[1]) /\ ~srv'.open)
      /\ Ends(2)' <=> m <= 2 /\ (m = 2 => Farewell(Lines'[2]) /\ ~srv'.open)
      /\ Ends(3)' <=> m <= 3 /\ (m = 3 => Farewell(Lines'[3]) /\ ~srv'.open)
  BY <1>3 DEF Ends
<1>8. /\ n + 1 = 1 => Farewell(Lines'[n + 1]) = Farewell(Lines'[1])
      /\ n + 1 = 2 => Farewell(Lines'[n + 1]) = Farewell(Lines'[2])
      /\ n + 1 = 3 => Farewell(Lines'[n + 1]) = Farewell(Lines'[3])
  OBVIOUS
<1>9. /\ n <= 1 /\ n # 1 => n = 0
      /\ n <= 2 /\ n # 2 => n = 0 \/ n = 1
      /\ n <= 3 /\ n # 3 => n = 0 \/ n = 1 \/ n = 2
      /\ n <= 1 => n = 0 \/ n = 1
      /\ n <= 2 => n = 0 \/ n = 1 \/ n = 2
  BY <1>1
<1>10. CASE n = 0
  <2>1. m = 0 \/ (m = 1 /\ n + 1 = 1 /\ Farewell(Lines'[n + 1]))
    BY <1>4, <1>10
  <2>2. m = 0 \/ (m = 1 /\ Farewell(Lines'[1]))
    BY <1>8, <2>1
  <2> QED
    BY <1>2, <1>7, <2>2
<1>11. CASE n = 1
  <2>1. m = 1 \/ (m = 2 /\ n + 1 = 2 /\ Farewell(Lines'[n + 1]))
    BY <1>4, <1>11
  <2>2. m = 1 \/ (m = 2 /\ Farewell(Lines'[2]))
    BY <1>8, <2>1
  <2>3. Ends(2)' /\ Ends(3)'
    BY <1>2, <1>7, <2>2
  <2>4. ~Ends(1)
    BY <1>6, <1>11
  <2> QED
    BY <2>3, <2>4
<1>12. CASE n = 2
  <2>1. m = 2 \/ (m = 3 /\ n + 1 = 3 /\ Farewell(Lines'[n + 1]))
    BY <1>4, <1>12
  <2>2. m = 2 \/ (m = 3 /\ Farewell(Lines'[3]))
    BY <1>8, <2>1
  <2>3. Ends(3)'
    BY <1>2, <1>7, <2>2
  <2>4. ~Ends(1) /\ ~Ends(2)
    BY <1>6, <1>12
  <2>5. ~(Len(Lines) <= 1)
    BY <1>1, <1>12
  <2> QED
    BY <2>3, <2>4, <2>5
<1>13. CASE n \notin {0, 1, 2}
  <2>1. ~Ends(1) /\ ~Ends(2) /\ ~Ends(3)
    BY <1>6, <1>9, <1>13
  <2>2. ~(Len(Lines) <= 1) /\ ~(Len(Lines) <= 2)
    BY <1>1, <1>9, <1>13
  <2> QED
    BY <2>1, <2>2
<1> QED
  BY <1>10, <1>11, <1>12, <1>13

\* An answer that is there is still read.
LEMMA CloseAnswered ==
  ASSUME Typed, Close, NEW cmd, Answered(cmd)
  PROVE  Answered(cmd)' /\ Lines'[1] = Lines[1]
<1>1. 1 \in 1..Len(Lines) /\ Len(Lines') >= 1
  BY CloseLines DEF Answered
<1>2. Lines'[1] = Lines[1]
  BY <1>1, CloseLines
<1>3. Ends(2)' /\ toServer' = <<>>
  BY CloseLines, CloseEnds DEF Answered
<1> QED
  BY <1>1, <1>2, <1>3 DEF Answered

\* A command that was not answered never will be.
LEMMA CloseSent ==
  ASSUME Typed, Close
  PROVE  /\ ~Unheard
         /\ \A cmd : Sent(cmd) => Unheard'
         /\ Len(Lines) = 0 => Unheard'
<1>1. srv.open /\ ~srv'.open /\ toServer' = <<>>
  BY CloseLines
<1>2. ASSUME Len(Lines) = 0 PROVE Ends(1)'
  <2>1. Ends(1)
    BY <1>2 DEF Ends
  <2> QED
    BY <2>1, CloseEnds
<1> QED
  BY <1>1, <1>2 DEF Unheard, Sent

\* A login that is one answer behind stays so, or hears no more.
LEMMA CloseBehind ==
  ASSUME Typed, Close, Behind
  PROVE  Unheard' \/ Behind'
<1>1. /\ srv.open /\ ~srv'.open /\ toServer' = <<>> /\ Len(Lines) \in Nat /\ Top' = Top
      /\ \A i \in 1..Len(Lines) : Lines'[i] = Lines[i]
      /\ Len(Lines') = Len(Lines) \/ Len(Lines') = Len(Lines) + 1
  BY CloseLines
<1>2. CASE Len(Lines) = 0
  BY <1>2, CloseSent
<1>3. CASE Len(Lines) = 1 /\ OldFirst
  <2>1. Ends(2)'
    BY <1>3, CloseEnds
  <2>2. Len(Lines') >= 1 /\ Lines'[1] = Lines[1]
    BY <1>1, <1>3
  <2>3. OldFirst'
    BY <1>1, <1>3, <2>2 DEF OldFirst
  <2> QED
    BY <1>1, <2>1, <2>2, <2>3 DEF Behind
<1>4. CASE Len(Lines) >= 2 /\ OldFirst /\ NewSecond /\ Ends(3)
  <2>1. Ends(3)'
    BY <1>4, CloseEnds
  <2>2. Len(Lines') >= 2 /\ Lines'[1] = Lines[1] /\ Lines'[2] = Lines[2]
    <3>1. 1 \in 1..Len(Lines) /\ 2 \in 1..Len(Lines) /\ Len(Lines') >= 2
      BY <1>1, <1>4
    <3> QED
      BY <1>1, <3>1
  <2>3. OldFirst' /\ NewSecond'
    BY <1>1, <1>4, <2>2 DEF OldFirst, NewSecond
  <2> QED
    BY <1>1, <2>1, <2>2, <2>3 DEF Behind
<1> QED
  BY <1>1, <1>2, <1>3, <1>4 DEF Behind

\* What the server had begun to say of a transfer stays; it says nothing more in the middle of one.
LEMMA CloseTransfer ==
  ASSUME Typed, Close
  PROVE  /\ Offset => Offset'
         /\ Transferring => Transferring'
         /\ Started => Started'
<1>1. /\ srv.open /\ ~srv'.open /\ toServer' = <<>> /\ Len(Lines) \in Nat /\ job' = job
      /\ \A i \in 1..Len(Lines) : Lines'[i] = Lines[i]
      /\ Len(Lines') = Len(Lines) \/ Len(Lines') = Len(Lines) + 1
      /\ srv.xfer => Lines' = Lines
  BY CloseLines
<1>2. srv'.xfer = srv.xfer /\ srv'.rest = srv.rest /\ srv'.offset = srv.offset
  <2>1. srv' = [srv EXCEPT !.open = FALSE] /\ srv \in SrvType
    BY CloseLines DEF Typed, TypeOK, SrvType
  <2> QED
    BY <2>1 DEF SrvType
<1>3. Offset => Offset'
  BY <1>1, <1>2 DEF Offset
<1>4. ASSUME Transferring PROVE Transferring'
  <2>1. CASE Len(Lines) = 0 /\ srv.xfer
    <3>1. Len(Lines') = 0
      BY <1>1, <2>1
    <3> QED
      BY <1>1, <1>2, <1>4, <3>1 DEF Transferring
  <2>2. CASE ~srv.xfer /\ Answered("XFER") /\ Lines[1].c \in {"2", "4"}
    <3>1. PICK cmd : cmd = "XFER"
      OBVIOUS
    <3>2. Answered(cmd)' /\ Lines'[1] = Lines[1]
      BY <2>2, <3>1, CloseAnswered
    <3>3. Answered("XFER")'
      BY <3>1, <3>2
    <3> QED
      BY <1>1, <1>2, <1>4, <2>2, <3>2, <3>3 DEF Transferring
  <2> QED
    BY <1>1, <1>4, <2>1, <2>2 DEF Transferring
<1>5. ASSUME Started PROVE Started'
  <2>1. CASE Len(Lines) = 1 /\ srv.xfer
    BY <1>1, <1>2, <1>3, <1>5, <2>1 DEF Started
  <2>2. CASE ~srv.xfer /\ Len(Lines) >= 2 /\ Ends(3) /\ Lines[2].cmd = "XFER" /\ Lines[2].c \in {"2", "4"} /\ Lines[2].mine
    <3>1. Ends(3)'
      BY <2>2, CloseEnds
    <3>2. Len(Lines') >= 2 /\ Lines'[1] = Lines[1] /\ Lines'[2] = Lines[2]
      <4>1. 1 \in 1..Len(Lines) /\ 2 \in 1..Len(Lines) /\ Len(Lines') >= 2
        BY <1>1, <2>2
      <4> QED
        BY <1>1, <4>1
    <3>3. Len(Lines') >= 1
      BY <1>1, <2>2
    <3> QED
      BY <1>1, <1>2, <1>3, <1>5, <2>2, <3>1, <3>2, <3>3 DEF Started
  <2> QED
    BY <1>1, <1>5, <2>1, <2>2 DEF Started
<1> QED
  BY <1>3, <1>4, <1>5

\* The server closes during a login,
LEMMA CloseLogin ==
  ASSUME Typed, Close, InLogin
  PROVE  InLogin'
<1>1. /\ srv.open /\ ~srv'.open /\ toServer' = <<>> /\ inbox' = inbox /\ Top' = Top /\ calls' = calls /\ conn' = conn
      /\ srv' = [srv EXCEPT !.open = FALSE] /\ srv \in SrvType
  BY CloseLines DEF Typed, TypeOK, SrvType
<1>2. srv'.xfer = srv.xfer /\ srv'.rest = srv.rest /\ srv'.data = srv.data /\ srv'.login = srv.login
  BY <1>1 DEF SrvType
<1>3. Doomed => Doomed'
  BY <1>1 DEF Doomed
<1>4. ASSUME LoggingIn PROVE LoggingIn'
  <2>1. CASE Sent(Top.cmd) \/ Unheard
    BY <1>1, <1>2, <1>4, <2>1, CloseSent DEF LoggingIn
  <2>2. CASE Behind
    BY <1>1, <1>2, <1>4, <2>2, CloseBehind DEF LoggingIn
  <2>3. CASE Answered(Top.cmd) /\ (Top.cmd = "PWD" /\ Lines[1].c = "2" => srv.login = "yes")
    <3>1. PICK cmd : cmd = Top.cmd
      OBVIOUS
    <3>2. Answered(cmd)' /\ Lines'[1] = Lines[1]
      BY <2>3, <3>1, CloseAnswered
    <3>3. Answered(Top.cmd)'
      BY <1>1, <3>1, <3>2
    <3> QED
      BY <1>1, <1>2, <1>4, <2>3, <3>2, <3>3 DEF LoggingIn
  <2> QED
    BY <1>4, <2>1, <2>2, <2>3 DEF LoggingIn
<1> QED
  BY <1>1, <1>3, <1>4 DEF InLogin, Idle

\* during an operation,
LEMMA CloseOp ==
  ASSUME Typed, Close, InOp
  PROVE  InOp'
<1>1. /\ srv.open /\ ~srv'.open /\ toServer' = <<>> /\ Top' = Top /\ calls' = calls /\ conn' = conn /\ skew' = skew
      /\ srv' = [srv EXCEPT !.open = FALSE] /\ srv \in SrvType
  BY CloseLines DEF Typed, TypeOK, SrvType
<1>2. srv'.xfer = srv.xfer /\ srv'.rest = srv.rest /\ srv'.data = srv.data /\ srv'.login = srv.login
  BY <1>1 DEF SrvType
<1>3. PICK cmd : cmd = Top.cmd
  OBVIOUS
<1>4. Answered(cmd) => Answered(cmd)' /\ Lines'[1] = Lines[1]
  BY CloseAnswered
<1>5. Sent(cmd) \/ Unheard => Unheard'
  BY CloseSent
<1>6. CASE OnRest
  <2>1. cmd = "REST" /\ Answered("REST")' <=> cmd = "REST" /\ Answered(cmd)'
    OBVIOUS
  <2>2. OnRest'
    BY <1>1, <1>2, <1>3, <1>4, <1>5, <1>6, <2>1 DEF OnRest
  <2> QED
    BY <1>1, <1>2, <2>2 DEF InOp, Idle
<1>7. CASE OnXfer
  <2>1. cmd = "XFER" /\ Answered("XFER")' <=> cmd = "XFER" /\ Answered(cmd)'
    OBVIOUS
  <2>2. OnXfer'
    BY <1>1, <1>2, <1>3, <1>4, <1>5, <1>7, <2>1, CloseTransfer DEF OnXfer
  <2> QED
    BY <1>1, <1>2, <2>2 DEF InOp, Idle
<1>8. CASE OnOther
  <2>1. (Unheard \/ Answered(Top.cmd))'
    BY <1>1, <1>3, <1>4, <1>5, <1>8 DEF OnOther
  <2>2. OnOther'
    BY <1>1, <1>2, <1>8, <2>1 DEF OnOther
  <2> QED
    BY <1>1, <1>2, <2>2 DEF InOp, Idle
<1>9. CASE OnEnd
  <2>1. OnEnd'
    BY <1>1, <1>9, CloseTransfer DEF OnEnd
  <2> QED
    BY <1>1, <1>2, <2>1 DEF InOp, Idle
<1> QED
  BY <1>6, <1>7, <1>8, <1>9 DEF InOp

\* or at any time.
LEMMA CloseSession ==
  ASSUME Typed, SessionInv, Close
  PROVE  SessionInv'
<1>1. /\ srv.open /\ conn.up /\ ~srv'.open /\ toServer' = <<>> /\ calls' = calls /\ conn' = conn /\ skew' = skew
      /\ srv' = [srv EXCEPT !.open = FALSE] /\ srv \in SrvType
  BY CloseLines DEF Typed, TypeOK, SrvType
<1>2. srv'.xfer = srv.xfer /\ srv'.rest = srv.rest /\ srv'.login = srv.login
  BY <1>1 DEF SrvType
<1>3. CASE Resting
  <2>1. CASE conn.moving
    BY <1>1, <1>2, <1>3, <2>1, CloseTransfer DEF SessionInv, Resting, Idle
  <2>2. CASE ~conn.moving
    <3>1. Rested'
      BY <1>1, <1>2, <1>3, <2>2, CloseEnds DEF Rested, Resting
    <3> QED
      BY <1>1, <1>2, <1>3, <2>2, <3>1 DEF SessionInv, Resting, Idle
  <2> QED
    BY <2>1, <2>2
<1> QED
  BY <1>1, <1>3, CloseLogin, CloseOp DEF SessionInv, Down, Dead

-----------------------------------------------------------------------------
(* Types after a step of the server *)

\* A step of the server touches the wire and its own end.
LEMMA ServerTyped ==
  ASSUME Typed, conn.up, calls' = calls, conn' = conn, job' = job, ret' = ret, skew' = skew, inbox' = inbox,
         net' \in Seq(Replies), srv' \in SrvType, toServer' \in Seq(Cmds),
         ~srv'.open => toServer' = <<>>, Polite(Lines')
  PROVE  Typed'
<1>1. TypeOK'
  BY DEF Typed, TypeOK, SrvType
<1>2. CallsInv'
  BY DEF Typed, CallsInv
<1>3. WireInv'
  BY DEF Typed, WireInv
<1> QED
  BY <1>1, <1>2, <1>3 DEF Typed

\* A server that is there has a client.
LEMMA Connected ==
  ASSUME Typed, srv.open
  PROVE  conn.up
BY DEF Typed, WireInv, NoServer, FreshServer

\* The commands that are left
LEMMA HeardTyped ==
  ASSUME Typed, toServer # <<>>, toServer' = Heard(Tail(toServer))
  PROVE  toServer' \in Seq(Cmds) /\ (~srv'.open => toServer' = <<>>)
<1>1. toServer \in Seq(Cmds)
  BY DEF Typed, TypeOK
<1>2. Tail(toServer) \in Seq(Cmds) /\ <<>> \in Seq(Cmds)
  BY <1>1
<1> QED
  BY <1>2 DEF Heard

\* An answer,
LEMMA ServeTyped ==
  ASSUME Typed, Serve
  PROVE  Typed'
<1>1. Untouched /\ ((Head(toServer) = "ABOR" /\ srv.xfer) \/ \E cmd, r : Served(cmd, r))
  BY ServeIs
<1>2. srv.open /\ toServer # <<>> /\ toServer' = Heard(Tail(toServer))
  BY DEF Serve
<1>3. conn.up /\ toServer' \in Seq(Cmds) /\ (~srv'.open => toServer' = <<>>)
  BY <1>2, Connected, HeardTyped
<1>4. inbox \in Seq(Replies) /\ net \in Seq(Replies) /\ srv \in SrvType /\ Polite(Lines)
  BY DEF Typed, TypeOK, SrvType, WireInv
<1>5. ASSUME NEW cmd, NEW r, Served(cmd, r) PROVE Typed'
  <2>1. srv' \in SrvType /\ Polite(Lines')
    BY <1>1, <1>5, ServedFacts
  <2>2. net' \in Seq(Replies)
    BY <1>1, <1>4, <1>5, AppendLine DEF Served, Untouched
  <2> QED
    BY <1>1, <1>3, <2>1, <2>2, ServerTyped DEF Untouched
<1>6. CASE Head(toServer) = "ABOR" /\ srv.xfer
  <2>1. PICK mine \in BOOLEAN : mine = (Len(toServer) = 1)
    OBVIOUS
  <2>2. PICK a, b : a = [cmd |-> "XFER", c |-> "4", mine |-> mine] /\ b = [cmd |-> "ABOR", c |-> "2", mine |-> mine]
    OBVIOUS
  <2>3. net' = net \o <<a, b>> /\ srv' = [srv EXCEPT !.xfer = FALSE]
    BY <1>6, <2>1, <2>2 DEF Serve
  <2>4. a \in Replies /\ b \in Replies /\ ~Farewell(a) /\ ~Farewell(b)
    BY <2>2 DEF Replies, Classes, Cmds, Logins, Setups, Farewell
  <2>5. PICK t : t = <<a, b>>
    OBVIOUS
  <2>6. t \in Seq(Replies) /\ Len(t) = 2 /\ t[1] = a /\ t[2] = b
    BY <2>4, <2>5
  <2>7. net' = net \o t /\ net' \in Seq(Replies)
    BY <1>4, <2>3, <2>5, <2>6, Joined
  <2>8. PICK n : n = Len(Lines) /\ n \in Nat
    BY <1>4, LinesFacts
  <2>9. Lines' = Lines \o t
    <3>1. (inbox \o net) \o t = inbox \o (net \o t)
      BY SMTT(20), <1>4, <2>6, ConcatAssociative
    <3> QED
      BY <1>1, <2>7, <3>1 DEF Lines, Untouched
  <2>10. Lines \in Seq(Replies)
    BY <1>4, LinesFacts
  <2>11. /\ Len(Lines \o t) = Len(Lines) + Len(t)
         /\ \A i \in 1..Len(Lines) + Len(t) : (Lines \o t)[i] = IF i <= Len(Lines) THEN Lines[i] ELSE t[i - Len(Lines)]
    BY <2>6, <2>10, Joined
  <2>12. Len(Lines') = n + 2 /\ \A i \in 1..n + 2 : Lines'[i] = IF i <= n THEN Lines[i] ELSE t[i - n]
    BY <2>6, <2>8, <2>9, <2>11
  <2>13. \A i \in 1..n + 2 : i \in 1..n \/ (~(i <= n) /\ i - n \in {1, 2})
    BY <2>8
  <2>14. \A i \in 1..n + 2 : i \in 1..n => i <= n
    BY <2>8
  <2>15. \A i \in 1..n + 2 : Farewell(Lines'[i]) => Lines'[i].c = "42"
    BY <1>4, <2>4, <2>6, <2>8, <2>12, <2>13, <2>14 DEF Polite
  <2>16. Polite(Lines')
    BY <2>12, <2>15 DEF Polite
  <2>17. srv' \in SrvType
    BY <1>4, <2>3 DEF SrvType
  <2> QED
    BY <1>1, <1>3, <2>7, <2>16, <2>17, ServerTyped DEF Untouched
<1> QED
  BY <1>1, <1>5, <1>6

\* the end of a transfer
LEMMA CompleteTyped ==
  ASSUME Typed, Complete
  PROVE  Typed'
<1>1. /\ srv.open /\ toServer' = toServer /\ srv' = [srv EXCEPT !.xfer = FALSE]
      /\ calls' = calls /\ conn' = conn /\ job' = job /\ ret' = ret /\ skew' = skew /\ inbox' = inbox
  BY DEF Complete
<1>2. PICK c \in {"2", "4"} : net' = Append(net, [cmd |-> "XFER", c |-> c, mine |-> TRUE])
  BY DEF Complete
<1>3. PICK e : e = [cmd |-> "XFER", c |-> c, mine |-> TRUE]
  OBVIOUS
<1>4. e \in Replies /\ ~Farewell(e)
  BY <1>3 DEF Replies, Cmds, Classes, Farewell
<1>5. inbox \in Seq(Replies) /\ net \in Seq(Replies) /\ srv \in SrvType /\ toServer \in Seq(Cmds) /\ Polite(Lines)
  BY DEF Typed, TypeOK, SrvType, WireInv
<1>6. net' \in Seq(Replies) /\ Polite(Lines')
  BY <1>1, <1>2, <1>3, <1>4, <1>5, AppendLine
<1>7. srv' \in SrvType /\ srv'.open
  BY <1>1, <1>5 DEF SrvType
<1> QED
  BY <1>1, <1>5, <1>6, <1>7, Connected, ServerTyped

\* and a close leave types, calls and wire in order.
LEMMA CloseTyped ==
  ASSUME Typed, Close
  PROVE  Typed'
<1>1. toServer' = <<>> /\ <<>> \in Seq(Cmds)
  BY CloseLines
<1> QED
  BY <1>1, CloseLines, ServerTyped

-----------------------------------------------------------------------------
(* The invariants *)

\* There is no connection at the start.
LEMMA TypedInit ==
  ASSUME Init
  PROVE  Typed /\ SessionInv
<1>1. /\ calls = <<>> /\ ~conn.up /\ ~conn.moving /\ inbox = <<>> /\ net = <<>> /\ toServer = <<>> /\ srv = NoServer
  BY DEF Init
<1>2. TypeOK
  <2>1. /\ calls \in Seq([fn : {"op", "connect"}, cmd : Cmds \cup {"END", "RECONNECT"}, again : BOOLEAN, pre : BOOLEAN])
        /\ net \in Seq(Replies) /\ inbox \in Seq(Replies) /\ toServer \in Seq(Cmds)
    BY <1>1
  <2>2. srv \in SrvType
    BY <1>1, ServerTypes
  <2> QED
    BY <2>1, <2>2 DEF Init, TypeOK, SrvType, Plain, Job, AllOps
<1>3. CallsInv
  BY <1>1 DEF CallsInv, StackFits
<1>4. Len(inbox \o net) = 0 /\ Len(inbox) = 0
  BY <1>1
<1>5. WireInv
  BY <1>1, <1>4 DEF WireInv, Polite, Lines
<1>6. Down
  BY <1>1, <1>4 DEF Down, FewLines
<1> QED
  BY <1>2, <1>3, <1>5, <1>6 DEF Typed, SessionInv

\* Every step keeps the invariants.
LEMMA TypedStep ==
  ASSUME Typed, Next
  PROVE  Typed' /\ (SessionInv /\ skew' # "abort" => SessionInv')
<1>1. CASE Read
  BY <1>1, ReadTyped, ReadSession
<1>2. CASE ReadEof
  BY <1>2, EofStep
<1>3. CASE ReadFails
  BY <1>3, FailsStep
<1>4. CASE Caller
  BY <1>4, CallerStep
<1>5. CASE Serve
  BY <1>5, ServeTyped, ServeSession
<1>6. CASE Complete
  BY <1>6, CompleteTyped, CompleteSession
<1>7. CASE Close
  BY <1>7, CloseTyped, CloseSession
<1> QED
  BY <1>1, <1>2, <1>3, <1>4, <1>5, <1>6, <1>7 DEF Next, Client, Server

\* So does a step of the rest of the program.
LEMMA Stutter ==
  ASSUME Typed, UNCHANGED vars
  PROVE  Typed' /\ (SessionInv => SessionInv')
<1>1. Typed'
  BY DEF vars, Typed, TypeOK, CallsInv, WireInv, Lines
<1>2. Lines' = Lines /\ Top' = Top
  BY DEF vars, Lines, Top
<1>3. /\ calls' = calls /\ conn' = conn /\ job' = job /\ ret' = ret /\ skew' = skew /\ toServer' = toServer
      /\ net' = net /\ inbox' = inbox /\ srv' = srv
  BY DEF vars
<1>4. /\ Ends(1)' = Ends(1) /\ Ends(2)' = Ends(2) /\ Ends(3)' = Ends(3)
  BY <1>2, <1>3 DEF Ends
<1>5. /\ Sent(Top.cmd)' = Sent(Top.cmd) /\ Unheard' = Unheard /\ Answered(Top.cmd)' = Answered(Top.cmd)
      /\ Sent("REST")' = Sent("REST") /\ Sent("XFER")' = Sent("XFER")
      /\ Answered("REST")' = Answered("REST") /\ Answered("XFER")' = Answered("XFER")
  BY <1>2, <1>3, <1>4 DEF Sent, Unheard, Answered
<1>6. Offset' = Offset /\ Resumes' = Resumes /\ Idle' = Idle
  BY <1>3 DEF Offset, Resumes, Idle
<1>7. Transferring' = Transferring /\ Started' = Started
  BY <1>2, <1>3, <1>4, <1>5, <1>6 DEF Transferring, Started
<1>8. Down => Down'
  BY <1>3 DEF Down
<1>9. Dead => Dead'
  BY <1>2, <1>3 DEF Dead
<1>10. InLogin => InLogin'
  <2>1. Doomed' = Doomed
    BY <1>2, <1>3 DEF Doomed
  <2>2. OldFirst' = OldFirst /\ NewSecond' = NewSecond
    BY <1>2 DEF OldFirst, NewSecond
  <2>3. Behind' = Behind
    BY <1>2, <1>3, <1>4, <2>2 DEF Behind
  <2>4. LoggingIn' = LoggingIn
    BY <1>2, <1>3, <1>5, <2>3 DEF LoggingIn
  <2> QED
    BY <1>2, <1>3, <1>6, <2>1, <2>4 DEF InLogin
<1>11. InOp => InOp'
  <2>1. OnRest' = OnRest
    BY <1>2, <1>3, <1>5 DEF OnRest
  <2>2. OnXfer' = OnXfer
    BY <1>2, <1>3, <1>5, <1>6, <1>7 DEF OnXfer
  <2>3. OnOther' = OnOther
    BY <1>2, <1>3, <1>5 DEF OnOther
  <2>4. OnEnd' = OnEnd
    BY <1>2, <1>7 DEF OnEnd
  <2> QED
    BY <1>2, <1>3, <1>6, <2>1, <2>2, <2>3, <2>4 DEF InOp
<1>12. Resting => Resting'
  BY <1>3, <1>4, <1>6, <1>7 DEF Resting, Rested
<1> QED
  BY <1>1, <1>8, <1>9, <1>10, <1>11, <1>12 DEF SessionInv

-----------------------------------------------------------------------------
(* What the invariant says *)

\* A reply that the client takes for a confirmation answers the command it waits for.
LEMMA OkAnswered ==
  ASSUME Typed, SessionInv, Read, Idle', ret' = "ok"
  PROVE  inbox \o net # <<>> /\ NextLine.mine
<1>1. PICK o, left, rest : Reads(o, left, rest)
  BY ReadIs
<1>2. calls # <<>> /\ conn.up
  BY ReadIs DEF Typed, CallsInv, StackFits
<1>3. Reading(o, left, rest)
  BY <1>1, <1>2 DEF Reading
<1>4. /\ Reacts(Lines[1], o) /\ Len(Lines) >= 1 /\ Len(Lines) \in Nat
      /\ Farewell(Lines[1]) => Lines[1].c = "42"
  BY <1>3, ReadingFacts
<1>5. o.ret = "ok" /\ o.calls = <<>>
  BY <1>1 DEF Reads, Apply, Idle
<1>6. inbox \in Seq(Replies) /\ net \in Seq(Replies)
  BY DEF Typed, TypeOK
<1>7. Lines \in Seq(Replies)
  BY <1>6, LinesFacts
<1>8. Lines # <<>> /\ NextLine = Lines[1]
  BY <1>4, <1>7, TailFacts DEF NextLine, Lines
<1>9. ~Reopens(o) /\ ~AsksLogin(o) /\ ~Asks(Lines[1], o)
  BY <1>5 DEF Reopens, Drops, Starts, OutcomeOk, AsksLogin, Asks, AsksOp
<1>10. ~Sent(Top.cmd) /\ ~Sent("REST") /\ ~Sent("XFER")
  BY <1>4 DEF Sent
<1>11. Unheard => Farewell(Lines[1])
  BY <1>4, EndsUp DEF Unheard
<1>12. CASE InLogin
  <2>1. Top.cmd = "PWD" /\ Lines[1].cmd = "PWD"
    BY <1>4, <1>9, <1>12 DEF Reacts, InLogin
  <2>2. ~Farewell(Lines[1])
    BY <2>1 DEF Farewell
  <2>3. ~Doomed
    <3>1. ASSUME Doomed PROVE Len(inbox) = 1 /\ Farewell(inbox[1])
      BY <2>1, <3>1 DEF Doomed
    <3>2. Len(inbox) = 1 => Lines[1] = inbox[1]
      BY <1>6, LinesFacts
    <3> QED
      BY <2>2, <3>1, <3>2
  <2>4. ~Behind
    <3>1. ~OldFirst
      BY <2>1 DEF OldFirst
    <3> QED
      BY <1>4, <3>1 DEF Behind
  <2>5. Answered(Top.cmd)
    BY <1>10, <1>11, <1>12, <2>2, <2>3, <2>4 DEF InLogin, LoggingIn
  <2> QED
    BY <1>8, <2>5 DEF Answered, Lines
<1>13. CASE InOp
  <2>1. Returns(Lines[1], o)
    BY <1>4, <1>9, <1>13 DEF Reacts, InOp
  <2>2. ~Farewell(Lines[1])
    BY <1>4, <1>5, <2>1 DEF Returns
  <2>3. Lines[1].mine
    BY <1>4, <1>10, <1>11, <1>13, <2>2 DEF InOp, OnRest, OnXfer, OnOther, OnEnd, Answered, Started, Transferring
  <2> QED
    BY <1>8, <2>3 DEF Lines
<1>14. ~Down /\ ~Dead /\ ~Resting
  BY <1>2, <1>4 DEF Down, Dead, Resting, Idle
<1> QED
  BY <1>12, <1>13, <1>14 DEF SessionInv

\* Only a read ends an operation with success.
LEMMA OkStep ==
  ASSUME Typed, SessionInv, Next, ~Idle, Idle', ret' = "ok", skew' = "no"
  PROVE  inbox \o net # <<>> /\ NextLine.mine
<1>1. CASE Read
  BY <1>1, OkAnswered
<1>2. ~ReadEof
  BY DEF ReadEof
<1>3. ~ReadFails
  <2>1. SUFFICES ASSUME ReadFails PROVE FALSE
    OBVIOUS
  <2>2. PICK e : e = IF Top.cmd = "ABOR" THEN "none" ELSE "retry"
    OBVIOUS
  <2>3. PICK o \in Fail(Dropped(conn), e) : Apply(o, inbox, net, job)
    BY <2>1, <2>2 DEF ReadFails
  <2>4. Reopens(o)
    <3>1. e \in {"none", "retry", "fatal", "timeout"}
      BY <2>2
    <3> QED
      BY <2>3, <3>1, DropFails DEF Typed
  <2>5. o.ret = "ok" /\ o.calls = <<>>
    BY <2>3 DEF Apply, Idle
  <2> QED
    BY <2>4, <2>5 DEF Reopens, Drops, Starts, OutcomeOk
<1>4. ~Caller
  BY DEF Caller, CallConnect, CallList, CallEnd, CallAbort, CallDisconnect, CallCommand, CallTransfer, Ready
<1>5. ~Server
  BY DEF Server, Serve, Complete, Close, Idle
<1> QED
  BY <1>1, <1>2, <1>3, <1>4, <1>5 DEF Next, Client

\* Nothing but a farewell is there to be read at rest.
LEMMA RestInStep ==
  ASSUME Typed, SessionInv
  PROVE  InStep
<1>1. SUFFICES ASSUME Idle, conn.up, ~conn.moving, skew = "no"
               PROVE  toServer = <<>> /\ \A i \in DOMAIN (net \o inbox) : Farewell((net \o inbox)[i])
  BY DEF InStep
<1>2. Rested
  BY <1>1 DEF SessionInv, Down, Dead, InLogin, InOp, Resting
<1>3. inbox \in Seq(Replies) /\ net \in Seq(Replies)
  BY DEF Typed, TypeOK
<1>4. PICK n, m : n = Len(inbox) /\ m = Len(net) /\ n \in Nat /\ m \in Nat
  BY <1>3, LinesFacts
<1>5. Len(Lines) = n + m /\ Len(Lines) <= 1 /\ (Len(Lines) = 1 => Farewell(Lines[1]))
  BY <1>2, <1>3, <1>4, LinesFacts DEF Rested, Ends
<1>6. /\ \A i \in 1..n : Lines[i] = inbox[i]
      /\ \A i \in 1..m : Lines[n + i] = net[i]
  BY <1>3, <1>4, LinesFacts
<1>7. /\ net \o inbox \in Seq(Replies) /\ Len(net \o inbox) = m + n
      /\ \A i \in 1..m + n : (net \o inbox)[i] = IF i <= m THEN net[i] ELSE inbox[i - m]
  BY <1>3, <1>4, Joined
<1>8. DOMAIN (net \o inbox) = 1..m + n
  BY <1>7
<1>9. ASSUME NEW i \in 1..m + n PROVE Farewell((net \o inbox)[i])
  <2>1. m + n = 1 /\ i = 1
    BY <1>4, <1>5, <1>9
  <2>2. Farewell(Lines[1])
    BY <1>4, <1>5, <2>1
  <2>3. CASE m = 1 /\ n = 0
    <3>1. Lines[1] = net[1]
      <4>1. n + 1 = 1 /\ 1 \in 1..m
        BY <2>3
      <4> QED
        BY <1>6, <4>1
    <3>2. (net \o inbox)[i] = net[1]
      BY <1>7, <1>9, <2>1, <2>3
    <3> QED
      BY <2>2, <3>1, <3>2
  <2>4. CASE m = 0 /\ n = 1
    <3>1. Lines[1] = inbox[1]
      BY <1>6, <2>4
    <3>2. ~(i <= m) /\ i - m = 1
      BY <2>1, <2>4
    <3>3. (net \o inbox)[i] = inbox[1]
      BY <1>7, <1>9, <3>2
    <3> QED
      BY <2>2, <3>1, <3>3
  <2>5. (m = 1 /\ n = 0) \/ (m = 0 /\ n = 1)
    BY <1>4, <2>1
  <2> QED
    BY <2>3, <2>4, <2>5
<1> QED
  BY <1>2, <1>8, <1>9 DEF Rested

\* A session at rest is logged in, and a transfer has the offset that was asked for.
LEMMA RestLoggedIn ==
  ASSUME Typed, SessionInv
  PROVE  LoggedIn /\ OffsetHonoured
<1>1. ASSUME Idle, conn.up, skew = "no" PROVE Resting
  BY <1>1 DEF SessionInv, Down, Dead, InLogin, InOp
<1>2. LoggedIn
  BY <1>1 DEF LoggedIn, Resting
<1>3. conn.moving => Idle /\ conn.up
  BY DEF Typed, CallsInv, StackFits, Idle
<1>4. OffsetHonoured
  BY <1>1, <1>3 DEF OffsetHonoured, Resting, Offset
<1> QED
  BY <1>2, <1>4

-----------------------------------------------------------------------------
(* Theorems *)

\* Every reply, every command and every call on the stack is one that lib/rfc959.c can have,
\* whatever the server does.
THEOREM FtpTypes == Spec => []TypeOK
<1>1. Init => Typed
  BY TypedInit
<1>2. Typed /\ [Next]_vars => Typed'
  BY TypedStep, Stutter
<1>3. Typed => TypeOK
  BY DEF Typed
<1> QED
  BY <1>1, <1>2, <1>3, PTL DEF Spec

\* The session invariant: a login above a busy command, an answer that is late or never comes,
\* and what a closed connection leaves in the buffer, as long as no transfer is aborted.
THEOREM SessionInvariant == Spec /\ []NoAbort => []FtpInv
<1>1. Init => FtpInv
  BY TypedInit DEF Typed, FtpInv
<1>2. FtpInv /\ NoAbort' /\ [Next]_vars => FtpInv'
  BY TypedStep, Stutter DEF Typed, FtpInv, NoAbort
<1> QED
  BY <1>1, <1>2, PTL DEF Spec

\* Between operations a connected request is logged in: gftp_connect() inside
\* rfc959_send_command() returns 0 only when the answer to its own PWD was read.
THEOREM SessionsLoggedIn == Spec /\ []NoAbort => []LoggedIn
<1>1. FtpInv => LoggedIn
  BY RestLoggedIn DEF Typed, FtpInv
<1> QED
  BY <1>1, SessionInvariant, PTL

\* Every operation leaves nothing to be read but the farewell of a server that closes, so
\* the next command reads its own answer.
THEOREM SessionsInStep == Spec /\ []NoAbort => []InStep
<1>1. FtpInv => InStep
  BY RestInStep DEF Typed, FtpInv
<1> QED
  BY <1>1, SessionInvariant, PTL

\* RETR and STOR start at the offset that rfc959_setup_file_transfer() sent, or fail: after a
\* reconnect the server has no data connection and refuses a transfer from the start.
THEOREM TransfersStartRight == Spec /\ []NoAbort => []OffsetHonoured
<1>1. FtpInv => OffsetHonoured
  BY RestLoggedIn DEF Typed, FtpInv
<1> QED
  BY <1>1, SessionInvariant, PTL

\* An operation returns success only when the reply that rfc959_read_response() took was to
\* the last command it sent.
THEOREM SuccessesAnswered == Spec /\ []NoAbort => SuccessIsAnswered
<1>1. FtpInv /\ [Next]_vars =>
        [~Idle /\ Idle' /\ ret' = "ok" /\ skew' = "no" => inbox \o net # <<>> /\ NextLine.mine]_vars
  BY OkStep DEF Typed, FtpInv
<1> QED
  BY <1>1, SessionInvariant, PTL DEF Spec, SuccessIsAnswered
=============================================================================
