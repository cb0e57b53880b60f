----------------------------- MODULE HttpProofs -----------------------------
(***************************************************************************)
(* Proofs about the HTTP client (Http): its types, and that a download or  *)
(* a listing delivers the body of its own response, in order, however the  *)
(* reads and the chunks divide it.  The invariant says, of every token of  *)
(* a response that is still to be delivered, where it is and which comes   *)
(* next: in what the server has sent, in the line buffer, in what          *)
(* rfc2068_chunked_read() keeps for its next call, or in its loop.         *)
(***************************************************************************)
EXTENDS Http, SequenceTheorems, TLAPS

-----------------------------------------------------------------------------
(* Sequences of tokens; the types of the state                             *)

\* The outcome of rfc2068_chunked_read(), and of a step of the calls above it
HttpResults == [req : HttpReqs, res : {"data", "again", "fatal"}, data : Seq(HttpTokens)]
HttpOuts == {o \in [req : HttpReqs, job : HttpJobs] : o.job.at = "none" => o.job.got = <<>> /\ ~o.req.ptr.on}

\* The empty sequence is a sequence of tokens.
LEMMA HttpEmpty == <<>> \in Seq(HttpTokens)
OBVIOUS

\* One sequence after another, the first n of a sequence, and what comes after them
Cat(s, t) == s \o t
Take(s, n) == SubSeq(s, 1, n)
Drop(s, n) == SubSeq(s, n + 1, Len(s))

\* The first n of a sequence
LEMMA TakeIs ==
  ASSUME NEW s \in Seq(HttpTokens), NEW n \in Nat, n <= Len(s)
  PROVE  Take(s, n) \in Seq(HttpTokens) /\ Len(Take(s, n)) = n /\ \A i \in 1..n : Take(s, n)[i] = s[i]
BY DEF Take

\* What comes after the first n of a sequence
LEMMA DropIs ==
  ASSUME NEW s \in Seq(HttpTokens), NEW n \in Nat, n <= Len(s)
  PROVE  /\ Drop(s, n) \in Seq(HttpTokens) /\ Len(Drop(s, n)) = Len(s) - n
         /\ \A i \in 1..(Len(s) - n) : Drop(s, n)[i] = s[n + i]
BY DEF Drop

\* One sequence after another
LEMMA CatIs ==
  ASSUME NEW s \in Seq(HttpTokens), NEW t \in Seq(HttpTokens)
  PROVE  /\ Cat(s, t) \in Seq(HttpTokens) /\ Len(Cat(s, t)) = Len(s) + Len(t)
         /\ \A i \in 1..Len(s) : Cat(s, t)[i] = s[i]
         /\ \A i \in 1..Len(t) : Cat(s, t)[Len(s) + i] = t[i]
BY DEF Cat

\* Two sequences are equal when they agree at each place.
LEMMA SeqIs ==
  ASSUME NEW s \in Seq(HttpTokens), NEW t \in Seq(HttpTokens), Len(s) = Len(t), \A i \in 1..Len(s) : s[i] = t[i]
  PROVE  s = t
OBVIOUS

\* The elements of a sequence, its length, and the sequence without elements
LEMMA SeqTypes ==
  ASSUME NEW s \in Seq(HttpTokens)
  PROVE  Len(s) \in Nat /\ (s = <<>> <=> Len(s) = 0) /\ \A i \in 1..Len(s) : s[i] \in HttpTokens
OBVIOUS

\* What a token is made of
LEMMA HttpTokenTypes ==
  ASSUME NEW t \in HttpTokens
  PROVE  /\ t[2] \in Nat /\ t = <<t[1], t[2]>>
         /\ t[1] \in {"crlf", "page", "chunked", "d", "size", "length", "status"}
         /\ t[1] \in {"d", "size", "length"} => t[2] \in 0..HttpSize
         /\ t[1] = "status" => t[2] \in {200, 206, 404}
         /\ t[1] = "crlf" <=> t = HttpCrlf
BY HttpSizeAssumption DEF HttpTokens, HttpCrlf, HttpPage

\* The tokens that have a name
LEMMA HttpCrlfType == HttpCrlf \in HttpTokens /\ HttpPage \in HttpTokens /\ HttpCrlf[1] = "crlf"
BY DEF HttpTokens, HttpCrlf

\* The buffers that are not there
LEMMA HttpNone ==
  /\ HttpNoPtr \in HttpPtrs /\ HttpNoPtr.on = FALSE /\ HttpNoPtr.done = <<>> /\ HttpNoPtr.rest = <<>>
  /\ HttpNoBuf \in HttpBufs /\ HttpNoBuf.on = FALSE /\ HttpNoBuf.data = <<>> /\ HttpNoBuf.eof = FALSE
BY HttpEmpty DEF HttpNoPtr, HttpNoBuf, HttpPtrs, HttpBufs

\* One field of rfc2068_params is assigned.
LEMMA HttpReqSet ==
  ASSUME NEW req \in HttpReqs
  PROVE  /\ \A v \in BOOLEAN : [req EXCEPT !.up = v] \in HttpReqs
         /\ \A v \in HttpBufs : [req EXCEPT !.rbuf = v] \in HttpReqs
         /\ \A v \in Seq(HttpTokens) : [req EXCEPT !.extra = v] \in HttpReqs
         /\ \A v \in Nat : [req EXCEPT !.chunk = v] \in HttpReqs
         /\ \A v \in Nat : [req EXCEPT !.length = v] \in HttpReqs
         /\ \A v \in Nat : [req EXCEPT !.read = v] \in HttpReqs
         /\ \A v \in BOOLEAN : [req EXCEPT !.chunked = v] \in HttpReqs
         /\ \A v \in BOOLEAN : [req EXCEPT !.eof = v] \in HttpReqs
         /\ \A v \in 0..2 : [req EXCEPT !.depth = v] \in HttpReqs
         /\ \A v \in 0..HttpLeaks : [req EXCEPT !.leak = v] \in HttpReqs
         /\ \A v \in HttpPtrs : [req EXCEPT !.ptr = v] \in HttpReqs
BY Zenon DEF HttpReqs

\* The fields of rfc2068_params
LEMMA HttpReqTypes ==
  ASSUME NEW req \in HttpReqs
  PROVE  /\ req.up \in BOOLEAN /\ req.rbuf \in HttpBufs /\ req.extra \in Seq(HttpTokens) /\ req.chunk \in Nat
         /\ req.length \in Nat /\ req.read \in Nat /\ req.chunked \in BOOLEAN /\ req.eof \in BOOLEAN
         /\ req.depth \in 0..2 /\ req.leak \in 0..HttpLeaks /\ req.ptr \in HttpPtrs
         /\ req.rbuf.on \in BOOLEAN /\ req.rbuf.data \in Seq(HttpTokens) /\ req.rbuf.eof \in BOOLEAN
         /\ req.rbuf.on \/ req.rbuf.data = <<>>
         /\ req.ptr.on \in BOOLEAN /\ req.ptr.done \in Seq(HttpTokens) /\ req.ptr.rest \in Seq(HttpTokens)
         /\ req.ptr.on \/ req.ptr = HttpNoPtr
BY DEF HttpReqs, HttpBufs, HttpPtrs

\* One field of the job is assigned.
LEMMA HttpJobSet ==
  ASSUME NEW job \in HttpJobs
  PROVE  /\ \A v \in HttpOps : [job EXCEPT !.op = v] \in HttpJobs
         /\ \A v \in HttpAts : [job EXCEPT !.at = v] \in HttpJobs
         /\ \A v \in 0..HttpSize : [job EXCEPT !.start = v] \in HttpJobs
         /\ \A v \in 0..HttpSize : [job EXCEPT !.first = v] \in HttpJobs
         /\ \A v \in HttpCodes : [job EXCEPT !.status = v] \in HttpJobs
         /\ \A v \in BOOLEAN : [job EXCEPT !.line = v] \in HttpJobs
         /\ \A v \in BOOLEAN : [job EXCEPT !.chunked = v] \in HttpJobs
         /\ \A v \in HttpRets : [job EXCEPT !.ret = v] \in HttpJobs
         /\ \A v \in Seq(HttpTokens) : [job EXCEPT !.got = v] \in HttpJobs
         /\ \A v \in BOOLEAN : [job EXCEPT !.clean = v] \in HttpJobs
BY Zenon DEF HttpJobs

\* The fields of the job
LEMMA HttpJobTypes ==
  ASSUME NEW job \in HttpJobs
  PROVE  /\ job.op \in HttpOps /\ job.at \in HttpAts /\ job.start \in 0..HttpSize
         /\ job.first \in 0..HttpSize /\ job.status \in HttpCodes /\ job.line \in BOOLEAN
         /\ job.chunked \in BOOLEAN /\ job.ret \in HttpRets
         /\ job.got \in Seq(HttpTokens) /\ job.clean \in BOOLEAN
BY DEF HttpJobs

\* The state of the program before the first call
LEMMA HttpNewTypes == HttpNewReq \in HttpReqs /\ HttpNoJob \in HttpJobs /\ HttpNoNet \in HttpNets
<1>1. HttpNewReq \in HttpReqs
  BY HttpNone, HttpEmpty, HttpSizeAssumption DEF HttpNewReq, HttpReqs
<1>2. HttpNoJob \in HttpJobs
  BY HttpEmpty, HttpSizeAssumption DEF HttpNoJob, HttpJobs, HttpAts, HttpOps, HttpCodes, HttpRets
<1>3. HttpNoNet \in HttpNets
  <2>1. PICK e \in Seq(HttpTokens) : e = <<>> /\ Len(e) = 0
    BY HttpEmpty, Zenon
  <2>2. Len(e) <= HttpSize + 1
    BY <2>1, HttpSizeAssumption
  <2>3. HttpNoNet = [left |-> e, todo |-> e, end |-> TRUE]
    BY <2>1 DEF HttpNoNet
  <2> QED
    BY <2>2, <2>3 DEF HttpNets
<1> QED
  BY <1>1, <1>2, <1>3

\* A result of rfc2068_chunked_read()
LEMMA HttpResultType ==
  ASSUME NEW req \in HttpReqs, NEW res \in {"data", "again", "fatal"}, NEW data \in Seq(HttpTokens)
  PROVE  /\ HttpResult(req, res, data) \in HttpResults
         /\ HttpResult(req, res, data).req = req /\ HttpResult(req, res, data).res = res
         /\ HttpResult(req, res, data).data = data
BY DEF HttpResult, HttpResults

\* What HttpDone() returns: the buffers stay as they are.
LEMMA HttpDoneIs ==
  ASSUME NEW req \in HttpReqs, NEW data \in Seq(HttpTokens)
  PROVE  LET o == HttpDone(req, data)
         IN /\ o \in HttpResults /\ o.res = "data" /\ o.data = data /\ o.req \in HttpReqs
            /\ o.req.ptr = HttpNoPtr /\ o.req.rbuf = req.rbuf /\ o.req.extra = req.extra /\ o.req.chunk = req.chunk
            /\ o.req.length = req.length /\ o.req.chunked = req.chunked /\ o.req.eof = req.eof
<1> DEFINE r == [req EXCEPT !.depth = 0, !.ptr = HttpNoPtr]
<1>1. r \in HttpReqs
  <2>1. PICK d \in 0..2 : d = 0
    OBVIOUS
  <2>2. [req EXCEPT !.depth = d, !.ptr = HttpNoPtr] \in HttpReqs
    BY HttpReqSet, HttpNone, Zenon
  <2> QED
    BY <2>1, <2>2
<1>2. /\ r.ptr = HttpNoPtr /\ r.rbuf = req.rbuf /\ r.extra = req.extra /\ r.chunk = req.chunk
      /\ r.length = req.length /\ r.chunked = req.chunked /\ r.eof = req.eof
  BY DEF HttpReqs
<1>3. HttpDone(req, data) = [req |-> r, res |-> "data", data |-> data]
  BY DEF HttpDone, HttpResult
<1> HIDE DEF r
<1> QED
  BY <1>1, <1>2, <1>3 DEF HttpResults

\* What HttpGivesUp() returns
LEMMA HttpGivesUpIs ==
  ASSUME NEW req \in HttpReqs
  PROVE  LET o == HttpGivesUp(req)
         IN o \in HttpResults /\ o.res = "fatal" /\ o.req \in HttpReqs /\ o.req.ptr = HttpNoPtr
<1> DEFINE leak == req.leak + req.depth
           l == IF leak < HttpLeaks THEN leak ELSE HttpLeaks
           r == [req EXCEPT !.up = FALSE, !.depth = 0, !.leak = l, !.ptr = HttpNoPtr]
<1>1. l \in 0..HttpLeaks
  <2>1. req.leak \in Nat /\ req.depth \in Nat /\ HttpLeaks \in Nat
    BY HttpReqTypes, HttpSizeAssumption
  <2> QED
    BY <2>1
<1> HIDE DEF l
<1>2. r \in HttpReqs /\ r.ptr = HttpNoPtr
  <2>1. PICK d \in 0..2 : d = 0
    OBVIOUS
  <2>3. [req EXCEPT !.up = FALSE, !.depth = d, !.leak = l, !.ptr = HttpNoPtr] \in HttpReqs
    BY <1>1, HttpReqSet, HttpNone, Zenon
  <2>2. r.ptr = HttpNoPtr
    BY DEF HttpReqs
  <2> QED
    BY <2>1, <2>2, <2>3
<1>3. HttpGivesUp(req) = [req |-> r, res |-> "fatal", data |-> <<>>]
  BY DEF HttpGivesUp, HttpResult, l
<1> HIDE DEF r
<1> QED
  BY <1>2, <1>3, HttpEmpty DEF HttpResults

\* What is no chunk header, whole, is kept apart.
LEMMA HttpSaveIs ==
  ASSUME NEW req \in HttpReqs, NEW done \in Seq(HttpTokens), NEW rest \in Seq(HttpTokens)
  PROVE  LET o == HttpSave(req, done, rest)
         IN /\ o \in HttpResults /\ o.req \in HttpReqs /\ o.req.ptr = HttpNoPtr
            /\ \/ o.res = "fatal"
               \/ /\ o.res = IF done # <<>> THEN "data" ELSE "again"
                  /\ o.data = done
                  /\ o.req.rbuf = req.rbuf /\ o.req.extra = rest /\ o.req.chunk = req.chunk
                  /\ o.req.length = req.length /\ o.req.chunked = req.chunked /\ o.req.eof = req.eof
<1> DEFINE r == [req EXCEPT !.extra = rest]
<1>1. r \in HttpReqs
  BY HttpReqSet, Zenon
<1>2. /\ r.rbuf = req.rbuf /\ r.extra = rest /\ r.chunk = req.chunk /\ r.length = req.length /\ r.chunked = req.chunked
      /\ r.eof = req.eof /\ r.depth = req.depth
  BY DEF HttpReqs
<1>3. CASE done # <<>>
  <2>1. HttpSave(req, done, rest) = HttpDone(r, done)
    BY <1>3 DEF HttpSave
  <2> HIDE DEF r
  <2> QED
    BY <2>1, <1>1, <1>2, <1>3, HttpDoneIs
<1>4. CASE done = <<>> /\ req.leak + req.depth + 1 > 2
  <2>1. HttpSave(req, done, rest) = HttpGivesUp(r)
    BY <1>4 DEF HttpSave
  <2> HIDE DEF r
  <2> QED
    BY <2>1, <1>1, HttpGivesUpIs
<1>5. CASE done = <<>> /\ ~(req.leak + req.depth + 1 > 2)
  <2> DEFINE q == [r EXCEPT !.depth = r.depth + 1, !.ptr = HttpNoPtr]
  <2>1. HttpSave(req, done, rest) = [req |-> q, res |-> "again", data |-> <<>>]
    BY <1>5 DEF HttpSave, HttpResult
  <2> HIDE DEF r
  <2>2. r.depth + 1 \in 0..2
    <3>1. req.leak \in Nat /\ req.depth \in Nat
      BY HttpReqTypes, HttpSizeAssumption
    <3> QED
      BY <3>1, <1>2, <1>5
  <2>3. q \in HttpReqs
    BY <1>1, <2>2, HttpReqSet, HttpNone, Zenon
  <2>4. /\ q.ptr = HttpNoPtr /\ q.rbuf = r.rbuf /\ q.extra = r.extra /\ q.chunk = r.chunk
        /\ q.length = r.length /\ q.chunked = r.chunked /\ q.eof = r.eof
    BY <1>1 DEF HttpReqs
  <2> HIDE DEF q
  <2> QED
    BY <2>1, <2>3, <2>4, <1>2, <1>5, HttpEmpty DEF HttpResults
<1> QED
  BY <1>3, <1>4, <1>5

\* The loop goes on with what is done and what is at rest.
LEMMA HttpLoopsIs ==
  ASSUME NEW req \in HttpReqs, NEW done \in Seq(HttpTokens), NEW rest \in Seq(HttpTokens)
  PROVE  LET o == HttpLoops(req, done, rest)
         IN /\ o \in HttpResults /\ o.res = "again" /\ o.req \in HttpReqs
            /\ o.req.ptr.on /\ o.req.ptr.done = done /\ o.req.ptr.rest = rest
            /\ o.req.rbuf = req.rbuf /\ o.req.extra = req.extra /\ o.req.chunk = req.chunk
            /\ o.req.length = req.length /\ o.req.chunked = req.chunked /\ o.req.eof = req.eof
<1> DEFINE p == [on |-> TRUE, done |-> done, rest |-> rest]
           r == [req EXCEPT !.ptr = p]
<1>1. p \in HttpPtrs /\ p.on /\ p.done = done /\ p.rest = rest
  BY DEF HttpPtrs
<1>2. HttpLoops(req, done, rest) = [req |-> r, res |-> "again", data |-> <<>>]
  BY DEF HttpLoops, HttpResult
<1> HIDE DEF p
<1>3. r \in HttpReqs
  BY <1>1, HttpReqSet, Zenon
<1>4. /\ r.ptr = p /\ r.rbuf = req.rbuf /\ r.extra = req.extra /\ r.chunk = req.chunk
      /\ r.length = req.length /\ r.chunked = req.chunked /\ r.eof = req.eof
  BY DEF HttpReqs
<1> HIDE DEF r
<1> QED
  BY <1>1, <1>2, <1>3, <1>4, HttpEmpty DEF HttpResults

-----------------------------------------------------------------------------
(* rfc2068_chunked_read()                                                  *)

\* The last chunk has come.
LEMMA HttpLastChunkIs ==
  ASSUME NEW req \in HttpReqs, NEW done \in Seq(HttpTokens), NEW rest \in Seq(HttpTokens), Len(rest) > 2
  PROVE  LET o == HttpLastChunk(req, done, rest)
         IN /\ o \in HttpResults /\ o.res = "data" /\ o.req \in HttpReqs
            /\ req.eof => o.data = <<>>
            /\ ~req.eof => o.data = Cat(done, Take(rest, Len(rest) - 3))
            /\ o.req.ptr = HttpNoPtr /\ o.req.rbuf = req.rbuf /\ o.req.extra = req.extra /\ o.req.chunk = req.chunk
            /\ o.req.length = req.length /\ o.req.chunked = req.chunked /\ o.req.eof = TRUE
<1> DEFINE r == [req EXCEPT !.eof = TRUE]
<1>1. r \in HttpReqs
  BY HttpReqSet, Zenon
<1>2. /\ r.rbuf = req.rbuf /\ r.extra = req.extra /\ r.chunk = req.chunk /\ r.length = req.length
      /\ r.chunked = req.chunked /\ r.eof = TRUE
  BY DEF HttpReqs
<1>3. PICK data \in Seq(HttpTokens) : data = Cat(done, Take(rest, Len(rest) - 3))
  <2>4. Len(rest) \in Nat
    BY SeqTypes
  <2>5. Len(rest) - 3 \in Nat /\ Len(rest) - 3 <= Len(rest)
    BY <2>4
  <2>1. PICK n \in Nat : n = Len(rest) - 3 /\ n <= Len(rest)
    BY <2>5, Zenon
  <2>2. PICK a \in Seq(HttpTokens) : a = Take(rest, n)
    BY <2>1, TakeIs
  <2>3. Cat(done, a) \in Seq(HttpTokens)
    BY CatIs
  <2> QED
    BY <2>1, <2>2, <2>3
<1>4. HttpLastChunk(req, done, rest) = IF req.eof THEN HttpDone(req, <<>>) ELSE HttpDone(r, data)
  BY <1>3 DEF HttpLastChunk, Cat, Take
<1> HIDE DEF r
<1>5. CASE req.eof
  <2>1. HttpLastChunk(req, done, rest) = HttpDone(req, <<>>)
    BY <1>4, <1>5
  <2>2. req.eof = TRUE
    BY <1>5, HttpReqTypes
  <2>3. PICK e \in Seq(HttpTokens) : e = <<>>
    BY HttpEmpty, Zenon
  <2>4. HttpLastChunk(req, done, rest) = HttpDone(req, e)
    BY <2>1, <2>3
  <2>5. LET o == HttpDone(req, e)
        IN /\ o \in HttpResults /\ o.res = "data" /\ o.data = e /\ o.req \in HttpReqs
           /\ o.req.ptr = HttpNoPtr /\ o.req.rbuf = req.rbuf /\ o.req.extra = req.extra /\ o.req.chunk = req.chunk
           /\ o.req.length = req.length /\ o.req.chunked = req.chunked /\ o.req.eof = req.eof
    BY HttpDoneIs
  <2> QED
    BY <2>2, <2>3, <2>4, <2>5
<1>6. CASE ~req.eof
  <2>1. HttpLastChunk(req, done, rest) = HttpDone(r, data)
    BY <1>4, <1>6
  <2> QED
    BY <2>1, <1>1, <1>2, <1>3, <1>6, HttpDoneIs
<1> QED
  BY <1>5, <1>6, Zenon

\* A chunk has come, with more, or not all of it.
LEMMA HttpChunkIs ==
  ASSUME NEW req \in HttpReqs, NEW done \in Seq(HttpTokens), NEW n \in Nat, NEW tail \in Seq(HttpTokens)
  PROVE  LET o == HttpChunk(req, done, n, tail)
         IN /\ o \in HttpResults /\ o.res = "again" /\ o.req \in HttpReqs
            /\ o.req.ptr.on /\ o.req.rbuf = req.rbuf /\ o.req.extra = req.extra
            /\ o.req.length = req.length /\ o.req.chunked = req.chunked /\ o.req.eof = req.eof
            /\ n < Len(tail) => /\ o.req.ptr.done = Cat(done, Take(tail, n))
                                /\ o.req.ptr.rest = Drop(tail, n) /\ o.req.chunk = req.chunk
            /\ ~(n < Len(tail)) => /\ o.req.ptr.done = done /\ o.req.ptr.rest = tail /\ o.req.chunk = n - Len(tail)
<1>1. CASE n < Len(tail)
  <2>1. HttpChunk(req, done, n, tail) = HttpLoops(req, Cat(done, Take(tail, n)), Drop(tail, n))
    BY <1>1 DEF HttpChunk, Cat, Take, Drop
  <2>2. n <= Len(tail)
    BY <1>1, SeqTypes
  <2>3. Take(tail, n) \in Seq(HttpTokens) /\ Drop(tail, n) \in Seq(HttpTokens)
    BY <2>2, TakeIs, DropIs
  <2>4. Cat(done, Take(tail, n)) \in Seq(HttpTokens)
    BY <2>3, CatIs
  <2> QED
    BY <2>1, <2>3, <2>4, <1>1, HttpLoopsIs
<1>2. CASE ~(n < Len(tail))
  <2> DEFINE m == n - Len(tail)
             r == [req EXCEPT !.chunk = m]
  <2>1. HttpChunk(req, done, n, tail) = HttpLoops(r, done, tail)
    BY <1>2 DEF HttpChunk
  <2>2. m \in Nat
    BY <1>2, SeqTypes
  <2> HIDE DEF m
  <2>3. r \in HttpReqs
    BY <2>2, HttpReqSet, Zenon
  <2>4. /\ r.rbuf = req.rbuf /\ r.extra = req.extra /\ r.chunk = m /\ r.length = req.length
        /\ r.chunked = req.chunked /\ r.eof = req.eof
    BY DEF HttpReqs
  <2>5. m = n - Len(tail)
    BY DEF m
  <2> HIDE DEF r
  <2> QED
    BY <2>1, <2>3, <2>4, <2>5, <1>2, HttpLoopsIs
<1> QED
  BY <1>1, <1>2

\* The five outcomes of one pass of the loop over the chunk headers
LEMMA HttpUnchunkCases ==
  ASSUME NEW req \in HttpReqs
  PROVE  LET done == req.ptr.done
             rest == req.ptr.rest
             o == HttpUnchunk(req)
         IN \/ (req.chunk > 0 \/ rest = <<>>) /\ o = HttpDone(req, Cat(done, rest))
            \/ req.chunk = 0 /\ rest # <<>> /\ ~HttpWhole(rest) /\ o = HttpSave(req, done, rest)
            \/ req.chunk = 0 /\ HttpWhole(rest) /\ ~HttpSized(rest) /\ o = HttpGivesUp(req)
            \/ /\ req.chunk = 0 /\ HttpWhole(rest) /\ HttpSized(rest) /\ rest[2][2] = 0
               /\ o = HttpLastChunk(req, done, rest)
            \/ /\ req.chunk = 0 /\ HttpWhole(rest) /\ HttpSized(rest) /\ rest[2][2] # 0
               /\ o = HttpChunk(req, done, rest[2][2], Drop(rest, 3))
<1>1. req.chunk \in Nat /\ req.ptr.rest \in Seq(HttpTokens)
  BY HttpReqTypes
<1> DEFINE rest == req.ptr.rest
           c == req.chunk
<1>2. CASE c > 0 \/ rest = <<>>
  BY <1>2 DEF HttpUnchunk, Cat
<1>3. CASE c = 0 /\ rest # <<>> /\ ~HttpWhole(rest)
  BY <1>3 DEF HttpUnchunk
<1>4. ASSUME c = 0, HttpWhole(rest) PROVE rest # <<>> /\ ~(c > 0)
  BY <1>4 DEF HttpWhole
<1>5. CASE c = 0 /\ HttpWhole(rest) /\ ~HttpSized(rest)
  BY <1>5, <1>4 DEF HttpUnchunk
<1>6. CASE c = 0 /\ HttpWhole(rest) /\ HttpSized(rest) /\ rest[2][2] = 0
  BY <1>6, <1>4 DEF HttpUnchunk
<1>7. CASE c = 0 /\ HttpWhole(rest) /\ HttpSized(rest) /\ rest[2][2] # 0
  BY <1>7, <1>4 DEF HttpUnchunk, Drop
<1> QED
  BY <1>1, <1>2, <1>3, <1>5, <1>6, <1>7

\* A chunk size is a number.
LEMMA HttpSizedIs ==
  ASSUME NEW rest \in Seq(HttpTokens), HttpSized(rest)
  PROVE  rest[2][2] \in Nat /\ Len(rest) > 2 /\ Drop(rest, 3) \in Seq(HttpTokens)
         /\ Len(Drop(rest, 3)) = Len(rest) - 3
<1>1. Len(rest) > 2
  BY DEF HttpSized
<1>2. rest[2][2] \in Nat
  <2>1. PICK t \in HttpTokens : t = rest[2]
    BY <1>1
  <2> QED
    BY <2>1, HttpTokenTypes
<1>3. PICK n \in Nat : n = 3 /\ n <= Len(rest)
  BY <1>1, SeqTypes
<1>4. Drop(rest, n) \in Seq(HttpTokens) /\ Len(Drop(rest, n)) = Len(rest) - n
  BY <1>3, DropIs
<1> QED
  BY <1>1, <1>2, <1>3, <1>4

\* One pass of the loop keeps rfc2068_params well formed.
LEMMA HttpUnchunkTypes ==
  ASSUME NEW req \in HttpReqs
  PROVE  HttpUnchunk(req) \in HttpResults /\ (HttpUnchunk(req).res # "again" => ~HttpUnchunk(req).req.ptr.on)
<1>1. req.ptr.done \in Seq(HttpTokens) /\ req.ptr.rest \in Seq(HttpTokens)
  BY HttpReqTypes
<1> DEFINE done == req.ptr.done
           rest == req.ptr.rest
           o == HttpUnchunk(req)
<1>2. CASE o = HttpDone(req, Cat(done, rest))
  <2>1. Cat(done, rest) \in Seq(HttpTokens)
    BY <1>1, CatIs, Zenon
  <2> QED
    BY <2>1, <1>2, HttpDoneIs, HttpNone
<1>3. CASE o = HttpSave(req, done, rest)
  BY <1>1, <1>3, HttpSaveIs, HttpNone
<1>4. CASE o = HttpGivesUp(req)
  BY <1>4, HttpGivesUpIs, HttpNone
<1>5. CASE HttpSized(rest) /\ o = HttpLastChunk(req, done, rest)
  <2>1. Len(rest) > 2
    BY <1>1, <1>5, HttpSizedIs
  <2>3. PICK d \in Seq(HttpTokens), e \in Seq(HttpTokens) : d = done /\ e = rest
    BY <1>1
  <2>4. HttpLastChunk(req, d, e) \in HttpResults /\ HttpLastChunk(req, d, e).req.ptr = HttpNoPtr
    BY <2>1, <2>3, HttpLastChunkIs, Zenon
  <2>2. HttpLastChunk(req, done, rest) \in HttpResults /\ HttpLastChunk(req, done, rest).req.ptr = HttpNoPtr
    BY <2>3, <2>4
  <2> QED
    BY <2>2, <1>5, HttpNone
<1>6. CASE HttpSized(rest) /\ o = HttpChunk(req, done, rest[2][2], Drop(rest, 3))
  <2>1. rest[2][2] \in Nat /\ Drop(rest, 3) \in Seq(HttpTokens)
    BY <1>1, <1>6, HttpSizedIs
  <2>2. PICK n \in Nat : n = rest[2][2]
    BY <2>1
  <2>3. PICK tail \in Seq(HttpTokens) : tail = Drop(rest, 3)
    BY <2>1
  <2>4. PICK d \in Seq(HttpTokens) : d = done
    BY <1>1
  <2>5. o = HttpChunk(req, d, n, tail)
    BY <2>2, <2>3, <2>4, <1>6
  <2> HIDE DEF o
  <2>6. o.res = "again" /\ o \in HttpResults
    BY <2>5, HttpChunkIs
  <2> QED
    BY <2>6 DEF o
<1>7. \/ o = HttpDone(req, Cat(done, rest))
      \/ o = HttpSave(req, done, rest)
      \/ o = HttpGivesUp(req)
      \/ HttpSized(rest) /\ o = HttpLastChunk(req, done, rest)
      \/ HttpSized(rest) /\ o = HttpChunk(req, done, rest[2][2], Drop(rest, 3))
  BY HttpUnchunkCases
<1> QED
  BY <1>2, <1>3, <1>4, <1>5, <1>6, <1>7

-----------------------------------------------------------------------------
(* The calls above it                                                      *)

\* A call is over.
HttpOver(o) == o \in HttpOuts /\ o.job.at = "none"

\* An outcome is made of the state of the request and of the job.
LEMMA HttpOutIs ==
  ASSUME NEW req \in HttpReqs, NEW job \in HttpJobs, job.at # "none"
  PROVE  HttpOut(req, job) \in HttpOuts /\ HttpOut(req, job).req = req /\ HttpOut(req, job).job = job
BY DEF HttpOut, HttpOuts

\* A call returns.
LEMMA HttpReturnIs ==
  ASSUME NEW req \in HttpReqs, NEW job \in HttpJobs, ~req.ptr.on
  PROVE  /\ HttpOver(HttpReturn(req, job, "ok")) /\ HttpReturn(req, job, "ok").req = req
         /\ HttpOver(HttpReturn(req, job, "retry")) /\ HttpReturn(req, job, "retry").req = req
         /\ HttpOver(HttpReturn(req, job, "fatal")) /\ HttpReturn(req, job, "fatal").req = req
<1>1. ASSUME NEW ret \in HttpRets
      PROVE  HttpOver(HttpReturn(req, job, ret)) /\ HttpReturn(req, job, ret).req = req
  <2> DEFINE j == [HttpNoJob EXCEPT !.op = job.op, !.ret = ret]
  <2>1. PICK op \in HttpOps : op = job.op
    BY HttpJobTypes
  <2>2. [HttpNoJob EXCEPT !.op = op, !.ret = ret] \in HttpJobs
    BY HttpNewTypes, HttpJobSet, Zenon
  <2>3. j \in HttpJobs
    BY <2>1, <2>2
  <2>4. j.at = "none" /\ j.got = <<>>
    BY DEF HttpNoJob
  <2>5. HttpReturn(req, job, ret) = [req |-> req, job |-> j]
    BY DEF HttpReturn, HttpOut
  <2> HIDE DEF j
  <2> QED
    BY <2>3, <2>4, <2>5 DEF HttpOver, HttpOuts
<1>2. PICK a \in HttpRets, b \in HttpRets, c \in HttpRets : a = "ok" /\ b = "retry" /\ c = "fatal"
  BY DEF HttpRets
<1>3. /\ HttpOver(HttpReturn(req, job, a)) /\ HttpReturn(req, job, a).req = req
      /\ HttpOver(HttpReturn(req, job, b)) /\ HttpReturn(req, job, b).req = req
      /\ HttpOver(HttpReturn(req, job, c)) /\ HttpReturn(req, job, c).req = req
  BY <1>1
<1> QED
  BY <1>2, <1>3

\* rfc2068_disconnect() keeps the buffers.
LEMMA HttpDroppedIs ==
  ASSUME NEW req \in HttpReqs
  PROVE  HttpDropped(req) \in HttpReqs /\ HttpDropped(req).ptr = req.ptr
<1>1. HttpDropped(req) \in HttpReqs
  BY HttpReqSet, Zenon DEF HttpDropped
<1>2. HttpDropped(req).ptr = req.ptr
  BY DEF HttpDropped, HttpReqs
<1> QED
  BY <1>1, <1>2

\* rfc2068_end_transfer() ends the job.
LEMMA HttpEndIs ==
  ASSUME NEW req \in HttpReqs, NEW job \in HttpJobs, ~req.ptr.on
  PROVE  HttpOver(HttpEnd(req, job)) /\ HttpEnd(req, job).req \in HttpReqs /\ ~HttpEnd(req, job).req.ptr.on
<1>1. CASE ~req.up
  BY <1>1, HttpReturnIs DEF HttpEnd
<1>2. CASE req.up
  <2> DEFINE d == HttpDropped(req)
             r == [d EXCEPT !.length = 0, !.chunked = FALSE, !.chunk = 0, !.eof = FALSE]
  <2>1. d \in HttpReqs /\ d.ptr = req.ptr
    BY HttpDroppedIs
  <2> HIDE DEF d
  <2>2. r \in HttpReqs
    <3>1. PICK z \in Nat : z = 0
      OBVIOUS
    <3>2. [d EXCEPT !.length = z, !.chunked = FALSE, !.chunk = z, !.eof = FALSE] \in HttpReqs
      BY <2>1, HttpReqSet, Zenon
    <3> QED
      BY <3>1, <3>2
  <2>3. r.ptr = d.ptr
    BY <2>1 DEF HttpReqs
  <2>4. HttpEnd(req, job) = HttpReturn(r, job, "ok")
    BY <1>2 DEF HttpEnd, d
  <2> HIDE DEF r
  <2> QED
    BY <2>1, <2>2, <2>3, <2>4, HttpReturnIs
<1> QED
  BY <1>1, <1>2

\* The response is there: the call is over, or its body is next.
LEMMA HttpResponseIs ==
  ASSUME NEW req \in HttpReqs, NEW job \in HttpJobs, ~req.ptr.on
  PROVE  LET o == HttpResponse(req, job)
         IN \/ HttpOver(o)
            \/ /\ o \in HttpOuts /\ o.req \in HttpReqs /\ o.job \in HttpJobs
               /\ \/ /\ job.op = "get" /\ job.status \in {200, 206} /\ o.job.at = "body"
                     /\ o.job.first = (IF job.status = 206 THEN job.start ELSE 0)
                  \/ job.op = "list" /\ job.status = 200 /\ o.job.at = "list" /\ o.job.first = job.first
               /\ o.job.got = job.got /\ o.job.op = job.op /\ o.job.clean = job.clean
               /\ o.req.ptr = req.ptr /\ o.req.rbuf = req.rbuf /\ o.req.extra = req.extra /\ o.req.chunk = req.chunk
               /\ o.req.length = req.length /\ o.req.chunked = req.chunked /\ o.req.eof = req.eof
<1> DEFINE r == [req EXCEPT !.read = 0]
           o == HttpResponse(req, job)
<1>1. r \in HttpReqs
  <2>1. PICK z \in Nat : z = 0
    OBVIOUS
  <2> QED
    BY <2>1, HttpReqSet, Zenon
<1>2. /\ r.ptr = req.ptr /\ r.rbuf = req.rbuf /\ r.extra = req.extra /\ r.chunk = req.chunk
      /\ r.length = req.length /\ r.chunked = req.chunked /\ r.eof = req.eof
  BY DEF HttpReqs
<1>3. CASE job.op = "head"
  BY <1>3, HttpReturnIs DEF HttpResponse
<1>4. CASE job.op = "get" /\ job.status \in {200, 206}
  <2> DEFINE f == IF job.status = 206 THEN job.start ELSE 0
             j == [job EXCEPT !.at = "body", !.first = f]
  <2>1. f \in 0..HttpSize
    BY HttpJobTypes, HttpSizeAssumption
  <2>2. o = HttpOut(r, j)
    BY <1>4 DEF HttpResponse
  <2>3. PICK g \in 0..HttpSize : g = f
    BY <2>1
  <2> HIDE DEF f, r, o
  <2>4. j \in HttpJobs
    <3>1. PICK a \in HttpAts : a = "body"
      BY DEF HttpAts
    <3>2. [job EXCEPT !.at = a, !.first = f] \in HttpJobs
      BY <2>1, HttpJobSet, Zenon
    <3> QED
      BY <3>1, <3>2
  <2>5. j.at = "body" /\ j.first = f /\ j.got = job.got /\ j.op = job.op /\ j.clean = job.clean
    BY DEF HttpJobs
  <2> HIDE DEF j
  <2>6. o \in HttpOuts /\ o.req = r /\ o.job = j
    BY <2>2, <2>4, <2>5, <1>1, HttpOutIs
  <2>7. j.first = IF job.status = 206 THEN job.start ELSE 0
    BY <2>5 DEF f
  <2> QED
    BY <2>4, <2>5, <2>6, <2>7, <1>1, <1>2, <1>4 DEF o
<1>5. CASE job.op = "get" /\ job.status \notin {200, 206}
  BY <1>5, HttpReturnIs DEF HttpResponse
<1>6. CASE job.op = "list" /\ job.status = 200
  <2> DEFINE j == [job EXCEPT !.at = "list"]
  <2>1. o = HttpOut(r, j)
    BY <1>6 DEF HttpResponse
  <2>2. j \in HttpJobs
    <3>1. PICK a \in HttpAts : a = "list"
      BY DEF HttpAts
    <3> QED
      BY <3>1, HttpJobSet
  <2>3. j.at = "list" /\ j.first = job.first /\ j.got = job.got /\ j.op = job.op /\ j.clean = job.clean
    BY DEF HttpJobs
  <2> HIDE DEF j, r, o
  <2>4. o \in HttpOuts /\ o.req = r /\ o.job = j
    BY <2>1, <2>2, <2>3, <1>1, HttpOutIs
  <2> QED
    BY <2>2, <2>3, <2>4, <1>1, <1>2, <1>6 DEF o
<1>7. CASE job.op \notin {"head", "get"} /\ ~(job.op = "list" /\ job.status = 200)
  <2>1. o = HttpReturn(HttpEnd(r, job).req, job, "retry")
    BY <1>7 DEF HttpResponse
  <2> HIDE DEF r
  <2>2. HttpEnd(r, job).req \in HttpReqs /\ ~HttpEnd(r, job).req.ptr.on
    BY <1>1, <1>2, HttpEndIs
  <2>3. PICK q \in HttpReqs : q = HttpEnd(r, job).req /\ ~q.ptr.on
    BY <2>2
  <2> QED
    BY <2>1, <2>3, HttpReturnIs
<1> QED
  BY <1>3, <1>4, <1>5, <1>6, <1>7

\* The body comes next, in the state the buffers are in.
HttpBegins(o, req, job) ==
  /\ o \in HttpOuts /\ o.req \in HttpReqs /\ o.job \in HttpJobs
  /\ \/ /\ job.op = "get" /\ job.status \in {200, 206} /\ o.job.at = "body"
        /\ o.job.first = (IF job.status = 206 THEN job.start ELSE 0)
     \/ job.op = "list" /\ job.status = 200 /\ o.job.at = "list" /\ o.job.first = job.first
  /\ o.job.got = job.got /\ o.job.op = job.op /\ o.job.clean = job.clean
  /\ o.req.ptr = req.ptr /\ o.req.rbuf = req.rbuf /\ o.req.extra = req.extra /\ o.req.chunk = req.chunk
  /\ o.req.length = req.length /\ o.req.chunked = req.chunked /\ o.req.eof = req.eof

\* After the response the call is over, or the body comes next.
LEMMA HttpResponseBegins ==
  ASSUME NEW req \in HttpReqs, NEW job \in HttpJobs, ~req.ptr.on
  PROVE  HttpOver(HttpResponse(req, job)) \/ HttpBegins(HttpResponse(req, job), req, job)
BY HttpResponseIs DEF HttpBegins

\* The end of the headers
LEMMA HttpHeadersIs ==
  ASSUME NEW req \in HttpReqs, NEW job \in HttpJobs, ~req.ptr.on
  PROVE  LET o == HttpHeaders(req, job)
         IN /\ job.chunked =>
                 /\ o \in HttpOuts /\ o.req = req /\ o.job \in HttpJobs /\ o.job.at = "size"
                 /\ o.job.op = job.op /\ o.job.start = job.start /\ o.job.first = job.first /\ o.job.status = job.status
                 /\ o.job.got = job.got /\ o.job.clean = job.clean /\ o.job.chunked = job.chunked
            /\ ~job.chunked =>
                 \/ HttpOver(o)
                 \/ \E r \in HttpReqs :
                      /\ HttpBegins(o, r, job)
                      /\ r.ptr = req.ptr /\ r.rbuf = req.rbuf /\ r.extra = req.extra /\ r.chunk = req.chunk
                      /\ r.length = req.length /\ r.chunked = FALSE /\ r.eof = req.eof
<1> DEFINE o == HttpHeaders(req, job)
<1>1. CASE job.chunked
  <2> DEFINE j == [job EXCEPT !.at = "size"]
  <2>1. o = HttpOut(req, j)
    BY <1>1 DEF HttpHeaders
  <2>2. j \in HttpJobs
    <3>1. PICK a \in HttpAts : a = "size"
      BY DEF HttpAts
    <3> QED
      BY <3>1, HttpJobSet
  <2>3. /\ j.at = "size" /\ j.op = job.op /\ j.start = job.start /\ j.first = job.first /\ j.status = job.status
        /\ j.got = job.got /\ j.clean = job.clean /\ j.chunked = job.chunked
    BY DEF HttpJobs
  <2> HIDE DEF j, o
  <2>4. o \in HttpOuts /\ o.req = req /\ o.job = j
    BY <2>1, <2>2, <2>3, HttpOutIs
  <2> QED
    BY <2>2, <2>3, <2>4, <1>1, Zenon DEF o
<1>2. CASE ~job.chunked
  <2> DEFINE r == [req EXCEPT !.chunked = FALSE]
  <2>1. o = HttpResponse(r, job)
    BY <1>2 DEF HttpHeaders
  <2>2. r \in HttpReqs
    BY HttpReqSet, Zenon
  <2>3. /\ r.ptr = req.ptr /\ r.rbuf = req.rbuf /\ r.extra = req.extra /\ r.chunk = req.chunk
        /\ r.length = req.length /\ r.chunked = FALSE /\ r.eof = req.eof
    BY DEF HttpReqs
  <2> HIDE DEF r, o
  <2>4. HttpOver(o) \/ HttpBegins(o, r, job)
    BY <2>1, <2>2, <2>3, HttpResponseBegins
  <2> QED
    BY <2>2, <2>3, <2>4, <1>2 DEF o
<1> QED
  BY <1>1, <1>2, Zenon

\* The size of the first chunk: none, all that is in the line buffer, or not all of it
LEMMA HttpFirstChunkIs ==
  ASSUME NEW req \in HttpReqs, NEW job \in HttpJobs, ~req.ptr.on, NEW n \in Nat
  PROVE  LET o == HttpFirstChunk(req, job, n)
             b == req.rbuf.data
         IN \/ HttpOver(o)
            \/ \E r \in HttpReqs :
                 /\ HttpBegins(o, r, job)
                 /\ r.ptr = req.ptr /\ r.length = req.length /\ r.eof = req.eof /\ r.rbuf.on = req.rbuf.on
                 /\ \/ n = 0 /\ r.chunked = req.chunked /\ r.chunk = 0 /\ r.rbuf = req.rbuf /\ r.extra = req.extra
                    \/ /\ n > 0 /\ n >= Len(b) /\ r.chunked = TRUE /\ r.chunk = n - Len(b) /\ r.rbuf = req.rbuf
                       /\ r.extra = req.extra
                    \/ /\ n > 0 /\ n < Len(b) /\ r.chunked = TRUE /\ r.chunk = 0
                       /\ r.rbuf.data = Take(b, n) /\ r.extra = Drop(b, n)
<1> DEFINE o == HttpFirstChunk(req, job, n)
           b == req.rbuf.data
<1>1. b \in Seq(HttpTokens) /\ Len(b) \in Nat /\ req.rbuf \in HttpBufs /\ (b = <<>> \/ req.rbuf.on)
  BY HttpReqTypes, SeqTypes
<1>2. CASE n = 0
  <2> DEFINE r == [req EXCEPT !.chunk = 0]
  <2>1. o = HttpResponse(r, job)
    BY <1>2 DEF HttpFirstChunk
  <2>2. r \in HttpReqs
    <3>1. PICK z \in Nat : z = 0
      OBVIOUS
    <3> QED
      BY <3>1, HttpReqSet, Zenon
  <2>3. /\ r.ptr = req.ptr /\ r.rbuf = req.rbuf /\ r.extra = req.extra /\ r.chunk = 0
        /\ r.length = req.length /\ r.chunked = req.chunked /\ r.eof = req.eof
    BY DEF HttpReqs
  <2> HIDE DEF r, o
  <2>4. HttpOver(o) \/ HttpBegins(o, r, job)
    BY <2>1, <2>2, <2>3, HttpResponseBegins
  <2> QED
    BY <2>2, <2>3, <2>4, <1>2 DEF o
<1>3. CASE n > 0 /\ n >= Len(b)
  <2> DEFINE m == n - Len(b)
             r == [req EXCEPT !.chunked = TRUE, !.chunk = m]
  <2>1. o = HttpResponse(r, job)
    BY <1>3 DEF HttpFirstChunk
  <2>2. m \in Nat
    BY <1>1, <1>3
  <2> HIDE DEF m
  <2>3. r \in HttpReqs
    BY <2>2, HttpReqSet, Zenon
  <2>4. /\ r.ptr = req.ptr /\ r.rbuf = req.rbuf /\ r.extra = req.extra /\ r.chunk = m
        /\ r.length = req.length /\ r.chunked = TRUE /\ r.eof = req.eof
    BY DEF HttpReqs
  <2> HIDE DEF r, o
  <2>5. HttpOver(o) \/ HttpBegins(o, r, job)
    BY <2>1, <2>3, <2>4, HttpResponseBegins
  <2>6. r.chunk = n - Len(b) /\ r.rbuf.on = req.rbuf.on
    BY <2>4 DEF m
  <2> QED
    BY <2>3, <2>4, <2>5, <2>6, <1>3 DEF o
<1>4. CASE n > 0 /\ n < Len(b)
  <2> DEFINE t == Take(b, n)
             d == Drop(b, n)
             buf == [req.rbuf EXCEPT !.data = t]
             r == [req EXCEPT !.chunked = TRUE, !.chunk = 0, !.rbuf.data = t, !.extra = d]
  <2>1. o = HttpResponse(r, job)
    <3>1. ~(n = 0) /\ ~(n > 0 /\ n >= Len(b))
      BY <1>1, <1>4
    <3> QED
      BY <3>1 DEF HttpFirstChunk, Take, Drop
  <2>2. t \in Seq(HttpTokens) /\ d \in Seq(HttpTokens)
    BY <1>1, <1>4, TakeIs, DropIs
  <2>3. req.rbuf.on
    BY <1>1, <1>4
  <2> HIDE DEF t, d
  <2>4. buf \in HttpBufs /\ buf.on = req.rbuf.on /\ buf.data = t
    BY <2>2, <2>3, <1>1, Zenon DEF HttpBufs
  <2>5. r = [req EXCEPT !.chunked = TRUE, !.chunk = 0, !.rbuf = buf, !.extra = d]
    OBVIOUS
  <2> HIDE DEF buf
  <2>6. r \in HttpReqs
    <3>1. PICK z \in Nat : z = 0
      OBVIOUS
    <3>2. [req EXCEPT !.chunked = TRUE, !.chunk = z, !.rbuf = buf, !.extra = d] \in HttpReqs
      BY <2>2, <2>4, HttpReqSet, Zenon
    <3> QED
      BY <2>5, <3>1, <3>2
  <2>7. /\ r.ptr = req.ptr /\ r.rbuf = buf /\ r.extra = d /\ r.chunk = 0
        /\ r.length = req.length /\ r.chunked = TRUE /\ r.eof = req.eof
    BY <2>5, Zenon DEF HttpReqs
  <2> HIDE DEF r, o
  <2>8. HttpOver(o) \/ HttpBegins(o, r, job)
    BY <2>1, <2>6, <2>7, HttpResponseBegins
  <2>9. r.rbuf.data = Take(b, n) /\ r.extra = Drop(b, n) /\ r.rbuf.on = req.rbuf.on
    BY <2>4, <2>7 DEF t, d
  <2> QED
    BY <2>6, <2>7, <2>8, <2>9, <1>4 DEF o
<1>5. n = 0 \/ (n > 0 /\ n >= Len(b)) \/ (n > 0 /\ n < Len(b))
  BY <1>1
<1> QED
  BY <1>2, <1>3, <1>4, <1>5, Zenon

\* A chunk header is wrong: the call is over.
LEMMA HttpWrongIs ==
  ASSUME NEW req \in HttpReqs, NEW job \in HttpJobs, ~req.ptr.on
  PROVE  HttpOver(HttpWrong(req, job))
<1>1. PICK d \in HttpReqs : d = HttpDropped(req) /\ ~d.ptr.on
  BY HttpDroppedIs
<1> QED
  BY <1>1, HttpReturnIs DEF HttpWrong

\* A header line
LEMMA HttpHeaderIs ==
  ASSUME NEW req \in HttpReqs, NEW job \in HttpJobs, job.at # "none", NEW h \in HttpTokens
  PROVE  LET o == HttpHeader(req, job, h)
         IN /\ o \in HttpOuts /\ o.req \in HttpReqs /\ o.job \in HttpJobs
            /\ o.req.ptr = req.ptr /\ o.req.rbuf = req.rbuf /\ o.req.extra = req.extra /\ o.req.chunk = req.chunk
            /\ o.req.length = (IF h[1] = "length" THEN h[2] ELSE req.length)
            /\ o.req.chunked = req.chunked /\ o.req.eof = req.eof
            /\ o.job.at = job.at /\ o.job.op = job.op /\ o.job.start = job.start /\ o.job.first = job.first
            /\ o.job.got = job.got /\ o.job.clean = job.clean /\ o.job.line
            /\ o.job.chunked <=> job.chunked \/ h[1] = "chunked"
            /\ o.job.status = (IF job.line THEN job.status ELSE IF h[1] = "status" THEN h[2] ELSE 0)
<1> DEFINE n == IF h[1] = "length" THEN h[2] ELSE req.length
           r == IF h[1] = "length" THEN [req EXCEPT !.length = h[2]] ELSE req
           c == job.chunked \/ h[1] = "chunked"
           s == IF job.line THEN job.status ELSE IF h[1] = "status" THEN h[2] ELSE 0
           j == [job EXCEPT !.line = TRUE, !.chunked = c, !.status = s]
           o == HttpHeader(req, job, h)
<1>1. h[2] \in Nat /\ (h[1] = "status" => h[2] \in {200, 206, 404})
  BY HttpTokenTypes
<1>2. r \in HttpReqs
  <2>1. PICK m \in Nat : m = h[2]
    BY <1>1
  <2>2. [req EXCEPT !.length = m] \in HttpReqs
    BY HttpReqSet, Zenon
  <2> QED
    BY <2>1, <2>2
<1>3. /\ r.ptr = req.ptr /\ r.rbuf = req.rbuf /\ r.extra = req.extra /\ r.chunk = req.chunk /\ r.length = n
      /\ r.chunked = req.chunked /\ r.eof = req.eof
  BY DEF HttpReqs
<1>4. s \in HttpCodes
  BY <1>1, HttpJobTypes DEF HttpCodes
<1>5. c \in BOOLEAN
  BY HttpJobTypes
<1>6. o = HttpOut(r, j)
  BY DEF HttpHeader
<1>7. s = (IF job.line THEN job.status ELSE IF h[1] = "status" THEN h[2] ELSE 0)
  OBVIOUS
<1>8. c <=> job.chunked \/ h[1] = "chunked"
  OBVIOUS
<1>9. n = (IF h[1] = "length" THEN h[2] ELSE req.length)
  OBVIOUS
<1> HIDE DEF r, s, c, o, n
<1>10. j \in HttpJobs
  <2>1. PICK t \in BOOLEAN : t = TRUE
    BY Zenon
  <2>2. [job EXCEPT !.line = t, !.chunked = c, !.status = s] \in HttpJobs
    BY <1>4, <1>5, HttpJobSet, Zenon
  <2> QED
    BY <2>1, <2>2
<1>11. /\ j.at = job.at /\ j.op = job.op /\ j.start = job.start /\ j.first = job.first /\ j.status = s
       /\ j.got = job.got /\ j.clean = job.clean /\ j.line = TRUE /\ j.chunked = c
  BY DEF HttpJobs
<1> HIDE DEF j
<1>12. o \in HttpOuts /\ o.req = r /\ o.job = j
  BY <1>2, <1>6, <1>10, <1>11, HttpOutIs
<1> QED
  BY <1>2, <1>3, <1>7, <1>8, <1>9, <1>10, <1>11, <1>12 DEF o

\* The line of an entry goes to the list.
HttpEntry(req, job, h) == HttpOut(req, IF h[1] = "d" THEN [job EXCEPT !.got = Append(@, h)] ELSE job)

\* What becomes of a line of the listing
LEMMA HttpEntryIs ==
  ASSUME NEW req \in HttpReqs, NEW job \in HttpJobs, job.at # "none", NEW h \in HttpTokens
  PROVE  LET o == HttpEntry(req, job, h)
         IN /\ o \in HttpOuts /\ o.req = req /\ o.job \in HttpJobs
            /\ o.job.at = job.at /\ o.job.op = job.op /\ o.job.start = job.start /\ o.job.first = job.first
            /\ o.job.clean = job.clean
            /\ o.job.got = (IF h[1] = "d" THEN Append(job.got, h) ELSE job.got)
<1> DEFINE j == IF h[1] = "d" THEN [job EXCEPT !.got = Append(@, h)] ELSE job
           o == HttpEntry(req, job, h)
<1>1. Append(job.got, h) \in Seq(HttpTokens)
  BY HttpJobTypes
<1>2. j \in HttpJobs
  BY <1>1, HttpJobSet, Zenon
<1>3. /\ j.at = job.at /\ j.op = job.op /\ j.start = job.start /\ j.first = job.first /\ j.clean = job.clean
      /\ j.got = (IF h[1] = "d" THEN Append(job.got, h) ELSE job.got)
  BY DEF HttpJobs
<1>4. o = HttpOut(req, j)
  BY DEF HttpEntry
<1> HIDE DEF j, o
<1>5. o \in HttpOuts /\ o.req = req /\ o.job = j
  BY <1>2, <1>3, <1>4, HttpOutIs
<1> QED
  BY <1>2, <1>3, <1>5 DEF o

\* The places a line is read for
LEMMA HttpTakeLineCases ==
  ASSUME NEW req \in HttpReqs, NEW job \in HttpJobs, NEW h \in HttpTokens, job.at \in {"headers", "size", "list"}
  PROVE  LET o == HttpTakeLine(req, job, h)
         IN \/ job.at = "headers" /\ h = HttpCrlf /\ o = HttpHeaders(req, job)
            \/ job.at = "headers" /\ h # HttpCrlf /\ o = HttpHeader(req, job, h)
            \/ job.at = "size" /\ h[1] = "size" /\ o = HttpFirstChunk(req, job, h[2])
            \/ job.at = "size" /\ h[1] # "size" /\ o = HttpWrong(req, job)
            \/ job.at = "list" /\ o = HttpEntry(req, job, h)
<1>1. CASE job.at = "headers"
  BY <1>1 DEF HttpTakeLine
<1>2. CASE job.at = "size"
  BY <1>2 DEF HttpTakeLine
<1>3. CASE job.at = "list"
  <2> DEFINE j == HttpEntry(req, job, h)
  <2>1. /\ ~(job.at = "headers" /\ h = HttpCrlf) /\ ~(job.at = "headers" /\ h # HttpCrlf)
        /\ ~(job.at = "size" /\ h[1] = "size") /\ ~(job.at = "size" /\ h[1] # "size")
    BY <1>3
  <2>2. HttpTakeLine(req, job, h) = HttpEntry(req, job, h)
    BY <2>1 DEF HttpTakeLine, HttpEntry
  <2> QED
    BY <2>2, <1>3
<1> QED
  BY <1>1, <1>2, <1>3

\* A line is taken.
LEMMA HttpTakeLineTypes ==
  ASSUME NEW req \in HttpReqs, NEW job \in HttpJobs, NEW h \in HttpTokens, job.at \in {"headers", "size", "list"},
         ~req.ptr.on
  PROVE  HttpTakeLine(req, job, h) \in HttpOuts
<1> DEFINE o == HttpTakeLine(req, job, h)
<1>1. CASE o = HttpHeaders(req, job)
  <2>1. HttpHeaders(req, job) \in HttpOuts
    BY HttpHeadersIs, Zenon DEF HttpBegins, HttpOver
  <2> QED
    BY <1>1, <2>1
<1>2. CASE o = HttpHeader(req, job, h)
  BY <1>2, HttpHeaderIs
<1>3. CASE h[1] = "size" /\ o = HttpFirstChunk(req, job, h[2])
  <2>1. PICK n \in Nat : n = h[2]
    BY HttpTokenTypes
  <2>2. HttpFirstChunk(req, job, n) \in HttpOuts
    BY HttpFirstChunkIs, Zenon DEF HttpBegins, HttpOver
  <2> QED
    BY <1>3, <2>1, <2>2
<1>4. CASE o = HttpWrong(req, job)
  BY <1>4, HttpWrongIs DEF HttpOver
<1>5. CASE o = HttpEntry(req, job, h)
  BY <1>5, HttpEntryIs
<1> QED
  BY <1>1, <1>2, <1>3, <1>4, <1>5, HttpTakeLineCases

\* Without a line: the buffer is gone, and the call with it unless it waits for the headers.
LEMMA HttpNoLineIs ==
  ASSUME NEW req \in HttpReqs, NEW job \in HttpJobs, job.at \in {"headers", "size", "list"}, ~req.ptr.on
  PROVE  LET o == HttpNoLine(req, job)
         IN \/ HttpOver(o)
            \/ \E r \in HttpReqs :
                 /\ r.ptr = req.ptr /\ r.rbuf = HttpNoBuf /\ r.extra = req.extra /\ r.chunk = req.chunk
                 /\ r.length = req.length /\ r.chunked = req.chunked /\ r.eof = req.eof
                 /\ job.at = "headers"
                 /\ \/ job.line /\ o = HttpOut(r, job)
                    \/ ~job.line /\ o = HttpHeaders(r, job)
<1> DEFINE o == HttpNoLine(req, job)
           r == [req EXCEPT !.rbuf = HttpNoBuf]
<1>1. r \in HttpReqs
  BY HttpReqSet, HttpNone, Zenon
<1>2. /\ r.ptr = req.ptr /\ r.rbuf = HttpNoBuf /\ r.extra = req.extra /\ r.chunk = req.chunk
      /\ r.length = req.length /\ r.chunked = req.chunked /\ r.eof = req.eof
  BY DEF HttpReqs
<1>3. CASE job.at = "headers" /\ job.line
  BY <1>1, <1>2, <1>3, Zenon DEF HttpNoLine
<1>4. CASE job.at = "headers" /\ ~job.line
  BY <1>1, <1>2, <1>4, Zenon DEF HttpNoLine
<1>5. CASE job.at = "size"
  <2>1. o = HttpWrong(r, job)
    BY <1>5 DEF HttpNoLine
  <2> HIDE DEF r
  <2> QED
    BY <2>1, <1>1, <1>2, HttpWrongIs
<1>6. CASE job.at = "list"
  <2>1. o = HttpEnd(r, job)
    BY <1>6 DEF HttpNoLine
  <2> HIDE DEF r
  <2> QED
    BY <2>1, <1>1, <1>2, HttpEndIs
<1> QED
  BY <1>3, <1>4, <1>5, <1>6

\* No line is taken.
LEMMA HttpNoLineTypes ==
  ASSUME NEW req \in HttpReqs, NEW job \in HttpJobs, job.at \in {"headers", "size", "list"}, ~req.ptr.on
  PROVE  HttpNoLine(req, job) \in HttpOuts
<1> DEFINE o == HttpNoLine(req, job)
<1>1. CASE HttpOver(o)
  BY <1>1 DEF HttpOver
<1>2. ASSUME NEW r \in HttpReqs, r.ptr = req.ptr, o = HttpOut(r, job) \/ o = HttpHeaders(r, job)
      PROVE  o \in HttpOuts
  <2>1. HttpOut(r, job) \in HttpOuts
    BY HttpOutIs
  <2>2. HttpHeaders(r, job) \in HttpOuts
    BY <1>2, HttpHeadersIs, ZenonT(60) DEF HttpBegins, HttpOver
  <2> QED
    BY <1>2, <2>1, <2>2
<1> QED
  BY <1>1, <1>2, HttpNoLineIs

\* A read, or none, gives data at once, or sets out on the loop over the chunk headers.
LEMMA HttpChunkedReadIs ==
  ASSUME NEW req \in HttpReqs, NEW got \in Seq(HttpTokens), ~req.ptr.on
  PROVE  LET o == HttpChunkedRead(req, got)
         IN /\ o \in HttpResults /\ o.req \in HttpReqs
            /\ o.req.rbuf = req.rbuf /\ o.req.length = req.length /\ o.req.chunked = req.chunked /\ o.req.eof = req.eof
            /\ \/ /\ HttpAllRead(req)
                  /\ o.res = "data" /\ o.data = <<>> /\ o.req.ptr = HttpNoPtr
                  /\ o.req.extra = req.extra /\ o.req.chunk = req.chunk
               \/ /\ got # <<>> /\ req.chunk > 0
                  /\ o.res = "data" /\ o.data = got /\ o.req.ptr = HttpNoPtr /\ o.req.extra = <<>>
                  /\ o.req.chunk = IF req.chunk > Len(got) THEN req.chunk - Len(got) ELSE 0
               \/ /\ ~(got # <<>> /\ req.chunk > 0) /\ ~req.chunked
                  /\ o.res = "data" /\ o.data = Cat(req.extra, got) /\ o.req.ptr = HttpNoPtr
                  /\ o.req.extra = <<>> /\ o.req.chunk = req.chunk
               \/ /\ ~(got # <<>> /\ req.chunk > 0) /\ req.chunked
                  /\ o.res = "again" /\ o.req.ptr.on /\ o.req.ptr.done = <<>> /\ o.req.ptr.rest = Cat(req.extra, got)
                  /\ o.req.extra = <<>> /\ o.req.chunk = req.chunk
<1> DEFINE o == HttpChunkedRead(req, got)
           n == HttpCount(req.read + Len(got))
           r == [req EXCEPT !.read = n, !.extra = <<>>]
           a == HttpAllRead(req)
           b == got # <<>> /\ req.chunk > 0
<1>1. n \in Nat
  <2>1. req.read \in Nat /\ Len(got) \in Nat /\ HttpSize \in Nat
    BY HttpReqTypes, SeqTypes, HttpSizeAssumption
  <2> QED
    BY <2>1 DEF HttpCount
<1> HIDE DEF n
<1>2. r \in HttpReqs
  <2>1. PICK e \in Seq(HttpTokens) : e = <<>>
    BY HttpEmpty, Zenon
  <2>2. [req EXCEPT !.read = n, !.extra = e] \in HttpReqs
    BY <1>1, HttpReqSet, Zenon
  <2> QED
    BY <2>1, <2>2
<1>3. /\ r.ptr = req.ptr /\ r.rbuf = req.rbuf /\ r.extra = <<>> /\ r.chunk = req.chunk
      /\ r.length = req.length /\ r.chunked = req.chunked /\ r.eof = req.eof
  BY DEF HttpReqs
<1>4. req.extra \in Seq(HttpTokens) /\ req.chunk \in Nat
  BY HttpReqTypes
<1>5. PICK all \in Seq(HttpTokens) : all = Cat(req.extra, got)
  BY <1>4, CatIs, Zenon
<1>6. PICK none \in Seq(HttpTokens) : none = <<>>
  BY HttpEmpty, Zenon
<1> DEFINE m == IF req.chunk > Len(got) THEN req.chunk - Len(got) ELSE 0
           cases == CASE a -> HttpDone(req, <<>>)
                      [] ~a /\ b -> HttpDone([r EXCEPT !.chunk = IF @ > Len(got) THEN @ - Len(got) ELSE 0], got)
                      [] ~a /\ ~b /\ ~req.chunked -> HttpDone(r, Cat(req.extra, got))
                      [] OTHER -> HttpLoops(r, <<>>, Cat(req.extra, got))
<1>11. o = cases
  BY DEF HttpChunkedRead, Cat, n
<1>12. [r EXCEPT !.chunk = IF @ > Len(got) THEN @ - Len(got) ELSE 0] = [r EXCEPT !.chunk = m]
  BY <1>3
<1> HIDE DEF r, o, m
<1>7. CASE a
  <2>1. o = HttpDone(req, none)
    BY <1>6, <1>7, <1>11
  <2>2. /\ o \in HttpResults /\ o.res = "data" /\ o.data = none /\ o.req \in HttpReqs
        /\ o.req.ptr = HttpNoPtr /\ o.req.rbuf = req.rbuf /\ o.req.extra = req.extra /\ o.req.chunk = req.chunk
        /\ o.req.length = req.length /\ o.req.chunked = req.chunked /\ o.req.eof = req.eof
    BY <2>1, HttpDoneIs
  <2> QED
    BY <2>2, <1>6, <1>7 DEF o
<1>8. CASE ~a /\ b
  <2> DEFINE q == [r EXCEPT !.chunk = m]
  <2>1. o = HttpDone(q, got)
    BY <1>8, <1>11, <1>12
  <2>2. m \in Nat
    BY <1>4, SeqTypes DEF m
  <2>3. m = IF req.chunk > Len(got) THEN req.chunk - Len(got) ELSE 0
    BY DEF m
  <2>4. q \in HttpReqs
    BY <1>2, <2>2, HttpReqSet, Zenon
  <2>5. /\ q.rbuf = r.rbuf /\ q.extra = r.extra /\ q.chunk = m
        /\ q.length = r.length /\ q.chunked = r.chunked /\ q.eof = r.eof
    BY <1>2 DEF HttpReqs
  <2> HIDE DEF q
  <2>6. /\ o \in HttpResults /\ o.res = "data" /\ o.data = got /\ o.req \in HttpReqs
        /\ o.req.ptr = HttpNoPtr /\ o.req.rbuf = q.rbuf /\ o.req.extra = q.extra /\ o.req.chunk = q.chunk
        /\ o.req.length = q.length /\ o.req.chunked = q.chunked /\ o.req.eof = q.eof
    BY <2>1, <2>4, HttpDoneIs
  <2> QED
    BY <2>3, <2>5, <2>6, <1>3, <1>8 DEF o
<1>9. CASE ~a /\ ~b /\ ~req.chunked
  <2>1. o = HttpDone(r, all)
    BY <1>5, <1>9, <1>11
  <2>2. /\ o \in HttpResults /\ o.res = "data" /\ o.data = all /\ o.req \in HttpReqs
        /\ o.req.ptr = HttpNoPtr /\ o.req.rbuf = r.rbuf /\ o.req.extra = r.extra /\ o.req.chunk = r.chunk
        /\ o.req.length = r.length /\ o.req.chunked = r.chunked /\ o.req.eof = r.eof
    BY <2>1, <1>2, HttpDoneIs
  <2> QED
    BY <2>2, <1>3, <1>5, <1>9 DEF o
<1>10. CASE ~a /\ ~b /\ req.chunked
  <2>1. o = HttpLoops(r, none, all)
    BY <1>5, <1>6, <1>10, <1>11
  <2>2. /\ o \in HttpResults /\ o.res = "again" /\ o.req \in HttpReqs
        /\ o.req.ptr.on /\ o.req.ptr.done = none /\ o.req.ptr.rest = all
        /\ o.req.rbuf = r.rbuf /\ o.req.extra = r.extra /\ o.req.chunk = r.chunk
        /\ o.req.length = r.length /\ o.req.chunked = r.chunked /\ o.req.eof = r.eof
    BY <2>1, <1>2, HttpLoopsIs
  <2> QED
    BY <2>2, <1>3, <1>5, <1>6, <1>10 DEF o
<1> QED
  BY <1>7, <1>8, <1>9, <1>10

\* What becomes of data for the line buffer
LEMMA HttpFillIs ==
  ASSUME NEW req \in HttpReqs, NEW job \in HttpJobs, NEW data \in Seq(HttpTokens), job.at # "none"
  PROVE  LET o == HttpFill(req, job, data)
         IN \/ /\ o \in HttpOuts /\ o.req \in HttpReqs /\ o.job = job
               /\ o.req.ptr = req.ptr /\ o.req.extra = req.extra /\ o.req.chunk = req.chunk
               /\ o.req.length = req.length /\ o.req.chunked = req.chunked /\ o.req.eof = req.eof
               /\ \/ data # <<>> /\ o.req.rbuf.on /\ o.req.rbuf.data = Cat(req.rbuf.data, data) /\ ~o.req.rbuf.eof
                  \/ /\ data = <<>> /\ req.rbuf.data # <<>>
                     /\ o.req.rbuf.on = req.rbuf.on /\ o.req.rbuf.data = req.rbuf.data /\ o.req.rbuf.eof
            \/ data = <<>> /\ req.rbuf.data = <<>> /\ o = HttpNoLine(req, job)
<1> DEFINE o == HttpFill(req, job, data)
<1>1. /\ req.rbuf \in HttpBufs /\ req.rbuf.data \in Seq(HttpTokens)
      /\ (req.rbuf.data = <<>> \/ req.rbuf.on) /\ req.rbuf.on \in BOOLEAN
  BY HttpReqTypes
<1>2. ASSUME NEW buf \in HttpBufs, o = HttpOut([req EXCEPT !.rbuf = buf], job)
      PROVE  /\ o \in HttpOuts /\ o.req \in HttpReqs /\ o.job = job
             /\ o.req.ptr = req.ptr /\ o.req.extra = req.extra /\ o.req.chunk = req.chunk
             /\ o.req.length = req.length /\ o.req.chunked = req.chunked /\ o.req.eof = req.eof
             /\ o.req.rbuf = buf
  <2> DEFINE r == [req EXCEPT !.rbuf = buf]
  <2>1. r \in HttpReqs
    BY HttpReqSet, Zenon
  <2>2. /\ r.ptr = req.ptr /\ r.extra = req.extra /\ r.chunk = req.chunk
        /\ r.length = req.length /\ r.chunked = req.chunked /\ r.eof = req.eof /\ r.rbuf = buf
    BY DEF HttpReqs
  <2> HIDE DEF r, o
  <2>3. o = HttpOut(r, job)
    BY <1>2 DEF r, o
  <2>4. o \in HttpOuts /\ o.req = r /\ o.job = job
    BY <2>1, <2>3, HttpOutIs
  <2> QED
    BY <2>1, <2>2, <2>4
<1>3. CASE data # <<>>
  <2>1. PICK all \in Seq(HttpTokens) : all = Cat(req.rbuf.data, data)
    BY <1>1, CatIs, Zenon
  <2> DEFINE buf == [on |-> TRUE, data |-> all, eof |-> FALSE]
  <2>2. o = HttpOut([req EXCEPT !.rbuf = buf], job)
    BY <2>1, <1>3 DEF HttpFill, Cat
  <2>3. buf \in HttpBufs /\ buf.on /\ buf.data = all /\ ~buf.eof
    BY DEF HttpBufs
  <2> HIDE DEF buf, o
  <2> QED
    BY <1>2, <1>3, <2>1, <2>2, <2>3 DEF o
<1>4. CASE data = <<>> /\ req.rbuf.data # <<>>
  <2> DEFINE buf == [req.rbuf EXCEPT !.eof = TRUE]
  <2>1. o = HttpOut([req EXCEPT !.rbuf = buf], job)
    BY <1>4 DEF HttpFill
  <2>2. buf \in HttpBufs /\ buf.on = req.rbuf.on /\ buf.data = req.rbuf.data /\ buf.eof
    BY <1>1, Zenon DEF HttpBufs
  <2> HIDE DEF buf, o
  <2> QED
    BY <1>2, <1>4, <2>1, <2>2 DEF o
<1>5. CASE data = <<>> /\ req.rbuf.data = <<>>
  BY <1>5 DEF HttpFill
<1> QED
  BY <1>3, <1>4, <1>5

\* What becomes of data for the worker
LEMMA HttpGiveIs ==
  ASSUME NEW req \in HttpReqs, NEW job \in HttpJobs, NEW data \in Seq(HttpTokens), job.at # "none", ~req.ptr.on
  PROVE  LET o == HttpGive(req, job, data)
         IN \/ HttpOver(o)
            \/ /\ o \in HttpOuts /\ o.req = req /\ o.job \in HttpJobs
               /\ o.job.at = job.at /\ o.job.op = job.op /\ o.job.start = job.start /\ o.job.first = job.first
               /\ o.job.clean = job.clean /\ o.job.got = Cat(job.got, data)
<1> DEFINE o == HttpGive(req, job, data)
<1>1. CASE data = <<>>
  BY <1>1, HttpEndIs DEF HttpGive
<1>2. CASE data # <<>>
  <2>1. PICK all \in Seq(HttpTokens) : all = Cat(job.got, data)
    BY CatIs, HttpJobTypes, Zenon
  <2> DEFINE j == [job EXCEPT !.got = all]
  <2>2. o = HttpOut(req, j)
    BY <1>2, <2>1 DEF HttpGive, Cat
  <2>3. j \in HttpJobs
    BY HttpJobSet
  <2>4. /\ j.at = job.at /\ j.op = job.op /\ j.start = job.start /\ j.first = job.first /\ j.clean = job.clean
        /\ j.got = all
    BY DEF HttpJobs
  <2> HIDE DEF j, o
  <2>5. o \in HttpOuts /\ o.req = req /\ o.job = j
    BY <2>2, <2>3, <2>4, HttpOutIs
  <2> QED
    BY <2>1, <2>3, <2>4, <2>5 DEF o
<1> QED
  BY <1>1, <1>2

\* What becomes of a result of rfc2068_chunked_read()
LEMMA HttpGotCases ==
  ASSUME NEW result \in HttpResults, NEW job \in HttpJobs
  PROVE  LET o == HttpGot(result, job)
         IN \/ result.res = "again" /\ o = HttpOut(result.req, job)
            \/ result.res = "fatal" /\ o = HttpReturn(result.req, job, "fatal")
            \/ result.res = "data" /\ job.at = "body" /\ o = HttpGive(result.req, job, result.data)
            \/ result.res = "data" /\ job.at # "body" /\ o = HttpFill(result.req, job, result.data)
<1>1. result.res \in {"data", "again", "fatal"}
  BY DEF HttpResults
<1>2. CASE result.res = "again"
  BY <1>2 DEF HttpGot
<1>3. CASE result.res = "fatal"
  BY <1>3 DEF HttpGot
<1>4. CASE result.res = "data" /\ job.at = "body"
  BY <1>4 DEF HttpGot
<1>5. CASE result.res = "data" /\ job.at # "body"
  BY <1>5 DEF HttpGot
<1> QED
  BY <1>1, <1>2, <1>3, <1>4, <1>5

\* A result is taken.
LEMMA HttpGotTypes ==
  ASSUME NEW result \in HttpResults, NEW job \in HttpJobs, job.at # "none", result.res # "again" => ~result.req.ptr.on
  PROVE  HttpGot(result, job) \in HttpOuts
<1>1. PICK req \in HttpReqs : req = result.req
  BY DEF HttpResults
<1>2. PICK data \in Seq(HttpTokens) : data = result.data
  BY DEF HttpResults
<1> DEFINE o == HttpGot(result, job)
<1>3. CASE o = HttpOut(req, job)
  BY <1>3, HttpOutIs
<1>4. CASE result.res = "fatal" /\ o = HttpReturn(req, job, "fatal")
  BY <1>1, <1>4, HttpReturnIs DEF HttpOver
<1>5. CASE result.res = "data" /\ o = HttpGive(req, job, data)
  <2>1. HttpGive(req, job, data) \in HttpOuts
    BY <1>1, <1>5, HttpGiveIs DEF HttpOver
  <2> QED
    BY <1>5, <2>1
<1>6. CASE result.res = "data" /\ job.at # "body" /\ o = HttpFill(req, job, data)
  <2>1. HttpNoLine(req, job) \in HttpOuts
    <3>1. job.at \in {"headers", "size", "list"}
      BY <1>6, HttpJobTypes DEF HttpAts
    <3> QED
      BY <3>1, <1>1, <1>6, HttpNoLineTypes
  <2>2. HttpFill(req, job, data) \in HttpOuts
    BY <2>1, HttpFillIs
  <2> QED
    BY <1>6, <2>2
<1> QED
  BY <1>1, <1>2, <1>3, <1>4, <1>5, <1>6, HttpGotCases

-----------------------------------------------------------------------------
(* The inductive invariant: where each token of a clean response is, and what comes after it *)

\* The i-th unit of the file, or line of the listing
HttpUnit(i) == <<"d", i>>

\* Nothing but units, from the one after f
HttpRun(s, f) == \A i \in 1..Len(s) : s[i] = HttpUnit(f + i)

\* Units from the one after f, and it may be the end of line after the last chunk
HttpGood(s, f) == \A i \in 1..Len(s) : s[i] = HttpUnit(f + i) \/ (i = Len(s) /\ s[i] = HttpCrlf)

\* After the first p tokens of s comes, as far as s goes, a chunk size and the chunk after unit k.
HttpSizeAt(s, p, k) ==
  /\ p + 1 <= Len(s) => s[p + 1][1] = "size"
  /\ p + 2 <= Len(s) => s[p + 2] = HttpCrlf
  /\ p + 3 <= Len(s) => IF s[p + 1][2] > 0 THEN s[p + 3] = HttpUnit(k + 1)
                        ELSE s[p + 3] = HttpCrlf /\ Len(s) = p + 3

\* After the first p tokens of s come n units after unit k, the end of the chunk, and the next one.
HttpFlows(s, p, n, k) ==
  /\ \A j \in 1..n : p + j <= Len(s) => s[p + j] = HttpUnit(k + j)
  /\ p + n + 1 <= Len(s) => s[p + n + 1] = HttpCrlf
  /\ HttpSizeAt(s, p + n + 1, k + n)

\* Every chunk in s is of its size, and the next one follows.
HttpLaid(s) ==
  \A i \in 1..Len(s) : s[i][1] = "size" /\ s[i][2] > 0 => \E k \in Nat : HttpFlows(s, i + 1, s[i][2], k)

\* The rest of a chunk, n units after unit k, and the chunks that follow
HttpStream(s, n, k) == HttpFlows(s, 0, n, k) /\ HttpLaid(s)

\* The body from unit f on, chunked or not, comes after the first p tokens of s.
HttpBodyAt(s, p, f, ch) ==
  IF ch THEN HttpSizeAt(s, p, f) /\ HttpLaid(s) ELSE \A j \in 1..(Len(s) - p) : s[p + j] = HttpUnit(f + j)

\* Where the body of the response starts
HttpFrom(job, status) == IF status = 206 THEN job.start ELSE 0

\* In s there are q more lines of the headers, and ch tells whether the response is chunked.
HttpHeadsAt(req, job, s, q, ch) ==
  /\ IF job.line THEN q < 2 ELSE q > 0 /\ (s # <<>> => s[1][1] = "status")
  /\ IF q = (IF job.line THEN 0 ELSE 1) THEN ch = job.chunked
     ELSE q <= Len(s) => s[q][1] = IF ch THEN "chunked" ELSE "length"
  /\ job.chunked => ch
  /\ ch => req.length = 0
  /\ q + 1 <= Len(s) =>
       /\ s[q + 1] = HttpCrlf
       /\ LET status == IF job.line THEN job.status ELSE s[1][2]
          IN status \in {200, 206} => HttpBodyAt(s, q + 1, HttpFrom(job, status), ch)
HttpHeads(req, job, s) == \E q \in 0..2, ch \in BOOLEAN : HttpHeadsAt(req, job, s, q, ch)

\* The chunks the server has put together are whole, and what it has still to send comes next.
HttpWholeChunks(s) == \A i \in 1..Len(s) : s[i][1] = "size" => s[i][2] > 0 /\ i + 2 + s[i][2] <= Len(s)
HttpUpTo(s, f, k) ==
  IF Len(s) = 3 THEN k = f ELSE Len(s) > 5 /\ s[Len(s)] = HttpCrlf /\ s[Len(s) - 1] = HttpUnit(k)
HttpToSend(s, k) == (\A i \in 1..(Len(s) - 1) : s[i] = HttpUnit(k + i)) /\ s[Len(s)] = HttpCrlf
HttpComposed(job, net) ==
  /\ Len(net.left) > 2 /\ net.left[2][1] = "chunked"
  /\ net.left[1][2] \in {200, 206} =>
       /\ HttpWholeChunks(net.left)
       /\ \E k \in Nat : HttpToSend(net.todo, k) /\ HttpUpTo(net.left, HttpFrom(job, net.left[1][2]), k)

\* No chunk header can be found in it.
HttpStuck(s) == s # <<>> /\ s[1] # HttpCrlf

\* The headers, where the last response was chunked and the first read goes to the loop over the
\* chunk headers; and where it was not.
HttpStaleHeaders(req, job, net) ==
  /\ req.rbuf.data = <<>> /\ ~job.line
  /\ req.extra # <<>> => HttpStuck(req.extra)
  /\ req.ptr.rest # <<>> => HttpStuck(req.ptr.rest)
  /\ req.extra = <<>> /\ req.ptr.rest = <<>> /\ net.left # <<>> => HttpStuck(net.left)
HttpFreshHeaders(req, job, net) ==
  /\ req.extra = <<>> /\ ~req.ptr.on
  /\ HttpHeads(req, job, Cat(req.rbuf.data, net.left))
  /\ net.todo # <<>> => HttpComposed(job, net)

HttpInHeaders(req, job, net) ==
  /\ job.got = <<>> /\ job.first = 0 /\ req.chunk = 0 /\ ~req.eof /\ req.ptr.done = <<>>
  /\ req.rbuf.eof => req.rbuf.data = <<>>
  /\ ~job.line => job.status = 0 /\ ~job.chunked
  /\ net.todo # <<>> => ~job.line /\ req.rbuf.data = <<>> /\ req.extra = <<>> /\ ~req.ptr.on
  /\ IF req.chunked THEN HttpStaleHeaders(req, job, net) ELSE HttpFreshHeaders(req, job, net)

HttpInSize(req, job, net) ==
  /\ job.got = <<>> /\ job.first = 0 /\ job.chunked /\ net.todo = <<>>
  /\ ~req.chunked /\ req.chunk = 0 /\ req.extra = <<>> /\ ~req.ptr.on /\ req.length = 0 /\ ~req.eof
  /\ req.rbuf.eof => net.left = <<>>
  /\ job.status \in {200, 206} =>
       LET s == Cat(req.rbuf.data, net.left)
       IN HttpSizeAt(s, 0, HttpFrom(job, job.status)) /\ HttpLaid(s)

\* What was delivered, and what the line buffer holds of it
HttpGiven(req, job) == Cat(job.got, req.rbuf.data)

\* The body, of which given was delivered: plain; after the last chunk; between two calls of the
\* loop over the chunk headers; in the loop
HttpPlain(req, given, f, left) ==
  req.extra = <<>> /\ req.chunk = 0 /\ ~req.ptr.on /\ HttpGood(Cat(given, left), f)
HttpEnded(req, given, f) ==
  req.chunk = 0 /\ req.extra = <<>> /\ req.ptr.done = <<>> /\ req.ptr.rest = <<>> /\ HttpGood(given, f)
HttpBetween(req, given, f, left) ==
  /\ HttpRun(given, f)
  /\ \/ req.chunk = 0 /\ HttpStuck(req.extra)
     \/ (req.chunk > 0 => req.extra = <<>>) /\ HttpStream(Cat(req.extra, left), req.chunk, f + Len(given))
HttpInLoop(req, given, f, left) ==
  LET done == Cat(given, req.ptr.done)
      rest == req.ptr.rest
      next == f + Len(done)
  IN /\ HttpRun(done, f) /\ req.extra = <<>>
     /\ \/ req.chunk = 0 /\ HttpStuck(rest)
        \/ req.chunk = 0 /\ HttpStream(Cat(rest, left), 0, next)
        \/ req.chunk > 0 /\ HttpRun(rest, next) /\ HttpStream(left, req.chunk, next + Len(rest))

HttpBody(req, given, f, left) ==
  /\ ~req.chunked => HttpPlain(req, given, f, left)
  /\ req.chunked => req.length = 0
  /\ req.chunked /\ req.eof => HttpEnded(req, given, f)
  /\ req.chunked /\ ~req.eof /\ ~req.ptr.on => HttpBetween(req, given, f, left)
  /\ req.chunked /\ ~req.eof /\ req.ptr.on => HttpInLoop(req, given, f, left)

HttpInBody(req, job, net) ==
  /\ net.todo = <<>>
  /\ job.at = "body" /\ req.ptr.on => req.rbuf.data = <<>>
  /\ HttpBody(req, HttpGiven(req, job), job.first, net.left)

\* Where each token of a clean response is, and what comes after it
HttpOrderly(req, job, net) ==
  job.clean /\ job.op # "head" =>
    /\ job.at = "headers" => HttpInHeaders(req, job, net)
    /\ job.at = "size" => HttpInSize(req, job, net)
    /\ job.at \in {"body", "list"} => HttpInBody(req, job, net)

\* Between two calls nothing is delivered, and no loop is at work.
HttpIdle(req, job) == job.at = "none" => job.got = <<>> /\ ~req.ptr.on

\* A unit is no end of line and no chunk size, and units are told apart.
LEMMA HttpUnitIs ==
  /\ \A i : HttpUnit(i)[1] = "d" /\ HttpUnit(i)[2] = i /\ HttpUnit(i) # HttpCrlf
  /\ \A i, j : HttpUnit(i) = HttpUnit(j) => i = j
  /\ HttpCrlf[1] = "crlf"
BY DEF HttpUnit, HttpCrlf

\* One sequence after another, by a name
LEMMA CatPick ==
  ASSUME NEW s \in Seq(HttpTokens), NEW t \in Seq(HttpTokens)
  PROVE  \E c \in Seq(HttpTokens) :
           /\ c = Cat(s, t) /\ Len(c) = Len(s) + Len(t)
           /\ \A i \in 1..Len(s) : c[i] = s[i]
           /\ \A i \in 1..Len(t) : c[Len(s) + i] = t[i]
<1>1. /\ Cat(s, t) \in Seq(HttpTokens) /\ Len(Cat(s, t)) = Len(s) + Len(t)
      /\ \A i \in 1..Len(s) : Cat(s, t)[i] = s[i]
      /\ \A i \in 1..Len(t) : Cat(s, t)[Len(s) + i] = t[i]
  BY CatIs, Zenon
<1> QED
  BY <1>1, Zenon

\* A sequence is made of its first tokens and the others.
LEMMA CatSplit ==
  ASSUME NEW s \in Seq(HttpTokens), NEW n \in Nat, n <= Len(s)
  PROVE  Cat(Take(s, n), Drop(s, n)) = s
<1>1. PICK a \in Seq(HttpTokens) : a = Take(s, n) /\ Len(a) = n /\ \A i \in 1..n : a[i] = s[i]
  BY TakeIs
<1>2. PICK b \in Seq(HttpTokens) : b = Drop(s, n) /\ Len(b) = Len(s) - n /\ \A i \in 1..(Len(s) - n) : b[i] = s[n + i]
  BY DropIs
<1>3. PICK c \in Seq(HttpTokens) :
        /\ c = Cat(a, b) /\ Len(c) = Len(a) + Len(b)
        /\ \A i \in 1..Len(a) : c[i] = a[i]
        /\ \A i \in 1..Len(b) : c[Len(a) + i] = b[i]
  BY CatPick, Zenon
<1>4. ASSUME NEW i \in 1..Len(c) PROVE c[i] = s[i]
  <2>1. CASE i <= n
    BY <2>1, <1>1, <1>3
  <2>2. CASE i > n
    <3>1. i - n \in 1..Len(b) /\ i = n + (i - n) /\ Len(s) \in Nat
      BY <2>2, <1>1, <1>2, <1>3, SeqTypes
    <3>2. c[n + (i - n)] = b[i - n]
      BY <3>1, <1>1, <1>3
    <3>3. b[i - n] = s[n + (i - n)]
      BY <3>1, <1>2
    <3> QED
      BY <3>1, <3>2, <3>3
  <2> QED
    BY <2>1, <2>2
<1>5. Len(c) = Len(s)
  BY <1>1, <1>2, <1>3, SeqTypes
<1>6. c = s
  BY <1>4, <1>5, SeqIs
<1> QED
  BY <1>1, <1>2, <1>3, <1>6

\* The empty sequence adds nothing.
LEMMA CatEmpty ==
  ASSUME NEW s \in Seq(HttpTokens)
  PROVE  Cat(s, <<>>) = s /\ Cat(<<>>, s) = s
<1>1. PICK e \in Seq(HttpTokens) : e = <<>> /\ Len(e) = 0
  BY HttpEmpty, Zenon
<1>2. PICK a \in Seq(HttpTokens) : a = Cat(s, e) /\ Len(a) = Len(s) + Len(e) /\ \A i \in 1..Len(s) : a[i] = s[i]
  BY CatIs
<1>3. PICK b \in Seq(HttpTokens) : b = Cat(e, s) /\ Len(b) = Len(e) + Len(s) /\ \A i \in 1..Len(s) : b[Len(e) + i] = s[i]
  BY CatIs
<1>4. Len(s) \in Nat
  BY SeqTypes
<1>5. a = s
  BY <1>1, <1>2, <1>4, SeqIs
<1>6. b = s
  <2>1. Len(b) = Len(s)
    BY <1>1, <1>3, <1>4
  <2>2. ASSUME NEW i \in 1..Len(b) PROVE b[i] = s[i]
    <3>1. i \in 1..Len(s) /\ Len(e) + i = i
      BY <2>1, <1>1
    <3> QED
      BY <3>1, <1>3
  <2> QED
    BY <2>1, <2>2, SeqIs
<1> QED
  BY <1>1, <1>2, <1>3, <1>5, <1>6

\* One sequence after two is one after another after the first.
LEMMA CatCat ==
  ASSUME NEW a \in Seq(HttpTokens), NEW b \in Seq(HttpTokens), NEW c \in Seq(HttpTokens)
  PROVE  Cat(Cat(a, b), c) = Cat(a, Cat(b, c))
<1>1. Len(a) \in Nat /\ Len(b) \in Nat /\ Len(c) \in Nat
  BY SeqTypes
<1>2. PICK p \in Seq(HttpTokens) :
        /\ p = Cat(a, b) /\ Len(p) = Len(a) + Len(b)
        /\ \A i \in 1..Len(a) : p[i] = a[i]
        /\ \A i \in 1..Len(b) : p[Len(a) + i] = b[i]
  BY CatPick, Zenon
<1>3. PICK q \in Seq(HttpTokens) :
        /\ q = Cat(b, c) /\ Len(q) = Len(b) + Len(c)
        /\ \A i \in 1..Len(b) : q[i] = b[i]
        /\ \A i \in 1..Len(c) : q[Len(b) + i] = c[i]
  BY CatPick, Zenon
<1>4. PICK r \in Seq(HttpTokens) :
        /\ r = Cat(p, c) /\ Len(r) = Len(p) + Len(c)
        /\ \A i \in 1..Len(p) : r[i] = p[i]
        /\ \A i \in 1..Len(c) : r[Len(p) + i] = c[i]
  BY CatPick, Zenon
<1>5. PICK s \in Seq(HttpTokens) :
        /\ s = Cat(a, q) /\ Len(s) = Len(a) + Len(q)
        /\ \A i \in 1..Len(a) : s[i] = a[i]
        /\ \A i \in 1..Len(q) : s[Len(a) + i] = q[i]
  BY CatPick, Zenon
<1>6. ASSUME NEW i \in 1..Len(r) PROVE r[i] = s[i]
  <2>1. CASE i \in 1..Len(a)
    <3>1. i \in 1..Len(p)
      BY <2>1, <1>1, <1>2
    <3> QED
      BY <3>1, <2>1, <1>2, <1>4, <1>5
  <2>2. ASSUME NEW j \in 1..Len(b), i = Len(a) + j PROVE r[i] = s[i]
    <3>1. i \in 1..Len(p) /\ j \in 1..Len(q)
      BY <2>2, <1>1, <1>2, <1>3
    <3>2. r[i] = p[i] /\ p[Len(a) + j] = b[j]
      BY <3>1, <1>2, <1>4
    <3>3. s[Len(a) + j] = q[j] /\ q[j] = b[j]
      BY <3>1, <1>3, <1>5, Zenon
    <3> QED
      BY <3>2, <3>3, <2>2
  <2>3. ASSUME NEW j \in 1..Len(c), i = Len(a) + (Len(b) + j) PROVE r[i] = s[i]
    <3>1. PICK l \in 1..Len(q) : l = Len(b) + j
      BY <1>1, <1>3
    <3>2. i = Len(p) + j /\ i = Len(a) + l
      BY <3>1, <2>3, <1>1, <1>2
    <3>3. r[Len(p) + j] = c[j] /\ s[Len(a) + l] = q[l] /\ q[Len(b) + j] = c[j]
      BY <1>3, <1>4, <1>5, Zenon
    <3> QED
      BY <3>1, <3>2, <3>3
  <2>4. \/ i \in 1..Len(a)
        \/ i - Len(a) \in 1..Len(b) /\ i = Len(a) + (i - Len(a))
        \/ i - Len(a) - Len(b) \in 1..Len(c) /\ i = Len(a) + (Len(b) + (i - Len(a) - Len(b)))
    BY <1>1, <1>2, <1>4
  <2> QED
    BY <2>1, <2>2, <2>3, <2>4, Zenon
<1>7. Len(r) = Len(s)
  BY <1>1, <1>2, <1>3, <1>4, <1>5
<1>8. r = s
  BY <1>6, <1>7, SeqIs, Zenon
<1> QED
  BY <1>2, <1>3, <1>4, <1>5, <1>8

\* The first tokens of two sequences, when they are of the first
LEMMA DropCat ==
  ASSUME NEW a \in Seq(HttpTokens), NEW b \in Seq(HttpTokens), NEW n \in Nat, n <= Len(a)
  PROVE  Take(Cat(a, b), n) = Take(a, n) /\ Drop(Cat(a, b), n) = Cat(Drop(a, n), b)
<1>1. PICK c \in Seq(HttpTokens) :
        /\ c = Cat(a, b) /\ Len(c) = Len(a) + Len(b)
        /\ \A i \in 1..Len(a) : c[i] = a[i]
        /\ \A i \in 1..Len(b) : c[Len(a) + i] = b[i]
  BY CatPick, Zenon
<1>2. Len(a) \in Nat /\ Len(b) \in Nat /\ n <= Len(c)
  BY <1>1, SeqTypes
<1>3. PICK t \in Seq(HttpTokens) : t = Take(a, n) /\ Len(t) = n /\ \A i \in 1..n : t[i] = a[i]
  BY TakeIs
<1>4. PICK u \in Seq(HttpTokens) : u = Take(c, n) /\ Len(u) = n /\ \A i \in 1..n : u[i] = c[i]
  BY <1>2, TakeIs
<1>5. t = u
  BY <1>1, <1>2, <1>3, <1>4, SeqIs
<1>6. PICK d \in Seq(HttpTokens) : d = Drop(a, n) /\ Len(d) = Len(a) - n /\ \A i \in 1..(Len(a) - n) : d[i] = a[n + i]
  BY DropIs
<1>7. PICK v \in Seq(HttpTokens) : v = Drop(c, n) /\ Len(v) = Len(c) - n /\ \A i \in 1..(Len(c) - n) : v[i] = c[n + i]
  BY <1>2, DropIs
<1>8. PICK w \in Seq(HttpTokens) :
        /\ w = Cat(d, b) /\ Len(w) = Len(d) + Len(b)
        /\ \A i \in 1..Len(d) : w[i] = d[i]
        /\ \A i \in 1..Len(b) : w[Len(d) + i] = b[i]
  BY CatPick, Zenon
<1>9. ASSUME NEW i \in 1..Len(v) PROVE v[i] = w[i]
  <2>1. v[i] = c[n + i] /\ n + i <= Len(a) + Len(b) /\ i \in Nat
    BY <1>1, <1>2, <1>7
  <2>2. CASE i <= Len(d)
    <3>1. n + i \in 1..Len(a) /\ i \in 1..Len(d) /\ i \in 1..(Len(a) - n)
      BY <2>2, <1>2, <1>6
    <3> QED
      BY <3>1, <2>1, <1>1, <1>6, <1>8, Zenon
  <2>3. CASE i > Len(d)
    <3>4. i - Len(d) \in 1..Len(b)
      <4>1. Len(d) \in Nat /\ Len(d) = Len(a) - n
        BY <1>2, <1>6
      <4> QED
        BY <4>1, <2>1, <2>3, <1>2
    <3>1. PICK j \in 1..Len(b) : j = i - Len(d)
      BY <3>4, Zenon
    <3>2. n + i = Len(a) + j /\ i = Len(d) + j
      BY <3>1, <1>2, <1>6, <2>1
    <3>3. c[Len(a) + j] = b[j] /\ w[Len(d) + j] = b[j]
      BY <1>1, <1>8
    <3> QED
      BY <3>2, <3>3, <2>1, Zenon
  <2> QED
    BY <2>1, <2>2, <2>3, <1>2, <1>6
<1>10. Len(v) = Len(w)
  BY <1>1, <1>2, <1>6, <1>7, <1>8
<1>11. v = w
  BY <1>9, <1>10, SeqIs, Zenon
<1> QED
  BY <1>1, <1>3, <1>4, <1>5, <1>6, <1>7, <1>8, <1>11

-----------------------------------------------------------------------------
(* Runs of units, chunks and streams of chunks                             *)

\* None of the first tokens, and all of them
LEMMA DropEnds ==
  ASSUME NEW s \in Seq(HttpTokens)
  PROVE  Drop(s, 0) = s /\ Take(s, 0) = <<>> /\ Drop(s, Len(s)) = <<>> /\ Take(s, Len(s)) = s
<1>1. PICK z \in Nat : z = 0 /\ z <= Len(s)
  BY SeqTypes
<1>2. PICK l \in Nat : l = Len(s)
  BY SeqTypes
<1>3. Drop(s, z) = s
  <2>1. Drop(s, z) \in Seq(HttpTokens) /\ Len(Drop(s, z)) = Len(s) - z /\ \A i \in 1..(Len(s) - z) : Drop(s, z)[i] = s[z + i]
    BY <1>1, DropIs
  <2>2. PICK d \in Seq(HttpTokens) : d = Drop(s, z)
    BY <2>1
  <2>3. Len(d) = Len(s)
    BY <1>1, <1>2, <2>1, <2>2
  <2>4. ASSUME NEW i \in 1..Len(d) PROVE d[i] = s[i]
    <3>1. i \in 1..(Len(s) - z) /\ z + i = i
      BY <1>1, <1>2, <2>3
    <3> QED
      BY <3>1, <2>1, <2>2
  <2>5. d = s
    BY <2>3, <2>4, SeqIs
  <2> QED
    BY <2>2, <2>5
<1>4. Take(s, z) = <<>>
  <2>1. PICK t \in Seq(HttpTokens) : t = Take(s, z) /\ Len(t) = z
    BY <1>1, TakeIs
  <2> QED
    BY <1>1, <2>1, SeqTypes
<1>5. Drop(s, l) = <<>>
  <2>1. PICK d \in Seq(HttpTokens) : d = Drop(s, l) /\ Len(d) = Len(s) - l
    BY <1>2, DropIs
  <2> QED
    BY <1>2, <2>1, SeqTypes
<1>6. Take(s, l) = s
  <2>4. l <= Len(s)
    BY <1>2
  <2>3. Take(s, l) \in Seq(HttpTokens) /\ Len(Take(s, l)) = l /\ \A i \in 1..l : Take(s, l)[i] = s[i]
    BY <2>4, TakeIs
  <2>1. PICK t \in Seq(HttpTokens) : t = Take(s, l) /\ Len(t) = l /\ \A i \in 1..l : t[i] = s[i]
    BY <2>3
  <2>2. t = s
    BY <1>2, <2>1, SeqIs
  <2> QED
    BY <2>1, <2>2
<1> QED
  BY <1>1, <1>2, <1>3, <1>4, <1>5, <1>6

\* A run of units after another is one run.
LEMMA HttpRunCat ==
  ASSUME NEW a \in Seq(HttpTokens), NEW b \in Seq(HttpTokens), NEW f \in Nat
  PROVE  HttpRun(Cat(a, b), f) <=> HttpRun(a, f) /\ HttpRun(b, f + Len(a))
<1>1. PICK c \in Seq(HttpTokens) :
        /\ c = Cat(a, b) /\ Len(c) = Len(a) + Len(b)
        /\ \A i \in 1..Len(a) : c[i] = a[i]
        /\ \A i \in 1..Len(b) : c[Len(a) + i] = b[i]
  BY CatPick, Zenon
<1>2. Len(a) \in Nat /\ Len(b) \in Nat /\ Len(c) \in Nat
  BY SeqTypes
<1>3. ASSUME HttpRun(a, f), HttpRun(b, f + Len(a)) PROVE HttpRun(c, f)
  <2> SUFFICES ASSUME NEW i \in 1..Len(c) PROVE c[i] = HttpUnit(f + i)
    BY DEF HttpRun
  <2>1. CASE i \in 1..Len(a)
    BY <2>1, <1>1, <1>3 DEF HttpRun
  <2>2. ASSUME NEW j \in 1..Len(b), i = Len(a) + j PROVE c[i] = HttpUnit(f + i)
    <3>1. c[Len(a) + j] = b[j]
      BY <1>1
    <3>2. b[j] = HttpUnit((f + Len(a)) + j)
      BY <1>3 DEF HttpRun
    <3>3. (f + Len(a)) + j = f + i
      BY <2>2, <1>2
    <3> QED
      BY <3>1, <3>2, <3>3, <2>2
  <2>3. i \in 1..Len(a) \/ (i - Len(a) \in 1..Len(b) /\ i = Len(a) + (i - Len(a)))
    BY <1>1, <1>2
  <2> QED
    BY <2>1, <2>2, <2>3, Zenon
<1>4. ASSUME HttpRun(c, f) PROVE HttpRun(a, f) /\ HttpRun(b, f + Len(a))
  <2>1. ASSUME NEW i \in 1..Len(a) PROVE a[i] = HttpUnit(f + i)
    <3>1. i \in 1..Len(c)
      BY <1>1, <1>2
    <3> QED
      BY <3>1, <1>1, <1>4 DEF HttpRun
  <2>2. ASSUME NEW i \in 1..Len(b) PROVE b[i] = HttpUnit((f + Len(a)) + i)
    <3>1. Len(a) + i \in 1..Len(c) /\ f + (Len(a) + i) = (f + Len(a)) + i
      BY <1>1, <1>2
    <3>2. c[Len(a) + i] = HttpUnit(f + (Len(a) + i))
      BY <3>1, <1>4 DEF HttpRun
    <3> QED
      BY <3>1, <3>2, <1>1
  <2> QED
    BY <2>1, <2>2, Zenon DEF HttpRun
<1> QED
  BY <1>1, <1>3, <1>4

\* A run of units is good, and so is nothing.
LEMMA HttpRunGood ==
  ASSUME NEW s \in Seq(HttpTokens), NEW f \in Nat, HttpRun(s, f)
  PROVE  HttpGood(s, f)
BY DEF HttpRun, HttpGood

\* The first of what is good is good.
LEMMA HttpGoodCat ==
  ASSUME NEW a \in Seq(HttpTokens), NEW b \in Seq(HttpTokens), NEW f \in Nat, HttpGood(Cat(a, b), f)
  PROVE  HttpGood(a, f) /\ (b # <<>> => HttpRun(a, f))
<1>1. PICK c \in Seq(HttpTokens) :
        /\ c = Cat(a, b) /\ Len(c) = Len(a) + Len(b)
        /\ \A i \in 1..Len(a) : c[i] = a[i]
        /\ \A i \in 1..Len(b) : c[Len(a) + i] = b[i]
  BY CatPick, Zenon
<1>2. Len(a) \in Nat /\ Len(b) \in Nat /\ (b # <<>> => Len(b) > 0)
  BY SeqTypes
<1>3. ASSUME NEW i \in 1..Len(a)
      PROVE  a[i] = HttpUnit(f + i) \/ (i = Len(a) /\ b = <<>> /\ a[i] = HttpCrlf)
  <2>1. i \in 1..Len(c) /\ c[i] = a[i]
    BY <1>1, <1>2
  <2>2. c[i] = HttpUnit(f + i) \/ (i = Len(c) /\ c[i] = HttpCrlf)
    BY <1>1, <2>1 DEF HttpGood
  <2> QED
    BY <2>1, <2>2, <1>1, <1>2
<1> QED
  BY <1>3 DEF HttpGood, HttpRun

\* An end of line after a run of units is good.
LEMMA HttpRunThenGood ==
  ASSUME NEW a \in Seq(HttpTokens), NEW b \in Seq(HttpTokens), NEW f \in Nat, HttpRun(a, f), HttpGood(b, f + Len(a))
  PROVE  HttpGood(Cat(a, b), f)
<1>1. PICK c \in Seq(HttpTokens) :
        /\ c = Cat(a, b) /\ Len(c) = Len(a) + Len(b)
        /\ \A i \in 1..Len(a) : c[i] = a[i]
        /\ \A i \in 1..Len(b) : c[Len(a) + i] = b[i]
  BY CatPick, Zenon
<1>2. Len(a) \in Nat /\ Len(b) \in Nat /\ Len(c) \in Nat
  BY SeqTypes
<1>3. ASSUME NEW i \in 1..Len(c)
      PROVE  c[i] = HttpUnit(f + i) \/ (i = Len(c) /\ c[i] = HttpCrlf)
  <2>1. CASE i \in 1..Len(a)
    BY <2>1, <1>1 DEF HttpRun
  <2>2. ASSUME NEW j \in 1..Len(b), i = Len(a) + j
        PROVE  c[i] = HttpUnit(f + i) \/ (i = Len(c) /\ c[i] = HttpCrlf)
    <3>1. c[Len(a) + j] = b[j]
      BY <1>1
    <3>2. b[j] = HttpUnit((f + Len(a)) + j) \/ (j = Len(b) /\ b[j] = HttpCrlf)
      BY DEF HttpGood
    <3>3. (f + Len(a)) + j = f + i
      BY <2>2, <1>2
    <3> QED
      BY <3>1, <3>2, <3>3, <2>2, <1>1, Zenon
  <2>3. i \in 1..Len(a) \/ (i - Len(a) \in 1..Len(b) /\ i = Len(a) + (i - Len(a)))
    BY <1>1, <1>2
  <2> QED
    BY <2>1, <2>2, <2>3, Zenon
<1>4. HttpGood(c, f)
  BY <1>3 DEF HttpGood
<1> QED
  BY <1>1, <1>4

\* What comes after the first n tokens keeps its place among those that are left.
LEMMA HttpFlowsDrop ==
  ASSUME NEW s \in Seq(HttpTokens), NEW q \in Nat, q <= Len(s), NEW p \in Nat, NEW k \in Nat, NEW n \in Nat
  PROVE  /\ HttpSizeAt(s, q + p, k) <=> HttpSizeAt(Drop(s, q), p, k)
         /\ HttpFlows(s, q + p, n, k) <=> HttpFlows(Drop(s, q), p, n, k)
<1>1. PICK d \in Seq(HttpTokens) : d = Drop(s, q) /\ Len(d) = Len(s) - q /\ \A i \in 1..(Len(s) - q) : d[i] = s[q + i]
  BY DropIs
<1>2. Len(s) \in Nat /\ Len(d) \in Nat
  BY SeqTypes
<1>3. ASSUME NEW i \in Nat, i > 0
      PROVE  /\ q + i <= Len(s) <=> i <= Len(d)
             /\ i <= Len(d) => d[i] = s[q + i]
  BY <1>1, <1>2, <1>3
<1>4. ASSUME NEW r \in Nat, NEW l \in Nat PROVE HttpSizeAt(s, q + r, l) <=> HttpSizeAt(d, r, l)
  <2>1. /\ (q + (r + 1) <= Len(s) <=> r + 1 <= Len(d)) /\ (r + 1 <= Len(d) => d[r + 1] = s[q + (r + 1)])
        /\ (q + (r + 2) <= Len(s) <=> r + 2 <= Len(d)) /\ (r + 2 <= Len(d) => d[r + 2] = s[q + (r + 2)])
        /\ (q + (r + 3) <= Len(s) <=> r + 3 <= Len(d)) /\ (r + 3 <= Len(d) => d[r + 3] = s[q + (r + 3)])
    <3>1. (q + (r + 1) <= Len(s) <=> r + 1 <= Len(d)) /\ (r + 1 <= Len(d) => d[r + 1] = s[q + (r + 1)])
      BY <1>3
    <3>2. (q + (r + 2) <= Len(s) <=> r + 2 <= Len(d)) /\ (r + 2 <= Len(d) => d[r + 2] = s[q + (r + 2)])
      BY <1>3
    <3>3. (q + (r + 3) <= Len(s) <=> r + 3 <= Len(d)) /\ (r + 3 <= Len(d) => d[r + 3] = s[q + (r + 3)])
      BY <1>3
    <3> QED
      BY <3>1, <3>2, <3>3
  <2>2. (q + r) + 1 = q + (r + 1) /\ (q + r) + 2 = q + (r + 2) /\ (q + r) + 3 = q + (r + 3)
    OBVIOUS
  <2>3. Len(s) = (q + r) + 3 <=> Len(d) = r + 3
    BY <1>1, <1>2
  <2>4. r + 3 <= Len(d) => r + 1 <= Len(d)
    BY <1>2
  <2> QED
    BY <2>1, <2>2, <2>3, <2>4, Zenon DEF HttpSizeAt
<1>5. ASSUME NEW j \in 1..n PROVE (q + (p + j) <= Len(s) <=> p + j <= Len(d)) /\ (p + j <= Len(d) => d[p + j] = s[q + (p + j)])
                                  /\ (q + p) + j = q + (p + j)
  <2>1. p + j \in Nat /\ p + j > 0 /\ (q + p) + j = q + (p + j)
    OBVIOUS
  <2> QED
    BY <2>1, <1>3
<1>6. (q + (p + n + 1) <= Len(s) <=> p + n + 1 <= Len(d)) /\ (p + n + 1 <= Len(d) => d[p + n + 1] = s[q + (p + n + 1)])
      /\ (q + p) + n + 1 = q + (p + n + 1) /\ p + n + 1 \in Nat /\ k + n \in Nat
  <2>1. p + n + 1 \in Nat /\ p + n + 1 > 0 /\ (q + p) + n + 1 = q + (p + n + 1) /\ k + n \in Nat
    OBVIOUS
  <2> QED
    BY <2>1, <1>3
<1>7. HttpSizeAt(s, (q + p) + n + 1, k + n) <=> HttpSizeAt(d, p + n + 1, k + n)
  BY <1>4, <1>6
<1>8. HttpFlows(s, q + p, n, k) <=> HttpFlows(d, p, n, k)
  <2>1. (\A j \in 1..n : (q + p) + j <= Len(s) => s[(q + p) + j] = HttpUnit(k + j))
          <=> (\A j \in 1..n : p + j <= Len(d) => d[p + j] = HttpUnit(k + j))
    BY <1>5, Zenon
  <2>2. ((q + p) + n + 1 <= Len(s) => s[(q + p) + n + 1] = HttpCrlf) <=> (p + n + 1 <= Len(d) => d[p + n + 1] = HttpCrlf)
    BY <1>6
  <2> QED
    BY <2>1, <2>2, <1>7, Zenon DEF HttpFlows
<1> QED
  BY <1>1, <1>4, <1>8

\* The chunks after the first q tokens are laid out as the others.
LEMMA HttpLaidDrop ==
  ASSUME NEW s \in Seq(HttpTokens), NEW q \in Nat, q <= Len(s), HttpLaid(s)
  PROVE  HttpLaid(Drop(s, q))
<1>1. PICK d \in Seq(HttpTokens) : d = Drop(s, q) /\ Len(d) = Len(s) - q /\ \A i \in 1..(Len(s) - q) : d[i] = s[q + i]
  BY DropIs, Zenon
<1> SUFFICES ASSUME NEW i \in 1..Len(d), d[i][1] = "size", d[i][2] > 0
             PROVE  \E k \in Nat : HttpFlows(d, i + 1, d[i][2], k)
  BY <1>1 DEF HttpLaid
<1>2. Len(s) \in Nat /\ Len(d) \in Nat
  BY SeqTypes
<1>3. q + i \in 1..Len(s) /\ d[i] = s[q + i] /\ (q + i) + 1 = q + (i + 1) /\ i + 1 \in Nat
  BY <1>1, <1>2
<1>4. PICK k \in Nat : HttpFlows(s, (q + i) + 1, s[q + i][2], k)
  BY <1>3 DEF HttpLaid
<1>5. PICK n \in Nat : n = d[i][2]
  <2>1. PICK t \in HttpTokens : t = d[i]
    BY SeqTypes
  <2> QED
    BY <2>1, HttpTokenTypes
<1>6. PICK p \in Nat : p = i + 1
  BY <1>3
<1>7. HttpFlows(s, q + p, n, k)
  BY <1>3, <1>4, <1>5, <1>6
<1>8. HttpFlows(Drop(s, q), p, n, k)
  BY <1>7, HttpFlowsDrop
<1> QED
  BY <1>1, <1>5, <1>6, <1>8, Zenon

\* What holds of a response holds as far as it has come.
LEMMA HttpFlowsCut ==
  ASSUME NEW a \in Seq(HttpTokens), NEW b \in Seq(HttpTokens), NEW p \in Nat, NEW k \in Nat, NEW n \in Nat
  PROVE  /\ HttpSizeAt(Cat(a, b), p, k) => HttpSizeAt(a, p, k)
         /\ HttpFlows(Cat(a, b), p, n, k) => HttpFlows(a, p, n, k)
<1>1. PICK c \in Seq(HttpTokens) :
        /\ c = Cat(a, b) /\ Len(c) = Len(a) + Len(b)
        /\ \A i \in 1..Len(a) : c[i] = a[i]
        /\ \A i \in 1..Len(b) : c[Len(a) + i] = b[i]
  BY CatPick, Zenon
<1>2. Len(a) \in Nat /\ Len(b) \in Nat /\ Len(c) \in Nat
  BY SeqTypes
<1>3. ASSUME NEW i \in Nat, i > 0, i <= Len(a) PROVE i <= Len(c) /\ a[i] = c[i]
  BY <1>1, <1>2, <1>3
<1>4. ASSUME NEW r \in Nat, NEW l \in Nat, HttpSizeAt(c, r, l) PROVE HttpSizeAt(a, r, l)
  <2>1. r + 1 <= Len(a) => r + 1 <= Len(c) /\ a[r + 1] = c[r + 1]
    BY <1>3
  <2>2. r + 2 <= Len(a) => r + 2 <= Len(c) /\ a[r + 2] = c[r + 2]
    BY <1>3
  <2>3. r + 3 <= Len(a) => r + 3 <= Len(c) /\ a[r + 3] = c[r + 3] /\ r + 1 <= Len(a) /\ Len(a) <= Len(c)
    BY <1>1, <1>2, <1>3
  <2>4. r + 3 <= Len(a) /\ Len(c) = r + 3 => Len(a) = r + 3
    BY <2>3, <1>2
  <2> QED
    BY <1>4, <2>1, <2>2, <2>3, <2>4, Zenon DEF HttpSizeAt
<1>5. ASSUME HttpFlows(c, p, n, k) PROVE HttpFlows(a, p, n, k)
  <2>1. ASSUME NEW j \in 1..n, p + j <= Len(a) PROVE a[p + j] = HttpUnit(k + j)
    <3>1. p + j \in Nat /\ p + j > 0
      OBVIOUS
    <3>2. p + j <= Len(c) /\ a[p + j] = c[p + j]
      BY <3>1, <2>1, <1>3
    <3> QED
      BY <3>2, <1>5 DEF HttpFlows
  <2>2. ASSUME p + n + 1 <= Len(a) PROVE a[p + n + 1] = HttpCrlf
    <3>1. p + n + 1 \in Nat /\ p + n + 1 > 0
      OBVIOUS
    <3>2. p + n + 1 <= Len(c) /\ a[p + n + 1] = c[p + n + 1]
      BY <3>1, <2>2, <1>3
    <3> QED
      BY <3>2, <1>5 DEF HttpFlows
  <2>3. HttpSizeAt(a, p + n + 1, k + n)
    <3>1. p + n + 1 \in Nat /\ k + n \in Nat
      OBVIOUS
    <3>2. HttpSizeAt(c, p + n + 1, k + n)
      BY <1>5 DEF HttpFlows
    <3> QED
      BY <3>1, <3>2, <1>4
  <2> QED
    BY <2>1, <2>2, <2>3 DEF HttpFlows
<1> QED
  BY <1>1, <1>4, <1>5

\* The same of every chunk
LEMMA HttpLaidCut ==
  ASSUME NEW a \in Seq(HttpTokens), NEW b \in Seq(HttpTokens), HttpLaid(Cat(a, b))
  PROVE  HttpLaid(a)
<1>1. PICK c \in Seq(HttpTokens) :
        /\ c = Cat(a, b) /\ Len(c) = Len(a) + Len(b)
        /\ \A i \in 1..Len(a) : c[i] = a[i]
        /\ \A i \in 1..Len(b) : c[Len(a) + i] = b[i]
  BY CatPick, Zenon
<1> SUFFICES ASSUME NEW i \in 1..Len(a), a[i][1] = "size", a[i][2] > 0
             PROVE  \E k \in Nat : HttpFlows(a, i + 1, a[i][2], k)
  BY DEF HttpLaid
<1>2. Len(a) \in Nat /\ Len(b) \in Nat /\ Len(c) \in Nat
  BY SeqTypes
<1>3. i \in 1..Len(c) /\ c[i] = a[i]
  BY <1>1, <1>2
<1>4. PICK k \in Nat : HttpFlows(c, i + 1, c[i][2], k)
  BY <1>1, <1>3 DEF HttpLaid
<1>5. PICK n \in Nat : n = a[i][2]
  <2>1. PICK t \in HttpTokens : t = a[i]
    BY SeqTypes
  <2> QED
    BY <2>1, HttpTokenTypes
<1>6. PICK p \in Nat : p = i + 1
  OBVIOUS
<1>7. HttpFlows(Cat(a, b), p, n, k)
  BY <1>1, <1>3, <1>4, <1>5, <1>6
<1>8. HttpFlows(a, p, n, k)
  BY <1>7, HttpFlowsCut
<1> QED
  BY <1>5, <1>6, <1>8

\* The same of what is to come
LEMMA HttpStreamCut ==
  ASSUME NEW a \in Seq(HttpTokens), NEW b \in Seq(HttpTokens), NEW n \in Nat, NEW k \in Nat, HttpStream(Cat(a, b), n, k)
  PROVE  HttpStream(a, n, k)
<1>1. PICK z \in Nat : z = 0
  OBVIOUS
<1>2. HttpFlows(Cat(a, b), z, n, k) /\ HttpLaid(Cat(a, b))
  BY <1>1 DEF HttpStream
<1>3. HttpFlows(a, z, n, k) /\ HttpLaid(a)
  BY <1>2, HttpFlowsCut, HttpLaidCut
<1> QED
  BY <1>1, <1>3 DEF HttpStream

\* Nothing is a run, good, and the start of anything.
LEMMA HttpOfNothing ==
  ASSUME NEW n \in Nat, NEW k \in Nat, NEW p \in Nat
  PROVE  /\ HttpRun(<<>>, k) /\ HttpGood(<<>>, k) /\ HttpStream(<<>>, n, k)
         /\ HttpSizeAt(<<>>, p, k) /\ HttpLaid(<<>>)
<1>1. PICK e \in Seq(HttpTokens) : e = <<>> /\ Len(e) = 0
  BY HttpEmpty, Zenon
<1>2. \A i \in 1..Len(e) : FALSE
  BY <1>1
<1>3. HttpRun(e, k) /\ HttpGood(e, k) /\ HttpLaid(e)
  BY <1>2 DEF HttpRun, HttpGood, HttpLaid
<1>4. ASSUME NEW q \in Nat, NEW l PROVE HttpSizeAt(e, q, l)
  BY <1>1 DEF HttpSizeAt
<1>5. HttpFlows(e, 0, n, k)
  <2>1. HttpSizeAt(e, 0 + n + 1, k + n)
    BY <1>4
  <2> QED
    BY <1>1, <2>1 DEF HttpFlows
<1> QED
  BY <1>1, <1>3, <1>4, <1>5 DEF HttpStream

\* The next n units of a chunk
LEMMA HttpConsume ==
  ASSUME NEW s \in Seq(HttpTokens), NEW c \in Nat, NEW k \in Nat, HttpStream(s, c, k),
         NEW n \in Nat, n <= c, n <= Len(s)
  PROVE  HttpRun(Take(s, n), k) /\ HttpStream(Drop(s, n), c - n, k + n)
<1>1. HttpFlows(s, 0, c, k) /\ HttpLaid(s)
  BY DEF HttpStream
<1>2. Len(s) \in Nat
  BY SeqTypes
<1>3. PICK m \in Nat : m = c - n
  OBVIOUS
<1>4. HttpRun(Take(s, n), k)
  <2>1. PICK t \in Seq(HttpTokens) : t = Take(s, n) /\ Len(t) = n /\ \A i \in 1..n : t[i] = s[i]
    BY TakeIs
  <2>2. ASSUME NEW i \in 1..Len(t) PROVE t[i] = HttpUnit(k + i)
    <3>1. i \in 1..c /\ i \in 1..n /\ 0 + i = i /\ i <= Len(s)
      BY <2>1, <1>2
    <3>2. s[0 + i] = HttpUnit(k + i)
      BY <3>1, <1>1 DEF HttpFlows
    <3> QED
      BY <3>1, <3>2, <2>1
  <2> QED
    BY <2>1, <2>2 DEF HttpRun
<1>5. HttpFlows(s, n, m, k + n)
  <2>1. ASSUME NEW j \in 1..m, n + j <= Len(s) PROVE s[n + j] = HttpUnit((k + n) + j)
    <3>1. n + j \in 1..c /\ 0 + (n + j) = n + j /\ k + (n + j) = (k + n) + j
      BY <1>3
    <3>2. s[0 + (n + j)] = HttpUnit(k + (n + j))
      BY <3>1, <2>1, <1>1 DEF HttpFlows
    <3> QED
      BY <3>1, <3>2
  <2>2. n + m + 1 = 0 + c + 1 /\ (k + n) + m = k + c
    BY <1>3
  <2>3. 0 + c + 1 <= Len(s) => s[0 + c + 1] = HttpCrlf
    BY <1>1 DEF HttpFlows
  <2>4. HttpSizeAt(s, 0 + c + 1, k + c)
    BY <1>1 DEF HttpFlows
  <2> QED
    BY <2>1, <2>2, <2>3, <2>4 DEF HttpFlows
<1>6. PICK z \in Nat, l \in Nat : z = 0 /\ l = k + n
  OBVIOUS
<1>7. HttpFlows(s, n + z, m, l)
  BY <1>5, <1>6
<1>8. HttpFlows(Drop(s, n), z, m, l)
  BY <1>7, HttpFlowsDrop
<1>9. HttpLaid(Drop(s, n))
  BY <1>1, HttpLaidDrop
<1> QED
  BY <1>3, <1>4, <1>6, <1>8, <1>9 DEF HttpStream

\* After the size of a chunk come its units.
LEMMA HttpHeaderOff ==
  ASSUME NEW s \in Seq(HttpTokens), NEW p \in Nat, NEW k \in Nat, HttpSizeAt(s, p, k), HttpLaid(s),
         NEW q \in Nat, q = p + 2, q <= Len(s), NEW v \in Nat, v = s[p + 1][2], v > 0
  PROVE  HttpStream(Drop(s, q), v, k)
<1>1. Len(s) \in Nat
  BY SeqTypes
<1>2. p + 1 \in 1..Len(s) /\ s[p + 1][1] = "size" /\ (p + 1) + 1 = q
  BY <1>1 DEF HttpSizeAt
<1>3. PICK l \in Nat : HttpFlows(s, q, v, l)
  <2>1. \E l \in Nat : HttpFlows(s, (p + 1) + 1, s[p + 1][2], l)
    BY <1>2, Zenon DEF HttpLaid
  <2> QED
    BY <2>1, <1>2
<1>4. HttpLaid(Drop(s, q))
  BY HttpLaidDrop
<1>5. CASE q + 1 <= Len(s)
  <2>1. s[q + 1] = HttpUnit(k + 1)
    <3>1. p + 3 <= Len(s) /\ p + 3 = q + 1
      BY <1>5
    <3> QED
      BY <3>1, <1>2 DEF HttpSizeAt
  <2>2. s[q + 1] = HttpUnit(l + 1)
    <3>1. 1 \in 1..v
      OBVIOUS
    <3> QED
      BY <3>1, <1>3, <1>5 DEF HttpFlows
  <2>3. k + 1 = l + 1
    BY <2>1, <2>2, HttpUnitIs
  <2>4. k = l
    BY <2>3
  <2>5. PICK z \in Nat : z = 0 /\ q + z = q
    OBVIOUS
  <2>6. HttpFlows(s, q + z, v, k)
    BY <2>4, <2>5, <1>3
  <2>7. HttpFlows(Drop(s, q), z, v, k)
    BY <2>6, HttpFlowsDrop, Zenon
  <2> QED
    BY <2>5, <2>7, <1>4 DEF HttpStream
<1>6. CASE ~(q + 1 <= Len(s))
  <2>1. Len(s) = q
    BY <1>1, <1>6
  <2>2. Drop(s, Len(s)) = <<>>
    BY DropEnds
  <2>3. HttpStream(<<>>, v, k)
    BY HttpOfNothing
  <2> QED
    BY <2>1, <2>2, <2>3
<1> QED
  BY <1>5, <1>6

\* After the last chunk there is at most the end of line.
LEMMA HttpLastOff ==
  ASSUME NEW s \in Seq(HttpTokens), NEW p \in Nat, NEW k \in Nat, HttpSizeAt(s, p, k),
         NEW q \in Nat, q = p + 2, q <= Len(s), s[p + 1][2] = 0, NEW f \in Nat
  PROVE  Len(s) <= q + 1 /\ HttpGood(Drop(s, q), f)
<1>1. Len(s) \in Nat
  BY SeqTypes
<1>2. q + 1 <= Len(s) => s[q + 1] = HttpCrlf /\ Len(s) = q + 1
  <2>1. p + 3 = q + 1
    OBVIOUS
  <2>2. p + 3 <= Len(s) => s[p + 3] = HttpCrlf /\ Len(s) = p + 3
    BY DEF HttpSizeAt
  <2> QED
    BY <2>1, <2>2
<1>3. PICK d \in Seq(HttpTokens) : d = Drop(s, q) /\ Len(d) = Len(s) - q /\ \A i \in 1..(Len(s) - q) : d[i] = s[q + i]
  <2>1. /\ Drop(s, q) \in Seq(HttpTokens) /\ Len(Drop(s, q)) = Len(s) - q
        /\ \A i \in 1..(Len(s) - q) : Drop(s, q)[i] = s[q + i]
    BY DropIs, Zenon
  <2> QED
    BY <2>1
<1>4. Len(s) <= q + 1
  BY <1>1, <1>2
<1>7. Len(d) = Len(s) - q /\ Len(d) \in Nat
  BY <1>3, SeqTypes
<1>5. ASSUME NEW i \in 1..Len(d) PROVE i = Len(d) /\ d[i] = HttpCrlf
  <2>1. i = 1 /\ Len(d) = 1
    BY <1>1, <1>4, <1>7
  <2>2. q + 1 <= Len(s) /\ 1 <= Len(s) - q
    <3>1. PICK l \in Nat : l = Len(s)
      BY <1>1
    <3>2. 1 = l - q
      BY <3>1, <2>1, <1>7, Zenon
    <3> QED
      BY <3>1, <3>2
  <2>3. d[1] = s[q + 1]
    <3>1. 1 \in 1..(Len(s) - q)
      BY <2>2, <1>1
    <3> QED
      BY <3>1, <1>3
  <2> QED
    BY <2>1, <2>2, <2>3, <1>2
<1>6. HttpGood(d, f)
  BY <1>5 DEF HttpGood
<1> QED
  BY <1>3, <1>4, <1>6

\* Where the last chunk is at its end
LEMMA HttpStreamNext ==
  ASSUME NEW s \in Seq(HttpTokens), NEW k \in Nat
  PROVE  HttpStream(s, 0, k) <=> (s # <<>> => s[1] = HttpCrlf) /\ HttpSizeAt(s, 1, k) /\ HttpLaid(s)
<1>1. Len(s) \in Nat /\ (s # <<>> <=> 1 <= Len(s))
  BY SeqTypes
<1>2. 0 + 0 + 1 = 1 /\ k + 0 = k
  OBVIOUS
<1>3. HttpFlows(s, 0, 0, k) <=> (1 <= Len(s) => s[1] = HttpCrlf) /\ HttpSizeAt(s, 1, k)
  <2>1. \A j \in 1..0 : FALSE
    OBVIOUS
  <2> QED
    BY <1>2, <2>1 DEF HttpFlows
<1> QED
  BY <1>1, <1>3 DEF HttpStream

-----------------------------------------------------------------------------
(* The body in rfc2068_chunked_read()                                      *)

\* What of the body is still to come is told by these fields.
LEMMA HttpBodySame ==
  ASSUME NEW req, NEW r, NEW given, NEW f, NEW left, HttpBody(req, given, f, left),
         r.ptr = req.ptr, r.extra = req.extra, r.chunk = req.chunk, r.length = req.length,
         r.chunked = req.chunked, r.eof = req.eof
  PROVE  HttpBody(r, given, f, left)
BY DEF HttpBody, HttpPlain, HttpEnded, HttpBetween, HttpInLoop

\* Without the loop, a chunked body that is not at its end
LEMMA HttpBetweenBody ==
  ASSUME NEW req, NEW given, NEW f, NEW left, req.chunked = TRUE, req.length = 0, req.eof = FALSE, req.ptr = HttpNoPtr,
         HttpBetween(req, given, f, left)
  PROVE  HttpBody(req, given, f, left)
BY HttpNone DEF HttpBody

\* In the loop, a chunked body that is not at its end
LEMMA HttpLoopBody ==
  ASSUME NEW req, NEW given, NEW f, NEW left, req.chunked = TRUE, req.length = 0, req.eof = FALSE, req.ptr.on,
         HttpInLoop(req, given, f, left)
  PROVE  HttpBody(req, given, f, left)
BY DEF HttpBody

\* What a read takes of the body goes where it belongs.
LEMMA HttpReadsBody ==
  ASSUME NEW req \in HttpReqs, ~req.ptr.on, NEW given \in Seq(HttpTokens), NEW f \in Nat, NEW left \in Seq(HttpTokens),
         HttpBody(req, given, f, left), NEW n \in Nat, n <= Len(left), HttpNoRead(req) <=> n = 0,
         req.chunked /\ req.chunk > 0 => n <= req.chunk
  PROVE  LET o == HttpChunkedRead(req, Take(left, n))
         IN /\ o.res = "again" => HttpBody(o.req, given, f, Drop(left, n))
            /\ o.res = "data" => HttpBody(o.req, Cat(given, o.data), f, Drop(left, n))
<1>1. PICK got \in Seq(HttpTokens) : got = Take(left, n) /\ Len(got) = n
  <2>1. Take(left, n) \in Seq(HttpTokens) /\ Len(Take(left, n)) = n
    BY TakeIs
  <2> QED
    BY <2>1
<1>2. PICK last \in Seq(HttpTokens) : last = Drop(left, n)
  <2>1. Drop(left, n) \in Seq(HttpTokens)
    BY DropIs
  <2> QED
    BY <2>1
<1>3. left = Cat(got, last)
  BY <1>1, <1>2, CatSplit
<1>4. got = <<>> <=> n = 0
  BY <1>1, SeqTypes
<1>5. /\ req.extra \in Seq(HttpTokens) /\ req.chunk \in Nat /\ req.chunked \in BOOLEAN /\ req.eof \in BOOLEAN
      /\ req.length \in Nat
  BY HttpReqTypes
<1>6. PICK e \in Seq(HttpTokens) : e = req.extra
  BY <1>5
<1>7. Len(given) \in Nat /\ f + Len(given) \in Nat
  BY SeqTypes
<1>8. PICK k \in Nat : k = f + Len(given)
  BY <1>7
<1> DEFINE o == HttpChunkedRead(req, got)
<1>9. /\ o \in HttpResults /\ o.req \in HttpReqs
      /\ o.req.rbuf = req.rbuf /\ o.req.length = req.length /\ o.req.chunked = req.chunked /\ o.req.eof = req.eof
      /\ \/ /\ HttpAllRead(req)
            /\ o.res = "data" /\ o.data = <<>> /\ o.req.ptr = HttpNoPtr
            /\ o.req.extra = req.extra /\ o.req.chunk = req.chunk
         \/ /\ got # <<>> /\ req.chunk > 0
            /\ o.res = "data" /\ o.data = got /\ o.req.ptr = HttpNoPtr /\ o.req.extra = <<>>
            /\ o.req.chunk = IF req.chunk > Len(got) THEN req.chunk - Len(got) ELSE 0
         \/ /\ ~(got # <<>> /\ req.chunk > 0) /\ ~req.chunked
            /\ o.res = "data" /\ o.data = Cat(req.extra, got) /\ o.req.ptr = HttpNoPtr
            /\ o.req.extra = <<>> /\ o.req.chunk = req.chunk
         \/ /\ ~(got # <<>> /\ req.chunk > 0) /\ req.chunked
            /\ o.res = "again" /\ o.req.ptr.on /\ o.req.ptr.done = <<>> /\ o.req.ptr.rest = Cat(req.extra, got)
            /\ o.req.extra = <<>> /\ o.req.chunk = req.chunk
  BY HttpChunkedReadIs
<1> HIDE DEF o
<1> SUFFICES /\ o.res = "again" => HttpBody(o.req, given, f, last)
             /\ o.res = "data" => HttpBody(o.req, Cat(given, o.data), f, last)
  BY <1>1, <1>2 DEF o
<1>10. CASE /\ HttpAllRead(req)
            /\ o.res = "data" /\ o.data = <<>> /\ o.req.ptr = HttpNoPtr
            /\ o.req.extra = req.extra /\ o.req.chunk = req.chunk
  <2>1. ~req.chunked
    <3>1. req.length > 0
      BY <1>10 DEF HttpAllRead
    <3> QED
      BY <3>1 DEF HttpBody
  <2>2. n = 0
    BY <1>10 DEF HttpNoRead
  <2>3. last = left
    BY <1>3, <1>4, <2>2, CatEmpty
  <2>4. HttpPlain(req, given, f, left)
    BY <2>1 DEF HttpBody
  <2>5. Cat(given, o.data) = given
    BY <1>10, CatEmpty
  <2>6. HttpPlain(o.req, given, f, last)
    BY <2>3, <2>4, <1>10, HttpNone DEF HttpPlain
  <2>7. HttpBody(o.req, given, f, last)
    BY <2>1, <2>6, <1>9 DEF HttpBody
  <2> QED
    BY <2>5, <2>7, <1>10
<1>11. CASE /\ got # <<>> /\ req.chunk > 0
            /\ o.res = "data" /\ o.data = got /\ o.req.ptr = HttpNoPtr /\ o.req.extra = <<>>
            /\ o.req.chunk = IF req.chunk > Len(got) THEN req.chunk - Len(got) ELSE 0
  <2>1. ~req.eof
    BY <1>4, <1>11 DEF HttpNoRead
  <2>2. req.chunked
    BY <1>11, <1>5 DEF HttpBody, HttpPlain
  <2>3. HttpBetween(req, given, f, left) /\ req.length = 0
    BY <2>1, <2>2 DEF HttpBody
  <2>4. HttpRun(given, f) /\ e = <<>> /\ HttpStream(Cat(e, left), req.chunk, k)
    BY <2>3, <1>6, <1>8, <1>11 DEF HttpBetween
  <2>5. HttpStream(left, req.chunk, k)
    BY <2>4, CatEmpty
  <2>6. PICK c \in Nat : c = req.chunk /\ n <= c
    BY <2>2, <1>5, <1>11, Zenon
  <2>7. HttpRun(Take(left, n), k) /\ HttpStream(Drop(left, n), c - n, k + n)
    BY <2>5, <2>6, HttpConsume, Zenon
  <2>8. HttpRun(Cat(given, got), f)
    BY <2>4, <2>7, <1>1, <1>8, HttpRunCat
  <2>9. PICK all \in Seq(HttpTokens) : all = Cat(given, got) /\ Len(all) = Len(given) + Len(got)
    BY CatPick
  <2>10. k + n = f + Len(all)
    BY <2>9, <1>1, <1>7, <1>8
  <2>11. o.req.chunk = c - n
    BY <2>6, <1>1, <1>11
  <2>12. Cat(o.req.extra, last) = last
    BY <1>11, CatEmpty
  <2>13. HttpBetween(o.req, all, f, last)
    BY <2>7, <2>8, <2>9, <2>10, <2>11, <2>12, <1>2, <1>11 DEF HttpBetween
  <2>14. HttpBody(o.req, all, f, last)
    BY <2>1, <2>2, <2>3, <2>13, <1>5, <1>9, <1>11, HttpBetweenBody, Zenon
  <2> QED
    BY <2>9, <2>14, <1>11
<1>12. CASE /\ ~(got # <<>> /\ req.chunk > 0) /\ ~req.chunked
            /\ o.res = "data" /\ o.data = Cat(req.extra, got) /\ o.req.ptr = HttpNoPtr
            /\ o.req.extra = <<>> /\ o.req.chunk = req.chunk
  <2>1. HttpPlain(req, given, f, left)
    BY <1>12 DEF HttpBody
  <2>2. req.extra = <<>> /\ req.chunk = 0 /\ HttpGood(Cat(given, left), f)
    BY <2>1 DEF HttpPlain
  <2>3. o.data = got
    BY <2>2, <1>12, CatEmpty
  <2>4. Cat(Cat(given, got), last) = Cat(given, left)
    BY <1>3, CatCat
  <2>5. HttpPlain(o.req, Cat(given, got), f, last)
    BY <2>2, <2>4, <1>12, HttpNone DEF HttpPlain
  <2>6. HttpBody(o.req, Cat(given, got), f, last)
    BY <2>5, <1>9, <1>12 DEF HttpBody
  <2> QED
    BY <2>3, <2>6, <1>12
<1>13. CASE /\ ~(got # <<>> /\ req.chunk > 0) /\ req.chunked
            /\ o.res = "again" /\ o.req.ptr.on /\ o.req.ptr.done = <<>> /\ o.req.ptr.rest = Cat(req.extra, got)
            /\ o.req.extra = <<>> /\ o.req.chunk = req.chunk
  <2>1. req.length = 0
    BY <1>13 DEF HttpBody
  <2>2. CASE req.eof
    <3>1. HttpEnded(req, given, f)
      BY <2>2, <1>13 DEF HttpBody
    <3>2. n = 0
      BY <2>2 DEF HttpNoRead
    <3>3. req.extra = <<>> /\ got = <<>>
      BY <3>1, <3>2, <1>4 DEF HttpEnded
    <3>4. o.req.ptr.rest = <<>>
      BY <3>3, <1>13, HttpEmpty, CatEmpty, Zenon
    <3>5. HttpEnded(o.req, given, f)
      BY <3>1, <3>4, <1>13 DEF HttpEnded
    <3>6. HttpBody(o.req, given, f, last)
      BY <2>1, <2>2, <3>5, <1>9, <1>13 DEF HttpBody
    <3> QED
      BY <3>6, <1>13
  <2>3. CASE ~req.eof
    <3>1. HttpBetween(req, given, f, left)
      BY <2>3, <1>13 DEF HttpBody
    <3>2. req.chunk = 0
      <4>1. ASSUME req.chunk > 0 PROVE FALSE
        <5>1. req.extra = <<>>
          BY <3>1, <4>1 DEF HttpBetween
        <5>2. n = 0
          BY <4>1, <1>4, <1>13
        <5>3. HttpEndOfChunks(req.extra)
          BY <2>1, <2>3, <5>2 DEF HttpNoRead, HttpAllRead
        <5>4. Len(req.extra) = 0
          BY <5>1
        <5> QED
          BY <5>3, <5>4 DEF HttpEndOfChunks
      <4> QED
        BY <4>1, <1>5
    <3>3. PICK rest \in Seq(HttpTokens) :
            /\ rest = Cat(e, got) /\ Len(rest) = Len(e) + Len(got)
            /\ \A i \in 1..Len(e) : rest[i] = e[i]
            /\ \A i \in 1..Len(got) : rest[Len(e) + i] = got[i]
      BY CatPick, Zenon
    <3>4. Cat(rest, last) = Cat(e, left)
      BY <3>3, <1>3, CatCat
    <3>5. HttpStuck(e) => HttpStuck(rest)
      <4>1. ASSUME HttpStuck(e) PROVE HttpStuck(rest)
        <5>1. Len(e) \in Nat /\ Len(e) # 0 /\ e[1] # HttpCrlf
          BY <4>1, SeqTypes DEF HttpStuck
        <5>2. Len(got) \in Nat /\ Len(rest) # 0
          BY <5>1, <3>3, <1>1
        <5>3. rest[1] = e[1]
          BY <5>1, <3>3
        <5>4. rest # <<>>
          BY <5>2, SeqTypes
        <5> QED
          BY <5>1, <5>3, <5>4 DEF HttpStuck
      <4> QED
        BY <4>1
    <3>6. HttpRun(given, f) /\ (HttpStuck(e) \/ HttpStream(Cat(e, left), 0, k))
      BY <3>1, <3>2, <1>6, <1>8 DEF HttpBetween
    <3>7. Cat(given, o.req.ptr.done) = given /\ o.req.ptr.rest = rest
      BY <3>3, <1>6, <1>13, CatEmpty
    <3>8. HttpInLoop(o.req, given, f, last)
      BY <3>2, <3>4, <3>5, <3>6, <3>7, <1>8, <1>13 DEF HttpInLoop
    <3>9. HttpBody(o.req, given, f, last)
      BY <2>1, <2>3, <3>8, <1>5, <1>9, <1>13, HttpLoopBody, Zenon
    <3> QED
      BY <3>9, <1>13
  <2> QED
    BY <2>2, <2>3
<1> QED
  BY <1>9, <1>10, <1>11, <1>12, <1>13

\* One sequence after another, by a name, and its length
LEMMA CatLen ==
  ASSUME NEW s \in Seq(HttpTokens), NEW t \in Seq(HttpTokens)
  PROVE  \E c \in Seq(HttpTokens) : c = Cat(s, t) /\ Len(c) = Len(s) + Len(t)
<1>1. Cat(s, t) \in Seq(HttpTokens) /\ Len(Cat(s, t)) = Len(s) + Len(t)
  BY CatIs
<1> QED
  BY <1>1

\* Where one sequence after another ends, when the first starts after f
LEMMA CatEnd ==
  ASSUME NEW f \in Nat, NEW s \in Seq(HttpTokens), NEW t \in Seq(HttpTokens)
  PROVE  f + Len(s) \in Nat /\ f + Len(Cat(s, t)) = f + Len(s) + Len(t)
<1>1. Len(Cat(s, t)) = Len(s) + Len(t)
  BY CatIs
<1>2. Len(s) \in Nat /\ Len(t) \in Nat
  BY SeqTypes
<1> QED
  BY <1>1, <1>2

\* The conditions of a pass, and what becomes of a chunk
HttpNoHeader(req, rest) == req.chunk > 0 \/ rest = <<>>
HttpSizeIs(rest, v) == Len(rest) > 2 /\ rest[2][2] = v
HttpTaken(r, req, done, v, tail) ==
  /\ v < Len(tail) => /\ r.ptr.done = Cat(done, Take(tail, v))
                      /\ r.ptr.rest = Drop(tail, v) /\ r.chunk = req.chunk
  /\ ~(v < Len(tail)) => r.ptr.done = done /\ r.ptr.rest = tail /\ r.chunk = v - Len(tail)

\* The pass that finds nothing to take out: all the loop has is data.
LEMMA HttpPassBody ==
  ASSUME NEW req \in HttpReqs, req.ptr.on, NEW given \in Seq(HttpTokens), NEW f \in Nat, NEW left \in Seq(HttpTokens),
         HttpInLoop(req, given, f, left), NEW done \in Seq(HttpTokens), NEW rest \in Seq(HttpTokens),
         done = req.ptr.done, rest = req.ptr.rest, HttpNoHeader(req, rest),
         NEW r \in HttpReqs, r.ptr = HttpNoPtr, r.extra = req.extra, r.chunk = req.chunk
  PROVE  HttpBetween(r, Cat(given, Cat(done, rest)), f, left)
<1>1. PICK a \in Seq(HttpTokens) : a = Cat(given, done) /\ Len(a) = Len(given) + Len(done)
  BY CatLen, Zenon
<1>2. PICK all \in Seq(HttpTokens) : all = Cat(a, rest) /\ Len(all) = Len(a) + Len(rest)
  BY CatLen, Zenon
<1>3. all = Cat(given, Cat(done, rest))
  BY <1>1, <1>2, CatCat
<1>10. Len(a) \in Nat /\ Len(rest) \in Nat /\ Len(all) \in Nat
  BY SeqTypes
<1>4. f + Len(a) \in Nat /\ f + Len(all) = f + Len(a) + Len(rest)
  BY <1>2, CatEnd, ZenonT(60)
<1>5. HttpRun(a, f) /\ req.extra = <<>>
  BY <1>1 DEF HttpInLoop
<1>6. Cat(r.extra, left) = left
  BY <1>5, CatEmpty
<1>7. PICK k \in Nat : k = f + Len(a)
  BY <1>4
<1>8. CASE req.chunk > 0
  <2>1. HttpRun(rest, k) /\ HttpStream(left, req.chunk, k + Len(rest))
    <3>1. ~(req.chunk = 0)
      BY <1>8
    <3> QED
      BY <3>1, <1>1, <1>7, Zenon DEF HttpInLoop
  <2>2. HttpRun(all, f)
    BY <2>1, <1>2, <1>5, <1>7, HttpRunCat
  <2>3. HttpBetween(r, all, f, left)
    BY <2>1, <2>2, <1>4, <1>5, <1>6, <1>7, <1>8, Zenon DEF HttpBetween
  <2> QED
    BY <2>3, <1>3
<1>9. CASE rest = <<>> /\ ~(req.chunk > 0)
  <2>1. req.chunk = 0 /\ HttpStream(Cat(rest, left), 0, k)
    BY <1>1, <1>7, <1>9 DEF HttpInLoop, HttpStuck
  <2>2. Cat(rest, left) = left /\ all = a
    BY <1>2, <1>9, CatEmpty
  <2>3. HttpBetween(r, all, f, left)
    BY <2>1, <2>2, <1>5, <1>6, <1>7 DEF HttpBetween
  <2> QED
    BY <2>3, <1>3
<1> QED
  BY <1>8, <1>9 DEF HttpNoHeader

\* The pass that keeps what is no chunk header, whole
LEMMA HttpSavedBody ==
  ASSUME NEW req \in HttpReqs, req.ptr.on, NEW given \in Seq(HttpTokens), NEW f \in Nat, NEW left \in Seq(HttpTokens),
         HttpInLoop(req, given, f, left), NEW done \in Seq(HttpTokens), NEW rest \in Seq(HttpTokens),
         done = req.ptr.done, rest = req.ptr.rest, req.chunk = 0,
         NEW r \in HttpReqs, r.ptr = HttpNoPtr, r.extra = rest, r.chunk = req.chunk
  PROVE  HttpBetween(r, Cat(given, done), f, left)
<1>1. HttpRun(Cat(given, done), f)
  BY DEF HttpInLoop
<1>2. HttpStuck(rest) \/ HttpStream(Cat(rest, left), 0, f + Len(Cat(given, done)))
  BY DEF HttpInLoop
<1> QED
  BY <1>1, <1>2 DEF HttpBetween

\* There is a chunk header, whole: what follows is told by what the server laid out.
HttpFound(s, rest, left, v, k) ==
  /\ s \in Seq(HttpTokens) /\ Len(s) = Len(rest) + Len(left) /\ s[2][2] = v
  /\ HttpSizeAt(s, 1, k) /\ HttpLaid(s)
  /\ 3 <= Len(rest) /\ Drop(s, 3) = Cat(Drop(rest, 3), left)

\* Where the loop stands there is a chunk header.
LEMMA HttpInHeader ==
  ASSUME NEW rest \in Seq(HttpTokens), NEW left \in Seq(HttpTokens), NEW k \in Nat, HttpStream(Cat(rest, left), 0, k),
         NEW v \in Nat, HttpSizeIs(rest, v)
  PROVE  HttpFound(Cat(rest, left), rest, left, v, k)
<1>3. PICK s \in Seq(HttpTokens) :
        /\ s = Cat(rest, left) /\ Len(s) = Len(rest) + Len(left)
        /\ \A i \in 1..Len(rest) : s[i] = rest[i]
        /\ \A i \in 1..Len(left) : s[Len(rest) + i] = left[i]
  BY CatPick, Zenon
<1>4. HttpSizeAt(s, 1, k) /\ HttpLaid(s)
  BY <1>3, HttpStreamNext
<1>5. Len(rest) \in Nat /\ Len(rest) > 2 /\ rest[2][2] = v
  BY SeqTypes DEF HttpSizeIs
<1>6. PICK n \in Nat : n = 3 /\ n <= Len(rest)
  BY <1>5
<1>7. Drop(Cat(rest, left), n) = Cat(Drop(rest, n), left)
  BY <1>6, DropCat
<1>8. s[2] = rest[2]
  <2>1. 2 \in 1..Len(rest)
    BY <1>5
  <2> QED
    BY <2>1, <1>3
<1> QED
  BY <1>3, <1>4, <1>5, <1>6, <1>7, <1>8 DEF HttpFound

\* The pass that finds the last chunk
LEMMA HttpEndedBody ==
  ASSUME NEW req \in HttpReqs, req.ptr.on, NEW given \in Seq(HttpTokens), NEW f \in Nat, NEW left \in Seq(HttpTokens),
         HttpInLoop(req, given, f, left), NEW done \in Seq(HttpTokens), NEW rest \in Seq(HttpTokens),
         done = req.ptr.done, rest = req.ptr.rest, req.chunk = 0, HttpWhole(rest), HttpSizeIs(rest, 0),
         NEW r \in HttpReqs, r.ptr = HttpNoPtr, r.extra = req.extra, r.chunk = req.chunk
  PROVE  HttpEnded(r, Cat(given, Cat(done, Take(rest, Len(rest) - 3))), f)
<1>1. PICK a \in Seq(HttpTokens) : a = Cat(given, done) /\ Len(a) = Len(given) + Len(done)
  BY CatLen, Zenon
<1>2. Len(rest) \in Nat /\ Len(left) \in Nat /\ f + Len(a) \in Nat
  BY SeqTypes
<1>3. PICK k \in Nat : k = f + Len(Cat(given, done))
  BY <1>1, <1>2
<1>16. req.chunk = 0 /\ ~(req.chunk > 0)
  OBVIOUS
<1>12. HttpRun(a, f) /\ (HttpStuck(rest) \/ HttpStream(Cat(rest, left), 0, k))
  <2>1. HttpRun(Cat(given, done), f)
    BY DEF HttpInLoop
  <2>2. HttpStuck(rest) \/ HttpStream(Cat(rest, left), 0, f + Len(Cat(given, done)))
    BY <1>16 DEF HttpInLoop
  <2> QED
    BY <2>1, <2>2, <1>1, <1>3, Zenon
<1>13. ~HttpStuck(rest)
  BY DEF HttpWhole, HttpStuck
<1>14. PICK z \in Nat : z = 0
  OBVIOUS
<1>15. HttpFound(Cat(rest, left), rest, left, z, k)
  BY <1>12, <1>13, <1>14, HttpInHeader
<1>4. PICK s \in Seq(HttpTokens) :
         /\ s = Cat(rest, left) /\ Len(s) = Len(rest) + Len(left) /\ s[2][2] = 0
         /\ HttpSizeAt(s, 1, k) /\ HttpLaid(s) /\ 3 <= Len(rest)
  BY <1>14, <1>15 DEF HttpFound
<1>5. Len(rest) <= 4
  <2>1. PICK p \in Nat, q \in Nat : p = 1 /\ q = p + 2 /\ q = 3
    OBVIOUS
  <2>2. q <= Len(s) /\ s[p + 1][2] = 0 /\ HttpSizeAt(s, p, k)
    BY <2>1, <1>2, <1>4
  <2>3. Len(s) <= q + 1
    BY <2>1, <2>2, <1>3, HttpLastOff
  <2> QED
    BY <2>1, <2>3, <1>2, <1>4
<1>6. PICK m \in Nat : m = Len(rest) - 3 /\ m <= 1 /\ m <= Len(rest)
  <2>1. PICK l \in Nat : l = Len(rest)
    BY <1>2
  <2>2. l - 3 \in Nat /\ l - 3 <= 1 /\ l - 3 <= l
    BY <2>1, <1>4, <1>5
  <2> QED
    BY <2>1, <2>2, Zenon
<1>7. PICK t \in Seq(HttpTokens) : t = Take(rest, m) /\ Len(t) = m /\ \A i \in 1..m : t[i] = rest[i]
  <2>1. Take(rest, m) \in Seq(HttpTokens) /\ Len(Take(rest, m)) = m /\ \A i \in 1..m : Take(rest, m)[i] = rest[i]
    BY <1>6, TakeIs, ZenonT(60)
  <2> QED
    BY <2>1, Zenon
<1>8. HttpGood(t, f + Len(a))
  <2>1. ASSUME NEW i \in 1..Len(t) PROVE i = Len(t) /\ t[i] = HttpCrlf
    <3>3. i \in 1..m /\ Len(t) = m
      BY <1>7
    <3>4. m \in Nat /\ m <= 1
      BY <1>6
    <3>1. i = 1 /\ Len(t) = 1 /\ 1 \in 1..m
      BY <3>3, <3>4
    <3>2. t[1] = rest[1]
      BY <3>1, <1>7
    <3> QED
      BY <3>1, <3>2 DEF HttpWhole
  <2> QED
    BY <2>1 DEF HttpGood
<1>9. HttpGood(Cat(a, t), f)
  <2>1. PICK g \in Nat : g = f + Len(a)
    BY <1>2
  <2> QED
    BY <2>1, <1>8, <1>12, HttpRunThenGood
<1>10. Cat(a, t) = Cat(given, Cat(done, t))
  BY <1>1, CatCat
<1>11. req.extra = <<>>
  BY DEF HttpInLoop
<1> QED
  BY <1>6, <1>7, <1>9, <1>10, <1>11, HttpNone DEF HttpEnded

\* The pass that finds the size of a chunk
LEMMA HttpChunkedBody ==
  ASSUME NEW req \in HttpReqs, req.ptr.on, NEW given \in Seq(HttpTokens), NEW f \in Nat, NEW left \in Seq(HttpTokens),
         HttpInLoop(req, given, f, left), NEW done \in Seq(HttpTokens), NEW rest \in Seq(HttpTokens),
         done = req.ptr.done, rest = req.ptr.rest, req.chunk = 0, HttpWhole(rest),
         NEW v \in Nat, HttpSizeIs(rest, v), v > 0, NEW tail \in Seq(HttpTokens), tail = Drop(rest, 3),
         NEW r \in HttpReqs, r.extra = req.extra,
         HttpTaken(r, req, done, v, tail)
  PROVE  HttpInLoop(r, given, f, left)
<1>1. PICK a \in Seq(HttpTokens) : a = Cat(given, done) /\ Len(a) = Len(given) + Len(done)
  BY CatLen, Zenon
<1>2. Len(rest) \in Nat /\ Len(left) \in Nat /\ f + Len(a) \in Nat /\ Len(tail) \in Nat
  BY SeqTypes
<1>3. PICK k \in Nat : k = f + Len(Cat(given, done)) /\ k = f + Len(a)
  BY <1>1, <1>2
<1>16. req.chunk = 0 /\ ~(req.chunk > 0)
  OBVIOUS
<1>12. HttpRun(a, f) /\ (HttpStuck(rest) \/ HttpStream(Cat(rest, left), 0, k))
  <2>1. HttpRun(Cat(given, done), f)
    BY DEF HttpInLoop
  <2>2. HttpStuck(rest) \/ HttpStream(Cat(rest, left), 0, f + Len(Cat(given, done)))
    BY <1>16 DEF HttpInLoop
  <2> QED
    BY <2>1, <2>2, <1>1, <1>3, Zenon
<1>13. ~HttpStuck(rest)
  BY DEF HttpWhole, HttpStuck
<1>14. HttpFound(Cat(rest, left), rest, left, v, k)
  BY <1>12, <1>13, HttpInHeader, Zenon
<1>4. PICK s \in Seq(HttpTokens) :
         /\ HttpRun(a, f) /\ s = Cat(rest, left) /\ Len(s) = Len(rest) + Len(left) /\ s[2][2] = v
         /\ HttpSizeAt(s, 1, k) /\ HttpLaid(s) /\ 3 <= Len(rest) /\ Drop(s, 3) = Cat(tail, left)
  BY <1>12, <1>14 DEF HttpFound
<1>5. PICK u \in Seq(HttpTokens) : u = Cat(tail, left) /\ Len(u) = Len(tail) + Len(left)
  BY CatLen, Zenon
<1>6. HttpStream(u, v, k)
  <2>1. PICK p \in Nat, q \in Nat : p = 1 /\ q = p + 2 /\ q = 3
    OBVIOUS
  <2>4. p + 1 = 2 /\ v = s[2][2]
    BY <2>1, <1>4
  <2>5. q <= Len(s)
    BY <2>1, <1>2, <1>4
  <2>2. q <= Len(s) /\ v = s[p + 1][2] /\ HttpSizeAt(s, p, k)
    BY <2>1, <2>4, <2>5, <1>4
  <2>3. HttpStream(Drop(s, q), v, k)
    BY <2>1, <2>2, <1>4, HttpHeaderOff, Zenon
  <2> QED
    BY <2>1, <2>3, <1>4, <1>5
<1>7. req.extra = <<>>
  BY DEF HttpInLoop
<1>10. v < Len(tail) => /\ r.ptr.done = Cat(done, Take(tail, v))
                        /\ r.ptr.rest = Drop(tail, v) /\ r.chunk = req.chunk
  BY DEF HttpTaken
<1>11. ~(v < Len(tail)) => r.ptr.done = done /\ r.ptr.rest = tail /\ r.chunk = v - Len(tail)
  BY DEF HttpTaken
<1>8. CASE v < Len(tail)
  <2>1. v <= Len(tail) /\ v <= Len(u) /\ v - v = 0
    <3>1. PICK l \in Nat, m \in Nat : l = Len(tail) /\ m = Len(left)
      BY <1>2
    <3>2. Len(u) = l + m /\ v < l
      BY <3>1, <1>5, <1>8
    <3> QED
      BY <3>1, <3>2
  <2>2. HttpRun(Take(u, v), k) /\ HttpStream(Drop(u, v), v - v, k + v)
    <3>1. PICK c \in Nat : c = v /\ v <= c
      OBVIOUS
    <3>2. HttpRun(Take(u, v), k) /\ HttpStream(Drop(u, v), c - v, k + v)
      BY <3>1, <2>1, <1>6, HttpConsume
    <3> QED
      BY <3>1, <3>2
  <2>3. Take(u, v) = Take(tail, v) /\ Drop(u, v) = Cat(Drop(tail, v), left)
    BY <2>1, <1>5, DropCat
  <2>4. PICK t \in Seq(HttpTokens) : t = Take(tail, v) /\ Len(t) = v
    <3>1. Take(tail, v) \in Seq(HttpTokens) /\ Len(Take(tail, v)) = v
      BY <2>1, TakeIs, Zenon
    <3> QED
      BY <3>1
  <2>5. PICK b \in Seq(HttpTokens) : b = Cat(a, t) /\ Len(b) = Len(a) + Len(t)
    BY CatLen
  <2>6. HttpRun(b, f)
    <3>1. HttpRun(a, f) /\ HttpRun(t, f + Len(a))
      BY <2>2, <2>3, <2>4, <1>3, <1>4
    <3> QED
      BY <3>1, <2>5, HttpRunCat, Zenon
  <2>7. b = Cat(given, Cat(done, t))
    BY <2>5, <1>1, CatCat, SMTT(30)
  <2>8. f + Len(b) = k + v
    <3>1. PICK l \in Nat : l = Len(a)
      BY SeqTypes
    <3>2. Len(b) = l + v /\ k = f + l
      BY <3>1, <2>4, <2>5, <1>3, Zenon
    <3> QED
      BY <3>2
  <2>9. HttpStream(Cat(Drop(tail, v), left), 0, k + v)
    BY <2>1, <2>2, <2>3
  <2>10. r.ptr.done = Cat(done, t) /\ r.ptr.rest = Drop(tail, v) /\ r.chunk = 0
    BY <2>4, <1>8, <1>10
  <2> QED
    BY <2>6, <2>7, <2>8, <2>9, <2>10, <1>7 DEF HttpInLoop
<1>9. CASE ~(v < Len(tail))
  <2>1. PICK n \in Nat : n = Len(tail) /\ n <= v /\ n <= Len(u)
    <3>1. PICK l \in Nat, m \in Nat : l = Len(tail) /\ m = Len(left)
      BY <1>2
    <3>2. Len(u) = l + m /\ ~(v < l)
      BY <3>1, <1>5, <1>9
    <3> QED
      BY <3>1, <3>2
  <2>2. HttpRun(Take(u, n), k) /\ HttpStream(Drop(u, n), v - n, k + n)
    BY <2>1, <1>6, HttpConsume, Zenon
  <2>3. Take(u, n) = Take(tail, n) /\ Drop(u, n) = Cat(Drop(tail, n), left)
    BY <2>1, <1>5, DropCat
  <2>4. Take(tail, n) = tail /\ Cat(Drop(tail, n), left) = left
    BY <2>1, DropEnds, CatEmpty
  <2>5. HttpRun(tail, k) /\ HttpStream(left, v - n, k + n)
    BY <2>2, <2>3, <2>4
  <2>6. Cat(given, r.ptr.done) = a /\ r.ptr.rest = tail /\ r.chunk = v - n
    BY <2>1, <1>1, <1>9, <1>11
  <2>7. CASE n = v
    <3>4. Len(tail) = v
      BY <2>1, <2>7
    <3>1. 1 \in 1..Len(tail) /\ tail # <<>>
      BY <3>4, SeqTypes
    <3>2. tail[1] = HttpUnit(k + 1)
      BY <3>1, <2>5 DEF HttpRun
    <3>3. HttpStuck(tail)
      BY <3>1, <3>2, HttpUnitIs DEF HttpStuck
    <3>5. r.chunk = 0 /\ r.extra = <<>>
      BY <2>6, <2>7, <1>7
    <3> QED
      BY <3>3, <3>5, <2>6, <1>4 DEF HttpInLoop
  <2>8. CASE n # v
    <3>1. r.chunk > 0
      <4>1. v - n > 0
        BY <2>1, <2>8
      <4> QED
        BY <4>1, <2>6
    <3>2. k + n = f + Len(a) + Len(tail)
      BY <2>1, <1>3, Zenon
    <3> QED
      BY <3>1, <3>2, <2>5, <2>6, <1>3, <1>4, <1>7 DEF HttpInLoop
  <2> QED
    BY <2>7, <2>8
<1> QED
  BY <1>8, <1>9

\* After the last chunk
LEMMA HttpEndedIsBody ==
  ASSUME NEW req, NEW given, NEW f, NEW left, req.chunked = TRUE, req.length = 0, req.eof = TRUE,
         HttpEnded(req, given, f)
  PROVE  HttpBody(req, given, f, left)
BY DEF HttpBody

\* A chunk, and what it leaves in the buffer
HttpChunked(o, req, done, n, tail) ==
  /\ o.res = "again" /\ o.req \in HttpReqs
  /\ o.req.ptr.on /\ o.req.extra = req.extra
  /\ o.req.length = req.length /\ o.req.chunked = req.chunked /\ o.req.eof = req.eof
  /\ HttpTaken(o.req, req, done, n, tail)
\* One chunk is taken out of the buffer, or all of the rest is of it.
LEMMA HttpChunkTaken ==
  ASSUME NEW req \in HttpReqs, NEW done \in Seq(HttpTokens), NEW n \in Nat, NEW tail \in Seq(HttpTokens)
  PROVE  HttpChunked(HttpChunk(req, done, n, tail), req, done, n, tail)
<1> DEFINE c == HttpChunk(req, done, n, tail)
<1>1. /\ c \in HttpResults /\ c.res = "again" /\ c.req \in HttpReqs
      /\ c.req.ptr.on /\ c.req.rbuf = req.rbuf /\ c.req.extra = req.extra
      /\ c.req.length = req.length /\ c.req.chunked = req.chunked /\ c.req.eof = req.eof
      /\ n < Len(tail) => /\ c.req.ptr.done = Cat(done, Take(tail, n))
                          /\ c.req.ptr.rest = Drop(tail, n) /\ c.req.chunk = req.chunk
      /\ ~(n < Len(tail)) => /\ c.req.ptr.done = done /\ c.req.ptr.rest = tail /\ c.req.chunk = n - Len(tail)
  BY HttpChunkIs
<1> HIDE DEF c
<1>2. HttpChunked(c, req, done, n, tail)
  BY <1>1 DEF HttpTaken, HttpChunked
<1> QED
  BY <1>2 DEF c

\* A pass of the loop leaves the body in its place.
LEMMA HttpLoopsBody ==
  ASSUME NEW req \in HttpReqs, req.ptr.on, NEW given \in Seq(HttpTokens), NEW f \in Nat, NEW left \in Seq(HttpTokens),
         HttpBody(req, given, f, left)
  PROVE  LET o == HttpUnchunk(req)
         IN /\ o.res = "again" => HttpBody(o.req, given, f, left)
            /\ o.res = "data" => HttpBody(o.req, Cat(given, o.data), f, left)
<1>1. req.chunked = TRUE /\ req.length = 0 /\ req.chunk \in Nat /\ req.eof \in BOOLEAN
  BY HttpReqTypes DEF HttpBody, HttpPlain
<1>2. PICK done \in Seq(HttpTokens) : done = req.ptr.done
  BY HttpReqTypes
<1>3. PICK rest \in Seq(HttpTokens) : rest = req.ptr.rest
  BY HttpReqTypes
<1> DEFINE o == HttpUnchunk(req)
<1>4. \/ HttpNoHeader(req, rest) /\ o = HttpDone(req, Cat(done, rest))
      \/ req.chunk = 0 /\ rest # <<>> /\ o = HttpSave(req, done, rest)
      \/ req.chunk = 0 /\ HttpWhole(rest) /\ o = HttpGivesUp(req)
      \/ /\ req.chunk = 0 /\ HttpWhole(rest) /\ HttpSized(rest) /\ HttpSizeIs(rest, 0)
         /\ o = HttpLastChunk(req, done, rest)
      \/ /\ req.chunk = 0 /\ HttpWhole(rest) /\ HttpSized(rest) /\ rest[2][2] # 0
         /\ o = HttpChunk(req, done, rest[2][2], Drop(rest, 3))
  <2>1. HttpSized(rest) => Len(rest) > 2
    BY DEF HttpSized
  <2> QED
    BY <2>1, <1>2, <1>3, HttpUnchunkCases DEF HttpNoHeader, HttpSizeIs
<1> HIDE DEF o
<1> SUFFICES /\ o.res = "again" => HttpBody(o.req, given, f, left)
             /\ o.res = "data" => HttpBody(o.req, Cat(given, o.data), f, left)
  BY DEF o
<1>5. PICK all \in Seq(HttpTokens) : all = Cat(done, rest)
  BY CatLen
<1>6. HttpWhole(rest) => rest # <<>>
  BY DEF HttpWhole
<1>7. CASE req.eof
  <2>1. HttpEnded(req, given, f)
    BY <1>1, <1>7 DEF HttpBody
  <2>2. req.chunk = 0 /\ done = <<>> /\ rest = <<>>
    BY <2>1, <1>2, <1>3 DEF HttpEnded
  <2>3. o = HttpDone(req, all)
    BY <2>2, <1>4, <1>5, <1>6
  <2>4. /\ o.res = "data" /\ o.data = all /\ o.req.ptr = HttpNoPtr /\ o.req.extra = req.extra /\ o.req.chunk = req.chunk
        /\ o.req.length = req.length /\ o.req.chunked = req.chunked /\ o.req.eof = req.eof
    BY <2>3, HttpDoneIs
  <2>5. all = <<>>
    BY <2>2, <1>5, CatEmpty, Zenon
  <2>6. Cat(given, o.data) = given
    BY <2>4, <2>5, CatEmpty
  <2>7. HttpEnded(o.req, given, f)
    BY <2>1, <2>4, HttpNone DEF HttpEnded
  <2>8. HttpBody(o.req, given, f, left)
    BY <2>4, <2>7, <1>1, <1>7, HttpEndedIsBody, Zenon
  <2> QED
    BY <2>4, <2>6, <2>8
<1>8. CASE ~req.eof
  <2>1. HttpInLoop(req, given, f, left) /\ req.eof = FALSE
    BY <1>1, <1>8 DEF HttpBody
  <2>2. CASE HttpNoHeader(req, rest) /\ o = HttpDone(req, Cat(done, rest))
    <3>1. o = HttpDone(req, all)
      BY <2>2, <1>5
    <3>2. /\ o.res = "data" /\ o.data = all /\ o.req.ptr = HttpNoPtr /\ o.req.extra = req.extra /\ o.req.chunk = req.chunk
          /\ o.req.length = req.length /\ o.req.chunked = req.chunked /\ o.req.eof = req.eof /\ o.req \in HttpReqs
      BY <3>1, HttpDoneIs
    <3>3. PICK r \in HttpReqs : r = o.req
      BY <3>2
    <3>4. HttpBetween(r, Cat(given, Cat(done, rest)), f, left)
      BY <2>1, <2>2, <3>2, <3>3, <1>2, <1>3, HttpPassBody, Zenon
    <3>5. HttpBody(r, Cat(given, all), f, left)
      BY <3>2, <3>3, <3>4, <1>1, <1>5, <2>1, HttpBetweenBody, Zenon
    <3> QED
      BY <3>2, <3>3, <3>5
  <2>3. CASE req.chunk = 0 /\ rest # <<>> /\ o = HttpSave(req, done, rest)
    <3>1. /\ o.req \in HttpReqs /\ o.req.ptr = HttpNoPtr
          /\ \/ o.res = "fatal"
             \/ /\ o.res = IF done # <<>> THEN "data" ELSE "again"
                /\ o.data = done
                /\ o.req.extra = rest /\ o.req.chunk = req.chunk
                /\ o.req.length = req.length /\ o.req.chunked = req.chunked /\ o.req.eof = req.eof
      BY <2>3, HttpSaveIs
    <3>2. CASE o.res = "fatal"
      BY <3>2
    <3>3. CASE /\ o.res = IF done # <<>> THEN "data" ELSE "again"
               /\ o.data = done
               /\ o.req.extra = rest /\ o.req.chunk = req.chunk
               /\ o.req.length = req.length /\ o.req.chunked = req.chunked /\ o.req.eof = req.eof
      <4>1. PICK r \in HttpReqs : r = o.req
        BY <3>1
      <4>2. HttpBetween(r, Cat(given, done), f, left)
        BY <2>1, <2>3, <3>1, <3>3, <4>1, <1>2, <1>3, HttpSavedBody
      <4>3. HttpBody(r, Cat(given, done), f, left)
        BY <2>1, <3>1, <3>3, <4>1, <4>2, <1>1, HttpBetweenBody, Zenon
      <4>4. done = <<>> => Cat(given, done) = given
        BY CatEmpty
      <4> QED
        BY <3>3, <4>1, <4>3, <4>4
    <3> QED
      BY <3>1, <3>2, <3>3
  <2>4. CASE o = HttpGivesUp(req)
    <3>1. o.res = "fatal"
      BY <2>4, HttpGivesUpIs
    <3> QED
      BY <3>1
  <2>5. CASE /\ req.chunk = 0 /\ HttpWhole(rest) /\ HttpSized(rest) /\ HttpSizeIs(rest, 0)
             /\ o = HttpLastChunk(req, done, rest)
    <3>1. Len(rest) > 2
      BY <2>5 DEF HttpSizeIs
    <3>2. /\ o.res = "data" /\ o.req \in HttpReqs
          /\ o.data = Cat(done, Take(rest, Len(rest) - 3))
          /\ o.req.ptr = HttpNoPtr /\ o.req.extra = req.extra /\ o.req.chunk = req.chunk
          /\ o.req.length = req.length /\ o.req.chunked = req.chunked /\ o.req.eof = TRUE
      <4> DEFINE c == HttpLastChunk(req, done, rest)
      <4>1. /\ c \in HttpResults /\ c.res = "data" /\ c.req \in HttpReqs
            /\ req.eof => c.data = <<>>
            /\ ~req.eof => c.data = Cat(done, Take(rest, Len(rest) - 3))
            /\ c.req.ptr = HttpNoPtr /\ c.req.rbuf = req.rbuf /\ c.req.extra = req.extra /\ c.req.chunk = req.chunk
            /\ c.req.length = req.length /\ c.req.chunked = req.chunked /\ c.req.eof = TRUE
        BY <3>1, HttpLastChunkIs, Zenon
      <4>2. o = c
        BY <2>5
      <4> HIDE DEF c
      <4> QED
        BY <4>1, <4>2, <1>8
    <3>3. PICK r \in HttpReqs : r = o.req
      BY <3>2
    <3>4. HttpEnded(r, Cat(given, Cat(done, Take(rest, Len(rest) - 3))), f)
      BY <2>1, <2>5, <3>2, <3>3, <1>2, <1>3, HttpEndedBody, Zenon
    <3>5. HttpBody(r, Cat(given, o.data), f, left)
      BY <3>2, <3>3, <3>4, <1>1, HttpEndedIsBody, Zenon
    <3> QED
      BY <3>2, <3>3, <3>5
  <2>6. CASE /\ req.chunk = 0 /\ HttpWhole(rest) /\ HttpSized(rest) /\ rest[2][2] # 0
             /\ o = HttpChunk(req, done, rest[2][2], Drop(rest, 3))
    <3>1. rest[2][2] \in Nat /\ Len(rest) > 2 /\ Drop(rest, 3) \in Seq(HttpTokens)
      BY <2>6, HttpSizedIs
    <3>2. PICK v \in Nat : v = rest[2][2] /\ v > 0
      BY <3>1, <2>6
    <3>3. HttpSizeIs(rest, v)
      BY <3>1, <3>2 DEF HttpSizeIs
    <3>4. PICK tail \in Seq(HttpTokens) : tail = Drop(rest, 3)
      BY <3>1
    <3>5. o = HttpChunk(req, done, v, tail)
      BY <2>6, <3>2, <3>4
    <3>6. /\ o.res = "again" /\ o.req \in HttpReqs
          /\ o.req.ptr.on /\ o.req.extra = req.extra
          /\ o.req.length = req.length /\ o.req.chunked = req.chunked /\ o.req.eof = req.eof
          /\ HttpTaken(o.req, req, done, v, tail)
      <4>1. HttpChunked(HttpChunk(req, done, v, tail), req, done, v, tail)
        BY HttpChunkTaken
      <4>2. HttpChunked(o, req, done, v, tail)
        BY <3>5, <4>1
      <4> QED
        BY <4>2 DEF HttpChunked
    <3>7. PICK r \in HttpReqs : r = o.req
      BY <3>6
    <3>8. HttpInLoop(r, given, f, left)
      BY <2>1, <2>6, <3>2, <3>3, <3>4, <3>6, <3>7, <1>2, <1>3, HttpChunkedBody, Zenon
    <3>9. HttpBody(r, given, f, left)
      BY <2>1, <3>6, <3>7, <3>8, <1>1, HttpLoopBody, Zenon
    <3> QED
      BY <3>6, <3>7, <3>9
  <2> QED
    BY <2>2, <2>3, <2>4, <2>5, <2>6, <1>4
<1> QED
  BY <1>7, <1>8

\* The body stays in its place when what a call returned is taken, by the worker or by the line buffer.
LEMMA HttpGotBody ==
  ASSUME NEW result \in HttpResults, NEW job \in HttpJobs, NEW net \in HttpNets, job.at \in {"body", "list"},
         result.res # "again" => result.req.ptr = HttpNoPtr, net.todo = <<>>,
         job.at = "body" => result.req.rbuf.data = <<>>,
         result.res = "again" => HttpBody(result.req, Cat(job.got, result.req.rbuf.data), job.first, net.left),
         result.res = "data" =>
           HttpBody(result.req, Cat(Cat(job.got, result.req.rbuf.data), result.data), job.first, net.left)
  PROVE  LET o == HttpGot(result, job)
         IN HttpOver(o) \/ (o.job.at = job.at /\ HttpInBody(o.req, o.job, net))
<1>1. PICK req \in HttpReqs : req = result.req
  BY DEF HttpResults
<1>2. PICK data \in Seq(HttpTokens) : data = result.data
  BY DEF HttpResults
<1>3. PICK buf \in Seq(HttpTokens) : buf = req.rbuf.data
  BY HttpReqTypes
<1>4. PICK got \in Seq(HttpTokens) : got = job.got
  BY HttpJobTypes
<1> DEFINE o == HttpGot(result, job)
<1>5. \/ result.res = "again" /\ o = HttpOut(req, job)
      \/ result.res = "fatal" /\ o = HttpReturn(req, job, "fatal")
      \/ result.res = "data" /\ job.at = "body" /\ o = HttpGive(req, job, data)
      \/ result.res = "data" /\ job.at # "body" /\ o = HttpFill(req, job, data)
  BY <1>1, <1>2, HttpGotCases
<1> HIDE DEF o
<1> SUFFICES HttpOver(o) \/ (o.job.at = job.at /\ HttpInBody(o.req, o.job, net))
  BY DEF o
<1>6. job.at # "none"
  OBVIOUS
<1>7. CASE result.res = "again" /\ o = HttpOut(req, job)
  <2>1. o.req = req /\ o.job = job
    BY <1>6, <1>7, HttpOutIs
  <2> QED
    BY <2>1, <1>1, <1>7 DEF HttpInBody, HttpGiven
<1>8. CASE result.res = "fatal" /\ o = HttpReturn(req, job, "fatal")
  BY <1>1, <1>8, HttpReturnIs, HttpNone
<1>9. CASE result.res = "data" /\ job.at = "body" /\ o = HttpGive(req, job, data)
  <2>1. ~req.ptr.on
    BY <1>1, <1>9, HttpNone
  <2>2. \/ HttpOver(o)
        \/ /\ o.req = req /\ o.job.at = job.at /\ o.job.first = job.first /\ o.job.got = Cat(job.got, data)
    BY <2>1, <1>6, <1>9, HttpGiveIs
  <2>3. ASSUME o.req = req, o.job.at = job.at, o.job.first = job.first, o.job.got = Cat(job.got, data)
        PROVE  HttpInBody(o.req, o.job, net)
    <3>1. buf = <<>>
      BY <1>1, <1>3, <1>9
    <3>2. Cat(Cat(got, data), buf) = Cat(Cat(got, buf), data)
      <4>1. Cat(got, data) \in Seq(HttpTokens)
        BY CatIs
      <4> QED
        BY <3>1, <4>1, CatEmpty
    <3>3. HttpBody(req, Cat(Cat(got, data), buf), job.first, net.left)
      BY <3>2, <1>1, <1>2, <1>3, <1>4, <1>9
    <3> QED
      BY <2>1, <2>3, <3>3, <1>3, <1>4 DEF HttpInBody, HttpGiven
  <2> QED
    BY <2>2, <2>3
<1>10. CASE result.res = "data" /\ job.at # "body" /\ o = HttpFill(req, job, data)
  <2>1. ~req.ptr.on /\ job.at = "list"
    BY <1>1, <1>10, HttpNone
  <2>2. \/ /\ o.req \in HttpReqs /\ o.job = job
           /\ o.req.ptr = req.ptr /\ o.req.extra = req.extra /\ o.req.chunk = req.chunk
           /\ o.req.length = req.length /\ o.req.chunked = req.chunked /\ o.req.eof = req.eof
           /\ \/ data # <<>> /\ o.req.rbuf.data = Cat(req.rbuf.data, data)
              \/ data = <<>> /\ o.req.rbuf.data = req.rbuf.data
        \/ data = <<>> /\ req.rbuf.data = <<>> /\ o = HttpNoLine(req, job)
    BY <1>6, <1>10, HttpFillIs
  <2>3. ASSUME o.req \in HttpReqs, o.job = job,
               o.req.ptr = req.ptr, o.req.extra = req.extra, o.req.chunk = req.chunk,
               o.req.length = req.length, o.req.chunked = req.chunked, o.req.eof = req.eof,
               \/ data # <<>> /\ o.req.rbuf.data = Cat(req.rbuf.data, data)
               \/ data = <<>> /\ o.req.rbuf.data = req.rbuf.data
        PROVE  HttpInBody(o.req, o.job, net)
    <3>1. o.req.rbuf.data = Cat(buf, data)
      BY <2>3, <1>3, CatEmpty
    <3>2. Cat(got, Cat(buf, data)) = Cat(Cat(got, buf), data)
      BY CatCat
    <3>3. HttpBody(req, Cat(got, Cat(buf, data)), job.first, net.left)
      BY <3>2, <1>1, <1>2, <1>3, <1>4, <1>10
    <3>4. HttpBody(o.req, Cat(got, Cat(buf, data)), job.first, net.left)
      BY <2>3, <3>3, HttpBodySame
    <3> QED
      BY <2>1, <2>3, <3>1, <3>4, <1>4 DEF HttpInBody, HttpGiven
  <2>4. ASSUME o = HttpNoLine(req, job) PROVE HttpOver(o)
    BY <2>1, <2>4, HttpNoLineIs
  <2> QED
    BY <2>2, <2>3, <2>4
<1> QED
  BY <1>5, <1>7, <1>8, <1>9, <1>10

-----------------------------------------------------------------------------
(* The types of each step                                                  *)

\* A step that ends in o and leaves net to be sent has the types.
LEMMA HttpApplyTypes ==
  ASSUME NEW o \in HttpOuts, NEW net \in HttpNets, HttpApplyWith(o, net)
  PROVE  HttpTypeOK' /\ HttpIdle(httpReq, httpJob)'
<1>1. o.req \in HttpReqs /\ o.job \in HttpJobs /\ (o.job.at = "none" => o.job.got = <<>> /\ ~o.req.ptr.on)
  BY DEF HttpOuts
<1>2. httpReq' = o.req /\ httpJob' = o.job /\ httpNet' \in HttpNets
  BY HttpNewTypes DEF HttpApplyWith
<1> QED
  BY <1>1, <1>2 DEF HttpTypeOK, HttpIdle

\* The request when a line of n tokens was taken out of the line buffer
HttpLineOff(r, req, n) ==
  /\ r \in HttpReqs
  /\ r.rbuf.data = Drop(req.rbuf.data, n) /\ r.rbuf.eof = req.rbuf.eof
  /\ r.ptr = req.ptr /\ r.extra = req.extra /\ r.chunk = req.chunk
  /\ r.length = req.length /\ r.chunked = req.chunked /\ r.eof = req.eof

\* A line is taken out of the line buffer.
LEMMA HttpLineOffIs ==
  ASSUME NEW req \in HttpReqs, NEW n \in 1..Len(req.rbuf.data)
  PROVE  HttpLineOff([req EXCEPT !.rbuf.data = SubSeq(req.rbuf.data, n + 1, Len(req.rbuf.data))], req, n)
<1> DEFINE b == req.rbuf
<1>1. b \in HttpBufs /\ b.data \in Seq(HttpTokens) /\ b.on \in BOOLEAN /\ b.eof \in BOOLEAN /\ (b.on \/ b.data = <<>>)
  BY HttpReqTypes
<1>2. PICK d \in Seq(HttpTokens) : d = Drop(b.data, n)
  BY <1>1, DropIs
<1>3. b.on
  BY <1>1, SeqTypes
<1> DEFINE c == [b EXCEPT !.data = d]
<1>4. c \in HttpBufs /\ c.data = d /\ c.eof = b.eof
  BY <1>1, <1>3 DEF HttpBufs
<1>5. PICK buf \in HttpBufs : buf = c
  BY <1>4
<1> DEFINE r == [req EXCEPT !.rbuf = buf]
<1>6. r \in HttpReqs
  BY HttpReqSet, Zenon
<1>7. r.rbuf = buf /\ r.ptr = req.ptr /\ r.extra = req.extra /\ r.chunk = req.chunk
      /\ r.length = req.length /\ r.chunked = req.chunked /\ r.eof = req.eof
  BY DEF HttpReqs
<1>8. [req EXCEPT !.rbuf.data = SubSeq(req.rbuf.data, n + 1, Len(req.rbuf.data))] = r
  <2>1. d = SubSeq(req.rbuf.data, n + 1, Len(req.rbuf.data))
    BY <1>2 DEF Drop
  <2>2. PICK u : u = SubSeq(req.rbuf.data, n + 1, Len(req.rbuf.data))
    BY Zenon
  <2>3. [req EXCEPT !.rbuf.data = u] = r
    BY <1>5, <2>1, <2>2
  <2> QED
    BY <2>2, <2>3
<1> HIDE DEF r
<1>9. HttpLineOff(r, req, n)
  BY <1>2, <1>4, <1>5, <1>6, <1>7 DEF HttpLineOff
<1> QED
  BY <1>8, <1>9, Zenon

\* gftp_get_line() found a line of n tokens, or the end.
HttpLineAt(n, r) ==
  /\ n \in 1..Len(httpReq.rbuf.data)
  /\ HttpIsLine(httpReq.rbuf, n)
  /\ httpReq.rbuf.data[1] \in HttpTokens
  /\ HttpLineOff(r, httpReq, n)
  /\ HttpApply(HttpTakeLine(r, httpJob, httpReq.rbuf.data[1]))

\* gftp_get_line() finds a line in its buffer, or the end.
LEMMA HttpLineCases ==
  ASSUME HttpTypeOK, HttpLine
  PROVE  /\ httpJob.at \in {"headers", "size", "list"} /\ ~httpReq.ptr.on
         /\ \/ \E n \in 1..Len(httpReq.rbuf.data), r \in HttpReqs : HttpLineAt(n, r)
            \/ httpReq.rbuf.eof /\ httpReq.rbuf.data = <<>> /\ HttpApply(HttpNoLine(httpReq, httpJob))
<1>1. httpJob.at \in {"headers", "size", "list"} /\ ~httpReq.ptr.on
  BY DEF HttpLine, HttpLining, HttpNoCall
<1>2. httpReq \in HttpReqs /\ httpReq.rbuf.data \in Seq(HttpTokens)
  BY HttpReqTypes DEF HttpTypeOK
<1>3. CASE \E n \in 1..Len(httpReq.rbuf.data) :
             /\ HttpIsLine(httpReq.rbuf, n)
             /\ HttpApply(HttpTakeLine([httpReq EXCEPT !.rbuf.data =
                                          SubSeq(httpReq.rbuf.data, n + 1, Len(httpReq.rbuf.data))],
                                       httpJob, httpReq.rbuf.data[1]))
  <2>1. PICK n \in 1..Len(httpReq.rbuf.data) :
             /\ HttpIsLine(httpReq.rbuf, n)
             /\ HttpApply(HttpTakeLine([httpReq EXCEPT !.rbuf.data =
                                          SubSeq(httpReq.rbuf.data, n + 1, Len(httpReq.rbuf.data))],
                                       httpJob, httpReq.rbuf.data[1]))
    BY <1>3, Zenon
  <2>2. PICK r : r = [httpReq EXCEPT !.rbuf.data = SubSeq(httpReq.rbuf.data, n + 1, Len(httpReq.rbuf.data))]
    BY Zenon
  <2>3. HttpLineOff(r, httpReq, n)
    BY <2>2, <1>2, HttpLineOffIs
  <2>4. httpReq.rbuf.data[1] \in HttpTokens
    <3>1. 1 \in 1..Len(httpReq.rbuf.data)
      BY <1>2, SeqTypes
    <3> QED
      BY <3>1, <1>2, SeqTypes
  <2>5. HttpLineAt(n, r) /\ r \in HttpReqs
    BY <2>1, <2>2, <2>3, <2>4 DEF HttpLineAt, HttpLineOff
  <2> QED
    BY <1>1, <2>5
<1>4. CASE httpReq.rbuf.eof /\ httpReq.rbuf.data = <<>> /\ HttpApply(HttpNoLine(httpReq, httpJob))
  BY <1>1, <1>4
<1> QED
  BY <1>3, <1>4, Zenon DEF HttpLine

\* gftp_get_line() keeps the types.
LEMMA HttpLineTypes ==
  ASSUME HttpTypeOK, HttpLine
  PROVE  HttpTypeOK' /\ HttpIdle(httpReq, httpJob)'
<1>1. httpJob.at \in {"headers", "size", "list"} /\ ~httpReq.ptr.on
  BY HttpLineCases
<1>2. httpReq \in HttpReqs /\ httpJob \in HttpJobs /\ httpNet \in HttpNets
  BY DEF HttpTypeOK
<1>3. CASE \E n \in 1..Len(httpReq.rbuf.data), r \in HttpReqs : HttpLineAt(n, r)
  <2>1. PICK n \in 1..Len(httpReq.rbuf.data), r \in HttpReqs : HttpLineAt(n, r)
    BY <1>3
  <2>2. ~r.ptr.on /\ httpReq.rbuf.data[1] \in HttpTokens
    BY <2>1, <1>1 DEF HttpLineAt, HttpLineOff
  <2>3. HttpTakeLine(r, httpJob, httpReq.rbuf.data[1]) \in HttpOuts
    BY <2>2, <1>1, <1>2, HttpTakeLineTypes
  <2>4. HttpApplyWith(HttpTakeLine(r, httpJob, httpReq.rbuf.data[1]), httpNet)
    BY <2>1 DEF HttpLineAt, HttpApply
  <2> QED
    BY <2>3, <2>4, <1>2, HttpApplyTypes
<1>4. CASE HttpApply(HttpNoLine(httpReq, httpJob))
  <2>1. HttpNoLine(httpReq, httpJob) \in HttpOuts
    BY <1>1, <1>2, HttpNoLineTypes
  <2>2. HttpApplyWith(HttpNoLine(httpReq, httpJob), httpNet)
    BY <1>4 DEF HttpApply
  <2> QED
    BY <2>1, <2>2, <1>2, HttpApplyTypes
<1> QED
  BY <1>3, <1>4, HttpLineCases

\* Two sequences of which nothing is there
LEMMA CatNone ==
  ASSUME NEW s \in Seq(HttpTokens), NEW t \in Seq(HttpTokens), Cat(s, t) = <<>>
  PROVE  s = <<>> /\ t = <<>>
<1>1. PICK l \in Nat : l = Len(s)
  BY SeqTypes
<1>2. PICK m \in Nat : m = Len(t)
  BY SeqTypes
<1>3. Len(Cat(s, t)) = l + m
  BY <1>1, <1>2, CatIs
<1>4. Len(Cat(s, t)) = 0
  BY HttpEmpty, SeqTypes
<1>5. l = 0 /\ m = 0
  BY <1>3, <1>4
<1> QED
  BY <1>1, <1>2, <1>5, SeqTypes, Zenon

\* The request without the line buffer
HttpNoBuffer(r, req) ==
  /\ r \in HttpReqs /\ r.rbuf = HttpNoBuf
  /\ r.ptr = req.ptr /\ r.extra = req.extra /\ r.chunk = req.chunk
  /\ r.length = req.length /\ r.chunked = req.chunked /\ r.eof = req.eof

\* The line buffer is given up.
LEMMA HttpNoBufferIs ==
  ASSUME NEW req \in HttpReqs
  PROVE  HttpNoBuffer([req EXCEPT !.rbuf = HttpNoBuf], req)
<1>1. PICK b \in HttpBufs : b = HttpNoBuf
  BY HttpNone
<1> DEFINE r == [req EXCEPT !.rbuf = b]
<1>2. r \in HttpReqs
  BY HttpReqSet, Zenon
<1>3. r.rbuf = b /\ r.ptr = req.ptr /\ r.extra = req.extra /\ r.chunk = req.chunk
      /\ r.length = req.length /\ r.chunked = req.chunked /\ r.eof = req.eof
  BY DEF HttpReqs
<1> HIDE DEF r
<1>4. HttpNoBuffer(r, req)
  BY <1>1, <1>2, <1>3 DEF HttpNoBuffer
<1> QED
  BY <1>1, <1>4 DEF r

\* The line buffer is the first of the data.
LEMMA HttpFromBufferCases ==
  ASSUME HttpTypeOK, HttpFromBuffer
  PROVE  /\ httpJob.at = "body" /\ ~httpReq.ptr.on
         /\ \E r \in HttpReqs :
              HttpNoBuffer(r, httpReq) /\ HttpApplyWith(HttpGive(r, httpJob, httpReq.rbuf.data), httpNet)
<1>1. httpReq \in HttpReqs
  BY DEF HttpTypeOK
<1>2. PICK r : r = [httpReq EXCEPT !.rbuf = HttpNoBuf]
  BY Zenon
<1>3. HttpNoBuffer(r, httpReq)
  BY <1>1, <1>2, HttpNoBufferIs
<1>4. HttpApplyWith(HttpGive(r, httpJob, httpReq.rbuf.data), httpNet)
  BY <1>2 DEF HttpFromBuffer, HttpApply
<1>5. httpJob.at = "body" /\ ~httpReq.ptr.on
  BY DEF HttpFromBuffer, HttpNoCall
<1>6. r \in HttpReqs
  BY <1>3 DEF HttpNoBuffer
<1> QED
  BY <1>3, <1>4, <1>5, <1>6

\* Delivering the rest of the line buffer keeps the types.
LEMMA HttpFromBufferTypes ==
  ASSUME HttpTypeOK, HttpFromBuffer
  PROVE  HttpTypeOK' /\ HttpIdle(httpReq, httpJob)'
<1>1. httpReq \in HttpReqs /\ httpJob \in HttpJobs /\ httpNet \in HttpNets
  BY DEF HttpTypeOK
<1>2. httpJob.at = "body" /\ ~httpReq.ptr.on
  BY HttpFromBufferCases
<1>3. PICK r \in HttpReqs :
        HttpNoBuffer(r, httpReq) /\ HttpApplyWith(HttpGive(r, httpJob, httpReq.rbuf.data), httpNet)
  BY HttpFromBufferCases
<1>4. PICK data \in Seq(HttpTokens) : data = httpReq.rbuf.data
  BY <1>1, HttpReqTypes
<1>5. HttpGive(r, httpJob, data) \in HttpOuts
  BY <1>1, <1>2, <1>3, HttpGiveIs DEF HttpNoBuffer, HttpOver
<1> QED
  BY <1>1, <1>3, <1>4, <1>5, HttpApplyTypes

\* What a read that was made did: n tokens came, none without a read; or there is no more.
HttpReadOf(n, result, net) ==
  /\ n \in 0..Len(httpNet.left) /\ (HttpNoRead(httpReq) <=> n = 0)
  /\ n > 0 => n <= HttpLimit(httpReq) /\ httpNet.todo = <<>>
  /\ n = 0 => net = httpNet
  /\ result = HttpChunkedRead(httpReq, Take(httpNet.left, n))
  /\ net \in HttpNets /\ net.left = Drop(httpNet.left, n) /\ net.todo = httpNet.todo
  /\ HttpApplyWith(HttpGot(result, httpJob), net)
HttpReadEnd(r) ==
  /\ r \in HttpReqs /\ r.extra = <<>> /\ r.ptr = httpReq.ptr /\ r.rbuf = httpReq.rbuf /\ r.chunk = httpReq.chunk
  /\ r.length = httpReq.length /\ r.chunked = httpReq.chunked /\ r.eof = httpReq.eof
  /\ httpNet.left = <<>> /\ httpNet.todo = <<>> /\ ~HttpNoRead(httpReq)
  /\ HttpApplyWith(HttpGot(HttpDone(r, <<>>), httpJob), httpNet)

\* The answer but for what was read of it is as it was.
LEMMA HttpNetSet ==
  ASSUME NEW net \in HttpNets, NEW left \in Seq(HttpTokens)
  PROVE  LET n == [net EXCEPT !.left = left] IN n \in HttpNets /\ n.left = left /\ n.todo = net.todo /\ n.end = net.end
BY Zenon DEF HttpNets

\* The types of an answer
LEMMA HttpNetTypes ==
  ASSUME NEW net \in HttpNets
  PROVE  net.left \in Seq(HttpTokens) /\ net.todo \in Seq(HttpTokens) /\ net.end \in BOOLEAN
BY DEF HttpNets

\* A read gives some of what has arrived, nothing, or the end of file.
LEMMA HttpReadCases ==
  ASSUME HttpTypeOK, HttpRead
  PROVE  /\ httpJob.at \in {"headers", "size", "list", "body"} /\ ~httpReq.ptr.on
         /\ httpJob.at = "body" => ~httpReq.rbuf.on
         /\ httpJob.at # "body" => ~HttpHasLine(httpReq.rbuf) /\ ~httpReq.rbuf.eof
         /\ \/ \E n \in Nat : \E result, net : HttpReadOf(n, result, net)
            \/ \E r \in HttpReqs : HttpReadEnd(r)
<1>1. httpReq \in HttpReqs /\ httpJob \in HttpJobs /\ httpNet \in HttpNets
  BY DEF HttpTypeOK
<1>2. httpNet.left \in Seq(HttpTokens) /\ httpNet.todo \in Seq(HttpTokens)
  BY <1>1, HttpNetTypes
<1>3. /\ httpJob.at \in {"headers", "size", "list", "body"} /\ ~httpReq.ptr.on
      /\ httpJob.at = "body" => ~httpReq.rbuf.on
      /\ httpJob.at # "body" => ~HttpHasLine(httpReq.rbuf) /\ ~httpReq.rbuf.eof
  BY DEF HttpRead, HttpWantsMore, HttpLining
<1>4. CASE HttpNoRead(httpReq)
  <2>1. HttpApplyWith(HttpGot(HttpChunkedRead(httpReq, <<>>), httpJob), httpNet)
    BY <1>4 DEF HttpRead, HttpApply
  <2>2. Take(httpNet.left, 0) = <<>> /\ Drop(httpNet.left, 0) = httpNet.left /\ Len(httpNet.left) \in Nat
    BY <1>2, DropEnds, SeqTypes
  <2>3. PICK result : result = HttpChunkedRead(httpReq, <<>>)
    OBVIOUS
  <2>4. HttpReadOf(0, result, httpNet)
    BY <1>1, <1>4, <2>1, <2>2, <2>3 DEF HttpReadOf
  <2> QED
    BY <1>3, <2>4
<1>5. CASE ~HttpNoRead(httpReq)
  <2>1. \/ \E n \in 1..Len(httpNet.left) :
             /\ n <= HttpLimit(httpReq) /\ httpNet.todo = <<>>
             /\ HttpApplyWith(HttpGot(HttpChunkedRead(httpReq, SubSeq(httpNet.left, 1, n)), httpJob),
                              [httpNet EXCEPT !.left = SubSeq(httpNet.left, n + 1, Len(httpNet.left))])
        \/ /\ httpNet.left \o httpNet.todo = <<>> /\ httpNet.end
           /\ HttpApplyWith(HttpGot(HttpDone([httpReq EXCEPT !.extra = <<>>], <<>>), httpJob), httpNet)
    BY <1>5, Zenon DEF HttpRead, HttpApply
  <2>2. CASE \E n \in 1..Len(httpNet.left) :
             /\ n <= HttpLimit(httpReq) /\ httpNet.todo = <<>>
             /\ HttpApplyWith(HttpGot(HttpChunkedRead(httpReq, SubSeq(httpNet.left, 1, n)), httpJob),
                              [httpNet EXCEPT !.left = SubSeq(httpNet.left, n + 1, Len(httpNet.left))])
    <3>1. PICK n \in 1..Len(httpNet.left) :
             /\ n <= HttpLimit(httpReq) /\ httpNet.todo = <<>>
             /\ HttpApplyWith(HttpGot(HttpChunkedRead(httpReq, SubSeq(httpNet.left, 1, n)), httpJob),
                              [httpNet EXCEPT !.left = SubSeq(httpNet.left, n + 1, Len(httpNet.left))])
      BY <2>2, Zenon
    <3>2. PICK result : result = HttpChunkedRead(httpReq, SubSeq(httpNet.left, 1, n))
      OBVIOUS
    <3>3. PICK left : left = SubSeq(httpNet.left, n + 1, Len(httpNet.left))
      BY Zenon
    <3>4. PICK net : net = [httpNet EXCEPT !.left = left]
      BY Zenon
    <3>5. result = HttpChunkedRead(httpReq, Take(httpNet.left, n)) /\ left = Drop(httpNet.left, n)
      BY <3>2, <3>3 DEF Take, Drop
    <3>6. Len(httpNet.left) \in Nat
      BY <1>2, SeqTypes
    <3>7. n \in Nat /\ n \in 0..Len(httpNet.left) /\ n > 0
      BY <3>6
    <3>8. left \in Seq(HttpTokens)
      BY <3>5, <3>6, <3>7, <1>2, DropIs
    <3>9. net \in HttpNets /\ net.left = left /\ net.todo = httpNet.todo
      BY <3>4, <3>8, <1>1, HttpNetSet
    <3>10. HttpApplyWith(HttpGot(result, httpJob), net)
      BY <3>1, <3>2, <3>3, <3>4
    <3>11. HttpReadOf(n, result, net)
      <4>1. n \in 0..Len(httpNet.left) /\ (HttpNoRead(httpReq) <=> n = 0)
        BY <3>7, <1>5
      <4>2. n > 0 => n <= HttpLimit(httpReq) /\ httpNet.todo = <<>>
        BY <3>1
      <4>3. net \in HttpNets /\ net.left = Drop(httpNet.left, n) /\ net.todo = httpNet.todo
        BY <3>5, <3>9
      <4> QED
        BY <4>1, <4>2, <4>3, <3>5, <3>7, <3>10 DEF HttpReadOf
    <3> QED
      BY <1>3, <3>7, <3>11
  <2>3. CASE /\ httpNet.left \o httpNet.todo = <<>> /\ httpNet.end
             /\ HttpApplyWith(HttpGot(HttpDone([httpReq EXCEPT !.extra = <<>>], <<>>), httpJob), httpNet)
    <3>1. PICK r : r = [httpReq EXCEPT !.extra = <<>>]
      BY Zenon
    <3>2. /\ r \in HttpReqs /\ r.extra = <<>> /\ r.ptr = httpReq.ptr /\ r.rbuf = httpReq.rbuf /\ r.chunk = httpReq.chunk
          /\ r.length = httpReq.length /\ r.chunked = httpReq.chunked /\ r.eof = httpReq.eof
      <4>1. PICK e \in Seq(HttpTokens) : e = <<>>
        BY HttpEmpty, Zenon
      <4>2. r = [httpReq EXCEPT !.extra = e]
        BY <3>1, <4>1
      <4>3. r \in HttpReqs
        BY <4>2, <1>1, HttpReqSet, Zenon
      <4> QED
        BY <4>1, <4>2, <4>3, <1>1 DEF HttpReqs
    <3>3. httpNet.left = <<>> /\ httpNet.todo = <<>>
      <4>0. Cat(httpNet.left, httpNet.todo) = <<>>
        BY <2>3 DEF Cat
      <4> QED
        BY <4>0, <1>2, CatNone
    <3>4. HttpReadEnd(r)
      BY <2>3, <3>1, <3>2, <3>3, <1>5 DEF HttpReadEnd
    <3> QED
      BY <1>3, <3>2, <3>4
  <2> QED
    BY <2>1, <2>2, <2>3, Zenon
<1> QED
  BY <1>4, <1>5

\* A read keeps the types.
LEMMA HttpReadTypes ==
  ASSUME HttpTypeOK, HttpRead
  PROVE  HttpTypeOK' /\ HttpIdle(httpReq, httpJob)'
<1>1. httpReq \in HttpReqs /\ httpJob \in HttpJobs /\ httpNet \in HttpNets
  BY DEF HttpTypeOK
<1>2. httpJob.at # "none" /\ ~httpReq.ptr.on
  BY HttpReadCases
<1>3. CASE \E n \in Nat : \E result, net : HttpReadOf(n, result, net)
  <2>1. PICK n \in Nat : \E result, net : HttpReadOf(n, result, net)
    BY <1>3
  <2>2. PICK result, net : HttpReadOf(n, result, net)
    BY <2>1
  <2>3. PICK got \in Seq(HttpTokens) : got = Take(httpNet.left, n)
    <3>1. httpNet.left \in Seq(HttpTokens) /\ Len(httpNet.left) \in Nat
      BY <1>1, HttpNetTypes, SeqTypes
    <3>2. n <= Len(httpNet.left)
      BY <2>2, <3>1 DEF HttpReadOf
    <3> QED
      BY <3>1, <3>2, TakeIs
  <2>4. result = HttpChunkedRead(httpReq, got) /\ net \in HttpNets /\ HttpApplyWith(HttpGot(result, httpJob), net)
    BY <2>2, <2>3 DEF HttpReadOf
  <2>5. result \in HttpResults /\ (result.res # "again" => ~result.req.ptr.on)
    BY <2>4, <1>1, <1>2, HttpChunkedReadIs, HttpNone
  <2>6. HttpGot(result, httpJob) \in HttpOuts
    BY <2>5, <1>1, <1>2, HttpGotTypes
  <2> QED
    BY <2>4, <2>6, HttpApplyTypes
<1>4. CASE \E r \in HttpReqs : HttpReadEnd(r)
  <2>1. PICK r \in HttpReqs : HttpReadEnd(r)
    BY <1>4
  <2>2. PICK e \in Seq(HttpTokens) : e = <<>>
    BY HttpEmpty, Zenon
  <2>3. PICK result : result = HttpDone(r, e)
    OBVIOUS
  <2>4. result \in HttpResults /\ ~result.req.ptr.on
    BY <2>3, HttpDoneIs, HttpNone
  <2>5. HttpApplyWith(HttpGot(result, httpJob), httpNet)
    BY <2>1, <2>2, <2>3 DEF HttpReadEnd
  <2>6. HttpGot(result, httpJob) \in HttpOuts
    BY <2>4, <1>1, <1>2, HttpGotTypes
  <2> QED
    BY <2>5, <2>6, <1>1, HttpApplyTypes
<1> QED
  BY <1>3, <1>4, HttpReadCases

\* A pass of the loop over the chunk headers keeps the types.
LEMMA HttpLoopTypes ==
  ASSUME HttpTypeOK, HttpIdle(httpReq, httpJob), HttpLoop
  PROVE  HttpTypeOK' /\ HttpIdle(httpReq, httpJob)'
<1>1. httpReq \in HttpReqs /\ httpJob \in HttpJobs /\ httpNet \in HttpNets
  BY DEF HttpTypeOK
<1>2. httpJob.at # "none"
  BY DEF HttpIdle, HttpLoop
<1>3. PICK result : result = HttpUnchunk(httpReq)
  OBVIOUS
<1>4. result \in HttpResults /\ (result.res # "again" => ~result.req.ptr.on)
  BY <1>1, <1>3, HttpUnchunkTypes
<1>5. HttpGot(result, httpJob) \in HttpOuts
  BY <1>1, <1>2, <1>4, HttpGotTypes
<1>6. HttpApplyWith(HttpGot(result, httpJob), httpNet)
  BY <1>3 DEF HttpLoop, HttpApply
<1> QED
  BY <1>1, <1>5, <1>6, HttpApplyTypes

\* The call is over where the connection fails.
LEMMA HttpBrokenOver ==
  ASSUME HttpTypeOK, HttpBroken
  PROVE  \E o \in HttpOuts : HttpOver(o) /\ HttpApplyWith(o, httpNet)
<1>1. httpReq \in HttpReqs /\ httpJob \in HttpJobs
  BY DEF HttpTypeOK
<1>2. PICK r : r = [httpReq EXCEPT !.extra = <<>>, !.rbuf = HttpNoBuf]
  OBVIOUS
<1>3. r \in HttpReqs
  <2>1. PICK e \in Seq(HttpTokens) : e = <<>>
    BY HttpEmpty, Zenon
  <2>2. PICK b \in HttpBufs : b = HttpNoBuf
    BY HttpNone
  <2>3. PICK q \in HttpReqs : q = [httpReq EXCEPT !.extra = e]
    BY <1>1, HttpReqSet, Zenon
  <2>4. [q EXCEPT !.rbuf = b] \in HttpReqs
    BY HttpReqSet, Zenon
  <2>5. r = [q EXCEPT !.rbuf = b]
    BY <1>2, <2>1, <2>2, <2>3
  <2> QED
    BY <2>4, <2>5
<1>4. PICK g \in HttpReqs : g = HttpGivesUp(r).req /\ ~g.ptr.on
  BY <1>3, HttpGivesUpIs, HttpNone
<1>5. HttpOver(HttpReturn(g, httpJob, "retry"))
  BY <1>1, <1>4, HttpReturnIs
<1>6. HttpApplyWith(HttpReturn(g, httpJob, "retry"), httpNet)
  BY <1>2, <1>4 DEF HttpBroken, HttpApply
<1> QED
  BY <1>5, <1>6 DEF HttpOver

\* The call is over where the caller stops a transfer.
LEMMA HttpAbortOver ==
  ASSUME HttpTypeOK, HttpAbort
  PROVE  \E o \in HttpOuts : HttpOver(o) /\ HttpApplyWith(o, httpNet)
<1>1. httpReq \in HttpReqs /\ httpJob \in HttpJobs /\ ~httpReq.ptr.on
  BY DEF HttpTypeOK, HttpAbort, HttpNoCall
<1>2. HttpOver(HttpEnd(httpReq, httpJob))
  BY <1>1, HttpEndIs
<1>3. HttpApplyWith(HttpEnd(httpReq, httpJob), httpNet)
  BY DEF HttpAbort, HttpApply
<1> QED
  BY <1>2, <1>3 DEF HttpOver

\* Between two calls
LEMMA HttpDisconnectOver ==
  ASSUME HttpTypeOK, HttpIdle(httpReq, httpJob), HttpDisconnect
  PROVE  \E o \in HttpOuts : HttpOver(o) /\ HttpApplyWith(o, httpNet)
<1>1. httpReq \in HttpReqs /\ httpJob \in HttpJobs /\ httpJob.at = "none" /\ httpJob.got = <<>> /\ ~httpReq.ptr.on
  BY DEF HttpTypeOK, HttpDisconnect, HttpIdle
<1>2. PICK r \in HttpReqs : r = HttpDropped(httpReq) /\ ~r.ptr.on
  BY <1>1, HttpDroppedIs
<1>3. PICK o : o = HttpOut(r, httpJob)
  OBVIOUS
<1>4. HttpOver(o)
  BY <1>1, <1>2, <1>3 DEF HttpOut, HttpOuts, HttpOver
<1>5. HttpApplyWith(o, httpNet)
  BY <1>2, <1>3 DEF HttpDisconnect, HttpApply
<1> QED
  BY <1>4, <1>5 DEF HttpOver

\* rfc2068_destroy() is between two calls.
LEMMA HttpDestroyOver ==
  ASSUME HttpTypeOK, HttpDestroy
  PROVE  \E o \in HttpOuts : HttpOver(o) /\ HttpApplyWith(o, httpNet)
<1>1. PICK r : r = HttpNewReq
  OBVIOUS
<1>2. PICK j : j = HttpNoJob
  OBVIOUS
<1>3. PICK o : o = HttpOut(r, j)
  OBVIOUS
<1>4. r \in HttpReqs /\ j \in HttpJobs
  BY <1>1, <1>2, HttpNewTypes
<1>5. ~r.ptr.on /\ j.at = "none" /\ j.got = <<>>
  BY <1>1, <1>2, HttpNone DEF HttpNewReq, HttpNoJob
<1>6. HttpOver(o)
  BY <1>3, <1>4, <1>5 DEF HttpOut, HttpOuts, HttpOver
<1>7. HttpApplyWith(o, httpNet)
  BY <1>1, <1>2, <1>3 DEF HttpDestroy, HttpApply
<1> QED
  BY <1>6, <1>7 DEF HttpOver

\* The sequences a chunk is made of
LEMMA HttpPieces ==
  /\ \A n \in 0..HttpSize : \E h \in Seq(HttpTokens) :
       h = <<<<"size", n>>, HttpCrlf>> /\ Len(h) = 2 /\ h[1] = <<"size", n>> /\ h[2] = HttpCrlf
  /\ \E t \in Seq(HttpTokens) : t = <<HttpCrlf>> /\ Len(t) = 1 /\ t[1] = HttpCrlf
<1>1. \A n \in 0..HttpSize : <<"size", n>> \in HttpTokens
  BY DEF HttpTokens
<1>2. PICK c \in HttpTokens : c = HttpCrlf
  BY HttpCrlfType
<1>3. ASSUME NEW n \in 0..HttpSize
      PROVE  \E h \in Seq(HttpTokens) :
               h = <<<<"size", n>>, HttpCrlf>> /\ Len(h) = 2 /\ h[1] = <<"size", n>> /\ h[2] = HttpCrlf
  <2>1. PICK s \in HttpTokens : s = <<"size", n>>
    BY <1>1, Zenon
  <2>2. <<s, c>> \in Seq(HttpTokens) /\ Len(<<s, c>>) = 2 /\ <<s, c>>[1] = s /\ <<s, c>>[2] = c
    OBVIOUS
  <2> QED
    BY <1>2, <2>1, <2>2, Zenon
<1>4. <<c>> \in Seq(HttpTokens) /\ Len(<<c>>) = 1 /\ <<c>>[1] = c
  OBVIOUS
<1> QED
  BY <1>2, <1>3, <1>4, Zenon

\* The next chunk, or the last, of what the server has still to send
HttpNextChunk(net, n, h, t, new) ==
  /\ n \in Nat /\ n + 1 <= Len(net.todo) /\ (n = 0 <=> Len(net.todo) = 1)
  /\ h \in Seq(HttpTokens) /\ Len(h) = 2 /\ h[1] = <<"size", n>> /\ h[2] = HttpCrlf
  /\ t \in Seq(HttpTokens) /\ Len(t) = 1 /\ t[1] = HttpCrlf
  /\ new \in HttpNets
  /\ new.left = Cat(Cat(Cat(net.left, h), Take(net.todo, n)), t)
  /\ new.todo = IF n = 0 THEN <<>> ELSE Drop(net.todo, n)

\* The server puts the next chunk at the end of its answer.
LEMMA HttpServeCases ==
  ASSUME HttpTypeOK, HttpServe
  PROVE  /\ httpReq' = httpReq /\ httpJob' = httpJob
         /\ \E n \in Nat, h \in Seq(HttpTokens), t \in Seq(HttpTokens) : HttpNextChunk(httpNet, n, h, t, httpNet')
<1>1. httpNet \in HttpNets
  BY DEF HttpTypeOK
<1>2. PICK left \in Seq(HttpTokens) : left = httpNet.left
  BY <1>1, HttpNetTypes
<1>3. PICK todo \in Seq(HttpTokens) : todo = httpNet.todo
  BY <1>1, HttpNetTypes
<1>4. PICK l \in Nat : l = Len(todo) /\ l <= HttpSize + 1
  BY <1>1, <1>3 DEF HttpNets
<1>5. PICK n \in 0..(Len(todo) - 1) :
       /\ n = 0 <=> Len(todo) = 1
       /\ httpNet' = [httpNet EXCEPT !.left = @ \o <<<<"size", n>>, HttpCrlf>> \o SubSeq(todo, 1, n) \o <<HttpCrlf>>,
                                     !.todo = IF n = 0 THEN <<>> ELSE SubSeq(todo, n + 1, Len(todo))]
       /\ UNCHANGED <<httpReq, httpJob>>
  BY <1>3, Zenon DEF HttpServe
<1>6. n \in Nat /\ n + 1 <= l /\ n \in 0..HttpSize
  BY <1>4, <1>5, HttpSizeAssumption
<1>7. PICK h \in Seq(HttpTokens) :
        h = <<<<"size", n>>, HttpCrlf>> /\ Len(h) = 2 /\ h[1] = <<"size", n>> /\ h[2] = HttpCrlf
  BY <1>6, HttpPieces, Zenon
<1>8. PICK t \in Seq(HttpTokens) : t = <<HttpCrlf>> /\ Len(t) = 1 /\ t[1] = HttpCrlf
  BY HttpPieces, Zenon
<1>9. PICK c \in Seq(HttpTokens) : c = Take(todo, n) /\ Len(c) = n
  BY <1>4, <1>6, TakeIs
<1>10. PICK d \in Seq(HttpTokens) : d = Drop(todo, n) /\ Len(d) = l - n
  <2>1. n <= Len(todo)
    BY <1>4, <1>6
  <2>2. Drop(todo, n) \in Seq(HttpTokens) /\ Len(Drop(todo, n)) = Len(todo) - n
    BY <1>6, <2>1, DropIs
  <2> QED
    BY <1>4, <2>2, Zenon
<1>11. PICK s \in Seq(HttpTokens) : s = Cat(Cat(Cat(left, h), c), t)
  <2>1. Cat(left, h) \in Seq(HttpTokens)
    BY CatIs
  <2>2. Cat(Cat(left, h), c) \in Seq(HttpTokens)
    BY <2>1, CatIs
  <2> QED
    BY <2>2, CatIs
<1>12. PICK e \in Seq(HttpTokens) : e = IF n = 0 THEN <<>> ELSE d
  BY HttpEmpty, Zenon
<1>13. Len(e) <= HttpSize + 1
  BY <1>4, <1>6, <1>10, <1>12, HttpSizeAssumption
<1>14. httpNet' = [httpNet EXCEPT !.left = s, !.todo = e]
  <2>1. s = httpNet.left \o <<<<"size", n>>, HttpCrlf>> \o SubSeq(todo, 1, n) \o <<HttpCrlf>>
    BY <1>2, <1>7, <1>8, <1>9, <1>11 DEF Cat, Take
  <2>2. e = IF n = 0 THEN <<>> ELSE SubSeq(todo, n + 1, Len(todo))
    BY <1>10, <1>12 DEF Drop
  <2>3. PICK u : u = httpNet.left \o <<<<"size", n>>, HttpCrlf>> \o SubSeq(todo, 1, n) \o <<HttpCrlf>>
    BY Zenon
  <2>4. PICK v : v = IF n = 0 THEN <<>> ELSE SubSeq(todo, n + 1, Len(todo))
    BY Zenon
  <2>5. httpNet' = [httpNet EXCEPT !.left = u, !.todo = v]
    BY <1>5, <2>3, <2>4, Zenon
  <2> QED
    BY <2>1, <2>2, <2>3, <2>4, <2>5
<1>15. httpNet' \in HttpNets /\ (httpNet').left = s /\ (httpNet').todo = e
  BY <1>1, <1>13, <1>14, Zenon DEF HttpNets
<1>16. HttpNextChunk(httpNet, n, h, t, httpNet')
  <2>1. n \in Nat /\ n + 1 <= Len(httpNet.todo) /\ (n = 0 <=> Len(httpNet.todo) = 1)
    BY <1>3, <1>4, <1>5, <1>6
  <2>2. (httpNet').left = Cat(Cat(Cat(httpNet.left, h), Take(httpNet.todo, n)), t)
    BY <1>2, <1>3, <1>9, <1>11, <1>15
  <2>3. (httpNet').todo = IF n = 0 THEN <<>> ELSE Drop(httpNet.todo, n)
    BY <1>3, <1>10, <1>12, <1>15
  <2> QED
    BY <2>1, <2>2, <2>3, <1>7, <1>8, <1>15 DEF HttpNextChunk
<1> QED
  BY <1>5, <1>6, <1>16

\* The headers h of a response, chunked if ch is so
HttpHeadOf(h, status, ch) ==
  /\ h \in Seq(HttpTokens) /\ Len(h) \in {2, 3} /\ h[1] = <<"status", status>> /\ h[Len(h)] = HttpCrlf
  /\ Len(h) = 2 => ~ch
  /\ Len(h) = 3 => h[2][1] = IF ch THEN "chunked" ELSE "length"
HttpEndOf(t) == t \in Seq(HttpTokens) /\ Len(t) = 1 /\ t[1] = HttpCrlf

\* With the headers h, the body is there, or it is still to be sent.
HttpAnswerAt(a, body, h, ch) ==
  /\ ~ch => a.left = Cat(h, body) /\ a.todo = <<>>
  /\ ch => a.left = h /\ \E t \in Seq(HttpTokens) : HttpEndOf(t) /\ a.todo = Cat(body, t)

\* An answer: the headers, and the body with them or still to be sent
HttpAnswerOf(a, status, body) ==
  /\ a \in HttpNets
  /\ \E h \in Seq(HttpTokens), ch \in BOOLEAN : HttpHeadOf(h, status, ch) /\ HttpAnswerAt(a, body, h, ch)

\* The headers with the length n
HttpLengthed(h, status, n) == h = <<<<"status", status>>, <<"length", n>>, HttpCrlf>>

HttpHasLength(status, n) ==
  \E h \in Seq(HttpTokens) : HttpLengthed(h, status, n) /\ HttpHeadOf(h, status, FALSE)

\* The headers there are
LEMMA HttpHeadsIs ==
  ASSUME NEW status \in {200, 206, 404}, NEW n \in 0..HttpSize
  PROVE  /\ HttpHasLength(status, n)
         /\ \E h \in Seq(HttpTokens) :
              h = <<<<"status", status>>, <<"chunked", 0>>, HttpCrlf>> /\ HttpHeadOf(h, status, TRUE)
         /\ \E h \in Seq(HttpTokens) : h = <<<<"status", status>>, HttpCrlf>> /\ HttpHeadOf(h, status, FALSE)
<1>1. PICK s \in HttpTokens : s = <<"status", status>>
  BY ZenonT(60) DEF HttpTokens
<1>2. PICK l \in HttpTokens : l = <<"length", n>> /\ l[1] = "length"
  <2>1. <<"length", n>> \in HttpTokens
    BY DEF HttpTokens
  <2>2. <<"length", n>>[1] = "length"
    OBVIOUS
  <2> QED
    BY <2>1, <2>2
<1>3. PICK k \in HttpTokens : k = <<"chunked", 0>> /\ k[1] = "chunked"
  <2>1. <<"chunked", 0>> \in HttpTokens
    BY DEF HttpTokens
  <2>2. <<"chunked", 0>>[1] = "chunked"
    OBVIOUS
  <2> QED
    BY <2>1, <2>2
<1>4. PICK c \in HttpTokens : c = HttpCrlf
  BY HttpCrlfType
<1>5. ASSUME NEW m \in HttpTokens
      PROVE  \E h \in Seq(HttpTokens) : h = <<s, m, c>> /\ Len(h) = 3 /\ h[1] = s /\ h[2] = m /\ h[3] = c
  <2>1. <<s, m, c>> \in Seq(HttpTokens) /\ Len(<<s, m, c>>) = 3
        /\ <<s, m, c>>[1] = s /\ <<s, m, c>>[2] = m /\ <<s, m, c>>[3] = c
    OBVIOUS
  <2> QED
    BY <2>1, Zenon
<1>6. HttpHasLength(status, n)
  <2>1. PICK h \in Seq(HttpTokens) : h = <<s, l, c>> /\ Len(h) = 3 /\ h[1] = s /\ h[2] = l /\ h[3] = c
    BY <1>5
  <2>2. HttpHeadOf(h, status, FALSE)
    BY <2>1, <1>1, <1>2, <1>4 DEF HttpHeadOf
  <2>3. HttpLengthed(h, status, n)
    BY <2>1, <1>1, <1>2, <1>4 DEF HttpLengthed
  <2> QED
    BY <2>2, <2>3, Zenon DEF HttpHasLength
<1>7. \E h \in Seq(HttpTokens) :
        h = <<<<"status", status>>, <<"chunked", 0>>, HttpCrlf>> /\ HttpHeadOf(h, status, TRUE)
  <2>1. PICK h \in Seq(HttpTokens) : h = <<s, k, c>> /\ Len(h) = 3 /\ h[1] = s /\ h[2] = k /\ h[3] = c
    BY <1>5
  <2>2. HttpHeadOf(h, status, TRUE)
    BY <2>1, <1>1, <1>3, <1>4 DEF HttpHeadOf
  <2>3. h = <<<<"status", status>>, <<"chunked", 0>>, HttpCrlf>>
    BY <2>1, <1>1, <1>3, <1>4
  <2> QED
    BY <2>2, <2>3, Zenon
<1>8. \E h \in Seq(HttpTokens) : h = <<<<"status", status>>, HttpCrlf>> /\ HttpHeadOf(h, status, FALSE)
  <2>1. <<s, c>> \in Seq(HttpTokens) /\ Len(<<s, c>>) = 2 /\ <<s, c>>[1] = s /\ <<s, c>>[2] = c
    OBVIOUS
  <2>2. PICK h \in Seq(HttpTokens) : h = <<s, c>> /\ Len(h) = 2 /\ h[1] = s /\ h[2] = c
    BY <2>1, Zenon
  <2>3. HttpHeadOf(h, status, FALSE)
    BY <2>2, <1>1, <1>4 DEF HttpHeadOf
  <2>4. h = <<<<"status", status>>, HttpCrlf>>
    BY <2>2, <1>1, <1>4
  <2> QED
    BY <2>3, <2>4, Zenon
<1> QED
  BY <1>6, <1>7, <1>8, Zenon

\* What the server has still to send, when nothing waits for it to put its answer together
HttpNetOf(a, left, todo) == a \in HttpNets /\ a.left = left /\ a.todo = todo
\* An answer of the server is of its type.
LEMMA HttpNetType ==
  ASSUME NEW left \in Seq(HttpTokens), NEW todo \in Seq(HttpTokens), Len(todo) <= HttpSize + 1, NEW e \in BOOLEAN
  PROVE  HttpNetOf(HttpAnswer(left, todo, e), left, todo)
BY DEF HttpNets, HttpAnswer, HttpNetOf

\* Nothing is still to be sent.
LEMMA HttpNoTodo == \E n \in Seq(HttpTokens) : n = <<>> /\ Len(n) <= HttpSize + 1
<1>1. PICK n \in Seq(HttpTokens) : n = <<>> /\ Len(n) = 0
  BY HttpEmpty, Zenon
<1>2. Len(n) <= HttpSize + 1
  BY <1>1, HttpSizeAssumption
<1> QED
  BY <1>1, <1>2, Zenon

\* The ways a server may frame a body
LEMMA HttpFramedIs ==
  ASSUME NEW status \in {200, 206, 404}, NEW body \in Seq(HttpTokens), Len(body) <= HttpSize,
         NEW a \in HttpFramed(status, body)
  PROVE  HttpAnswerOf(a, status, body)
<1>1. PICK n \in 0..HttpSize : n = Len(body)
  <2>1. PICK m \in Nat : m = Len(body)
    BY SeqTypes
  <2>2. m \in 0..HttpSize
    BY <2>1, HttpSizeAssumption
  <2> QED
    BY <2>1, <2>2
<1>2. PICK l \in Seq(HttpTokens) : HttpLengthed(l, status, n) /\ HttpHeadOf(l, status, FALSE)
  <2>1. HttpHasLength(status, n)
    BY HttpHeadsIs, ZenonT(60)
  <2> QED
    BY <2>1, Zenon DEF HttpHasLength
<1>3. PICK k \in Seq(HttpTokens) :
        k = <<<<"status", status>>, <<"chunked", 0>>, HttpCrlf>> /\ HttpHeadOf(k, status, TRUE)
  BY HttpHeadsIs, ZenonT(60)
<1>4. PICK p \in Seq(HttpTokens) : p = <<<<"status", status>>, HttpCrlf>> /\ HttpHeadOf(p, status, FALSE)
  BY HttpHeadsIs, Zenon
<1>5. PICK t \in Seq(HttpTokens) : t = <<HttpCrlf>> /\ Len(t) = 1 /\ t[1] = HttpCrlf
  BY HttpPieces, Zenon
<1>6. PICK todo \in Seq(HttpTokens) : todo = Cat(body, t) /\ Len(todo) = n + 1
  <2>1. Cat(body, t) \in Seq(HttpTokens) /\ Len(Cat(body, t)) = Len(body) + Len(t)
    BY CatIs
  <2> QED
    BY <2>1, <1>1, <1>5
<1>7. todo = Append(body, HttpCrlf)
  <2>1. PICK c \in HttpTokens : c = HttpCrlf
    BY HttpCrlfType
  <2>2. body \o <<c>> = Append(body, c)
    OBVIOUS
  <2> QED
    BY <2>1, <2>2, <1>5, <1>6 DEF Cat
<1>8. PICK lb \in Seq(HttpTokens) : lb = Cat(l, body)
  BY CatIs
<1>9. PICK pb \in Seq(HttpTokens) : pb = Cat(p, body)
  BY CatIs
<1>10. PICK no \in Seq(HttpTokens) : no = <<>> /\ Len(no) <= HttpSize + 1
  BY HttpNoTodo, Zenon
<1>11. \/ \E e \in BOOLEAN : a = HttpAnswer(lb, no, e)
       \/ \E e \in BOOLEAN : a = HttpAnswer(k, todo, e)
       \/ \E e \in BOOLEAN : a = HttpAnswer(pb, no, e)
  <2>1. lb = <<<<"status", status>>, <<"length", n>>, HttpCrlf>> \o body
    BY <1>2, <1>8 DEF Cat, HttpLengthed
  <2>2. pb = <<<<"status", status>>, HttpCrlf>> \o body
    BY <1>4, <1>9 DEF Cat
  <2>3. PICK u : u = <<<<"status", status>>, <<"length", Len(body)>>, HttpCrlf>> \o body
    BY Zenon
  <2>4. PICK v : v = <<<<"status", status>>, HttpCrlf>> \o body
    BY Zenon
  <2>5. PICK w : w = Append(body, HttpCrlf)
    BY Zenon
  <2>6. PICK x : x = <<<<"status", status>>, <<"chunked", 0>>, HttpCrlf>>
    BY Zenon
  <2>7. \/ \E e \in BOOLEAN : a = HttpAnswer(u, <<>>, e)
        \/ \E e \in BOOLEAN : a = HttpAnswer(x, w, e)
        \/ a = HttpAnswer(v, <<>>, TRUE)
    <3>1. a \in {HttpAnswer(u, <<>>, e) : e \in BOOLEAN} \cup {HttpAnswer(x, w, e) : e \in BOOLEAN}
                \cup {HttpAnswer(v, <<>>, TRUE)}
      BY <2>3, <2>4, <2>5, <2>6, ZenonT(60) DEF HttpFramed
    <3> QED
      BY <3>1, Zenon
  <2>8. u = lb /\ v = pb /\ w = todo /\ x = k
    BY <2>1, <2>2, <2>3, <2>4, <2>5, <2>6, <1>1, <1>3, <1>7
  <2> QED
    BY <2>7, <2>8, <1>10, Zenon
<1>12. ASSUME NEW e \in BOOLEAN, a = HttpAnswer(lb, no, e) PROVE HttpAnswerOf(a, status, body)
  <2>1. a \in HttpNets /\ a.left = lb /\ a.todo = no
    <3>1. HttpNetOf(HttpAnswer(lb, no, e), lb, no)
      BY <1>10, HttpNetType, Zenon
    <3> QED
      BY <3>1, <1>12 DEF HttpNetOf
  <2>2. PICK ch \in BOOLEAN : ch = FALSE
    BY Zenon
  <2>3. HttpHeadOf(l, status, ch) /\ HttpAnswerAt(a, body, l, ch)
    BY <2>1, <2>2, <1>2, <1>8, <1>10, Zenon DEF HttpAnswerAt
  <2> QED
    BY <2>1, <2>3 DEF HttpAnswerOf
<1>13. ASSUME NEW e \in BOOLEAN, a = HttpAnswer(k, todo, e) PROVE HttpAnswerOf(a, status, body)
  <2>1. Len(todo) <= HttpSize + 1
    BY <1>1, <1>6, HttpSizeAssumption
  <2>2. a \in HttpNets /\ a.left = k /\ a.todo = todo
    <3>1. HttpNetOf(HttpAnswer(k, todo, e), k, todo)
      BY <2>1, HttpNetType
    <3> QED
      BY <3>1, <1>13 DEF HttpNetOf
  <2>3. HttpEndOf(t)
    BY <1>5 DEF HttpEndOf
  <2>4. PICK ch \in BOOLEAN : ch = TRUE
    BY Zenon
  <2>5. \E u \in Seq(HttpTokens) : HttpEndOf(u) /\ a.todo = Cat(body, u)
    BY <2>2, <2>3, <1>6
  <2>6. HttpHeadOf(k, status, ch) /\ HttpAnswerAt(a, body, k, ch)
    BY <2>2, <2>4, <2>5, <1>3, Zenon DEF HttpAnswerAt
  <2> QED
    BY <2>2, <2>6 DEF HttpAnswerOf
<1>14. ASSUME NEW e \in BOOLEAN, a = HttpAnswer(pb, no, e) PROVE HttpAnswerOf(a, status, body)
  <2>1. a \in HttpNets /\ a.left = pb /\ a.todo = no
    <3>1. HttpNetOf(HttpAnswer(pb, no, e), pb, no)
      BY <1>10, HttpNetType, Zenon
    <3> QED
      BY <3>1, <1>14 DEF HttpNetOf
  <2>2. PICK ch \in BOOLEAN : ch = FALSE
    BY Zenon
  <2>3. HttpHeadOf(p, status, ch) /\ HttpAnswerAt(a, body, p, ch)
    BY <2>1, <2>2, <1>4, <1>9, <1>10, Zenon DEF HttpAnswerAt
  <2> QED
    BY <2>1, <2>3 DEF HttpAnswerOf
<1> QED
  BY <1>11, <1>12, <1>13, <1>14

\* The body of the file, from the unit after f
LEMMA HttpDataIs ==
  /\ HttpData \in Seq(HttpTokens) /\ Len(HttpData) = HttpSize
  /\ \A i \in 1..HttpSize : HttpData[i] = HttpUnit(i)
<1>1. HttpSize \in Nat
  BY HttpSizeAssumption
<1>2. \A i \in 1..HttpSize : <<"d", i>> \in HttpTokens
  <2>1. ASSUME NEW i \in 1..HttpSize PROVE <<"d", i>> \in HttpTokens
    <3>1. i \in 0..HttpSize
      BY <1>1
    <3> QED
      BY <3>1 DEF HttpTokens
  <2> QED
    BY <2>1, Zenon
<1>3. HttpData \in [1..HttpSize -> HttpTokens]
  BY <1>2 DEF HttpData
<1>4. HttpData \in Seq(HttpTokens) /\ Len(HttpData) = HttpSize
  BY <1>1, <1>3
<1>5. \A i \in 1..HttpSize : HttpData[i] = HttpUnit(i)
  BY DEF HttpData, HttpUnit
<1> QED
  BY <1>4, <1>5

\* The body of a response from unit f on
LEMMA HttpDataFrom ==
  ASSUME NEW f \in 0..HttpSize
  PROVE  \E b \in Seq(HttpTokens) : b = SubSeq(HttpData, f + 1, HttpSize) /\ Len(b) = HttpSize - f /\ HttpRun(b, f)
<1>1. PICK d \in Seq(HttpTokens) : d = HttpData /\ Len(d) = HttpSize /\ \A i \in 1..HttpSize : d[i] = HttpUnit(i)
  BY HttpDataIs
<1>2. HttpSize \in Nat /\ f \in Nat /\ f <= HttpSize
  BY HttpSizeAssumption
<1>3. f <= Len(d)
  BY <1>1, <1>2
<1>4. PICK b \in Seq(HttpTokens) : b = Drop(d, f)
  BY <1>2, <1>3, DropIs
<1>5. Len(b) = Len(d) - f /\ \A i \in 1..(Len(d) - f) : b[i] = d[f + i]
  BY <1>2, <1>3, <1>4, DropIs, Zenon
<1>6. Len(b) = HttpSize - f
  BY <1>1, <1>5
<1>7. ASSUME NEW i \in 1..Len(b) PROVE b[i] = HttpUnit(f + i)
  <2>1. i \in 1..(Len(d) - f) /\ f + i \in 1..HttpSize
    BY <1>1, <1>2, <1>6
  <2> QED
    BY <2>1, <1>1, <1>5
<1>8. b = SubSeq(HttpData, f + 1, HttpSize)
  BY <1>1, <1>4 DEF Drop
<1> QED
  BY <1>6, <1>7, <1>8, Zenon DEF HttpRun

\* An answer to a request that asks for the file from start on, or for a listing
HttpAnswered(a, start) ==
  /\ a \in HttpNets
  /\ \E status \in {200, 206, 404}, body \in Seq(HttpTokens) :
       /\ HttpAnswerOf(a, status, body)
       /\ status \in {200, 206} => HttpRun(body, IF status = 206 THEN start ELSE 0)

\* A framed body is an answer.
LEMMA HttpFramedAnswers ==
  ASSUME NEW status \in {200, 206, 404}, NEW body \in Seq(HttpTokens), Len(body) <= HttpSize,
         NEW start \in 0..1, status \in {200, 206} => HttpRun(body, IF status = 206 THEN start ELSE 0),
         NEW a \in HttpFramed(status, body)
  PROVE  HttpAnswered(a, start)
<1>1. HttpAnswerOf(a, status, body)
  BY HttpFramedIs
<1>2. a \in HttpNets
  BY <1>1 DEF HttpAnswerOf
<1> QED
  BY <1>1, <1>2 DEF HttpAnswered

\* An answer to a download or a listing carries the body, from the start that was asked for or from the first unit.
LEMMA HttpAnswersIs ==
  ASSUME NEW op \in {"get", "list"}, NEW start \in 0..1, NEW a \in HttpAnswers(op, start)
  PROVE  HttpAnswered(a, start)
<1>1. HttpSize \in Nat /\ HttpSize > 0 /\ 0 \in 0..HttpSize /\ start \in 0..HttpSize
  BY HttpSizeAssumption
<1>2. PICK d \in Seq(HttpTokens) : d = HttpData /\ Len(d) <= HttpSize /\ HttpRun(d, 0)
  <2>1. Len(HttpData) <= HttpSize
    BY <1>1, HttpDataIs
  <2>2. ASSUME NEW i \in 1..Len(HttpData) PROVE HttpData[i] = HttpUnit(0 + i)
    BY <2>2, <1>1, HttpDataIs
  <2> QED
    BY <2>1, <2>2, HttpDataIs DEF HttpRun
<1>3. PICK b \in Seq(HttpTokens) : b = SubSeq(HttpData, start + 1, HttpSize) /\ Len(b) <= HttpSize /\ HttpRun(b, start)
  <2>1. PICK b \in Seq(HttpTokens) :
          b = SubSeq(HttpData, start + 1, HttpSize) /\ Len(b) = HttpSize - start /\ HttpRun(b, start)
    BY <1>1, HttpDataFrom
  <2>2. Len(b) <= HttpSize
    BY <2>1, <1>1
  <2> QED
    BY <2>1, <2>2, Zenon
<1>4. PICK p \in Seq(HttpTokens) : p = <<HttpPage>> /\ Len(p) <= HttpSize
  <2>1. PICK c \in HttpTokens : c = HttpPage
    BY HttpCrlfType
  <2>2. <<c>> \in Seq(HttpTokens) /\ Len(<<c>>) = 1
    OBVIOUS
  <2>3. PICK p \in Seq(HttpTokens) : p = <<c>> /\ Len(p) = 1
    BY <2>2, Zenon
  <2>4. Len(p) <= HttpSize
    BY <2>3, <1>1
  <2>5. p = <<HttpPage>>
    BY <2>1, <2>3
  <2> QED
    BY <2>4, <2>5, Zenon
<1>5. PICK ok \in {200, 206, 404} : ok = 200
  OBVIOUS
<1>6. PICK part \in {200, 206, 404} : part = 206
  OBVIOUS
<1>7. PICK not \in {200, 206, 404} : not = 404
  OBVIOUS
<1>8. a \in HttpFramed(part, b) \/ a \in HttpFramed(ok, d) \/ a \in HttpFramed(not, p)
  <2>1. CASE op = "get" /\ start > 0
    <3>1. a \in HttpFramed(206, SubSeq(HttpData, start + 1, HttpSize)) \cup HttpFramed(200, HttpData)
      BY <2>1, ZenonT(60) DEF HttpAnswers
    <3> QED
      BY <3>1, <1>2, <1>3, <1>5, <1>6
  <2>2. CASE ~(op = "get" /\ start > 0)
    <3>1. a \in HttpFramed(200, HttpData) \cup HttpFramed(404, <<HttpPage>>)
      BY <2>2 DEF HttpAnswers
    <3> QED
      BY <3>1, <1>2, <1>4, <1>5, <1>7
  <2> QED
    BY <2>1, <2>2
<1>9. CASE a \in HttpFramed(part, b)
  <2>1. part \in {200, 206} => HttpRun(b, IF part = 206 THEN start ELSE 0)
    BY <1>3, <1>6
  <2>2. Len(b) <= HttpSize
    BY <1>3
  <2> QED
    BY <2>1, <2>2, <1>9, HttpFramedAnswers
<1>10. CASE a \in HttpFramed(ok, d)
  <2>1. ok \in {200, 206} => HttpRun(d, IF ok = 206 THEN start ELSE 0)
    BY <1>2, <1>5
  <2> QED
    BY <2>1, <1>10, <1>2, <1>5, HttpFramedAnswers
<1>11. CASE a \in HttpFramed(not, p)
  <2>1. not \in {200, 206} => HttpRun(p, IF not = 206 THEN start ELSE 0)
    BY <1>7
  <2>2. Len(p) <= HttpSize
    BY <1>4
  <2> QED
    BY <2>1, <2>2, <1>11, HttpFramedAnswers
<1> QED
  BY <1>8, <1>9, <1>10, <1>11

\* An answer to a request for the size is of its type.
LEMMA HttpHeadAnswers ==
  ASSUME NEW start, NEW a \in HttpAnswers("head", start)
  PROVE  a \in HttpNets
<1>1. PICK n \in 0..HttpSize : n = HttpSize
  BY HttpSizeAssumption
<1>2. PICK ok \in {200, 206, 404} : ok = 200
  OBVIOUS
<1>3. HttpHasLength(ok, n)
  BY HttpHeadsIs, ZenonT(60)
<1>4. PICK h \in Seq(HttpTokens) : HttpLengthed(h, ok, n)
  BY <1>3 DEF HttpHasLength
<1>5. PICK no \in Seq(HttpTokens) : no = <<>> /\ Len(no) <= HttpSize + 1
  BY HttpNoTodo, Zenon
<1>6. \E e \in BOOLEAN : a = HttpAnswer(h, no, e)
  <2>1. PICK x : x = <<<<"status", 200>>, <<"length", HttpSize>>, HttpCrlf>>
    BY Zenon
  <2>2. \E e \in BOOLEAN : a = HttpAnswer(x, <<>>, e)
    BY <2>1, Zenon DEF HttpAnswers
  <2>3. x = h
    BY <2>1, <1>1, <1>2, <1>4 DEF HttpLengthed
  <2> QED
    BY <2>2, <2>3, <1>5
<1>7. PICK e \in BOOLEAN : a = HttpAnswer(h, no, e)
  BY <1>6
<1>8. HttpNetOf(HttpAnswer(h, no, e), h, no)
  BY <1>5, HttpNetType, Zenon
<1> QED
  BY <1>7, <1>8 DEF HttpNetOf

\* The request and the operation when the call begins
HttpAskedReq(r, req) ==
  /\ r \in HttpReqs /\ r.rbuf = req.rbuf /\ r.extra = <<>> /\ r.chunk = 0 /\ r.length = 0 /\ r.eof = FALSE
  /\ r.ptr = req.ptr /\ r.chunked = req.chunked
HttpAskedJob(j, op, start) ==
  /\ j \in HttpJobs /\ j.op = op /\ j.at = "headers" /\ j.start = start /\ j.first = 0 /\ j.status = 0
  /\ j.line = FALSE /\ j.chunked = FALSE /\ j.got = <<>>
HttpAskedNet(new, net, start) ==
  \/ HttpAnswered(new, start)
  \/ new = net
  \/ \E a \in HttpNets : HttpAnswered(a, start) /\ new.left = Cat(net.left, a.left) /\ new.todo = a.todo

\* The request when the call begins
LEMMA HttpAskReq ==
  ASSUME NEW req \in HttpReqs,
         NEW r, r = [req EXCEPT !.up = TRUE, !.extra = <<>>, !.chunk = 0, !.length = 0, !.eof = FALSE]
  PROVE  HttpAskedReq(r, req)
<1>1. PICK e \in Seq(HttpTokens) : e = <<>>
  BY HttpEmpty, Zenon
<1>2. PICK n \in Nat : n = 0
  OBVIOUS
<1>3. PICK t \in BOOLEAN : t = TRUE
  BY Zenon
<1>4. PICK f \in BOOLEAN : f = FALSE
  BY Zenon
<1>5. r = [req EXCEPT !.up = t, !.extra = e, !.chunk = n, !.length = n, !.eof = f]
  BY <1>1, <1>2, <1>3, <1>4, Zenon
<1>6. PICK a \in HttpReqs : a = [req EXCEPT !.up = t]
  BY HttpReqSet, Zenon
<1>7. PICK b \in HttpReqs : b = [a EXCEPT !.extra = e]
  BY HttpReqSet, Zenon
<1>8. PICK c \in HttpReqs : c = [b EXCEPT !.chunk = n]
  BY HttpReqSet, Zenon
<1>9. PICK d \in HttpReqs : d = [c EXCEPT !.length = n]
  BY HttpReqSet, Zenon
<1>10. PICK g \in HttpReqs : g = [d EXCEPT !.eof = f]
  BY HttpReqSet, Zenon
<1>11. r = g
  BY <1>5, <1>6, <1>7, <1>8, <1>9, <1>10
<1>12. /\ r.rbuf = req.rbuf /\ r.extra = e /\ r.chunk = n /\ r.length = n /\ r.eof = f
       /\ r.ptr = req.ptr /\ r.chunked = req.chunked
  BY <1>5, Zenon DEF HttpReqs
<1> QED
  BY <1>1, <1>2, <1>4, <1>10, <1>11, <1>12, Zenon DEF HttpAskedReq

\* The operation when the call begins
LEMMA HttpAskJob ==
  ASSUME NEW op \in HttpOps, NEW start \in 0..1, NEW clean \in BOOLEAN,
         NEW j, j = [HttpNoJob EXCEPT !.op = op, !.at = "headers", !.start = start, !.clean = clean]
  PROVE  HttpAskedJob(j, op, start) /\ j.clean = clean
<1>1. PICK at \in HttpAts : at = "headers"
  BY DEF HttpAts
<1>2. PICK s \in 0..HttpSize : s = start
  BY HttpSizeAssumption
<1>3. PICK n \in HttpJobs : n = HttpNoJob
  BY HttpNewTypes
<1>4. PICK a \in HttpJobs : a = [n EXCEPT !.op = op]
  BY HttpJobSet, Zenon
<1>5. PICK b \in HttpJobs : b = [a EXCEPT !.at = at]
  BY HttpJobSet, Zenon
<1>6. PICK c \in HttpJobs : c = [b EXCEPT !.start = s]
  BY HttpJobSet, Zenon
<1>7. PICK d \in HttpJobs : d = [c EXCEPT !.clean = clean]
  BY HttpJobSet, Zenon
<1>8. j = d
  BY <1>1, <1>2, <1>3, <1>4, <1>5, <1>6, <1>7
<1>9. /\ j.op = op /\ j.at = "headers" /\ j.start = start /\ j.first = 0 /\ j.status = 0
      /\ j.line = FALSE /\ j.chunked = FALSE /\ j.got = <<>> /\ j.clean = clean
  BY DEF HttpNoJob
<1> QED
  BY <1>7, <1>8, <1>9, Zenon DEF HttpAskedJob

\* A call begins: it is clean only when nothing is left of the last response.
LEMMA HttpAskCases ==
  ASSUME HttpTypeOK, NEW op \in {"get", "list", "head"}, NEW start \in 0..1, HttpAsk(op, start)
  PROVE  /\ httpJob.at = "none" /\ HttpAskedReq(httpReq', httpReq) /\ HttpAskedJob(httpJob', op, start)
         /\ httpNet' \in HttpNets
         /\ op # "head" => HttpAskedNet(httpNet', httpNet, start)
         /\ (httpJob').clean => httpReq.rbuf.data = <<>> /\ httpNet.left = <<>> /\ httpNet.todo = <<>>
<1>1. httpReq \in HttpReqs /\ httpNet \in HttpNets
  BY DEF HttpTypeOK
<1>2. httpReq.rbuf.data \in Seq(HttpTokens) /\ httpNet.left \in Seq(HttpTokens) /\ httpNet.todo \in Seq(HttpTokens)
  BY <1>1, HttpNetTypes, HttpReqTypes
<1>3. HttpAskedReq(httpReq', httpReq)
  <2>1. PICK r : r = [httpReq EXCEPT !.up = TRUE, !.extra = <<>>, !.chunk = 0, !.length = 0, !.eof = FALSE]
    OBVIOUS
  <2>2. HttpAskedReq(r, httpReq)
    BY <2>1, <1>1, HttpAskReq, Zenon
  <2> QED
    BY <2>1, <2>2 DEF HttpAsk
<1>4. PICK clean \in BOOLEAN : clean = (HttpRest = 0)
  BY Zenon
<1>5. HttpAskedJob(httpJob', op, start) /\ (httpJob').clean = clean
  <2>1. PICK j : j = [HttpNoJob EXCEPT !.op = op, !.at = "headers", !.start = start, !.clean = clean]
    OBVIOUS
  <2>2. op \in HttpOps
    BY DEF HttpOps
  <2>3. HttpAskedJob(j, op, start) /\ j.clean = clean
    BY <2>1, <2>2, HttpAskJob, Zenon
  <2>4. httpJob' = j
    BY <2>1, <1>4 DEF HttpAsk
  <2> QED
    BY <2>3, <2>4
<1>6. (httpJob').clean => httpReq.rbuf.data = <<>> /\ httpNet.left = <<>> /\ httpNet.todo = <<>>
  <2>1. SUFFICES ASSUME HttpRest = 0
                 PROVE  httpReq.rbuf.data = <<>> /\ httpNet.left = <<>> /\ httpNet.todo = <<>>
    BY <1>4, <1>5, Zenon
  <2>2. PICK c \in Seq(HttpTokens) : c = Cat(httpReq.rbuf.data, httpNet.left)
    BY <1>2, CatIs, Zenon
  <2>3. PICK d \in Seq(HttpTokens) : d = Cat(c, httpNet.todo)
    BY <1>2, CatIs, Zenon
  <2>4. Len(d) = 0
    BY <2>1, <2>2, <2>3, Zenon DEF HttpRest, Cat
  <2>5. d = <<>>
    BY <2>4, SeqTypes
  <2>6. c = <<>> /\ httpNet.todo = <<>>
    BY <2>3, <2>5, <1>2, CatNone, Zenon
  <2>7. httpReq.rbuf.data = <<>> /\ httpNet.left = <<>>
    BY <2>2, <2>6, <1>2, CatNone, Zenon
  <2> QED
    BY <2>6, <2>7
<1>7. PICK a \in HttpAnswers(op, start) :
        httpNet' = CASE ~httpReq.up -> a
                     [] httpReq.up /\ httpNet.end -> httpNet
                     [] OTHER -> [a EXCEPT !.left = httpNet.left \o a.left]
  BY Zenon DEF HttpAsk
<1>8. a \in HttpNets /\ (op # "head" => HttpAnswered(a, start))
  <2>1. CASE op = "head"
    BY <2>1, HttpHeadAnswers
  <2>2. CASE op # "head"
    BY <2>2, HttpAnswersIs DEF HttpAnswered
  <2> QED
    BY <2>1, <2>2
<1>9. PICK b : b = [a EXCEPT !.left = httpNet.left \o a.left]
  BY Zenon
<1>10. b \in HttpNets /\ b.left = Cat(httpNet.left, a.left) /\ b.todo = a.todo
  <2>1. PICK s \in Seq(HttpTokens) : s = Cat(httpNet.left, a.left)
    BY <1>2, <1>8, CatIs, HttpNetTypes, Zenon
  <2>2. b = [a EXCEPT !.left = s]
    BY <1>9, <2>1 DEF Cat
  <2>3. b \in HttpNets /\ b.left = s /\ b.todo = a.todo
    BY <2>2, <1>8, Zenon DEF HttpNets
  <2> QED
    BY <2>1, <2>3
<1>11. httpNet' = a \/ httpNet' = httpNet \/ httpNet' = b
  <2>1. CASE ~httpReq.up
    BY <2>1, <1>7, Zenon
  <2>2. CASE httpReq.up /\ httpNet.end
    BY <2>2, <1>7, Zenon
  <2>3. CASE httpReq.up /\ ~httpNet.end
    BY <2>3, <1>7, <1>9, Zenon
  <2> QED
    BY <2>1, <2>2, <2>3
<1>12. httpNet' \in HttpNets /\ (op # "head" => HttpAskedNet(httpNet', httpNet, start))
  BY <1>1, <1>8, <1>10, <1>11 DEF HttpAskedNet
<1>13. httpJob.at = "none"
  BY DEF HttpAsk
<1> QED
  BY <1>3, <1>5, <1>6, <1>12, <1>13

\* The invariant's first part: the types, and nothing is delivered or at work between two calls.
HttpTyped == HttpTypeOK /\ HttpIdle(httpReq, httpJob)

\* A call that is over keeps the types.
LEMMA HttpOverTypes ==
  ASSUME HttpTypeOK, \E o \in HttpOuts : HttpOver(o) /\ HttpApplyWith(o, httpNet)
  PROVE  HttpTyped'
<1>1. PICK o \in HttpOuts : HttpApplyWith(o, httpNet)
  OBVIOUS
<1>2. httpNet \in HttpNets
  BY DEF HttpTypeOK
<1> QED
  BY <1>1, <1>2, HttpApplyTypes DEF HttpTyped

\* The steps of the client keep the types.
LEMMA HttpClientTypes ==
  ASSUME HttpTyped, HttpClient
  PROVE  HttpTyped'
<1>1. HttpTypeOK /\ HttpIdle(httpReq, httpJob)
  BY DEF HttpTyped
<1>2. CASE HttpLine
  BY <1>1, <1>2, HttpLineTypes DEF HttpTyped
<1>3. CASE HttpFromBuffer
  BY <1>1, <1>3, HttpFromBufferTypes DEF HttpTyped
<1>4. CASE HttpRead
  BY <1>1, <1>4, HttpReadTypes DEF HttpTyped
<1>5. CASE HttpLoop
  BY <1>1, <1>5, HttpLoopTypes DEF HttpTyped
<1>6. CASE HttpBroken
  BY <1>1, <1>6, HttpBrokenOver, HttpOverTypes
<1> QED
  BY <1>2, <1>3, <1>4, <1>5, <1>6 DEF HttpClient

\* A call that begins keeps the types.
LEMMA HttpAskTypes ==
  ASSUME HttpTypeOK, NEW op \in {"get", "list", "head"}, NEW start \in 0..1, HttpAsk(op, start)
  PROVE  HttpTyped'
<1>1. HttpAskedReq(httpReq', httpReq) /\ HttpAskedJob(httpJob', op, start) /\ httpNet' \in HttpNets
  BY HttpAskCases
<1>2. httpReq' \in HttpReqs /\ httpJob' \in HttpJobs /\ (httpJob').at # "none"
  BY <1>1 DEF HttpAskedReq, HttpAskedJob
<1> QED
  BY <1>1, <1>2 DEF HttpTyped, HttpTypeOK, HttpIdle

\* The calls of the caller that ask for something, by their names
LEMMA HttpAsks ==
  ASSUME HttpGetFile \/ HttpListFiles \/ HttpGetSize
  PROVE  \E op \in {"get", "list", "head"}, start \in 0..1 : HttpAsk(op, start)
<1>1. PICK no \in 0..1 : no = 0
  OBVIOUS
<1>2. CASE HttpGetFile
  <2>1. PICK op \in {"get", "list", "head"} : op = "get"
    OBVIOUS
  <2>2. PICK start \in {0, 1} : HttpAsk(op, start)
    BY <1>2, <2>1 DEF HttpGetFile
  <2> QED
    BY <2>2
<1>3. CASE HttpListFiles
  <2>1. PICK op \in {"get", "list", "head"} : op = "list"
    OBVIOUS
  <2>2. HttpAsk(op, no)
    BY <1>1, <1>3, <2>1 DEF HttpListFiles
  <2> QED
    BY <2>2
<1>4. CASE HttpGetSize
  <2>1. PICK op \in {"get", "list", "head"} : op = "head"
    OBVIOUS
  <2>2. HttpAsk(op, no)
    BY <1>1, <1>4, <2>1 DEF HttpGetSize
  <2> QED
    BY <2>2
<1> QED
  BY <1>2, <1>3, <1>4

\* The steps of the caller keep the types.
LEMMA HttpCallerTypes ==
  ASSUME HttpTyped, HttpCaller
  PROVE  HttpTyped'
<1>1. HttpTypeOK /\ HttpIdle(httpReq, httpJob)
  BY DEF HttpTyped
<1>2. CASE HttpGetFile \/ HttpListFiles \/ HttpGetSize
  BY <1>1, <1>2, HttpAsks, HttpAskTypes
<1>3. CASE HttpAbort
  BY <1>1, <1>3, HttpAbortOver, HttpOverTypes
<1>4. CASE HttpDisconnect
  BY <1>1, <1>4, HttpDisconnectOver, HttpOverTypes
<1>5. CASE HttpDestroy
  BY <1>1, <1>5, HttpDestroyOver, HttpOverTypes
<1> QED
  BY <1>2, <1>3, <1>4, <1>5 DEF HttpCaller

\* The steps of the server keep the types.
LEMMA HttpServerTypes ==
  ASSUME HttpTyped, HttpServer
  PROVE  HttpTyped'
<1>1. HttpTypeOK /\ HttpIdle(httpReq, httpJob)
  BY DEF HttpTyped
<1>2. httpReq' = httpReq /\ httpJob' = httpJob /\ httpNet' \in HttpNets
  <2>1. CASE HttpServe
    <3>1. /\ httpReq' = httpReq /\ httpJob' = httpJob
          /\ \E n \in Nat, h \in Seq(HttpTokens), t \in Seq(HttpTokens) : HttpNextChunk(httpNet, n, h, t, httpNet')
      BY <1>1, <2>1, HttpServeCases
    <3> QED
      BY <3>1 DEF HttpNextChunk
  <2>2. CASE HttpCut
    BY <2>2, HttpNewTypes DEF HttpCut
  <2> QED
    BY <2>1, <2>2 DEF HttpServer
<1> QED
  BY <1>1, <1>2 DEF HttpTyped, HttpTypeOK, HttpIdle

\* A step that changes nothing keeps the types.
LEMMA HttpStutterTypes ==
  ASSUME HttpTyped, UNCHANGED httpVars
  PROVE  HttpTyped'
<1>1. httpReq' = httpReq /\ httpJob' = httpJob /\ httpNet' = httpNet
  BY DEF httpVars
<1> QED
  BY <1>1 DEF HttpTyped, HttpTypeOK, HttpIdle

\* The types hold at first.
LEMMA HttpInitTypes ==
  ASSUME HttpInit
  PROVE  HttpTyped
<1>1. httpReq \in HttpReqs /\ httpJob \in HttpJobs /\ httpNet \in HttpNets
  BY HttpNewTypes DEF HttpInit
<1>2. httpJob.got = <<>> /\ ~httpReq.ptr.on
  BY HttpNone DEF HttpInit, HttpNoJob, HttpNewReq
<1> QED
  BY <1>1, <1>2 DEF HttpTyped, HttpTypeOK, HttpIdle

\* Every step keeps the types, and nothing is delivered or at work between two calls.
LEMMA HttpStepTypes == HttpTyped /\ [HttpNext]_httpVars => HttpTyped'
<1> SUFFICES ASSUME HttpTyped, [HttpNext]_httpVars PROVE HttpTyped'
  OBVIOUS
<1>1. CASE HttpClient
  BY <1>1, HttpClientTypes
<1>2. CASE HttpCaller
  BY <1>2, HttpCallerTypes
<1>3. CASE HttpServer
  BY <1>3, HttpServerTypes
<1>4. CASE UNCHANGED httpVars
  BY <1>4, HttpStutterTypes
<1> QED
  BY <1>1, <1>2, <1>3, <1>4 DEF HttpNext

\* The types hold
THEOREM HttpTypes == HttpSpec => []HttpTypeOK
<1>1. HttpInit => HttpTyped
  BY HttpInitTypes
<1>2. HttpTyped /\ [HttpNext]_httpVars => HttpTyped'
  BY HttpStepTypes
<1>3. HttpTyped => HttpTypeOK
  BY DEF HttpTyped
<1> QED
  BY <1>1, <1>2, <1>3, PTL DEF HttpSpec

-----------------------------------------------------------------------------
(* The connection ends, a call is over                                     *)

\* The body is where it was when the connection ends before the rest of it.
LEMMA HttpBodyAtCut ==
  ASSUME NEW a \in Seq(HttpTokens), NEW b \in Seq(HttpTokens), NEW p \in Nat, NEW f \in Nat, NEW ch \in BOOLEAN,
         HttpBodyAt(Cat(a, b), p, f, ch)
  PROVE  HttpBodyAt(a, p, f, ch)
<1>1. CASE ch
  BY <1>1, HttpFlowsCut, HttpLaidCut DEF HttpBodyAt
<1>2. CASE ~ch
  <2>1. PICK c \in Seq(HttpTokens) :
           /\ c = Cat(a, b) /\ Len(c) = Len(a) + Len(b)
           /\ \A i \in 1..Len(a) : c[i] = a[i]
           /\ \A i \in 1..Len(b) : c[Len(a) + i] = b[i]
    BY CatPick, Zenon
  <2>2. \A j \in 1..(Len(c) - p) : c[p + j] = HttpUnit(f + j)
    BY <1>2, <2>1 DEF HttpBodyAt
  <2>3. Len(a) \in Nat /\ Len(b) \in Nat
    BY SeqTypes
  <2>4. ASSUME NEW j \in 1..(Len(a) - p) PROVE a[p + j] = HttpUnit(f + j)
    <3>1. j \in 1..(Len(c) - p) /\ p + j \in 1..Len(a)
      BY <2>1, <2>3
    <3> QED
      BY <3>1, <2>1, <2>2
  <2> QED
    BY <1>2, <2>4 DEF HttpBodyAt
<1> QED
  BY <1>1, <1>2

\* Where the body starts is a place in the file.
LEMMA HttpFromType ==
  ASSUME NEW job \in HttpJobs, NEW status
  PROVE  HttpFrom(job, status) \in Nat
<1>1. job.start \in Nat
  BY HttpJobTypes, HttpSizeAssumption
<1> QED
  BY <1>1 DEF HttpFrom

\* The headers are in their places in every beginning of the answer.
LEMMA HttpHeadsCut ==
  ASSUME NEW req, NEW job \in HttpJobs, NEW a \in Seq(HttpTokens), NEW b \in Seq(HttpTokens),
         HttpHeads(req, job, Cat(a, b))
  PROVE  HttpHeads(req, job, a)
<1>1. PICK c \in Seq(HttpTokens) :
         /\ c = Cat(a, b) /\ Len(c) = Len(a) + Len(b)
         /\ \A i \in 1..Len(a) : c[i] = a[i]
         /\ \A i \in 1..Len(b) : c[Len(a) + i] = b[i]
  BY CatPick, Zenon
<1>2. PICK q \in 0..2, ch \in BOOLEAN : HttpHeadsAt(req, job, c, q, ch)
  BY <1>1 DEF HttpHeads
<1>3. PICK l \in Nat : l = Len(a)
  BY SeqTypes
<1>4. PICK m \in Nat : m = Len(c) /\ l <= m
  <2>1. Len(b) \in Nat
    BY SeqTypes
  <2> QED
    BY <2>1, <1>1, <1>3
<1>5. job.line \in BOOLEAN
  BY HttpJobTypes
<1>6. /\ IF job.line THEN q < 2 ELSE q > 0 /\ (a # <<>> => a[1][1] = "status")
      /\ IF q = (IF job.line THEN 0 ELSE 1) THEN ch = job.chunked
         ELSE q <= l => a[q][1] = IF ch THEN "chunked" ELSE "length"
  <2>1. a # <<>> => c # <<>> /\ a[1] = c[1]
    <3>1. a # <<>> => l > 0 /\ m > 0 /\ 1 \in 1..l
      BY <1>3, <1>4, SeqTypes
    <3> QED
      BY <3>1, <1>1, <1>3, <1>4, SeqTypes
  <2>2. q <= l /\ q > 0 => q <= m /\ a[q] = c[q]
    <3>1. q <= l /\ q > 0 => q <= m /\ q \in 1..l
      BY <1>4
    <3> QED
      BY <3>1, <1>1, <1>3
  <2>3. /\ IF job.line THEN q < 2 ELSE q > 0 /\ (c # <<>> => c[1][1] = "status")
        /\ IF q = (IF job.line THEN 0 ELSE 1) THEN ch = job.chunked
           ELSE q <= m => c[q][1] = IF ch THEN "chunked" ELSE "length"
    BY <1>2, <1>4 DEF HttpHeadsAt
  <2> QED
    BY <2>1, <2>2, <2>3, <1>5
<1>7. (job.chunked => ch) /\ (ch => req.length = 0)
  BY <1>2 DEF HttpHeadsAt
<1>8. ASSUME q + 1 <= l
      PROVE  /\ a[q + 1] = HttpCrlf
             /\ LET status == IF job.line THEN job.status ELSE a[1][2]
                IN status \in {200, 206} => HttpBodyAt(a, q + 1, HttpFrom(job, status), ch)
  <2>1. q + 1 <= m /\ q + 1 \in 1..l /\ 1 \in 1..l /\ q + 1 \in Nat
    BY <1>4, <1>8
  <2>2. a[q + 1] = c[q + 1] /\ a[1] = c[1]
    BY <2>1, <1>1, <1>3
  <2>3. PICK status : status = IF job.line THEN job.status ELSE a[1][2]
    OBVIOUS
  <2>4. c[q + 1] = HttpCrlf /\ (status \in {200, 206} => HttpBodyAt(c, q + 1, HttpFrom(job, status), ch))
    BY <1>2, <1>4, <2>1, <2>2, <2>3 DEF HttpHeadsAt
  <2>5. status \in {200, 206} => HttpBodyAt(a, q + 1, HttpFrom(job, status), ch)
    <3>1. PICK f \in Nat : f = HttpFrom(job, status)
      BY HttpFromType
    <3>2. PICK p \in Nat : p = q + 1
      BY <2>1
    <3>3. status \in {200, 206} => HttpBodyAt(Cat(a, b), p, f, ch)
      BY <2>4, <3>1, <3>2, <1>1
    <3>4. status \in {200, 206} => HttpBodyAt(a, p, f, ch)
      BY <3>3, HttpBodyAtCut
    <3> QED
      BY <3>1, <3>2, <3>4
  <2> QED
    BY <2>2, <2>3, <2>4, <2>5
<1>9. HttpHeadsAt(req, job, a, q, ch)
  BY <1>3, <1>6, <1>7, <1>8 DEF HttpHeadsAt
<1> QED
  BY <1>9 DEF HttpHeads

\* The body is in its place when no more of it comes.
LEMMA HttpBodyCut ==
  ASSUME NEW req \in HttpReqs, NEW given \in Seq(HttpTokens), NEW f \in Nat, NEW left \in Seq(HttpTokens),
         HttpBody(req, given, f, left)
  PROVE  HttpBody(req, given, f, <<>>)
<1>1. PICK no \in Seq(HttpTokens) : no = <<>>
  BY HttpEmpty, Zenon
<1>2. req.chunk \in Nat /\ req.extra \in Seq(HttpTokens) /\ req.ptr.done \in Seq(HttpTokens) /\ req.ptr.rest \in Seq(HttpTokens)
  BY HttpReqTypes
<1>3. PICK rest \in Seq(HttpTokens) : rest = req.ptr.rest
  BY <1>2
<1>4. HttpPlain(req, given, f, left) => HttpPlain(req, given, f, no)
  <2>1. HttpGood(Cat(given, left), f) => HttpGood(Cat(given, no), f)
    <3>1. HttpGood(Cat(given, left), f) => HttpGood(given, f)
      BY HttpGoodCat
    <3>2. Cat(given, no) = given
      BY <1>1, CatEmpty
    <3> QED
      BY <3>1, <3>2
  <2> QED
    BY <2>1 DEF HttpPlain
<1>5. HttpBetween(req, given, f, left) => HttpBetween(req, given, f, no)
  <2>1. PICK extra \in Seq(HttpTokens) : extra = req.extra
    BY <1>2
  <2>2. PICK k \in Nat : k = f + Len(given)
    BY SeqTypes
  <2>3. PICK n \in Nat : n = req.chunk
    BY <1>2
  <2>4. HttpStream(Cat(extra, left), n, k) => HttpStream(extra, n, k)
    BY HttpStreamCut
  <2>5. Cat(extra, no) = extra
    BY <1>1, CatEmpty
  <2> QED
    BY <2>1, <2>2, <2>3, <2>4, <2>5 DEF HttpBetween
<1>6. HttpInLoop(req, given, f, left) => HttpInLoop(req, given, f, no)
  <2>1. PICK done \in Seq(HttpTokens) : done = Cat(given, req.ptr.done)
    BY <1>2, CatIs, Zenon
  <2>2. PICK k \in Nat : k = f + Len(done)
    BY SeqTypes
  <2>3. HttpStream(Cat(rest, left), 0, k) => HttpStream(Cat(rest, no), 0, k)
    <3>1. PICK z \in Nat : z = 0
      OBVIOUS
    <3>2. HttpStream(Cat(rest, left), z, k) => HttpStream(rest, z, k)
      BY HttpStreamCut
    <3>3. Cat(rest, no) = rest
      BY <1>1, CatEmpty
    <3> QED
      BY <3>1, <3>2, <3>3
  <2>4. HttpStream(no, req.chunk, k + Len(rest))
    <3>1. PICK m \in Nat : m = k + Len(rest)
      BY SeqTypes
    <3>2. PICK n \in Nat : n = req.chunk
      BY <1>2
    <3>3. HttpStream(<<>>, n, m)
      BY HttpOfNothing
    <3> QED
      BY <3>1, <3>2, <3>3, <1>1
  <2> HIDE <1>4, <1>5
  <2>5. SUFFICES ASSUME HttpInLoop(req, given, f, left) PROVE HttpInLoop(req, given, f, no)
    OBVIOUS
  <2>6. /\ HttpRun(done, f) /\ req.extra = <<>>
        /\ \/ req.chunk = 0 /\ HttpStuck(rest)
           \/ req.chunk = 0 /\ HttpStream(Cat(rest, left), 0, k)
           \/ req.chunk > 0 /\ HttpRun(rest, k) /\ HttpStream(left, req.chunk, k + Len(rest))
    BY <2>5, <2>1, <2>2, <1>3, Zenon DEF HttpInLoop
  <2>7. \/ req.chunk = 0 /\ HttpStuck(rest)
        \/ req.chunk = 0 /\ HttpStream(Cat(rest, no), 0, k)
        \/ req.chunk > 0 /\ HttpRun(rest, k) /\ HttpStream(no, req.chunk, k + Len(rest))
    BY <2>3, <2>4, <2>6
  <2> QED
    BY <2>6, <2>7, <2>1, <2>2, <1>3, Zenon DEF HttpInLoop
<1>7. HttpBody(req, given, f, no)
  BY <1>4, <1>5, <1>6 DEF HttpBody
<1> QED
  BY <1>1, <1>7

\* Nothing to read
LEMMA HttpNoNetIs == HttpNoNet \in HttpNets /\ HttpNoNet.left = <<>> /\ HttpNoNet.todo = <<>>
BY HttpNewTypes DEF HttpNoNet

\* The connection ends while the headers are waited for.
LEMMA HttpInHeadersCut ==
  ASSUME NEW req \in HttpReqs, NEW job \in HttpJobs, NEW net \in HttpNets, HttpInHeaders(req, job, net)
  PROVE  HttpInHeaders(req, job, HttpNoNet)
<1>1. PICK b \in Seq(HttpTokens) : b = req.rbuf.data
  BY HttpReqTypes
<1>2. PICK left \in Seq(HttpTokens) : left = net.left
  BY HttpNetTypes
<1>3. PICK non : non = HttpNoNet /\ non.left = <<>> /\ non.todo = <<>>
  BY HttpNoNetIs
<1>4. HttpStaleHeaders(req, job, net) => HttpStaleHeaders(req, job, non)
  BY <1>3 DEF HttpStaleHeaders
<1>5. HttpFreshHeaders(req, job, net) => HttpFreshHeaders(req, job, non)
  <2>1. HttpHeads(req, job, Cat(b, left)) => HttpHeads(req, job, b)
    BY HttpHeadsCut
  <2>2. Cat(b, non.left) = b
    BY <1>3, CatEmpty
  <2> QED
    BY <2>1, <2>2, <1>1, <1>2, <1>3 DEF HttpFreshHeaders
<1>6. HttpInHeaders(req, job, non)
  BY <1>3, <1>4, <1>5 DEF HttpInHeaders
<1> QED
  BY <1>3, <1>6

\* The connection ends while the size of the first chunk is waited for.
LEMMA HttpInSizeCut ==
  ASSUME NEW req \in HttpReqs, NEW job \in HttpJobs, NEW net \in HttpNets, HttpInSize(req, job, net)
  PROVE  HttpInSize(req, job, HttpNoNet)
<1>1. PICK b \in Seq(HttpTokens) : b = req.rbuf.data
  BY HttpReqTypes
<1>2. PICK left \in Seq(HttpTokens) : left = net.left
  BY HttpNetTypes
<1>3. PICK non : non = HttpNoNet /\ non.left = <<>> /\ non.todo = <<>>
  BY HttpNoNetIs
<1>4. PICK f \in Nat : f = HttpFrom(job, job.status)
  BY HttpFromType
<1>5. HttpSizeAt(Cat(b, left), 0, f) /\ HttpLaid(Cat(b, left)) => HttpSizeAt(b, 0, f) /\ HttpLaid(b)
  <2>1. PICK z \in Nat : z = 0
    OBVIOUS
  <2>2. HttpSizeAt(Cat(b, left), z, f) => HttpSizeAt(b, z, f)
    BY HttpFlowsCut
  <2>3. HttpLaid(Cat(b, left)) => HttpLaid(b)
    BY HttpLaidCut
  <2> QED
    BY <2>1, <2>2, <2>3
<1>6. Cat(b, non.left) = b
  BY <1>3, CatEmpty
<1>7. HttpInSize(req, job, non)
  BY <1>1, <1>2, <1>3, <1>4, <1>5, <1>6 DEF HttpInSize
<1> QED
  BY <1>3, <1>7

\* The connection ends while the body is waited for.
LEMMA HttpInBodyCut ==
  ASSUME NEW req \in HttpReqs, NEW job \in HttpJobs, NEW net \in HttpNets, HttpInBody(req, job, net)
  PROVE  HttpInBody(req, job, HttpNoNet)
<1>1. PICK non : non = HttpNoNet /\ non.left = <<>> /\ non.todo = <<>>
  BY HttpNoNetIs
<1>2. PICK given \in Seq(HttpTokens) : given = HttpGiven(req, job)
  BY HttpReqTypes, HttpJobTypes, CatIs, Zenon DEF HttpGiven
<1>3. PICK f \in Nat : f = job.first
  BY HttpJobTypes, HttpSizeAssumption
<1>4. PICK left \in Seq(HttpTokens) : left = net.left
  BY HttpNetTypes
<1>5. HttpBody(req, given, f, left)
  BY <1>2, <1>3, <1>4 DEF HttpInBody
<1>6. HttpBody(req, given, f, <<>>)
  BY <1>5, HttpBodyCut
<1>7. HttpInBody(req, job, non)
  BY <1>1, <1>2, <1>3, <1>6 DEF HttpInBody
<1> QED
  BY <1>1, <1>7

\* A connection that ends leaves all in its place.
LEMMA HttpOrderlyCut ==
  ASSUME NEW req \in HttpReqs, NEW job \in HttpJobs, NEW net \in HttpNets, HttpOrderly(req, job, net)
  PROVE  HttpOrderly(req, job, HttpNoNet)
BY HttpInHeadersCut, HttpInSizeCut, HttpInBodyCut DEF HttpOrderly

\* Whatever comes of a call that is over
LEMMA HttpOverOrderly ==
  ASSUME NEW o, HttpOver(o), NEW net
  PROVE  HttpOrderly(o.req, o.job, net)
BY DEF HttpOver, HttpOrderly

\* A step that ends in o and leaves net to be sent
LEMMA HttpApplyOrderly ==
  ASSUME NEW o \in HttpOuts, NEW net \in HttpNets, HttpApplyWith(o, net), HttpOrderly(o.req, o.job, net)
  PROVE  HttpOrderly(httpReq, httpJob, httpNet)'
<1>1. o.req \in HttpReqs /\ o.job \in HttpJobs
  BY DEF HttpOuts
<1>2. HttpOrderly(o.req, o.job, HttpNoNet)
  BY <1>1, HttpOrderlyCut
<1>3. httpReq' = o.req /\ httpJob' = o.job /\ (httpNet' = net \/ httpNet' = HttpNoNet)
  BY DEF HttpApplyWith
<1>4. HttpOrderly(httpReq', httpJob', httpNet')
  BY <1>2, <1>3
<1> QED
  BY <1>4

\* A response is told apart from others to the end of its call.
HttpKeeps(o, job) == HttpOver(o) \/ (o.job.clean = job.clean /\ o.job.op = job.op)

\* The end of the headers keeps the operation.
LEMMA HttpHeadersKeep ==
  ASSUME NEW req \in HttpReqs, NEW job \in HttpJobs, ~req.ptr.on
  PROVE  HttpKeeps(HttpHeaders(req, job), job)
<1> DEFINE o == HttpHeaders(req, job)
<1>1. /\ job.chunked =>
                 /\ o \in HttpOuts /\ o.req = req /\ o.job \in HttpJobs /\ o.job.at = "size"
                 /\ o.job.op = job.op /\ o.job.start = job.start /\ o.job.first = job.first /\ o.job.status = job.status
                 /\ o.job.got = job.got /\ o.job.clean = job.clean /\ o.job.chunked = job.chunked
      /\ ~job.chunked =>
                 \/ HttpOver(o)
                 \/ \E r \in HttpReqs :
                      /\ HttpBegins(o, r, job)
                      /\ r.ptr = req.ptr /\ r.rbuf = req.rbuf /\ r.extra = req.extra /\ r.chunk = req.chunk
                      /\ r.length = req.length /\ r.chunked = FALSE /\ r.eof = req.eof
  BY HttpHeadersIs, Zenon
<1> HIDE DEF o
<1>2. HttpKeeps(o, job)
  BY <1>1 DEF HttpBegins, HttpKeeps
<1> QED
  BY <1>2 DEF o

\* A line that was read keeps the operation.
LEMMA HttpTakeLineKeeps ==
  ASSUME NEW req \in HttpReqs, NEW job \in HttpJobs, NEW h \in HttpTokens, job.at \in {"headers", "size", "list"},
         ~req.ptr.on
  PROVE  HttpKeeps(HttpTakeLine(req, job, h), job)
<1>1. PICK o : o = HttpTakeLine(req, job, h)
  OBVIOUS
<1>2. \/ job.at = "headers" /\ h = HttpCrlf /\ o = HttpHeaders(req, job)
      \/ job.at = "headers" /\ h # HttpCrlf /\ o = HttpHeader(req, job, h)
      \/ job.at = "size" /\ h[1] = "size" /\ o = HttpFirstChunk(req, job, h[2])
      \/ job.at = "size" /\ h[1] # "size" /\ o = HttpWrong(req, job)
      \/ job.at = "list" /\ o = HttpEntry(req, job, h)
  BY <1>1, HttpTakeLineCases
<1>3. CASE o = HttpHeaders(req, job)
  BY <1>1, <1>3, HttpHeadersKeep
<1>4. CASE o = HttpHeader(req, job, h)
  BY <1>1, <1>4, HttpHeaderIs DEF HttpKeeps
<1>5. CASE o = HttpFirstChunk(req, job, h[2])
  <2>1. PICK n \in Nat : n = h[2]
    BY HttpTokenTypes
  <2>2. HttpOver(HttpFirstChunk(req, job, n)) \/ \E r \in HttpReqs : HttpBegins(HttpFirstChunk(req, job, n), r, job)
    BY HttpFirstChunkIs, Zenon
  <2> QED
    BY <2>1, <2>2, <1>1, <1>5 DEF HttpKeeps, HttpBegins
<1>6. CASE o = HttpWrong(req, job)
  BY <1>1, <1>6, HttpWrongIs DEF HttpKeeps
<1>7. CASE o = HttpEntry(req, job, h)
  BY <1>1, <1>7, HttpEntryIs DEF HttpKeeps
<1> QED
  BY <1>2, <1>3, <1>4, <1>5, <1>6, <1>7

\* The end of the lines keeps the operation.
LEMMA HttpNoLineKeeps ==
  ASSUME NEW req \in HttpReqs, NEW job \in HttpJobs, job.at \in {"headers", "size", "list"}, ~req.ptr.on
  PROVE  HttpKeeps(HttpNoLine(req, job), job)
<1> DEFINE o == HttpNoLine(req, job)
<1>1. \/ HttpOver(o)
      \/ \E r \in HttpReqs :
           /\ r.ptr = req.ptr /\ r.rbuf = HttpNoBuf /\ r.extra = req.extra /\ r.chunk = req.chunk
           /\ r.length = req.length /\ r.chunked = req.chunked /\ r.eof = req.eof
           /\ job.at = "headers"
           /\ \/ job.line /\ o = HttpOut(r, job)
              \/ ~job.line /\ o = HttpHeaders(r, job)
  BY HttpNoLineIs
<1> HIDE DEF o
<1>2. CASE HttpOver(o)
  BY <1>2 DEF o, HttpKeeps
<1>3. ASSUME NEW r \in HttpReqs, r.ptr = req.ptr, o = HttpOut(r, job) PROVE HttpKeeps(o, job)
  BY <1>3, HttpOutIs DEF HttpKeeps
<1>4. ASSUME NEW r \in HttpReqs, r.ptr = req.ptr, o = HttpHeaders(r, job) PROVE HttpKeeps(o, job)
  BY <1>4, HttpHeadersKeep
<1>5. HttpKeeps(o, job)
  BY <1>1, <1>2, <1>3, <1>4 DEF HttpKeeps
<1> QED
  BY <1>5 DEF o

\* A read that is over, or goes on, keeps the operation.
LEMMA HttpGotKeeps ==
  ASSUME NEW result \in HttpResults, NEW job \in HttpJobs, job.at # "none", result.res # "again" => ~result.req.ptr.on
  PROVE  HttpKeeps(HttpGot(result, job), job)
<1>1. PICK o : o = HttpGot(result, job)
  OBVIOUS
<1>2. PICK req \in HttpReqs : req = result.req
  BY DEF HttpResults
<1>3. PICK data \in Seq(HttpTokens) : data = result.data
  BY DEF HttpResults
<1>4. \/ result.res = "again" /\ o = HttpOut(req, job)
      \/ result.res = "fatal" /\ o = HttpReturn(req, job, "fatal")
      \/ result.res = "data" /\ job.at = "body" /\ o = HttpGive(req, job, data)
      \/ result.res = "data" /\ job.at # "body" /\ o = HttpFill(req, job, data)
  BY <1>1, <1>2, <1>3, HttpGotCases
<1>5. CASE o = HttpOut(req, job)
  BY <1>1, <1>5, HttpOutIs DEF HttpKeeps
<1>6. CASE result.res = "fatal" /\ o = HttpReturn(req, job, "fatal")
  BY <1>1, <1>2, <1>6, HttpReturnIs DEF HttpKeeps
<1>7. CASE result.res = "data" /\ o = HttpGive(req, job, data)
  <2>1. HttpOver(o) \/ (o.job.op = job.op /\ o.job.clean = job.clean)
    BY <1>2, <1>7, HttpGiveIs
  <2> QED
    BY <2>1, <1>1 DEF HttpKeeps
<1>8. CASE result.res = "data" /\ job.at # "body" /\ o = HttpFill(req, job, data)
  <2>1. o.job = job \/ o = HttpNoLine(req, job)
    BY <1>8, HttpFillIs
  <2>2. job.at \in {"headers", "size", "list"} /\ ~req.ptr.on
    BY <1>2, <1>8, HttpJobTypes DEF HttpAts
  <2>3. HttpKeeps(HttpNoLine(req, job), job)
    BY <2>2, HttpNoLineKeeps
  <2> QED
    BY <2>1, <2>3, <1>1 DEF HttpKeeps
<1> QED
  BY <1>4, <1>5, <1>6, <1>7, <1>8

\* Where a response is not told apart, nothing is said of it.
HttpTold(job) == job.clean /\ job.op # "head"

\* Nothing is promised of a response that found the rest of another.
LEMMA HttpUntold ==
  ASSUME NEW o, NEW job, HttpKeeps(o, job), ~HttpTold(job), NEW net
  PROVE  HttpOrderly(o.req, o.job, net)
BY HttpOverOrderly, Zenon DEF HttpKeeps, HttpTold, HttpOrderly

\* In the body, the order is that of the body.
LEMMA HttpInBodyOrderly ==
  ASSUME NEW o, NEW net, HttpOver(o) \/ (o.job.at \in {"body", "list"} /\ HttpInBody(o.req, o.job, net))
  PROVE  HttpOrderly(o.req, o.job, net)
BY HttpOverOrderly DEF HttpOrderly

-----------------------------------------------------------------------------
(* The loop over the chunk headers                                         *)

\* A pass of the loop leaves the line buffer as it is.
HttpSpares(o, req) == o.req.rbuf = req.rbuf /\ (o.res # "again" => o.req.ptr = HttpNoPtr)

\* A return of rfc2068_chunked_read() spares the line buffer.
LEMMA HttpDoneSpares ==
  ASSUME NEW req \in HttpReqs, NEW data
  PROVE  HttpSpares(HttpDone(req, data), req)
BY Zenon DEF HttpSpares, HttpDone, HttpResult, HttpReqs

\* Giving up spares the line buffer.
LEMMA HttpGivesUpSpares ==
  ASSUME NEW req \in HttpReqs
  PROVE  HttpSpares(HttpGivesUp(req), req)
BY Zenon DEF HttpSpares, HttpGivesUp, HttpResult, HttpReqs

\* A further pass spares the line buffer.
LEMMA HttpLoopsSpares ==
  ASSUME NEW req \in HttpReqs, NEW done, NEW rest
  PROVE  HttpSpares(HttpLoops(req, done, rest), req)
BY DEF HttpSpares, HttpLoops, HttpResult, HttpReqs

\* Keeping half a header spares the line buffer.
LEMMA HttpSaveSpares ==
  ASSUME NEW req \in HttpReqs, NEW done \in Seq(HttpTokens), NEW rest \in Seq(HttpTokens)
  PROVE  HttpSpares(HttpSave(req, done, rest), req)
<1>1. PICK r \in HttpReqs : r = [req EXCEPT !.extra = rest]
  BY HttpReqSet, Zenon
<1>2. r.rbuf = req.rbuf
  BY <1>1 DEF HttpReqs
<1>3. CASE done # <<>>
  <2>1. HttpSave(req, done, rest) = HttpDone(r, done)
    BY <1>1, <1>3 DEF HttpSave
  <2> QED
    BY <2>1, <1>2, HttpDoneSpares DEF HttpSpares
<1>4. CASE done = <<>> /\ req.leak + req.depth + 1 > 2
  <2>1. HttpSave(req, done, rest) = HttpGivesUp(r)
    BY <1>1, <1>4 DEF HttpSave
  <2> QED
    BY <2>1, <1>2, HttpGivesUpSpares DEF HttpSpares
<1>5. CASE done = <<>> /\ ~(req.leak + req.depth + 1 > 2)
  <2>1. PICK q : q = [r EXCEPT !.depth = @ + 1, !.ptr = HttpNoPtr]
    OBVIOUS
  <2>2. q.rbuf = r.rbuf
    BY <2>1 DEF HttpReqs
  <2>3. HttpSave(req, done, rest) = HttpResult(q, "again", <<>>)
    BY <1>1, <1>5, <2>1 DEF HttpSave
  <2> QED
    BY <2>2, <2>3, <1>2 DEF HttpSpares, HttpResult
<1> QED
  BY <1>3, <1>4, <1>5

\* A pass of the loop over the chunk headers spares the line buffer.
LEMMA HttpUnchunkSpares ==
  ASSUME NEW req \in HttpReqs
  PROVE  HttpSpares(HttpUnchunk(req), req)
<1>1. PICK done \in Seq(HttpTokens) : done = req.ptr.done
  BY HttpReqTypes
<1>2. PICK rest \in Seq(HttpTokens) : rest = req.ptr.rest
  BY HttpReqTypes
<1> DEFINE o == HttpUnchunk(req)
<1>3. \/ o = HttpDone(req, Cat(done, rest))
      \/ o = HttpSave(req, done, rest)
      \/ o = HttpGivesUp(req)
      \/ HttpSized(rest) /\ o = HttpLastChunk(req, done, rest)
      \/ HttpSized(rest) /\ o = HttpChunk(req, done, rest[2][2], Drop(rest, 3))
  BY <1>1, <1>2, HttpUnchunkCases
<1> HIDE DEF o
<1> SUFFICES HttpSpares(o, req)
  BY DEF o
<1>4. CASE o = HttpDone(req, Cat(done, rest))
  BY <1>4, HttpDoneSpares
<1>5. CASE o = HttpSave(req, done, rest)
  BY <1>5, HttpSaveSpares
<1>6. CASE o = HttpGivesUp(req)
  BY <1>6, HttpGivesUpSpares
<1>7. CASE HttpSized(rest) /\ o = HttpLastChunk(req, done, rest)
  <2>1. Len(rest) > 2
    BY <1>7 DEF HttpSized
  <2> DEFINE c == HttpLastChunk(req, done, rest)
  <2>2. /\ c \in HttpResults /\ c.res = "data" /\ c.req \in HttpReqs
        /\ req.eof => c.data = <<>>
        /\ ~req.eof => c.data = Cat(done, Take(rest, Len(rest) - 3))
        /\ c.req.ptr = HttpNoPtr /\ c.req.rbuf = req.rbuf /\ c.req.extra = req.extra /\ c.req.chunk = req.chunk
        /\ c.req.length = req.length /\ c.req.chunked = req.chunked /\ c.req.eof = TRUE
    BY <2>1, HttpLastChunkIs, Zenon
  <2> HIDE DEF c
  <2>3. HttpSpares(c, req)
    BY <2>2 DEF HttpSpares
  <2> QED
    BY <2>3, <1>7 DEF c
<1>8. CASE HttpSized(rest) /\ o = HttpChunk(req, done, rest[2][2], Drop(rest, 3))
  <2>1. PICK n \in Nat : n = rest[2][2]
    BY <1>8, HttpSizedIs
  <2>2. PICK tail \in Seq(HttpTokens) : tail = Drop(rest, 3)
    BY <1>8, HttpSizedIs
  <2>3. o = HttpChunk(req, done, n, tail)
    BY <1>8, <2>1, <2>2
  <2> DEFINE c == HttpChunk(req, done, n, tail)
  <2>4. /\ c \in HttpResults /\ c.res = "again" /\ c.req \in HttpReqs
        /\ c.req.ptr.on /\ c.req.rbuf = req.rbuf /\ c.req.extra = req.extra
        /\ c.req.length = req.length /\ c.req.chunked = req.chunked /\ c.req.eof = req.eof
        /\ n < Len(tail) => /\ c.req.ptr.done = Cat(done, Take(tail, n))
                            /\ c.req.ptr.rest = Drop(tail, n) /\ c.req.chunk = req.chunk
        /\ ~(n < Len(tail)) => /\ c.req.ptr.done = done /\ c.req.ptr.rest = tail /\ c.req.chunk = n - Len(tail)
    BY HttpChunkIs
  <2> HIDE DEF c
  <2>5. HttpSpares(c, req)
    BY <2>4 DEF HttpSpares
  <2> QED
    BY <2>3, <2>5 DEF c
<1> QED
  BY <1>3, <1>4, <1>5, <1>6, <1>7, <1>8

\* The headers that are told apart are in a response whose status is not known yet.
LEMMA HttpNoStatus ==
  ASSUME NEW req \in HttpReqs, NEW job \in HttpJobs, job.at = "headers", ~req.ptr.on, ~job.line, job.status = 0,
         ~job.chunked
  PROVE  HttpOver(HttpHeaders(req, job)) /\ HttpOver(HttpNoLine(req, job))
<1>1. ASSUME NEW r \in HttpReqs, ~r.ptr.on PROVE HttpOver(HttpHeaders(r, job))
  <2> DEFINE o == HttpHeaders(r, job)
  <2>1. /\ job.chunked =>
                 /\ o \in HttpOuts /\ o.req = r /\ o.job \in HttpJobs /\ o.job.at = "size"
                 /\ o.job.op = job.op /\ o.job.start = job.start /\ o.job.first = job.first /\ o.job.status = job.status
                 /\ o.job.got = job.got /\ o.job.clean = job.clean /\ o.job.chunked = job.chunked
        /\ ~job.chunked =>
                 \/ HttpOver(o)
                 \/ \E s \in HttpReqs :
                      /\ HttpBegins(o, s, job)
                      /\ s.ptr = r.ptr /\ s.rbuf = r.rbuf /\ s.extra = r.extra /\ s.chunk = r.chunk
                      /\ s.length = r.length /\ s.chunked = FALSE /\ s.eof = r.eof
    BY <1>1, HttpHeadersIs, Zenon
  <2> HIDE DEF o
  <2>2. HttpOver(o)
    BY <2>1 DEF HttpBegins
  <2> QED
    BY <2>2 DEF o
<1> DEFINE o == HttpNoLine(req, job)
<1>2. \/ HttpOver(o)
      \/ \E r \in HttpReqs :
           /\ r.ptr = req.ptr /\ r.rbuf = HttpNoBuf /\ r.extra = req.extra /\ r.chunk = req.chunk
           /\ r.length = req.length /\ r.chunked = req.chunked /\ r.eof = req.eof
           /\ job.at = "headers"
           /\ \/ job.line /\ o = HttpOut(r, job)
              \/ ~job.line /\ o = HttpHeaders(r, job)
  BY HttpNoLineIs
<1> HIDE DEF o
<1>3. HttpOver(o)
  BY <1>1, <1>2
<1> QED
  BY <1>1, <1>3 DEF o

\* The loop finds no chunk header in what is left of the last response's framing, and keeps it for the next call
\* of itself, or it finds nothing at all.
LEMMA HttpStuckLoop ==
  ASSUME NEW req \in HttpReqs, req.ptr.on, req.chunk = 0, req.ptr.done = <<>>,
         req.ptr.rest # <<>> => HttpStuck(req.ptr.rest)
  PROVE  LET o == HttpUnchunk(req)
         IN /\ o \in HttpResults
            /\ \/ o.res = "fatal"
               \/ o.res = "data" /\ o.data = <<>> /\ ~o.req.ptr.on
               \/ /\ o.res = "again" /\ o.req \in HttpReqs /\ o.req.ptr = HttpNoPtr
                  /\ o.req.extra # <<>> /\ HttpStuck(o.req.extra) /\ o.req.chunk = 0
                  /\ o.req.chunked = req.chunked /\ o.req.eof = req.eof
<1>1. PICK done \in Seq(HttpTokens) : done = req.ptr.done /\ done = <<>>
  BY HttpReqTypes
<1>2. PICK rest \in Seq(HttpTokens) : rest = req.ptr.rest
  BY HttpReqTypes
<1> DEFINE o == HttpUnchunk(req)
<1>3. \/ rest = <<>> /\ o = HttpDone(req, Cat(done, rest))
      \/ rest # <<>> /\ o = HttpSave(req, done, rest)
      \/ HttpWhole(rest)
  BY <1>1, <1>2, HttpUnchunkCases
<1>4. o \in HttpResults
  BY HttpUnchunkTypes
<1> HIDE DEF o
<1> SUFFICES \/ o.res = "fatal"
             \/ o.res = "data" /\ o.data = <<>> /\ ~o.req.ptr.on
             \/ /\ o.res = "again" /\ o.req \in HttpReqs /\ o.req.ptr = HttpNoPtr
                /\ o.req.extra # <<>> /\ HttpStuck(o.req.extra) /\ o.req.chunk = 0
                /\ o.req.chunked = req.chunked /\ o.req.eof = req.eof
  BY <1>4 DEF o
<1>5. CASE rest = <<>> /\ o = HttpDone(req, Cat(done, rest))
  <2>1. PICK d \in Seq(HttpTokens) : d = Cat(done, rest) /\ d = <<>>
    BY <1>1, <1>5, CatEmpty, HttpEmpty, Zenon
  <2>2. o.res = "data" /\ o.data = d /\ o.req.ptr = HttpNoPtr
    BY <2>1, <1>5, HttpDoneIs, ZenonT(60)
  <2> QED
    BY <2>1, <2>2, HttpNone
<1>6. CASE rest # <<>> /\ o = HttpSave(req, done, rest)
  <2>1. /\ o.req \in HttpReqs /\ o.req.ptr = HttpNoPtr
        /\ \/ o.res = "fatal"
           \/ /\ o.res = IF done # <<>> THEN "data" ELSE "again"
              /\ o.data = done
              /\ o.req.extra = rest /\ o.req.chunk = req.chunk
              /\ o.req.length = req.length /\ o.req.chunked = req.chunked /\ o.req.eof = req.eof
    BY <1>6, HttpSaveIs
  <2> QED
    BY <2>1, <1>1, <1>2, <1>6
<1>7. ~HttpWhole(rest)
  BY <1>2 DEF HttpWhole, HttpStuck
<1> QED
  BY <1>3, <1>5, <1>6, <1>7

\* In the headers, the loop goes on looking, or the call is over.
LEMMA HttpStaleGot ==
  ASSUME NEW result \in HttpResults, NEW req \in HttpReqs, NEW job \in HttpJobs, NEW net \in HttpNets,
         job.at = "headers", HttpInHeaders(req, job, net), req.chunked = TRUE, req.ptr.on,
         result = HttpUnchunk(req)
  PROVE  HttpOrderly(HttpGot(result, job).req, HttpGot(result, job).job, net)
<1>1. /\ job.got = <<>> /\ job.first = 0 /\ req.chunk = 0 /\ ~req.eof /\ req.ptr.done = <<>>
      /\ (req.rbuf.eof => req.rbuf.data = <<>>)
      /\ ~job.line /\ job.status = 0 /\ ~job.chunked /\ net.todo = <<>>
      /\ HttpStaleHeaders(req, job, net)
  BY DEF HttpInHeaders, HttpStaleHeaders
<1>2. req.rbuf.data = <<>> /\ (req.ptr.rest # <<>> => HttpStuck(req.ptr.rest))
  BY <1>1 DEF HttpStaleHeaders
<1> DEFINE u == HttpUnchunk(req)
<1>3. /\ u \in HttpResults
      /\ \/ u.res = "fatal"
         \/ u.res = "data" /\ u.data = <<>> /\ ~u.req.ptr.on
         \/ /\ u.res = "again" /\ u.req \in HttpReqs /\ u.req.ptr = HttpNoPtr
            /\ u.req.extra # <<>> /\ HttpStuck(u.req.extra) /\ u.req.chunk = 0
            /\ u.req.chunked = req.chunked /\ u.req.eof = req.eof
  BY <1>1, <1>2, HttpStuckLoop
<1> HIDE DEF u
<1>4. result = u
  BY DEF u
<1>5. HttpSpares(result, req)
  BY HttpUnchunkSpares
<1>6. PICK r \in HttpReqs : r = result.req
  BY DEF HttpResults
<1>7. r.rbuf.data = <<>> /\ r.rbuf.eof = req.rbuf.eof /\ (result.res # "again" => ~r.ptr.on)
  BY <1>2, <1>5, <1>6, HttpNone DEF HttpSpares
<1>8. PICK o : o = HttpGot(result, job)
  OBVIOUS
<1>9. \/ result.res = "again" /\ o = HttpOut(r, job)
      \/ result.res = "fatal" /\ o = HttpReturn(r, job, "fatal")
      \/ result.res = "data" /\ o = HttpFill(r, job, result.data)
  BY <1>6, <1>8, HttpGotCases
<1>10. CASE result.res = "again" /\ o = HttpOut(r, job)
  <2>1. o.req = r /\ o.job = job
    BY <1>10, HttpOutIs
  <2>2. /\ r.ptr = HttpNoPtr /\ r.extra # <<>> /\ HttpStuck(r.extra) /\ r.chunk = 0
        /\ r.chunked = TRUE /\ ~r.eof
    BY <1>1, <1>3, <1>4, <1>6, <1>10
  <2>3. HttpStaleHeaders(r, job, net)
    BY <2>2, <1>1, <1>7, HttpNone DEF HttpStaleHeaders
  <2>4. HttpInHeaders(r, job, net)
    BY <2>2, <2>3, <1>1, <1>7, HttpNone DEF HttpInHeaders
  <2>5. HttpOrderly(r, job, net)
    BY <2>4 DEF HttpOrderly
  <2> QED
    BY <2>1, <2>5, <1>8
<1>11. CASE result.res = "fatal" /\ o = HttpReturn(r, job, "fatal")
  <2>1. HttpOver(o)
    BY <1>7, <1>11, HttpReturnIs
  <2> QED
    BY <2>1, <1>8, HttpOverOrderly
<1>12. CASE result.res = "data" /\ o = HttpFill(r, job, result.data)
  <2>1. PICK e \in Seq(HttpTokens) : e = result.data /\ e = <<>>
    BY <1>3, <1>4, <1>12, HttpEmpty, Zenon
  <2>2. o = HttpNoLine(r, job)
    BY <2>1, <1>7, <1>12, HttpFillIs, Zenon
  <2>3. HttpOver(o)
    BY <2>2, <1>1, <1>7, <1>12, HttpNoStatus, Zenon
  <2> QED
    BY <2>3, <1>8, HttpOverOrderly
<1> QED
  BY <1>9, <1>10, <1>11, <1>12

\* Its second part: every token of a clean response is in its place.
HttpPlaced == HttpOrderly(httpReq, httpJob, httpNet)

\* A pass of the loop over the chunk headers keeps every token in its place.
LEMMA HttpLoopOrderly ==
  ASSUME HttpTyped, HttpPlaced, HttpLoop
  PROVE  HttpPlaced'
<1>1. /\ httpReq \in HttpReqs /\ httpJob \in HttpJobs /\ httpNet \in HttpNets /\ httpReq.ptr.on
      /\ httpJob.at # "none"
  BY DEF HttpTyped, HttpTypeOK, HttpIdle, HttpLoop
<1>2. PICK result : result = HttpUnchunk(httpReq)
  OBVIOUS
<1>3. result \in HttpResults /\ (result.res # "again" => ~result.req.ptr.on)
  BY <1>1, <1>2, HttpUnchunkTypes
<1>4. HttpSpares(result, httpReq)
  BY <1>1, <1>2, HttpUnchunkSpares
<1>5. PICK o : o = HttpGot(result, httpJob)
  OBVIOUS
<1>6. o \in HttpOuts
  BY <1>1, <1>3, <1>5, HttpGotTypes
<1>7. HttpApplyWith(o, httpNet)
  BY <1>2, <1>5 DEF HttpLoop, HttpApply
<1>8. HttpOrderly(o.req, o.job, httpNet)
  <2>1. CASE ~HttpTold(httpJob)
    <3>1. HttpKeeps(o, httpJob)
      BY <1>1, <1>3, <1>5, HttpGotKeeps
    <3> QED
      BY <2>1, <3>1, HttpUntold
  <2>2. CASE HttpTold(httpJob) /\ httpJob.at = "headers"
    <3>1. HttpInHeaders(httpReq, httpJob, httpNet)
      BY <2>2 DEF HttpPlaced, HttpOrderly, HttpTold
    <3>2. httpReq.chunked = TRUE
      BY <3>1, <1>1, HttpReqTypes DEF HttpInHeaders, HttpFreshHeaders
    <3>3. HttpOrderly(HttpGot(result, httpJob).req, HttpGot(result, httpJob).job, httpNet)
      BY <2>2, <3>1, <3>2, <1>1, <1>2, <1>3, HttpStaleGot, Zenon
    <3> QED
      BY <3>3, <1>5
  <2>3. CASE HttpTold(httpJob) /\ httpJob.at = "size"
    BY <2>3, <1>1 DEF HttpPlaced, HttpOrderly, HttpTold, HttpInSize
  <2>4. CASE HttpTold(httpJob) /\ httpJob.at \in {"body", "list"}
    <3>1. HttpInBody(httpReq, httpJob, httpNet)
      BY <2>4 DEF HttpPlaced, HttpOrderly, HttpTold
    <3>2. PICK given \in Seq(HttpTokens) : given = HttpGiven(httpReq, httpJob)
      BY <1>1, HttpReqTypes, HttpJobTypes, CatIs, Zenon DEF HttpGiven
    <3>3. PICK f \in Nat : f = httpJob.first
      BY <1>1, HttpJobTypes, HttpSizeAssumption
    <3>4. PICK left \in Seq(HttpTokens) : left = httpNet.left
      BY <1>1, HttpNetTypes
    <3>5. HttpBody(httpReq, given, f, left) /\ httpNet.todo = <<>>
          /\ (httpJob.at = "body" => httpReq.rbuf.data = <<>>)
      BY <3>1, <3>2, <3>3, <3>4, <1>1 DEF HttpInBody
    <3>6. /\ result.res = "again" => HttpBody(result.req, given, f, left)
          /\ result.res = "data" => HttpBody(result.req, Cat(given, result.data), f, left)
      BY <3>5, <1>1, <1>2, HttpLoopsBody
    <3>7. given = Cat(httpJob.got, result.req.rbuf.data)
      BY <3>2, <1>4 DEF HttpGiven, HttpSpares
    <3>8. HttpOver(o) \/ (o.job.at = httpJob.at /\ HttpInBody(o.req, o.job, httpNet))
      <4>1. result.res # "again" => result.req.ptr = HttpNoPtr
        BY <1>4 DEF HttpSpares
      <4>2. httpJob.at = "body" => result.req.rbuf.data = <<>>
        BY <3>5, <1>4 DEF HttpSpares
      <4> DEFINE g == HttpGot(result, httpJob)
      <4>3. HttpOver(g) \/ (g.job.at = httpJob.at /\ HttpInBody(g.req, g.job, httpNet))
        BY <4>1, <4>2, <2>4, <3>3, <3>4, <3>5, <3>6, <3>7, <1>1, <1>3, HttpGotBody
      <4> HIDE DEF g
      <4> QED
        BY <4>3, <1>5 DEF g
    <3> QED
      BY <3>8, <2>4, HttpInBodyOrderly, Zenon
  <2> QED
    BY <2>1, <2>2, <2>3, <2>4, <1>1, HttpJobTypes DEF HttpAts
<1> QED
  BY <1>1, <1>6, <1>7, <1>8, HttpApplyOrderly DEF HttpPlaced

\* Delivering the rest of the line buffer keeps every token in its place.
LEMMA HttpFromBufferOrderly ==
  ASSUME HttpTyped, HttpPlaced, HttpFromBuffer
  PROVE  HttpPlaced'
<1>1. HttpTypeOK /\ httpReq \in HttpReqs /\ httpJob \in HttpJobs /\ httpNet \in HttpNets
  BY DEF HttpTyped, HttpTypeOK
<1>2. httpJob.at = "body" /\ ~httpReq.ptr.on
  BY <1>1, HttpFromBufferCases
<1>3. PICK r \in HttpReqs :
        HttpNoBuffer(r, httpReq) /\ HttpApplyWith(HttpGive(r, httpJob, httpReq.rbuf.data), httpNet)
  BY <1>1, HttpFromBufferCases
<1>4. PICK data \in Seq(HttpTokens) : data = httpReq.rbuf.data
  BY <1>1, HttpReqTypes
<1>5. PICK got \in Seq(HttpTokens) : got = httpJob.got
  BY <1>1, HttpJobTypes
<1>6. PICK o : o = HttpGive(r, httpJob, data)
  OBVIOUS
<1>7. \/ HttpOver(o)
      \/ /\ o \in HttpOuts /\ o.req = r /\ o.job \in HttpJobs
         /\ o.job.at = httpJob.at /\ o.job.op = httpJob.op /\ o.job.start = httpJob.start /\ o.job.first = httpJob.first
         /\ o.job.clean = httpJob.clean /\ o.job.got = Cat(httpJob.got, data)
  BY <1>1, <1>2, <1>3, <1>6, HttpGiveIs DEF HttpNoBuffer
<1>8. o \in HttpOuts
  BY <1>7 DEF HttpOver
<1>9. HttpOrderly(o.req, o.job, httpNet)
  <2>1. CASE HttpOver(o)
    BY <2>1, HttpOverOrderly
  <2>2. CASE /\ o \in HttpOuts /\ o.req = r /\ o.job \in HttpJobs
             /\ o.job.at = httpJob.at /\ o.job.op = httpJob.op /\ o.job.start = httpJob.start
             /\ o.job.first = httpJob.first /\ o.job.clean = httpJob.clean /\ o.job.got = Cat(httpJob.got, data)
    <3>1. CASE ~HttpTold(httpJob)
      <4>1. HttpKeeps(o, httpJob)
        BY <2>2 DEF HttpKeeps
      <4> QED
        BY <3>1, <4>1, HttpUntold
    <3>2. CASE HttpTold(httpJob)
      <4>1. HttpInBody(httpReq, httpJob, httpNet)
        BY <1>2, <3>2 DEF HttpPlaced, HttpOrderly, HttpTold
      <4>2. HttpBody(httpReq, Cat(got, data), httpJob.first, httpNet.left) /\ httpNet.todo = <<>>
        BY <4>1, <1>4, <1>5 DEF HttpInBody, HttpGiven
      <4>3. r.rbuf.data = <<>> /\ r.ptr = httpReq.ptr
        BY <1>3, HttpNone DEF HttpNoBuffer
      <4>4. HttpBody(r, Cat(got, data), httpJob.first, httpNet.left)
        BY <4>2, <1>3, HttpBodySame DEF HttpNoBuffer
      <4>5. Cat(Cat(got, data), <<>>) = Cat(got, data)
        <5>1. PICK c \in Seq(HttpTokens) : c = Cat(got, data)
          BY CatIs
        <5> QED
          BY <5>1, CatEmpty
      <4>6. HttpGiven(o.req, o.job) = Cat(got, data)
        BY <2>2, <4>3, <4>5, <1>5 DEF HttpGiven
      <4>7. HttpInBody(o.req, o.job, httpNet)
        BY <2>2, <4>2, <4>3, <4>4, <4>6 DEF HttpInBody
      <4> QED
        BY <2>2, <4>7, <1>2, HttpInBodyOrderly, Zenon
    <3> QED
      BY <3>1, <3>2
  <2> QED
    BY <2>1, <2>2, <1>7
<1>10. HttpApplyWith(o, httpNet)
  BY <1>3, <1>4, <1>6
<1> QED
  BY <1>1, <1>8, <1>9, <1>10, HttpApplyOrderly DEF HttpPlaced

\* A step that ends the call
LEMMA HttpEndsOrderly ==
  ASSUME HttpTyped, \E o \in HttpOuts : HttpOver(o) /\ HttpApplyWith(o, httpNet)
  PROVE  HttpPlaced'
<1>1. PICK o \in HttpOuts : HttpOver(o) /\ HttpApplyWith(o, httpNet)
  OBVIOUS
<1>2. httpNet \in HttpNets
  BY DEF HttpTyped, HttpTypeOK
<1>3. HttpOrderly(o.req, o.job, httpNet)
  BY <1>1, HttpOverOrderly
<1> QED
  BY <1>1, <1>2, <1>3, HttpApplyOrderly DEF HttpPlaced

\* A call that fails or is over, and one that resets the request, leave nothing to be in its place.
LEMMA HttpBreaksOrderly ==
  ASSUME HttpTyped, HttpBroken \/ HttpAbort \/ HttpDisconnect \/ HttpDestroy
  PROVE  HttpPlaced'
<1>1. HttpTypeOK /\ HttpIdle(httpReq, httpJob)
  BY DEF HttpTyped
<1>2. \E o \in HttpOuts : HttpOver(o) /\ HttpApplyWith(o, httpNet)
  BY <1>1, HttpBrokenOver, HttpAbortOver, HttpDisconnectOver, HttpDestroyOver
<1> QED
  BY <1>2, HttpEndsOrderly

\* The connection that ends keeps what has arrived in its place.
LEMMA HttpCutOrderly ==
  ASSUME HttpTyped, HttpPlaced, HttpCut
  PROVE  HttpPlaced'
<1>1. httpReq' = httpReq /\ httpJob' = httpJob /\ httpNet' = HttpNoNet
  BY DEF HttpCut
<1>2. HttpOrderly(httpReq, httpJob, HttpNoNet)
  BY HttpOrderlyCut DEF HttpTyped, HttpTypeOK, HttpPlaced
<1> QED
  BY <1>1, <1>2 DEF HttpPlaced

\* A step that changes nothing moves no token.
LEMMA HttpStutterOrderly ==
  ASSUME HttpPlaced, UNCHANGED httpVars
  PROVE  HttpPlaced'
<1>1. httpReq' = httpReq /\ httpJob' = httpJob /\ httpNet' = httpNet
  BY DEF httpVars
<1> QED
  BY <1>1 DEF HttpPlaced

-----------------------------------------------------------------------------
(* A read                                                                  *)

\* A read asks for no more than the rest of the chunk.
LEMMA HttpLimitIs ==
  ASSUME NEW req \in HttpReqs, NEW given, NEW f, NEW left, HttpBody(req, given, f, left), ~req.ptr.on,
         req.chunked, req.chunk > 0, NEW n \in Nat, n <= HttpLimit(req)
  PROVE  n <= req.chunk
<1>1. req.length = 0 /\ req.extra = <<>> /\ req.chunked = TRUE
  BY HttpReqTypes DEF HttpBody, HttpBetween, HttpEnded
<1>2. ~(req.length > req.read)
  BY <1>1, HttpReqTypes
<1>3. HttpLimit(req) = req.chunk
  BY <1>1, <1>2 DEF HttpLimit
<1> QED
  BY <1>3

\* The end of file in a body
LEMMA HttpEndsBody ==
  ASSUME NEW req \in HttpReqs, ~req.ptr.on, NEW given \in Seq(HttpTokens), NEW f \in Nat, HttpBody(req, given, f, <<>>),
         NEW r \in HttpReqs, r.extra = <<>>, r.ptr = req.ptr, r.chunk = req.chunk,
         r.length = req.length, r.chunked = req.chunked, r.eof = req.eof
  PROVE  HttpBody(r, given, f, <<>>)
<1>1. HttpPlain(req, given, f, <<>>) => HttpPlain(r, given, f, <<>>)
  BY DEF HttpPlain
<1>2. HttpEnded(req, given, f) => HttpEnded(r, given, f)
  BY DEF HttpEnded
<1>3. HttpBetween(req, given, f, <<>>) => HttpBetween(r, given, f, <<>>)
  <2>1. PICK no \in Seq(HttpTokens) : no = <<>>
    BY HttpEmpty, Zenon
  <2>2. PICK k \in Nat : k = f + Len(given)
    BY SeqTypes
  <2>3. PICK n \in Nat : n = r.chunk
    BY HttpReqTypes
  <2>4. Cat(no, no) = no
    BY <2>1, CatEmpty, Zenon
  <2>5. HttpStream(<<>>, n, k)
    BY HttpOfNothing
  <2>6. HttpStream(Cat(r.extra, <<>>), r.chunk, f + Len(given))
    BY <2>1, <2>2, <2>3, <2>4, <2>5
  <2> QED
    BY <2>6 DEF HttpBetween
<1> QED
  BY <1>1, <1>2, <1>3 DEF HttpBody

\* What a read did in a body or in a listing
LEMMA HttpReadInBody ==
  ASSUME HttpTyped, httpJob.at \in {"body", "list"}, HttpInBody(httpReq, httpJob, httpNet), ~httpReq.ptr.on,
         httpJob.at = "body" => ~httpReq.rbuf.on, NEW n \in Nat, NEW result, NEW net, HttpReadOf(n, result, net)
  PROVE  HttpOrderly(HttpGot(result, httpJob).req, HttpGot(result, httpJob).job, net)
<1>1. httpReq \in HttpReqs /\ httpJob \in HttpJobs /\ httpNet \in HttpNets
  BY DEF HttpTyped, HttpTypeOK
<1>2. PICK given \in Seq(HttpTokens) : given = HttpGiven(httpReq, httpJob)
  BY <1>1, HttpReqTypes, HttpJobTypes, CatIs, Zenon DEF HttpGiven
<1>3. PICK f \in Nat : f = httpJob.first
  BY <1>1, HttpJobTypes, HttpSizeAssumption
<1>4. PICK left \in Seq(HttpTokens) : left = httpNet.left
  BY <1>1, HttpNetTypes
<1>5. HttpBody(httpReq, given, f, left) /\ httpNet.todo = <<>>
  BY <1>2, <1>3, <1>4 DEF HttpInBody
<1>6. /\ n <= Len(left) /\ (HttpNoRead(httpReq) <=> n = 0) /\ (n > 0 => n <= HttpLimit(httpReq))
      /\ net \in HttpNets /\ net.left = Drop(left, n) /\ net.todo = <<>>
      /\ result = HttpChunkedRead(httpReq, Take(left, n))
  <2>1. Len(left) \in Nat
    BY SeqTypes
  <2> QED
    BY <2>1, <1>4, <1>5 DEF HttpReadOf
<1>7. httpReq.chunked /\ httpReq.chunk > 0 => n <= httpReq.chunk
  <2>1. httpReq.chunk \in Nat
    BY <1>1, HttpReqTypes
  <2>2. n = 0 => n <= httpReq.chunk
    BY <2>1
  <2>3. ASSUME httpReq.chunked, httpReq.chunk > 0, n > 0 PROVE n <= httpReq.chunk
    BY <2>3, <1>1, <1>5, <1>6, HttpLimitIs
  <2> QED
    BY <2>2, <2>3
<1>8. /\ result.res = "again" => HttpBody(result.req, given, f, Drop(left, n))
      /\ result.res = "data" => HttpBody(result.req, Cat(given, result.data), f, Drop(left, n))
  <2> DEFINE c == HttpChunkedRead(httpReq, Take(left, n))
  <2>1. /\ c.res = "again" => HttpBody(c.req, given, f, Drop(left, n))
        /\ c.res = "data" => HttpBody(c.req, Cat(given, c.data), f, Drop(left, n))
    BY <1>1, <1>5, <1>6, <1>7, HttpReadsBody
  <2> HIDE DEF c
  <2>2. result = c
    BY <1>6 DEF c
  <2> QED
    BY <2>1, <2>2
<1>9. result \in HttpResults /\ result.req.rbuf = httpReq.rbuf /\ (result.res # "again" => result.req.ptr = HttpNoPtr)
  <2>1. PICK got \in Seq(HttpTokens) : got = Take(left, n)
    BY <1>6, TakeIs
  <2>2. result = HttpChunkedRead(httpReq, got)
    BY <2>1, <1>6
  <2> QED
    BY <2>2, <1>1, HttpChunkedReadIs
<1>10. httpJob.at = "body" => result.req.rbuf.data = <<>>
  BY <1>1, <1>9, HttpReqTypes
<1>11. given = Cat(httpJob.got, result.req.rbuf.data)
  BY <1>2, <1>9 DEF HttpGiven
<1> DEFINE g == HttpGot(result, httpJob)
<1>12. HttpOver(g) \/ (g.job.at = httpJob.at /\ HttpInBody(g.req, g.job, net))
  BY <1>1, <1>3, <1>6, <1>8, <1>9, <1>10, <1>11, HttpGotBody
<1> HIDE DEF g
<1>13. HttpOrderly(g.req, g.job, net)
  BY <1>12, HttpInBodyOrderly, Zenon
<1> QED
  BY <1>13 DEF g

\* The end of file in the body keeps every token in its place.
LEMMA HttpEndInBody ==
  ASSUME HttpTyped, httpJob.at \in {"body", "list"}, HttpInBody(httpReq, httpJob, httpNet), ~httpReq.ptr.on,
         httpJob.at = "body" => ~httpReq.rbuf.on, NEW r \in HttpReqs, HttpReadEnd(r),
         NEW result, result = HttpDone(r, <<>>)
  PROVE  HttpOrderly(HttpGot(result, httpJob).req, HttpGot(result, httpJob).job, httpNet)
<1>1. httpReq \in HttpReqs /\ httpJob \in HttpJobs /\ httpNet \in HttpNets
  BY DEF HttpTyped, HttpTypeOK
<1>2. PICK given \in Seq(HttpTokens) : given = HttpGiven(httpReq, httpJob)
  BY <1>1, HttpReqTypes, HttpJobTypes, CatIs, Zenon DEF HttpGiven
<1>3. PICK f \in Nat : f = httpJob.first
  BY <1>1, HttpJobTypes, HttpSizeAssumption
<1>4. /\ r.extra = <<>> /\ r.ptr = httpReq.ptr /\ r.rbuf = httpReq.rbuf /\ r.chunk = httpReq.chunk
      /\ r.length = httpReq.length /\ r.chunked = httpReq.chunked /\ r.eof = httpReq.eof
      /\ httpNet.left = <<>> /\ httpNet.todo = <<>>
  BY DEF HttpReadEnd
<1>5. HttpBody(httpReq, given, f, <<>>)
  BY <1>2, <1>3, <1>4 DEF HttpInBody
<1>6. HttpBody(r, given, f, <<>>)
  BY <1>1, <1>4, <1>5, HttpEndsBody
<1>7. PICK no \in Seq(HttpTokens) : no = <<>>
  BY HttpEmpty, Zenon
<1>8. /\ result \in HttpResults /\ result.res = "data" /\ result.data = no /\ result.req.ptr = HttpNoPtr
      /\ result.req.rbuf = r.rbuf /\ result.req.extra = r.extra /\ result.req.chunk = r.chunk
      /\ result.req.length = r.length /\ result.req.chunked = r.chunked /\ result.req.eof = r.eof
  BY <1>7, HttpDoneIs, Zenon
<1>9. r.ptr = HttpNoPtr
  BY <1>1, <1>4, HttpReqTypes
<1>10. HttpBody(result.req, given, f, <<>>)
  BY <1>6, <1>8, <1>9, HttpBodySame
<1>11. Cat(given, no) = given
  BY <1>7, CatEmpty
<1>12. given = Cat(httpJob.got, result.req.rbuf.data)
  BY <1>2, <1>4, <1>8 DEF HttpGiven
<1>13. httpJob.at = "body" => result.req.rbuf.data = <<>>
  BY <1>1, <1>4, <1>8, HttpReqTypes
<1> DEFINE g == HttpGot(result, httpJob)
<1>14. HttpOver(g) \/ (g.job.at = httpJob.at /\ HttpInBody(g.req, g.job, httpNet))
  BY <1>1, <1>3, <1>4, <1>8, <1>10, <1>11, <1>12, <1>13, HttpGotBody
<1> HIDE DEF g
<1>15. HttpOrderly(g.req, g.job, httpNet)
  BY <1>14, HttpInBodyOrderly, Zenon
<1> QED
  BY <1>15 DEF g

\* Where the headers are told apart, what the line buffer holds starts with a whole line.
LEMMA HttpHeadsLine ==
  ASSUME NEW req \in HttpReqs, NEW job \in HttpJobs, NEW left \in Seq(HttpTokens),
         HttpHeads(req, job, Cat(req.rbuf.data, left)), req.rbuf.data # <<>>
  PROVE  HttpHasLine(req.rbuf)
<1>1. PICK b \in Seq(HttpTokens) : b = req.rbuf.data
  BY HttpReqTypes
<1>2. HttpHeads(req, job, b)
  BY <1>1, HttpHeadsCut
<1>3. PICK q \in 0..2, ch \in BOOLEAN : HttpHeadsAt(req, job, b, q, ch)
  BY <1>2 DEF HttpHeads
<1>4. Len(b) \in Nat /\ Len(b) > 0
  BY <1>1, SeqTypes
<1>5. b[1][1] # "size"
  <2>1. CASE ~job.line
    BY <2>1, <1>1, <1>3 DEF HttpHeadsAt
  <2>2. CASE job.line /\ q = 0
    <3>1. b[1] = HttpCrlf
      BY <2>2, <1>3, <1>4 DEF HttpHeadsAt
    <3> QED
      BY <3>1, HttpUnitIs
  <2>3. CASE job.line /\ q # 0
    <3>1. q = 1
      BY <2>3, <1>3 DEF HttpHeadsAt
    <3>2. b[1][1] = IF ch THEN "chunked" ELSE "length"
      BY <3>1, <2>3, <1>3, <1>4 DEF HttpHeadsAt
    <3> QED
      BY <3>2
  <2> QED
    BY <2>1, <2>2, <2>3
<1>6. HttpIsLine(req.rbuf, 1) /\ 1 \in 1..Len(req.rbuf.data)
  BY <1>1, <1>4, <1>5 DEF HttpIsLine
<1> QED
  BY <1>6 DEF HttpHasLine

\* The fields a step of the headers has to keep
HttpSame(r, req) ==
  /\ r.ptr = req.ptr /\ r.extra = req.extra /\ r.chunk = req.chunk
  /\ r.length = req.length /\ r.chunked = req.chunked /\ r.eof = req.eof

\* What is there and what is to come are the same, wherever a read divides them.
HttpMoved(b, left, c, rest) == Cat(b, left) = Cat(c, rest)

\* Tokens move from the answer to the line buffer while the headers are waited for.
LEMMA HttpInHeadersSame ==
  ASSUME NEW req, NEW r, NEW job, NEW net, NEW new, HttpInHeaders(req, job, net), ~req.chunked, HttpSame(r, req),
         ~r.rbuf.eof, HttpMoved(req.rbuf.data, net.left, r.rbuf.data, new.left),
         \/ new = net /\ r.rbuf.data = req.rbuf.data
         \/ new.todo = <<>>
  PROVE  HttpInHeaders(r, job, new)
<1>1. HttpHeads(req, job, Cat(req.rbuf.data, net.left))
  BY DEF HttpInHeaders, HttpFreshHeaders
<1>2. PICK s : s = Cat(r.rbuf.data, new.left)
  OBVIOUS
<1>3. HttpHeads(r, job, s)
  <2>1. r.length = req.length
    BY DEF HttpSame
  <2>2. PICK q \in 0..2, ch \in BOOLEAN : HttpHeadsAt(req, job, s, q, ch)
    BY <1>1, <1>2 DEF HttpHeads, HttpMoved
  <2>3. HttpHeadsAt(r, job, s, q, ch)
    BY <2>1, <2>2 DEF HttpHeadsAt
  <2> QED
    BY <2>3 DEF HttpHeads
<1>4. HttpFreshHeaders(r, job, new)
  BY <1>2, <1>3 DEF HttpInHeaders, HttpFreshHeaders, HttpSame
<1> QED
  BY <1>4 DEF HttpInHeaders, HttpFreshHeaders, HttpSame

\* Tokens move from the answer to the line buffer while the first size is waited for.
LEMMA HttpInSizeSame ==
  ASSUME NEW req, NEW r, NEW job, NEW net, NEW new, HttpInSize(req, job, net), HttpSame(r, req),
         r.rbuf.eof => new.left = <<>>, HttpMoved(req.rbuf.data, net.left, r.rbuf.data, new.left), new.todo = net.todo
  PROVE  HttpInSize(r, job, new)
BY DEF HttpInSize, HttpSame, HttpMoved

\* What a read did in the headers of a response or at the size of its first chunk
LEMMA HttpFillsOrderly ==
  ASSUME NEW req \in HttpReqs, NEW job \in HttpJobs, NEW net \in HttpNets, NEW new \in HttpNets,
         job.at \in {"headers", "size"}, ~req.ptr.on, ~HttpHasLine(req.rbuf), ~req.rbuf.eof,
         job.at = "headers" => HttpInHeaders(req, job, net) /\ ~req.chunked,
         job.at = "size" => HttpInSize(req, job, net),
         NEW r \in HttpReqs, r.rbuf = req.rbuf, HttpSame(r, req), NEW data \in Seq(HttpTokens),
         HttpMoved(data, new.left, <<>>, net.left), new.todo = net.todo,
         data # <<>> => net.todo = <<>>, data = <<>> => new = net /\ (job.at = "size" => net.left = <<>>)
  PROVE  HttpOrderly(HttpFill(r, job, data).req, HttpFill(r, job, data).job, new)
<1>1. PICK o : o = HttpFill(r, job, data)
  OBVIOUS
<1>2. PICK b \in Seq(HttpTokens) : b = req.rbuf.data
  BY HttpReqTypes
<1>3. PICK left \in Seq(HttpTokens) : left = net.left
  BY HttpNetTypes
<1>4. PICK rest \in Seq(HttpTokens) : rest = new.left
  BY HttpNetTypes
<1>5. left = Cat(data, rest)
  BY <1>3, <1>4, CatEmpty DEF HttpMoved
<1>6. job.at = "headers" => b = <<>>
  BY <1>2, <1>3, HttpHeadsLine DEF HttpInHeaders, HttpFreshHeaders
<1>7. \/ /\ o \in HttpOuts /\ o.req \in HttpReqs /\ o.job = job
         /\ o.req.ptr = r.ptr /\ o.req.extra = r.extra /\ o.req.chunk = r.chunk
         /\ o.req.length = r.length /\ o.req.chunked = r.chunked /\ o.req.eof = r.eof
         /\ \/ data # <<>> /\ o.req.rbuf.on /\ o.req.rbuf.data = Cat(r.rbuf.data, data) /\ ~o.req.rbuf.eof
            \/ /\ data = <<>> /\ r.rbuf.data # <<>>
               /\ o.req.rbuf.on = r.rbuf.on /\ o.req.rbuf.data = r.rbuf.data /\ o.req.rbuf.eof
      \/ data = <<>> /\ r.rbuf.data = <<>> /\ o = HttpNoLine(r, job)
  BY <1>1, HttpFillIs
<1>8. CASE /\ o.job = job /\ HttpSame(o.req, req)
           /\ data # <<>> /\ o.req.rbuf.data = Cat(b, data) /\ ~o.req.rbuf.eof
  <2>1. HttpMoved(b, left, o.req.rbuf.data, rest)
    BY <1>5, <1>8, CatCat DEF HttpMoved
  <2>2. HttpMoved(req.rbuf.data, net.left, o.req.rbuf.data, new.left) /\ new.todo = <<>>
    BY <2>1, <1>2, <1>3, <1>4, <1>8
  <2>3. job.at = "headers" => HttpInHeaders(o.req, job, new)
    BY <2>2, <1>8, HttpInHeadersSame
  <2>4. job.at = "size" => HttpInSize(o.req, job, new)
    BY <2>2, <1>8, HttpInSizeSame, Zenon
  <2> QED
    BY <2>3, <2>4, <1>1, <1>8 DEF HttpOrderly
<1>9. CASE /\ o.job = job /\ HttpSame(o.req, req)
           /\ data = <<>> /\ b # <<>> /\ o.req.rbuf.data = b
  <2>1. job.at = "size" /\ new = net /\ net.left = <<>>
    BY <1>6, <1>9
  <2>2. HttpInSize(o.req, job, new)
    BY <2>1, <1>2, <1>9, HttpInSizeSame DEF HttpMoved
  <2> QED
    BY <2>1, <2>2, <1>1, <1>9 DEF HttpOrderly
<1>10. CASE data = <<>> /\ r.rbuf.data = <<>> /\ o = HttpNoLine(r, job)
  <2>1. ~r.ptr.on
    BY DEF HttpSame
  <2>2. \/ HttpOver(o)
        \/ \E s \in HttpReqs :
             /\ s.ptr = r.ptr /\ s.rbuf = HttpNoBuf /\ s.extra = r.extra /\ s.chunk = r.chunk
             /\ s.length = r.length /\ s.chunked = r.chunked /\ s.eof = r.eof
             /\ job.at = "headers"
             /\ \/ job.line /\ o = HttpOut(s, job)
                \/ ~job.line /\ o = HttpHeaders(s, job)
    BY <2>1, <1>10, HttpNoLineIs
  <2>3. CASE HttpOver(o)
    BY <2>3, <1>1, HttpOverOrderly, Zenon
  <2>4. ASSUME NEW s \in HttpReqs, HttpSame(s, r), s.rbuf = HttpNoBuf, job.at = "headers", job.line, o = HttpOut(s, job)
        PROVE  HttpOrderly(o.req, o.job, new)
    <3>1. o.req = s /\ o.job = job
      BY <2>4, HttpOutIs
    <3>2. HttpSame(s, req)
      BY <2>4 DEF HttpSame
    <3>3. s.rbuf.data = <<>> /\ ~s.rbuf.eof /\ req.rbuf.data = <<>> /\ new = net
      BY <2>4, <1>10, HttpNone
    <3>4. HttpInHeaders(s, job, new)
      BY <3>2, <3>3, <2>4, HttpInHeadersSame DEF HttpMoved
    <3> QED
      BY <3>1, <3>4, <2>4 DEF HttpOrderly
  <2>5. ASSUME NEW s \in HttpReqs, s.ptr = r.ptr, job.at = "headers", ~job.line, o = HttpHeaders(s, job)
        PROVE  HttpOrderly(o.req, o.job, new)
    <3>1. job.status = 0 /\ ~job.chunked /\ ~s.ptr.on
      BY <2>1, <2>5 DEF HttpInHeaders
    <3>2. HttpOver(o)
      BY <3>1, <2>5, HttpNoStatus
    <3> QED
      BY <3>2, HttpOverOrderly, Zenon
  <2>6. HttpOrderly(o.req, o.job, new)
    BY <2>2, <2>3, <2>4, <2>5, HttpOverOrderly, Zenon DEF HttpSame
  <2> QED
    BY <2>6, <1>1
<1>11. r.rbuf.data = b
  BY <1>2
<1> QED
  BY <1>7, <1>8, <1>9, <1>10, <1>11 DEF HttpSame

\* Nothing was kept apart: there is no last chunk in it.
LEMMA HttpNoEndOfChunks == ~HttpEndOfChunks(<<>>)
<1>1. PICK e \in Seq(HttpTokens) : e = <<>> /\ Len(e) = 0
  BY HttpEmpty, Zenon
<1>2. ~(Len(e) > 3)
  BY <1>1
<1> QED
  BY <1>1, <1>2 DEF HttpEndOfChunks

\* A read in the headers or at the first size, where the last response was not chunked
LEMMA HttpFreshRead ==
  ASSUME HttpTyped, httpJob.at \in {"headers", "size"}, ~httpReq.ptr.on, ~HttpHasLine(httpReq.rbuf), ~httpReq.rbuf.eof,
         httpJob.at = "headers" => HttpInHeaders(httpReq, httpJob, httpNet) /\ ~httpReq.chunked,
         httpJob.at = "size" => HttpInSize(httpReq, httpJob, httpNet),
         NEW n \in Nat, NEW result, NEW net, HttpReadOf(n, result, net)
  PROVE  HttpOrderly(HttpGot(result, httpJob).req, HttpGot(result, httpJob).job, net)
<1>1. httpReq \in HttpReqs /\ httpJob \in HttpJobs /\ httpNet \in HttpNets
  BY DEF HttpTyped, HttpTypeOK
<1>2. PICK left \in Seq(HttpTokens) : left = httpNet.left
  BY <1>1, HttpNetTypes
<1>3. /\ httpReq.extra = <<>> /\ httpReq.chunk = 0 /\ ~httpReq.eof /\ ~httpReq.chunked
      /\ (httpJob.at = "size" => httpReq.length = 0)
  BY DEF HttpInHeaders, HttpFreshHeaders, HttpInSize
<1>4. /\ n <= Len(left) /\ (HttpNoRead(httpReq) <=> n = 0) /\ (n > 0 => httpNet.todo = <<>>)
      /\ net \in HttpNets /\ net.left = Drop(left, n) /\ net.todo = httpNet.todo
      /\ result = HttpChunkedRead(httpReq, Take(left, n))
  <2>1. Len(left) \in Nat
    BY SeqTypes
  <2> QED
    BY <2>1, <1>2 DEF HttpReadOf
<1>5. httpJob.at = "size" => n > 0
  <2>1. httpJob.at = "size" => ~HttpAllRead(httpReq)
    BY <1>3 DEF HttpAllRead
  <2>2. ~HttpEndOfChunks(httpReq.extra)
    BY <1>3, HttpNoEndOfChunks
  <2>3. httpJob.at = "size" => ~HttpNoRead(httpReq)
    BY <2>1, <2>2, <1>3 DEF HttpNoRead
  <2> QED
    BY <2>3, <1>4
<1>6. PICK got \in Seq(HttpTokens) : got = Take(left, n) /\ Len(got) = n
  BY <1>4, TakeIs
<1>7. PICK c : c = HttpChunkedRead(httpReq, got)
  OBVIOUS
<1>8. result = c
  BY <1>4, <1>6, <1>7
<1>9. /\ c \in HttpResults /\ c.req \in HttpReqs /\ c.res = "data" /\ c.data = got
      /\ c.req.rbuf = httpReq.rbuf /\ c.req.length = httpReq.length /\ c.req.chunked = httpReq.chunked
      /\ c.req.eof = httpReq.eof /\ c.req.ptr = HttpNoPtr /\ c.req.extra = <<>> /\ c.req.chunk = 0
  <2>1. /\ c \in HttpResults /\ c.req \in HttpReqs
        /\ c.req.rbuf = httpReq.rbuf /\ c.req.length = httpReq.length /\ c.req.chunked = httpReq.chunked
        /\ c.req.eof = httpReq.eof
        /\ \/ /\ HttpAllRead(httpReq)
              /\ c.res = "data" /\ c.data = <<>> /\ c.req.ptr = HttpNoPtr
              /\ c.req.extra = httpReq.extra /\ c.req.chunk = httpReq.chunk
           \/ /\ got # <<>> /\ httpReq.chunk > 0
              /\ c.res = "data" /\ c.data = got /\ c.req.ptr = HttpNoPtr /\ c.req.extra = <<>>
              /\ c.req.chunk = IF httpReq.chunk > Len(got) THEN httpReq.chunk - Len(got) ELSE 0
           \/ /\ ~(got # <<>> /\ httpReq.chunk > 0) /\ ~httpReq.chunked
              /\ c.res = "data" /\ c.data = Cat(httpReq.extra, got) /\ c.req.ptr = HttpNoPtr
              /\ c.req.extra = <<>> /\ c.req.chunk = httpReq.chunk
           \/ /\ ~(got # <<>> /\ httpReq.chunk > 0) /\ httpReq.chunked
              /\ c.res = "again" /\ c.req.ptr.on /\ c.req.ptr.done = <<>> /\ c.req.ptr.rest = Cat(httpReq.extra, got)
              /\ c.req.extra = <<>> /\ c.req.chunk = httpReq.chunk
    BY <1>1, <1>7, HttpChunkedReadIs
  <2>2. HttpAllRead(httpReq) => got = <<>>
    <3>1. HttpAllRead(httpReq) => n = 0
      BY <1>4 DEF HttpNoRead
    <3> QED
      BY <3>1, <1>6, SeqTypes
  <2>3. Cat(httpReq.extra, got) = got
    BY <1>3, CatEmpty
  <2> QED
    BY <2>1, <2>2, <2>3, <1>3
<1>10. PICK r \in HttpReqs : r = c.req
  BY <1>9
<1>11. HttpSame(r, httpReq) /\ r.rbuf = httpReq.rbuf
  <2>1. httpReq.ptr = HttpNoPtr
    BY <1>1, HttpReqTypes
  <2> QED
    BY <2>1, <1>3, <1>9, <1>10 DEF HttpSame
<1>12. HttpMoved(got, net.left, <<>>, httpNet.left)
  <2>1. Cat(Take(left, n), Drop(left, n)) = left
    BY <1>4, CatSplit
  <2>2. Cat(<<>>, left) = left
    BY CatEmpty
  <2> QED
    BY <2>1, <2>2, <1>2, <1>4, <1>6 DEF HttpMoved
<1>13. got = <<>> => net = httpNet /\ httpJob.at # "size"
  <2>1. SUFFICES ASSUME got = <<>> PROVE net = httpNet /\ httpJob.at # "size"
    OBVIOUS
  <2>2. n = 0
    BY <2>1, <1>6, SeqTypes
  <2>3. net.left = httpNet.left
    BY <2>2, <1>2, <1>4, DropEnds
  <2> QED
    BY <2>2, <2>3, <1>5, <1>4 DEF HttpReadOf
<1>14. got # <<>> => httpNet.todo = <<>>
  BY <1>4, <1>6, SeqTypes
<1>15. PICK o : o = HttpFill(r, httpJob, got)
  OBVIOUS
<1>16. HttpOrderly(o.req, o.job, net)
  BY <1>1, <1>4, <1>10, <1>11, <1>12, <1>13, <1>14, <1>15, HttpFillsOrderly
<1>17. HttpGot(result, httpJob) = o
  BY <1>1, <1>8, <1>9, <1>10, <1>15, HttpGotCases
<1> QED
  BY <1>16, <1>17

\* The end of file in the headers or at the first size, where the last response was not chunked
LEMMA HttpFreshEnd ==
  ASSUME HttpTyped, httpJob.at \in {"headers", "size"}, ~httpReq.ptr.on, ~HttpHasLine(httpReq.rbuf), ~httpReq.rbuf.eof,
         httpJob.at = "headers" => HttpInHeaders(httpReq, httpJob, httpNet) /\ ~httpReq.chunked,
         httpJob.at = "size" => HttpInSize(httpReq, httpJob, httpNet),
         NEW r \in HttpReqs, HttpReadEnd(r), NEW result, result = HttpDone(r, <<>>)
  PROVE  HttpOrderly(HttpGot(result, httpJob).req, HttpGot(result, httpJob).job, httpNet)
<1>1. httpReq \in HttpReqs /\ httpJob \in HttpJobs /\ httpNet \in HttpNets
  BY DEF HttpTyped, HttpTypeOK
<1>2. httpReq.extra = <<>>
  BY DEF HttpInHeaders, HttpFreshHeaders, HttpInSize
<1>3. /\ r.extra = <<>> /\ r.ptr = httpReq.ptr /\ r.rbuf = httpReq.rbuf /\ r.chunk = httpReq.chunk
      /\ r.length = httpReq.length /\ r.chunked = httpReq.chunked /\ r.eof = httpReq.eof
      /\ httpNet.left = <<>> /\ httpNet.todo = <<>>
  BY DEF HttpReadEnd
<1>4. PICK no \in Seq(HttpTokens) : no = <<>>
  BY HttpEmpty, Zenon
<1>5. /\ result \in HttpResults /\ result.res = "data" /\ result.data = no /\ result.req.ptr = HttpNoPtr
      /\ result.req \in HttpReqs /\ result.req.rbuf = r.rbuf /\ result.req.extra = r.extra /\ result.req.chunk = r.chunk
      /\ result.req.length = r.length /\ result.req.chunked = r.chunked /\ result.req.eof = r.eof
  BY <1>4, HttpDoneIs, Zenon
<1>6. PICK q \in HttpReqs : q = result.req
  BY <1>5
<1>7. HttpSame(q, httpReq) /\ q.rbuf = httpReq.rbuf
  <2>1. httpReq.ptr = HttpNoPtr
    BY <1>1, HttpReqTypes
  <2> QED
    BY <2>1, <1>2, <1>3, <1>5, <1>6 DEF HttpSame
<1>8. HttpMoved(no, httpNet.left, <<>>, httpNet.left)
  BY <1>4 DEF HttpMoved
<1>9. PICK o : o = HttpFill(q, httpJob, no)
  OBVIOUS
<1>10. HttpOrderly(o.req, o.job, httpNet)
  BY <1>1, <1>3, <1>4, <1>6, <1>7, <1>8, <1>9, HttpFillsOrderly, Zenon
<1>11. HttpGot(result, httpJob) = o
  BY <1>1, <1>5, <1>6, <1>9, HttpGotCases
<1> QED
  BY <1>10, <1>11

\* A read in the headers where the last response was chunked goes to the loop, or the call is over.
LEMMA HttpStaleFill ==
  ASSUME NEW req \in HttpReqs, NEW job \in HttpJobs, NEW net \in HttpNets,
         job.at = "headers", HttpInHeaders(req, job, net), req.chunked,
         NEW r \in HttpReqs, r.rbuf = req.rbuf, ~r.ptr.on, NEW o, o = HttpFill(r, job, <<>>), NEW new
  PROVE  HttpOrderly(o.req, o.job, new)
<1>1. /\ ~job.line /\ job.status = 0 /\ ~job.chunked /\ r.rbuf.data = <<>>
  BY DEF HttpInHeaders, HttpStaleHeaders
<1>2. PICK e \in Seq(HttpTokens) : e = <<>>
  BY HttpEmpty, Zenon
<1>3. o = HttpFill(r, job, e)
  BY <1>2
<1>4. o = HttpNoLine(r, job)
  BY <1>1, <1>2, <1>3, HttpFillIs, Zenon
<1>5. HttpOver(o)
  BY <1>1, <1>4, HttpNoStatus
<1> QED
  BY <1>5, HttpOverOrderly

\* The end of file, where the last response was chunked
LEMMA HttpStaleEnd ==
  ASSUME HttpTyped, httpJob.at = "headers", HttpInHeaders(httpReq, httpJob, httpNet), httpReq.chunked, ~httpReq.ptr.on,
         NEW r \in HttpReqs, HttpReadEnd(r), NEW result, result = HttpDone(r, <<>>)
  PROVE  HttpOrderly(HttpGot(result, httpJob).req, HttpGot(result, httpJob).job, httpNet)
<1>1. httpReq \in HttpReqs /\ httpJob \in HttpJobs /\ httpNet \in HttpNets
  BY DEF HttpTyped, HttpTypeOK
<1>2. PICK no \in Seq(HttpTokens) : no = <<>>
  BY HttpEmpty, Zenon
<1>3. /\ result \in HttpResults /\ result.res = "data" /\ result.data = no /\ result.req.ptr = HttpNoPtr
      /\ result.req \in HttpReqs /\ result.req.rbuf = r.rbuf
  BY <1>2, HttpDoneIs, Zenon
<1>4. PICK q \in HttpReqs : q = result.req /\ q.rbuf = httpReq.rbuf /\ ~q.ptr.on
  BY <1>3, HttpNone DEF HttpReadEnd
<1>5. PICK o : o = HttpFill(q, httpJob, <<>>)
  OBVIOUS
<1>6. HttpOrderly(o.req, o.job, httpNet)
  BY <1>1, <1>4, <1>5, HttpStaleFill, Zenon
<1>7. HttpGot(result, httpJob) = o
  BY <1>1, <1>2, <1>3, <1>4, <1>5, HttpGotCases
<1> QED
  BY <1>6, <1>7

\* What is kept apart, or the first of what comes, is no chunk header.
LEMMA HttpStuckCat ==
  ASSUME NEW a \in Seq(HttpTokens), NEW b \in Seq(HttpTokens), a # <<>>, HttpStuck(a)
  PROVE  HttpStuck(Cat(a, b)) /\ Cat(a, b) # <<>>
<1>1. PICK c \in Seq(HttpTokens) :
         /\ c = Cat(a, b) /\ Len(c) = Len(a) + Len(b)
         /\ \A i \in 1..Len(a) : c[i] = a[i]
         /\ \A i \in 1..Len(b) : c[Len(a) + i] = b[i]
  BY CatPick, Zenon
<1>2. PICK l \in Nat : l = Len(a) /\ l > 0
  BY SeqTypes
<1>3. c[1] = a[1]
  BY <1>1, <1>2
<1>4. c # <<>>
  <2>1. Len(b) \in Nat
    BY SeqTypes
  <2>2. Len(c) > 0
    BY <2>1, <1>1, <1>2
  <2> QED
    BY <2>2, SeqTypes
<1> QED
  BY <1>1, <1>3, <1>4 DEF HttpStuck

\* The first tokens of an answer that is stuck are stuck.
LEMMA HttpStuckTake ==
  ASSUME NEW s \in Seq(HttpTokens), NEW n \in Nat, n > 0, n <= Len(s), HttpStuck(s)
  PROVE  HttpStuck(Take(s, n)) /\ Take(s, n) # <<>>
<1>1. PICK t \in Seq(HttpTokens) : t = Take(s, n)
  BY TakeIs
<1>2. Len(t) = n /\ \A i \in 1..n : t[i] = s[i]
  BY <1>1, TakeIs
<1>3. t # <<>> /\ t[1] = s[1]
  BY <1>2, SeqTypes
<1> QED
  BY <1>1, <1>3 DEF HttpStuck

\* What a read, or none, gave, by a name
HttpReadGives(c, req, got) ==
  /\ c \in HttpResults /\ c.req \in HttpReqs
  /\ c.req.rbuf = req.rbuf /\ c.req.length = req.length /\ c.req.chunked = req.chunked
  /\ c.req.eof = req.eof
  /\ \/ /\ HttpAllRead(req)
        /\ c.res = "data" /\ c.data = <<>> /\ c.req.ptr = HttpNoPtr
        /\ c.req.extra = req.extra /\ c.req.chunk = req.chunk
     \/ /\ got # <<>> /\ req.chunk > 0
        /\ c.res = "data" /\ c.data = got /\ c.req.ptr = HttpNoPtr /\ c.req.extra = <<>>
        /\ c.req.chunk = IF req.chunk > Len(got) THEN req.chunk - Len(got) ELSE 0
     \/ /\ ~(got # <<>> /\ req.chunk > 0) /\ ~req.chunked
        /\ c.res = "data" /\ c.data = Cat(req.extra, got) /\ c.req.ptr = HttpNoPtr
        /\ c.req.extra = <<>> /\ c.req.chunk = req.chunk
     \/ /\ ~(got # <<>> /\ req.chunk > 0) /\ req.chunked
        /\ c.res = "again" /\ c.req.ptr.on /\ c.req.ptr.done = <<>> /\ c.req.ptr.rest = Cat(req.extra, got)
        /\ c.req.extra = <<>> /\ c.req.chunk = req.chunk

\* A read gives data at once, or sets out on the loop over the chunk headers.
LEMMA HttpReadGivesIs ==
  ASSUME NEW req \in HttpReqs, NEW got \in Seq(HttpTokens), ~req.ptr.on, NEW c, c = HttpChunkedRead(req, got)
  PROVE  HttpReadGives(c, req, got)
BY HttpChunkedReadIs DEF HttpReadGives

\* A read in the headers where the last response was chunked
LEMMA HttpStaleRead ==
  ASSUME HttpTyped, httpJob.at = "headers", HttpInHeaders(httpReq, httpJob, httpNet), httpReq.chunked, ~httpReq.ptr.on,
         NEW n \in Nat, NEW result, NEW net, HttpReadOf(n, result, net)
  PROVE  HttpOrderly(HttpGot(result, httpJob).req, HttpGot(result, httpJob).job, net)
<1>1. httpReq \in HttpReqs /\ httpJob \in HttpJobs /\ httpNet \in HttpNets
  BY DEF HttpTyped, HttpTypeOK
<1>2. PICK left \in Seq(HttpTokens) : left = httpNet.left
  BY <1>1, HttpNetTypes
<1>3. PICK extra \in Seq(HttpTokens) : extra = httpReq.extra
  BY <1>1, HttpReqTypes
<1>4. /\ httpJob.got = <<>> /\ httpJob.first = 0 /\ httpReq.chunk = 0 /\ ~httpReq.eof /\ httpReq.chunked = TRUE
      /\ (httpReq.rbuf.eof => httpReq.rbuf.data = <<>>)
      /\ ~httpJob.line /\ httpJob.status = 0 /\ ~httpJob.chunked
      /\ httpReq.rbuf.data = <<>> /\ (extra # <<>> => HttpStuck(extra)) /\ (extra # <<>> => httpNet.todo = <<>>)
      /\ (extra = <<>> /\ left # <<>> => HttpStuck(left))
  <2>1. httpReq.ptr.rest = <<>> /\ httpReq.chunked = TRUE
    BY <1>1, HttpReqTypes, HttpNone
  <2>2. HttpStaleHeaders(httpReq, httpJob, httpNet)
    BY DEF HttpInHeaders
  <2> QED
    BY <2>1, <2>2, <1>2, <1>3 DEF HttpInHeaders, HttpStaleHeaders
<1>5. /\ n <= Len(left) /\ (HttpNoRead(httpReq) <=> n = 0) /\ (n > 0 => httpNet.todo = <<>>)
      /\ net \in HttpNets /\ net.todo = httpNet.todo
      /\ result = HttpChunkedRead(httpReq, Take(left, n))
  <2>1. Len(left) \in Nat
    BY SeqTypes
  <2> QED
    BY <2>1, <1>2 DEF HttpReadOf
<1>6. PICK got \in Seq(HttpTokens) : got = Take(left, n) /\ Len(got) = n
  BY <1>5, TakeIs
<1>7. PICK c : c = HttpChunkedRead(httpReq, got)
  OBVIOUS
<1>8. result = c
  BY <1>5, <1>6, <1>7
<1>9. /\ c \in HttpResults /\ c.req \in HttpReqs
      /\ c.req.rbuf = httpReq.rbuf /\ c.req.chunked = httpReq.chunked /\ c.req.eof = httpReq.eof
      /\ \/ HttpAllRead(httpReq) /\ c.res = "data" /\ c.data = <<>> /\ c.req.ptr = HttpNoPtr
         \/ /\ c.res = "again" /\ c.req.ptr.on /\ c.req.ptr.done = <<>> /\ c.req.ptr.rest = Cat(extra, got)
            /\ c.req.extra = <<>> /\ c.req.chunk = 0
  <2>1. HttpReadGives(c, httpReq, got)
    BY <1>1, <1>7, HttpReadGivesIs
  <2> QED
    BY <2>1, <1>3, <1>4 DEF HttpReadGives
<1>10. PICK r \in HttpReqs : r = c.req
  BY <1>9
<1>11. CASE c.res = "data" /\ c.data = <<>> /\ c.req.ptr = HttpNoPtr
  <2>1. PICK o : o = HttpFill(r, httpJob, <<>>)
    OBVIOUS
  <2>2. r.rbuf = httpReq.rbuf /\ ~r.ptr.on
    BY <1>9, <1>10, <1>11, HttpNone
  <2>3. HttpOrderly(o.req, o.job, net)
    BY <2>1, <2>2, <1>1, HttpStaleFill, Zenon
  <2>4. HttpGot(result, httpJob) = o
    BY <2>1, <1>1, <1>8, <1>9, <1>10, <1>11, HttpGotCases
  <2> QED
    BY <2>3, <2>4
<1>12. CASE /\ ~HttpAllRead(httpReq)
            /\ c.res = "again" /\ c.req.ptr.on /\ c.req.ptr.done = <<>> /\ c.req.ptr.rest = Cat(extra, got)
            /\ c.req.extra = <<>> /\ c.req.chunk = 0
  <2>1. PICK rest \in Seq(HttpTokens) : rest = Cat(extra, got)
    BY CatIs
  <2>2. rest # <<>> => HttpStuck(rest)
    <3>1. CASE extra # <<>>
      BY <3>1, <2>1, <1>4, HttpStuckCat
    <3>2. CASE extra = <<>> /\ n = 0
      <4>1. got = <<>>
        BY <3>2, <1>6, SeqTypes
      <4> QED
        BY <4>1, <3>2, <2>1, CatEmpty, Zenon
    <3>3. CASE extra = <<>> /\ n > 0
      <4>1. left # <<>>
        <5>1. Len(left) > 0
          BY <3>3, <1>5, SeqTypes
        <5> QED
          BY <5>1, SeqTypes
      <4>2. HttpStuck(left)
        BY <4>1, <3>3, <1>4
      <4>3. HttpStuck(got)
        BY <4>2, <3>3, <1>5, <1>6, HttpStuckTake
      <4>4. rest = got
        BY <3>3, <2>1, CatEmpty
      <4> QED
        BY <4>3, <4>4
    <3> QED
      BY <3>1, <3>2, <3>3
  <2>3. net.todo = <<>>
    <3>1. CASE n > 0
      BY <3>1, <1>5
    <3>2. CASE n = 0
      <4>1. HttpEndOfChunks(extra)
        BY <3>2, <1>3, <1>4, <1>5, <1>12 DEF HttpNoRead
      <4>2. extra # <<>>
        BY <4>1, HttpNoEndOfChunks
      <4> QED
        BY <4>2, <1>4, <1>5
    <3> QED
      BY <3>1, <3>2
  <2>4. /\ r.rbuf.data = <<>> /\ (r.rbuf.eof => r.rbuf.data = <<>>) /\ r.chunk = 0 /\ ~r.eof /\ r.chunked = TRUE
        /\ r.extra = <<>> /\ r.ptr.done = <<>> /\ r.ptr.rest = rest /\ r.ptr.on
    BY <2>1, <1>4, <1>9, <1>10, <1>12, Zenon
  <2>5. HttpStaleHeaders(r, httpJob, net)
    <3>1. r.extra = <<>> /\ r.ptr.rest = <<>> /\ net.left # <<>> => HttpStuck(net.left)
      <4>1. SUFFICES ASSUME rest = <<>> PROVE net.left # <<>> => HttpStuck(net.left)
        BY <2>4
      <4>2. extra = <<>> /\ got = <<>>
        BY <4>1, <2>1, CatNone
      <4>3. n = 0
        BY <4>2, <1>6, SeqTypes
      <4>4. net = httpNet
        BY <4>3 DEF HttpReadOf
      <4> QED
        BY <4>2, <4>4, <1>2, <1>4
    <3> QED
      BY <3>1, <2>2, <2>4, <1>4 DEF HttpStaleHeaders
  <2>6. HttpInHeaders(r, httpJob, net)
    BY <2>3, <2>4, <2>5, <1>4 DEF HttpInHeaders
  <2>7. HttpOrderly(r, httpJob, net)
    BY <2>6 DEF HttpOrderly
  <2>8. PICK o : o = HttpOut(r, httpJob)
    OBVIOUS
  <2>9. o.req = r /\ o.job = httpJob
    BY <2>8, <1>1, HttpOutIs
  <2>10. HttpGot(result, httpJob) = o
    BY <2>8, <1>1, <1>8, <1>9, <1>10, <1>12, HttpGotCases, Zenon
  <2> QED
    BY <2>7, <2>9, <2>10
<1>13. HttpAllRead(httpReq) => c.res = "data" /\ c.data = <<>> /\ c.req.ptr = HttpNoPtr
  BY <1>1, <1>7, Zenon DEF HttpChunkedRead, HttpDone, HttpResult, HttpReqs
<1> QED
  BY <1>9, <1>11, <1>12, <1>13

\* The end of a read, by the place it was made for
LEMMA HttpReadPlaced ==
  ASSUME HttpTyped, HttpPlaced, HttpTold(httpJob), httpJob.at \in {"headers", "size", "list", "body"}, ~httpReq.ptr.on,
         httpJob.at = "body" => ~httpReq.rbuf.on,
         httpJob.at # "body" => ~HttpHasLine(httpReq.rbuf) /\ ~httpReq.rbuf.eof,
         NEW n \in Nat, NEW result, NEW net, HttpReadOf(n, result, net)
  PROVE  HttpOrderly(HttpGot(result, httpJob).req, HttpGot(result, httpJob).job, net)
<1>1. CASE httpJob.at = "headers" /\ httpReq.chunked
  <2>1. HttpInHeaders(httpReq, httpJob, httpNet)
    BY <1>1 DEF HttpPlaced, HttpOrderly, HttpTold
  <2> QED
    BY <2>1, <1>1, HttpStaleRead
<1>2. CASE httpJob.at = "size" \/ (httpJob.at = "headers" /\ ~httpReq.chunked)
  <2>1. /\ httpJob.at = "headers" => HttpInHeaders(httpReq, httpJob, httpNet) /\ ~httpReq.chunked
        /\ httpJob.at = "size" => HttpInSize(httpReq, httpJob, httpNet)
    BY <1>2 DEF HttpPlaced, HttpOrderly, HttpTold
  <2> QED
    BY <2>1, <1>2, HttpFreshRead
<1>3. CASE httpJob.at \in {"body", "list"}
  <2>1. HttpInBody(httpReq, httpJob, httpNet)
    BY <1>3 DEF HttpPlaced, HttpOrderly, HttpTold
  <2> QED
    BY <2>1, <1>3, HttpReadInBody
<1> QED
  BY <1>1, <1>2, <1>3

\* The end of file keeps every token in its place.
LEMMA HttpEndPlaced ==
  ASSUME HttpTyped, HttpPlaced, HttpTold(httpJob), httpJob.at \in {"headers", "size", "list", "body"}, ~httpReq.ptr.on,
         httpJob.at = "body" => ~httpReq.rbuf.on,
         httpJob.at # "body" => ~HttpHasLine(httpReq.rbuf) /\ ~httpReq.rbuf.eof,
         NEW r \in HttpReqs, HttpReadEnd(r), NEW result, result = HttpDone(r, <<>>)
  PROVE  HttpOrderly(HttpGot(result, httpJob).req, HttpGot(result, httpJob).job, httpNet)
<1>1. CASE httpJob.at = "headers" /\ httpReq.chunked
  <2>1. HttpInHeaders(httpReq, httpJob, httpNet)
    BY <1>1 DEF HttpPlaced, HttpOrderly, HttpTold
  <2> QED
    BY <2>1, <1>1, HttpStaleEnd
<1>2. CASE httpJob.at = "size" \/ (httpJob.at = "headers" /\ ~httpReq.chunked)
  <2>1. /\ httpJob.at = "headers" => HttpInHeaders(httpReq, httpJob, httpNet) /\ ~httpReq.chunked
        /\ httpJob.at = "size" => HttpInSize(httpReq, httpJob, httpNet)
    BY <1>2 DEF HttpPlaced, HttpOrderly, HttpTold
  <2> QED
    BY <2>1, <1>2, HttpFreshEnd
<1>3. CASE httpJob.at \in {"body", "list"}
  <2>1. HttpInBody(httpReq, httpJob, httpNet)
    BY <1>3 DEF HttpPlaced, HttpOrderly, HttpTold
  <2> QED
    BY <2>1, <1>3, HttpEndInBody
<1> QED
  BY <1>1, <1>2, <1>3

\* A read leaves all in its place.
LEMMA HttpReadOrderly ==
  ASSUME HttpTyped, HttpPlaced, HttpRead
  PROVE  HttpPlaced'
<1>1. HttpTypeOK /\ httpReq \in HttpReqs /\ httpJob \in HttpJobs /\ httpNet \in HttpNets
  BY DEF HttpTyped, HttpTypeOK
<1>2. /\ httpJob.at \in {"headers", "size", "list", "body"} /\ ~httpReq.ptr.on
      /\ httpJob.at = "body" => ~httpReq.rbuf.on
      /\ httpJob.at # "body" => ~HttpHasLine(httpReq.rbuf) /\ ~httpReq.rbuf.eof
      /\ \/ \E n \in Nat : \E result, net : HttpReadOf(n, result, net)
         \/ \E r \in HttpReqs : HttpReadEnd(r)
  BY <1>1, HttpReadCases
<1>3. ASSUME NEW result \in HttpResults, result.res # "again" => ~result.req.ptr.on, NEW net \in HttpNets,
             HttpApplyWith(HttpGot(result, httpJob), net),
             HttpTold(httpJob) => HttpOrderly(HttpGot(result, httpJob).req, HttpGot(result, httpJob).job, net)
      PROVE  HttpPlaced'
  <2>1. PICK o : o = HttpGot(result, httpJob)
    OBVIOUS
  <2>2. o \in HttpOuts /\ HttpKeeps(o, httpJob)
    BY <2>1, <1>1, <1>2, <1>3, HttpGotTypes, HttpGotKeeps
  <2>3. HttpOrderly(o.req, o.job, net)
    BY <2>1, <2>2, <1>3, HttpUntold
  <2>4. HttpApplyWith(o, net)
    BY <2>1, <1>3
  <2> QED
    BY <2>2, <2>3, <2>4, <1>3, HttpApplyOrderly DEF HttpPlaced
<1>4. CASE \E n \in Nat : \E result, net : HttpReadOf(n, result, net)
  <2>1. PICK n \in Nat : \E result, net : HttpReadOf(n, result, net)
    BY <1>4
  <2>2. PICK result, net : HttpReadOf(n, result, net)
    BY <2>1
  <2>3. PICK got \in Seq(HttpTokens) : got = Take(httpNet.left, n)
    <3>1. httpNet.left \in Seq(HttpTokens) /\ Len(httpNet.left) \in Nat
      BY <1>1, HttpNetTypes, SeqTypes
    <3>2. n <= Len(httpNet.left)
      BY <2>2, <3>1 DEF HttpReadOf
    <3> QED
      BY <3>1, <3>2, TakeIs
  <2>4. result = HttpChunkedRead(httpReq, got) /\ net \in HttpNets /\ HttpApplyWith(HttpGot(result, httpJob), net)
    BY <2>2, <2>3 DEF HttpReadOf
  <2>5. result \in HttpResults /\ (result.res # "again" => ~result.req.ptr.on)
    BY <2>4, <1>1, <1>2, HttpChunkedReadIs, HttpNone
  <2>6. HttpTold(httpJob) => HttpOrderly(HttpGot(result, httpJob).req, HttpGot(result, httpJob).job, net)
    BY <2>2, <1>2, HttpReadPlaced
  <2> QED
    BY <2>4, <2>5, <2>6, <1>3
<1>5. CASE \E r \in HttpReqs : HttpReadEnd(r)
  <2>1. PICK r \in HttpReqs : HttpReadEnd(r)
    BY <1>5
  <2>2. PICK result : result = HttpDone(r, <<>>)
    OBVIOUS
  <2>3. result \in HttpResults /\ ~result.req.ptr.on
    BY <2>2, HttpDoneIs, HttpEmpty, HttpNone, Zenon
  <2>4. HttpApplyWith(HttpGot(result, httpJob), httpNet)
    BY <2>1, <2>2 DEF HttpReadEnd
  <2>5. HttpTold(httpJob) => HttpOrderly(HttpGot(result, httpJob).req, HttpGot(result, httpJob).job, httpNet)
    BY <2>1, <2>2, <1>2, HttpEndPlaced
  <2> QED
    BY <2>3, <2>4, <2>5, <1>1, <1>3
<1> QED
  BY <1>2, <1>4, <1>5

-----------------------------------------------------------------------------
(* A line                                                                  *)

\* The body comes one token earlier when a line of the headers is taken.
LEMMA HttpBodyAtDrop ==
  ASSUME NEW s \in Seq(HttpTokens), 1 <= Len(s), NEW p \in Nat, NEW f \in Nat, NEW ch \in BOOLEAN,
         NEW k \in Nat, k = 1 + p, HttpBodyAt(s, k, f, ch)
  PROVE  HttpBodyAt(Drop(s, 1), p, f, ch)
<1>1. PICK one \in Nat : one = 1
  OBVIOUS
<1>2. PICK t \in Seq(HttpTokens) :
         t = Drop(s, one) /\ Len(t) = Len(s) - 1 /\ \A i \in 1..(Len(s) - 1) : t[i] = s[one + i]
  BY <1>1, DropIs
<1>3. CASE ch
  <2>1. HttpSizeAt(s, one + p, f) <=> HttpSizeAt(Drop(s, one), p, f)
    BY <1>1, HttpFlowsDrop
  <2>2. HttpLaid(s) => HttpLaid(Drop(s, one))
    BY <1>1, HttpLaidDrop
  <2> QED
    BY <2>1, <2>2, <1>1, <1>3 DEF HttpBodyAt
<1>4. CASE ~ch
  <2>1. PICK l \in Nat : l = Len(s)
    BY SeqTypes
  <2>2. \A j \in 1..(l - k) : s[k + j] = HttpUnit(f + j)
    BY <1>4, <2>1, Zenon DEF HttpBodyAt
  <2>3. ASSUME NEW j \in 1..(Len(t) - p) PROVE t[p + j] = HttpUnit(f + j)
    <3>1. j \in 1..(l - k) /\ p + j \in 1..(l - 1) /\ one + (p + j) = k + j
      BY <2>1, <1>1, <1>2
    <3> QED
      BY <3>1, <2>1, <2>2, <1>2, Zenon
  <2>4. HttpBodyAt(t, p, f, ch)
    BY <1>4, <2>3 DEF HttpBodyAt
  <2> QED
    BY <2>4, <1>1, <1>2
<1> QED
  BY <1>3, <1>4

\* What comes after the first of a sequence
LEMMA DropOne ==
  ASSUME NEW s \in Seq(HttpTokens), 1 <= Len(s)
  PROVE  \E t \in Seq(HttpTokens) :
           t = Drop(s, 1) /\ Len(t) = Len(s) - 1 /\ \A i \in 1..(Len(s) - 1) : t[i] = s[1 + i]
<1>1. PICK one \in Nat : one = 1
  OBVIOUS
<1>2. PICK t \in Seq(HttpTokens) :
         t = Drop(s, one) /\ Len(t) = Len(s) - 1 /\ \A i \in 1..(Len(s) - 1) : t[i] = s[one + i]
  BY <1>1, DropIs, Zenon
<1> QED
  BY <1>1, <1>2

\* What a header line, which starts with h, does to what tells the headers
HttpShifts(r, j, req, job, h) ==
  /\ r.length = (IF h[1] = "length" THEN h[2] ELSE req.length)
  /\ j.line /\ j.start = job.start
  /\ j.chunked \in BOOLEAN /\ (j.chunked <=> job.chunked \/ h[1] = "chunked")
  /\ j.status = (IF job.line THEN job.status ELSE IF h[1] = "status" THEN h[2] ELSE 0)

\* One line of the headers less is still to come.
LEMMA HttpHeadsNext ==
  ASSUME NEW req, NEW job \in HttpJobs, NEW s \in Seq(HttpTokens), HttpHeads(req, job, s), s # <<>>, s[1] # HttpCrlf,
         ~job.line => ~job.chunked, NEW r, NEW j \in HttpJobs, HttpShifts(r, j, req, job, s[1])
  PROVE  HttpHeads(r, j, Drop(s, 1))
<1>1. PICK q \in 0..2, ch \in BOOLEAN : HttpHeadsAt(req, job, s, q, ch)
  BY DEF HttpHeads
<1>2. PICK l \in Nat : l = Len(s) /\ l > 0
  BY SeqTypes
<1>3. PICK one \in Nat : one = 1
  OBVIOUS
<1>4. PICK t \in Seq(HttpTokens) : t = Drop(s, one) /\ Len(t) = l - 1 /\ \A i \in 1..(l - 1) : t[i] = s[one + i]
  <2>1. PICK t \in Seq(HttpTokens) : t = Drop(s, 1) /\ Len(t) = Len(s) - 1 /\ \A i \in 1..(Len(s) - 1) : t[i] = s[1 + i]
    BY <1>2, DropOne, SMTT(30)
  <2> QED
    BY <2>1, <1>2, <1>3
<1>5. PICK h : h = s[1]
  OBVIOUS
<1>6. job.line \in BOOLEAN /\ job.chunked \in BOOLEAN
  BY HttpJobTypes
<1>7. /\ IF job.line THEN q < 2 ELSE q > 0 /\ h[1] = "status"
      /\ IF q = (IF job.line THEN 0 ELSE 1) THEN ch = job.chunked
         ELSE q <= l => s[q][1] = IF ch THEN "chunked" ELSE "length"
      /\ (job.chunked => ch) /\ (ch => req.length = 0)
  BY <1>1, <1>2, <1>5 DEF HttpHeadsAt
<1>8. q + 1 <= l =>
       /\ s[q + 1] = HttpCrlf
       /\ LET status == IF job.line THEN job.status ELSE h[2]
          IN status \in {200, 206} => HttpBodyAt(s, q + 1, HttpFrom(job, status), ch)
  BY <1>1, <1>2, <1>5 DEF HttpHeadsAt
<1>9. q > 0
  BY <1>2, <1>6, <1>7, <1>8, <1>5
<1>10. PICK p \in 0..1 : p + 1 = q
  <2>1. q = 1 \/ q = 2
    BY <1>9
  <2> QED
    BY <2>1
<1>11. /\ (j.chunked => ch) /\ (ch => r.length = 0) /\ j.line
       /\ p = 0 => ch = j.chunked
       /\ p = 1 /\ 1 <= Len(t) => t[1][1] = IF ch THEN "chunked" ELSE "length"
       /\ j.status = (IF job.line THEN job.status ELSE h[2])
  <2>1. /\ r.length = (IF h[1] = "length" THEN h[2] ELSE req.length)
        /\ j.line /\ j.start = job.start
        /\ j.chunked \in BOOLEAN /\ (j.chunked <=> job.chunked \/ h[1] = "chunked")
        /\ j.status = (IF job.line THEN job.status ELSE IF h[1] = "status" THEN h[2] ELSE 0)
    BY <1>5 DEF HttpShifts
  <2>2. CASE job.line
    <3>1. q = 1 /\ p = 0
      BY <2>2, <1>7, <1>9, <1>10
    <3>2. h[1] = IF ch THEN "chunked" ELSE "length"
      BY <3>1, <2>2, <1>2, <1>5, <1>7
    <3> QED
      BY <3>1, <3>2, <2>1, <2>2, <1>6, <1>7
  <2>3. CASE ~job.line
    <3>1. h[1] = "status" /\ ~job.chunked
      BY <2>3, <1>7
    <3>2. ~j.chunked /\ r.length = req.length /\ j.status = h[2]
      BY <3>1, <2>1, <2>3
    <3>3. p = 0 => ch = FALSE
      BY <3>1, <2>3, <1>6, <1>7, <1>10
    <3>4. p = 1 /\ 1 <= Len(t) => t[1][1] = IF ch THEN "chunked" ELSE "length"
      <4>1. SUFFICES ASSUME p = 1, 1 <= Len(t) PROVE t[1][1] = IF ch THEN "chunked" ELSE "length"
        OBVIOUS
      <4>2. q = 2 /\ q <= l /\ 1 \in 1..(l - 1)
        BY <4>1, <1>4, <1>10
      <4>3. s[2][1] = IF ch THEN "chunked" ELSE "length"
        BY <4>2, <2>3, <1>7
      <4>4. t[1] = s[2]
        BY <4>2, <1>3, <1>4
      <4> QED
        BY <4>3, <4>4
    <3> QED
      BY <3>1, <3>2, <3>3, <3>4, <2>1, <2>3, <1>7
  <2> QED
    BY <2>2, <2>3, <1>6
<1>12. ASSUME p + 1 <= Len(t)
       PROVE  /\ t[p + 1] = HttpCrlf
              /\ j.status \in {200, 206} => HttpBodyAt(t, p + 1, HttpFrom(j, j.status), ch)
  <2>1. PICK k \in Nat : k = p + 1 /\ k = q /\ k \in 1..(l - 1) /\ q + 1 <= l /\ one + k = q + 1
    BY <1>3, <1>4, <1>10, <1>12
  <2>2. t[k] = s[q + 1]
    BY <2>1, <1>4
  <2>3. PICK status : status = j.status
    OBVIOUS
  <2>4. status = IF job.line THEN job.status ELSE h[2]
    BY <2>3, <1>11
  <2>5. s[q + 1] = HttpCrlf /\ (status \in {200, 206} => HttpBodyAt(s, q + 1, HttpFrom(job, status), ch))
    BY <2>1, <2>4, <1>8
  <2>6. PICK f \in Nat : f = HttpFrom(job, status)
    BY HttpFromType
  <2>7. HttpFrom(j, status) = f
    BY <2>6 DEF HttpFrom, HttpShifts
  <2>8. PICK m \in Nat : m = q + 1 /\ m = 1 + k
    BY <2>1, <1>3
  <2>9. status \in {200, 206} => HttpBodyAt(Drop(s, 1), k, f, ch)
    <3>1. SUFFICES ASSUME status \in {200, 206} PROVE HttpBodyAt(Drop(s, 1), k, f, ch)
      OBVIOUS
    <3>2. HttpBodyAt(s, m, f, ch)
      BY <3>1, <2>5, <2>6, <2>8
    <3> QED
      BY <3>2, <2>8, <1>2, HttpBodyAtDrop
  <2> QED
    BY <2>1, <2>2, <2>3, <2>5, <2>7, <2>9, <1>3, <1>4
<1>13. HttpHeadsAt(r, j, t, p, ch)
  <2>1. IF j.line THEN p < 2 ELSE p > 0 /\ (t # <<>> => t[1][1] = "status")
    BY <1>11
  <2>2. IF p = (IF j.line THEN 0 ELSE 1) THEN ch = j.chunked
        ELSE p <= Len(t) => t[p][1] = IF ch THEN "chunked" ELSE "length"
    <3>1. p = 0 \/ p = 1
      OBVIOUS
    <3> QED
      BY <3>1, <1>11
  <2>3. p + 1 <= Len(t) =>
         /\ t[p + 1] = HttpCrlf
         /\ LET status == IF j.line THEN j.status ELSE t[1][2]
            IN status \in {200, 206} => HttpBodyAt(t, p + 1, HttpFrom(j, status), ch)
    BY <1>11, <1>12
  <2> QED
    BY <2>1, <2>2, <2>3, <1>11 DEF HttpHeadsAt
<1>14. HttpHeads(r, j, t)
  BY <1>13 DEF HttpHeads
<1> QED
  BY <1>14, <1>3, <1>4

\* At the end of the headers, the body comes after it.
LEMMA HttpHeadsEnd ==
  ASSUME NEW req, NEW job \in HttpJobs, NEW s \in Seq(HttpTokens), HttpHeads(req, job, s), s # <<>>, s[1] = HttpCrlf
  PROVE  /\ job.line /\ (job.chunked => req.length = 0)
         /\ job.status \in {200, 206} => HttpBodyAt(Drop(s, 1), 0, HttpFrom(job, job.status), job.chunked)
<1>1. PICK q \in 0..2, ch \in BOOLEAN : HttpHeadsAt(req, job, s, q, ch)
  BY DEF HttpHeads
<1>2. PICK l \in Nat : l = Len(s) /\ l > 0
  BY SeqTypes
<1>3. job.line \in BOOLEAN /\ job.chunked \in BOOLEAN
  BY HttpJobTypes
<1>4. s[1][1] = "crlf"
  BY HttpCrlfType
<1>5. job.line
  BY <1>1, <1>3, <1>4 DEF HttpHeadsAt
<1>6. q = 0
  <2>1. q # 0 => q = 1
    BY <1>1, <1>5 DEF HttpHeadsAt
  <2>2. q = 1 => s[1][1] = IF ch THEN "chunked" ELSE "length"
    BY <1>1, <1>2, <1>5 DEF HttpHeadsAt
  <2> QED
    BY <2>1, <2>2, <1>4
<1>7. /\ ch = job.chunked /\ (ch => req.length = 0)
      /\ job.status \in {200, 206} => HttpBodyAt(s, 1, HttpFrom(job, job.status), ch)
  BY <1>1, <1>2, <1>5, <1>6 DEF HttpHeadsAt
<1>8. job.status \in {200, 206} => HttpBodyAt(Drop(s, 1), 0, HttpFrom(job, job.status), ch)
  <2>1. SUFFICES ASSUME job.status \in {200, 206}
                 PROVE  HttpBodyAt(Drop(s, 1), 0, HttpFrom(job, job.status), ch)
    OBVIOUS
  <2>2. PICK f \in Nat : f = HttpFrom(job, job.status)
    BY HttpFromType
  <2>3. PICK one \in Nat, z \in Nat : one = 1 /\ z = 0 /\ one = 1 + z
    OBVIOUS
  <2>4. HttpBodyAt(s, one, f, ch)
    BY <2>1, <2>2, <2>3, <1>7
  <2>5. HttpBodyAt(Drop(s, 1), z, f, ch)
    BY <2>3, <2>4, <1>2, HttpBodyAtDrop
  <2> QED
    BY <2>2, <2>3, <2>5
<1> QED
  BY <1>5, <1>7, <1>8

\* The body comes next, and what the line buffer holds is the first of it.
LEMMA HttpBegunOrderly ==
  ASSUME NEW o, NEW r \in HttpReqs, NEW job \in HttpJobs, HttpBegins(o, r, job), ~r.ptr.on, NEW net, net.todo = <<>>,
         job.got = <<>>, job.first = 0, NEW d \in Seq(HttpTokens), r.rbuf.data = d,
         job.status \in {200, 206} => HttpBody(r, d, HttpFrom(job, job.status), net.left)
  PROVE  HttpOrderly(o.req, o.job, net)
<1>1. /\ o.job.at \in {"body", "list"} /\ o.job.first = HttpFrom(job, job.status) /\ job.status \in {200, 206}
  BY DEF HttpBegins, HttpFrom
<1>2. HttpBody(o.req, d, o.job.first, net.left)
  BY <1>1, HttpBodySame DEF HttpBegins
<1>3. HttpGiven(o.req, o.job) = d
  <2>1. Cat(<<>>, d) = d
    BY CatEmpty
  <2> QED
    BY <2>1 DEF HttpBegins, HttpGiven
<1>4. ~o.req.ptr.on
  BY DEF HttpBegins
<1>5. HttpInBody(o.req, o.job, net)
  BY <1>2, <1>3, <1>4 DEF HttpInBody
<1> QED
  BY <1>1, <1>5, HttpInBodyOrderly, Zenon

\* What a header line, and the end of the headers, lead to, by names
HttpHeaded(o, req, job, h) ==
  /\ o \in HttpOuts /\ o.req \in HttpReqs /\ o.job \in HttpJobs
  /\ o.req.ptr = req.ptr /\ o.req.rbuf = req.rbuf /\ o.req.extra = req.extra /\ o.req.chunk = req.chunk
  /\ o.req.length = (IF h[1] = "length" THEN h[2] ELSE req.length)
  /\ o.req.chunked = req.chunked /\ o.req.eof = req.eof
  /\ o.job.at = job.at /\ o.job.op = job.op /\ o.job.start = job.start /\ o.job.first = job.first
  /\ o.job.got = job.got /\ o.job.clean = job.clean /\ o.job.line
  /\ (o.job.chunked <=> job.chunked \/ h[1] = "chunked")
  /\ o.job.status = (IF job.line THEN job.status ELSE IF h[1] = "status" THEN h[2] ELSE 0)
HttpSizeNext(o, req, job) ==
  /\ o.req = req /\ o.job.at = "size"
  /\ o.job.op = job.op /\ o.job.start = job.start /\ o.job.first = job.first /\ o.job.status = job.status
  /\ o.job.got = job.got /\ o.job.clean = job.clean /\ o.job.chunked = job.chunked
HttpBodyNext(o, req, job) ==
  \/ HttpOver(o)
  \/ \E r \in HttpReqs :
       /\ HttpBegins(o, r, job)
       /\ r.ptr = req.ptr /\ r.rbuf = req.rbuf /\ r.extra = req.extra /\ r.chunk = req.chunk
       /\ r.length = req.length /\ r.chunked = FALSE /\ r.eof = req.eof

\* A header line is taken.
LEMMA HttpHeaderHeaded ==
  ASSUME NEW req \in HttpReqs, NEW job \in HttpJobs, job.at # "none", NEW h \in HttpTokens
  PROVE  HttpHeaded(HttpHeader(req, job, h), req, job, h)
BY HttpHeaderIs DEF HttpHeaded

\* The end of the headers is taken.
LEMMA HttpHeadersNext ==
  ASSUME NEW req \in HttpReqs, NEW job \in HttpJobs, ~req.ptr.on
  PROVE  /\ job.chunked => HttpSizeNext(HttpHeaders(req, job), req, job)
         /\ ~job.chunked => HttpBodyNext(HttpHeaders(req, job), req, job)
<1> DEFINE o == HttpHeaders(req, job)
<1>1. /\ job.chunked =>
                 /\ o \in HttpOuts /\ o.req = req /\ o.job \in HttpJobs /\ o.job.at = "size"
                 /\ o.job.op = job.op /\ o.job.start = job.start /\ o.job.first = job.first /\ o.job.status = job.status
                 /\ o.job.got = job.got /\ o.job.clean = job.clean /\ o.job.chunked = job.chunked
      /\ ~job.chunked =>
                 \/ HttpOver(o)
                 \/ \E r \in HttpReqs :
                      /\ HttpBegins(o, r, job)
                      /\ r.ptr = req.ptr /\ r.rbuf = req.rbuf /\ r.extra = req.extra /\ r.chunk = req.chunk
                      /\ r.length = req.length /\ r.chunked = FALSE /\ r.eof = req.eof
  BY HttpHeadersIs, Zenon
<1> HIDE DEF o
<1>2. job.chunked => HttpSizeNext(o, req, job)
  BY <1>1, Zenon DEF HttpSizeNext
<1>3. ~job.chunked => HttpBodyNext(o, req, job)
  BY <1>1 DEF HttpBodyNext
<1> QED
  BY <1>2, <1>3 DEF o

\* A line of the headers
LEMMA HttpLineInHeaders ==
  ASSUME HttpTyped, httpJob.at = "headers", HttpInHeaders(httpReq, httpJob, httpNet), ~httpReq.ptr.on,
         NEW n \in 1..Len(httpReq.rbuf.data), NEW r \in HttpReqs, HttpLineAt(n, r),
         NEW o, o = HttpTakeLine(r, httpJob, httpReq.rbuf.data[1])
  PROVE  HttpOrderly(o.req, o.job, httpNet)
<1>1. httpReq \in HttpReqs /\ httpJob \in HttpJobs /\ httpNet \in HttpNets
  BY DEF HttpTyped, HttpTypeOK
<1>2. PICK b \in Seq(HttpTokens) : b = httpReq.rbuf.data
  BY <1>1, HttpReqTypes
<1>3. PICK left \in Seq(HttpTokens) : left = httpNet.left
  BY <1>1, HttpNetTypes
<1>4. PICK l \in Nat : l = Len(b) /\ l > 0 /\ b # <<>>
  BY <1>2, SeqTypes
<1>5. /\ httpJob.got = <<>> /\ httpJob.first = 0 /\ httpReq.chunk = 0 /\ ~httpReq.eof /\ httpReq.ptr.done = <<>>
      /\ ~httpReq.rbuf.eof /\ (~httpJob.line => httpJob.status = 0 /\ ~httpJob.chunked) /\ httpNet.todo = <<>>
      /\ ~httpReq.chunked /\ httpReq.extra = <<>>
  BY <1>2, <1>4 DEF HttpInHeaders, HttpStaleHeaders, HttpFreshHeaders
<1>6. PICK s \in Seq(HttpTokens) : /\ s = Cat(b, left) /\ Len(s) = Len(b) + Len(left)
                                   /\ \A i \in 1..Len(b) : s[i] = b[i]
                                   /\ \A i \in 1..Len(left) : s[Len(b) + i] = left[i]
  BY CatPick, Zenon
<1>7. HttpHeads(httpReq, httpJob, s) /\ HttpHeads(httpReq, httpJob, b)
  <2>1. HttpHeads(httpReq, httpJob, Cat(b, left))
    BY <1>2, <1>3, <1>5 DEF HttpInHeaders, HttpFreshHeaders
  <2>2. HttpHeads(httpReq, httpJob, b)
    BY <2>1, <1>1, HttpHeadsCut
  <2> QED
    BY <2>1, <2>2, <1>6
<1>8. PICK h \in HttpTokens : h = b[1] /\ h = s[1]
  <2>1. 1 \in 1..Len(b)
    BY <1>4
  <2> QED
    BY <2>1, <1>6, SeqTypes
<1>9. s # <<>>
  <2>1. Len(left) \in Nat
    BY SeqTypes
  <2>2. Len(s) > 0
    BY <2>1, <1>4, <1>6
  <2> QED
    BY <2>2, SeqTypes
<1>10. n = 1
  <2>1. HttpIsLine(httpReq.rbuf, n)
    BY DEF HttpLineAt
  <2>2. h[1] # "size"
    <3>1. PICK q \in 0..2, ch \in BOOLEAN : HttpHeadsAt(httpReq, httpJob, b, q, ch)
      BY <1>7 DEF HttpHeads
    <3>2. CASE ~httpJob.line
      BY <3>1, <3>2, <1>4, <1>8 DEF HttpHeadsAt
    <3>3. CASE httpJob.line /\ q = 0
      <4>1. q + 1 = 1 /\ q + 1 <= Len(b)
        BY <3>3, <1>4
      <4>2. b[q + 1] = HttpCrlf
        BY <3>1, <4>1 DEF HttpHeadsAt
      <4> QED
        BY <4>1, <4>2, <1>8, HttpCrlfType, Zenon
    <3>4. CASE httpJob.line /\ q # 0
      <4>1. q = 1
        BY <3>1, <3>4 DEF HttpHeadsAt
      <4>2. h[1] = IF ch THEN "chunked" ELSE "length"
        BY <4>1, <3>1, <3>4, <1>4, <1>8 DEF HttpHeadsAt
      <4> QED
        BY <4>2
    <3> QED
      BY <3>2, <3>3, <3>4
  <2>3. n > 1 => 1 \in 1..(n - 1)
    BY <1>2, <1>4
  <2>4. n > 1 => b[1][1] = "size"
    BY <2>1, <2>3, <1>2 DEF HttpIsLine
  <2> QED
    BY <2>2, <2>4, <1>2, <1>4, <1>8
<1>11. PICK d \in Seq(HttpTokens) : d = Drop(b, 1)
  BY <1>4, DropOne
<1>12. /\ r.rbuf.data = d /\ r.rbuf.eof = FALSE /\ ~r.ptr.on /\ r.ptr = httpReq.ptr /\ r.extra = <<>> /\ r.chunk = 0
       /\ r.length = httpReq.length /\ r.chunked = httpReq.chunked /\ ~r.chunked /\ ~r.eof
  <2>1. httpReq.rbuf.eof = FALSE
    BY <1>1, <1>5, HttpReqTypes
  <2> QED
    BY <2>1, <1>2, <1>5, <1>10, <1>11 DEF HttpLineAt, HttpLineOff
<1>13. Cat(d, left) = Drop(s, 1)
  <2>1. PICK one \in Nat : one = 1 /\ one <= Len(b)
    BY <1>4
  <2>2. Drop(Cat(b, left), one) = Cat(Drop(b, one), left)
    BY <2>1, DropCat
  <2> QED
    BY <2>1, <2>2, <1>6, <1>11
<1>14. o = HttpTakeLine(r, httpJob, h)
  BY <1>2, <1>8
<1>15. CASE h # HttpCrlf /\ o = HttpHeader(r, httpJob, h)
  <2>0. HttpHeaded(o, r, httpJob, h)
    BY <1>1, <1>15, HttpHeaderHeaded
  <2>1. PICK q : q = o.req
    OBVIOUS
  <2>2. PICK j \in HttpJobs : j = o.job
    BY <2>0 DEF HttpHeaded
  <2>3. /\ q.ptr = r.ptr /\ q.rbuf = r.rbuf /\ q.extra = r.extra /\ q.chunk = r.chunk
        /\ q.length = (IF h[1] = "length" THEN h[2] ELSE r.length)
        /\ q.chunked = r.chunked /\ q.eof = r.eof
        /\ j.at = httpJob.at /\ j.op = httpJob.op /\ j.start = httpJob.start /\ j.first = httpJob.first
        /\ j.got = httpJob.got /\ j.clean = httpJob.clean /\ j.line
        /\ (j.chunked <=> httpJob.chunked \/ h[1] = "chunked")
        /\ j.status = (IF httpJob.line THEN httpJob.status ELSE IF h[1] = "status" THEN h[2] ELSE 0)
    BY <2>0, <2>1, <2>2 DEF HttpHeaded
  <2>4. HttpShifts(q, j, httpReq, httpJob, h)
    BY <2>3, <1>12, HttpJobTypes DEF HttpShifts
  <2>5. HttpHeads(q, j, Drop(s, 1))
    BY <2>4, <1>1, <1>5, <1>7, <1>8, <1>9, <1>15, HttpHeadsNext
  <2>6. HttpFreshHeaders(q, j, httpNet)
    BY <2>3, <2>5, <1>3, <1>5, <1>12, <1>13 DEF HttpFreshHeaders
  <2>7. q.ptr.done = <<>>
    BY <2>3, <1>5, <1>12
  <2>8. HttpInHeaders(q, j, httpNet)
    BY <2>3, <2>6, <2>7, <1>5, <1>12 DEF HttpInHeaders
  <2>9. HttpOrderly(q, j, httpNet)
    BY <2>3, <2>8 DEF HttpOrderly
  <2> QED
    BY <2>1, <2>2, <2>9
<1>16. CASE h = HttpCrlf /\ o = HttpHeaders(r, httpJob)
  <2>1. /\ httpJob.line /\ (httpJob.chunked => httpReq.length = 0)
        /\ httpJob.status \in {200, 206} =>
             HttpBodyAt(Drop(s, 1), 0, HttpFrom(httpJob, httpJob.status), httpJob.chunked)
    <3>1. s[1] = HttpCrlf
      BY <1>8, <1>16
    <3> QED
      BY <3>1, <1>1, <1>7, <1>9, HttpHeadsEnd
  <2>2. PICK f \in Nat : f = HttpFrom(httpJob, httpJob.status)
    BY <1>1, HttpFromType
  <2>3. PICK t \in Seq(HttpTokens) : t = Cat(d, left) /\ t = Drop(s, 1)
    BY <1>13, CatIs
  <2>4. CASE httpJob.chunked
    <3>1. /\ o.req = r /\ o.job.at = "size"
          /\ o.job.op = httpJob.op /\ o.job.start = httpJob.start /\ o.job.first = httpJob.first
          /\ o.job.status = httpJob.status /\ o.job.got = httpJob.got /\ o.job.clean = httpJob.clean
          /\ o.job.chunked = httpJob.chunked
      <4>1. HttpSizeNext(o, r, httpJob)
        BY <2>4, <1>1, <1>12, <1>16, HttpHeadersNext
      <4> QED
        BY <4>1 DEF HttpSizeNext
    <3>2. httpJob.status \in {200, 206} => HttpSizeAt(t, 0, f) /\ HttpLaid(t)
      BY <2>1, <2>2, <2>3, <2>4 DEF HttpBodyAt
    <3>3. HttpFrom(o.job, o.job.status) = f
      BY <3>1, <2>2 DEF HttpFrom
    <3>4. HttpInSize(o.req, o.job, httpNet)
      BY <3>1, <3>2, <3>3, <2>1, <2>3, <2>4, <1>3, <1>5, <1>12, ZenonT(60) DEF HttpInSize
    <3> QED
      BY <3>1, <3>4 DEF HttpOrderly
  <2>5. CASE ~httpJob.chunked
    <3>1. \/ HttpOver(o)
          \/ \E q \in HttpReqs :
               /\ HttpBegins(o, q, httpJob)
               /\ q.ptr = r.ptr /\ q.rbuf = r.rbuf /\ q.extra = r.extra /\ q.chunk = r.chunk
               /\ q.length = r.length /\ q.chunked = FALSE /\ q.eof = r.eof
      BY <2>5, <1>1, <1>12, <1>16, HttpHeadersNext, Zenon DEF HttpBodyNext
    <3>2. ASSUME NEW q \in HttpReqs, HttpBegins(o, q, httpJob),
                 q.ptr = r.ptr, q.rbuf = r.rbuf, q.extra = r.extra, q.chunk = r.chunk, q.chunked = FALSE
          PROVE  HttpOrderly(o.req, o.job, httpNet)
      <4>1. ASSUME httpJob.status \in {200, 206} PROVE HttpBody(q, d, f, left)
        <5>1. HttpBodyAt(t, 0, f, FALSE)
          <6>1. httpJob.chunked = FALSE
            BY <2>5, <1>1, HttpJobTypes
          <6> QED
            BY <6>1, <4>1, <2>1, <2>2, <2>3, Zenon
        <5>2. HttpRun(t, f)
          <6>1. Len(t) \in Nat
            BY SeqTypes
          <6>2. \A i \in 1..(Len(t) - 0) : t[0 + i] = HttpUnit(f + i)
            BY <5>1 DEF HttpBodyAt
          <6>3. \A i \in 1..Len(t) : t[i] = HttpUnit(f + i)
            BY <6>1, <6>2
          <6> QED
            BY <6>3 DEF HttpRun
        <5>3. HttpGood(Cat(d, left), f)
          BY <5>2, <2>3, HttpRunGood
        <5>4. HttpPlain(q, d, f, left)
          BY <5>3, <3>2, <1>12 DEF HttpPlain
        <5> QED
          BY <5>4, <3>2 DEF HttpBody
      <4>2. q.rbuf.data = d /\ ~q.ptr.on
        BY <3>2, <1>12
      <4> QED
        BY <4>1, <4>2, <3>2, <2>2, <1>1, <1>3, <1>5, HttpBegunOrderly, ZenonT(60)
    <3> QED
      BY <3>1, <3>2, HttpOverOrderly, Zenon
  <2> QED
    BY <2>4, <2>5
<1> QED
  BY <1>1, <1>12, <1>14, <1>15, <1>16, HttpTakeLineCases

\* What the size of the first chunk leads to, by a name: none, all that is in the line buffer, or
\* not all of it
HttpFirstNone(r, req, n) == n = 0 /\ r.chunked = req.chunked /\ r.chunk = 0 /\ r.rbuf = req.rbuf /\ r.extra = req.extra
HttpFirstAll(r, req, n) ==
  /\ n > 0 /\ n >= Len(req.rbuf.data) /\ r.chunked = TRUE /\ r.chunk = n - Len(req.rbuf.data)
  /\ r.rbuf = req.rbuf /\ r.extra = req.extra
HttpFirstSome(r, req, n) ==
  /\ n > 0 /\ n < Len(req.rbuf.data) /\ r.chunked = TRUE /\ r.chunk = 0
  /\ r.rbuf.data = Take(req.rbuf.data, n) /\ r.extra = Drop(req.rbuf.data, n)
HttpFirstNext(o, req, job, n) ==
  \/ HttpOver(o)
  \/ \E r \in HttpReqs :
       /\ HttpBegins(o, r, job) /\ r.ptr = req.ptr /\ r.length = req.length /\ r.eof = req.eof
       /\ HttpFirstNone(r, req, n) \/ HttpFirstAll(r, req, n) \/ HttpFirstSome(r, req, n)

\* The size of the first chunk is taken.
LEMMA HttpFirstChunkNext ==
  ASSUME NEW req \in HttpReqs, NEW job \in HttpJobs, ~req.ptr.on, NEW n \in Nat
  PROVE  HttpFirstNext(HttpFirstChunk(req, job, n), req, job, n)
<1> DEFINE o == HttpFirstChunk(req, job, n)
           b == req.rbuf.data
<1>1. \/ HttpOver(o)
      \/ \E r \in HttpReqs :
           /\ HttpBegins(o, r, job)
           /\ r.ptr = req.ptr /\ r.length = req.length /\ r.eof = req.eof /\ r.rbuf.on = req.rbuf.on
           /\ \/ n = 0 /\ r.chunked = req.chunked /\ r.chunk = 0 /\ r.rbuf = req.rbuf /\ r.extra = req.extra
              \/ /\ n > 0 /\ n >= Len(b) /\ r.chunked = TRUE /\ r.chunk = n - Len(b) /\ r.rbuf = req.rbuf
                 /\ r.extra = req.extra
              \/ /\ n > 0 /\ n < Len(b) /\ r.chunked = TRUE /\ r.chunk = 0
                 /\ r.rbuf.data = Take(b, n) /\ r.extra = Drop(b, n)
  BY HttpFirstChunkIs, Zenon
<1> HIDE DEF o
<1>2. HttpFirstNext(o, req, job, n)
  BY <1>1 DEF HttpFirstNext, HttpFirstNone, HttpFirstAll, HttpFirstSome
<1> QED
  BY <1>2 DEF o

\* The line with the size of the first chunk: the size and its end of line, or at the end of file
\* the size alone
LEMMA HttpSizeLine ==
  ASSUME NEW b \in Seq(HttpTokens), NEW left \in Seq(HttpTokens), NEW eof, eof => left = <<>>,
         NEW f \in Nat, HttpSizeAt(Cat(b, left), 0, f), NEW n \in 1..Len(b), b[1][1] = "size",
         \A i \in 1..(n - 1) : b[i][1] = "size", b[n][1] # "size" \/ (eof /\ n = Len(b))
  PROVE  n = 2 \/ (n = 1 /\ Len(b) = 1 /\ left = <<>>)
<1>1. PICK s \in Seq(HttpTokens) : /\ s = Cat(b, left) /\ Len(s) = Len(b) + Len(left)
                                   /\ \A i \in 1..Len(b) : s[i] = b[i]
                                   /\ \A i \in 1..Len(left) : s[Len(b) + i] = left[i]
  BY CatPick, Zenon
<1>2. PICK l \in Nat : l = Len(b) /\ n \in 1..l
  BY SeqTypes
<1>3. Len(left) \in Nat
  BY SeqTypes
<1>4. l >= 2 => b[2] = HttpCrlf
  <2>1. SUFFICES ASSUME l >= 2 PROVE b[2] = HttpCrlf
    OBVIOUS
  <2>2. 0 + 2 <= Len(s) /\ 0 + 2 = 2 /\ 2 \in 1..Len(b)
    BY <2>1, <1>1, <1>2, <1>3
  <2>3. s[0 + 2] = HttpCrlf
    BY <2>2, <1>1 DEF HttpSizeAt
  <2> QED
    BY <2>2, <2>3, <1>1
<1>5. n > 2 => FALSE
  <2>1. n > 2 => 2 \in 1..(n - 1) /\ l >= 2
    BY <1>2
  <2> QED
    BY <2>1, <1>4, HttpCrlfType
<1>6. n = 1 => Len(b) = 1 /\ left = <<>>
  BY <1>2
<1> QED
  BY <1>2, <1>5, <1>6

\* The body that comes after the size of its first chunk
LEMMA HttpFirstBody ==
  ASSUME NEW req \in HttpReqs, ~req.ptr.on, ~req.chunked, req.extra = <<>>, req.length = 0, ~req.eof, req.chunk = 0,
         NEW d \in Seq(HttpTokens), d = req.rbuf.data, NEW left \in Seq(HttpTokens), NEW f \in Nat, NEW v \in Nat,
         v = 0 => HttpGood(Cat(d, left), f), v > 0 => HttpStream(Cat(d, left), v, f),
         NEW r \in HttpReqs, r.ptr = req.ptr, r.length = req.length, r.eof = req.eof,
         HttpFirstNone(r, req, v) \/ HttpFirstAll(r, req, v) \/ HttpFirstSome(r, req, v),
         NEW e \in Seq(HttpTokens), e = r.rbuf.data
  PROVE  HttpBody(r, e, f, left)
<1>1. PICK l \in Nat : l = Len(d)
  BY SeqTypes
<1>2. r.ptr = HttpNoPtr /\ ~r.ptr.on /\ req.chunked = FALSE /\ r.eof = FALSE /\ r.length = 0
  BY HttpReqTypes
<1>3. PICK x \in Seq(HttpTokens) : x = Cat(d, left) /\ Len(x) = Len(d) + Len(left)
  BY CatLen, Zenon
<1>4. Len(left) \in Nat
  BY SeqTypes
<1>5. CASE HttpFirstNone(r, req, v)
  <2>1. v = 0 /\ e = d /\ r.extra = <<>> /\ r.chunk = 0 /\ r.chunked = FALSE
    BY <1>2, <1>5 DEF HttpFirstNone
  <2>2. HttpPlain(r, e, f, left)
    BY <2>1, <1>2 DEF HttpPlain
  <2> QED
    BY <2>1, <2>2 DEF HttpBody
<1>6. ASSUME v > 0, NEW n \in Nat, n <= l, n <= v, e = Take(d, n), r.chunked = TRUE, r.chunk = v - n,
             NEW rest \in Seq(HttpTokens), rest = Cat(Drop(d, n), left),
             NEW extra \in Seq(HttpTokens), extra = r.extra, Cat(extra, left) = rest, r.chunk > 0 => extra = <<>>
      PROVE  HttpBody(r, e, f, left)
  <2>1. n <= Len(x)
    BY <1>1, <1>3, <1>4, <1>6
  <2>2. HttpRun(Take(x, n), f) /\ HttpStream(Drop(x, n), v - n, f + n)
    <3>1. HttpStream(x, v, f)
      BY <1>3, <1>6
    <3> QED
      BY <3>1, <2>1, <1>6, HttpConsume
  <2>3. Take(x, n) = e /\ Drop(x, n) = rest
    BY <1>1, <1>3, <1>6, DropCat, SMTT(30)
  <2>4. Len(e) = n
    BY <1>1, <1>6, TakeIs
  <2>5. HttpRun(e, f) /\ HttpStream(Cat(extra, left), v - n, f + Len(e))
    BY <2>2, <2>3, <2>4, <1>6
  <2>6. HttpBetween(r, e, f, left)
    BY <2>5, <1>6 DEF HttpBetween
  <2> QED
    BY <2>6, <1>2, <1>6, HttpBetweenBody, Zenon
<1>7. CASE HttpFirstAll(r, req, v)
  <2>1. v > 0 /\ l <= v /\ e = d /\ r.extra = <<>> /\ r.chunk = v - l /\ r.chunked = TRUE
    BY <1>1, <1>7 DEF HttpFirstAll
  <2>2. Take(d, l) = d /\ Drop(d, l) = <<>>
    BY <1>1, DropEnds
  <2>3. PICK no \in Seq(HttpTokens) : no = <<>>
    BY HttpEmpty, Zenon
  <2>4. PICK rest \in Seq(HttpTokens) : rest = left
    OBVIOUS
  <2>5. rest = Cat(Drop(d, l), left) /\ Cat(no, left) = rest
    BY <2>2, <2>3, <2>4, CatEmpty
  <2>6. l <= l
    OBVIOUS
  <2> QED
    BY <2>1, <2>2, <2>3, <2>5, <2>6, <1>6, Zenon
<1>8. CASE HttpFirstSome(r, req, v)
  <2>1. v > 0 /\ v <= l /\ e = Take(d, v) /\ r.extra = Drop(d, v) /\ r.chunk = 0 /\ r.chunked = TRUE
    BY <1>1, <1>8 DEF HttpFirstSome
  <2>2. PICK extra \in Seq(HttpTokens) : extra = Drop(d, v)
    BY <2>1, <1>1, DropIs
  <2>3. PICK rest \in Seq(HttpTokens) : rest = Cat(extra, left)
    BY CatIs
  <2>4. v <= v /\ v - v = 0 /\ ~(r.chunk > 0)
    BY <2>1
  <2> QED
    BY <2>1, <2>2, <2>3, <2>4, <1>6, Zenon
<1> QED
  BY <1>5, <1>7, <1>8

\* The line with the size of the first chunk leaves all in its place.
LEMMA HttpLineInSize ==
  ASSUME HttpTyped, httpJob.at = "size", HttpInSize(httpReq, httpJob, httpNet), ~httpReq.ptr.on,
         NEW n \in 1..Len(httpReq.rbuf.data), NEW r \in HttpReqs, HttpLineAt(n, r),
         NEW o, o = HttpTakeLine(r, httpJob, httpReq.rbuf.data[1])
  PROVE  HttpOrderly(o.req, o.job, httpNet)
<1>1. httpReq \in HttpReqs /\ httpJob \in HttpJobs /\ httpNet \in HttpNets
  BY DEF HttpTyped, HttpTypeOK
<1>2. PICK b \in Seq(HttpTokens) : b = httpReq.rbuf.data
  BY <1>1, HttpReqTypes
<1>3. PICK left \in Seq(HttpTokens) : left = httpNet.left
  BY <1>1, HttpNetTypes
<1>4. PICK l \in Nat : l = Len(b) /\ l > 0 /\ n \in 1..l /\ n \in Nat /\ n <= l
  BY <1>2, SeqTypes
<1>5. /\ httpJob.got = <<>> /\ httpJob.first = 0 /\ httpJob.chunked /\ httpNet.todo = <<>>
      /\ ~httpReq.chunked /\ httpReq.chunk = 0 /\ httpReq.extra = <<>> /\ httpReq.length = 0 /\ ~httpReq.eof
      /\ (httpReq.rbuf.eof => left = <<>>)
      /\ httpJob.status \in {200, 206} =>
           /\ HttpSizeAt(Cat(b, left), 0, HttpFrom(httpJob, httpJob.status)) /\ HttpLaid(Cat(b, left))
  BY <1>2, <1>3 DEF HttpInSize
<1>6. PICK s \in Seq(HttpTokens) : /\ s = Cat(b, left) /\ Len(s) = Len(b) + Len(left)
                                   /\ \A i \in 1..Len(b) : s[i] = b[i]
                                   /\ \A i \in 1..Len(left) : s[Len(b) + i] = left[i]
  BY CatPick, Zenon
<1>7. PICK h \in HttpTokens : h = b[1] /\ h = s[1]
  <2>1. 1 \in 1..Len(b)
    BY <1>4
  <2> QED
    BY <2>1, <1>6, SeqTypes
<1>8. PICK d \in Seq(HttpTokens) : d = Drop(b, n)
  BY <1>4, DropIs
<1>9. /\ r.rbuf.data = d /\ ~r.ptr.on /\ r.ptr = httpReq.ptr /\ r.extra = <<>> /\ r.chunk = 0
      /\ r.length = 0 /\ ~r.chunked /\ ~r.eof
  BY <1>2, <1>5, <1>8 DEF HttpLineAt, HttpLineOff
<1>10. o = HttpTakeLine(r, httpJob, h)
  BY <1>2, <1>7
<1>11. CASE h[1] # "size" /\ o = HttpWrong(r, httpJob)
  <2>1. HttpOver(o)
    BY <1>1, <1>9, <1>11, HttpWrongIs
  <2> QED
    BY <2>1, HttpOverOrderly, Zenon
<1>12. CASE h[1] = "size" /\ o = HttpFirstChunk(r, httpJob, h[2])
  <2>1. PICK v \in Nat : v = h[2]
    BY HttpTokenTypes
  <2>2. HttpFirstNext(o, r, httpJob, v)
    BY <2>1, <1>1, <1>9, <1>12, HttpFirstChunkNext
  <2>3. PICK f \in Nat : f = HttpFrom(httpJob, httpJob.status)
    BY <1>1, HttpFromType
  <2>4. ASSUME httpJob.status \in {200, 206}
        PROVE  /\ v = 0 => HttpGood(Cat(d, left), f)
               /\ v > 0 => HttpStream(Cat(d, left), v, f)
    <3>1. HttpSizeAt(s, 0, f) /\ HttpLaid(s)
      BY <2>3, <2>4, <1>5, <1>6
    <3>2. n = 2 \/ (n = 1 /\ Len(b) = 1 /\ left = <<>>)
      <4>1. HttpSizeAt(Cat(b, left), 0, f)
        BY <3>1, <1>6
      <4>2. b[1][1] = "size"
        BY <1>7, <1>12
      <4>3. /\ \A i \in 1..(n - 1) : b[i][1] = "size"
            /\ b[n][1] # "size" \/ (httpReq.rbuf.eof /\ n = Len(b))
        BY <1>2 DEF HttpLineAt, HttpIsLine
      <4>4. n \in 1..Len(b)
        BY <1>2
      <4> QED
        BY <4>1, <4>2, <4>3, <4>4, <1>5, HttpSizeLine
    <3>3. CASE n = 2
      <4>1. Cat(d, left) = Drop(s, n)
        BY <1>4, <1>6, <1>8, DropCat
      <4>2. PICK z \in Nat : z = 0 /\ n = z + 2
        BY <3>3, <1>4
      <4>3. n <= Len(s)
        <5>1. Len(left) \in Nat
          BY SeqTypes
        <5> QED
          BY <5>1, <1>4, <1>6
      <4>4. s[z + 1][2] = v
        <5>1. z + 1 = 1
          BY <4>2
        <5> QED
          BY <5>1, <2>1, <1>7
      <4>5. HttpSizeAt(s, z, f)
        BY <3>1, <4>2
      <4>6. v > 0 => HttpStream(Drop(s, n), v, f)
        BY <4>2, <4>3, <4>4, <4>5, <3>1, <1>4, HttpHeaderOff
      <4>7. v = 0 => HttpGood(Drop(s, n), f)
        BY <4>2, <4>3, <4>4, <4>5, <1>4, HttpLastOff, Zenon
      <4> QED
        BY <4>1, <4>6, <4>7
    <3>4. CASE n = 1 /\ Len(b) = 1 /\ left = <<>>
      <4>1. d = <<>>
        <5>1. d = Drop(b, Len(b))
          BY <3>4, <1>8
        <5> QED
          BY <5>1, DropEnds
      <4>2. Cat(d, left) = <<>>
        BY <4>1, <3>4, CatEmpty, Zenon
      <4>3. HttpGood(<<>>, f) /\ HttpStream(<<>>, v, f)
        BY HttpOfNothing
      <4> QED
        BY <4>2, <4>3
    <3> QED
      BY <3>2, <3>3, <3>4
  <2>5. ASSUME NEW q \in HttpReqs, HttpBegins(o, q, httpJob), q.ptr = r.ptr, q.length = r.length, q.eof = r.eof,
               HttpFirstNone(q, r, v) \/ HttpFirstAll(q, r, v) \/ HttpFirstSome(q, r, v)
        PROVE  HttpOrderly(o.req, o.job, httpNet)
    <3>1. PICK e \in Seq(HttpTokens) : e = q.rbuf.data
      BY HttpReqTypes
    <3>2. ASSUME httpJob.status \in {200, 206} PROVE HttpBody(q, e, f, left)
      <4>1. /\ ~r.ptr.on /\ ~r.chunked /\ r.extra = <<>> /\ r.length = 0 /\ ~r.eof /\ r.chunk = 0 /\ d = r.rbuf.data
        BY <1>9
      <4>2. /\ v = 0 => HttpGood(Cat(d, left), f)
            /\ v > 0 => HttpStream(Cat(d, left), v, f)
        BY <3>2, <2>4
      <4>3. /\ q.ptr = r.ptr /\ q.length = r.length /\ q.eof = r.eof
            /\ HttpFirstNone(q, r, v) \/ HttpFirstAll(q, r, v) \/ HttpFirstSome(q, r, v)
        BY <2>5
      <4> QED
        BY <4>1, <4>2, <4>3, <3>1, HttpFirstBody, Zenon
    <3>3. ~q.ptr.on
      BY <2>5, <1>9
    <3> QED
      BY <3>1, <3>2, <3>3, <2>3, <2>5, <1>1, <1>3, <1>5, HttpBegunOrderly, ZenonT(60)
  <2> QED
    BY <2>2, <2>5, HttpOverOrderly, Zenon DEF HttpFirstNext
<1> QED
  BY <1>1, <1>9, <1>10, <1>11, <1>12, HttpTakeLineCases

\* The first token after a part of what is good is a unit, or the end of line that ends it.
LEMMA HttpGoodNext ==
  ASSUME NEW a \in Seq(HttpTokens), NEW b \in Seq(HttpTokens), NEW f \in Nat, HttpGood(Cat(a, b), f), b # <<>>
  PROVE  b[1][1] = "d" \/ (b[1] = HttpCrlf /\ Len(b) = 1)
<1>1. PICK c \in Seq(HttpTokens) :
         /\ c = Cat(a, b) /\ Len(c) = Len(a) + Len(b)
         /\ \A i \in 1..Len(a) : c[i] = a[i]
         /\ \A i \in 1..Len(b) : c[Len(a) + i] = b[i]
  BY CatPick, Zenon
<1>2. PICK l \in Nat : l = Len(a)
  BY SeqTypes
<1>3. PICK m \in Nat : m = Len(b) /\ m > 0
  BY SeqTypes
<1>4. l + 1 \in 1..Len(c) /\ c[l + 1] = b[1]
  BY <1>1, <1>2, <1>3
<1>5. c[l + 1] = HttpUnit(f + (l + 1)) \/ (l + 1 = Len(c) /\ c[l + 1] = HttpCrlf)
  BY <1>1, <1>4 DEF HttpGood
<1>6. l + 1 = Len(c) => Len(b) = 1
  BY <1>1, <1>2, <1>3
<1> QED
  BY <1>4, <1>5, <1>6, HttpUnitIs

\* What was delivered is good, and a run of units unless nothing comes after it.
LEMMA HttpGivenGood ==
  ASSUME NEW req \in HttpReqs, ~req.ptr.on, NEW given \in Seq(HttpTokens), NEW f \in Nat, NEW left \in Seq(HttpTokens),
         HttpBody(req, given, f, left)
  PROVE  /\ HttpGood(given, f)
         /\ \/ HttpRun(given, f)
            \/ ~req.chunked /\ HttpPlain(req, given, f, left) /\ left = <<>>
            \/ req.chunked /\ req.eof /\ req.length = 0 /\ HttpEnded(req, given, f)
<1>1. CASE ~req.chunked
  <2>1. HttpPlain(req, given, f, left) /\ HttpGood(Cat(given, left), f)
    BY <1>1 DEF HttpBody, HttpPlain
  <2>2. HttpGood(given, f) /\ (left # <<>> => HttpRun(given, f))
    BY <2>1, HttpGoodCat
  <2> QED
    BY <2>1, <2>2, <1>1
<1>2. CASE req.chunked /\ req.eof
  BY <1>2 DEF HttpBody, HttpEnded
<1>3. CASE req.chunked /\ ~req.eof
  <2>1. HttpRun(given, f)
    BY <1>3 DEF HttpBody, HttpBetween
  <2> QED
    BY <2>1, HttpRunGood
<1> QED
  BY <1>1, <1>2, <1>3

\* The end of line after the last chunk is no entry of the listing.
LEMMA HttpNoEntryBody ==
  ASSUME NEW req \in HttpReqs, ~req.ptr.on, NEW got \in Seq(HttpTokens), NEW b \in Seq(HttpTokens), NEW f \in Nat,
         NEW left \in Seq(HttpTokens), HttpBody(req, Cat(got, b), f, left), Len(b) = 1, b[1] = HttpCrlf
  PROVE  HttpBody(req, got, f, left)
<1>1. PICK c \in Seq(HttpTokens) :
         /\ c = Cat(got, b) /\ Len(c) = Len(got) + Len(b)
         /\ \A i \in 1..Len(got) : c[i] = got[i]
         /\ \A i \in 1..Len(b) : c[Len(got) + i] = b[i]
  BY CatPick, Zenon
<1>2. PICK l \in Nat : l = Len(got)
  BY SeqTypes
<1>3. l + 1 \in 1..Len(c) /\ c[l + 1] = HttpCrlf
  BY <1>1, <1>2
<1>4. ~HttpRun(c, f)
  BY <1>3, HttpUnitIs DEF HttpRun
<1>5. /\ HttpGood(c, f)
      /\ \/ ~req.chunked /\ HttpPlain(req, c, f, left) /\ left = <<>>
         \/ req.chunked /\ req.eof /\ req.length = 0 /\ HttpEnded(req, c, f)
  BY <1>1, <1>4, HttpGivenGood
<1>6. HttpGood(got, f)
  BY <1>1, <1>5, HttpGoodCat
<1>7. CASE ~req.chunked /\ HttpPlain(req, c, f, left) /\ left = <<>>
  <2>1. Cat(got, left) = got
    BY <1>7, CatEmpty
  <2>2. HttpPlain(req, got, f, left)
    BY <2>1, <1>6, <1>7 DEF HttpPlain
  <2> QED
    BY <2>2, <1>7 DEF HttpBody
<1>8. CASE req.chunked /\ req.eof /\ req.length = 0 /\ HttpEnded(req, c, f)
  <2>1. HttpEnded(req, got, f)
    BY <1>6, <1>8 DEF HttpEnded
  <2> QED
    BY <2>1, <1>8 DEF HttpBody
<1> QED
  BY <1>5, <1>7, <1>8

\* A sequence and one token more, by a name
LEMMA AppendPick ==
  ASSUME NEW a \in Seq(HttpTokens), NEW e \in HttpTokens
  PROVE  \E x \in Seq(HttpTokens) : x = Append(a, e) /\ Len(x) = Len(a) + 1
                                   /\ (\A i \in 1..Len(a) : x[i] = a[i]) /\ x[Len(a) + 1] = e
<1>1. Append(a, e) \in Seq(HttpTokens)
  OBVIOUS
<1>2. PICK x \in Seq(HttpTokens) : x = Append(a, e)
  BY <1>1, Zenon
<1>3. Len(x) = Len(a) + 1 /\ (\A i \in 1..Len(a) : x[i] = a[i]) /\ x[Len(a) + 1] = e
  BY <1>2
<1> QED
  BY <1>2, <1>3

\* The line of an entry goes from the line buffer to the list.
LEMMA CatAppend ==
  ASSUME NEW a \in Seq(HttpTokens), NEW b \in Seq(HttpTokens), 1 <= Len(b)
  PROVE  Append(a, b[1]) \in Seq(HttpTokens) /\ Cat(Append(a, b[1]), Drop(b, 1)) = Cat(a, b)
<1>1. PICK c \in Seq(HttpTokens) :
         /\ c = Cat(a, b) /\ Len(c) = Len(a) + Len(b)
         /\ \A i \in 1..Len(a) : c[i] = a[i]
         /\ \A i \in 1..Len(b) : c[Len(a) + i] = b[i]
  BY CatPick, Zenon
<1>2. PICK l \in Nat : l = Len(a)
  BY SeqTypes
<1>3. PICK m \in Nat : m = Len(b) /\ m > 0
  BY SeqTypes
<1>4. PICK t \in Seq(HttpTokens) : t = Drop(b, 1) /\ Len(t) = m - 1 /\ \A i \in 1..(m - 1) : t[i] = b[1 + i]
  BY <1>3, DropOne
<1>5. PICK e \in HttpTokens : e = b[1]
  <2>1. 1 \in 1..Len(b)
    BY <1>3
  <2> QED
    BY <2>1, SeqTypes
<1>6. PICK x \in Seq(HttpTokens) : x = Append(a, e) /\ Len(x) = Len(a) + 1
                                   /\ (\A i \in 1..Len(a) : x[i] = a[i]) /\ x[Len(a) + 1] = e
  BY AppendPick, Zenon
<1>7. Len(x) = l + 1 /\ (\A i \in 1..l : x[i] = a[i]) /\ x[l + 1] = e
  BY <1>2, <1>6
<1>8. PICK y \in Seq(HttpTokens) :
         /\ y = Cat(x, t) /\ Len(y) = Len(x) + Len(t)
         /\ \A i \in 1..Len(x) : y[i] = x[i]
         /\ \A i \in 1..Len(t) : y[Len(x) + i] = t[i]
  BY CatPick, Zenon
<1>9. Len(y) = l + m /\ Len(c) = l + m
  BY <1>1, <1>2, <1>3, <1>4, <1>7, <1>8
<1>10. ASSUME NEW i \in 1..(l + m) PROVE y[i] = c[i]
  <2>1. CASE i <= l
    BY <2>1, <1>1, <1>2, <1>7, <1>8
  <2>2. CASE i = l + 1
    <3>1. y[i] = e
      BY <2>2, <1>7, <1>8
    <3>2. c[i] = e
      BY <2>2, <1>1, <1>2, <1>3, <1>5
    <3> QED
      BY <3>1, <3>2
  <2>3. CASE i > l + 1
    <3>1. PICK k \in 1..(m - 1) : i = l + 1 + k /\ i = l + (1 + k) /\ 1 + k \in 1..m
      <4>1. i - (l + 1) \in 1..(m - 1) /\ i = l + 1 + (i - (l + 1)) /\ i = l + (1 + (i - (l + 1)))
            /\ 1 + (i - (l + 1)) \in 1..m
        BY <2>3
      <4> QED
        BY <4>1
    <3>2. y[i] = t[k]
      BY <3>1, <1>4, <1>7, <1>8, Zenon
    <3>3. c[i] = b[1 + k]
      BY <3>1, <1>1, <1>2, <1>3
    <3> QED
      BY <3>2, <3>3, <1>4
  <2> QED
    BY <2>1, <2>2, <2>3
<1>11. y = c
  BY <1>9, <1>10, SeqIs
<1> QED
  BY <1>1, <1>4, <1>5, <1>6, <1>8, <1>11

\* A line of the listing
LEMMA HttpLineInList ==
  ASSUME HttpTyped, httpJob.at = "list", HttpInBody(httpReq, httpJob, httpNet), ~httpReq.ptr.on,
         NEW n \in 1..Len(httpReq.rbuf.data), NEW r \in HttpReqs, HttpLineAt(n, r),
         NEW o, o = HttpTakeLine(r, httpJob, httpReq.rbuf.data[1])
  PROVE  HttpOrderly(o.req, o.job, httpNet)
<1>1. httpReq \in HttpReqs /\ httpJob \in HttpJobs /\ httpNet \in HttpNets
  BY DEF HttpTyped, HttpTypeOK
<1>2. PICK b \in Seq(HttpTokens) : b = httpReq.rbuf.data
  BY <1>1, HttpReqTypes
<1>3. PICK left \in Seq(HttpTokens) : left = httpNet.left
  BY <1>1, HttpNetTypes
<1>4. PICK l \in Nat : l = Len(b) /\ l > 0 /\ b # <<>>
  BY <1>2, SeqTypes
<1>5. PICK got \in Seq(HttpTokens) : got = httpJob.got
  BY <1>1, HttpJobTypes
<1>6. PICK f \in Nat : f = httpJob.first
  BY <1>1, HttpJobTypes, HttpSizeAssumption
<1>7. HttpBody(httpReq, Cat(got, b), f, left) /\ httpNet.todo = <<>>
  BY <1>2, <1>3, <1>5, <1>6 DEF HttpInBody, HttpGiven
<1>8. HttpGood(Cat(got, b), f)
  <2>1. PICK given \in Seq(HttpTokens) : given = Cat(got, b)
    BY CatIs
  <2>2. HttpGood(given, f)
    BY <2>1, <1>1, <1>7, HttpGivenGood
  <2> QED
    BY <2>1, <2>2
<1>9. b[1][1] = "d" \/ (b[1] = HttpCrlf /\ Len(b) = 1)
  BY <1>4, <1>8, HttpGoodNext, Zenon
<1>10. n = 1
  <2>1. b[1][1] # "size"
    BY <1>9, HttpCrlfType
  <2>2. n > 1 => 1 \in 1..(n - 1)
    BY <1>2, <1>4
  <2>3. n > 1 => b[1][1] = "size"
    BY <2>2, <1>2 DEF HttpLineAt, HttpIsLine
  <2> QED
    BY <2>1, <2>3, <1>2, <1>4
<1>11. PICK d \in Seq(HttpTokens) : d = Drop(b, 1)
  BY <1>4, DropOne
<1>12. /\ r.rbuf.data = d /\ ~r.ptr.on /\ r.ptr = httpReq.ptr /\ r.extra = httpReq.extra /\ r.chunk = httpReq.chunk
       /\ r.length = httpReq.length /\ r.chunked = httpReq.chunked /\ r.eof = httpReq.eof
  BY <1>2, <1>10, <1>11 DEF HttpLineAt, HttpLineOff
<1>13. PICK h \in HttpTokens : h = b[1]
  <2>1. 1 \in 1..Len(b)
    BY <1>4
  <2> QED
    BY <2>1, SeqTypes
<1>14. o = HttpEntry(r, httpJob, h)
  <2>1. o = HttpTakeLine(r, httpJob, h)
    BY <1>2, <1>13
  <2> QED
    BY <2>1, <1>1, HttpTakeLineCases
<1>15. PICK j \in HttpJobs : j = o.job
  BY <1>1, <1>14, HttpEntryIs
<1>16. /\ o.req = r
       /\ j.at = httpJob.at /\ j.first = httpJob.first
       /\ j.got = (IF h[1] = "d" THEN Append(got, h) ELSE got)
  BY <1>1, <1>5, <1>14, <1>15, HttpEntryIs
<1>17. HttpBody(httpReq, Cat(j.got, d), f, left)
  <2>1. CASE h[1] = "d"
    <3>1. Cat(Append(got, b[1]), Drop(b, 1)) = Cat(got, b)
      BY <1>4, CatAppend
    <3>2. Cat(j.got, d) = Cat(got, b)
      BY <3>1, <2>1, <1>11, <1>13, <1>16
    <3> QED
      BY <3>2, <1>7
  <2>2. CASE h[1] # "d"
    <3>1. b[1] = HttpCrlf /\ Len(b) = 1
      BY <2>2, <1>9, <1>13
    <3>2. HttpBody(httpReq, got, f, left)
      BY <3>1, <1>1, <1>7, HttpNoEntryBody
    <3>3. d = <<>>
      <4>1. d = Drop(b, Len(b))
        BY <3>1, <1>11
      <4> QED
        BY <4>1, DropEnds
    <3>4. Cat(j.got, d) = got
      BY <3>3, <2>2, <1>16, CatEmpty
    <3> QED
      BY <3>2, <3>4
  <2> QED
    BY <2>1, <2>2
<1>18. HttpBody(r, Cat(j.got, d), f, left)
  BY <1>12, <1>17, HttpBodySame
<1>19. HttpInBody(o.req, o.job, httpNet)
  BY <1>3, <1>6, <1>7, <1>12, <1>15, <1>16, <1>18 DEF HttpInBody, HttpGiven
<1> QED
  BY <1>15, <1>16, <1>19, HttpInBodyOrderly, Zenon

\* Where there is no line
LEMMA HttpNoLineOrderly ==
  ASSUME HttpTyped, HttpPlaced, httpJob.at \in {"headers", "size", "list"}, ~httpReq.ptr.on,
         httpReq.rbuf.data = <<>>, HttpTold(httpJob), NEW o, o = HttpNoLine(httpReq, httpJob)
  PROVE  HttpOrderly(o.req, o.job, httpNet)
<1>1. httpReq \in HttpReqs /\ httpJob \in HttpJobs /\ httpNet \in HttpNets
  BY DEF HttpTyped, HttpTypeOK
<1>2. \/ HttpOver(o)
      \/ \E s \in HttpReqs :
           /\ s.ptr = httpReq.ptr /\ s.rbuf = HttpNoBuf /\ s.extra = httpReq.extra /\ s.chunk = httpReq.chunk
           /\ s.length = httpReq.length /\ s.chunked = httpReq.chunked /\ s.eof = httpReq.eof
           /\ httpJob.at = "headers"
           /\ \/ httpJob.line /\ o = HttpOut(s, httpJob)
              \/ ~httpJob.line /\ o = HttpHeaders(s, httpJob)
  BY <1>1, HttpNoLineIs
<1>3. httpJob.at = "headers" => HttpInHeaders(httpReq, httpJob, httpNet)
  BY DEF HttpPlaced, HttpOrderly, HttpTold
<1>4. ASSUME NEW s \in HttpReqs, HttpSame(s, httpReq), s.rbuf = HttpNoBuf, httpJob.at = "headers", httpJob.line,
             o = HttpOut(s, httpJob)
      PROVE  HttpOrderly(o.req, o.job, httpNet)
  <2>1. o.req = s /\ o.job = httpJob
    BY <1>1, <1>4, HttpOutIs
  <2>2. ~httpReq.chunked
    BY <1>3, <1>4 DEF HttpInHeaders, HttpStaleHeaders
  <2>3. s.rbuf.data = <<>> /\ ~s.rbuf.eof
    BY <1>4, HttpNone
  <2>4. HttpMoved(httpReq.rbuf.data, httpNet.left, s.rbuf.data, httpNet.left)
    BY <2>3 DEF HttpMoved
  <2>5. HttpInHeaders(s, httpJob, httpNet)
    BY <2>2, <2>3, <2>4, <1>3, <1>4, HttpInHeadersSame
  <2> QED
    BY <2>1, <2>5, <1>4 DEF HttpOrderly
<1>5. ASSUME NEW s \in HttpReqs, s.ptr = httpReq.ptr, httpJob.at = "headers", ~httpJob.line,
             o = HttpHeaders(s, httpJob)
      PROVE  HttpOrderly(o.req, o.job, httpNet)
  <2>1. httpJob.status = 0 /\ ~httpJob.chunked /\ ~s.ptr.on
    BY <1>3, <1>5 DEF HttpInHeaders
  <2>2. HttpOver(o)
    BY <2>1, <1>1, <1>5, HttpNoStatus
  <2> QED
    BY <2>2, HttpOverOrderly
<1> QED
  BY <1>2, <1>4, <1>5, HttpOverOrderly DEF HttpSame

\* A line leaves all in its place.
LEMMA HttpLineOrderly ==
  ASSUME HttpTyped, HttpPlaced, HttpLine
  PROVE  HttpPlaced'
<1>1. HttpTypeOK /\ httpReq \in HttpReqs /\ httpJob \in HttpJobs /\ httpNet \in HttpNets
  BY DEF HttpTyped, HttpTypeOK
<1>2. httpJob.at \in {"headers", "size", "list"} /\ ~httpReq.ptr.on
  BY <1>1, HttpLineCases
<1>3. ASSUME NEW o \in HttpOuts, HttpKeeps(o, httpJob), HttpApplyWith(o, httpNet),
             HttpTold(httpJob) => HttpOrderly(o.req, o.job, httpNet)
      PROVE  HttpPlaced'
  <2>1. HttpOrderly(o.req, o.job, httpNet)
    BY <1>3, HttpUntold
  <2> QED
    BY <2>1, <1>1, <1>3, HttpApplyOrderly DEF HttpPlaced
<1>4. CASE \E n \in 1..Len(httpReq.rbuf.data), r \in HttpReqs : HttpLineAt(n, r)
  <2>1. PICK n \in 1..Len(httpReq.rbuf.data), r \in HttpReqs : HttpLineAt(n, r)
    BY <1>4
  <2>2. ~r.ptr.on /\ httpReq.rbuf.data[1] \in HttpTokens
    BY <2>1, <1>2 DEF HttpLineAt, HttpLineOff
  <2>3. PICK o : o = HttpTakeLine(r, httpJob, httpReq.rbuf.data[1])
    OBVIOUS
  <2>4. o \in HttpOuts /\ HttpKeeps(o, httpJob)
    BY <2>2, <2>3, <1>1, <1>2, HttpTakeLineTypes, HttpTakeLineKeeps
  <2>5. HttpApplyWith(o, httpNet)
    BY <2>1, <2>3 DEF HttpLineAt, HttpApply
  <2>6. ASSUME HttpTold(httpJob) PROVE HttpOrderly(o.req, o.job, httpNet)
    <3>1. CASE httpJob.at = "headers"
      <4>1. HttpInHeaders(httpReq, httpJob, httpNet)
        BY <2>6, <3>1 DEF HttpPlaced, HttpOrderly, HttpTold
      <4> QED
        BY <4>1, <3>1, <2>1, <2>3, <1>2, HttpLineInHeaders
    <3>2. CASE httpJob.at = "size"
      <4>1. HttpInSize(httpReq, httpJob, httpNet)
        BY <2>6, <3>2 DEF HttpPlaced, HttpOrderly, HttpTold
      <4> QED
        BY <4>1, <3>2, <2>1, <2>3, <1>2, HttpLineInSize
    <3>3. CASE httpJob.at = "list"
      <4>1. HttpInBody(httpReq, httpJob, httpNet)
        BY <2>6, <3>3 DEF HttpPlaced, HttpOrderly, HttpTold
      <4> QED
        BY <4>1, <3>3, <2>1, <2>3, <1>2, HttpLineInList
    <3> QED
      BY <3>1, <3>2, <3>3, <1>2
  <2> QED
    BY <2>4, <2>5, <2>6, <1>3
<1>5. CASE httpReq.rbuf.data = <<>> /\ HttpApply(HttpNoLine(httpReq, httpJob))
  <2>1. PICK o : o = HttpNoLine(httpReq, httpJob)
    OBVIOUS
  <2>2. o \in HttpOuts /\ HttpKeeps(o, httpJob)
    BY <2>1, <1>1, <1>2, HttpNoLineTypes, HttpNoLineKeeps
  <2>3. HttpApplyWith(o, httpNet)
    BY <2>1, <1>5 DEF HttpApply
  <2>4. HttpTold(httpJob) => HttpOrderly(o.req, o.job, httpNet)
    BY <2>1, <1>2, <1>5, HttpNoLineOrderly
  <2> QED
    BY <2>2, <2>3, <2>4, <1>3
<1> QED
  BY <1>1, <1>4, <1>5, HttpLineCases

-----------------------------------------------------------------------------
(* The server                                                              *)

\* The answer x is s with one chunk more, of the first n tokens of u.
HttpExtends(x, s, n, u) ==
  /\ x \in Seq(HttpTokens) /\ Len(x) = Len(s) + n + 3
  /\ \A i \in 1..Len(s) : x[i] = s[i]
  /\ x[Len(s) + 1] = <<"size", n>> /\ x[Len(s) + 2] = HttpCrlf
  /\ \A i \in 1..n : x[Len(s) + 2 + i] = u[i]
  /\ x[Len(s) + n + 3] = HttpCrlf

\* The next chunk goes to the end of the answer.
LEMMA HttpNextExtends ==
  ASSUME NEW net \in HttpNets, NEW n \in Nat, NEW h, NEW t, NEW new, HttpNextChunk(net, n, h, t, new)
  PROVE  HttpExtends(new.left, net.left, n, net.todo)
<1>1. PICK s \in Seq(HttpTokens) : s = net.left
  BY HttpNetTypes
<1>2. PICK u \in Seq(HttpTokens) : u = net.todo
  BY HttpNetTypes
<1>3. PICK l \in Nat : l = Len(s)
  BY SeqTypes
<1>4. PICK m \in Nat : m = Len(u)
  BY SeqTypes
<1>5. n + 1 <= m /\ h \in Seq(HttpTokens) /\ Len(h) = 2 /\ h[1] = <<"size", n>> /\ h[2] = HttpCrlf
      /\ t \in Seq(HttpTokens) /\ Len(t) = 1 /\ t[1] = HttpCrlf /\ new.left = Cat(Cat(Cat(s, h), Take(u, n)), t)
  BY <1>1, <1>2, <1>4 DEF HttpNextChunk
<1>16. PICK w \in Seq(HttpTokens) : w = Take(u, n)
  BY <1>4, <1>5, TakeIs
<1>6. Len(w) = n /\ \A i \in 1..n : w[i] = u[i]
  BY <1>4, <1>5, <1>16, TakeIs, SMTT(30)
<1>7. PICK a \in Seq(HttpTokens) :
         /\ a = Cat(s, h) /\ Len(a) = Len(s) + Len(h)
         /\ \A i \in 1..Len(s) : a[i] = s[i]
         /\ \A i \in 1..Len(h) : a[Len(s) + i] = h[i]
  BY <1>5, CatPick, Zenon
<1>8. PICK b \in Seq(HttpTokens) :
         /\ b = Cat(a, w) /\ Len(b) = Len(a) + Len(w)
         /\ \A i \in 1..Len(a) : b[i] = a[i]
         /\ \A i \in 1..Len(w) : b[Len(a) + i] = w[i]
  BY CatPick, Zenon
<1>9. PICK c \in Seq(HttpTokens) :
         /\ c = Cat(b, t) /\ Len(c) = Len(b) + Len(t)
         /\ \A i \in 1..Len(b) : c[i] = b[i]
         /\ \A i \in 1..Len(t) : c[Len(b) + i] = t[i]
  BY <1>5, CatPick, Zenon
<1>10. Len(a) = l + 2 /\ Len(b) = l + 2 + n /\ Len(c) = l + n + 3
  BY <1>3, <1>5, <1>6, <1>7, <1>8, <1>9
<1>11. \A i \in 1..l : c[i] = s[i]
  <2>1. ASSUME NEW i \in 1..l PROVE c[i] = s[i]
    <3>1. i \in 1..Len(a) /\ i \in 1..Len(b) /\ i \in 1..Len(s)
      BY <1>3, <1>10
    <3>2. a[i] = s[i] /\ b[i] = a[i] /\ c[i] = b[i]
      BY <3>1, <1>7, <1>8, <1>9
    <3> QED
      BY <3>2
  <2> QED
    BY <2>1
<1>12. c[l + 1] = h[1] /\ c[l + 2] = h[2]
  <2>1. 1 \in 1..Len(h) /\ 2 \in 1..Len(h) /\ l + 1 \in 1..Len(a) /\ l + 2 \in 1..Len(a)
        /\ l + 1 \in 1..Len(b) /\ l + 2 \in 1..Len(b)
    <3>1. Len(h) = 2 /\ Len(a) = l + 2 /\ Len(b) = l + 2 + n
      BY <1>5, <1>10
    <3> QED
      BY <3>1
  <2>2. a[l + 1] = h[1] /\ a[l + 2] = h[2]
    BY <2>1, <1>3, <1>7
  <2> QED
    BY <2>1, <2>2, <1>8, <1>9
<1>13. \A i \in 1..n : c[l + 2 + i] = u[i]
  <2>1. ASSUME NEW i \in 1..n PROVE c[l + 2 + i] = u[i]
    <3>1. l + 2 + i \in 1..Len(b) /\ i \in 1..Len(w)
      BY <1>6, <1>10
    <3>2. b[l + 2 + i] = w[i]
      BY <3>1, <1>8, <1>10
    <3> QED
      BY <3>1, <3>2, <1>6, <1>9
  <2> QED
    BY <2>1
<1>14. c[l + n + 3] = HttpCrlf
  <2>1. 1 \in 1..Len(t) /\ Len(b) + 1 = l + n + 3
    BY <1>5, <1>10, SMTT(30)
  <2>2. c[Len(b) + 1] = t[1]
    BY <2>1, <1>9
  <2> QED
    BY <2>1, <2>2, <1>5, Zenon
<1>15. HttpExtends(c, s, n, u)
  BY <1>3, <1>5, <1>10, <1>11, <1>12, <1>13, <1>14 DEF HttpExtends
<1> QED
  BY <1>1, <1>2, <1>5, <1>16, <1>7, <1>8, <1>9, <1>15

\* What is known of an answer that is not yet all there, whose body starts with unit f + 1 after
\* three lines of headers
HttpPart(s, u, f, k) ==
  /\ Len(s) > 2 /\ HttpWholeChunks(s) /\ HttpToSend(u, k) /\ HttpUpTo(s, f, k)
  /\ HttpSizeAt(s, 3, f) /\ HttpLaid(s)

\* After one chunk comes the next.
LEMMA HttpExtendsSize ==
  ASSUME NEW s \in Seq(HttpTokens), NEW u \in Seq(HttpTokens), NEW n \in Nat, n + 1 <= Len(u), NEW x, HttpExtends(x, s, n, u),
         NEW k \in Nat, HttpWholeChunks(s), HttpToSend(u, k),
         NEW p \in Nat, p <= Len(s), NEW f \in Nat, HttpSizeAt(s, p, f), p = Len(s) => k = f
  PROVE  HttpSizeAt(x, p, f)
<1>1. PICK l \in Nat : l = Len(s)
  BY SeqTypes
<1>2. PICK m \in Nat : m = Len(u)
  BY SeqTypes
<1>3. /\ x \in Seq(HttpTokens) /\ Len(x) = l + n + 3
      /\ \A i \in 1..l : x[i] = s[i]
      /\ x[l + 1] = <<"size", n>> /\ x[l + 2] = HttpCrlf
      /\ \A i \in 1..n : x[l + 2 + i] = u[i]
      /\ x[l + n + 3] = HttpCrlf
  BY <1>1 DEF HttpExtends
<1>4. CASE p < l
  <2>1. p + 1 \in 1..l /\ s[p + 1][1] = "size"
    BY <1>1, <1>4 DEF HttpSizeAt
  <2>2. PICK w \in Nat : w = s[p + 1][2]
    BY <2>1, <1>1, SeqTypes, HttpTokenTypes, SMTT(30)
  <2>3. w > 0 /\ (p + 1) + 2 + w <= l
    BY <2>1, <2>2, <1>1, Zenon DEF HttpWholeChunks
  <2>4. p + 2 \in 1..l /\ p + 3 \in 1..l
    BY <2>3
  <2>5. s[p + 2] = HttpCrlf /\ s[p + 3] = HttpUnit(f + 1)
    BY <2>2, <2>3, <2>4, <1>1 DEF HttpSizeAt
  <2>6. x[p + 1] = s[p + 1] /\ x[p + 2] = s[p + 2] /\ x[p + 3] = s[p + 3]
    BY <2>1, <2>4, <1>3, Zenon
  <2> QED
    BY <2>1, <2>2, <2>3, <2>5, <2>6 DEF HttpSizeAt
<1>5. CASE p = l
  <2>1. k = f
    BY <1>1, <1>5
  <2>2. x[p + 1][1] = "size" /\ x[p + 1][2] = n /\ x[p + 2] = HttpCrlf
    BY <1>3, <1>5, SMTT(30)
  <2>3. IF n > 0 THEN x[p + 3] = HttpUnit(f + 1) ELSE x[p + 3] = HttpCrlf /\ Len(x) = p + 3
    <3>1. CASE n > 0
      <4>1. 1 \in 1..n /\ 1 \in 1..(m - 1) /\ l + 2 + 1 = p + 3
        BY <3>1, <1>2, <1>5
      <4>2. x[p + 3] = u[1]
        BY <4>1, <1>3
      <4>3. u[1] = HttpUnit(k + 1)
        BY <4>1, <1>2 DEF HttpToSend
      <4> QED
        BY <4>2, <4>3, <3>1, <2>1
    <3>2. CASE n = 0
      <4>1. l + n + 3 = p + 3
        BY <3>2, <1>5
      <4> QED
        BY <4>1, <3>2, <1>3
    <3> QED
      BY <3>1, <3>2
  <2> QED
    BY <2>2, <2>3 DEF HttpSizeAt
<1> QED
  BY <1>1, <1>4, <1>5

\* The chunks are laid out, with one chunk more.
LEMMA HttpExtendsLaid ==
  ASSUME NEW s \in Seq(HttpTokens), NEW u \in Seq(HttpTokens), NEW n \in Nat, n + 1 <= Len(u), NEW x, HttpExtends(x, s, n, u),
         NEW k \in Nat, NEW f \in Nat, HttpPart(s, u, f, k)
  PROVE  HttpLaid(x)
<1>1. PICK l \in Nat : l = Len(s)
  BY SeqTypes
<1>2. PICK m \in Nat : m = Len(u)
  BY SeqTypes
<1>3. /\ x \in Seq(HttpTokens) /\ Len(x) = l + n + 3
      /\ \A i \in 1..l : x[i] = s[i]
      /\ x[l + 1] = <<"size", n>> /\ x[l + 2] = HttpCrlf
      /\ \A i \in 1..n : x[l + 2 + i] = u[i]
      /\ x[l + n + 3] = HttpCrlf
  BY <1>1 DEF HttpExtends
<1>4. \A j \in 1..n : u[j] = HttpUnit(k + j)
  <2>1. \A j \in 1..(m - 1) : u[j] = HttpUnit(k + j)
    BY <1>2 DEF HttpPart, HttpToSend
  <2> QED
    BY <2>1, <1>2
<1>5. ASSUME NEW i \in 1..Len(x), x[i][1] = "size", NEW v \in Nat, v = x[i][2], v > 0
      PROVE  \E c \in Nat : HttpFlows(x, i + 1, v, c)
  <2>4. i \in 1..(l + n + 3)
    BY <1>3
  <2>5. i \in Nat /\ i > 0 /\ i <= l + n + 3 /\ v > 0
    BY <2>4, <1>5
  <2>1. CASE i <= l
    <3>1. x[i] = s[i] /\ i \in 1..l
      BY <2>1, <1>3
    <3>2. i + 2 + v <= l
      BY <3>1, <1>1, <1>5, Zenon DEF HttpPart, HttpWholeChunks
    <3>3. PICK c \in Nat : HttpFlows(s, i + 1, v, c)
      BY <3>1, <1>1, <1>5, Zenon DEF HttpPart, HttpLaid
    <3>4. ASSUME NEW j \in 1..v PROVE x[i + 1 + j] = HttpUnit(c + j)
      <4>1. i + 1 + j \in 1..l /\ i + 1 + j <= Len(s)
        <5>1. j \in Nat /\ j > 0 /\ j <= v
          BY <1>5
        <5>2. i + 1 + j <= l /\ i + 1 + j >= 1
          BY <5>1, <2>5, <3>2
        <5> QED
          BY <5>1, <5>2, <1>1
      <4> QED
        <5>1. s[i + 1 + j] = HttpUnit(c + j)
          BY <4>1, <3>3, Zenon DEF HttpFlows
        <5>2. x[i + 1 + j] = s[i + 1 + j]
          BY <4>1, <1>3
        <5> QED
          BY <5>1, <5>2
    <3>5. PICK p \in Nat : p = i + 1 + v + 1 /\ p \in 1..l /\ p <= l
      BY <3>1, <3>2
    <3>6. x[p] = HttpCrlf
      <4>1. s[p] = HttpCrlf
        BY <3>3, <3>5, <1>1 DEF HttpFlows
      <4> QED
        BY <4>1, <3>5, <1>3, Zenon
    <3>7. PICK g \in Nat : g = c + v
      OBVIOUS
    <3>8. HttpSizeAt(s, p, g)
      BY <3>3, <3>5, <3>7 DEF HttpFlows
    <3>9. p = l => k = g
      <4>1. SUFFICES ASSUME p = l PROVE k = g
        OBVIOUS
      <4>2. l > 3
        BY <4>1, <2>5, <3>5
      <4>3. s[l - 1] = HttpUnit(k)
        <5>1. HttpUpTo(s, f, k)
          BY DEF HttpPart
        <5>3. l # 3
          BY <4>2
        <5>2. Len(s) # 3
          BY <5>3, <1>1
        <5> QED
          BY <5>1, <5>2, <1>1 DEF HttpUpTo
      <4>4. v \in 1..v /\ i + 1 + v = l - 1
        BY <4>1, <3>5, <2>5
      <4>5. s[l - 1] = HttpUnit(c + v)
        <5>1. x[i + 1 + v] = HttpUnit(c + v)
          BY <4>4, <3>4, Zenon
        <5>2. l - 1 \in 1..l
          BY <4>2
        <5> QED
          BY <5>1, <5>2, <4>4, <1>3, Zenon
      <4> QED
        BY <4>3, <4>5, <3>7, HttpUnitIs, Zenon
    <3>10. HttpSizeAt(x, p, g)
      <4>1. HttpWholeChunks(s) /\ HttpToSend(u, k)
        BY DEF HttpPart
      <4> QED
        BY <4>1, <3>5, <3>8, <3>9, <1>1, HttpExtendsSize
    <3>11. HttpFlows(x, i + 1, v, c)
      BY <3>4, <3>5, <3>6, <3>7, <3>10, Zenon DEF HttpFlows
    <3> QED
      BY <3>11
  <2>2. CASE i = l + 1
    <3>1. v = n
      BY <2>2, <1>3, <1>5
    <3>2. ASSUME NEW j \in 1..v PROVE x[i + 1 + j] = HttpUnit(k + j)
      <4>1. i + 1 + j = l + 2 + j /\ j \in 1..n
        BY <2>2, <3>1
      <4> QED
        BY <4>1, <1>3, <1>4, Zenon
    <3>3. i + 1 + v + 1 = l + n + 3
      BY <2>2, <3>1
    <3>4. HttpSizeAt(x, i + 1 + v + 1, k + v)
      <4>1. PICK p \in Nat : p = i + 1 + v + 1
        BY <3>3
      <4>2. ~(p + 1 <= Len(x)) /\ ~(p + 2 <= Len(x)) /\ ~(p + 3 <= Len(x))
        BY <4>1, <3>3, <1>3
      <4> QED
        BY <4>1, <4>2 DEF HttpSizeAt
    <3>5. HttpFlows(x, i + 1, v, k)
      BY <3>2, <3>3, <3>4, <1>3, Zenon DEF HttpFlows
    <3> QED
      BY <3>5
  <2>3. CASE i > l + 1
    <3>1. i = l + 2 \/ i = l + n + 3 \/ (\E j \in 1..n : i = l + 2 + j)
      <4>1. SUFFICES ASSUME i # l + 2, i # l + n + 3 PROVE \E j \in 1..n : i = l + 2 + j
        OBVIOUS
      <4>2. i - (l + 2) \in 1..n /\ i = l + 2 + (i - (l + 2))
        BY <4>1, <2>3, <2>5
      <4> QED
        BY <4>2
    <3>2. x[i] = HttpCrlf \/ \E j \in 1..n : x[i] = HttpUnit(k + j)
      BY <3>1, <1>3, <1>4, Zenon
    <3>3. x[i][1] = "crlf" \/ x[i][1] = "d"
      BY <3>2, HttpUnitIs, Zenon
    <3> QED
      BY <3>3, <1>5
  <2> QED
    BY <2>1, <2>2, <2>3, <1>3
<1>6. ASSUME NEW i \in 1..Len(x), x[i][1] = "size", x[i][2] > 0
      PROVE  \E c \in Nat : HttpFlows(x, i + 1, x[i][2], c)
  <2>1. PICK v \in Nat : v = x[i][2]
    <3>1. x[i] \in HttpTokens
      BY <1>3, SeqTypes
    <3> QED
      BY <3>1, <1>6, HttpTokenTypes, SMTT(30)
  <2> QED
    BY <2>1, <1>5, <1>6, Zenon
<1> QED
  BY <1>6, Zenon DEF HttpLaid

\* The chunks are whole, with one chunk more.
LEMMA HttpExtendsWhole ==
  ASSUME NEW s \in Seq(HttpTokens), NEW u \in Seq(HttpTokens), NEW n \in Nat, n + 1 <= Len(u), NEW x, HttpExtends(x, s, n, u),
         NEW k \in Nat, HttpWholeChunks(s), HttpToSend(u, k), n > 0
  PROVE  HttpWholeChunks(x)
<1>1. PICK l \in Nat : l = Len(s)
  BY SeqTypes
<1>2. PICK m \in Nat : m = Len(u)
  BY SeqTypes
<1>3. /\ x \in Seq(HttpTokens) /\ Len(x) = l + n + 3
      /\ \A i \in 1..l : x[i] = s[i]
      /\ x[l + 1] = <<"size", n>> /\ x[l + 2] = HttpCrlf
      /\ \A i \in 1..n : x[l + 2 + i] = u[i]
      /\ x[l + n + 3] = HttpCrlf
  BY <1>1 DEF HttpExtends
<1>4. \A j \in 1..n : u[j] = HttpUnit(k + j)
  <2>1. \A j \in 1..(m - 1) : u[j] = HttpUnit(k + j)
    BY <1>2 DEF HttpToSend
  <2> QED
    BY <2>1, <1>2
<1>5. ASSUME NEW i \in 1..Len(x), x[i][1] = "size", NEW v \in Nat, v = x[i][2]
      PROVE  v > 0 /\ i + 2 + v <= Len(x)
  <2>4. i \in 1..(l + n + 3)
    BY <1>3
  <2>5. i \in Nat /\ i > 0 /\ i <= l + n + 3
    BY <2>4
  <2>1. CASE i <= l
    <3>1. x[i] = s[i] /\ i \in 1..l
      BY <2>1, <2>5, <1>3
    <3>2. v > 0 /\ i + 2 + v <= l
      BY <3>1, <1>1, <1>5, Zenon DEF HttpWholeChunks
    <3>3. i + 2 + v <= l + n + 3
      BY <3>2, <2>5
    <3> QED
      BY <3>2, <3>3, <1>3
  <2>2. CASE i = l + 1
    <3>1. v = n
      BY <2>2, <1>3, <1>5
    <3>2. i + 2 + v <= l + n + 3
      BY <3>1, <2>2
    <3> QED
      BY <3>1, <3>2, <1>3
  <2>3. CASE i > l + 1
    <3>1. i = l + 2 \/ i = l + n + 3 \/ (\E j \in 1..n : i = l + 2 + j)
      <4>1. SUFFICES ASSUME i # l + 2, i # l + n + 3 PROVE \E j \in 1..n : i = l + 2 + j
        OBVIOUS
      <4>2. i - (l + 2) \in 1..n /\ i = l + 2 + (i - (l + 2))
        BY <4>1, <2>3, <2>5
      <4> QED
        BY <4>2
    <3>2. x[i] = HttpCrlf \/ \E j \in 1..n : x[i] = HttpUnit(k + j)
      BY <3>1, <1>3, <1>4, Zenon
    <3>3. x[i][1] = "crlf" \/ x[i][1] = "d"
      BY <3>2, HttpUnitIs, Zenon
    <3> QED
      BY <3>3, <1>5
  <2> QED
    BY <2>1, <2>2, <2>3, <2>5
<1>6. ASSUME NEW i \in 1..Len(x), x[i][1] = "size"
      PROVE  x[i][2] > 0 /\ i + 2 + x[i][2] <= Len(x)
  <2>1. PICK v \in Nat : v = x[i][2]
    <3>1. x[i] \in HttpTokens
      BY <1>3, SeqTypes
    <3> QED
      BY <3>1, <1>6, HttpTokenTypes, SMTT(30)
  <2>2. v > 0 /\ i + 2 + v <= Len(x)
    BY <2>1, <1>5, <1>6, Zenon
  <2> QED
    BY <2>1, <2>2
<1> QED
  BY <1>6 DEF HttpWholeChunks

\* What is still to be sent after one chunk more comes next.
LEMMA HttpExtendsSend ==
  ASSUME NEW s \in Seq(HttpTokens), NEW u \in Seq(HttpTokens), NEW n \in Nat, n + 1 <= Len(u), NEW x, HttpExtends(x, s, n, u),
         NEW k \in Nat, NEW f \in Nat, HttpToSend(u, k), n > 0, Len(s) > 2,
         NEW w \in Seq(HttpTokens), w = Drop(u, n)
  PROVE  HttpToSend(w, k + n) /\ HttpUpTo(x, f, k + n)
<1>1. PICK l \in Nat : l = Len(s)
  BY SeqTypes
<1>2. PICK m \in Nat : m = Len(u)
  BY SeqTypes
<1>3. /\ x \in Seq(HttpTokens) /\ Len(x) = l + n + 3
      /\ \A i \in 1..n : x[l + 2 + i] = u[i]
      /\ x[l + n + 3] = HttpCrlf
  BY <1>1 DEF HttpExtends
<1>4. /\ \A j \in 1..(m - 1) : u[j] = HttpUnit(k + j)
      /\ u[m] = HttpCrlf
  BY <1>2 DEF HttpToSend
<1>5. Len(w) = m - n /\ \A i \in 1..(m - n) : w[i] = u[n + i]
  <2>1. n <= Len(u)
    BY <1>2
  <2>2. Len(Drop(u, n)) = Len(u) - n /\ \A i \in 1..(Len(u) - n) : Drop(u, n)[i] = u[n + i]
    BY <2>1, DropIs, Zenon
  <2> QED
    BY <2>2, <1>2
<1>6. HttpToSend(w, k + n)
  <2>1. ASSUME NEW i \in 1..(Len(w) - 1) PROVE w[i] = HttpUnit(k + n + i)
    <3>1. i \in 1..(m - n) /\ n + i \in 1..(m - 1)
      BY <1>2, <1>5
    <3>2. w[i] = u[n + i] /\ u[n + i] = HttpUnit(k + (n + i))
      BY <3>1, <1>4, <1>5, Zenon
    <3>3. k + (n + i) = k + n + i
      BY <3>1
    <3> QED
      BY <3>2, <3>3
  <2>2. w[Len(w)] = HttpCrlf
    <3>1. m - n \in 1..(m - n) /\ n + (m - n) = m
      BY <1>2
    <3>2. w[m - n] = u[n + (m - n)]
      BY <3>1, <1>5
    <3> QED
      BY <3>1, <3>2, <1>4, <1>5
  <2> QED
    BY <2>1, <2>2 DEF HttpToSend
<1>7. HttpUpTo(x, f, k + n)
  <2>1. PICK z \in Nat : z = l + n + 3
    OBVIOUS
  <2>2. z > 5 /\ z # 3 /\ n \in 1..n /\ n \in 1..(m - 1) /\ z - 1 = l + 2 + n
    BY <2>1, <1>1, <1>2
  <2>3. x[z] = HttpCrlf
    BY <2>1, <1>3
  <2>4. x[z - 1] = HttpUnit(k + n)
    <3>1. x[l + 2 + n] = u[n] /\ u[n] = HttpUnit(k + n)
      BY <2>2, <1>3, <1>4
    <3> QED
      BY <3>1, <2>2
  <2>5. Len(x) = z
    BY <2>1, <1>3
  <2> QED
    BY <2>2, <2>3, <2>4, <2>5 DEF HttpUpTo
<1> QED
  BY <1>6, <1>7

\* A chunk comes while the headers are waited for: the body is still after them.
LEMMA HttpServeHeads ==
  ASSUME NEW req, NEW job \in HttpJobs, ~job.line, ~job.chunked, NEW net \in HttpNets, NEW new \in HttpNets,
         NEW s \in Seq(HttpTokens), s = net.left, NEW u \in Seq(HttpTokens), u = net.todo,
         HttpHeads(req, job, s), HttpComposed(job, net),
         NEW n \in Nat, n + 1 <= Len(u), NEW x \in Seq(HttpTokens), x = new.left, HttpExtends(x, s, n, u),
         new.todo = IF n = 0 THEN <<>> ELSE Drop(u, n)
  PROVE  HttpHeads(req, job, x) /\ (new.todo # <<>> => HttpComposed(job, new))
<1>1. PICK l \in Nat : l = Len(s)
  BY SeqTypes
<1>2. l > 2 /\ s[2][1] = "chunked"
  BY <1>1 DEF HttpComposed
<1>3. /\ Len(x) = l + n + 3
      /\ \A i \in 1..l : x[i] = s[i]
  BY <1>1 DEF HttpExtends
<1>4. x[1] = s[1] /\ x[2] = s[2] /\ x[3] = s[3]
  <2>1. 1 \in 1..l /\ 2 \in 1..l /\ 3 \in 1..l
    BY <1>2
  <2> QED
    BY <2>1, <1>3
<1>5. PICK f \in Nat : f = HttpFrom(job, s[1][2])
  BY HttpFromType
<1>6. s[1][2] \in {200, 206} =>
        /\ HttpWholeChunks(s)
        /\ \E k \in Nat : HttpToSend(u, k) /\ HttpUpTo(s, f, k)
  BY <1>5 DEF HttpComposed
<1>7. PICK q \in 0..2, ch \in BOOLEAN : HttpHeadsAt(req, job, s, q, ch)
  BY DEF HttpHeads
<1>8. q > 0 /\ s[1][1] = "status"
  <2>1. s # <<>>
    BY <1>1, <1>2, SeqTypes
  <2> QED
    BY <1>7, <2>1 DEF HttpHeadsAt
<1>9. q = 2
  <2>1. SUFFICES ASSUME q = 1 PROVE FALSE
    BY <1>8
  <2>2. q + 1 <= Len(s) /\ q + 1 = 2
    BY <2>1, <1>1, <1>2
  <2>3. s[q + 1] = HttpCrlf
    BY <2>2, <1>7 DEF HttpHeadsAt
  <2> QED
    BY <2>2, <2>3, <1>2, HttpCrlfType
<1>10. q # 1 /\ q <= Len(s) /\ q + 1 <= Len(s) /\ q + 1 = 3 /\ q <= Len(x) /\ q + 1 <= Len(x)
  BY <1>1, <1>2, <1>3, <1>9
<1>11. ch = TRUE
  <2>1. s[q][1] = IF ch THEN "chunked" ELSE "length"
    BY <1>7, <1>10 DEF HttpHeadsAt
  <2> QED
    BY <2>1, <1>2, <1>9
<1>12. req.length = 0 /\ s[3] = HttpCrlf
  BY <1>7, <1>10, <1>11 DEF HttpHeadsAt
<1>13. s[1][2] \in {200, 206} => HttpSizeAt(s, 3, f) /\ HttpLaid(s)
  <2>1. s[1][2] \in {200, 206} => HttpBodyAt(s, q + 1, f, ch)
    BY <1>7, <1>10, <1>5 DEF HttpHeadsAt
  <2> QED
    BY <2>1, <1>10, <1>11 DEF HttpBodyAt
<1>14. s[1][2] \in {200, 206} => HttpSizeAt(x, 3, f) /\ HttpLaid(x)
  <2>1. SUFFICES ASSUME s[1][2] \in {200, 206} PROVE HttpSizeAt(x, 3, f) /\ HttpLaid(x)
    OBVIOUS
  <2>2. PICK k \in Nat : HttpToSend(u, k) /\ HttpUpTo(s, f, k)
    BY <2>1, <1>6
  <2>3. HttpWholeChunks(s) /\ HttpSizeAt(s, 3, f) /\ HttpLaid(s)
    BY <2>1, <1>6, <1>13
  <2>4. PICK p \in Nat : p = 3
    OBVIOUS
  <2>5. p <= Len(s) /\ (p = Len(s) => k = f)
    BY <2>2, <2>4, <1>1, <1>2 DEF HttpUpTo
  <2>6. HttpSizeAt(x, p, f)
    <3>1. HttpSizeAt(s, p, f)
      BY <2>3, <2>4
    <3> QED
      BY <3>1, <2>2, <2>3, <2>5, HttpExtendsSize
  <2>7. HttpPart(s, u, f, k)
    BY <2>2, <2>3, <1>1, <1>2 DEF HttpPart
  <2>8. HttpLaid(x)
    BY <2>7, HttpExtendsLaid, Zenon
  <2> QED
    BY <2>4, <2>6, <2>8
<1>15. HttpHeads(req, job, x)
  <2>1. x[1][2] \in {200, 206} => HttpBodyAt(x, q + 1, HttpFrom(job, x[1][2]), ch)
    BY <1>4, <1>5, <1>10, <1>11, <1>14 DEF HttpBodyAt
  <2>2. x[q + 1] = HttpCrlf
    BY <1>4, <1>10, <1>12
  <2>3. x[q][1] = IF ch THEN "chunked" ELSE "length"
    BY <1>2, <1>4, <1>9, <1>11
  <2>4. HttpHeadsAt(req, job, x, q, ch)
    BY <2>1, <2>2, <2>3, <1>4, <1>8, <1>10, <1>11, <1>12, ZenonT(60) DEF HttpHeadsAt
  <2> QED
    BY <2>4 DEF HttpHeads
<1>16. ASSUME new.todo # <<>> PROVE HttpComposed(job, new)
  <2>1. n > 0 /\ new.todo = Drop(u, n)
    BY <1>16
  <2>2. PICK w \in Seq(HttpTokens) : w = Drop(u, n)
    BY <2>1, HttpNetTypes
  <2>3. Len(new.left) > 2
    BY <1>2, <1>3
  <2>4. new.left[2][1] = "chunked" /\ new.left[1] = s[1]
    BY <1>2, <1>4
  <2>5. ASSUME s[1][2] \in {200, 206}
        PROVE  HttpWholeChunks(x) /\ \E k \in Nat : HttpToSend(w, k) /\ HttpUpTo(x, f, k)
    <3>1. PICK k \in Nat : HttpToSend(u, k) /\ HttpUpTo(s, f, k)
      BY <2>5, <1>6
    <3>2. HttpWholeChunks(s)
      BY <2>5, <1>6
    <3>3. HttpWholeChunks(x)
      BY <2>1, <3>1, <3>2, HttpExtendsWhole
    <3>4. Len(s) > 2
      BY <1>1, <1>2
    <3>5. HttpToSend(w, k + n) /\ HttpUpTo(x, f, k + n)
      BY <2>1, <2>2, <3>1, <3>4, HttpExtendsSend, Zenon
    <3>6. k + n \in Nat
      OBVIOUS
    <3> QED
      BY <3>3, <3>5, <3>6
  <2> QED
    BY <2>1, <2>2, <2>3, <2>4, <2>5, <1>5 DEF HttpComposed
<1> QED
  BY <1>15, <1>16

\* What the next chunk leaves of the answer
LEMMA HttpServeGives ==
  ASSUME NEW net \in HttpNets, NEW new, NEW n \in Nat, NEW h, NEW t, HttpNextChunk(net, n, h, t, new)
  PROVE  /\ new \in HttpNets /\ net.todo # <<>> /\ n + 1 <= Len(net.todo)
         /\ HttpExtends(new.left, net.left, n, net.todo)
         /\ new.todo = IF n = 0 THEN <<>> ELSE Drop(net.todo, n)
<1>1. HttpExtends(new.left, net.left, n, net.todo)
  BY HttpNextExtends
<1>2. new \in HttpNets /\ n + 1 <= Len(net.todo) /\ new.todo = IF n = 0 THEN <<>> ELSE Drop(net.todo, n)
  BY DEF HttpNextChunk
<1>3. net.todo # <<>>
  <2>1. PICK u \in Seq(HttpTokens) : u = net.todo
    BY HttpNetTypes
  <2>2. PICK m \in Nat : m = Len(u)
    BY SeqTypes
  <2>3. m # 0
    BY <2>1, <2>2, <1>2
  <2> QED
    BY <2>1, <2>2, <2>3, SeqTypes
<1> QED
  BY <1>1, <1>2, <1>3

\* After a chunked response the answer is still stuck.
LEMMA HttpServeStuck ==
  ASSUME NEW s \in Seq(HttpTokens), s # <<>> => HttpStuck(s), NEW n \in Nat, NEW u, NEW x, HttpExtends(x, s, n, u)
  PROVE  HttpStuck(x)
<1>1. PICK l \in Nat : l = Len(s)
  BY SeqTypes
<1>2. x \in Seq(HttpTokens) /\ Len(x) = l + n + 3 /\ (\A i \in 1..l : x[i] = s[i]) /\ x[l + 1] = <<"size", n>>
  BY <1>1 DEF HttpExtends
<1>3. x # <<>>
  BY <1>2, SeqTypes
<1>4. CASE s = <<>>
  <2>1. l + 1 = 1
    BY <1>1, <1>4, SeqTypes
  <2>2. x[1][1] = "size"
    BY <2>1, <1>2
  <2>3. x[1] # HttpCrlf
    BY <2>2, HttpCrlfType
  <2> QED
    BY <2>3, <1>3 DEF HttpStuck
<1>5. CASE s # <<>>
  <2>1. 1 \in 1..l
    BY <1>1, <1>5, SeqTypes
  <2>2. x[1] = s[1] /\ s[1] # HttpCrlf
    BY <2>1, <1>2, <1>5 DEF HttpStuck
  <2> QED
    BY <2>2, <1>3 DEF HttpStuck
<1> QED
  BY <1>4, <1>5

\* A chunk comes while the headers are waited for.
LEMMA HttpServeInHeaders ==
  ASSUME NEW req \in HttpReqs, NEW job \in HttpJobs, NEW net \in HttpNets, HttpInHeaders(req, job, net),
         NEW new, NEW n \in Nat, NEW h, NEW t, HttpNextChunk(net, n, h, t, new)
  PROVE  HttpInHeaders(req, job, new)
<1>1. /\ new \in HttpNets /\ net.todo # <<>> /\ n + 1 <= Len(net.todo)
      /\ HttpExtends(new.left, net.left, n, net.todo)
      /\ new.todo = IF n = 0 THEN <<>> ELSE Drop(net.todo, n)
  BY HttpServeGives
<1>2. ~job.line /\ req.rbuf.data = <<>> /\ req.extra = <<>> /\ ~req.ptr.on /\ ~job.chunked
  BY <1>1 DEF HttpInHeaders
<1>3. PICK s \in Seq(HttpTokens) : s = net.left
  BY HttpNetTypes
<1>4. PICK u \in Seq(HttpTokens) : u = net.todo
  BY HttpNetTypes
<1>5. PICK x \in Seq(HttpTokens) : x = new.left
  BY <1>1, HttpNetTypes
<1>6. req.ptr.rest = <<>>
  BY <1>2, HttpReqTypes, HttpNone
<1>7. ASSUME req.chunked PROVE HttpStaleHeaders(req, job, new)
  <2>1. HttpStaleHeaders(req, job, net)
    BY <1>7 DEF HttpInHeaders
  <2>2. s # <<>> => HttpStuck(s)
    BY <2>1, <1>2, <1>3, <1>6 DEF HttpStaleHeaders
  <2>3. HttpExtends(x, s, n, u)
    BY <1>1, <1>3, <1>4, <1>5
  <2>4. HttpStuck(x)
    BY <2>2, <2>3, HttpServeStuck
  <2> QED
    BY <2>4, <1>2, <1>5, <1>6 DEF HttpStaleHeaders
<1>8. ASSUME ~req.chunked PROVE HttpFreshHeaders(req, job, new)
  <2>1. HttpFreshHeaders(req, job, net)
    BY <1>8 DEF HttpInHeaders
  <2>2. Cat(req.rbuf.data, net.left) = s /\ Cat(req.rbuf.data, new.left) = x
    BY <1>2, <1>3, <1>5, CatEmpty
  <2>3. HttpHeads(req, job, s) /\ HttpComposed(job, net)
    BY <2>1, <2>2, <1>1 DEF HttpFreshHeaders
  <2>4. /\ ~job.line /\ ~job.chunked /\ s = net.left /\ u = net.todo /\ x = new.left /\ n + 1 <= Len(u)
        /\ HttpExtends(x, s, n, u) /\ new.todo = IF n = 0 THEN <<>> ELSE Drop(u, n)
    BY <1>1, <1>2, <1>3, <1>4, <1>5
  <2>5. HttpHeads(req, job, x) /\ (new.todo # <<>> => HttpComposed(job, new))
    BY <2>3, <2>4, <1>1, HttpServeHeads, Zenon
  <2> QED
    BY <2>1, <2>2, <2>5 DEF HttpFreshHeaders
<1> QED
  BY <1>2, <1>7, <1>8 DEF HttpInHeaders

\* The server sends on only what is waited for in the headers.
LEMMA HttpServeOrderly ==
  ASSUME HttpTyped, HttpPlaced, HttpServe
  PROVE  HttpPlaced'
<1>1. httpReq \in HttpReqs /\ httpJob \in HttpJobs /\ httpNet \in HttpNets
  BY DEF HttpTyped, HttpTypeOK
<1>2. httpReq' = httpReq /\ httpJob' = httpJob
  BY HttpServeCases DEF HttpTyped
<1>3. PICK n \in Nat, h \in Seq(HttpTokens), t \in Seq(HttpTokens) : HttpNextChunk(httpNet, n, h, t, httpNet')
  BY HttpServeCases DEF HttpTyped
<1>4. PICK new : new = httpNet'
  OBVIOUS
<1>5. HttpNextChunk(httpNet, n, h, t, new)
  BY <1>3, <1>4
<1>6. httpNet.todo # <<>>
  BY <1>1, <1>5, HttpServeGives, Zenon
<1>7. HttpOrderly(httpReq, httpJob, httpNet)
  BY DEF HttpPlaced
<1>8. HttpOrderly(httpReq, httpJob, new)
  <2>1. SUFFICES ASSUME httpJob.clean, httpJob.op # "head"
                 PROVE  /\ httpJob.at = "headers" => HttpInHeaders(httpReq, httpJob, new)
                        /\ httpJob.at = "size" => HttpInSize(httpReq, httpJob, new)
                        /\ httpJob.at \in {"body", "list"} => HttpInBody(httpReq, httpJob, new)
    BY DEF HttpOrderly
  <2>2. ASSUME httpJob.at = "headers" PROVE HttpInHeaders(httpReq, httpJob, new)
    <3>1. HttpInHeaders(httpReq, httpJob, httpNet)
      BY <2>1, <2>2, <1>7 DEF HttpOrderly
    <3> QED
      BY <3>1, <1>1, <1>5, HttpServeInHeaders
  <2>3. httpJob.at # "size"
    BY <2>1, <1>6, <1>7 DEF HttpOrderly, HttpInSize
  <2>4. httpJob.at \notin {"body", "list"}
    BY <2>1, <1>6, <1>7 DEF HttpOrderly, HttpInBody
  <2> QED
    BY <2>2, <2>3, <2>4
<1> QED
  BY <1>2, <1>4, <1>8 DEF HttpPlaced

-----------------------------------------------------------------------------
(* A call begins                                                           *)

\* The headers of an answer are not those of a chunk.
LEMMA HttpHeadNoSize ==
  ASSUME NEW h, NEW status, NEW ch, HttpHeadOf(h, status, ch)
  PROVE  /\ h \in Seq(HttpTokens) /\ \A i \in 1..Len(h) : h[i][1] # "size"
         /\ h # <<>> /\ h[1][1] = "status" /\ h[1][2] = status
<1>1. h \in Seq(HttpTokens) /\ Len(h) \in {2, 3} /\ h[1] = <<"status", status>> /\ h[Len(h)] = HttpCrlf
      /\ (Len(h) = 3 => h[2][1] = IF ch THEN "chunked" ELSE "length")
  BY DEF HttpHeadOf
<1>2. PICK l \in Nat : l = Len(h)
  BY <1>1, SeqTypes
<1>3. h[1][1] = "status" /\ h[1][2] = status /\ h[l][1] = "crlf"
  BY <1>1, <1>2, HttpCrlfType
<1>4. l = 3 => h[2][1] \in {"chunked", "length"}
  BY <1>1, <1>2
<1>5. \A i \in 1..l : i = 1 \/ i = l \/ (l = 3 /\ i = 2)
  BY <1>1, <1>2
<1>6. \A i \in 1..l : h[i][1] # "size"
  BY <1>3, <1>4, <1>5
<1> QED
  BY <1>1, <1>2, <1>3, <1>6, SeqTypes

\* What the answer a is, to the call that waits for it: its headers come first, and then the body.
HttpMeets(req, job, left, todo) ==
  /\ left \in Seq(HttpTokens)
  /\ HttpHeads(req, job, left)
  /\ left # <<>> => HttpStuck(left)
  /\ todo # <<>> =>
       /\ Len(left) > 2 /\ left[2][1] = "chunked"
       /\ left[1][2] \in {200, 206} =>
            /\ HttpWholeChunks(left)
            /\ \E k \in Nat : HttpToSend(todo, k) /\ HttpUpTo(left, HttpFrom(job, left[1][2]), k)

HttpMeetsNow(req, job, left) == HttpMeets(req, job, left, <<>>)

\* The body of a good response starts where its status says.
HttpBodyFrom(job, status, body) == status \in {200, 206} => HttpRun(body, HttpFrom(job, status))

\* The headers, plain and chunked
HttpHeadPlain(h, status) == \E ch \in BOOLEAN : ~ch /\ HttpHeadOf(h, status, ch)
HttpHeadChunked(h, status) == \E ch \in BOOLEAN : ch /\ HttpHeadOf(h, status, ch)

\* The answer is put together, plain.
LEMMA HttpPlainMeets ==
  ASSUME NEW req, NEW job \in HttpJobs, ~job.line, ~job.chunked, NEW status, NEW body \in Seq(HttpTokens),
         HttpBodyFrom(job, status, body), NEW h, HttpHeadPlain(h, status), NEW left, left = Cat(h, body)
  PROVE  HttpMeetsNow(req, job, left)
<1>14. PICK f \in Nat : f = HttpFrom(job, status)
  BY HttpFromType
<1>15. status \in {200, 206} => HttpRun(body, f)
  BY <1>14 DEF HttpBodyFrom
<1>13. PICK ch \in BOOLEAN : ~ch /\ HttpHeadOf(h, status, ch)
  BY DEF HttpHeadPlain
<1>1. h \in Seq(HttpTokens) /\ h # <<>> /\ h[1][1] = "status" /\ h[1][2] = status
  BY <1>13, HttpHeadNoSize
<1>2. PICK s \in Seq(HttpTokens) :
         /\ s = Cat(h, body) /\ Len(s) = Len(h) + Len(body)
         /\ \A i \in 1..Len(h) : s[i] = h[i]
         /\ \A i \in 1..Len(body) : s[Len(h) + i] = body[i]
  BY <1>1, CatPick, Zenon
<1>3. PICK l \in Nat : l = Len(h)
  BY <1>1, SeqTypes
<1>4. PICK m \in Nat : m = Len(body)
  BY SeqTypes
<1>5. l \in {2, 3} /\ h[l] = HttpCrlf /\ (l = 3 => h[2][1] = "length")
  BY <1>3, <1>13 DEF HttpHeadOf
<1>6. PICK q \in 0..2 : q = l - 1
  BY <1>5
<1>7. Len(s) = l + m /\ (\A i \in 1..l : s[i] = h[i]) /\ (\A i \in 1..m : s[l + i] = body[i])
  BY <1>2, <1>3, <1>4
<1>8. s[1] = h[1] /\ s[l] = HttpCrlf /\ (l = 3 => s[2][1] = "length")
  <2>1. 1 \in 1..l /\ l \in 1..l /\ (l = 3 => 2 \in 1..l)
    BY <1>5
  <2> QED
    BY <2>1, <1>5, <1>7
<1>9. status \in {200, 206} => HttpBodyAt(s, q + 1, f, ch)
  <2>1. SUFFICES ASSUME status \in {200, 206} PROVE \A j \in 1..(Len(s) - (q + 1)) : s[q + 1 + j] = HttpUnit(f + j)
    BY <1>13 DEF HttpBodyAt
  <2>2. q + 1 = l
    BY <1>6
  <2>3. \A j \in 1..m : s[l + j] = HttpUnit(f + j)
    BY <2>1, <1>4, <1>7, <1>15 DEF HttpRun
  <2>4. Len(s) - (q + 1) = m
    BY <2>2, <1>7
  <2> QED
    BY <2>2, <2>3, <2>4
<1>10. HttpHeadsAt(req, job, s, q, ch)
  <2>1. q > 0 /\ q + 1 = l /\ s[1][1] = "status" /\ s[1][2] = status
    BY <1>1, <1>5, <1>6, <1>8
  <2>2. q # 1 => s[q][1] = "length"
    BY <1>5, <1>6, <1>8
  <2>3. s[q + 1] = HttpCrlf
    BY <2>1, <1>8
  <2>4. s[1][2] \in {200, 206} => HttpBodyAt(s, q + 1, HttpFrom(job, s[1][2]), ch)
    BY <2>1, <1>9, <1>14
  <2> QED
    BY <2>1, <2>2, <2>3, <2>4, <1>13, HttpJobTypes DEF HttpHeadsAt
<1>11. HttpHeads(req, job, s)
  BY <1>10 DEF HttpHeads
<1>12. HttpStuck(s)
  <2>1. s # <<>>
    <3>1. l + m # 0
      BY <1>5
    <3> QED
      BY <3>1, <1>7, SeqTypes
  <2>2. s[1] # HttpCrlf
    BY <1>1, <1>8, HttpCrlfType
  <2> QED
    BY <2>1, <2>2 DEF HttpStuck
<1> QED
  BY <1>2, <1>11, <1>12 DEF HttpMeets, HttpMeetsNow

\* The answer is put together, and its chunks are still to be sent.
LEMMA HttpChunkedMeets ==
  ASSUME NEW req, req.length = 0, NEW job \in HttpJobs, ~job.line, ~job.chunked, NEW status, NEW body \in Seq(HttpTokens),
         NEW f \in Nat, f = HttpFrom(job, status), status \in {200, 206} => HttpRun(body, f),
         NEW h, HttpHeadChunked(h, status), NEW t, HttpEndOf(t), NEW todo, todo = Cat(body, t)
  PROVE  HttpMeets(req, job, h, todo)
<1>21. PICK ch \in BOOLEAN : ch /\ HttpHeadOf(h, status, ch)
  BY Zenon DEF HttpHeadChunked
<1>1. /\ h \in Seq(HttpTokens) /\ h # <<>> /\ h[1][1] = "status" /\ h[1][2] = status
      /\ \A i \in 1..Len(h) : h[i][1] # "size"
  BY <1>21, HttpHeadNoSize, Zenon
<1>2. t \in Seq(HttpTokens) /\ Len(t) = 1 /\ t[1] = HttpCrlf
  BY DEF HttpEndOf
<1>3. PICK u \in Seq(HttpTokens) :
         /\ u = Cat(body, t) /\ Len(u) = Len(body) + Len(t)
         /\ \A i \in 1..Len(body) : u[i] = body[i]
         /\ \A i \in 1..Len(t) : u[Len(body) + i] = t[i]
  BY <1>2, CatPick, Zenon
<1>4. PICK m \in Nat : m = Len(body)
  BY SeqTypes
<1>5. Len(u) = m + 1 /\ (\A i \in 1..m : u[i] = body[i]) /\ u[m + 1] = HttpCrlf
  <2>1. 1 \in 1..Len(t)
    BY <1>2
  <2> QED
    BY <2>1, <1>2, <1>3, <1>4
<1>6. Len(h) = 3 /\ h[3] = HttpCrlf /\ h[2][1] = "chunked"
  BY <1>21, Zenon DEF HttpHeadOf
<1>7. HttpLaid(h) /\ HttpWholeChunks(h)
  BY <1>1, Zenon DEF HttpLaid, HttpWholeChunks
<1>18. PICK q \in 0..2 : q = 2
  OBVIOUS
<1>19. PICK p \in Nat : p = q + 1
  OBVIOUS
<1>20. PICK c \in BOOLEAN : c = TRUE
  BY Zenon
<1>8. q = 2 /\ p = q + 1 /\ c = TRUE
  BY <1>18, <1>19, <1>20
<1>9. HttpSizeAt(h, p, f)
  <2>1. ~(p + 1 <= Len(h)) /\ ~(p + 2 <= Len(h)) /\ ~(p + 3 <= Len(h))
    BY <1>6, <1>8
  <2> QED
    BY <2>1 DEF HttpSizeAt
<1>10. HttpBodyAt(h, p, f, c)
  BY <1>7, <1>8, <1>9 DEF HttpBodyAt
<1>11. HttpHeadsAt(req, job, h, q, c)
  <2>1. q > 0 /\ q # 1 /\ q + 1 = p /\ p = 3
    BY <1>8
  <2>2. h[q][1] = "chunked" /\ h[q + 1] = HttpCrlf
    BY <1>6, <1>8
  <2>3. h[1][2] \in {200, 206} => HttpBodyAt(h, q + 1, HttpFrom(job, h[1][2]), c)
    BY <1>1, <2>1, <1>10
  <2> QED
    BY <2>1, <2>2, <2>3, <1>1, <1>8, HttpJobTypes, ZenonT(60) DEF HttpHeadsAt
<1>12. HttpHeads(req, job, h)
  BY <1>11 DEF HttpHeads
<1>13. HttpStuck(h)
  <2>1. h[1] # HttpCrlf
    BY <1>1, HttpCrlfType
  <2> QED
    BY <2>1, <1>1 DEF HttpStuck
<1>14. status \in {200, 206} => HttpToSend(u, f)
  <2>1. SUFFICES ASSUME HttpRun(body, f) PROVE HttpToSend(u, f)
    OBVIOUS
  <2>2. \A i \in 1..m : u[i] = HttpUnit(f + i)
    BY <2>1, <1>4, <1>5 DEF HttpRun
  <2>3. Len(u) - 1 = m
    BY <1>5
  <2> QED
    BY <2>2, <2>3, <1>5 DEF HttpToSend
<1>15. HttpUpTo(h, f, f)
  BY <1>6 DEF HttpUpTo
<1>16. h[1][2] \in {200, 206} => \E k \in Nat : HttpToSend(u, k) /\ HttpUpTo(h, HttpFrom(job, h[1][2]), k)
  BY <1>1, <1>14, <1>15
<1>17. Len(h) > 2
  BY <1>6
<1> QED
  BY <1>1, <1>3, <1>6, <1>7, <1>12, <1>13, <1>16, <1>17 DEF HttpMeets

\* Nothing to read is no answer, and breaks none.
LEMMA HttpNothingMeets ==
  ASSUME NEW req, NEW job \in HttpJobs, ~job.line, ~job.chunked
  PROVE  HttpMeets(req, job, <<>>, <<>>)
<1>1. PICK s \in Seq(HttpTokens) : s = <<>> /\ Len(s) = 0
  BY HttpEmpty, SeqTypes, Zenon
<1>5. PICK q \in 0..2 : q = 1
  OBVIOUS
<1>6. PICK c \in BOOLEAN : c = FALSE
  BY Zenon
<1>2. q = 1 /\ c = FALSE
  BY <1>5, <1>6
<1>3. HttpHeadsAt(req, job, s, q, c)
  <2>1. q > 0 /\ ~(q + 1 <= Len(s))
    BY <1>1, <1>2
  <2> QED
    BY <2>1, <1>1, <1>2, HttpJobTypes DEF HttpHeadsAt
<1>4. HttpHeads(req, job, s)
  BY <1>3 DEF HttpHeads
<1> QED
  BY <1>1, <1>4 DEF HttpMeets

\* An answer of the server meets the call that asked for it.
LEMMA HttpAnsweredMeets ==
  ASSUME NEW req, req.length = 0, NEW job \in HttpJobs, ~job.line, ~job.chunked, NEW a, HttpAnswered(a, job.start)
  PROVE  HttpMeets(req, job, a.left, a.todo)
<1>1. PICK status \in {200, 206, 404}, body \in Seq(HttpTokens) :
        /\ HttpAnswerOf(a, status, body)
        /\ status \in {200, 206} => HttpRun(body, IF status = 206 THEN job.start ELSE 0)
  BY DEF HttpAnswered
<1>2. PICK f \in Nat : f = HttpFrom(job, status)
  BY HttpFromType
<1>3. status \in {200, 206} => HttpRun(body, f)
  BY <1>1, <1>2 DEF HttpFrom
<1>4. PICK h \in Seq(HttpTokens), ch \in BOOLEAN : HttpHeadOf(h, status, ch) /\ HttpAnswerAt(a, body, h, ch)
  BY <1>1 DEF HttpAnswerOf
<1>7. PICK st : st = status
  OBVIOUS
<1>5. CASE ~ch
  <2>1. PICK left \in Seq(HttpTokens) : left = Cat(h, body)
    BY CatIs
  <2>2. a.left = left /\ a.todo = <<>>
    BY <2>1, <1>4, <1>5 DEF HttpAnswerAt
  <2>3. HttpHeadPlain(h, st) /\ ~job.line /\ ~job.chunked /\ f = HttpFrom(job, st) /\ left = Cat(h, body)
    BY <2>1, <1>2, <1>4, <1>5, <1>7 DEF HttpHeadPlain
  <2>5. HttpBodyFrom(job, st, body)
    BY <1>2, <1>3, <1>7 DEF HttpBodyFrom
  <2>4. HttpMeetsNow(req, job, left)
    BY <2>3, <2>5, HttpPlainMeets
  <2> QED
    BY <2>2, <2>4 DEF HttpMeetsNow
<1>6. CASE ch
  <2>1. PICK t \in Seq(HttpTokens) : HttpEndOf(t) /\ a.todo = Cat(body, t)
    BY <1>4, <1>6 DEF HttpAnswerAt
  <2>2. PICK todo : todo = Cat(body, t)
    OBVIOUS
  <2>3. a.left = h /\ a.todo = todo
    BY <2>1, <2>2, <1>4, <1>6 DEF HttpAnswerAt
  <2>4. /\ HttpHeadChunked(h, st) /\ req.length = 0 /\ ~job.line /\ ~job.chunked /\ f = HttpFrom(job, st)
        /\ todo = Cat(body, t) /\ HttpEndOf(t)
    BY <2>1, <2>2, <1>2, <1>4, <1>6, <1>7, Zenon DEF HttpHeadChunked
  <2>6. st \in {200, 206} => HttpRun(body, f)
    BY <1>3, <1>7
  <2>5. HttpMeets(req, job, h, todo)
    BY <2>4, <2>6, HttpChunkedMeets
  <2> QED
    BY <2>3, <2>5
<1> QED
  BY <1>5, <1>6

\* Nothing is left of the last response: the answer is all there is to read.
LEMMA HttpAskedMeets ==
  ASSUME NEW req, req.length = 0, NEW job \in HttpJobs, ~job.line, ~job.chunked,
         NEW net \in HttpNets, net.left = <<>>, net.todo = <<>>, NEW new, HttpAskedNet(new, net, job.start)
  PROVE  HttpMeets(req, job, new.left, new.todo)
<1>1. CASE HttpAnswered(new, job.start)
  BY <1>1, HttpAnsweredMeets
<1>2. CASE new = net
  <2>1. HttpMeets(req, job, <<>>, <<>>)
    BY HttpNothingMeets
  <2> QED
    BY <1>2, <2>1
<1>3. CASE \E a \in HttpNets : HttpAnswered(a, job.start) /\ new.left = Cat(net.left, a.left) /\ new.todo = a.todo
  <2>1. PICK a \in HttpNets : HttpAnswered(a, job.start) /\ new.left = Cat(net.left, a.left) /\ new.todo = a.todo
    BY <1>3
  <2>2. new.left = a.left
    <3>1. a.left \in Seq(HttpTokens)
      BY HttpNetTypes
    <3>2. Cat(<<>>, a.left) = a.left
      BY <3>1, CatEmpty
    <3> QED
      BY <2>1, <3>2
  <2>3. HttpMeets(req, job, a.left, a.todo)
    BY <2>1, HttpAnsweredMeets
  <2> QED
    BY <2>1, <2>2, <2>3
<1> QED
  BY <1>1, <1>2, <1>3 DEF HttpAskedNet

\* The call waits for the headers, whether the last response was chunked or not.
LEMMA HttpAskedInHeaders ==
  ASSUME NEW req \in HttpReqs, ~req.ptr.on, req.rbuf.data = <<>>, NEW r, HttpAskedReq(r, req),
         NEW job \in HttpJobs, NEW op, NEW start, HttpAskedJob(job, op, start),
         NEW net \in HttpNets, HttpMeets(r, job, net.left, net.todo)
  PROVE  HttpInHeaders(r, job, net)
<1>1. /\ r \in HttpReqs /\ r.rbuf.data = <<>> /\ r.extra = <<>> /\ r.chunk = 0 /\ r.eof = FALSE /\ r.ptr = HttpNoPtr
  BY HttpReqTypes DEF HttpAskedReq
<1>2. ~r.ptr.on /\ r.ptr.done = <<>> /\ r.ptr.rest = <<>>
  BY <1>1, HttpNone
<1>3. job.got = <<>> /\ job.first = 0 /\ job.status = 0 /\ ~job.line /\ ~job.chunked
  BY DEF HttpAskedJob
<1>4. HttpStaleHeaders(r, job, net)
  <2>1. net.left # <<>> => HttpStuck(net.left)
    BY DEF HttpMeets
  <2> QED
    BY <2>1, <1>1, <1>2, <1>3 DEF HttpStaleHeaders
<1>5. HttpFreshHeaders(r, job, net)
  <2>1. Cat(r.rbuf.data, net.left) = net.left
    BY <1>1, HttpNetTypes, CatEmpty
  <2>2. HttpHeads(r, job, net.left)
    BY DEF HttpMeets
  <2>3. net.todo # <<>> => HttpComposed(job, net)
    BY DEF HttpMeets, HttpComposed
  <2> QED
    BY <2>1, <2>2, <2>3, <1>1, <1>2 DEF HttpFreshHeaders
<1> QED
  BY <1>1, <1>2, <1>3, <1>4, <1>5 DEF HttpInHeaders

\* A call begins.
LEMMA HttpAskOrderly ==
  ASSUME HttpTyped, NEW op \in {"get", "list", "head"}, NEW start \in 0..1, HttpAsk(op, start)
  PROVE  HttpPlaced'
<1>1. httpReq \in HttpReqs /\ httpJob \in HttpJobs /\ httpNet \in HttpNets
  BY DEF HttpTyped, HttpTypeOK
<1>2. /\ httpJob.at = "none" /\ HttpAskedReq(httpReq', httpReq) /\ HttpAskedJob(httpJob', op, start)
      /\ httpNet' \in HttpNets
      /\ op # "head" => HttpAskedNet(httpNet', httpNet, start)
      /\ (httpJob').clean => httpReq.rbuf.data = <<>> /\ httpNet.left = <<>> /\ httpNet.todo = <<>>
  BY HttpAskCases DEF HttpTyped
<1>3. PICK r : r = httpReq'
  OBVIOUS
<1>4. PICK j : j = httpJob'
  OBVIOUS
<1>5. PICK new : new = httpNet'
  OBVIOUS
<1>6. /\ HttpAskedReq(r, httpReq) /\ HttpAskedJob(j, op, start) /\ new \in HttpNets
      /\ op # "head" => HttpAskedNet(new, httpNet, start)
      /\ j.clean => httpReq.rbuf.data = <<>> /\ httpNet.left = <<>> /\ httpNet.todo = <<>>
  BY <1>2, <1>3, <1>4, <1>5
<1>7. j \in HttpJobs /\ j.op = op /\ j.at = "headers" /\ j.start = start /\ ~j.line /\ ~j.chunked /\ r.length = 0
  BY <1>6 DEF HttpAskedJob, HttpAskedReq
<1>8. ~httpReq.ptr.on
  BY <1>2 DEF HttpTyped, HttpIdle
<1>9. ASSUME j.clean, j.op # "head" PROVE HttpInHeaders(r, j, new)
  <2>1. httpReq.rbuf.data = <<>> /\ httpNet.left = <<>> /\ httpNet.todo = <<>> /\ HttpAskedNet(new, httpNet, j.start)
    BY <1>6, <1>7, <1>9
  <2>2. HttpMeets(r, j, new.left, new.todo)
    BY <2>1, <1>1, <1>7, HttpAskedMeets
  <2> QED
    BY <2>1, <2>2, <1>1, <1>6, <1>7, <1>8, HttpAskedInHeaders
<1>10. HttpOrderly(r, j, new)
  BY <1>7, <1>9 DEF HttpOrderly
<1> QED
  BY <1>3, <1>4, <1>5, <1>10 DEF HttpPlaced

-----------------------------------------------------------------------------
(* The order of what is delivered                                          *)

\* What was delivered is good, in the loop over the chunk headers too.
LEMMA HttpBodyGood ==
  ASSUME NEW req \in HttpReqs, NEW given \in Seq(HttpTokens), NEW f \in Nat, NEW left \in Seq(HttpTokens),
         HttpBody(req, given, f, left)
  PROVE  HttpGood(given, f)
<1>1. CASE ~req.ptr.on
  BY <1>1, HttpGivenGood
<1>2. CASE req.ptr.on
  <2>1. CASE ~req.chunked
    BY <1>2, <2>1 DEF HttpBody, HttpPlain
  <2>2. CASE req.chunked /\ req.eof
    BY <1>2, <2>2 DEF HttpBody, HttpEnded
  <2>3. CASE req.chunked /\ ~req.eof
    <3>1. PICK done \in Seq(HttpTokens) : done = req.ptr.done
      BY HttpReqTypes
    <3>2. HttpRun(Cat(given, done), f)
      BY <1>2, <2>3, <3>1, Zenon DEF HttpBody, HttpInLoop
    <3>3. HttpRun(given, f)
      BY <3>2, HttpRunCat
    <3> QED
      BY <3>3, HttpRunGood
  <2> QED
    BY <2>1, <2>2, <2>3
<1> QED
  BY <1>1, <1>2

\* What was delivered is good, whatever the call waits for.
LEMMA HttpGotGood ==
  ASSUME HttpTyped, HttpPlaced, HttpTold(httpJob)
  PROVE  HttpGood(httpJob.got, httpJob.first)
<1>1. httpReq \in HttpReqs /\ httpJob \in HttpJobs /\ httpNet \in HttpNets
  BY DEF HttpTyped, HttpTypeOK
<1>2. HttpOrderly(httpReq, httpJob, httpNet)
  BY DEF HttpPlaced
<1>3. httpJob.clean /\ httpJob.op # "head"
  BY DEF HttpTold
<1>4. PICK f \in Nat : f = httpJob.first
  BY <1>1, HttpJobTypes, HttpSizeAssumption
<1>5. PICK got \in Seq(HttpTokens) : got = httpJob.got
  BY <1>1, HttpJobTypes
<1>6. ASSUME got = <<>> PROVE HttpGood(got, f)
  BY <1>6, HttpOfNothing
<1>7. CASE httpJob.at = "none"
  BY <1>4, <1>5, <1>6, <1>7 DEF HttpTyped, HttpIdle
<1>8. CASE httpJob.at = "headers"
  BY <1>2, <1>3, <1>4, <1>5, <1>6, <1>8 DEF HttpOrderly, HttpInHeaders
<1>9. CASE httpJob.at = "size"
  BY <1>2, <1>3, <1>4, <1>5, <1>6, <1>9 DEF HttpOrderly, HttpInSize
<1>10. CASE httpJob.at \in {"body", "list"}
  <2>1. HttpInBody(httpReq, httpJob, httpNet)
    BY <1>2, <1>3, <1>10 DEF HttpOrderly
  <2>2. PICK data \in Seq(HttpTokens) : data = httpReq.rbuf.data
    BY <1>1, HttpReqTypes
  <2>3. PICK left \in Seq(HttpTokens) : left = httpNet.left
    BY <1>1, HttpNetTypes
  <2>4. PICK given \in Seq(HttpTokens) : given = Cat(got, data)
    BY CatIs
  <2>5. HttpBody(httpReq, given, f, left)
    BY <2>1, <2>2, <2>3, <2>4, <1>4, <1>5 DEF HttpInBody, HttpGiven
  <2>6. HttpGood(given, f)
    BY <2>5, <1>1, HttpBodyGood
  <2>7. HttpGood(got, f)
    BY <2>4, <2>6, HttpGoodCat
  <2> QED
    BY <2>7, <1>4, <1>5
<1> QED
  BY <1>1, <1>7, <1>8, <1>9, <1>10, HttpJobTypes DEF HttpAts

\* The body from unit f on, and it may be the end of line after the last chunk: the file has that body.
LEMMA HttpGoodPrefix ==
  ASSUME NEW got \in Seq(HttpTokens), NEW f \in 0..HttpSize, HttpGood(got, f),
         NEW end \in 0..1, end = IF got # <<>> /\ Last(got) = HttpCrlf THEN 1 ELSE 0
  PROVE  IsPrefix(SubSeq(got, 1, Len(got) - end), SubSeq(HttpData, f + 1, HttpSize))
<1>1. PICK l \in Nat : l = Len(got)
  BY SeqTypes
<1>2. end <= l
  BY <1>1, SeqTypes
<1>3. PICK n \in Nat : n = l - end
  BY <1>2
<1>4. PICK g \in Seq(HttpTokens) : g = Take(got, n)
  <2>1. n <= Len(got)
    BY <1>1, <1>3
  <2> QED
    BY <2>1, TakeIs
<1>5. Len(g) = n /\ \A i \in 1..n : g[i] = got[i]
  <2>1. n <= Len(got)
    BY <1>1, <1>3
  <2> QED
    BY <2>1, <1>4, TakeIs
<1>6. PICK b \in Seq(HttpTokens) : b = SubSeq(HttpData, f + 1, HttpSize) /\ Len(b) = HttpSize - f /\ HttpRun(b, f)
  BY HttpDataFrom
<1>7. HttpSize \in Nat /\ f \in Nat
  BY HttpSizeAssumption
<1>8. ASSUME NEW i \in 1..n PROVE g[i] = HttpUnit(f + i) /\ f + i <= HttpSize
  <2>1. i \in 1..l
    BY <1>2, <1>3
  <2>2. got[i] = HttpUnit(f + i) \/ (i = l /\ got[i] = HttpCrlf)
    BY <2>1, <1>1 DEF HttpGood
  <2>3. ~(i = l /\ got[i] = HttpCrlf)
    <3>1. SUFFICES ASSUME i = l, got[i] = HttpCrlf PROVE FALSE
      OBVIOUS
    <3>2. got # <<>> /\ Last(got) = HttpCrlf
      BY <2>1, <3>1, <1>1, SeqTypes DEF Last
    <3>3. end = 1
      BY <3>2
    <3> QED
      BY <3>1, <3>3, <1>3
  <2>4. got[i] = HttpUnit(f + i) /\ got[i] \in HttpTokens
    BY <2>1, <2>2, <2>3, <1>1, SeqTypes
  <2>5. HttpUnit(f + i)[2] \in 0..HttpSize
    BY <2>4, HttpTokenTypes, HttpUnitIs
  <2>6. f + i \in 0..HttpSize
    BY <2>5, HttpUnitIs
  <2> QED
    BY <2>4, <2>6, <1>5, <1>7
<1>9. n <= HttpSize - f
  <2>1. CASE n = 0
    BY <2>1, <1>7
  <2>2. CASE n > 0
    <3>1. n \in 1..n
      BY <2>2
    <3>2. f + n <= HttpSize
      BY <3>1, <1>8, Zenon
    <3> QED
      BY <3>2, <1>7
  <2> QED
    BY <2>1, <2>2
<1>10. PICK c \in Seq(HttpTokens) : c = Take(b, n)
  <2>1. n <= Len(b)
    BY <1>6, <1>9
  <2> QED
    BY <2>1, TakeIs
<1>11. Len(c) = n /\ \A i \in 1..n : c[i] = b[i]
  <2>1. n <= Len(b)
    BY <1>6, <1>9
  <2> QED
    BY <2>1, <1>10, TakeIs
<1>12. g = c
  <2>1. ASSUME NEW i \in 1..n PROVE g[i] = c[i]
    <3>1. i \in 1..(HttpSize - f)
      BY <1>7, <1>9
    <3>2. b[i] = HttpUnit(f + i)
      BY <3>1, <1>6 DEF HttpRun
    <3> QED
      BY <3>2, <1>8, <1>11
  <2> QED
    BY <2>1, <1>5, <1>11, SeqIs
<1>13. Take(g, Len(g)) = g
  BY DropEnds
<1>14. SubSeq(g, 1, Len(g)) = SubSeq(b, 1, Len(g))
  <2>1. SubSeq(g, 1, Len(g)) = g
    BY <1>13 DEF Take
  <2>2. SubSeq(b, 1, Len(g)) = c
    BY <1>5, <1>10 DEF Take
  <2> QED
    BY <2>1, <2>2, <1>12
<1>15. IsPrefix(g, b)
  <2>1. Len(g) <= Len(b)
    BY <1>5, <1>6, <1>9
  <2> QED
    BY <2>1, <1>14 DEF IsPrefix
<1>16. g = SubSeq(got, 1, Len(got) - end)
  BY <1>1, <1>3, <1>4 DEF Take
<1> QED
  BY <1>6, <1>15, <1>16

\* Every token in its place, the body is delivered in order.
LEMMA HttpPlacedInOrder ==
  ASSUME HttpTyped, HttpPlaced
  PROVE  HttpInOrder
<1>1. SUFFICES ASSUME HttpTold(httpJob)
               PROVE  LET body == SubSeq(HttpData, httpJob.first + 1, HttpSize)
                          got == httpJob.got
                          end == IF got # <<>> /\ Last(got) = HttpCrlf THEN 1 ELSE 0
                      IN IsPrefix(SubSeq(got, 1, Len(got) - end), body)
  BY Zenon DEF HttpInOrder, HttpTold
<1>2. httpJob \in HttpJobs
  BY DEF HttpTyped, HttpTypeOK
<1>3. PICK got \in Seq(HttpTokens) : got = httpJob.got
  BY <1>2, HttpJobTypes
<1>4. PICK f \in 0..HttpSize : f = httpJob.first
  BY <1>2, HttpJobTypes
<1>5. PICK end \in 0..1 : end = IF got # <<>> /\ Last(got) = HttpCrlf THEN 1 ELSE 0
  OBVIOUS
<1>6. HttpGood(got, f)
  BY <1>1, <1>3, <1>4, HttpGotGood
<1>7. IsPrefix(SubSeq(got, 1, Len(got) - end), SubSeq(HttpData, f + 1, HttpSize))
  BY <1>5, <1>6, HttpGoodPrefix
<1> QED
  BY <1>3, <1>4, <1>5, <1>7, Zenon

\* Before the first call, nothing is waited for.
LEMMA HttpInitOrderly ==
  ASSUME HttpInit
  PROVE  HttpPlaced
<1>1. httpJob.at = "none"
  BY DEF HttpInit, HttpNoJob
<1> QED
  BY <1>1 DEF HttpPlaced, HttpOrderly

\* Every step keeps every token in its place.
LEMMA HttpStepOrderly == HttpTyped /\ HttpPlaced /\ [HttpNext]_httpVars => HttpPlaced'
<1> SUFFICES ASSUME HttpTyped, HttpPlaced, [HttpNext]_httpVars PROVE HttpPlaced'
  OBVIOUS
<1>1. CASE HttpClient
  <2>1. CASE HttpLine
    BY <2>1, HttpLineOrderly
  <2>2. CASE HttpFromBuffer
    BY <2>2, HttpFromBufferOrderly
  <2>3. CASE HttpRead
    BY <2>3, HttpReadOrderly
  <2>4. CASE HttpLoop
    BY <2>4, HttpLoopOrderly
  <2>5. CASE HttpBroken
    BY <2>5, HttpBreaksOrderly
  <2> QED
    BY <1>1, <2>1, <2>2, <2>3, <2>4, <2>5 DEF HttpClient
<1>2. CASE HttpCaller
  <2>1. CASE HttpGetFile \/ HttpListFiles \/ HttpGetSize
    <3>1. PICK op \in {"get", "list", "head"}, start \in 0..1 : HttpAsk(op, start)
      BY <2>1, HttpAsks
    <3> QED
      BY <3>1, HttpAskOrderly
  <2>2. CASE HttpAbort \/ HttpDisconnect \/ HttpDestroy
    BY <2>2, HttpBreaksOrderly
  <2> QED
    BY <1>2, <2>1, <2>2 DEF HttpCaller
<1>3. CASE HttpServer
  BY <1>3, HttpServeOrderly, HttpCutOrderly DEF HttpServer
<1>4. CASE UNCHANGED httpVars
  BY <1>4, HttpStutterOrderly
<1> QED
  BY <1>1, <1>2, <1>3, <1>4 DEF HttpNext

\* What a download or a listing delivers is its own response, in order, wherever the reads divide it
\* (rfc2068_chunked_read(), rfc2068_read_response()).
THEOREM HttpKeepsOrder == HttpSpec => []HttpInOrder
<1>1. HttpInit => HttpTyped /\ HttpPlaced
  BY HttpInitTypes, HttpInitOrderly
<1>2. HttpTyped /\ HttpPlaced /\ [HttpNext]_httpVars => (HttpTyped /\ HttpPlaced)'
  BY HttpStepTypes, HttpStepOrderly
<1>3. HttpTyped /\ HttpPlaced => HttpInOrder
  BY HttpPlacedInOrder
<1> QED
  BY <1>1, <1>2, <1>3, PTL DEF HttpSpec
=============================================================================
