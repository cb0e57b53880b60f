-------------------------------- MODULE Http --------------------------------
(***************************************************************************)
(* An HTTP session (lib/rfc2068.c over lib/sockutils.c): a response comes  *)
(* through a line buffer, then, chunked or not, through                    *)
(* rfc2068_chunked_read(), which takes the chunk headers out of what it    *)
(* reads.  One read() returns any number of the tokens that have arrived,  *)
(* so every token may be the last one of a read.                           *)
(*                                                                         *)
(* A token is a line of the headers, an end of line, the digits of a chunk *)
(* size, or one unit of data, which in a listing is the line of one entry. *)
(***************************************************************************)
EXTENDS Naturals, Sequences, SequencesExt

CONSTANTS
  HttpSize,    \* length of the file, or of the listing
  HttpLeaks,   \* bound: read_ref_cnt beyond the calls at work, where more makes no difference
  HttpStale    \* bound: what is left of a response when the next request is made

ASSUME HttpSizeAssumption == {HttpSize, HttpLeaks} \subseteq Nat \ {0} /\ HttpStale \in Nat

VARIABLES
  httpReq,    \* request and rfc2068_params
  httpJob,    \* the operation, what it waits for, what it returned and delivered
  httpNet     \* left: what has been sent and not read; todo: the body that is not yet in chunks;
              \* end: whether the server closes then

httpVars == <<httpReq, httpJob, httpNet>>

HttpData == [i \in 1..HttpSize |-> <<"d", i>>]
HttpCrlf == <<"crlf", 0>>
HttpPage == <<"page", 0>>
HttpTokens ==
  {HttpCrlf, HttpPage, <<"chunked", 0>>} \cup ({"d", "size", "length"} \X (0..HttpSize)) \cup
  ({"status"} \X {200, 206, 404})

HttpOps == {"none", "get", "list", "head"}
HttpAts == {"none", "headers", "size", "body", "list"}
HttpCodes == {0, 200, 206, 404}
HttpRets == {"none", "ok", "retry", "fatal"}

HttpNoPtr == [on |-> FALSE, done |-> <<>>, rest |-> <<>>]
HttpNoBuf == [on |-> FALSE, data |-> <<>>, eof |-> FALSE]
HttpPtrs == {p \in [on : BOOLEAN, done : Seq(HttpTokens), rest : Seq(HttpTokens)] : p.on \/ p = HttpNoPtr}
HttpBufs == {b \in [on : BOOLEAN, data : Seq(HttpTokens), eof : BOOLEAN] : b.on \/ b.data = <<>>}
HttpReqs ==
  [up : BOOLEAN, rbuf : HttpBufs, extra : Seq(HttpTokens), chunk : Nat, length : Nat, read : Nat,
   chunked : BOOLEAN, eof : BOOLEAN, depth : 0..2, leak : 0..HttpLeaks, ptr : HttpPtrs]
HttpJobs ==
  [op : HttpOps, at : HttpAts, start : 0..HttpSize, first : 0..HttpSize, status : HttpCodes, line : BOOLEAN,
   chunked : BOOLEAN, ret : HttpRets, got : Seq(HttpTokens), clean : BOOLEAN]
HttpNets ==
  {n \in [left : Seq(HttpTokens), todo : Seq(HttpTokens), end : BOOLEAN] : Len(n.todo) <= HttpSize + 1}

HttpTypeOK == httpReq \in HttpReqs /\ httpJob \in HttpJobs /\ httpNet \in HttpNets

HttpNoJob == [op |-> "none", at |-> "none", start |-> 0, first |-> 0, status |-> 0, line |-> FALSE,
              chunked |-> FALSE, ret |-> "none", got |-> <<>>, clean |-> TRUE]

HttpNewReq == [up |-> FALSE, rbuf |-> HttpNoBuf, extra |-> <<>>, chunk |-> 0, length |-> 0, read |-> 0,
               chunked |-> FALSE, eof |-> FALSE, depth |-> 0, leak |-> 0, ptr |-> HttpNoPtr]
HttpNoNet == [left |-> <<>>, todo |-> <<>>, end |-> TRUE]
HttpInit == httpReq = HttpNewReq /\ httpJob = HttpNoJob /\ httpNet = HttpNoNet

-----------------------------------------------------------------------------
(* rfc2068_chunked_read(): what becomes of the tokens that are there.  The *)
(* result is data, "again" where it has a further chunk header to look     *)
(* for, in what is there or by a call of itself, or "fatal".               *)

HttpResult(req, res, data) == [req |-> req, res |-> res, data |-> data]

\* A call returns, and the calls of itself below it.
HttpDone(req, data) == HttpResult([req EXCEPT !.depth = 0, !.ptr = HttpNoPtr], "data", data)

\* rfc2068_disconnect(), from inside: the calls below do not count read_ref_cnt down.
HttpGivesUp(req) ==
  LET leak == req.leak + req.depth
  IN HttpResult([req EXCEPT !.up = FALSE, !.depth = 0, !.leak = IF leak < HttpLeaks THEN leak ELSE HttpLeaks,
                            !.ptr = HttpNoPtr], "fatal", <<>>)

\* What is at rest is no chunk header, whole: it is kept for the next read.
HttpSave(req, done, rest) ==
  LET r == [req EXCEPT !.extra = rest]
  IN CASE done # <<>> -> HttpDone(r, done)
       [] done = <<>> /\ req.leak + req.depth + 1 > 2 -> HttpGivesUp(r)
       [] OTHER -> HttpResult([r EXCEPT !.depth = @ + 1, !.ptr = HttpNoPtr], "again", <<>>)

\* In the buffer, done is data, and rest comes after.
HttpLoops(req, done, rest) ==
  HttpResult([req EXCEPT !.ptr = [on |-> TRUE, done |-> done, rest |-> rest]], "again", <<>>)

\* There is a chunk header at rest, to its end of line; and it is a size.
HttpWhole(rest) == rest # <<>> /\ rest[1] = HttpCrlf /\ \E i \in 2..Len(rest) : rest[i] = HttpCrlf
HttpSized(rest) == Len(rest) > 2 /\ rest[2][1] = "size" /\ rest[3] = HttpCrlf

\* The last chunk: what is returned is as long as what comes after the header, and starts with the header.
HttpLastChunk(req, done, rest) ==
  IF req.eof THEN HttpDone(req, <<>>)
  ELSE HttpDone([req EXCEPT !.eof = TRUE], done \o SubSeq(rest, 1, Len(rest) - 3))

\* A chunk of n that is there and is followed by more; or all the rest is taken to be of the chunk.
HttpChunk(req, done, n, tail) ==
  IF n < Len(tail) THEN HttpLoops(req, done \o SubSeq(tail, 1, n), SubSeq(tail, n + 1, Len(tail)))
  ELSE HttpLoops([req EXCEPT !.chunk = n - Len(tail)], done, tail)

\* One pass of the loop over the chunk headers
HttpUnchunk(req) ==
  LET done == req.ptr.done
      rest == req.ptr.rest
  IN CASE req.chunk > 0 \/ rest = <<>> -> HttpDone(req, done \o rest)
       [] req.chunk = 0 /\ rest # <<>> /\ ~HttpWhole(rest) -> HttpSave(req, done, rest)
       [] req.chunk = 0 /\ HttpWhole(rest) /\ ~HttpSized(rest) -> HttpGivesUp(req)
       [] req.chunk = 0 /\ HttpWhole(rest) /\ HttpSized(rest) /\ rest[2][2] = 0 -> HttpLastChunk(req, done, rest)
       [] OTHER -> HttpChunk(req, done, rest[2][2], SubSeq(rest, 4, Len(rest)))

\* Whether a read comes first, and the most it may ask for.
HttpEndOfChunks(extra) == Len(extra) > 3 /\ SubSeq(extra, 1, 3) = <<HttpCrlf, <<"size", 0>>, HttpCrlf>>
HttpAllRead(req) == req.extra = <<>> /\ req.length > 0 /\ req.length = req.read
HttpNoRead(req) == req.eof \/ HttpEndOfChunks(req.extra) \/ HttpAllRead(req)
HttpLimit(req) ==
  LET most == Len(httpNet.left)
  IN CASE req.extra = <<>> /\ req.length > req.read -> req.length - req.read
       [] req.extra = <<>> /\ req.length = 0 /\ req.chunked /\ req.chunk > 0 -> req.chunk
       [] OTHER -> most

\* read_bytes is only compared with content_length: all that are beyond it are alike.
HttpCount(n) == IF n <= HttpSize THEN n ELSE HttpSize + 1

\* After read() gave it the tokens got, or without one
HttpChunkedRead(req, got) ==
  LET r == [req EXCEPT !.read = HttpCount(@ + Len(got)), !.extra = <<>>]
      apart == got # <<>> /\ req.chunk > 0
  IN CASE HttpAllRead(req) -> HttpDone(req, <<>>)
       [] ~HttpAllRead(req) /\ apart -> HttpDone([r EXCEPT !.chunk = IF @ > Len(got) THEN @ - Len(got) ELSE 0], got)
       [] ~HttpAllRead(req) /\ ~apart /\ ~req.chunked -> HttpDone(r, req.extra \o got)
       [] OTHER -> HttpLoops(r, <<>>, req.extra \o got)

-----------------------------------------------------------------------------
(* The calls above it *)

HttpOut(req, job) == [req |-> req, job |-> job]
HttpReturn(req, job, ret) == HttpOut(req, [HttpNoJob EXCEPT !.op = job.op, !.ret = ret])

\* rfc2068_disconnect(): the line buffer stays.
HttpDropped(req) == [req EXCEPT !.up = FALSE]

\* rfc2068_end_transfer()
HttpEnd(req, job) ==
  IF ~req.up THEN HttpReturn(req, job, "fatal")
  ELSE HttpReturn([HttpDropped(req) EXCEPT !.length = 0, !.chunked = FALSE, !.chunk = 0, !.eof = FALSE], job, "ok")

\* The response is there, for rfc2068_get_file(), rfc2068_list_files() or
\* rfc2068_get_file_size(), which does not look at its status.
HttpResponse(req, job) ==
  LET r == [req EXCEPT !.read = 0]
  IN CASE job.op = "head" -> HttpReturn(req, job, "ok")
       [] job.op = "get" /\ job.status \in {200, 206} ->
            HttpOut(r, [job EXCEPT !.at = "body", !.first = IF job.status = 206 THEN job.start ELSE 0])
       [] job.op = "get" /\ job.status \notin {200, 206} -> HttpReturn(req, job, "retry")
       [] job.op = "list" /\ job.status = 200 -> HttpOut(r, [job EXCEPT !.at = "list"])
       [] OTHER -> HttpReturn(HttpEnd(r, job).req, job, "retry")

\* rfc2068_read_response(): the end of the headers
HttpHeaders(req, job) ==
  IF job.chunked THEN HttpOut(req, [job EXCEPT !.at = "size"]) ELSE HttpResponse([req EXCEPT !.chunked = FALSE], job)

HttpKeepsExtra(req, job, n) ==
  HttpResponse([req EXCEPT !.chunked = TRUE,
                           !.chunk = IF n > Len(req.rbuf.data) THEN n - Len(req.rbuf.data) ELSE 0], job)
\* The size of the first chunk: what the line buffer holds beyond it is kept apart.
HttpFirstChunk(req, job, n) ==
  LET b == req.rbuf.data
  IN CASE n = 0 -> HttpResponse([req EXCEPT !.chunk = 0], job)
       [] n > 0 /\ n >= Len(b) -> HttpResponse([req EXCEPT !.chunked = TRUE, !.chunk = n - Len(b)], job)
       [] OTHER -> HttpResponse([req EXCEPT !.chunked = TRUE, !.chunk = 0, !.rbuf.data = SubSeq(b, 1, n),
                                            !.extra = SubSeq(b, n + 1, Len(b))], job)

HttpWrong(req, job) == HttpReturn(HttpDropped(req), job, "fatal")

\* A header line; the first is taken for the status.
HttpHeader(req, job, h) ==
  HttpOut(IF h[1] = "length" THEN [req EXCEPT !.length = h[2]] ELSE req,
          [job EXCEPT !.line = TRUE, !.chunked = @ \/ h[1] = "chunked",
                      !.status = IF job.line THEN @ ELSE IF h[1] = "status" THEN h[2] ELSE 0])

\* A line that starts with h was read; rfc2068_get_next_file() passes over those that name no file.
HttpTakeLine(req, job, h) ==
  CASE job.at = "headers" /\ h = HttpCrlf -> HttpHeaders(req, job)
    [] job.at = "headers" /\ h # HttpCrlf -> HttpHeader(req, job, h)
    [] job.at = "size" /\ h[1] = "size" -> HttpFirstChunk(req, job, h[2])
    [] job.at = "size" /\ h[1] # "size" -> HttpWrong(req, job)
    [] OTHER -> HttpOut(req, IF h[1] = "d" THEN [job EXCEPT !.got = Append(@, h)] ELSE job)

\* gftp_get_line() returns 0: an empty status, an empty size, or the end of the listing; after
\* a header line the same line is read again for ever.
HttpNoLine(req, job) ==
  LET r == [req EXCEPT !.rbuf = HttpNoBuf]
  IN CASE job.at = "headers" /\ job.line -> HttpOut(r, job)
       [] job.at = "headers" /\ ~job.line -> HttpHeaders(r, job)
       [] job.at = "size" -> HttpWrong(r, job)
       [] job.at = "list" -> HttpEnd(r, job)

\* gftp_get_line() was given data, or found that there is no more.
HttpFill(req, job, data) ==
  CASE data # <<>> -> HttpOut([req EXCEPT !.rbuf = [on |-> TRUE, data |-> req.rbuf.data \o data, eof |-> FALSE]], job)
    [] data = <<>> /\ req.rbuf.data # <<>> -> HttpOut([req EXCEPT !.rbuf.eof = TRUE], job)
    [] OTHER -> HttpNoLine(req, job)

\* gftp_get_next_file_chunk() returned data to the worker, whose file is at its end without.
HttpGive(req, job, data) ==
  IF data = <<>> THEN HttpEnd(req, job) ELSE HttpOut(req, [job EXCEPT !.got = @ \o data])

\* rfc2068_chunked_read() is over, or goes on.
HttpGot(result, job) ==
  CASE result.res = "again" -> HttpOut(result.req, job)
    [] result.res = "fatal" -> HttpReturn(result.req, job, "fatal")
    [] OTHER -> IF job.at = "body" THEN HttpGive(result.req, job, result.data)
                ELSE HttpFill(result.req, job, result.data)

-----------------------------------------------------------------------------
(* Steps *)

HttpApplyWith(o, net) ==
  httpReq' = o.req /\ httpJob' = o.job /\ httpNet' = IF o.req.up THEN net ELSE HttpNoNet
HttpApply(o) == HttpApplyWith(o, httpNet)

\* The first n tokens of the buffer are a line: to an end of line, or to the end of file.
HttpIsLine(b, n) ==
  /\ \A i \in 1..(n - 1) : b.data[i][1] = "size"
  /\ b.data[n][1] # "size" \/ (b.eof /\ n = Len(b.data))
HttpHasLine(b) == \E n \in 1..Len(b.data) : HttpIsLine(b, n)

HttpLining == httpJob.at \in {"headers", "size", "list"}
\* No call of rfc2068_chunked_read() is at work.
HttpNoCall == httpReq.depth = 0 /\ ~httpReq.ptr.on

\* gftp_get_line() finds a line, or the end, in its buffer.
HttpLine ==
  LET b == httpReq.rbuf
  IN /\ HttpLining /\ HttpNoCall
     /\ \/ \E n \in 1..Len(b.data) :
             /\ HttpIsLine(b, n)
             /\ HttpApply(HttpTakeLine([httpReq EXCEPT !.rbuf.data = SubSeq(b.data, n + 1, Len(b.data))], httpJob,
                                       b.data[1]))
        \/ b.eof /\ b.data = <<>> /\ HttpApply(HttpNoLine(httpReq, httpJob))

HttpWantsMore ==
  /\ ~httpReq.ptr.on
  /\ \/ HttpLining /\ ~HttpHasLine(httpReq.rbuf) /\ ~httpReq.rbuf.eof
     \/ httpJob.at = "body" /\ ~httpReq.rbuf.on

\* The rest of the line buffer is the first of the data.
HttpFromBuffer ==
  /\ httpJob.at = "body" /\ HttpNoCall /\ httpReq.rbuf.on
  /\ HttpApply(HttpGive([httpReq EXCEPT !.rbuf = HttpNoBuf], httpJob, httpReq.rbuf.data))

\* One read(), or none, or the end of file.  The server has put its answer together by then,
\* of which a read takes as much as it likes.
HttpRead ==
  /\ HttpWantsMore
  /\ IF HttpNoRead(httpReq)
       THEN HttpApply(HttpGot(HttpChunkedRead(httpReq, <<>>), httpJob))
     ELSE LET left == httpNet.left
          IN \/ \E n \in 1..Len(left) :
                  /\ n <= HttpLimit(httpReq) /\ httpNet.todo = <<>>
                  /\ HttpApplyWith(HttpGot(HttpChunkedRead(httpReq, SubSeq(left, 1, n)), httpJob),
                                   [httpNet EXCEPT !.left = SubSeq(left, n + 1, Len(left))])
             \/ /\ left \o httpNet.todo = <<>> /\ httpNet.end
                /\ HttpApply(HttpGot(HttpDone([httpReq EXCEPT !.extra = <<>>], <<>>), httpJob))

\* The loop goes on.
HttpLoop == httpReq.ptr.on /\ HttpApply(HttpGot(HttpUnchunk(httpReq), httpJob))

\* gftp_fd_read() fails, or waits network_timeout in vain.
HttpBroken ==
  /\ HttpWantsMore /\ ~HttpNoRead(httpReq)
  /\ HttpApply(HttpReturn(HttpGivesUp([httpReq EXCEPT !.extra = <<>>, !.rbuf = HttpNoBuf]).req, httpJob, "retry"))

HttpClient == HttpLine \/ HttpFromBuffer \/ HttpRead \/ HttpLoop \/ HttpBroken

-----------------------------------------------------------------------------
(* The caller, and the server *)

HttpAnswer(left, todo, end) == [left |-> left, todo |-> todo, end |-> end]
HttpFramed(status, body) ==
  LET s == <<"status", status>>
  IN {HttpAnswer(<<s, <<"length", Len(body)>>, HttpCrlf>> \o body, <<>>, e) : e \in BOOLEAN}
     \cup {HttpAnswer(<<s, <<"chunked", 0>>, HttpCrlf>>, Append(body, HttpCrlf), e) : e \in BOOLEAN}
     \cup {HttpAnswer(<<s, HttpCrlf>> \o body, <<>>, TRUE)}

\* The server's answers; it may or may not know ranges.
HttpAnswers(op, start) ==
  CASE op = "head" ->
         {HttpAnswer(<<<<"status", 200>>, <<"length", HttpSize>>, HttpCrlf>>, <<>>, e) : e \in BOOLEAN}
    [] op = "get" /\ start > 0 ->
         HttpFramed(206, SubSeq(HttpData, start + 1, HttpSize)) \cup HttpFramed(200, HttpData)
    [] OTHER -> HttpFramed(200, HttpData) \cup HttpFramed(404, <<HttpPage>>)

\* The server puts the next chunk into its answer, of any size up to all that is still to be sent
\* of the body; then the last chunk, and the end of line after it.
HttpServe ==
  LET todo == httpNet.todo
  IN \E n \in 0..(Len(todo) - 1) :
       /\ n = 0 <=> Len(todo) = 1
       /\ httpNet' = [httpNet EXCEPT !.left = @ \o <<<<"size", n>>, HttpCrlf>> \o SubSeq(todo, 1, n) \o <<HttpCrlf>>,
                                     !.todo = IF n = 0 THEN <<>> ELSE SubSeq(todo, n + 1, Len(todo))]
       /\ UNCHANGED <<httpReq, httpJob>>

\* What is left of the last response
HttpRest == Len(httpReq.rbuf.data \o httpNet.left \o httpNet.todo)

\* rfc2068_send_command() and the start of rfc2068_read_response(), which forgets what was
\* kept apart, and neither the line buffer nor read_bytes nor chunked_transfer.
HttpAsk(op, start) ==
  /\ httpJob.at = "none"
  /\ HttpRest <= HttpStale
  /\ \E a \in HttpAnswers(op, start) :
       httpNet' = CASE ~httpReq.up -> a
                    [] httpReq.up /\ httpNet.end -> httpNet
                    [] OTHER -> [a EXCEPT !.left = httpNet.left \o a.left]
  /\ httpReq' = [httpReq EXCEPT !.up = TRUE, !.extra = <<>>, !.chunk = 0, !.length = 0, !.eof = FALSE]
  /\ httpJob' = [HttpNoJob EXCEPT !.op = op, !.at = "headers", !.start = start,
                   !.clean = HttpRest = 0]

\* gftp_get_transfer_status() disconnects after a transfer that failed.
HttpFailed == httpJob.op = "get" /\ httpJob.ret \in {"retry", "fatal"} /\ httpReq.up
HttpGetFile == ~HttpFailed /\ \E start \in {0, 1} : HttpAsk("get", start)
HttpListFiles == ~HttpFailed /\ HttpAsk("list", 0)
HttpGetSize == ~HttpFailed /\ HttpAsk("head", 0)
HttpAbort == httpJob.at = "body" /\ HttpNoCall /\ HttpApply(HttpEnd(httpReq, httpJob))
HttpDisconnect ==
  httpJob.at = "none" /\ httpReq.up /\ HttpApply(HttpOut(HttpDropped(httpReq), httpJob))

\* The connection ends before the response does.
HttpCut ==
  /\ httpReq.up /\ httpNet.left \o httpNet.todo # <<>>
  /\ httpNet' = HttpNoNet
  /\ UNCHANGED <<httpReq, httpJob>>

\* rfc2068_destroy()
HttpDestroy == httpJob.at = "none" /\ httpReq # HttpNewReq /\ HttpApply(HttpOut(HttpNewReq, HttpNoJob))

HttpCaller == HttpGetFile \/ HttpListFiles \/ HttpGetSize \/ HttpAbort \/ HttpDisconnect \/ HttpDestroy

HttpServer == HttpServe \/ HttpCut

HttpNext == HttpClient \/ HttpCaller \/ HttpServer
HttpFairness == WF_httpVars(HttpClient)
HttpSpec == HttpInit /\ [][HttpNext]_httpVars /\ HttpFairness

-----------------------------------------------------------------------------
(* Properties *)

\* What a download delivers is the body of its own response from its first byte, however the
\* reads and the chunks divide it, with no header of a chunk in it but for the end of line
\* after the last, which the code delivers; a listing likewise.  A response that finds a rest
\* of another in the line buffer is told apart (rfc2068_chunked_read(), rfc2068_read_response()).
HttpInOrder ==
  httpJob.clean /\ httpJob.op # "head" =>
    LET body == SubSeq(HttpData, httpJob.first + 1, HttpSize)
        got == httpJob.got
        end == IF got # <<>> /\ Last(got) = HttpCrlf THEN 1 ELSE 0
    IN IsPrefix(SubSeq(got, 1, Len(got) - end), body)

\* The headers are waited for after the end of file: the loop reads it again and again.
HttpSpins == httpJob.at = "headers" /\ httpJob.line
\* A call returns, unless it loops over the end of file in the headers (rfc2068_read_response()).
HttpWaits == httpJob.at \in {"headers", "size", "list"} /\ ~HttpSpins
HttpReturns == HttpWaits ~> ~HttpWaits
=============================================================================
