------------------------------ MODULE Watchman ------------------------------
(***************************************************************************)
(* The Watchman scanner: scanners/watchman.lua over watchman.c over one    *)
(* socket.  A scan asks for the project a directory lies in and then for   *)
(* its files, each a request and a blocking wait for the response.  The    *)
(* server, the socket and signals are the environment: bytes arrive in     *)
(* pieces of any size, the server may end and be started again, and a      *)
(* signal may cut a recv() short.                                          *)
(*                                                                         *)
(* The socket is connected once and kept in a Lua local for the life of    *)
(* the editor, whatever has happened on it.                                *)
(***************************************************************************)
EXTENDS Bser

CONSTANTS Dir,         \* directories scanned
          Path,        \* Path[d]: the full path of directory d
          Word,        \* the words of requests and responses, as bytes
          Reply,       \* what the server may respond: [bytes |-> the response,
                       \* says |-> its meaning]
          Responds(_, _),  \* Responds(q, reply): the server may so respond to the
                           \* bytes q
          Cuts,        \* bound: the places at which arriving bytes may pause, besides
                       \* the end
          Interrupts,  \* whether signals cut recv() short
          Patience     \* bound: failed requests after which the user restarts

ASSUME WordAssumption ==
  /\ Path \in [Dir -> Seq(Byte)]
  /\ \A key \in {"query", "watchProject", "expression", "type", "f", "fields", "name",
                "relativeRoot", "files", "error", "watch", "relativePath"} :
       key \in DOMAIN Word /\ Word[key] \in Seq(Byte)

ASSUME WatchmanAssumption ==
  Cuts \subseteq Nat /\ Interrupts \in BOOLEAN /\ Patience \in Nat

\* A response is one PDU: a binary marker, its payload's size, the payload.
ASSUME ReplyAssumption ==
  \A reply \in Reply :
    /\ reply.bytes \in Seq(Byte)
    /\ Len(reply.bytes) >= 3
    /\ reply.bytes[3] \in DOMAIN Width
    /\ LET head == 3 + Width[reply.bytes[3]]
           length == watchman_read_int(SubSeq(reply.bytes, 1, head), 2)
       IN  head + length.val = Len(reply.bytes) /\ length.val \in Nat

VARIABLES
  pc,        \* "idle", "connect", "send", "sniff", "peek", "read", or "dead"
             \* when the editor's process has ended
  dir,       \* directory of the last scan
  stage,     \* what is asked for: "watch" (the project) or "query" (its files)
  request,   \* the watchman_request_t
  sockname,  \* whether get-sockname has been run
  socket,    \* the cached socket: "none", "open", or "broken" when the peer is gone
  server,    \* whether the server runs
  requests,  \* requests the server has received on the socket and not served
  stream,    \* bytes the server has responded and the client not consumed
  arrived,   \* how many of them recv() can see
  head,      \* peek_size
  size,      \* payload_size
  answer,    \* what the last scan gave: nothing yet, an error or its files
  said,      \* the meaning of the server's last response (history)
  garbage,   \* a failed query's result waits for the garbage collector
  failures   \* requests that failed on this socket

conn == <<socket, server, requests, stream, arrived, said>>
vars == <<pc, dir, stage, request, sockname, conn, head, size, answer, garbage, failures>>

NoAnswer == [how |-> "none", files |-> << >>]
Refused == [how |-> "error", files |-> << >>]
Nothing == [about |-> "nothing", gives |-> NoAnswer]
Found(files) == [how |-> "files", files |-> files]

WatchProject ==
  [d \in Dir |-> Request(watchman_write_array(2)
                           \o watchman_write_string(Word.watchProject)
                           \o watchman_write_string(Path[d]))]

\* An absent relative path is not in the domain of the project read.
Query(project) ==
  LET inner == Word.relativePath \in DOMAIN project
  IN  Request(watchman_write_array(3) \o watchman_write_string(Word.query)
                \o watchman_write_string(project[Word.watch])
                \o watchman_write_object(IF inner THEN 3 ELSE 2)
                \o watchman_write_string(Word.expression)
                \o watchman_write_array(2) \o watchman_write_string(Word.type)
                \o watchman_write_string(Word.f)
                \o watchman_write_string(Word.fields)
                \o watchman_write_array(1) \o watchman_write_string(Word.name)
                \o IF inner THEN watchman_write_string(Word.relativeRoot)
                                   \o watchman_write_string(project[Word.relativePath])
                            ELSE << >>)

ProjectField(key, b, p) ==
  IF key \in {Word.watch, Word.relativePath} THEN watchman_read_string(b, p)
                                             ELSE watchman_skip_value(b, p)

QueryField(key, b, p) ==
  IF key = Word.files THEN ReadFiles(b, p) ELSE watchman_skip_value(b, p)

Field(asked, key, b, p) ==
  IF asked = "watch" THEN ProjectField(key, b, p) ELSE QueryField(key, b, p)

\* One pair more, over an earlier one with the same key.  An error in the response
\* ends it like an error of reading.
NextField(asked, b, p, fields) ==
  Then(watchman_read_string(b, p), LAMBDA at, key :
    IF key = Word.error
    THEN Then(watchman_read_string(b, at), LAMBDA q, message : Error)
    ELSE Then(Field(asked, key, b, at),    LAMBDA q, value :
              Ok(q, [k \in DOMAIN fields \cup {key} |->
                       IF k = key THEN value ELSE fields[k]])))

\* The loop over a response's pairs; what follows the object is not looked at.
ReadFields(asked, b, p) ==
  Then(watchman_read_object(b, p), LAMBDA start, count :
    LET fields[i \in 0 .. count] ==
          IF i = 0 THEN Ok(start, << >>)
          ELSE Then(fields[i - 1], LAMBDA q, before : NextField(asked, b, q, before))
    IN  fields[count])

\* What a response gives: the fields read, unless the one needed is not among
\* them.
Parsed(asked, b, p) ==
  Then(ReadFields(asked, b, p), LAMBDA q, fields :
       IF (IF asked = "watch" THEN Word.watch ELSE Word.files) \in DOMAIN fields
       THEN Ok(q, fields) ELSE Error)

Init ==
  /\ pc = "idle" /\ dir \in Dir /\ stage = "watch"
  /\ request = Request(<< >>)
  /\ sockname = FALSE /\ socket = "none" /\ server = FALSE
  /\ requests = << >> /\ stream = << >> /\ arrived = 0
  /\ head = 0 /\ size = 0
  /\ answer = NoAnswer /\ said = Nothing
  /\ garbage = FALSE /\ failures = 0

---------------------------------------------------------------------------
(* The client.                                                             *)

\* get-sockname starts the server when it is not running, but its answer is
\* cached: after the first time nothing starts the server.
Scan(d) ==
  /\ pc = "idle"
  /\ failures < Patience
  /\ dir' = d
  /\ stage' = "watch"
  /\ request' = WatchProject[d]
  /\ answer' = NoAnswer
  /\ pc' = IF socket = "none" THEN "connect" ELSE "send"
  /\ sockname' = TRUE
  /\ server' = (server \/ ~ sockname)
  /\ UNCHANGED <<socket, requests, stream, arrived, said, head, size, garbage, failures>>

Connect ==
  /\ pc = "connect"
  /\ IF server THEN socket' = "open" /\ pc' = "send" /\ UNCHANGED answer
               ELSE pc' = "idle" /\ answer' = Refused /\ UNCHANGED socket
  /\ UNCHANGED <<dir, stage, request, sockname, server, requests, stream, arrived, said,
                 head, size, garbage, failures>>

\* watchman_send() gave NULL.  The project's result then has a string literal
\* for its error, which Lua frees at once: that may be the end of the process.
\* The query's result is freed when it is collected.
Failed ==
  /\ answer' = Refused
  /\ failures' = failures + 1
  /\ IF stage = "watch" THEN pc' \in {"idle", "dead"} /\ UNCHANGED garbage
                        ELSE pc' = "idle" /\ garbage' = TRUE
  /\ UNCHANGED <<dir, stage, request, sockname, head>>

Send ==
  /\ pc = "send"
  /\ socket = "open"
  /\ requests' = Append(requests, request.payload)
  /\ pc' = "sniff"
  /\ UNCHANGED <<dir, stage, request, sockname, socket, server, stream, arrived, said,
                 head, size, answer, garbage, failures>>

SendFails ==
  /\ pc = "send"
  /\ socket = "broken"
  /\ Failed
  /\ UNCHANGED <<conn, size>>

\* recv() waits for n bytes; it returns fewer when the peer is gone, or when
\* Interrupted.
CutShort(n) == arrived < n /\ socket = "broken"

\* Mutant: the size of the header is read from the byte behind its marker.
HeadSizeNext == 3 + Width[stream[3]] + 1

HeadSize == 3 + Width[stream[3]]

\* The first three bytes, waited for and left in the socket.
Sniff ==
  /\ pc = "sniff"
  /\ arrived >= 3
  /\ stream[3] \in DOMAIN Width
  /\ head' = HeadSize
  /\ pc' = "peek"
  /\ UNCHANGED <<dir, stage, request, sockname, conn, size, answer, garbage, failures>>

SniffFails ==
  /\ pc = "sniff"
  /\ \/ arrived >= 3 /\ stream[3] \notin DOMAIN Width
     \/ CutShort(3)
  /\ Failed
  /\ UNCHANGED <<conn, size>>

PayloadSize == head + watchman_read_int(SubSeq(stream, 1, head), 2).val

\* The header, not waited for: a part of it will not do.  Room for a negative
\* size is more than there is.
Peek ==
  /\ pc = "peek"
  /\ arrived >= head
  /\ size' = PayloadSize
  /\ pc' = IF size' \in Nat THEN "read" ELSE "dead"
  /\ UNCHANGED <<dir, stage, request, sockname, conn, head, answer, garbage, failures>>

PeekFails ==
  /\ pc = "peek"
  /\ arrived < head
  /\ Failed
  /\ UNCHANGED <<conn, size>>

\* Mutant: MSG_PEEK is left on.
ConsumeNothing(n) == n >= 0 /\ UNCHANGED conn

Consume(n) ==
  /\ stream' = SubSeq(stream, n + 1, Len(stream))
  /\ arrived' = arrived - n
  /\ UNCHANGED <<socket, server, requests, said>>

\* A query's response in which the pointer leaves the bytes may be taken for an error, end
\* the process, or give files of which one at least cannot be read.
Outcomes(got) ==
  IF got.how = "wild"
  THEN {Error, Died, Ok(0, [word \in {Word.files} |-> <<Unreadable>>])}
  ELSE {got}

\* The whole PDU.  A project leads on to the query; everything else is the end
\* of the scan.
Read ==
  /\ pc = "read"
  /\ arrived >= size
  /\ Consume(size)
  /\ \E pdu \in {SubSeq(stream, 1, size)} : \E got \in Outcomes(Parsed(stage, pdu, head)) :
       LET goesOn == got.how = "ok" /\ stage = "watch"
       IN  /\ answer' = CASE got.how = "error" -> Refused
                          [] got.how = "ok" /\ ~ goesOn -> Found(got.val[Word.files])
                          [] OTHER -> answer
           /\ pc' = IF goesOn THEN "send" ELSE IF got.how = "died" THEN "dead" ELSE "idle"
           /\ stage' = IF goesOn THEN "query" ELSE stage
           /\ request' = IF goesOn THEN Query(got.val) ELSE request
  /\ UNCHANGED <<dir, sockname, head, size, garbage, failures>>

\* What has been consumed is gone, and the rest stays for the next request.
ReadFails ==
  /\ pc = "read"
  /\ CutShort(size)
  /\ Consume(arrived)
  /\ Failed
  /\ UNCHANGED size

\* A signal comes while recv() waits.
Interrupted ==
  /\ Interrupts
  /\ \/ pc = "sniff" /\ arrived < 3 /\ UNCHANGED conn
     \/ pc = "read" /\ arrived < size /\ Consume(arrived)
  /\ Failed
  /\ UNCHANGED size

\* commandt_watchman_query_free() on a result without a response.
Collect ==
  /\ garbage
  /\ pc \in {"idle", "send"}
  /\ pc' = "dead"
  /\ UNCHANGED <<dir, stage, request, sockname, conn, head, size, answer, garbage, failures>>

\* The user starts the editor again.
Restart ==
  /\ pc = "dead" \/ (pc = "idle" /\ failures = Patience)
  /\ pc' = "idle" /\ stage' = "watch" /\ request' = Request(<< >>)
  /\ sockname' = FALSE /\ socket' = "none"
  /\ requests' = << >> /\ stream' = << >> /\ arrived' = 0
  /\ head' = 0 /\ size' = 0
  /\ answer' = NoAnswer /\ said' = Nothing
  /\ garbage' = FALSE /\ failures' = 0
  /\ UNCHANGED <<dir, server>>

---------------------------------------------------------------------------
(* The environment.                                                        *)

client == <<pc, dir, stage, request, sockname, head, size, answer, garbage, failures>>

Serve ==
  /\ socket = "open"
  /\ requests # << >>
  /\ \E reply \in Reply :
       /\ Responds(Head(requests), reply)
       /\ stream' = stream \o reply.bytes
       /\ said' = reply.says
  /\ requests' = Tail(requests)
  /\ UNCHANGED <<client, socket, server, arrived>>

Arrive ==
  /\ \E n \in Cuts \cup {Len(stream)} :
       arrived < n /\ n <= Len(stream) /\ arrived' = n
  /\ UNCHANGED <<client, socket, server, requests, stream, said>>

\* The server ends: what it has not written yet is never written.
ServerEnds ==
  /\ server
  /\ server' = FALSE
  /\ socket' = IF socket = "open" THEN "broken" ELSE socket
  /\ requests' = << >>
  /\ stream' = SubSeq(stream, 1, arrived)
  /\ UNCHANGED <<client, arrived, said>>

ServerStarts ==
  /\ ~ server
  /\ server' = TRUE
  /\ UNCHANGED <<client, socket, requests, stream, arrived, said>>

---------------------------------------------------------------------------

Client ==
  \/ Connect \/ Send \/ SendFails \/ Sniff \/ SniffFails
  \/ Peek \/ PeekFails \/ Read \/ ReadFails

Environment ==
  Serve \/ Arrive \/ ServerEnds \/ ServerStarts

Next ==
  \/ \E d \in Dir : Scan(d)
  \/ Client
  \/ Interrupted
  \/ Collect
  \/ Restart
  \/ Environment

\* The editor's thread runs; a running server responds and what it wrote
\* arrives.  Nobody need restart anything.
Fairness ==
  /\ WF_vars(Client)
  /\ WF_vars(Serve)
  /\ WF_vars(Arrive)

Spec == Init /\ [][Next]_vars /\ Fairness

---------------------------------------------------------------------------
(* Properties.                                                             *)

TypeOK ==
  /\ pc \in {"idle", "connect", "send", "sniff", "peek", "read", "dead"}
  /\ pc = "read" => size \in Nat
  /\ dir \in Dir
  /\ stage \in {"watch", "query"}
  /\ sockname \in BOOLEAN
  /\ socket \in {"none", "open", "broken"}
  /\ server \in BOOLEAN
  /\ stream \in Seq(Byte)
  /\ head \in {0} \cup {3 + Width[m] : m \in DOMAIN Width}
  /\ arrived \in 0 .. Len(stream)
  /\ garbage \in BOOLEAN
  /\ failures \in 0 .. Patience
  /\ pc \notin {"idle", "dead"} => failures < Patience

\* watchman_append() and its callers never write past the room they have.
RequestFits == ~ request.past

Waiting == pc \in {"sniff", "peek", "read"}

\* As long as no request has failed on the socket, a response is only ever
\* read by the request it responds to, from its first byte on and to its
\* last, in whatever pieces it arrives.
Aligned ==
  failures = 0 /\ pc # "dead" =>
    \/ requests = << >> /\ stream = << >> /\ (Waiting => socket = "broken")
    \/ /\ Waiting
       /\ \/ requests = <<request.payload>> /\ stream = << >>
          \/ /\ requests = << >>
             /\ \E reply \in Reply :
                  /\ \/ stream = reply.bytes
                     \/ /\ socket = "broken" /\ arrived < Len(reply.bytes)
                        /\ stream = SubSeq(reply.bytes, 1, arrived)
                  /\ Responds(request.payload, reply)
                  /\ said = reply.says

\* As long as no request has failed on the socket, what a scan gives is what
\* the server said about that very directory: its files, all of them in
\* order, or its refusal.
Truthful ==
  pc = "idle" /\ failures = 0 /\ socket # "none" /\ answer # NoAnswer =>
    said = [about |-> dir, gives |-> answer]

\* As long as no request has failed on the socket, the editor only dies of a
\* directory without files: whatever else the server may say is read to its
\* end or refused.
Survives ==
  pc = "dead" /\ failures = 0 => said.gives = Found(<< >>)

\* A scan on such a socket comes back to the editor, or ends it: it never
\* waits for bytes that will not come.
ScanEnds == (pc # "idle" /\ failures = 0) ~> (pc \in {"idle", "dead"})

\* A scan that fails is reported: the process that is to report it lives on.
FailureReported == [][answer' = Refused => pc' # "dead"]_vars

=============================================================================
