----------------------------- MODULE LegacyHTTP -----------------------------
(***************************************************************************)
(* The life of a connection: LegacyHTTPServer.Serve and handleConnection   *)
(* (internal/server/legacy_http_server.go), the middleware around the      *)
(* handlers (internal/middleware) and the start and stop of the process    *)
(* (cmd/server/main.go), which reads its configuration first.              *)
(*                                                                         *)
(* A request arrives as pieces: its request line, its header lines, the    *)
(* blank line, the parts of its body.  It may stop after any of them.      *)
(* What a handler does to the store is one flag here, acted (module        *)
(* Gateway models it); what it does to its ResponseWriter is modelled.     *)
(***************************************************************************)
EXTENDS Config

CONSTANTS
    Conns,          \* connections
    Requests,       \* what peers send
    Sources,        \* what operators set up: [yaml, env]
    NoLength        \* the answer has no Content-Length header

\* "length" is a Content-Length line that Sscanf reads, "odd" one it does
\* not read (another spelling, no space) though HTTP allows it; "auth" holds
\* the credentials; http.ReadRequest refuses a request with a "badline".
Headers == {"auth", "length", "odd"}
Lengths == {"length", "odd"}
NeedBody == {"mystatus", "inject"}
Reports == {"serverinfos", "health"}                \* answered 200, nothing is done
Public == {"health", "health not GET", "not api"}   \* routes outside /api/

\* takes: the peer takes its answer from the connection.  Only the list of
\* actions, which grows with the queue, can be too long for the buffers.
Request == [path : NeedBody \cup Reports \cup Public
                       \cup {"myactions", "done", "done no guid", "no route"},
            line : {"line", "badline"}, headers : Seq(Headers), cred : Seq(STRING),
            body : Nat, takes : BOOLEAN]

Announced(req) == ToSet(req.headers) \cap Lengths # {}

ASSUME LegacyAssumption ==
    /\ Requests \subseteq Request
    /\ \A req \in Requests : req.body > 0 <=> Announced(req)
    /\ \A req \in Requests : req.takes \/ req.path = "myactions"
    /\ NoLength \notin Nat

ASSUME SourcesAssumption == Bad \notin BOOLEAN /\ \A s \in Sources : WellTyped(s)

Stream(req) == <<req.line>> \o req.headers \o <<"blank">> \o [i \in 1 .. req.body |-> "part"]

VARIABLES
    given,      \* config.yaml and the environment
    cfg,        \* the configuration
    main,       \* where main is: the start, its select, the shutdown, or gone
    listening,  \* the listener is open
    serving,    \* Serve has not returned
    conn        \* conn[c]: the peer of connection c and the goroutine that serves it

vars == <<given, cfg, main, listening, serving, conn>>

\* The ResponseWriters of one request: the buffer of legacyResponseWriter,
\* the written flag of the logging responseWriter, and the writes that
\* reached the peer.
Writer == [status : {0, 200, 201, 400, 401, 404, 405, 500}, buffered : Nat, flushed : BOOLEAN,
           written : BOOLEAN,
           out : Seq([status : Nat, length : Nat \cup {NoLength}])]
NewWriter == [status |-> 0, buffered |-> 0, flushed |-> FALSE, written |-> FALSE, out |-> <<>>]

Reading == {"line", "headers", "body"}
Points == Reading \cup {"none", "backlog", "parse", "handle", "respond", "flush", "closed"}

Conn(req) == [at : Points, req : {req},
              rest : {SubSeq(Stream(req), i, Len(Stream(req))) : i \in 1 .. Len(Stream(req)) + 1},
              cut : BOOLEAN,                \* every further read fails
              got : SUBSET Headers,         \* header lines heard
              body : 0 .. req.body,         \* parts of the body read
              w : Writer,
              todo : Seq(Nat),              \* what the handler still does to its writer
              acted : BOOLEAN, panicked : BOOLEAN]

TypeOK ==
    /\ given \in Sources
    /\ main \in {"load", "listen", "serve", "select", "closing", "draining", "exited"}
    /\ main \in {"load", "exited"} \/ Validate(cfg)
    /\ listening \in BOOLEAN /\ serving \in BOOLEAN
    /\ \A c \in Conns : conn[c] \in Conn(conn[c].req)

Init ==
    /\ given \in Sources /\ cfg = Default
    /\ main = "load" /\ listening = FALSE /\ serving = FALSE
    /\ conn \in [Conns -> {[at |-> "none", req |-> req, rest |-> Stream(req), cut |-> FALSE,
                            got |-> {}, body |-> 0, w |-> NewWriter, todo |-> <<>>,
                            acted |-> FALSE, panicked |-> FALSE] : req \in Requests}]

Alive == main # "exited"

\* A step of connection c only.
Step(c, r) == conn' = [conn EXCEPT ![c] = r] /\ UNCHANGED <<given, cfg, main, listening, serving>>

-----------------------------------------------------------------------------
(* Connections come and go.                                                *)

Connect(c) ==
    /\ conn[c].at = "none" /\ listening /\ Alive
    /\ Step(c, [conn[c] EXCEPT !.at = "backlog"])

Accept(c) ==
    /\ conn[c].at = "backlog" /\ listening /\ serving /\ Alive
    /\ Step(c, [conn[c] EXCEPT !.at = "line"])

\* Mutant: the read deadline covers the request line only.
CutLineOnly(c) ==
    /\ conn[c].at = "line" /\ ~conn[c].cut /\ Alive
    /\ Step(c, [conn[c] EXCEPT !.cut = TRUE])

\* The peer closes, the network breaks, or the deadline of ten seconds set
\* at the start passes: from then on every read fails.
Cut(c) ==
    /\ conn[c].at \in Reading /\ ~conn[c].cut /\ Alive
    /\ Step(c, [conn[c] EXCEPT !.cut = TRUE])

-----------------------------------------------------------------------------
(* handleConnection reads and repairs the request.                         *)

Arrives(c, pieces) ==
    /\ ~conn[c].cut /\ conn[c].rest # <<>> /\ Alive
    /\ Head(conn[c].rest) \in pieces

Fails(c) == conn[c].cut /\ Alive

ReadRequestLine(c) ==
    /\ conn[c].at = "line" /\ Arrives(c, {"line", "badline"})
    /\ Step(c, [conn[c] EXCEPT !.at = "headers", !.rest = Tail(@)])

\* No request line: the connection is closed without an answer.
NoRequestLine(c) ==
    /\ conn[c].at = "line" /\ Fails(c)
    /\ Step(c, [conn[c] EXCEPT !.at = "closed"])

\* Only the first Content-Length line is looked at, in whatever spelling.
Heard(got, header) ==
    IF header \in Lengths /\ got \cap Lengths # {} THEN got ELSE got \cup {header}

ReadHeader(c) ==
    /\ conn[c].at = "headers" /\ Arrives(c, Headers)
    /\ Step(c, [conn[c] EXCEPT !.rest = Tail(@), !.got = Heard(@, Head(conn[c].rest))])

\* The body is read if Sscanf understood that line.
AfterHeaders(r) == IF "length" \in r.got THEN "body" ELSE "parse"

EndHeaders(c) ==
    /\ conn[c].at = "headers" /\ Arrives(c, {"blank"})
    /\ Step(c, [conn[c] EXCEPT !.at = AfterHeaders(conn[c]), !.rest = Tail(@)])

\* A read that fails ends the headers as the blank line does.
CutHeaders(c) ==
    /\ conn[c].at = "headers" /\ Fails(c)
    /\ Step(c, [conn[c] EXCEPT !.at = AfterHeaders(conn[c])])

\* Mutant: one part too many is counted.
ReadBodyTwice(c) ==
    /\ conn[c].at = "body" /\ Arrives(c, {"part"})
    /\ Step(c, [conn[c] EXCEPT !.rest = Tail(@), !.body = @ + 2,
                    !.at = IF conn[c].body + 1 = conn[c].req.body THEN "parse" ELSE @])

ReadBody(c) ==
    /\ conn[c].at = "body" /\ Arrives(c, {"part"})
    /\ Step(c, [conn[c] EXCEPT !.rest = Tail(@), !.body = @ + 1,
                    !.at = IF conn[c].body + 1 = conn[c].req.body THEN "parse" ELSE @])

\* The error of ReadFull is not looked at: the missing parts stay zero bytes.
CutBody(c) ==
    /\ conn[c].at = "body" /\ Fails(c)
    /\ Step(c, [conn[c] EXCEPT !.at = "parse"])

ParseRequest(c) ==
    /\ conn[c].at = "parse" /\ conn[c].req.line = "line" /\ Alive
    /\ Step(c, [conn[c] EXCEPT !.at = "handle"])

\* http.ReadRequest fails: a bare status line goes straight to the connection.
RefuseRequest(c) ==
    /\ conn[c].at = "parse" /\ conn[c].req.line = "badline" /\ Alive
    /\ Step(c, [conn[c] EXCEPT !.at = "closed",
                    !.w.out = Append(@, [status |-> 400, length |-> NoLength])])

\* That write fails, and nobody looks at its error.
RefusalFails(c) ==
    /\ conn[c].at = "parse" /\ conn[c].req.line = "badline" /\ Alive
    /\ Step(c, [conn[c] EXCEPT !.at = "closed"])

-----------------------------------------------------------------------------
(* The response writers.                                                   *)

\* Mutant: the first status wins, as in net/http.
LegacyWriteHeaderOnce(w, code) ==
    IF w.status # 0 THEN w ELSE [w EXCEPT !.status = code]

LegacyWriteHeader(w, code) == IF w.flushed THEN w ELSE [w EXCEPT !.status = code]

\* Mutant: what the handler writes goes to the connection at once.
LegacyWriteThrough(w) ==
    [w EXCEPT !.out = Append(@, [status |-> w.status, length |-> 1])]

LegacyWrite(w) ==
    [w EXCEPT !.status = IF @ = 0 THEN 200 ELSE @, !.buffered = @ + 1]

\* The logging responseWriter lets the first status through.
WriteHeader(w, code) ==
    IF w.written THEN w ELSE LegacyWriteHeader([w EXCEPT !.written = TRUE], code)

Write(w) == LegacyWrite(WriteHeader(w, 200))

\* http.Error, called by Recovery outside the logging middleware.
Recover(w) == LegacyWrite(LegacyWriteHeader(w, 500))

Flush(w) ==
    IF w.flushed THEN w
    ELSE LET status == IF w.status = 0 THEN 200 ELSE w.status
         IN  [w EXCEPT !.flushed = TRUE, !.status = status,
                       !.out = Append(@, [status |-> status, length |-> w.buffered])]

-----------------------------------------------------------------------------
(* Authentication and the handlers, as they use the request and the writer.*)

\* A step of a handler on its writer: a status, or Body for a Write.
Body == 0
Error(code) == <<code, Body>>

Authorized(r) ==
    cfg.enabled /\ r.req.path \notin Public =>
        "auth" \in r.got /\ BasicAuth(cfg.clients, r.req.cred)

\* Mutant: zero bytes after a cut body are taken for a body.
BodyValidPadded(r) == "length" \in r.got

\* The JSON is valid only if every part of the body was read: an empty body,
\* a body ReadRequest cannot find and one that ends in zero bytes are not.
BodyValid(r) == "length" \in r.got /\ r.body = r.req.body

Unauthorized(c) ==
    /\ conn[c].at = "handle" /\ ~Authorized(conn[c]) /\ Alive
    /\ Step(c, [conn[c] EXCEPT !.at = "respond", !.todo = <<401>>])

InvalidBody(c) ==
    /\ conn[c].at = "handle" /\ Authorized(conn[c]) /\ Alive
    /\ conn[c].req.path \in NeedBody /\ ~BodyValid(conn[c])
    /\ Step(c, [conn[c] EXCEPT !.at = "respond", !.todo = Error(400)])

Act(c) ==
    /\ conn[c].at = "handle" /\ Authorized(conn[c]) /\ Alive
    /\ conn[c].req.path \in NeedBody \cup {"done", "myactions"}
    /\ conn[c].req.path \in NeedBody => BodyValid(conn[c])
    /\ Step(c, [conn[c] EXCEPT !.at = "respond", !.acted = TRUE,
                    !.todo = IF conn[c].req.path \in {"mystatus", "done"} THEN <<201>>
                             ELSE <<200, Body>>])

\* GetServerInfos and healthCheckHandler.
Tell(c) ==
    /\ conn[c].at = "handle" /\ Authorized(conn[c]) /\ Alive
    /\ conn[c].req.path \in Reports
    /\ Step(c, [conn[c] EXCEPT !.at = "respond", !.todo = <<200, Body>>])

\* PostDone of an action that is no longer queued, or no route at all.
NotFound(c) ==
    /\ conn[c].at = "handle" /\ Authorized(conn[c]) /\ Alive
    /\ conn[c].req.path \in {"done", "no route", "not api"}
    /\ Step(c, [conn[c] EXCEPT !.at = "respond", !.todo = Error(404)])

\* Only the health check looks at the method, only done at its path.
BadRequest(c) ==
    /\ conn[c].at = "handle" /\ Authorized(conn[c]) /\ Alive
    /\ conn[c].req.path \in {"health not GET", "done no guid"}
    /\ Step(c, [conn[c] EXCEPT !.at = "respond",
                    !.todo = Error(IF conn[c].req.path = "done no guid" THEN 400 ELSE 405)])

Respond(c) ==
    LET todo == conn[c].todo
    IN  /\ conn[c].at = "respond" /\ todo # <<>> /\ Alive
        /\ Step(c, [conn[c] EXCEPT !.todo = Tail(@),
                        !.w = IF Head(todo) = Body THEN Write(@)
                              ELSE WriteHeader(@, Head(todo))])

\* A handler panics, before or after it acted and wrote; Recovery answers.
Panic(c) ==
    /\ conn[c].at \in {"handle", "respond"} /\ Alive
    /\ Step(c, [conn[c] EXCEPT !.at = "flush", !.panicked = TRUE, !.todo = <<>>, !.w = Recover(@)])

HandlerReturns(c) ==
    /\ conn[c].at = "respond" /\ conn[c].todo = <<>> /\ Alive
    /\ Step(c, [conn[c] EXCEPT !.at = "flush"])

\* The list is in the buffer, below the text of the recovery if there is one.
ListBuffered(r) == r.acted /\ (r.panicked => r.w.buffered > 1)

\* One write, then the deferred close.  The write has no deadline: a long
\* answer that the peer does not take blocks the goroutine.
FlushAndClose(c) ==
    /\ conn[c].at = "flush" /\ Alive
    /\ conn[c].req.takes \/ ~ListBuffered(conn[c])
    /\ Step(c, [conn[c] EXCEPT !.at = "closed", !.w = Flush(@)])

\* The write fails: the peer is gone, perhaps since the handler began, or
\* the network breaks before the answer is through.  flush returns the error
\* and handleConnection drops it: what the handler did stays done.
FlushFails(c) ==
    /\ conn[c].at = "flush" /\ Alive
    /\ Step(c, [conn[c] EXCEPT !.at = "closed", !.w = [Flush(@) EXCEPT !.out = conn[c].w.out]])

-----------------------------------------------------------------------------
(* main.                                                                   *)

Configuration == <<given, cfg>>

LoadConfig ==
    /\ main = "load" /\ Validate(Load(given))
    /\ cfg' = Load(given) /\ main' = "listen"
    /\ UNCHANGED <<given, listening, serving, conn>>

Listen ==
    /\ main = "listen"
    /\ main' = "serve" /\ listening' = TRUE /\ serving' = TRUE
    /\ UNCHANGED <<Configuration, conn>>

\* log.Fatalf before the server serves: the configuration is refused, or the
\* port cannot be opened.
StartFails ==
    /\ main \in {"load", "listen"}
    /\ main = "load" => ~Validate(Load(given))
    /\ main' = "exited"
    /\ UNCHANGED <<Configuration, listening, serving, conn>>

Notify ==
    /\ main = "serve"
    /\ main' = "select"
    /\ UNCHANGED <<Configuration, listening, serving, conn>>

\* Any error of Accept makes Serve return, the closed listener included.
AcceptFails ==
    /\ serving /\ Alive
    /\ serving' = FALSE
    /\ UNCHANGED <<Configuration, main, listening, conn>>

\* log.Fatalf: the process ends at once.
ServerError ==
    /\ main = "select" /\ ~serving
    /\ main' = "exited"
    /\ UNCHANGED <<Configuration, listening, serving, conn>>

\* Until signal.Notify a signal kills the process; once the shutdown has
\* begun nobody receives one.
Signal ==
    /\ main \in {"load", "listen", "serve", "select"}
    /\ main' = IF main = "select" THEN "closing" ELSE "exited"
    /\ UNCHANGED <<Configuration, listening, serving, conn>>

\* Mutant: the listener stays open during the two seconds.
StartDraining ==
    /\ main = "closing"
    /\ main' = "draining"
    /\ UNCHANGED <<Configuration, listening, serving, conn>>

\* Connections that were not accepted yet are reset.
CloseListener ==
    /\ main = "closing"
    /\ main' = "draining"
    /\ listening' = FALSE
    /\ conn' = [c \in Conns |-> IF conn[c].at = "backlog" THEN [conn[c] EXCEPT !.at = "closed"]
                                ELSE conn[c]]
    /\ UNCHANGED <<Configuration, serving>>

\* After two seconds main returns, whatever the connections are doing.
Exit ==
    /\ main = "draining"
    /\ main' = "exited"
    /\ UNCHANGED <<Configuration, listening, serving, conn>>

-----------------------------------------------------------------------------
Receive(c) == ReadRequestLine(c) \/ ReadHeader(c) \/ EndHeaders(c) \/ ReadBody(c)

Serve(c) ==
    \/ NoRequestLine(c) \/ CutHeaders(c) \/ CutBody(c)
    \/ ParseRequest(c) \/ RefuseRequest(c)
    \/ Unauthorized(c) \/ InvalidBody(c) \/ Act(c) \/ Tell(c) \/ NotFound(c) \/ BadRequest(c)
    \/ Respond(c) \/ HandlerReturns(c) \/ FlushAndClose(c)

WriteFails(c) == RefusalFails(c) \/ FlushFails(c)

Main == LoadConfig \/ Listen \/ StartFails \/ Notify \/ ServerError \/ CloseListener \/ Exit

Next ==
    \/ \E c \in Conns :
            \/ Connect(c) \/ Accept(c) \/ Receive(c) \/ Cut(c)
            \/ Serve(c) \/ Panic(c) \/ WriteFails(c)
    \/ AcceptFails \/ Main \/ Signal

Spec == Init /\ [][Next]_vars

\* Time passes, so the read deadline does; the scheduler runs every
\* goroutine, main and the one that accepts included.  Peers need not send
\* anything, and nothing makes a write fail.
Fairness ==
    /\ \A c \in Conns : WF_vars(Cut(c)) /\ WF_vars(Serve(c)) /\ WF_vars(Accept(c))
    /\ WF_vars(Main)

FairSpec == Spec /\ Fairness

-----------------------------------------------------------------------------
(* Properties.                                                             *)

\* A handler acts only on what its peer sent entirely: a request cut
\* anywhere in its body, or before the lines that announce it or
\* authenticate it were read, changes nothing, although the server serves it.
ActsOnIntactOnly == \A c \in Conns : conn[c].acted =>
    /\ conn[c].req.path \in NeedBody => conn[c].rest = <<>>
    /\ AuthAsked(given) => "auth" \in conn[c].got

\* If the operator asked for authentication, nobody acts but a client that
\* the source in force lists, with the key listed there: the environment if
\* it lists any client, else the file; not a client or key that was replaced,
\* nor a client nobody listed.  With none configured "All requests will be
\* rejected" (config.go:192).
OnlyListedActs == \A c \in Conns :
    conn[c].acted /\ AuthAsked(given) => Listed(given, conn[c].req.cred)

\* A client that is listed is not refused, whatever colons its key holds; a
\* colon in a name of the file locks that client out.
ListedNotRefused == \A c \in Conns :
    /\ Listed(given, conn[c].req.cred) /\ "auth" \in conn[c].got
    /\ \A name \in DOMAIN cfg.clients : Len(name) = 1
    => \A i \in DOMAIN conn[c].w.out : conn[c].w.out[i].status # 401

\* What the peer is told is what happened: a success only if the handler
\* acted, or had only to tell, and did not panic, a 500 exactly if it
\* panicked, even after it had set another status, a refusal only if nothing
\* was done.  A peer that hears nothing although something was done, or the
\* handler panicked, was written its answer: the write failed.
AnswerTellsEffect == \A c \in Conns :
    LET r == conn[c]
    IN  r.at = "closed" =>
            IF r.w.out = <<>> THEN r.acted \/ r.panicked => r.w.flushed
            ELSE LET status == Last(r.w.out).status
                 IN  /\ status = 500 <=> r.panicked
                     /\ status \in {200, 201} => r.acted \/ r.req.path \in Reports
                     /\ status \in {400, 401, 404, 405} => ~r.acted

\* The device reads one packet: an answer is one write, with its body.
OneWrite == \A c \in Conns : Len(conn[c].w.out) <= 1

\* A peer that stops sending cannot hold a connection, nor can one that was
\* never accepted hang: it is closed, or the process has ended, as it does
\* when Accept fails or two seconds after a signal.  Only a peer that does
\* not take its answer holds its connection.
ConnectionsEnd == \A c \in Conns :
    conn[c].at \in Reading \cup {"backlog"}
        ~> conn[c].at = "closed" \/ ~Alive \/ ~conn[c].req.takes

\* "Write Timeout: 10 seconds" (README.md:156): an answer that is being
\* written is written, or given up.
WritesEnd == \A c \in Conns : conn[c].at = "flush" ~> conn[c].at = "closed" \/ ~Alive

\* Once the two seconds of the shutdown have begun no connection is accepted.
DrainsOnly == [][main = "draining" =>
    \A c \in Conns : conn[c].at = "backlog" => conn'[c].at # "line"]_vars

\* "Read body if Content-Length is present": a request that arrived with its
\* Content-Length has its body read.
BodyReadIfAnnounced == \A c \in Conns :
    conn[c].at = "handle" /\ ~conn[c].cut /\ Announced(conn[c].req)
        => conn[c].body = conn[c].req.body
=============================================================================
