-------------------------- MODULE LegacyHTTPProofs --------------------------
(***************************************************************************)
(* Proofs about LegacyHTTP, for any configurations, requests and           *)
(* connections: who acts and on what, what is answered, and that an answer *)
(* is one write, wherever a request is cut and whenever a handler panics.  *)
(***************************************************************************)
EXTENDS LegacyHTTP, ConfigProofs, SequenceTheorems, TLAPS

Pieces == {"line", "badline", "auth", "length", "odd", "blank", "part"}

\* A connection's record, with the type of each field.
Record == [at : Points, req : Requests, rest : Seq(Pieces), cut : BOOLEAN, got : SUBSET Headers,
           body : Nat, w : Writer, todo : Seq(Nat), acted : BOOLEAN, panicked : BOOLEAN]

\* The pieces of the request that were read, and those before the body.
Pos(r) == Len(Stream(r.req)) - Len(r.rest)
Lines(req) == 2 + Len(req.headers)

\* What was read is a prefix of the request: body counts its parts, and got
\* holds header lines of it.
ReadInOrder(r) ==
    /\ Pos(r) \in 0 .. Len(Stream(r.req)) /\ r.body <= r.req.body
    /\ r.rest = SubSeq(Stream(r.req), Pos(r) + 1, Len(Stream(r.req)))
    /\ r.got \subseteq ToSet(r.req.headers)
    /\ r.at \in {"none", "backlog", "line"} => Pos(r) = 0
    /\ r.at = "headers" => Pos(r) \in 1 .. Lines(r.req) - 1
    /\ r.at \in {"none", "backlog", "line", "headers"} => r.body = 0
    /\ r.body # 0 => Pos(r) = Lines(r.req) + r.body
    /\ r.at = "body" /\ ~r.cut => Pos(r) = Lines(r.req) + r.body /\ r.body < r.req.body

\* A status that tells what the handler did.
Tells(r, status) ==
    \/ status \in {200, 201} /\ (r.acted \/ r.req.path \in Reports)
    \/ status \in {400, 401, 404, 405} /\ ~r.acted

\* What handlers answer, and what they do to their writer for it.
Codes == {200, 201, 400, 401, 404, 405}
Todos(code) == {<<code>>, Error(code)}

\* Where a request is on its way to its one answer, and what its peer was
\* told at the end, if the write of the answer did not fail.
Untouched(r) == ~r.acted /\ ~r.panicked /\ r.todo = <<>> /\ r.w = NewWriter

Responding(r) ==
    /\ ~r.panicked
    /\ \/ /\ ~r.w.written /\ r.w.status = 0
          /\ \E code \in Codes : Tells(r, code) /\ r.todo \in Todos(code)
       \/ r.w.written /\ Tells(r, r.w.status) /\ r.todo \in {<<>>, <<Body>>}

Unsent(r) == r.w.out = <<>> /\ ~r.w.flushed

Told(r) ==
    \/ r.w.out = <<>> /\ (r.acted \/ r.panicked => r.w.flushed)
    \/ /\ Len(r.w.out) = 1
       /\ IF r.panicked THEN r.w.out[1].status = 500 ELSE Tells(r, r.w.out[1].status)

Answering(r) ==
    /\ r.at \in {"none", "backlog", "line", "headers", "body", "parse", "handle"} => Untouched(r)
    /\ r.at # "closed" => Unsent(r)
    /\ r.at = "respond" => Responding(r)
    /\ r.at = "flush" => IF r.panicked THEN r.w.status = 500 ELSE Tells(r, r.w.status)
    /\ r.at = "closed" => Told(r)

Sound(r) == r \in Record /\ ReadInOrder(r) /\ Answering(r)

\* Whoever acted was allowed to, on a whole body.
Entitled(r) == r.acted =>
    /\ r.req.path \in NeedBody => r.rest = <<>>
    /\ Authorized(r) /\ r.req.path \notin Public

\* Connections exist only once the configuration was loaded, and the
\* listener is open from Listen to CloseListener only.
Started ==
    /\ given \in Sources
    /\ main \in {"load", "listen", "serve", "select", "closing", "draining", "exited"}
    /\ listening \in BOOLEAN /\ serving \in BOOLEAN
    /\ main \in {"load", "exited"} \/ Validate(cfg)
    /\ main \in {"listen", "serve", "select", "closing", "draining"} => cfg = Load(given)
    /\ main \in {"load", "listen", "draining"} => ~listening
    /\ listening => cfg = Load(given)
    /\ \A c \in Conns : conn[c].at # "none" => cfg = Load(given)

BaseInv ==
    /\ Started
    /\ conn \in [Conns -> Record]
    /\ \A c \in Conns : Sound(conn[c]) /\ Entitled(conn[c])

-----------------------------------------------------------------------------
(* A request as a sequence of pieces.                                      *)

\* Its length, and what stands at each place.
LEMMA StreamAt ==
    ASSUME NEW req \in Requests
    PROVE  LET s == Stream(req)
           IN  /\ req \in Request /\ req.headers \in Seq(Headers) /\ req.body \in Nat
               /\ Lines(req) \in Nat /\ Lines(req) >= 2
               /\ s \in Seq(Pieces) /\ Len(s) = Lines(req) + req.body
               /\ s[1] = req.line /\ req.line \in {"line", "badline"}
               /\ \A i \in 2 .. Lines(req) - 1 : s[i] = req.headers[i - 1]
               /\ s[Lines(req)] = "blank"
               /\ \A i \in Lines(req) + 1 .. Len(s) : s[i] = "part"
<1>1. req \in Request
    BY LegacyAssumption
<1>2. req.headers \in Seq(Headers) /\ req.body \in Nat /\ req.line \in {"line", "badline"}
    BY <1>1 DEF Request
<1> DEFINE parts == [i \in 1 .. req.body |-> "part"]
           before == <<req.line>> \o req.headers \o <<"blank">>
<1>3. parts \in Seq(Pieces) /\ Len(parts) = req.body /\ \A i \in 1 .. req.body : parts[i] = "part"
  <2>1. parts \in [1 .. req.body -> Pieces]
      BY DEF Pieces
  <2> QED BY <1>2, <2>1
<1>4. req.headers \in Seq(Pieces)
  <2>1. Headers \subseteq Pieces
      BY DEF Headers, Pieces
  <2> QED BY <1>2, <2>1
<1>5. <<req.line>> \in Seq(Pieces) /\ <<"blank">> \in Seq(Pieces)
    BY <1>2 DEF Pieces
<1>6. /\ before \in Seq(Pieces) /\ Len(before) = Lines(req)
      /\ before[1] = req.line /\ before[Lines(req)] = "blank"
      /\ \A i \in 2 .. Lines(req) - 1 : before[i] = req.headers[i - 1]
    BY <1>4, <1>5 DEF Lines
<1>7. Stream(req) = before \o parts
    BY DEF Stream
<1> HIDE DEF parts, before
<1>8. Lines(req) \in Nat /\ Lines(req) >= 2
    BY <1>2 DEF Lines
<1> DEFINE s == Stream(req)
<1> HIDE DEF s
<1>9. s \in Seq(Pieces) /\ Len(s) = Lines(req) + req.body
  <2>1. s = before \o parts
      BY <1>7 DEF s
  <2>2. s \in Seq(Pieces) /\ Len(s) = Len(before) + Len(parts)
      BY <1>3, <1>6, <2>1, ConcatProperties
  <2> QED BY <1>3, <1>6, <2>2
<1>10. \A i \in 1 .. Len(s) :
           s[i] = IF i <= Lines(req) THEN before[i] ELSE parts[i - Lines(req)]
    BY <1>2, <1>3, <1>6, <1>7, <1>8 DEF s
<1>11. /\ s[1] = req.line /\ s[Lines(req)] = "blank"
       /\ \A i \in 2 .. Lines(req) - 1 : s[i] = req.headers[i - 1]
       /\ \A i \in Lines(req) + 1 .. Len(s) : s[i] = "part"
  <2>1. Lines(req) \in 1 .. Len(s) /\ \A i \in Lines(req) + 1 .. Len(s) : i - Lines(req) \in 1 .. req.body
      BY <1>2, <1>8, <1>9
  <2>2. \A i \in Lines(req) + 1 .. Len(s) : i \in 1 .. Len(s) /\ ~(i <= Lines(req))
      BY <1>2, <1>8, <1>9
  <2>3. \A i \in 2 .. Lines(req) - 1 : i \in 1 .. Len(s) /\ i <= Lines(req)
      BY <1>2, <1>8, <1>9
  <2>4. 1 \in 1 .. Len(s) /\ 1 <= Lines(req)
      BY <1>2, <1>8, <1>9
  <2>5. s[1] = req.line /\ s[Lines(req)] = "blank"
      BY <1>6, <1>8, <1>10, <2>1, <2>4
  <2>6. \A i \in 2 .. Lines(req) - 1 : s[i] = req.headers[i - 1]
      BY <1>6, <1>10, <2>3
  <2>7. \A i \in Lines(req) + 1 .. Len(s) : s[i] = "part"
      BY <1>3, <1>10, <2>1, <2>2
  <2> QED BY <2>5, <2>6, <2>7
<1> QED BY <1>1, <1>2, <1>8, <1>9, <1>11 DEF s

\* What is read next, and what is left after it.
LEMMA NextPiece ==
    ASSUME NEW r, Sound(r)
    PROVE  LET s == Stream(r.req)
           IN  /\ r.rest # <<>> =>
                      /\ Pos(r) + 1 \in 1 .. Len(s) /\ Head(r.rest) = s[Pos(r) + 1]
                      /\ Tail(r.rest) = SubSeq(s, Pos(r) + 2, Len(s))
                      /\ Tail(r.rest) \in Seq(Pieces)
                      /\ Len(s) - Len(Tail(r.rest)) = Pos(r) + 1
               /\ r.rest = <<>> <=> Pos(r) = Len(s)
<1> DEFINE s == Stream(r.req)
           i == Pos(r) + 1
<1>1. s \in Seq(Pieces) /\ Len(s) \in Nat
    BY StreamAt DEF Sound, Record
<1>0. ReadInOrder(r) /\ r.rest \in Seq(Pieces)
    BY DEF Sound, Record
<1>2. i \in 1 .. Len(s) + 1 /\ r.rest = SubSeq(s, i, Len(s)) /\ r.rest \in Seq(Pieces)
  <2>1. Pos(r) \in 0 .. Len(s) /\ r.rest = SubSeq(s, Pos(r) + 1, Len(s))
      BY <1>0 DEF ReadInOrder
  <2> HIDE DEF s
  <2> QED BY <1>0, <1>1, <2>1
<1> HIDE DEF s, i
<1>3. Len(r.rest) = Len(s) + 1 - i
    BY <1>1, <1>2
<1>4. ASSUME r.rest # <<>>
      PROVE  /\ i <= Len(s) /\ Head(r.rest) = s[i] /\ Tail(r.rest) = SubSeq(s, i + 1, Len(s))
             /\ Tail(r.rest) \in Seq(Pieces)
             /\ Len(Tail(r.rest)) = Len(s) - i
    BY <1>1, <1>2, <1>3, <1>4
<1>5. i = Pos(r) + 1 /\ Pos(r) \in 0 .. Len(s)
    BY <1>0 DEF i, s, ReadInOrder
<1>6. r.rest = <<>> <=> Pos(r) = Len(s)
  <2>1. r.rest = <<>> <=> Len(r.rest) = 0
      BY <1>2, EmptySeq
  <2> QED BY <1>1, <1>2, <1>3, <1>5, <2>1
<1>7. r.rest # <<>> =>
          /\ Pos(r) + 1 \in 1 .. Len(s) /\ Head(r.rest) = s[Pos(r) + 1]
          /\ Tail(r.rest) = SubSeq(s, Pos(r) + 2, Len(s))
          /\ Tail(r.rest) \in Seq(Pieces)
          /\ Len(s) - Len(Tail(r.rest)) = Pos(r) + 1
  <2>1. CASE r.rest # <<>>
    <3>1. i \in 1 .. Len(s) /\ Pos(r) + 2 = i + 1 /\ Len(s) - (Len(s) - i) = i
      <4>1. PICK n \in Nat : n = Len(s)
          BY <1>1
      <4>2. PICK k \in Int : k = Pos(r)
          BY <1>5
      <4>3. i = k + 1 /\ k >= 0 /\ i <= n
          BY <1>4, <1>5, <2>1, <4>1, <4>2
      <4> QED BY <4>1, <4>2, <4>3
    <3> QED BY <1>4, <1>5, <2>1, <3>1
  <2> QED BY <2>1
<1> QED BY <1>6, <1>7 DEF s

-----------------------------------------------------------------------------
(* One connection's step.                                                  *)

\* A step of connection c to a sound state keeps the whole invariant.
LEMMA StepSound ==
    ASSUME BaseInv, NEW c \in Conns, NEW r, Step(c, r), Sound(r), Entitled(r),
           conn[c].at = "none" => listening
    PROVE  BaseInv'
<1>1. /\ conn' = [conn EXCEPT ![c] = r] /\ given' = given /\ cfg' = cfg
      /\ main' = main /\ listening' = listening /\ serving' = serving
    BY DEF Step
<1>2. r \in Record
    BY DEF Sound
<1>3. /\ conn' \in [Conns -> Record]
      /\ conn'[c] = r /\ \A d \in Conns \ {c} : conn'[d] = conn[d]
    BY <1>1, <1>2 DEF BaseInv
<1>4. Started'
    BY <1>1, <1>3 DEF BaseInv, Started
<1>5. \A d \in Conns : Sound(conn'[d])
    BY <1>3 DEF BaseInv
<1>6. \A d \in Conns : Entitled(conn[d])'
    BY <1>1, <1>3 DEF BaseInv, Entitled, Authorized
<1> QED BY <1>3, <1>4, <1>5, <1>6 DEF BaseInv

\* Reading changes nothing of the answer.
LEMMA StillUntouched ==
    ASSUME NEW e, Sound(e), e.at \in Reading \cup {"none", "backlog", "parse"},
           NEW r, r.at \in Reading \cup {"backlog", "parse", "handle"},
           r.w = e.w, r.todo = e.todo, r.acted = e.acted, r.panicked = e.panicked
    PROVE  Answering(r) /\ Entitled(r)
BY DEF Sound, Answering, Untouched, Unsent, Entitled, Reading

\* Nor does a step that reads nothing disturb what was read.
LEMMA SameReading ==
    ASSUME NEW e, Sound(e), NEW r, r.req = e.req, r.rest = e.rest, r.cut = e.cut \/ r.cut = TRUE,
           r.got = e.got, r.body = e.body,
           \/ r.at = e.at
           \/ r.at \notin {"headers", "body"} /\ e.at \in {"none", "backlog"}
           \/ r.at \in {"parse", "handle", "respond", "flush", "closed"}
    PROVE  ReadInOrder(r)
<1>1. ReadInOrder(e) /\ e.cut \in BOOLEAN
    BY DEF Sound, Record
<1>2. Pos(r) = Pos(e)
    BY DEF Pos
<1> QED BY <1>1, <1>2 DEF ReadInOrder

\* A step that reads the next piece.
LEMMA OnePiece ==
    ASSUME NEW e, Sound(e), e.rest # <<>>, NEW r, r.req = e.req, r.rest = Tail(e.rest)
    PROVE  /\ Pos(e) \in Nat /\ Pos(r) = Pos(e) + 1 /\ Pos(r) \in 0 .. Len(Stream(r.req))
           /\ r.rest = SubSeq(Stream(r.req), Pos(r) + 1, Len(Stream(r.req)))
           /\ r.rest \in Seq(Pieces)
           /\ Head(e.rest) = Stream(r.req)[Pos(r)]
<1>1. Pos(e) \in 0 .. Len(Stream(e.req)) /\ Len(Stream(e.req)) \in Nat
    BY StreamAt DEF Sound, ReadInOrder, Record
<1>2. Pos(r) = Pos(e) + 1
    BY NextPiece DEF Pos
<1>3. /\ Pos(e) + 1 \in 1 .. Len(Stream(e.req)) /\ Head(e.rest) = Stream(e.req)[Pos(e) + 1]
      /\ Tail(e.rest) = SubSeq(Stream(e.req), Pos(e) + 2, Len(Stream(e.req)))
      /\ Tail(e.rest) \in Seq(Pieces)
    BY NextPiece
<1>4. Pos(e) \in Nat /\ Pos(e) + 2 = Pos(r) + 1 /\ Pos(r) \in 0 .. Len(Stream(e.req))
    BY <1>1, <1>2, <1>3
<1>5. r.rest = SubSeq(Stream(e.req), Pos(r) + 1, Len(Stream(e.req)))
    BY <1>3, <1>4
<1>6. Head(e.rest) = Stream(e.req)[Pos(r)]
    BY <1>2, <1>3
<1> QED BY <1>2, <1>3, <1>4, <1>5, <1>6

-----------------------------------------------------------------------------
(* Connections come and go, and requests are read.                         *)

\* The request line.
LEMMA ReadRequestLineStep ==
    ASSUME BaseInv, NEW c \in Conns, ReadRequestLine(c)
    PROVE  BaseInv'
<1> DEFINE e == conn[c]
<1>1. Sound(e) /\ e \in Record
    BY DEF BaseInv, Sound
<1>2. PICK r : r = [e EXCEPT !.at = "headers", !.rest = Tail(@)]
    OBVIOUS
<1>3. e.at = "line" /\ e.rest # <<>> /\ Step(c, r)
    BY <1>2 DEF ReadRequestLine, Arrives
<1> HIDE DEF e
<1>4. /\ r \in Record /\ r.at = "headers" /\ r.req = e.req /\ r.rest = Tail(e.rest)
      /\ r.cut = e.cut /\ r.got = e.got /\ r.body = e.body
      /\ r.w = e.w /\ r.todo = e.todo /\ r.acted = e.acted /\ r.panicked = e.panicked
    BY <1>1, <1>2, <1>3, NextPiece DEF Record, Points, Reading
<1>4a. /\ Pos(e) = 0 /\ Pos(r) = Pos(e) + 1 /\ Pos(r) \in 0 .. Len(Stream(r.req))
      /\ r.rest = SubSeq(Stream(r.req), Pos(r) + 1, Len(Stream(r.req)))
    BY <1>1, <1>3, <1>4, OnePiece DEF Sound, ReadInOrder
<1>4b. Lines(r.req) \in Nat /\ Lines(r.req) >= 2
    BY <1>4, StreamAt DEF Record
<1>5. ReadInOrder(r)
    BY <1>1, <1>3, <1>4, <1>4a, <1>4b DEF Sound, ReadInOrder
<1>6. Answering(r) /\ Entitled(r)
    BY <1>1, <1>3, <1>4, StillUntouched DEF Reading
<1> QED BY <1>3, <1>4, <1>5, <1>6, StepSound DEF Sound, e

\* A header line.
LEMMA ReadHeaderStep ==
    ASSUME BaseInv, NEW c \in Conns, ReadHeader(c)
    PROVE  BaseInv'
<1> DEFINE e == conn[c]
<1>1. Sound(e) /\ e \in Record /\ ReadInOrder(e)
    BY DEF BaseInv, Sound
<1>2. PICK r : r = [e EXCEPT !.rest = Tail(@), !.got = Heard(@, Head(e.rest))]
    OBVIOUS
<1>3. e.at = "headers" /\ e.rest # <<>> /\ Head(e.rest) \in Headers /\ Step(c, r)
    BY <1>2 DEF ReadHeader, Arrives
<1> HIDE DEF e
<1>4. /\ r \in Record /\ r.at = "headers" /\ r.req = e.req /\ r.rest = Tail(e.rest)
      /\ r.cut = e.cut /\ r.got \subseteq e.got \cup {Head(e.rest)} /\ r.body = e.body
      /\ r.w = e.w /\ r.todo = e.todo /\ r.acted = e.acted /\ r.panicked = e.panicked
  <2>1. PICK got : got = Heard(e.got, Head(e.rest))
      OBVIOUS
  <2>2. got \subseteq e.got \cup {Head(e.rest)} /\ got \in SUBSET Headers
      BY <1>1, <1>3, <2>1 DEF Heard, Record
  <2>3. Tail(e.rest) \in Seq(Pieces)
      BY <1>1, <1>3, NextPiece
  <2>4. r = [e EXCEPT !.rest = Tail(e.rest), !.got = got]
      BY <1>2, <2>1
  <2> QED BY <1>1, <1>3, <2>2, <2>3, <2>4 DEF Record
<1>4a. /\ Pos(e) \in 1 .. Lines(r.req) - 1 /\ Pos(r) = Pos(e) + 1
      /\ Pos(r) \in 0 .. Len(Stream(r.req)) /\ Head(e.rest) = Stream(r.req)[Pos(r)]
      /\ r.rest = SubSeq(Stream(r.req), Pos(r) + 1, Len(Stream(r.req)))
    BY <1>1, <1>3, <1>4, OnePiece DEF ReadInOrder
<1>5. /\ Pos(r) \in 2 .. Lines(r.req) - 1 /\ Head(e.rest) \in ToSet(r.req.headers)
      /\ Lines(r.req) \in Nat
  <2>1. /\ r.req \in Requests /\ Lines(r.req) \in Nat /\ Len(Stream(r.req)) \in Nat
        /\ r.req.headers \in Seq(Headers) /\ Lines(r.req) - 1 - 1 = Len(r.req.headers)
      BY <1>4, StreamAt DEF Record, Lines
  <2>2. Pos(r) # Lines(r.req) /\ ~(Pos(r) > Lines(r.req))
      BY <1>3, <1>4a, <2>1, StreamAt, SMTT(20) DEF Headers
  <2>3. Pos(r) \in 2 .. Lines(r.req) - 1 /\ Pos(r) - 1 \in 1 .. Len(r.req.headers)
      BY <1>4a, <2>1, <2>2, SMTT(20)
  <2>4. Head(e.rest) = r.req.headers[Pos(r) - 1]
      BY <1>4a, <2>1, <2>3, StreamAt
  <2> QED BY <2>1, <2>3, <2>4 DEF ToSet
<1>6. ReadInOrder(r)
  <2>1. r.body = 0 /\ r.body <= r.req.body
      BY <1>1, <1>3, <1>4 DEF ReadInOrder
  <2>2. r.got \subseteq ToSet(r.req.headers)
      BY <1>1, <1>3, <1>4, <1>5 DEF ReadInOrder
  <2>3. Pos(r) \in 1 .. Lines(r.req) - 1
      BY <1>5
  <2> QED BY <1>4, <1>4a, <2>1, <2>2, <2>3 DEF ReadInOrder
<1>7. Answering(r) /\ Entitled(r)
    BY <1>1, <1>3, <1>4, StillUntouched DEF Reading
<1> QED BY <1>3, <1>4, <1>6, <1>7, StepSound DEF Sound, e

\* A request that announces a body has one.
LEMMA AnnouncedBody ==
    ASSUME NEW r, Sound(r), "length" \in r.got
    PROVE  r.req.body > 0
BY LegacyAssumption DEF Sound, Record, ReadInOrder, Announced, Lengths

\* The blank line.
LEMMA EndHeadersStep ==
    ASSUME BaseInv, NEW c \in Conns, EndHeaders(c)
    PROVE  BaseInv'
<1> DEFINE e == conn[c]
<1>1. Sound(e) /\ e \in Record /\ ReadInOrder(e)
    BY DEF BaseInv, Sound
<1>2. PICK r : r = [e EXCEPT !.at = AfterHeaders(e), !.rest = Tail(@)]
    OBVIOUS
<1>3. e.at = "headers" /\ e.rest # <<>> /\ Head(e.rest) = "blank" /\ Step(c, r)
    BY <1>2 DEF EndHeaders, Arrives
<1> HIDE DEF e
<1>4. /\ AfterHeaders(e) \in {"body", "parse"}
      /\ AfterHeaders(e) = "body" => e.req.body > 0
    BY <1>1, AnnouncedBody DEF AfterHeaders
<1>5. /\ r \in Record /\ r.at = AfterHeaders(e) /\ r.req = e.req /\ r.rest = Tail(e.rest)
      /\ r.cut = e.cut /\ r.got = e.got /\ r.body = e.body
      /\ r.w = e.w /\ r.todo = e.todo /\ r.acted = e.acted /\ r.panicked = e.panicked
    BY <1>1, <1>2, <1>3, <1>4, NextPiece DEF Record, Points, Reading
<1>4a. /\ Pos(e) \in 1 .. Lines(r.req) - 1 /\ Pos(r) = Pos(e) + 1
      /\ Pos(r) \in 0 .. Len(Stream(r.req)) /\ Stream(r.req)[Pos(r)] = "blank"
      /\ r.rest = SubSeq(Stream(r.req), Pos(r) + 1, Len(Stream(r.req)))
    BY <1>1, <1>3, <1>5, OnePiece DEF ReadInOrder
<1>4b. /\ r.req \in Requests /\ Lines(r.req) \in Nat /\ Len(Stream(r.req)) \in Nat
      /\ r.req.headers \in Seq(Headers) /\ Lines(r.req) - 1 - 1 = Len(r.req.headers)
    BY <1>5, StreamAt DEF Record, Lines
<1>6. Pos(r) = Lines(r.req)
  <2>2. ~(Pos(r) > Lines(r.req))
      BY <1>4a, <1>4b, StreamAt
  <2>3. ASSUME Pos(r) < Lines(r.req) PROVE FALSE
    <3>1. Pos(r) \in 2 .. Lines(r.req) - 1 /\ Pos(r) - 1 \in 1 .. Len(r.req.headers)
        BY <1>4a, <1>4b, <2>3, SMTT(20)
    <3>2. r.req.headers[Pos(r) - 1] = "blank" /\ r.req.headers[Pos(r) - 1] \in Headers
      <4>1. Pos(r) - 1 \in DOMAIN r.req.headers
          BY <1>4b, <3>1
      <4>2. r.req.headers[Pos(r) - 1] \in Headers
          BY <1>4b, <4>1, ElementOfSeq
      <4>3. Stream(r.req)[Pos(r)] = r.req.headers[Pos(r) - 1]
          BY <1>4b, <3>1, StreamAt
      <4> QED BY <1>4a, <4>2, <4>3
    <3> QED BY <3>2 DEF Headers
  <2> QED BY <1>4a, <1>4b, <2>2, <2>3
<1>7. ReadInOrder(r)
  <2>1. r.body = 0 /\ r.body <= r.req.body /\ r.got \subseteq ToSet(r.req.headers)
      BY <1>1, <1>3, <1>5 DEF ReadInOrder
  <2>2. Pos(r) = Lines(r.req) + r.body
      BY <1>4b, <1>6, <2>1
  <2>3. r.at = "body" => r.body < r.req.body
      BY <1>4, <1>5, <2>1
  <2> QED BY <1>4, <1>5, <1>4a, <2>1, <2>2, <2>3 DEF ReadInOrder
<1>8. Answering(r) /\ Entitled(r)
    BY <1>1, <1>3, <1>4, <1>5, StillUntouched DEF Reading
<1> QED BY <1>3, <1>5, <1>7, <1>8, StepSound DEF Sound, e

\* A part of the body.
LEMMA ReadBodyStep ==
    ASSUME BaseInv, NEW c \in Conns, ReadBody(c)
    PROVE  BaseInv'
<1> DEFINE e == conn[c]
           at == IF e.body + 1 = e.req.body THEN "parse" ELSE "body"
<1>1. Sound(e) /\ e \in Record /\ ReadInOrder(e)
    BY DEF BaseInv, Sound
<1>2. PICK r : r = [e EXCEPT !.rest = Tail(@), !.body = @ + 1,
                             !.at = IF e.body + 1 = e.req.body THEN "parse" ELSE @]
    OBVIOUS
<1>3. e.at = "body" /\ ~e.cut /\ e.rest # <<>> /\ Step(c, r)
    BY <1>2 DEF ReadBody, Arrives
<1> HIDE DEF e
<1>4. at \in {"body", "parse"} /\ (at = "body" <=> e.body + 1 # e.req.body)
    BY <1>3
<1> HIDE DEF at
<1>5. /\ r \in Record /\ r.at = at /\ r.req = e.req /\ r.rest = Tail(e.rest)
      /\ r.cut = e.cut /\ r.got = e.got /\ r.body = e.body + 1
      /\ r.w = e.w /\ r.todo = e.todo /\ r.acted = e.acted /\ r.panicked = e.panicked
  <2>1. r = [e EXCEPT !.rest = Tail(e.rest), !.body = e.body + 1, !.at = at]
      BY <1>2, <1>3 DEF at
  <2>2. at \in Points /\ e.body + 1 \in Nat /\ Tail(e.rest) \in Seq(Pieces)
      BY <1>1, <1>3, <1>4, NextPiece DEF Record, Points, Reading
  <2> QED BY <1>1, <2>1, <2>2 DEF Record
<1>6. Pos(e) = Lines(e.req) + e.body /\ e.body < e.req.body /\ e.body \in Nat /\ e.req.body \in Nat
    BY <1>1, <1>3, StreamAt DEF ReadInOrder, Record
<1>6a. /\ Pos(r) = Pos(e) + 1 /\ Pos(r) \in 0 .. Len(Stream(r.req))
      /\ r.rest = SubSeq(Stream(r.req), Pos(r) + 1, Len(Stream(r.req)))
    BY <1>1, <1>3, <1>5, OnePiece
<1>7. Pos(r) = Lines(r.req) + r.body /\ r.body <= r.req.body
  <2>1. Lines(e.req) \in Nat
      BY <1>1, StreamAt DEF Record
  <2> QED BY <1>5, <1>6, <1>6a, <2>1, SMTT(20)
<1>8. ReadInOrder(r)
  <2>1. r.got \subseteq ToSet(r.req.headers)
      BY <1>1, <1>5 DEF ReadInOrder
  <2>2. r.at = "body" => r.body < r.req.body
      BY <1>4, <1>5, <1>6
  <2> QED BY <1>4, <1>5, <1>7, <1>6a, <2>1, <2>2 DEF ReadInOrder
<1>9. Answering(r) /\ Entitled(r)
    BY <1>1, <1>3, <1>4, <1>5, StillUntouched DEF Reading
<1> QED BY <1>3, <1>5, <1>8, <1>9, StepSound DEF Sound, e

\* A step that only moves a request on to the next point, or cuts it.
LEMMA MoveStep ==
    ASSUME BaseInv, NEW c \in Conns, NEW at, NEW cut,
           \/ at = "backlog" /\ conn[c].at = "none" /\ listening /\ cut = conn[c].cut
           \/ at = "line" /\ conn[c].at = "backlog" /\ cut = conn[c].cut
           \/ at = conn[c].at /\ conn[c].at \in Reading /\ cut = TRUE
           \/ at = "closed" /\ conn[c].at = "line" /\ cut = conn[c].cut
           \/ at \in {"body", "parse"} /\ conn[c].at = "headers" /\ conn[c].cut /\ cut = conn[c].cut
           \/ at = "parse" /\ conn[c].at = "body" /\ cut = conn[c].cut
           \/ at = "handle" /\ conn[c].at = "parse" /\ cut = conn[c].cut,
           Step(c, [conn[c] EXCEPT !.at = at, !.cut = cut])
    PROVE  BaseInv'
<1> DEFINE e == conn[c]
<1>1. Sound(e) /\ e \in Record /\ ReadInOrder(e)
    BY DEF BaseInv, Sound
<1>2. PICK r : r = [e EXCEPT !.at = at, !.cut = cut]
    OBVIOUS
<1>3. Step(c, r)
    BY <1>2
<1>4. at \in Points /\ cut \in BOOLEAN
    BY <1>1 DEF Points, Reading, Record
<1>5. /\ r \in Record /\ r.at = at /\ r.req = e.req /\ r.rest = e.rest
      /\ r.cut = cut /\ r.got = e.got /\ r.body = e.body
      /\ r.w = e.w /\ r.todo = e.todo /\ r.acted = e.acted /\ r.panicked = e.panicked
  <2> HIDE DEF e
  <2> QED BY <1>1, <1>2, <1>4 DEF Record
<1>6. ReadInOrder(r)
  <2>1. CASE at = "body" /\ e.at = "headers"
    <3>1. Pos(r) = Pos(e)
        BY <1>5 DEF Pos
    <3> QED BY <1>1, <1>5, <2>1, <3>1 DEF ReadInOrder
  <2>2. CASE at # "body" \/ e.at # "headers"
      BY <1>1, <1>5, <2>2, SameReading DEF Record, Reading
  <2> QED BY <2>1, <2>2
<1>7. Answering(r) /\ Entitled(r)
  <2>1. CASE at = "closed"
    <3>1. e.at = "line"
        BY <2>1 DEF Reading
    <3>2. ~e.acted /\ ~e.panicked /\ e.w.out = <<>>
        BY <1>1, <3>1 DEF Sound, Answering, Untouched, Unsent
    <3> QED BY <1>5, <2>1, <3>2 DEF Answering, Told, Entitled
  <2>2. CASE at # "closed"
    <3>1. /\ r.at \in Reading \cup {"backlog", "parse", "handle"}
          /\ e.at \in Reading \cup {"none", "backlog", "parse"}
        BY <1>5, <2>2 DEF Reading
    <3>2. r.w = e.w /\ r.todo = e.todo /\ r.acted = e.acted /\ r.panicked = e.panicked
        BY <1>5
    <3> HIDE DEF e
    <3> QED BY <1>1, <3>1, <3>2, StillUntouched
  <2> QED BY <2>1, <2>2
<1>8. conn[c].at = "none" => listening
    BY DEF Reading
<1> QED BY <1>3, <1>5, <1>6, <1>7, <1>8, StepSound DEF Sound

\* The steps of a connection that only move its request on or cut it.
LEMMA ConnectionSteps ==
    ASSUME BaseInv, NEW c \in Conns,
           Connect(c) \/ Accept(c) \/ Cut(c) \/ NoRequestLine(c) \/ CutHeaders(c) \/ CutBody(c)
           \/ ParseRequest(c)
    PROVE  BaseInv'
<1> DEFINE e == conn[c]
<1>0. e \in Record /\ \A at, cut : [e EXCEPT !.at = at, !.cut = e.cut] = [e EXCEPT !.at = at]
    BY DEF BaseInv, Record
<1>1. CASE Connect(c)
  <2>1. Step(c, [e EXCEPT !.at = "backlog", !.cut = e.cut])
      BY <1>0, <1>1 DEF Connect
  <2> QED BY <1>1, <2>1, MoveStep DEF Connect
<1>2. CASE Accept(c)
  <2>1. Step(c, [e EXCEPT !.at = "line", !.cut = e.cut])
      BY <1>0, <1>2 DEF Accept
  <2> QED BY <1>2, <2>1, MoveStep DEF Accept
<1>3. CASE Cut(c)
  <2>1. Step(c, [e EXCEPT !.at = e.at, !.cut = TRUE])
      BY <1>0, <1>3 DEF Cut, Record
  <2> QED BY <1>3, <2>1, MoveStep DEF Cut
<1>4. CASE NoRequestLine(c)
  <2>1. Step(c, [e EXCEPT !.at = "closed", !.cut = e.cut])
      BY <1>0, <1>4 DEF NoRequestLine
  <2> QED BY <1>4, <2>1, MoveStep DEF NoRequestLine
<1>5. CASE CutHeaders(c)
  <2>1. Step(c, [e EXCEPT !.at = AfterHeaders(e), !.cut = e.cut])
      BY <1>0, <1>5 DEF CutHeaders
  <2>2. AfterHeaders(e) \in {"body", "parse"}
      BY DEF AfterHeaders
  <2> QED BY <1>5, <2>1, <2>2, MoveStep DEF CutHeaders, Fails
<1>6. CASE CutBody(c)
  <2>1. Step(c, [e EXCEPT !.at = "parse", !.cut = e.cut])
      BY <1>0, <1>6 DEF CutBody
  <2> QED BY <1>6, <2>1, MoveStep DEF CutBody
<1>7. CASE ParseRequest(c)
  <2>1. Step(c, [e EXCEPT !.at = "handle", !.cut = e.cut])
      BY <1>0, <1>7 DEF ParseRequest
  <2> QED BY <1>7, <2>1, MoveStep DEF ParseRequest
<1> QED BY <1>1, <1>2, <1>3, <1>4, <1>5, <1>6, <1>7

-----------------------------------------------------------------------------
(* The answer.                                                             *)

Statuses == {0, 200, 201, 400, 401, 404, 405, 500}
Outs == Seq([status : Nat, length : Nat \cup {NoLength}])

\* The fields of a writer, and a writer made of them.
LEMMA WriterFields ==
    ASSUME NEW w \in Writer
    PROVE  /\ w.status \in Statuses /\ w.buffered \in Nat /\ w.flushed \in BOOLEAN
           /\ w.written \in BOOLEAN /\ w.out \in Outs
BY DEF Writer, Statuses, Outs

\* A record with such fields is a writer.
LEMMA WriterMade ==
    ASSUME NEW status \in Statuses, NEW buffered \in Nat, NEW flushed \in BOOLEAN,
           NEW written \in BOOLEAN, NEW out \in Outs
    PROVE  [status |-> status, buffered |-> buffered, flushed |-> flushed,
            written |-> written, out |-> out] \in Writer
BY DEF Writer, Statuses, Outs

\* Writers that differ in some fields.
LEMMA WriterSet ==
    ASSUME NEW w \in Writer
    PROVE  /\ [w EXCEPT !.written = TRUE] =
                  [status |-> w.status, buffered |-> w.buffered, flushed |-> w.flushed,
                   written |-> TRUE, out |-> w.out]
           /\ \A code : [w EXCEPT !.status = code] =
                  [status |-> code, buffered |-> w.buffered, flushed |-> w.flushed,
                   written |-> w.written, out |-> w.out]
           /\ \A code : [w EXCEPT !.status = code, !.buffered = @ + 1] =
                  [status |-> code, buffered |-> w.buffered + 1, flushed |-> w.flushed,
                   written |-> w.written, out |-> w.out]
           /\ \A code, out : [w EXCEPT !.flushed = TRUE, !.status = code, !.out = out] =
                  [status |-> code, buffered |-> w.buffered, flushed |-> TRUE,
                   written |-> w.written, out |-> out]
<1>1. [w EXCEPT !.written = TRUE] =
          [status |-> w.status, buffered |-> w.buffered, flushed |-> w.flushed,
           written |-> TRUE, out |-> w.out]
  <2>1. PICK u : u = [w EXCEPT !.written = TRUE]
      OBVIOUS
  <2>2. u = [status |-> w.status, buffered |-> w.buffered, flushed |-> w.flushed,
             written |-> TRUE, out |-> w.out]
      BY <2>1, ZenonT(40) DEF Writer
  <2> QED BY <2>1, <2>2, Zenon
<1>2. ASSUME NEW code
      PROVE  [w EXCEPT !.status = code] =
                 [status |-> code, buffered |-> w.buffered, flushed |-> w.flushed,
                  written |-> w.written, out |-> w.out]
  <2>1. PICK u : u = [w EXCEPT !.status = code]
      OBVIOUS
  <2>2. u = [status |-> code, buffered |-> w.buffered, flushed |-> w.flushed,
             written |-> w.written, out |-> w.out]
      BY <2>1 DEF Writer
  <2> QED BY <2>1, <2>2, Zenon
<1>3. ASSUME NEW code
      PROVE  [w EXCEPT !.status = code, !.buffered = @ + 1] =
                 [status |-> code, buffered |-> w.buffered + 1, flushed |-> w.flushed,
                  written |-> w.written, out |-> w.out]
  <2>1. PICK u : u = [w EXCEPT !.status = code, !.buffered = @ + 1]
      OBVIOUS
  <2>2. u = [status |-> code, buffered |-> w.buffered + 1, flushed |-> w.flushed,
             written |-> w.written, out |-> w.out]
      BY <2>1, ZenonT(40) DEF Writer
  <2> QED BY <2>1, <2>2, Zenon
<1>4. ASSUME NEW code, NEW out
      PROVE  [w EXCEPT !.flushed = TRUE, !.status = code, !.out = out] =
                 [status |-> code, buffered |-> w.buffered, flushed |-> TRUE,
                  written |-> w.written, out |-> out]
  <2>1. PICK u : u = [w EXCEPT !.flushed = TRUE, !.status = code, !.out = out]
      OBVIOUS
  <2>2. u = [status |-> code, buffered |-> w.buffered, flushed |-> TRUE, written |-> w.written, out |-> out]
      BY <2>1, ZenonT(40) DEF Writer
  <2> QED BY <2>1, <2>2, Zenon
<1> QED BY <1>1, <1>2, <1>3, <1>4

\* The first status that a handler sets.
LEMMA FirstStatus ==
    ASSUME NEW w \in Writer, w.written = FALSE, w.flushed = FALSE, NEW code \in Statuses
    PROVE  /\ WriteHeader(w, code) \in Writer
           /\ WriteHeader(w, code).written = TRUE /\ WriteHeader(w, code).status = code
           /\ WriteHeader(w, code).out = w.out /\ WriteHeader(w, code).flushed = FALSE
<1> DEFINE u == [status |-> w.status, buffered |-> w.buffered, flushed |-> w.flushed,
                 written |-> TRUE, out |-> w.out]
           v == [status |-> code, buffered |-> w.buffered, flushed |-> w.flushed,
                 written |-> TRUE, out |-> w.out]
<1>1. u \in Writer /\ v \in Writer
    BY WriterFields, WriterMade, TRUE \in BOOLEAN, Zenon
<1>2. WriteHeader(w, code) = LegacyWriteHeader(u, code)
    BY WriterSet, Zenon DEF WriteHeader
<1>3. LegacyWriteHeader(u, code) = [u EXCEPT !.status = code]
    BY DEF LegacyWriteHeader
<1>4. [u EXCEPT !.status = code] = v
    BY <1>1, WriterSet, ZenonT(40)
<1>5. WriteHeader(w, code) = v
    BY <1>2, <1>3, <1>4, Zenon
<1> QED BY <1>1, <1>5

\* A write keeps the status, or sets 200 if there is none.
LEMMA MoreText ==
    ASSUME NEW w \in Writer
    PROVE  /\ LegacyWrite(w) \in Writer
           /\ LegacyWrite(w).status = IF w.status = 0 THEN 200 ELSE w.status
           /\ LegacyWrite(w).written = w.written /\ LegacyWrite(w).out = w.out
           /\ LegacyWrite(w).flushed = w.flushed
<1>1. PICK code : code = IF w.status = 0 THEN 200 ELSE w.status
    OBVIOUS
<1>2. code \in Statuses
    BY <1>1, WriterFields DEF Statuses
<1>3. w.buffered + 1 \in Nat
    BY WriterFields
<1> DEFINE v == [status |-> code, buffered |-> w.buffered + 1, flushed |-> w.flushed,
                 written |-> w.written, out |-> w.out]
<1>4. v \in Writer
    BY <1>2, <1>3, WriterFields, WriterMade, Zenon
<1>5. LegacyWrite(w) = v
  <2>1. PICK u : u = LegacyWrite(w)
      OBVIOUS
  <2>2. u = v
      BY <1>1, <2>1, ZenonT(40) DEF LegacyWrite, Writer
  <2> QED BY <2>1, <2>2, Zenon
<1>6. /\ v.status = code /\ v.written = w.written /\ v.out = w.out
      /\ v.flushed = w.flushed
    OBVIOUS
<1> HIDE DEF v
<1> QED BY <1>1, <1>4, <1>5, <1>6, Zenon

\* A write after a status was set.
LEMMA Written ==
    ASSUME NEW w \in Writer, w.written = TRUE, w.status # 0
    PROVE  /\ \A code : WriteHeader(w, code) = w
           /\ Write(w) \in Writer /\ Write(w).status = w.status
           /\ Write(w).written = TRUE /\ Write(w).out = w.out /\ Write(w).flushed = w.flushed
<1>1. \A code : WriteHeader(w, code) = w
    BY DEF WriteHeader
<1>2. Write(w) = LegacyWrite(w)
    BY <1>1 DEF Write
<1> QED BY <1>1, <1>2, MoreText

\* The answer of the recovery.
LEMMA Recovered ==
    ASSUME NEW w \in Writer, w.flushed = FALSE
    PROVE  /\ Recover(w) \in Writer /\ Recover(w).status = 500
           /\ Recover(w).out = w.out /\ Recover(w).flushed = FALSE
<1>1. PICK code \in Statuses : code = 500
    BY DEF Statuses
<1> DEFINE u == [status |-> code, buffered |-> w.buffered, flushed |-> w.flushed,
                 written |-> w.written, out |-> w.out]
<1>2. u \in Writer
    BY WriterFields, WriterMade, Zenon
<1>3. LegacyWriteHeader(w, code) = u
    BY WriterSet, Zenon DEF LegacyWriteHeader
<1>4. u.status = code /\ u.out = w.out /\ u.flushed = FALSE
    OBVIOUS
<1> HIDE DEF u
<1>5. Recover(w) = LegacyWrite(u)
    BY <1>1, <1>3 DEF Recover
<1> QED BY <1>1, <1>2, <1>4, <1>5, MoreText

\* The flush makes the one write.
LEMMA Flushed ==
    ASSUME NEW w \in Writer, w.flushed = FALSE, w.out = <<>>, w.status # 0
    PROVE  /\ Flush(w) \in Writer /\ Flush(w).status = w.status
           /\ Len(Flush(w).out) = 1 /\ Flush(w).out[1].status = w.status
<1> DEFINE a == [status |-> w.status, length |-> w.buffered]
           v == [status |-> w.status, buffered |-> w.buffered, flushed |-> TRUE,
                 written |-> w.written, out |-> <<a>>]
<1>1. Append(w.out, a) = <<a>> /\ a.status = w.status
    OBVIOUS
<1>2. <<a>> \in Outs
    BY WriterFields DEF Outs, Statuses
<1>3. Flush(w) = [w EXCEPT !.flushed = TRUE, !.status = w.status, !.out = Append(@, a)]
    BY DEF Flush
<1> HIDE DEF a
<1>4. Flush(w) = v
    BY <1>1, <1>3, WriterSet, ZenonT(40)
<1>5. v \in Writer
    BY <1>2, WriterFields, WriterMade, TRUE \in BOOLEAN, Zenon
<1> QED BY <1>1, <1>4, <1>5

\* A flush whose write fails leaves nothing for the peer.
LEMMA Unheard ==
    ASSUME NEW w \in Writer, w.flushed = FALSE, w.out = <<>>, w.status # 0
    PROVE  LET v == [Flush(w) EXCEPT !.out = w.out]
           IN  v \in Writer /\ v.status = w.status /\ v.out = <<>> /\ v.flushed = TRUE
<1> DEFINE a == [status |-> w.status, length |-> w.buffered]
           v == [status |-> w.status, buffered |-> w.buffered, flushed |-> TRUE,
                 written |-> w.written, out |-> w.out]
<1>1. Flush(w) = [w EXCEPT !.flushed = TRUE, !.status = w.status, !.out = Append(@, a)]
    BY DEF Flush
<1> HIDE DEF a
<1>2. PICK u : u = [Flush(w) EXCEPT !.out = w.out]
    OBVIOUS
<1>3. u = v
  <2>1. PICK sent : sent = Append(w.out, a)
      OBVIOUS
  <2>2. Flush(w) = [status |-> w.status, buffered |-> w.buffered, flushed |-> TRUE,
                    written |-> w.written, out |-> sent]
      BY <1>1, <2>1, WriterSet, ZenonT(40)
  <2>3. PICK f : f = Flush(w)
      OBVIOUS
  <2>4. f = [status |-> w.status, buffered |-> w.buffered, flushed |-> TRUE,
             written |-> w.written, out |-> sent]
      BY <2>2, <2>3
  <2>5. u = [f EXCEPT !.out = w.out]
      BY <1>2, <2>3
  <2> QED BY <2>4, <2>5
<1>4. v \in Writer
    BY WriterFields, WriterMade, TRUE \in BOOLEAN, Zenon
<1>5. v.status = w.status /\ v.out = <<>> /\ v.flushed = TRUE
    OBVIOUS
<1>6. u \in Writer /\ u.status = w.status /\ u.out = <<>> /\ u.flushed = TRUE
    BY <1>3, <1>4, <1>5, Zenon
<1> QED BY <1>2, <1>6, Zenon

\* The status line of a request that ReadRequest refuses.
LEMMA Refused ==
    ASSUME NEW w \in Writer, w.out = <<>>
    PROVE  LET v == [w EXCEPT !.out = Append(@, [status |-> 400, length |-> NoLength])]
           IN  v \in Writer /\ Len(v.out) = 1 /\ v.out[1].status = 400
<1> DEFINE a == [status |-> 400, length |-> NoLength]
           v == [status |-> w.status, buffered |-> w.buffered, flushed |-> w.flushed,
                 written |-> w.written, out |-> <<a>>]
<1>1. Append(w.out, a) = <<a>> /\ a.status = 400
    OBVIOUS
<1>2. <<a>> \in Outs
    BY DEF Outs, Statuses
<1> HIDE DEF a
<1>3. PICK u : u = [w EXCEPT !.out = Append(@, a)]
    OBVIOUS
<1>4. u = v
    BY <1>1, <1>3 DEF Writer
<1>5. v \in Writer
    BY <1>2, WriterFields, WriterMade, Zenon
<1>6. v.out = <<a>>
    OBVIOUS
<1>7. u \in Writer /\ Len(u.out) = 1 /\ u.out[1].status = 400
    BY <1>1, <1>4, <1>5, <1>6
<1> QED BY <1>3, <1>7, Zenon DEF a

-----------------------------------------------------------------------------
(* The handler and the end of a connection.                                *)

\* After the request was read only the answer changes.
LEMMA AnswerStep ==
    ASSUME BaseInv, NEW c \in Conns, NEW r \in Record, Step(c, r),
           r.at \in {"respond", "flush", "closed"}, conn[c].at # "none",
           r.req = conn[c].req, r.rest = conn[c].rest, r.cut = conn[c].cut,
           r.got = conn[c].got, r.body = conn[c].body,
           Answering(r), Entitled(r) \/ r.acted = conn[c].acted
    PROVE  BaseInv'
<1>1. Sound(conn[c]) /\ Entitled(conn[c])
    BY DEF BaseInv
<1>2. ReadInOrder(r)
    BY <1>1, SameReading
<1>3. Entitled(r)
    BY <1>1 DEF Entitled, Authorized
<1> QED BY <1>2, <1>3, StepSound DEF Sound

\* A handler is about to run, on an untouched writer.
LEMMA BeforeHandler ==
    ASSUME BaseInv, NEW c \in Conns, conn[c].at = "handle"
    PROVE  /\ conn[c].acted = FALSE /\ conn[c].panicked = FALSE
           /\ conn[c].w.status = 0 /\ conn[c].w.written = FALSE /\ conn[c].w.flushed = FALSE
           /\ conn[c].w.out = <<>> /\ conn[c] \in Record
BY DEF BaseInv, Sound, Answering, Untouched, NewWriter, Record

\* A whole body leaves nothing of the request to read.
LEMMA WholeBody ==
    ASSUME NEW r, Sound(r), BodyValid(r)
    PROVE  r.rest = <<>>
<1>1. /\ r.req.body > 0 /\ r.body = r.req.body /\ ReadInOrder(r) /\ r.req \in Requests
      /\ r.req.body \in Nat
    BY AnnouncedBody, StreamAt DEF BodyValid, Sound, Record
<1>2. Pos(r) = Lines(r.req) + r.req.body
    BY <1>1 DEF ReadInOrder
<1> QED BY <1>1, <1>2, StreamAt, NextPiece

\* A handler may answer that code, having acted or not.
Decides(r, code, acted) ==
    IF acted = TRUE
    THEN /\ code \in {200, 201} /\ Authorized(r) /\ r.req.path \notin Public
         /\ r.req.path \in NeedBody => BodyValid(r)
    ELSE /\ code \notin {200, 201} \/ (r.req.path \in Reports /\ code = 200)
         /\ code = 401 => ~Authorized(r)

Decided(r, todo, acted) == [r EXCEPT !.at = "respond", !.acted = acted, !.todo = todo]

\* A handler has decided what to answer, and acted if it is to act.
LEMMA HandlerStep ==
    ASSUME BaseInv, NEW c \in Conns, conn[c].at = "handle",
           NEW code \in Codes, NEW todo \in Todos(code), NEW acted \in BOOLEAN,
           Decides(conn[c], code, acted), Step(c, Decided(conn[c], todo, acted))
    PROVE  BaseInv'
<1> DEFINE e == conn[c]
<1>1. todo \in Seq(Nat)
  <2>1. code \in Nat
      BY DEF Codes
  <2>2. <<code>> \in Seq(Nat) /\ <<code, 0>> \in Seq(Nat)
      BY <2>1
  <2> QED BY <2>2 DEF Todos, Error, Body
<1>2. e \in Record /\ "respond" \in Points /\ Sound(e)
    BY BeforeHandler DEF Points, BaseInv
<1>3. PICK r : r = Decided(e, todo, acted)
    OBVIOUS
<1>4. r \in Record
  <2> HIDE DEF e
  <2> QED BY <1>1, <1>2, <1>3 DEF Record, Decided
<1>5. /\ r.at = "respond" /\ r.todo = todo /\ r.w = e.w
      /\ r.req = e.req /\ r.rest = e.rest /\ r.cut = e.cut /\ r.got = e.got /\ r.body = e.body
      /\ r.panicked = e.panicked /\ r.acted = acted
  <2> HIDE DEF e
  <2> QED BY <1>1, <1>2, <1>3 DEF Record, Decided
<1>6. Tells(r, code)
  <2> HIDE DEF e
  <2>1. CASE acted = TRUE
    <3>1. r.acted = TRUE /\ code \in {200, 201}
        BY <1>5, <2>1 DEF Decides
    <3> QED BY <3>1 DEF Tells
  <2>2. CASE acted = FALSE
    <3>1. r.acted = FALSE /\ (code \notin {200, 201} \/ (r.req.path \in Reports /\ code = 200))
      <4>1. code \notin {200, 201} \/ (e.req.path \in Reports /\ code = 200)
          BY <2>2, FALSE # TRUE, Zenon DEF Decides, e
      <4> QED BY <1>5, <2>2, <4>1
    <3> QED BY <3>1 DEF Tells, Codes
  <2> QED BY <2>1, <2>2
<1>7. Answering(r)
  <2>0. /\ r.panicked = FALSE /\ r.w.written = FALSE /\ r.w.status = 0
        /\ r.w.out = <<>> /\ r.w.flushed = FALSE
    <3>1. /\ e.panicked = FALSE /\ e.w.status = 0 /\ e.w.written = FALSE
          /\ e.w.flushed = FALSE /\ e.w.out = <<>>
        BY BeforeHandler
    <3> HIDE DEF e
    <3> QED BY <1>5, <3>1
  <2>1. \E k \in Codes : Tells(r, k) /\ r.todo \in Todos(k)
      BY <1>5, <1>6
  <2>2. Responding(r) /\ Unsent(r)
      BY <2>0, <2>1 DEF Responding, Unsent
  <2> QED BY <1>5, <2>2 DEF Answering
<1>8. Entitled(r)
    BY <1>2, <1>5, WholeBody DEF Entitled, Authorized, Decides
<1> QED BY <1>3, <1>4, <1>5, <1>7, <1>8, AnswerStep

\* Every way in which a handler decides is such a step.
LEMMA Decision ==
    ASSUME BaseInv, NEW c \in Conns,
           \/ Unauthorized(c) \/ InvalidBody(c) \/ Act(c) \/ Tell(c)
           \/ NotFound(c) \/ BadRequest(c)
    PROVE  /\ conn[c].at = "handle"
           /\ \E code \in Codes : \E todo \in Todos(code) : \E acted \in BOOLEAN :
                  Decides(conn[c], code, acted) /\ Step(c, Decided(conn[c], todo, acted))
<1> DEFINE e == conn[c]
<1>1. e.at = "handle"
    BY DEF Unauthorized, InvalidBody, Act, Tell, NotFound, BadRequest
<1>2. e.acted = FALSE /\ e \in Record
    BY <1>1, BeforeHandler
<1>3. \A todo : [e EXCEPT !.at = "respond", !.todo = todo] = Decided(e, todo, FALSE)
  <2> SUFFICES ASSUME NEW todo
               PROVE  [e EXCEPT !.at = "respond", !.todo = todo] = Decided(e, todo, FALSE)
      OBVIOUS
  <2>1. PICK r : r = [e EXCEPT !.at = "respond", !.todo = todo]
      OBVIOUS
  <2>2. r = [e EXCEPT !.at = "respond", !.acted = FALSE, !.todo = todo]
    <3> HIDE DEF e
    <3> QED BY <1>2, <2>1 DEF Record
  <2> QED BY <2>1, <2>2, Zenon DEF Decided
<1> SUFFICES \E code \in Codes : \E todo \in Todos(code) : \E acted \in BOOLEAN :
                 Decides(e, code, acted) /\ Step(c, Decided(e, todo, acted))
    BY <1>1
<1>4. CASE Unauthorized(c)
  <2>1. 401 \in Codes /\ <<401>> \in Todos(401) /\ Decides(e, 401, FALSE)
    <3>1. ~Authorized(e)
        BY <1>4 DEF Unauthorized
    <3>2. 401 \in Codes /\ <<401>> \in Todos(401) /\ 401 \notin {200, 201}
        BY DEF Codes, Todos
    <3> QED BY <3>1, <3>2, FALSE # TRUE, Zenon DEF Decides
  <2>2. Step(c, Decided(e, <<401>>, FALSE))
      BY <1>3, <1>4, Zenon DEF Unauthorized
  <2> QED BY <2>1, <2>2, ZenonT(40)
<1>5. CASE InvalidBody(c)
  <2>1. 400 \in Codes /\ Error(400) \in Todos(400) /\ Decides(e, 400, FALSE)
      BY DEF Codes, Todos, Decides
  <2>2. Step(c, Decided(e, Error(400), FALSE))
      BY <1>3, <1>5, Zenon DEF InvalidBody
  <2> QED BY <2>1, <2>2, ZenonT(40)
<1>6. CASE Tell(c)
  <2>1. 200 \in Codes /\ <<200, Body>> \in Todos(200) /\ Decides(e, 200, FALSE)
      BY <1>6 DEF Codes, Todos, Error, Decides, Tell
  <2>2. Step(c, Decided(e, <<200, Body>>, FALSE))
      BY <1>3, <1>6, Zenon DEF Tell
  <2> QED BY <2>1, <2>2, FALSE \in BOOLEAN, Zenon
<1>7. CASE NotFound(c)
  <2>1. 404 \in Codes /\ Error(404) \in Todos(404) /\ Decides(e, 404, FALSE)
      BY DEF Codes, Todos, Decides
  <2>2. Step(c, Decided(e, Error(404), FALSE))
      BY <1>3, <1>7, ZenonT(40) DEF NotFound
  <2> QED BY <2>1, <2>2, ZenonT(40)
<1>8. CASE BadRequest(c)
  <2>1. CASE e.req.path = "done no guid"
    <3>1. 400 \in Codes /\ Error(400) \in Todos(400) /\ Decides(e, 400, FALSE)
        BY DEF Codes, Todos, Decides
    <3>2. Step(c, Decided(e, Error(400), FALSE))
        BY <1>3, <1>8, <2>1, Zenon DEF BadRequest
    <3> QED BY <3>1, <3>2, ZenonT(40)
  <2>2. CASE e.req.path # "done no guid"
    <3>1. 405 \in Codes /\ Error(405) \in Todos(405) /\ Decides(e, 405, FALSE)
        BY DEF Codes, Todos, Decides
    <3>2. Step(c, Decided(e, Error(405), FALSE))
        BY <1>3, <1>8, <2>2, Zenon DEF BadRequest
    <3> QED BY <3>1, <3>2, ZenonT(40)
  <2> QED BY <2>1, <2>2
<1>9. CASE Act(c)
  <2>1. PICK todo : todo = IF e.req.path \in {"mystatus", "done"} THEN <<201>> ELSE <<200, Body>>
      OBVIOUS
  <2>2. PICK code \in {200, 201} : todo \in Todos(code)
      BY <2>1 DEF Todos, Error
  <2>3. code \in Codes /\ Decides(e, code, TRUE)
    <3>1. code \in Codes
        BY DEF Codes
    <3>2. /\ Authorized(e) /\ e.req.path \notin Public
          /\ e.req.path \in NeedBody => BodyValid(e)
        BY <1>9 DEF Act, NeedBody, Public
    <3> QED BY <3>1, <3>2, Zenon DEF Decides
  <2>4. Step(c, Decided(e, todo, TRUE))
      BY <1>9, <2>1, Zenon DEF Act, Decided
  <2> QED BY <2>2, <2>3, <2>4, TRUE \in BOOLEAN, Zenon
<1> QED BY <1>1, <1>4, <1>5, <1>6, <1>7, <1>8, <1>9

LEMMA HandlerSteps ==
    ASSUME BaseInv, NEW c \in Conns,
           \/ Unauthorized(c) \/ InvalidBody(c) \/ Act(c) \/ Tell(c)
           \/ NotFound(c) \/ BadRequest(c)
    PROVE  BaseInv'
<1>1. /\ conn[c].at = "handle"
      /\ \E code \in Codes : \E todo \in Todos(code) : \E acted \in BOOLEAN :
             Decides(conn[c], code, acted) /\ Step(c, Decided(conn[c], todo, acted))
    BY Decision
<1> QED BY <1>1, HandlerStep, Zenon

\* What the next step of a handler makes of its writer.
LEMMA NextWrite ==
    ASSUME NEW e \in Record, Responding(e), Unsent(e), e.todo # <<>>,
           NEW w, w = IF Head(e.todo) = Body THEN Write(e.w) ELSE WriteHeader(e.w, Head(e.todo))
    PROVE  /\ w \in Writer /\ w.written = TRUE /\ w.out = <<>> /\ w.flushed = FALSE
           /\ Tells(e, w.status) /\ Tail(e.todo) \in {<<>>, <<Body>>}
           /\ w.status = e.w.status \/ w.status = Head(e.todo)
<1>0. e.w.written \in BOOLEAN /\ e.w.flushed = FALSE /\ e.w.out = <<>>
    BY WriterFields DEF Unsent, Record
<1>1. CASE e.w.written = FALSE
  <2>1. PICK code \in Codes : Tells(e, code) /\ e.todo \in Todos(code)
      BY <1>1 DEF Responding
  <2>2. /\ Head(e.todo) = code /\ code # Body /\ code \in Statuses
        /\ Tail(e.todo) \in {<<>>, <<Body>>}
    <3>1. code # Body /\ code \in Statuses
        BY DEF Body, Codes, Statuses
    <3>2. Head(<<code>>) = code /\ Tail(<<code>>) = <<>>
        OBVIOUS
    <3>3. Head(<<code, Body>>) = code /\ Tail(<<code, Body>>) = <<Body>>
        OBVIOUS
    <3> QED BY <2>1, <3>1, <3>2, <3>3 DEF Todos, Error
  <2>3. w = WriteHeader(e.w, code)
      BY <2>2
  <2>4. /\ w \in Writer /\ w.written = TRUE /\ w.status = code
        /\ w.out = e.w.out /\ w.flushed = FALSE
    <3>1. PICK v \in Writer : v = e.w
        BY DEF Record
    <3>2. v.written = FALSE /\ v.flushed = FALSE
        BY <1>0, <1>1, <3>1
    <3>3. /\ WriteHeader(v, code) \in Writer
          /\ WriteHeader(v, code).written = TRUE /\ WriteHeader(v, code).status = code
          /\ WriteHeader(v, code).out = v.out /\ WriteHeader(v, code).flushed = FALSE
        BY <2>2, <3>2, FirstStatus
    <3> QED BY <2>3, <3>1, <3>3
  <2> QED BY <1>0, <2>1, <2>2, <2>4
<1>2. CASE e.w.written = TRUE
  <2>1. e.todo = <<Body>> /\ Tells(e, e.w.status)
      BY <1>2 DEF Responding
  <2>2. Head(e.todo) = Body /\ Tail(e.todo) = <<>>
      BY <2>1
  <2>3. w = Write(e.w) /\ e.w.status # 0
      BY <2>1, <2>2 DEF Tells
  <2>4. e.w \in Writer
      BY DEF Record
  <2>5. /\ w \in Writer /\ w.written = TRUE /\ w.status = e.w.status
        /\ w.out = e.w.out /\ w.flushed = e.w.flushed
      BY <1>2, <2>3, <2>4, Written
  <2> QED BY <1>0, <2>1, <2>2, <2>5
<1> QED BY <1>0, <1>1, <1>2

\* The handler's next step on its writer.
LEMMA RespondStep ==
    ASSUME BaseInv, NEW c \in Conns, Respond(c)
    PROVE  BaseInv'
<1> DEFINE e == conn[c]
<1>1. /\ e.at = "respond" /\ e.todo # <<>> /\ e \in Record /\ e.w \in Writer /\ Sound(e)
      /\ Responding(e) /\ Unsent(e)
    BY DEF Respond, BaseInv, Sound, Answering, Record
<1>2. PICK w : w = IF Head(e.todo) = Body THEN Write(e.w) ELSE WriteHeader(e.w, Head(e.todo))
    OBVIOUS
<1>3. PICK r : r = [e EXCEPT !.todo = Tail(e.todo), !.w = w]
    OBVIOUS
<1>4. Step(c, r)
    BY <1>2, <1>3 DEF Respond
<1>5. /\ w \in Writer /\ w.written = TRUE /\ w.out = <<>> /\ w.flushed = FALSE
      /\ Tells(e, w.status) /\ Tail(e.todo) \in {<<>>, <<Body>>}
  <2> HIDE DEF e
  <2> QED BY <1>1, <1>2, NextWrite
<1>6. Tail(e.todo) \in Seq(Nat)
  <2>1. <<>> \in Seq(Nat) /\ <<Body>> \in Seq(Nat)
      BY DEF Body
  <2> QED BY <1>5, <2>1
<1>7. r \in Record
  <2> HIDE DEF e
  <2> QED BY <1>1, <1>3, <1>5, <1>6 DEF Record
<1>8. /\ r.at = "respond" /\ r.todo = Tail(e.todo) /\ r.w = w
      /\ r.req = e.req /\ r.rest = e.rest /\ r.cut = e.cut /\ r.got = e.got /\ r.body = e.body
      /\ r.panicked = e.panicked /\ r.acted = e.acted
  <2> HIDE DEF e
  <2> QED BY <1>1, <1>3 DEF Record
<1>9. Answering(r)
  <2>1. ~r.panicked /\ Tells(r, r.w.status)
      BY <1>1, <1>5, <1>8 DEF Responding, Tells
  <2>2. Responding(r) /\ Unsent(r)
      BY <1>5, <1>8, <2>1 DEF Responding, Unsent
  <2> QED BY <1>8, <2>2 DEF Answering
<1> QED BY <1>1, <1>4, <1>7, <1>8, <1>9, AnswerStep

\* ReadRequest refuses, a handler panics or returns, or the answer is sent,
\* or lost.
LEMMA EndingStep ==
    ASSUME BaseInv, NEW c \in Conns,
           \/ RefuseRequest(c) \/ Panic(c) \/ HandlerReturns(c) \/ FlushAndClose(c)
           \/ RefusalFails(c) \/ FlushFails(c)
    PROVE  BaseInv'
<1> DEFINE e == conn[c]
<1>1. /\ e \in Record /\ e.w \in Writer /\ Answering(e) /\ e.at # "closed" /\ e.at # "none"
      /\ e.w.out = <<>> /\ e.w.flushed = FALSE
    BY WriterFields DEF RefuseRequest, Panic, HandlerReturns, FlushAndClose, RefusalFails,
                        FlushFails, BaseInv, Sound, Answering, Unsent, Record
<1>2. \A at \in {"flush", "closed"} : at \in Points
    BY DEF Points
<1>3. CASE RefuseRequest(c)
  <2>1. PICK w : w = [e.w EXCEPT !.out = Append(@, [status |-> 400, length |-> NoLength])]
      OBVIOUS
  <2>2. PICK r : r = [e EXCEPT !.at = "closed", !.w = w]
      OBVIOUS
  <2>3. Step(c, r)
      BY <1>3, <2>1, <2>2 DEF RefuseRequest
  <2>4. /\ w \in Writer /\ Len(w.out) = 1 /\ w.out[1].status = 400
      BY <1>1, <2>1, Refused, ZenonT(40)
  <2>5. r \in Record
    <3> HIDE DEF e
    <3> QED BY <1>1, <1>2, <2>2, <2>4 DEF Record
  <2>6. /\ r.at = "closed" /\ r.w = w /\ r.req = e.req /\ r.rest = e.rest /\ r.cut = e.cut
        /\ r.got = e.got /\ r.body = e.body /\ r.acted = e.acted /\ r.panicked = e.panicked
    <3> HIDE DEF e
    <3> QED BY <1>1, <2>2 DEF Record
  <2>7. r.acted = FALSE /\ r.panicked = FALSE
    <3>1. e.acted = FALSE /\ e.panicked = FALSE
        BY <1>1, <1>3 DEF RefuseRequest, Answering, Untouched, Record
    <3> QED BY <2>6, <3>1
  <2>8. Answering(r)
    <3>1. Told(r)
        BY <2>4, <2>6, <2>7 DEF Told, Tells
    <3> QED BY <2>6, <3>1 DEF Answering
  <2> QED BY <1>1, <2>3, <2>5, <2>6, <2>8, AnswerStep
<1>4. CASE Panic(c)
  <2>1. PICK w : w = Recover(e.w)
      OBVIOUS
  <2>2. PICK r : r = [e EXCEPT !.at = "flush", !.panicked = TRUE, !.todo = <<>>, !.w = w]
      OBVIOUS
  <2>3. Step(c, r)
      BY <1>4, <2>1, <2>2 DEF Panic
  <2>4. w \in Writer /\ w.status = 500 /\ w.out = <<>> /\ w.flushed = FALSE
      BY <1>1, <2>1, Recovered, ZenonT(40)
  <2>5. r \in Record
    <3>1. <<>> \in Seq(Nat)
        OBVIOUS
    <3> HIDE DEF e
    <3> QED BY <1>1, <1>2, <2>2, <2>4, <3>1 DEF Record
  <2>6. /\ r.at = "flush" /\ r.w = w /\ r.req = e.req /\ r.rest = e.rest /\ r.cut = e.cut
        /\ r.got = e.got /\ r.body = e.body /\ r.acted = e.acted /\ r.panicked = TRUE
    <3> HIDE DEF e
    <3> QED BY <1>1, <2>2 DEF Record
  <2>7. Answering(r)
    <3>1. Unsent(r)
        BY <2>4, <2>6 DEF Unsent
    <3> QED BY <2>4, <2>6, <3>1 DEF Answering
  <2> QED BY <1>1, <2>3, <2>5, <2>6, <2>7, AnswerStep
<1>5. CASE HandlerReturns(c)
  <2>1. PICK r : r = [e EXCEPT !.at = "flush"]
      OBVIOUS
  <2>2. Step(c, r)
      BY <1>5, <2>1 DEF HandlerReturns
  <2>3. r \in Record
    <3> HIDE DEF e
    <3> QED BY <1>1, <1>2, <2>1 DEF Record
  <2>4. /\ r.at = "flush" /\ r.w = e.w /\ r.req = e.req /\ r.rest = e.rest /\ r.cut = e.cut
        /\ r.got = e.got /\ r.body = e.body /\ r.acted = e.acted /\ r.panicked = e.panicked
    <3> HIDE DEF e
    <3> QED BY <1>1, <2>1 DEF Record
  <2>5. r.panicked = FALSE /\ Tells(r, r.w.status)
    <3>1. Responding(e) /\ e.todo = <<>> /\ e.panicked \in BOOLEAN
        BY <1>1, <1>5 DEF HandlerReturns, Answering, Record
    <3>2. \A code \in Codes : e.todo \notin Todos(code)
        BY <3>1 DEF Todos, Error
    <3>3. e.panicked = FALSE /\ Tells(e, e.w.status)
        BY <3>1, <3>2 DEF Responding
    <3> QED BY <2>4, <3>3 DEF Tells
  <2>6. Answering(r)
    <3>1. Unsent(r)
        BY <1>1, <2>4 DEF Unsent
    <3> QED BY <2>4, <2>5, <3>1 DEF Answering
  <2> QED BY <1>1, <2>2, <2>3, <2>4, <2>6, AnswerStep
<1>6. CASE FlushAndClose(c)
  <2>1. PICK w : w = Flush(e.w)
      OBVIOUS
  <2>2. PICK r : r = [e EXCEPT !.at = "closed", !.w = w]
      OBVIOUS
  <2>3. Step(c, r)
      BY <1>6, <2>1, <2>2 DEF FlushAndClose
  <2>4. IF e.panicked THEN e.w.status = 500 ELSE Tells(e, e.w.status)
      BY <1>1, <1>6 DEF FlushAndClose, Answering
  <2>5. w \in Writer /\ Len(w.out) = 1 /\ w.out[1].status = e.w.status
    <3>1. e.w.status # 0
        BY <2>4 DEF Tells
    <3> QED BY <1>1, <2>1, <3>1, Flushed
  <2>6. r \in Record
    <3> HIDE DEF e
    <3> QED BY <1>1, <1>2, <2>2, <2>5 DEF Record
  <2>7. /\ r.at = "closed" /\ r.w = w /\ r.req = e.req /\ r.rest = e.rest /\ r.cut = e.cut
        /\ r.got = e.got /\ r.body = e.body /\ r.acted = e.acted /\ r.panicked = e.panicked
    <3> HIDE DEF e
    <3> QED BY <1>1, <2>2 DEF Record
  <2>8. Answering(r)
    <3>1. Told(r)
        BY <2>4, <2>5, <2>7 DEF Told, Tells
    <3> QED BY <2>7, <3>1 DEF Answering
  <2> QED BY <1>1, <2>3, <2>6, <2>7, <2>8, AnswerStep
<1>7. CASE RefusalFails(c)
  <2>1. PICK r : r = [e EXCEPT !.at = "closed"]
      OBVIOUS
  <2>2. Step(c, r)
      BY <1>7, <2>1 DEF RefusalFails
  <2>3. r \in Record
    <3> HIDE DEF e
    <3> QED BY <1>1, <1>2, <2>1 DEF Record
  <2>4. /\ r.at = "closed" /\ r.w = e.w /\ r.req = e.req /\ r.rest = e.rest /\ r.cut = e.cut
        /\ r.got = e.got /\ r.body = e.body /\ r.acted = e.acted /\ r.panicked = e.panicked
    <3> HIDE DEF e
    <3> QED BY <1>1, <2>1 DEF Record
  <2>5. ~r.acted /\ ~r.panicked /\ r.w.out = <<>>
      BY <1>1, <1>7, <2>4 DEF RefusalFails, Answering, Untouched
  <2>6. Answering(r)
      BY <2>4, <2>5 DEF Answering, Told
  <2> QED BY <1>1, <2>2, <2>3, <2>4, <2>6, AnswerStep
<1>8. CASE FlushFails(c)
  <2>1. PICK w : w = [Flush(e.w) EXCEPT !.out = e.w.out]
      OBVIOUS
  <2>2. PICK r : r = [e EXCEPT !.at = "closed", !.w = w]
      OBVIOUS
  <2>3. Step(c, r)
      BY <1>8, <2>1, <2>2 DEF FlushFails
  <2>4. e.w.status # 0
      BY <1>1, <1>8 DEF FlushFails, Answering, Tells
  <2>5. w \in Writer /\ w.out = <<>> /\ w.flushed = TRUE
      BY <1>1, <2>1, <2>4, Unheard, ZenonT(40)
  <2>6. r \in Record
    <3> HIDE DEF e
    <3> QED BY <1>1, <1>2, <2>2, <2>5 DEF Record
  <2>7. /\ r.at = "closed" /\ r.w = w /\ r.req = e.req /\ r.rest = e.rest /\ r.cut = e.cut
        /\ r.got = e.got /\ r.body = e.body /\ r.acted = e.acted /\ r.panicked = e.panicked
    <3> HIDE DEF e
    <3> QED BY <1>1, <2>2 DEF Record
  <2>8. Answering(r)
      BY <2>5, <2>7 DEF Answering, Told
  <2> QED BY <1>1, <2>3, <2>6, <2>7, <2>8, AnswerStep
<1> QED BY <1>3, <1>4, <1>5, <1>6, <1>7, <1>8

-----------------------------------------------------------------------------
(* main, and every step.                                                   *)

\* Main's steps leave the connections alone, except the close of the
\* listener, and the configuration, except its load.
LEMMA MainStep ==
    ASSUME BaseInv, AcceptFails \/ Main \/ Signal
    PROVE  BaseInv'
<1>1. CASE LoadConfig
  <2>1. /\ given' = given /\ conn' = conn /\ cfg' = Load(given) /\ main' = "listen"
        /\ listening' = listening /\ serving' = serving /\ Validate(cfg') /\ ~listening
      BY <1>1 DEF LoadConfig, BaseInv, Started
  <2>2. Started'
      BY <2>1 DEF BaseInv, Started
  <2>3. ASSUME NEW c \in Conns
        PROVE  Entitled(conn[c])'
    <3>1. CASE conn[c].at = "none"
      <4>1. ~conn[c].acted
          BY <3>1 DEF BaseInv, Sound, Answering, Untouched
      <4> QED BY <2>1, <4>1 DEF Entitled
    <3>2. CASE conn[c].at # "none"
      <4>1. cfg' = cfg
          BY <2>1, <3>2 DEF BaseInv, Started
      <4> QED BY <2>1, <4>1 DEF BaseInv, Entitled, Authorized
    <3> QED BY <3>1, <3>2
  <2> QED BY <2>1, <2>2, <2>3 DEF BaseInv
<1>2. ASSUME conn' = conn, cfg' = cfg, Started'
      PROVE  BaseInv'
    BY <1>2 DEF BaseInv, Entitled, Authorized
<1>3. CASE Listen
    BY <1>2, <1>3 DEF Listen, Configuration, BaseInv, Started
<1>4. CASE StartFails
    BY <1>2, <1>4 DEF StartFails, Configuration, BaseInv, Started
<1>5. CASE Notify
    BY <1>2, <1>5 DEF Notify, Configuration, BaseInv, Started
<1>6. CASE ServerError
    BY <1>2, <1>6 DEF ServerError, Configuration, BaseInv, Started
<1>7. CASE Exit
    BY <1>2, <1>7 DEF Exit, Configuration, BaseInv, Started
<1>8. CASE AcceptFails
    BY <1>2, <1>8 DEF AcceptFails, Configuration, BaseInv, Started
<1>9. CASE Signal
    BY <1>2, <1>9 DEF Signal, Configuration, BaseInv, Started
<1>10. CASE CloseListener
  <2>1. /\ given' = given /\ cfg' = cfg /\ main = "closing" /\ main' = "draining"
        /\ listening' = FALSE /\ serving' = serving
      BY <1>10 DEF CloseListener, Configuration
  <2>2. ASSUME NEW c \in Conns
        PROVE  /\ conn'[c] \in Record /\ Sound(conn'[c]) /\ Entitled(conn[c])'
               /\ conn'[c].at = "none" <=> conn[c].at = "none"
    <3> DEFINE e == conn[c]
    <3>1. e \in Record /\ Sound(e) /\ Entitled(e)
        BY DEF BaseInv
    <3>2. CASE e.at = "backlog"
      <4>1. PICK r : r = [e EXCEPT !.at = "closed"]
          OBVIOUS
      <4>2. conn'[c] = r
          BY <1>10, <3>2, <4>1 DEF CloseListener
      <4>3. r \in Record
        <5> HIDE DEF e
        <5> QED BY <3>1, <4>1 DEF Record, Points
      <4>4. /\ r.at = "closed" /\ r.w = e.w /\ r.req = e.req /\ r.rest = e.rest /\ r.cut = e.cut
            /\ r.got = e.got /\ r.body = e.body /\ r.acted = e.acted /\ r.panicked = e.panicked
        <5> HIDE DEF e
        <5> QED BY <3>1, <4>1 DEF Record
      <4>5. ReadInOrder(r)
          BY <3>1, <4>4, SameReading
      <4>6. e.acted = FALSE /\ e.panicked = FALSE /\ e.w.out = <<>>
          BY <3>1, <3>2 DEF Sound, Answering, Untouched, Unsent, Record
      <4>7. r.acted = FALSE /\ r.panicked = FALSE /\ r.w.out = <<>>
          BY <4>4, <4>6
      <4>8. Answering(r) /\ Entitled(r)'
          BY <4>4, <4>7 DEF Answering, Told, Entitled
      <4> QED BY <3>2, <4>2, <4>3, <4>4, <4>5, <4>8 DEF Sound, Entitled, Authorized
    <3>3. CASE e.at # "backlog"
      <4>1. conn'[c] = conn[c]
          BY <1>10, <3>3 DEF CloseListener
      <4> QED BY <2>1, <3>1, <4>1 DEF Entitled, Authorized
    <3> QED BY <3>2, <3>3
  <2>3. conn' \in [Conns -> Record]
      BY <1>10, <2>2 DEF CloseListener
  <2>4. Started'
      BY <2>1, <2>2 DEF BaseInv, Started
  <2> QED BY <2>2, <2>3, <2>4 DEF BaseInv
<1> QED BY <1>1, <1>3, <1>4, <1>5, <1>6, <1>7, <1>8, <1>9, <1>10 DEF Main

\* Every connection is sound at the start.
LEMMA AtStart ==
    ASSUME Init
    PROVE  BaseInv
<1>1. ASSUME NEW c \in Conns
      PROVE  conn[c] \in Record /\ Sound(conn[c]) /\ ~conn[c].acted /\ conn[c].at = "none"
  <2>1. PICK req \in Requests :
            conn[c] = [at |-> "none", req |-> req, rest |-> Stream(req), cut |-> FALSE,
                       got |-> {}, body |-> 0, w |-> NewWriter, todo |-> <<>>,
                       acted |-> FALSE, panicked |-> FALSE]
      BY DEF Init
  <2>2. PICK e : e = conn[c]
      OBVIOUS
  <2>3. NewWriter \in Writer /\ <<>> \in Seq(Nat) /\ "none" \in Points /\ 0 \in Nat
    <3>1. <<>> \in Outs /\ 0 \in Statuses /\ 0 \in Nat /\ FALSE \in BOOLEAN
        BY DEF Statuses, Outs
    <3>2. NewWriter \in Writer
        BY <3>1, WriterMade, Zenon DEF NewWriter
    <3> QED BY <3>2 DEF Points
  <2>4. e \in Record
      BY <2>1, <2>2, <2>3, StreamAt DEF Record
  <2>5. /\ e.at = "none" /\ e.req = req /\ e.rest = Stream(req) /\ e.body = 0 /\ e.got = {}
        /\ e.w = NewWriter /\ e.todo = <<>> /\ e.acted = FALSE /\ e.panicked = FALSE
      BY <2>1, <2>2
  <2>6. ReadInOrder(e)
    <3>1. /\ Stream(req) \in Seq(Pieces) /\ Len(Stream(req)) \in Nat /\ req.body \in Nat
          /\ Lines(req) \in Nat
        BY StreamAt
    <3>2. Pos(e) = 0
        BY <2>5, <3>1 DEF Pos
    <3>3. e.rest = SubSeq(Stream(req), 1, Len(Stream(req)))
        BY <2>5, <3>1
    <3> QED BY <2>5, <3>1, <3>2, <3>3 DEF ReadInOrder
  <2>7. Answering(e)
      BY <2>5 DEF Answering, Untouched, Unsent, NewWriter
  <2> QED BY <2>2, <2>4, <2>5, <2>6, <2>7 DEF Sound
<1>2. conn \in [Conns -> Record]
  <2>1. \E S : conn \in [Conns -> S]
      BY DEF Init
  <2> QED BY <1>1, <2>1
<1>3. Started
    BY <1>1 DEF Init, Started
<1> QED BY <1>1, <1>2, <1>3 DEF BaseInv, Entitled

\* A step of connection c or its peer.
StepOf(c) ==
    Connect(c) \/ Accept(c) \/ Receive(c) \/ Cut(c) \/ Serve(c) \/ Panic(c) \/ WriteFails(c)

\* It changes that connection only.
LEMMA OneConnection ==
    ASSUME NEW c \in Conns, StepOf(c)
    PROVE  \E r : Step(c, r)
BY ZenonT(40)
   DEF StepOf, Connect, Accept, Receive, ReadRequestLine, ReadHeader, EndHeaders, ReadBody, Cut,
       Serve, NoRequestLine, CutHeaders, CutBody, ParseRequest, RefuseRequest,
       Unauthorized, InvalidBody, Act, Tell, NotFound, BadRequest, Respond, HandlerReturns,
       FlushAndClose, Panic, WriteFails, RefusalFails, FlushFails

\* Every step keeps every connection sound.
LEMMA EveryStep ==
    ASSUME BaseInv, [Next]_vars
    PROVE  BaseInv'
<1>1. CASE UNCHANGED vars
    BY <1>1 DEF vars, BaseInv, Started, Entitled, Authorized
<1>2. ASSUME NEW c \in Conns, StepOf(c)
      PROVE  BaseInv'
    BY <1>2, ConnectionSteps, ReadRequestLineStep, ReadHeaderStep, EndHeadersStep, ReadBodyStep,
       HandlerSteps, RespondStep, EndingStep DEF StepOf, Receive, Serve, WriteFails
<1> QED BY <1>1, <1>2, MainStep DEF Next, StepOf

\* The inductive invariant.
THEOREM Base == Spec => []BaseInv
<1>1. Init => BaseInv
    BY AtStart
<1>2. BaseInv /\ [Next]_vars => BaseInv'
    BY EveryStep
<1> QED BY <1>1, <1>2, PTL DEF Spec

-----------------------------------------------------------------------------
(* What the invariant says of the properties.                              *)

\* The record of a connection is one of its request.
LEMMA RecordOfRequest ==
    ASSUME NEW r, Sound(r)
    PROVE  r \in Conn(r.req)
<1>1. r \in Record /\ ReadInOrder(r) /\ r.req \in Requests
    BY DEF Sound, Record
<1>2. Len(Stream(r.req)) \in Nat /\ r.req.body \in Nat
    BY <1>1, StreamAt
<1>3. Pos(r) + 1 \in 1 .. Len(Stream(r.req)) + 1
    BY <1>1, <1>2 DEF ReadInOrder
<1>4. r.rest \in {SubSeq(Stream(r.req), i, Len(Stream(r.req))) : i \in 1 .. Len(Stream(r.req)) + 1}
    BY <1>1, <1>3 DEF ReadInOrder
<1>5. r.body \in 0 .. r.req.body
    BY <1>1, <1>2 DEF ReadInOrder, Record
<1> QED BY <1>1, <1>4, <1>5 DEF Record, Conn

\* The connection's fields have their types at all times, whatever was sent
\* and wherever it was cut.
THEOREM TypeCorrect == Spec => []TypeOK
<1>1. BaseInv => TypeOK
    BY RecordOfRequest DEF BaseInv, Started, TypeOK
<1> QED BY <1>1, Base, PTL

\* An answer is one write, with its body: of the two middlewares, the
\* handler and the recovery that write to the response, none reaches the
\* connection but through the flush.
THEOREM OneWriteAlways == Spec => []OneWrite
<1>1. BaseInv => OneWrite
  <2> SUFFICES ASSUME BaseInv, NEW c \in Conns
               PROVE  Len(conn[c].w.out) <= 1
      BY DEF OneWrite
  <2>1. Unsent(conn[c]) \/ Told(conn[c])
      BY DEF BaseInv, Sound, Answering
  <2>2. Len(<<>>) = 0
      OBVIOUS
  <2>3. conn[c].w.out = <<>> \/ Len(conn[c].w.out) = 1
      BY <2>1 DEF Unsent, Told
  <2>4. \A n : n = 0 \/ n = 1 => n <= 1
      OBVIOUS
  <2> QED BY <2>2, <2>3, <2>4, Zenon
<1> QED BY <1>1, Base, PTL

\* What the peer is told is what happened to the store, and a peer that is
\* told nothing although something happened was written an answer.
THEOREM AnswersTell == Spec => []AnswerTellsEffect
<1>1. BaseInv => AnswerTellsEffect
  <2> SUFFICES ASSUME BaseInv, NEW c \in Conns, conn[c].at = "closed"
               PROVE  LET r == conn[c]
                      IN  IF r.w.out = <<>> THEN r.acted \/ r.panicked => r.w.flushed
                          ELSE LET status == Last(r.w.out).status
                               IN  /\ status = 500 <=> r.panicked
                                   /\ status \in {200, 201} => r.acted \/ r.req.path \in Reports
                                   /\ status \in {400, 401, 404, 405} => ~r.acted
      BY DEF AnswerTellsEffect
  <2> DEFINE r == conn[c]
  <2>1. Told(r) /\ r.panicked \in BOOLEAN /\ r.acted \in BOOLEAN
      BY DEF BaseInv, Sound, Answering, Record
  <2>2. CASE r.w.out = <<>>
    <3>1. Len(<<>>) = 0
        OBVIOUS
    <3> QED BY <2>1, <2>2, <3>1 DEF Told
  <2>3. CASE r.w.out # <<>>
    <3> DEFINE status == Last(r.w.out).status
    <3>1. status = r.w.out[1].status
        BY <2>1, <2>3 DEF Told, Last
    <3>2. IF r.panicked THEN status = 500 ELSE Tells(r, status)
        BY <2>1, <2>3, <3>1 DEF Told
    <3> HIDE DEF status
    <3>3. CASE r.panicked = TRUE
        BY <2>3, <3>2, <3>3 DEF status
    <3>4. CASE r.panicked = FALSE
        BY <2>3, <3>2, <3>4 DEF status, Tells
    <3> QED BY <2>1, <3>3, <3>4
  <2> QED BY <2>2, <2>3
<1> QED BY <1>1, Base, PTL

\* Nothing is done for a request that was cut in its body, or before the
\* lines that announce the body or authenticate the peer.
THEOREM ActsOnIntact == Spec => []ActsOnIntactOnly
<1>1. BaseInv => ActsOnIntactOnly
  <2> SUFFICES ASSUME BaseInv, NEW c \in Conns, conn[c].acted
               PROVE  /\ conn[c].req.path \in NeedBody => conn[c].rest = <<>>
                      /\ AuthAsked(given) => "auth" \in conn[c].got
      BY DEF ActsOnIntactOnly
  <2> DEFINE r == conn[c]
  <2>1. Sound(r) /\ Entitled(r) /\ Started
      BY DEF BaseInv
  <2>2. r.at # "none"
      BY <2>1 DEF Sound, Answering, Untouched
  <2>3. cfg = Load(given) /\ given \in Sources
      BY <2>1, <2>2 DEF Started
  <2>4. AuthAsked(given) => "auth" \in r.got
      BY <2>1, <2>3, SourcesAssumption, AskedIsLoaded DEF Entitled, Authorized
  <2> QED BY <2>1, <2>4 DEF Entitled
<1> QED BY <1>1, Base, PTL

\* Once the shutdown drains, no connection is accepted.
THEOREM Drains == Spec => DrainsOnly
<1>1. ASSUME BaseInv, [Next]_vars
      PROVE  main = "draining" => \A c \in Conns : conn[c].at = "backlog" => conn'[c].at # "line"
  <2> SUFFICES ASSUME main = "draining", NEW c \in Conns, conn[c].at = "backlog",
                      conn'[c].at = "line"
               PROVE  FALSE
      OBVIOUS
  <2>1. listening = FALSE
      BY <1>1 DEF BaseInv, Started
  <2>2. conn \in [Conns -> Record]
      BY <1>1 DEF BaseInv
  <2>3. CASE \E d \in Conns : StepOf(d)
    <3>1. PICK d \in Conns : StepOf(d)
        BY <2>3
    <3>2. \E r : Step(d, r)
        BY <3>1, OneConnection
    <3>3. CASE d # c
      <4>1. conn'[c] = conn[c]
          BY <2>2, <3>2, <3>3 DEF Step
      <4> QED BY <4>1
    <3>4. CASE d = c
        BY <2>1, <3>1, <3>4
           DEF StepOf, Connect, Accept, Receive, ReadRequestLine, ReadHeader, EndHeaders, ReadBody, Cut, Reading,
               Serve, NoRequestLine, CutHeaders, CutBody, ParseRequest, RefuseRequest,
               Unauthorized, InvalidBody, Act, Tell, NotFound, BadRequest, Respond,
               HandlerReturns, FlushAndClose, Panic, WriteFails, RefusalFails, FlushFails
    <3> QED BY <3>3, <3>4
  <2>4. CASE UNCHANGED vars
      BY <2>4 DEF vars
  <2>5. CASE AcceptFails \/ Main \/ Signal
      BY <2>5 DEF AcceptFails, Main, LoadConfig, Listen, StartFails, Notify, ServerError,
                  CloseListener, Exit, Signal
  <2> QED BY <1>1, <2>3, <2>4, <2>5 DEF Next, StepOf
<1>2. BaseInv /\ [Next]_vars
         => [main = "draining" => \A c \in Conns : conn[c].at = "backlog" => conn'[c].at # "line"]_vars
    BY <1>1
<1> QED BY <1>2, Base, PTL DEF Spec, DrainsOnly

-----------------------------------------------------------------------------
(* Who is let in and who is refused.                                       *)

\* A refusal for want of credentials, decided, set or sent.
Says401(r) ==
    \/ r.todo # <<>> /\ r.todo[1] = 401
    \/ r.w.status = 401
    \/ \E i \in DOMAIN r.w.out : r.w.out[i].status = 401

\* Only who is not let in gets one, whatever else happens to the answer.
RefusedInv == \A c \in Conns : conn[c].at # "none" /\ Says401(conn[c]) => ~Authorized(conn[c])

\* Nobody who asked nothing yet is refused.
LEMMA UntouchedSays ==
    ASSUME NEW r \in Record, Untouched(r), Unsent(r)
    PROVE  ~Says401(r)
BY DEF Untouched, Unsent, NewWriter, Says401

\* Nor is a request that was not handled yet.
LEMMA NotYetRefused ==
    BaseInv => \A c \in Conns : Says401(conn[c]) => conn[c].at \in {"respond", "flush", "closed"}
<1> SUFFICES ASSUME BaseInv, NEW c \in Conns, Says401(conn[c])
             PROVE  conn[c].at \in {"respond", "flush", "closed"}
    OBVIOUS
<1>1. /\ conn[c] \in Record /\ Answering(conn[c])
    BY DEF BaseInv, Sound
<1>2. CASE conn[c].at \in {"none", "backlog", "line", "headers", "body", "parse", "handle"}
    BY <1>1, <1>2, UntouchedSays DEF Answering
<1> QED BY <1>1, <1>2 DEF Record, Points, Reading

\* The steps by which an answer is made and sent.
Answers(c) ==
    \/ NoRequestLine(c) \/ RefuseRequest(c)
    \/ Unauthorized(c) \/ InvalidBody(c) \/ Act(c) \/ Tell(c) \/ NotFound(c) \/ BadRequest(c)
    \/ Respond(c) \/ HandlerReturns(c) \/ FlushAndClose(c) \/ Panic(c) \/ WriteFails(c)

\* A step of a connection that answers is one of these.
LEMMA OnlyAnswers ==
    ASSUME BaseInv, NEW c \in Conns, StepOf(c),
           conn'[c].at \in {"respond", "flush", "closed"}
    PROVE  Answers(c)
<1>1. conn \in [Conns -> Record]
    BY DEF BaseInv
<1>2. \A r : Step(c, r) => conn'[c] = r
    BY <1>1 DEF Step
<1>3. CASE Connect(c) \/ Accept(c) \/ ParseRequest(c) \/ Cut(c) \/ CutHeaders(c) \/ CutBody(c)
  <2>1. PICK r : /\ Step(c, r)
                 /\ r.at \in {"backlog", "line", "handle", "body", "parse"} \/ r.at \in Reading
    <3> DEFINE e == conn[c]
    <3>1. e \in Record
        BY <1>1
    <3>2. \A at : [e EXCEPT !.at = at].at = at
        BY <3>1 DEF Record
    <3>3. [e EXCEPT !.cut = TRUE].at = e.at
        BY <3>1 DEF Record
    <3> QED BY <1>3, <3>2, <3>3
            DEF Connect, Accept, ParseRequest, Cut, CutHeaders, CutBody, AfterHeaders
  <2> QED BY <1>2, <2>1 DEF Reading
<1>4. CASE Receive(c)
  <2>1. PICK r : Step(c, r) /\ r.at \in Reading \cup {"parse"}
    <3> DEFINE e == conn[c]
    <3>1. e \in Record
        BY <1>1
    <3>6. CASE ReadRequestLine(c)
      <4>1. PICK r : r = [e EXCEPT !.at = "headers", !.rest = Tail(@)]
          OBVIOUS
      <4>2. r.at = "headers"
        <5> HIDE DEF e
        <5> QED BY <3>1, <4>1 DEF Record
      <4> QED BY <3>6, <4>1, <4>2 DEF ReadRequestLine, Reading
    <3>7. CASE ReadHeader(c)
      <4>1. PICK r : r = [e EXCEPT !.rest = Tail(@), !.got = Heard(@, Head(e.rest))]
          OBVIOUS
      <4>2. r.at = e.at
        <5> HIDE DEF e
        <5> QED BY <3>1, <4>1 DEF Record
      <4> QED BY <3>7, <4>1, <4>2 DEF ReadHeader, Reading
    <3>8. CASE EndHeaders(c)
      <4>1. PICK r : r = [e EXCEPT !.at = AfterHeaders(e), !.rest = Tail(@)]
          OBVIOUS
      <4>2. r.at = AfterHeaders(e)
        <5> HIDE DEF e
        <5> QED BY <3>1, <4>1 DEF Record
      <4> QED BY <3>8, <4>1, <4>2 DEF EndHeaders, AfterHeaders, Reading
    <3>9. CASE ReadBody(c)
      <4>1. PICK at : at = IF e.body + 1 = e.req.body THEN "parse" ELSE e.at
          OBVIOUS
      <4>2. at \in Reading \cup {"parse"}
          BY <3>9, <4>1 DEF ReadBody, Reading
      <4>3. PICK r : r = [e EXCEPT !.rest = Tail(@), !.body = @ + 1, !.at = at]
          OBVIOUS
      <4>4. r.at = at
        <5> HIDE DEF e
        <5> QED BY <3>1, <4>3 DEF Record
      <4>5. Step(c, r)
          BY <3>9, <4>1, <4>3 DEF ReadBody
      <4> QED BY <4>2, <4>4, <4>5
    <3> QED BY <1>4, <3>6, <3>7, <3>8, <3>9 DEF Receive
  <2> QED BY <1>2, <2>1 DEF Reading
<1> QED BY <1>3, <1>4 DEF StepOf, Serve, Answers

\* An answering step refuses only who is not let in.
LEMMA AnswersRefuse ==
    ASSUME BaseInv, RefusedInv, NEW c \in Conns, Answers(c), Says401(conn[c])'
    PROVE  conn[c].at # "none" /\ conn'[c].req = conn[c].req /\ conn'[c].got = conn[c].got
           /\ cfg' = cfg /\ ~Authorized(conn[c])
<1> DEFINE e == conn[c]
<1>1. e \in Record /\ Answering(e) /\ e.w \in Writer
    BY DEF BaseInv, Sound, Record
<1>2. e.at \notin {"none", "closed"}
    BY DEF Answers, NoRequestLine, RefuseRequest, Unauthorized, InvalidBody, Act, Tell, NotFound,
           BadRequest, Respond, HandlerReturns, FlushAndClose, Panic, WriteFails, RefusalFails,
           FlushFails
<1>3. Unsent(e) /\ e.w.out = <<>> /\ e.w.flushed = FALSE
    BY <1>1, <1>2, WriterFields DEF Answering, Unsent
<1>4. ASSUME NEW r, Step(c, r)
      PROVE  conn'[c] = r /\ cfg' = cfg /\ Says401(r)
  <2>1. conn'[c] = r /\ cfg' = cfg
      BY <1>4 DEF Step, BaseInv
  <2> QED BY <2>1
<1>5. Says401(e) => ~Authorized(e)
    BY <1>2 DEF RefusedInv
<1>6. CASE NoRequestLine(c) \/ RefusalFails(c)
  <2>1. PICK r : r = [e EXCEPT !.at = "closed"]
      OBVIOUS
  <2>2. r.req = e.req /\ r.got = e.got /\ r.w = e.w /\ r.todo = e.todo
    <3> HIDE DEF e
    <3> QED BY <1>1, <2>1 DEF Record
  <2>3. Step(c, r)
      BY <1>6, <2>1 DEF NoRequestLine, RefusalFails
  <2> QED BY <1>2, <1>4, <1>5, <2>2, <2>3 DEF Says401
<1>7. CASE HandlerReturns(c)
  <2>1. PICK r : r = [e EXCEPT !.at = "flush"]
      OBVIOUS
  <2>2. r.req = e.req /\ r.got = e.got /\ r.w = e.w /\ r.todo = e.todo
    <3> HIDE DEF e
    <3> QED BY <1>1, <2>1 DEF Record
  <2>3. Step(c, r)
      BY <1>7, <2>1 DEF HandlerReturns
  <2> QED BY <1>2, <1>4, <1>5, <2>2, <2>3 DEF Says401
<1>8. CASE RefuseRequest(c)
  <2>1. PICK w : w = [e.w EXCEPT !.out = Append(@, [status |-> 400, length |-> NoLength])]
      OBVIOUS
  <2>2. PICK r : r = [e EXCEPT !.at = "closed", !.w = w]
      OBVIOUS
  <2>3. r.w = w /\ r.todo = e.todo
    <3> HIDE DEF e
    <3> QED BY <1>1, <2>2 DEF Record
  <2>4. Step(c, r)
      BY <1>8, <2>1, <2>2 DEF RefuseRequest
  <2>5. w.out = Append(<<>>, [status |-> 400, length |-> NoLength]) /\ w.status = e.w.status
    <3> HIDE DEF e
    <3> QED BY <1>1, <1>3, <2>1 DEF Writer
  <2>6. e.w.status = 0 /\ e.todo = <<>>
      BY <1>1, <1>8 DEF RefuseRequest, Answering, Untouched, NewWriter
  <2>7. ~Says401(r)
      BY <2>3, <2>5, <2>6 DEF Says401
  <2> QED BY <1>4, <2>4, <2>7
<1>9. CASE Panic(c)
  <2>1. PICK w : w = Recover(e.w)
      OBVIOUS
  <2>2. PICK r : r = [e EXCEPT !.at = "flush", !.panicked = TRUE, !.todo = <<>>, !.w = w]
      OBVIOUS
  <2>3. r.w = w /\ r.todo = <<>>
    <3> HIDE DEF e
    <3> QED BY <1>1, <2>2 DEF Record
  <2>4. Step(c, r)
      BY <1>9, <2>1, <2>2 DEF Panic
  <2>5. w.status = 500 /\ w.out = <<>>
      BY <1>1, <1>3, <2>1, Recovered
  <2>6. ~Says401(r)
      BY <2>3, <2>5 DEF Says401
  <2> QED BY <1>4, <2>4, <2>6
<1>10. CASE FlushAndClose(c)
  <2>1. PICK w : w = Flush(e.w)
      OBVIOUS
  <2>2. PICK r : r = [e EXCEPT !.at = "closed", !.w = w]
      OBVIOUS
  <2>3. r.req = e.req /\ r.got = e.got /\ r.w = w /\ r.todo = e.todo
    <3> HIDE DEF e
    <3> QED BY <1>1, <2>2 DEF Record
  <2>4. Step(c, r)
      BY <1>10, <2>1, <2>2 DEF FlushAndClose
  <2>5. e.w.status # 0
      BY <1>1, <1>10 DEF FlushAndClose, Answering, Tells
  <2>6. w.status = e.w.status /\ Len(w.out) = 1 /\ w.out[1].status = e.w.status /\ w \in Writer
      BY <1>1, <1>3, <2>1, <2>5, Flushed
  <2>7. \A i \in DOMAIN w.out : i = 1
      BY <2>6, WriterFields DEF Outs
  <2>8. Says401(r) => Says401(e)
      BY <2>3, <2>6, <2>7 DEF Says401
  <2> QED BY <1>2, <1>4, <1>5, <2>3, <2>4, <2>8
<1>11. CASE FlushFails(c)
  <2>1. PICK w : w = [Flush(e.w) EXCEPT !.out = e.w.out]
      OBVIOUS
  <2>2. PICK r : r = [e EXCEPT !.at = "closed", !.w = w]
      OBVIOUS
  <2>3. r.req = e.req /\ r.got = e.got /\ r.w = w /\ r.todo = e.todo
    <3> HIDE DEF e
    <3> QED BY <1>1, <2>2 DEF Record
  <2>4. Step(c, r)
      BY <1>11, <2>1, <2>2 DEF FlushFails
  <2>5. e.w.status # 0
      BY <1>1, <1>11 DEF FlushFails, Answering, Tells
  <2>6. w.status = e.w.status /\ w.out = <<>>
      BY <1>1, <1>3, <2>1, <2>5, Unheard, ZenonT(40)
  <2>7. Says401(r) => Says401(e)
      BY <2>3, <2>6 DEF Says401
  <2> QED BY <1>2, <1>4, <1>5, <2>3, <2>4, <2>7
<1>12. CASE Respond(c)
  <2>1. PICK w : w = IF Head(e.todo) = Body THEN Write(e.w) ELSE WriteHeader(e.w, Head(e.todo))
      OBVIOUS
  <2>2. PICK r : r = [e EXCEPT !.todo = Tail(e.todo), !.w = w]
      OBVIOUS
  <2>3. r.req = e.req /\ r.got = e.got /\ r.w = w /\ r.todo = Tail(e.todo)
    <3> HIDE DEF e
    <3> QED BY <1>1, <2>2 DEF Record
  <2>4. Step(c, r) /\ Responding(e) /\ e.todo # <<>>
      BY <1>1, <1>12, <2>1, <2>2 DEF Respond, Answering
  <2>5. /\ w.out = <<>> /\ Tail(e.todo) \in {<<>>, <<Body>>}
        /\ w.status = e.w.status \/ w.status = Head(e.todo)
      BY <1>1, <1>3, <2>1, <2>4, NextWrite
  <2>6. e.todo[1] = Head(e.todo)
      BY <1>1, <2>4 DEF Record
  <2>7. r.todo # <<>> => r.todo[1] = 0
    <3>1. r.todo = <<>> \/ r.todo = <<0>>
        BY <2>3, <2>5 DEF Body
    <3>2. <<0>>[1] = 0
        OBVIOUS
    <3> QED BY <3>1, <3>2, Zenon
  <2>8. Says401(r) => w.status = 401
      BY <2>3, <2>5, <2>7, SMTT(20) DEF Says401
  <2>9. w.status = 401 => Says401(e)
      BY <2>4, <2>5, <2>6 DEF Says401
  <2> QED BY <1>2, <1>4, <1>5, <2>3, <2>4, <2>8, <2>9
<1>13. CASE \/ Unauthorized(c) \/ InvalidBody(c) \/ Act(c) \/ Tell(c)
            \/ NotFound(c) \/ BadRequest(c)
  <2>1. PICK code \in Codes : \E todo \in Todos(code) : \E acted \in BOOLEAN :
            Decides(e, code, acted) /\ Step(c, Decided(e, todo, acted))
      BY <1>13, Decision
  <2>2. PICK todo \in Todos(code) : \E acted \in BOOLEAN :
            Decides(e, code, acted) /\ Step(c, Decided(e, todo, acted))
      BY <2>1
  <2>3. PICK acted \in BOOLEAN : Decides(e, code, acted) /\ Step(c, Decided(e, todo, acted))
      BY <2>2
  <2>4. PICK r : r = Decided(e, todo, acted)
      OBVIOUS
  <2>5. r.req = e.req /\ r.got = e.got /\ r.w = e.w /\ r.todo = todo
    <3> HIDE DEF e
    <3> QED BY <1>1, <2>4 DEF Record, Decided
  <2>6. e.w.status = 0
      BY <1>13, BeforeHandler DEF Unauthorized, InvalidBody, Act, Tell, NotFound, BadRequest
  <2>7. todo[1] = code
      BY DEF Todos, Error
  <2>8. Says401(r) => code = 401
      BY <1>3, <2>5, <2>6, <2>7 DEF Says401
  <2>9. code = 401 => ~Authorized(e)
    <3>1. CASE acted = TRUE
      <4>1. code \in {200, 201}
          BY <2>3, <3>1, Zenon DEF Decides
      <4> QED BY <4>1
    <3>2. CASE acted # TRUE
        BY <2>3, <3>2, Zenon DEF Decides
    <3> QED BY <3>1, <3>2
  <2> QED BY <1>2, <1>4, <2>3, <2>4, <2>5, <2>8, <2>9
<1> QED BY <1>6, <1>7, <1>8, <1>9, <1>10, <1>12, <1>13, <1>11 DEF Answers, WriteFails

\* No step refuses whom it lets in.
LEMMA EveryStepRefuses ==
    ASSUME BaseInv, RefusedInv, [Next]_vars
    PROVE  RefusedInv'
<1>1. \A c \in Conns : Says401(conn[c])' => conn'[c].at \in {"respond", "flush", "closed"}
  <2>1. BaseInv'
      BY EveryStep
  <2>2. (BaseInv => \A c \in Conns :
            Says401(conn[c]) => conn[c].at \in {"respond", "flush", "closed"})'
      BY NotYetRefused, PTL
  <2> QED BY <2>1, <2>2
<1>2. SUFFICES ASSUME NEW c \in Conns, conn'[c].at # "none", Says401(conn[c])'
               PROVE  ~Authorized(conn[c])'
    BY DEF RefusedInv
<1>3. CASE conn'[c] = conn[c]
  <2>1. conn[c].at # "none" /\ Says401(conn[c])
      BY <1>2, <1>3 DEF Says401
  <2>2. cfg' = cfg
    <3>1. cfg = Load(given)
        BY <2>1 DEF BaseInv, Started
    <3>2. CASE LoadConfig
        BY <3>1, <3>2 DEF LoadConfig
    <3>3. CASE ~LoadConfig
      <4>1. CASE UNCHANGED vars
          BY <4>1 DEF vars
      <4>2. CASE \E d \in Conns : StepOf(d)
          BY <4>2, OneConnection DEF Step
      <4>3. CASE AcceptFails \/ Main \/ Signal
          BY <3>3, <4>3 DEF AcceptFails, Main, Listen, StartFails, Notify, ServerError,
                            CloseListener, Exit, Signal, Configuration
      <4> QED BY <4>1, <4>2, <4>3 DEF Next, StepOf
    <3> QED BY <3>2, <3>3
  <2>3. ~Authorized(conn[c])
      BY <2>1 DEF RefusedInv
  <2> QED BY <1>3, <2>2, <2>3 DEF Authorized
<1>4. CASE conn'[c] # conn[c]
  <2>1. CASE \E d \in Conns : StepOf(d)
    <3>1. PICK d \in Conns : StepOf(d)
        BY <2>1
    <3>2. \E r : Step(d, r)
        BY <3>1, OneConnection
    <3>3. d = c
        BY <1>4, <3>2 DEF Step, BaseInv
    <3>4. Answers(c)
        BY <1>1, <1>2, <3>1, <3>3, OnlyAnswers
    <3>5. /\ conn'[c].req = conn[c].req /\ conn'[c].got = conn[c].got
          /\ cfg' = cfg /\ ~Authorized(conn[c])
        BY <1>2, <3>4, AnswersRefuse
    <3> QED BY <3>5 DEF Authorized
  <2>2. CASE UNCHANGED vars
      BY <1>4, <2>2 DEF vars
  <2>3. CASE AcceptFails \/ Main \/ Signal
    <3>1. CloseListener /\ conn[c].at = "backlog" /\ conn'[c] = [conn[c] EXCEPT !.at = "closed"]
        BY <1>4, <2>3 DEF AcceptFails, Main, LoadConfig, Listen, StartFails, Notify, ServerError,
                          CloseListener, Exit, Signal
    <3>2. conn[c] \in Record /\ Untouched(conn[c]) /\ Unsent(conn[c])
        BY <3>1 DEF BaseInv, Sound, Answering
    <3>3. conn'[c].w = conn[c].w /\ conn'[c].todo = conn[c].todo
        BY <3>1, <3>2 DEF Record
    <3>4. ~Says401(conn[c])
        BY <3>2, UntouchedSays
    <3> QED BY <1>2, <3>3, <3>4 DEF Says401
  <2> QED BY <2>1, <2>2, <2>3 DEF Next, StepOf
<1> QED BY <1>3, <1>4

\* If the operator asked for authentication, nobody acts but a client that
\* the source in force lists, with the key listed there.
THEOREM OnlyListed == Spec => []OnlyListedActs
<1>1. BaseInv => OnlyListedActs
  <2> SUFFICES ASSUME BaseInv, NEW c \in Conns, conn[c].acted, AuthAsked(given)
               PROVE  Listed(given, conn[c].req.cred)
      BY DEF OnlyListedActs
  <2> DEFINE r == conn[c]
  <2>1. Sound(r) /\ Entitled(r) /\ Started /\ r \in Record
      BY DEF BaseInv, Sound
  <2>2. r.at # "none"
      BY <2>1 DEF Sound, Answering, Untouched
  <2>3. cfg = Load(given) /\ WellTyped(given) /\ Bad \notin BOOLEAN
      BY <2>1, <2>2, SourcesAssumption DEF Started
  <2>4. cfg.enabled = TRUE
      BY <2>3, AskedIsLoaded
  <2>5. BasicAuth(Load(given).clients, r.req.cred)
      BY <2>1, <2>3, <2>4 DEF Entitled, Authorized
  <2>6. r.req.cred \in Seq(STRING)
      BY <2>1, LegacyAssumption DEF Record, Request
  <2> QED BY <2>3, <2>5, <2>6, AcceptedIsListed
<1> QED BY <1>1, Base, PTL

\* A client that is listed, and sends its credentials, is not refused for
\* want of them, unless a name of the file has a colon.
THEOREM ListedServed == Spec => []ListedNotRefused
<1>1. Init => RefusedInv
    BY DEF Init, RefusedInv
<1>2. BaseInv /\ RefusedInv /\ [Next]_vars => RefusedInv'
    BY EveryStepRefuses
<1>3. BaseInv /\ RefusedInv => ListedNotRefused
  <2> SUFFICES ASSUME BaseInv, RefusedInv, NEW c \in Conns, NEW i \in DOMAIN conn[c].w.out,
                      Listed(given, conn[c].req.cred), "auth" \in conn[c].got,
                      \A name \in DOMAIN cfg.clients : Len(name) = 1,
                      conn[c].w.out[i].status = 401
               PROVE  FALSE
      BY DEF ListedNotRefused
  <2> DEFINE r == conn[c]
  <2>1. Sound(r) /\ Started /\ r \in Record /\ Says401(r)
      BY DEF BaseInv, Sound, Says401
  <2>2. r.at # "none"
      BY <2>1, NotYetRefused
  <2>3. cfg = Load(given) /\ WellTyped(given) /\ ~Authorized(r)
      BY <2>1, <2>2, SourcesAssumption DEF Started, RefusedInv
  <2>4. r.req.cred \in Seq(STRING)
    <3>1. r.req \in Requests
        BY <2>1 DEF Record
    <3>2. \A req \in Request : req.cred \in Seq(STRING)
        BY DEF Request
    <3> QED BY <3>1, <3>2, LegacyAssumption
  <2>5. BasicAuth(cfg.clients, r.req.cred)
      BY <2>3, <2>4, ListedIsAccepted
  <2> QED BY <2>3, <2>5 DEF Authorized
<1> QED BY <1>1, <1>2, <1>3, Base, PTL DEF Spec
=============================================================================
