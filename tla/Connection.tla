----------------------------- MODULE Connection -----------------------------
(***************************************************************************)
(* One connection from accept to close (src/server.py): the TLS handshake  *)
(* or the START-TLS offer, the hand-over after the negotiation, the Query  *)
(* and the reply mode of a basic terminal, and then either the line-mode   *)
(* (NVT) session or the records of the 3270 session, cut by TCP anywhere.  *)
(*                                                                         *)
(* Negotiation and HostSession model what happens inside the negotiation   *)
(* and inside a TN3270E session; here the negotiation is one step and the  *)
(* application sends a screen and reads one record, for ever.              *)
(*                                                                         *)
(* A byte is named by a string.  A recv takes any prefix of what the       *)
(* client has sent, and a timeout may fire while an answer is on its way.  *)
(***************************************************************************)
EXTENDS Naturals, Sequences, FiniteSets, SequencesExt

CONSTANTS
  Byte,           \* the bytes, by name
  Arrivals,       \* who may connect: <<how the server was started, client>>
  ScanLimit,      \* the 64 of _client_accepts_starttls and _drain_subneg
  AddressableCells, \* MAX_ADDRESSABLE_CELLS
  Keyed           \* bound: the records the user sends on one connection, in order

ASSUME LimitAssumption == ScanLimit \in Nat \ {0} /\ AddressableCells \in Nat

\* A record has an AID at least.
ASSUME KeyedAssumption ==
  Keyed \in Seq(Seq(Byte)) /\ \A n \in DOMAIN Keyed : Keyed[n] # <<>>

\* How a server is started, and what a client brings.  Nothing it says in the
\* clear before its TLS hello looks like the hello (a ClientHello begins with
\* byte 22, which is neither Telnet nor typed).
ASSUME ArrivalAssumption ==
  \A arrival \in Arrivals :
    /\ arrival = <<arrival[1], arrival[2]>>
    /\ arrival[1] \in {"plain", "implicit", "starttls"}
    /\ LET c == arrival[2]
       IN /\ c.tls \in {"will", "wont", "silent"}
          /\ c.extended \in BOOLEAN /\ c.colour \in BOOLEAN
          /\ c.before \in Seq(Byte \ {"hello1"})
          /\ c.lines \in Seq([bytes : Seq(Byte \ {"hello1"}), command : Seq(Byte)])

VARIABLES
  client,       \* which client this is
  secure,       \* "plain", "implicit" or "starttls": how the server was started
  at,           \* where the client's thread is
  tel, left, drained, \* the START-TLS scan, and the bytes its loops have left
  encrypted,    \* do the records go through TLS?
  up,           \* bytes the client sent and the server has not received
  rx,           \* bytes received and not consumed by a reader
  down,         \* messages on their way to the client
  model,        \* the TerminalModel's discovered part
  asked,        \* history: how the query ended
  taken,        \* history: the records readers returned
  torn,         \* history: did the server drop a part of what it had received?
  answers,      \* history: line-mode commands answered
  tls,          \* the client's side: "no", "offered", "hello"
  sent,         \* the records the client sent
  keyboard,     \* may the user type?
  keys,         \* records the user sent
  mode,         \* the reply mode the terminal is in
  open          \* has the client not hung up?

scanVars == <<tel, left, drained>>
histVars == <<asked, taken, torn, answers>>
clientVars == <<client, tls, sent, keyboard, keys, mode, open>>
vars == <<secure, at, scanVars, encrypted, up, rx, down, model, histVars, clientVars>>

Verbs == {"WILL", "WONT", "DO", "DONT"}
Hello == <<"hello1", "hello2">>
Follows == <<"IAC", "SB", "STARTTLS", "FOLLOWS", "IAC", "SE">>
QueryReply == <<"sf", "fields">>

Serving == {"query", "replymode", "show", "read", "nvt"}

ASSUME ByteAssumption ==
  {"IAC", "EOR", "SB", "SE", "STARTTLS", "FOLLOWS", "CR", "LF", "NUL", "data", "sf", "fields",
   "hello1", "hello2"} \cup Verbs \subseteq Byte

\* What TLS carries or TCP delivers: every recv returns a prefix of it.
Cuts(s) == {<<SubSeq(s, 1, k), SubSeq(s, k + 1, Len(s))>> : k \in 1..Len(s)}

\* What reading the bytes one by one makes of a state in S.
Read(S, Step(_, _), first, bytes) ==
  LET read[more \in Seq(Byte)] ==
        [s \in S |-> IF more = <<>> THEN s ELSE read[Tail(more)][Step(s, Head(more))]]
  IN read[bytes][first]

----------------------------------------------------------------------------
(* Telnet framing *)

\* Faulty: a doubled FF stays doubled in read_record as well.
TelnetByteEscaped(e, s, b) ==
  IF s.kind # "more" THEN [s EXCEPT !.rest = Append(@, b)] ELSE
  CASE s.pend = <<>> /\ b # "IAC" -> [s EXCEPT !.out = Append(@, b)]
    [] s.pend = <<>> /\ b = "IAC" -> [s EXCEPT !.pend = <<b>>]
    [] s.pend = <<"IAC">> /\ b = "EOR" -> [s EXCEPT !.kind = "record", !.pend = <<>>]
    [] s.pend = <<"IAC">> /\ b = "IAC" -> [s EXCEPT !.out = @ \o <<b, b>>, !.pend = <<>>]
    [] s.pend = <<"IAC">> /\ b \in Verbs -> [s EXCEPT !.pend = Append(@, b)]
    [] s.pend = <<"IAC">> /\ e /\ b = "SB" -> [s EXCEPT !.pend = Append(@, b)]
    [] s.pend = <<"IAC">> /\ b \notin {"EOR", "IAC"} \cup Verbs /\ ~(e /\ b = "SB") ->
         [s EXCEPT !.pend = <<>>, !.kind = IF e THEN "cmd" ELSE @]
    [] Len(s.pend) > 1 /\ s.pend[2] = "SB" /\ ~(b = "SE" /\ Last(s.pend) = "IAC") ->
         [s EXCEPT !.pend = Append(@, b)]
    [] OTHER -> [s EXCEPT !.pend = <<>>]

\* One byte of a stream seen by read_record (~e) or by _next_unit (e): the
\* record's bytes so far, and the sequence that is not complete yet.  On
\* TN3270E a doubled FF stays doubled, a sub-negotiation is skipped, and a
\* standalone command takes the bytes before it along.
TelnetByte(e, s, b) ==
  IF s.kind # "more" THEN [s EXCEPT !.rest = Append(@, b)] ELSE
  CASE s.pend = <<>> /\ b # "IAC" -> [s EXCEPT !.out = Append(@, b)]
    [] s.pend = <<>> /\ b = "IAC" -> [s EXCEPT !.pend = <<b>>]
    [] s.pend = <<"IAC">> /\ b = "EOR" -> [s EXCEPT !.kind = "record", !.pend = <<>>]
    [] s.pend = <<"IAC">> /\ b = "IAC" ->
         [s EXCEPT !.out = @ \o (IF e THEN <<b, b>> ELSE <<b>>), !.pend = <<>>]
    [] s.pend = <<"IAC">> /\ b \in Verbs -> [s EXCEPT !.pend = Append(@, b)]
    [] s.pend = <<"IAC">> /\ e /\ b = "SB" -> [s EXCEPT !.pend = Append(@, b)]
    [] s.pend = <<"IAC">> /\ b \notin {"EOR", "IAC"} \cup Verbs /\ ~(e /\ b = "SB") ->
         [s EXCEPT !.pend = <<>>, !.kind = IF e THEN "cmd" ELSE @]
    [] Len(s.pend) > 1 /\ s.pend[2] = "SB" /\ ~(b = "SE" /\ Last(s.pend) = "IAC") ->
         [s EXCEPT !.pend = Append(@, b)]
    [] OTHER -> [s EXCEPT !.pend = <<>>]

Fresh == [kind |-> "more", out |-> <<>>, pend |-> <<>>, rest |-> <<>>]

Frames == [kind : {"more", "record", "cmd"}, out : Seq(Byte), pend : Seq(Byte), rest : Seq(Byte)]
Frame(e, bytes) == Read(Frames, LAMBDA s, b : TelnetByte(e, s, b), Fresh, bytes)

\* What _next_unit leaves in its buffer when it needs more bytes: an option
\* triplet is spliced out even if its third byte has not arrived.
KeptIncomplete(s) == s.out \o (IF s.pend # <<>> /\ Last(s.pend) \in Verbs THEN <<>> ELSE s.pend)

\* _strip_nvt: a line without Telnet commands, CR and NUL.
NvtByte(s, b) ==
  CASE s.skip > 0 -> [s EXCEPT !.skip = IF s.iac /\ b \in Verbs THEN 1 ELSE @ - 1, !.iac = FALSE]
    [] s.skip = 0 /\ b = "IAC" -> [s EXCEPT !.skip = 1, !.iac = TRUE]
    [] s.skip = 0 /\ b \in {"CR", "NUL"} -> s
    [] OTHER -> [s EXCEPT !.out = Append(@, b)]

Unread == [out |-> <<>>, skip |-> 0, iac |-> FALSE]

StripNvt(raw) ==
  Read([out : Seq(Byte), skip : 0 .. 2, iac : BOOLEAN], NvtByte, Unread, raw).out

----------------------------------------------------------------------------
(* The discovered model *)

\* parse_terminal_type, query_terminal and parse_query_reply.  A client's
\* "fields" are its Query Reply structured fields in order: what one
\* advertises, or "malformed", which ends the parse.
NoModel == [extended |-> FALSE, color |-> FALSE, caps |-> {}, cells |-> 0,
            charsets |-> {}, mode |-> "field"]

ParseTerminalType(c) ==
  [NoModel EXCEPT !.extended = c.extended, !.color = c.colour \/ c.extended]

WellFormed(fields) ==
  LET bad == {n \in DOMAIN fields : fields[n].code = "malformed"}
  IN {n \in DOMAIN fields : \A m \in bad : n < m}

ParseQueryReply(record, fields) ==
  LET seen == IF record = QueryReply THEN WellFormed(fields) ELSE {}
      areas == {n \in seen : fields[n].code = "area"}
      last == CHOOSE n \in areas : \A m \in areas : m <= n
  IN [codes |-> {fields[n].code : n \in seen} \cup UNION {fields[n].lists : n \in seen},
      cells |-> IF areas = {} THEN 0 ELSE fields[last].cells,
      charsets |-> UNION {fields[n].sets : n \in seen}]

\* Faulty: any size the terminal reports is used.
FoldReplyAnySize(m, caps) ==
  [m EXCEPT !.caps = caps.codes, !.color = "color" \in caps.codes, !.cells = caps.cells]

\* The reply decides colour, and the size if all its cells can be addressed.
FoldReply(m, caps) ==
  [m EXCEPT !.caps = caps.codes,
            !.color = "color" \in caps.codes,
            !.cells = IF caps.cells \in 1..AddressableCells THEN caps.cells ELSE @,
            !.charsets = IF caps.charsets # {} THEN caps.charsets ELSE @]

----------------------------------------------------------------------------
(* The server: TLS *)

Init ==
  /\ \E arrival \in Arrivals : secure = arrival[1] /\ client = arrival[2]
  /\ at = "start"
  /\ tel = "text" /\ left = ScanLimit /\ drained = 0
  /\ encrypted = FALSE
  /\ up = <<>> /\ rx = <<>> /\ down = <<>>
  /\ model = NoModel
  /\ asked = "no" /\ taken = <<>> /\ torn = FALSE /\ answers = <<>>
  /\ tls = "no" /\ sent = <<>> /\ keyboard = TRUE /\ keys = 0 /\ mode = "field"
  /\ open = TRUE

\* _client_thread: no TLS, a handshake at once, or the START-TLS offer.
Start ==
  /\ at = "start"
  /\ at' = CASE secure = "plain" -> "negotiate"
             [] secure = "implicit" -> "handshake"
             [] OTHER -> "offered"
  /\ down' = IF secure = "starttls" THEN Append(down, "DO STARTTLS") ELSE down
  /\ UNCHANGED <<secure, scanVars, encrypted, up, rx, model, histVars, clientVars>>

\* Faulty: WILL is enough, the FOLLOWS behind it is left unread.
ScanByteNoDrain(s, b) ==
  CASE s.tel = "text" -> [s EXCEPT !.tel = IF b = "IAC" THEN "cmd" ELSE @, !.left = @ - 1]
    [] s.tel = "cmd" -> [s EXCEPT !.tel = IF b \in Verbs THEN b ELSE "text"]
    [] OTHER -> [s EXCEPT !.tel = CASE b # "STARTTLS" -> "text"
                                    [] b = "STARTTLS" /\ s.tel = "WILL" -> "accepted"
                                    [] OTHER -> "refused"]

\* One byte of _client_accepts_starttls and _drain_subneg: "skip" drains
\* another option's sub-negotiation, "drain" the client's FOLLOWS.  Each turn
\* of the outer loop costs one of "left", each drained byte one of "drained".
ScanByte(s, b) ==
  CASE s.tel = "text" ->
         [s EXCEPT !.tel = IF b = "IAC" THEN "cmd" ELSE @, !.left = @ - 1]
    [] s.tel = "cmd" ->
         [s EXCEPT !.tel = IF b \in Verbs THEN b ELSE IF b = "SB" THEN "skip" ELSE "text",
                   !.drained = ScanLimit]
    [] s.tel \in Verbs ->
         [s EXCEPT !.tel = CASE b # "STARTTLS" -> "text"
                             [] b = "STARTTLS" /\ s.tel = "WILL" -> "drain"
                             [] OTHER -> "refused"]
    [] s.tel \in {"skipIac", "drainIac"} /\ b = "SE" ->
         [s EXCEPT !.tel = IF s.tel = "skipIac" THEN "text" ELSE "accepted"]
    [] OTHER ->
         [s EXCEPT !.tel = IF @ \in {"skip", "skipIac"}
                           THEN IF b = "IAC" THEN "skipIac" ELSE "skip"
                           ELSE IF b = "IAC" THEN "drainIac" ELSE "drain",
                   !.drained = @ - 1]

\* The loops give up when they have used their bytes.
Decided(s) ==
  CASE s.tel \in {"skip", "skipIac"} /\ s.drained = 0 -> [s EXCEPT !.tel = "text"]
    [] s.tel \in {"drain", "drainIac"} /\ s.drained = 0 -> [s EXCEPT !.tel = "accepted"]
    [] OTHER -> s

ScanStarttls ==
  /\ at = "offered" /\ up # <<>>
  /\ LET s == Decided(ScanByte([tel |-> tel, left |-> left, drained |-> drained], Head(up)))
         gaveUp == s.tel = "text" /\ s.left = 0
     IN /\ tel' = s.tel /\ left' = s.left /\ drained' = s.drained
        /\ at' = CASE s.tel = "accepted" -> "handshake"
                   [] s.tel = "refused" \/ gaveUp -> "negotiate"
                   [] OTHER -> at
        /\ down' = IF s.tel = "accepted" THEN Append(down, "FOLLOWS") ELSE down
  /\ up' = Tail(up)
  /\ torn' = (torn \/ (tel = "text" /\ Head(up) # "IAC") \/ (tel' = "text" /\ drained' = 0 /\ drained > 0))
  /\ UNCHANGED <<secure, encrypted, rx, model, asked, taken, answers, clientVars>>

\* wrap_socket: the handshake reads the hello, or something it cannot be.
Handshake ==
  /\ at = "handshake" /\ up # <<>>
  /\ IF IsPrefix(Hello, up)
       THEN /\ at' = "negotiate" /\ encrypted' = TRUE
            /\ up' = SubSeq(up, Len(Hello) + 1, Len(up))
       ELSE /\ ~IsPrefix(up, Hello)
            /\ at' = "closed" /\ UNCHANGED <<encrypted, up>>
  /\ UNCHANGED <<secure, scanVars, rx, down, model, histVars, clientVars>>

----------------------------------------------------------------------------
(* The server: after the negotiation *)

\* Where tn3270_negotiate's scan of what it has received stands: between two
\* commands ("text"), behind an IAC, behind a verb, in a sub-negotiation,
\* behind an IAC of one, or behind the first byte that is no command ("data").
Marks == {"text", "cmd", "verb", "skip", "skipIac", "data"}

MarkByte(m, b) ==
  CASE m = "text" -> IF b = "IAC" THEN "cmd" ELSE "data"
    [] m = "cmd" -> IF b \in Verbs THEN "verb" ELSE IF b = "SB" THEN "skip" ELSE "text"
    [] m = "verb" -> "text"
    [] m = "skip" -> IF b = "IAC" THEN "skipIac" ELSE "skip"
    [] m = "skipIac" -> IF b = "SE" THEN "text" ELSE IF b = "IAC" THEN "skipIac" ELSE "skip"
    [] m = "data" -> "data"

\* A whole command is done with; "kept" is a command that is not complete, or
\* what was typed and all that came behind it.
NegotiationByte(s, b) ==
  LET m == MarkByte(s.mark, b)
  IN [mark |-> m, kept |-> IF m = "text" THEN <<>> ELSE Append(s.kept, b)]

Scanned(bytes) ==
  Read([mark : Marks, kept : Seq(Byte)], NegotiationByte, [mark |-> "text", kept |-> <<>>], bytes)

\* What _next_unit makes a record of: not the commands with no data ahead.
PlainByte(s, b) ==
  LET f == TelnetByte(TRUE, s.frame, b)
  IN IF f = Fresh \/ (f.kind = "cmd" /\ f.out = <<>>)
     THEN [frame |-> Fresh, kept |-> <<>>]
     ELSE [frame |-> f, kept |-> Append(s.kept, b)]

Plain(bytes) ==
  Read([frame : Frames, kept : Seq(Byte)], PlainByte, [frame |-> Fresh, kept |-> <<>>], bytes).kept

\* What a client brings that the readers rely on: every Telnet command is whole
\* and none is a START-TLS answer; a basic terminal sends no sub-negotiation
\* between its records, nor a line-mode client between its lines (read_record
\* and _strip_nvt take its body for data); and a line's command is its text.
ASSUME TalkAssumption ==
  \A arrival \in Arrivals :
    LET c == arrival[2]
    IN /\ c.noise \in Seq(Byte)
       /\ c.link = "basic" => Frame(FALSE, c.noise) = Fresh
       /\ c.link = "tn3270e" => Plain(c.noise) = <<>>
       /\ Scanned(c.before).mark = "text"
       /\ "STARTTLS" \notin ToSet(c.before)
       /\ c.link = "nvt" => "SB" \notin ToSet(c.before)
       /\ \A n \in DOMAIN c.lines :
            /\ {"LF", "SB", "STARTTLS"} \cap ToSet(c.lines[n].bytes) = {}
            /\ StripNvt(c.lines[n].bytes) = c.lines[n].command

\* handle_client: tn3270_negotiate settled, with a client that has read the
\* offer before it and does not wait for our FOLLOWS.  A client that refuses
\* BINARY, or a byte that is no Telnet command, makes line mode: what has been
\* received from that byte on is handed over, but a command of which only a
\* part has been received is lost with the buffer.  A terminal's last answer
\* comes behind all it said before.
Negotiate ==
  /\ at = "negotiate" /\ down = <<>> /\ tls # "offered"
  /\ \E c \in Cuts(up) \cup {<<<<>>, up>>} :
       LET s == Scanned(c[1])
       IN /\ up' = c[2]
          /\ torn' = (torn \/ s.mark \notin {"text", "data"})
          /\ IF client.link = "nvt" \/ s.mark = "data"
               THEN /\ rx' = IF s.mark = "data" THEN s.kept ELSE <<>>
                    /\ at' = "nvt" /\ model' = NoModel
               ELSE /\ c[2] = <<>> /\ rx' = <<>>
                    /\ at' = IF client.extended /\ client.link = "basic" THEN "query" ELSE "show"
                    /\ model' = ParseTerminalType(client)
  /\ down' = IF at' = "query" THEN Append(down, "QUERY") ELSE down
  /\ UNCHANGED <<secure, scanVars, encrypted, asked, taken, answers, clientVars>>

\* read_record on a basic connection: a fresh buffer for every call, so what
\* follows the record in the same recv is dropped.
ReadRecord ==
  \E c \in Cuts(up) :
    LET f == Frame(FALSE, rx \o c[1])
    IN /\ up' = c[2]
       /\ IF f.kind = "record"
            THEN /\ rx' = <<>>
                 /\ torn' = (torn \/ f.rest # <<>>)
                 /\ taken' = Append(taken, f.out)
            ELSE /\ rx' = rx \o c[1]
                 /\ UNCHANGED <<taken, torn>>

\* query_terminal: whatever record comes is folded into the model.
Settle(record) ==
  /\ asked' = IF record = QueryReply THEN "reply" ELSE "other"
  /\ model' = FoldReply(model, ParseQueryReply(record, client.fields))
  /\ at' = "replymode"

ReadQueryReply ==
  /\ at = "query"
  /\ ReadRecord
  /\ IF taken' # taken THEN Settle(Last(taken')) ELSE UNCHANGED <<at, model, asked>>
  /\ UNCHANGED <<secure, scanVars, encrypted, down, answers, clientVars>>

\* Faulty: the mode is set whatever the terminal advertised.
RequestReplyModeAlways ==
  /\ at = "replymode" /\ at' = "show"
  /\ down' = Append(down, "SET MODE") /\ model' = [model EXCEPT !.mode = "character"]
  /\ UNCHANGED <<secure, scanVars, encrypted, up, rx, histVars, clientVars>>

\* request_reply_mode, and the session that starts after it.
RequestReplyMode ==
  /\ at = "replymode"
  /\ at' = "show"
  /\ IF "replymodes" \in model.caps
       THEN down' = Append(down, "SET MODE") /\ model' = [model EXCEPT !.mode = "character"]
       ELSE UNCHANGED <<down, model>>
  /\ UNCHANGED <<secure, scanVars, encrypted, up, rx, histVars, clientVars>>

\* SocketTransport: the application sends a screen and reads one reply.
Show ==
  /\ at = "show"
  /\ at' = "read"
  /\ down' = Append(down, "SCREEN")
  /\ UNCHANGED <<secure, scanVars, encrypted, up, rx, model, histVars, clientVars>>

ReadReply ==
  /\ at = "read" /\ client.link = "basic"
  /\ ReadRecord
  /\ at' = IF taken' # taken THEN "show" ELSE at
  /\ UNCHANGED <<secure, scanVars, encrypted, down, model, asked, answers, clientVars>>

\* read_client_input on TN3270E: _next_unit first looks at what it kept, then
\* receives; a standalone command is skipped, a record loses its header.
ReadUnit ==
  /\ at = "read" /\ client.link = "tn3270e"
  /\ \E c \in (IF Frame(TRUE, rx).kind = "more" THEN Cuts(up) ELSE {<<<<>>, up>>}) :
       LET f == Frame(TRUE, rx \o c[1])
       IN /\ up' = c[2]
          /\ rx' = IF f.kind = "more" THEN KeptIncomplete(f) ELSE f.rest
          /\ torn' = (torn \/ (f.kind = "more" /\ KeptIncomplete(f) # f.out \o f.pend)
                           \/ (f.kind = "cmd" /\ f.out # <<>>))
          /\ IF f.kind = "record" /\ f.out # <<>>
               THEN taken' = Append(taken, Tail(f.out)) /\ at' = "show"
               ELSE UNCHANGED <<taken, at>>
  /\ UNCHANGED <<secure, scanVars, encrypted, down, model, asked, answers, clientVars>>

\* Faulty: the rest of the buffer goes with the line.
ServeLineAlone ==
  /\ at = "nvt" /\ Contains(rx, "LF")
  /\ LET end == SelectInSeq(rx, LAMBDA b : b = "LF")
         cmd == StripNvt(SubSeq(rx, 1, end - 1))
     IN /\ rx' = <<>>
        /\ answers' = IF cmd = <<>> THEN answers ELSE Append(answers, cmd)
        /\ at' = IF cmd = <<"logoff">> THEN "closed" ELSE at
  /\ UNCHANGED <<secure, scanVars, encrypted, up, down, model, asked, taken, torn, clientVars>>

\* run_nvt_session: a line is answered and READY prompted again; a blank line
\* only prompts; LOGOFF ends the session.
ServeLine ==
  /\ at = "nvt" /\ Contains(rx, "LF")
  /\ LET end == SelectInSeq(rx, LAMBDA b : b = "LF")
         cmd == StripNvt(SubSeq(rx, 1, end - 1))
     IN /\ rx' = SubSeq(rx, end + 1, Len(rx))
        /\ answers' = IF cmd = <<>> THEN answers ELSE Append(answers, cmd)
        /\ at' = IF cmd = <<"logoff">> THEN "closed" ELSE at
  /\ UNCHANGED <<secure, scanVars, encrypted, up, down, model, asked, taken, torn, clientVars>>

ReceiveLine ==
  /\ at = "nvt" /\ ~Contains(rx, "LF")
  /\ \E c \in Cuts(up) : rx' = rx \o c[1] /\ up' = c[2]
  /\ UNCHANGED <<secure, at, scanVars, encrypted, down, model, histVars, clientVars>>

----------------------------------------------------------------------------
(* The server: timeouts and disconnects *)

\* Faulty: the negotiation's timeout is removed and no other is set.
TimedForgotten == {"offered", "negotiate", "query"}

\* Where a recv waits for a client that stays silent.  The handshake of an
\* implicit TLS connection is the one wait without a timeout.
Timed == {"offered", "negotiate", "query", "read", "nvt"} \cup
         (IF secure = "starttls" THEN {"handshake"} ELSE {})

\* Faulty: a handshake that fails goes on in the clear.
FailedFallsBack(how) ==
  /\ at' = CASE at \in {"offered", "handshake"} -> "negotiate"
             [] at = "query" -> "replymode"
             [] OTHER -> "closed"
  /\ UNCHANGED <<secure, scanVars, encrypted, up, rx, down, model, histVars, clientVars>>

\* The exceptions _offer_starttls and query_terminal catch; every other one
\* ends in _client_thread, which closes the socket.
Failed(how) ==
  /\ at' = CASE at = "offered" -> "negotiate"
             [] at = "query" -> "replymode"
             [] OTHER -> "closed"
  /\ asked' = IF at = "query" THEN how ELSE asked
  /\ torn' = (torn \/ (at = "query" /\ rx # <<>>) \/ (at = "offered" /\ tel # "text"))
  /\ rx' = <<>>
  /\ UNCHANGED <<secure, scanVars, encrypted, up, down, model, taken, answers, clientVars>>

Timeout ==
  /\ at \in Timed /\ ~(at = "nvt" /\ Contains(rx, "LF"))
  /\ Failed("timeout")

\* recv returned nothing or raised; the negotiation stops there and the
\* session finds out for itself.
Disconnected ==
  /\ ~open /\ at \notin {"start", "closed", "negotiate", "replymode"}
  /\ at = "nvt" => ~Contains(rx, "LF")
  /\ up = <<>> \/ at = "show"
  /\ Failed("eof")

NegotiationCut ==
  /\ ~open /\ at = "negotiate"
  /\ at' = "show" /\ up' = <<>>
  /\ UNCHANGED <<secure, scanVars, encrypted, rx, down, model, histVars, clientVars>>

Server ==
  \/ Start \/ ScanStarttls \/ Handshake \/ Negotiate
  \/ ReadQueryReply \/ RequestReplyMode \/ Show \/ ReadReply \/ ReadUnit
  \/ ServeLine \/ ReceiveLine \/ Disconnected \/ NegotiationCut

----------------------------------------------------------------------------
(* The client *)

Say(bytes) == up' = up \o bytes

\* FF inside a record is doubled on the wire.
Escaped(record) ==
  Read(Seq(Byte), LAMBDA s, b : s \o (IF b = "IAC" THEN <<b, b>> ELSE <<b>>), <<>>, record)

Reply(header, record) == Say(client.noise \o header \o Escaped(record) \o <<"IAC", "EOR">>)

Receive ==
  /\ open /\ down # <<>>
  /\ down' = Tail(down)
  /\ UNCHANGED <<client, keys, open, secure, at, scanVars, encrypted, rx, model, histVars>>
  /\ CASE Head(down) = "DO STARTTLS" ->
            /\ Say(client.before \o
                   (CASE client.tls = "will" -> <<"IAC", "WILL", "STARTTLS">> \o Follows
                      [] client.tls = "wont" -> <<"IAC", "WONT", "STARTTLS">>
                      [] OTHER -> <<>>))
            /\ tls' = IF client.tls = "will" THEN "offered" ELSE tls
            /\ UNCHANGED <<sent, keyboard, mode>>
       [] Head(down) = "FOLLOWS" ->
            /\ Say(Hello) /\ tls' = "hello" /\ UNCHANGED <<sent, keyboard, mode>>
       [] Head(down) = "QUERY" ->
            /\ IF client.fields # <<>>
                 THEN Reply(<<>>, QueryReply) /\ sent' = Append(sent, QueryReply)
                 ELSE UNCHANGED <<up, sent>>
            /\ UNCHANGED <<tls, keyboard, mode>>
       [] Head(down) = "SET MODE" -> mode' = "character" /\ UNCHANGED <<up, tls, sent, keyboard>>
       [] OTHER -> keyboard' = TRUE /\ UNCHANGED <<up, tls, sent, mode>>

\* A client of an implicit TLS port begins with its hello.
Connects ==
  /\ open /\ at = "handshake" /\ secure = "implicit" /\ tls = "no" /\ client.tls = "will"
  /\ Say(Hello) /\ tls' = "hello"
  /\ UNCHANGED <<secure, at, scanVars, encrypted, rx, down, model, histVars, client,
                 sent, keyboard, keys, mode, open>>

\* The user of a terminal presses a key whenever the keyboard allows it, also
\* before the first screen; the user of a line-mode client types a line.
Press ==
  /\ open /\ keys < Len(Keyed) /\ keyboard /\ at \in Serving \cup {"closed"}
  /\ client.link # "nvt"
  /\ LET record == Keyed[keys + 1]
     IN /\ Reply(IF client.link = "tn3270e" THEN <<"data">> ELSE <<>>, record)
        /\ sent' = Append(sent, record)
  /\ keys' = keys + 1 /\ keyboard' = FALSE
  /\ UNCHANGED <<secure, at, scanVars, encrypted, rx, down, model, histVars, client, tls,
                 mode, open>>

TypeLine ==
  /\ open /\ client.link = "nvt" /\ keys < Len(client.lines)
  /\ at # "start" /\ tls # "offered" /\ (at = "handshake" => client.tls # "will")
  /\ Say(client.lines[keys + 1].bytes \o <<"CR", "LF">>)
  /\ keys' = keys + 1
  /\ UNCHANGED <<secure, at, scanVars, encrypted, rx, down, model, histVars, client, tls, sent,
                 keyboard, mode, open>>

HangUp ==
  /\ open /\ open' = FALSE
  /\ UNCHANGED <<secure, at, scanVars, encrypted, up, rx, down, model, histVars, client, tls,
                 sent, keyboard, keys, mode>>

Next == Server \/ Timeout \/ Receive \/ Connects \/ Press \/ TypeLine \/ HangUp

\* The thread runs, timers expire; the client does as it likes.
Spec == Init /\ [][Next]_vars /\ WF_vars(Server) /\ WF_vars(Timeout)

----------------------------------------------------------------------------
(* Properties *)

Codes(c) == {c.fields[n].code : n \in DOMAIN c.fields} \cup
            UNION {c.fields[n].lists : n \in DOMAIN c.fields}

\* Every variable keeps its type; a size too large to be addressed is never
\* taken over from a Query Reply.
TypeOK ==
  /\ <<secure, client>> \in Arrivals
  /\ at \in Serving \cup {"start", "offered", "handshake", "negotiate", "closed"}
  /\ left \in 0..ScanLimit /\ drained \in 0..ScanLimit
  /\ {encrypted, torn, keyboard, open} \subseteq BOOLEAN
  /\ model.caps \subseteq Codes(client) /\ model.cells \in 0..AddressableCells
  /\ asked \in {"no", "reply", "other", "timeout", "eof"}
  /\ tls \in {"no", "offered", "hello"} /\ keys \in Nat
  /\ mode \in {"field", "character"}

\* Reading the plaintext replies one byte at a time never swallows a byte of
\* the TLS handshake (_offer_starttls), whatever the client interleaves and
\* wherever TCP cuts.
HandshakeIntact ==
  at = "handshake" /\ secure = "starttls" => IsPrefix(up, Hello)

\* A session is served over TLS exactly if the client has begun its side of
\* the handshake: after a refusal, a timeout or an offer given up both ends
\* are in the clear, and after an acceptance neither is.
TlsAgreed == at \in Serving => (encrypted <=> tls = "hello")

\* The readers return the records the client sent, each once, in order and
\* byte for byte, as long as none of them dropped bytes: read_record what
\* followed a record in its recv, a timeout half a record or half a START-TLS
\* reply, _next_unit two bytes of an option triplet that TCP cut.  With one
\* exception: on TN3270E an FF within a record comes out doubled.  _next_unit
\* steps over the two bytes and returns both, though its docstring says that
\* "IAC IAC is data", and nothing behind it undoubles them.
RecordsWhole ==
  ~torn =>
    /\ Len(taken) <= Len(sent)
    /\ \A n \in DOMAIN taken :
         taken[n] = sent[n] \/ (client.link = "tn3270e" /\ taken[n] = Escaped(sent[n]))

\* What the server believes of a terminal that answered the Query is what the
\* terminal said, and a reply mode is only set where it is supported; a size
\* or a character set is taken from a Query Reply only, and without an answer
\* the terminal type decides the colour.  Of the colour of a terminal whose
\* user pressed a key first (asked = "other") nothing is said: the key is parsed
\* as a reply that advertises nothing and takes the colour away, though "on any
\* non-reply, model is returned unchanged" (server.py:740-741).
ModelHonest ==
  /\ asked = "reply" => (model.color <=> "color" \in model.caps)
  /\ asked # "reply" => model.caps = {} /\ model.cells = 0 /\ model.charsets = {}
  /\ asked \in {"no", "timeout", "eof"} /\ model.extended => model.color
  /\ {mode, model.mode} \subseteq {"field"} \cup
       (IF "replymodes" \in Codes(client) THEN {"character"} ELSE {})
  /\ open /\ down = <<>> => mode = model.mode

\* The commands of the lines typed so far, the blank lines apart.
Typed ==
  LET first[n \in 0 .. keys] ==
        IF n = 0 THEN <<>>
        ELSE IF client.lines[n].command = <<>> THEN first[n - 1]
        ELSE Append(first[n - 1], client.lines[n].command)
  IN first[keys]

\* Only line-mode clients end up in line mode, and however TCP cuts or joins
\* their lines, each command is answered once and in order, none is left over
\* once everything was received, and none is answered after LOGOFF; as long as
\* no byte was dropped, by a START-TLS offer given up inside a reply or by a
\* hand-over to line mode inside a Telnet command, whose IAC should "wait for
\* more data" (server.py:1109) and goes with the buffer: its rest is then typed text.
CommandsAnswered ==
  at = "nvt" /\ ~torn =>
    /\ client.link = "nvt"
    /\ IsPrefix(answers, Typed)
    /\ up = <<>> /\ ~Contains(rx, "LF") => answers = Typed
    /\ <<"logoff">> \notin ToSet(answers)

\* Whatever the client does, its thread ends: nobody who stays silent holds
\* one for ever, except before the hello on an implicit TLS port, where no
\* timeout is set.
ThreadEnds == <>[](at = "closed" \/ (at = "handshake" /\ secure = "implicit"))
=============================================================================
