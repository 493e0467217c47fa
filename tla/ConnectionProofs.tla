-------------------------- MODULE ConnectionProofs --------------------------
(***************************************************************************)
(* Of every client that may connect, however the server was started: the   *)
(* two ends agree whether the session runs over TLS, the scan behind the   *)
(* START-TLS offer leaves the hello to the handshake, and what the server  *)
(* believes of the terminal is what the terminal said.                     *)
(*                                                                         *)
(* Nothing here depends on what the readers compute of the bytes: that is  *)
(* ReadersProofs.                                                          *)
(***************************************************************************)
EXTENDS Connection, Integers, SequenceTheorems, TLAPS

Messages == {"DO STARTTLS", "FOLLOWS", "QUERY", "SET MODE", "SCREEN"}
Early == {"start", "offered", "handshake"}

\* The bytes of the conversation before the session, the hello apart.
ClearBytes == Byte \ {"hello1"}
EarlyBytes == ClearBytes \cup {"hello1", "hello2"}

Sets(c) == UNION {c.fields[n].sets : n \in DOMAIN c.fields}
Models ==
  [extended : BOOLEAN, color : BOOLEAN, caps : SUBSET Codes(client),
   cells : 0 .. AddressableCells, charsets : SUBSET Sets(client), mode : {"field", "character"}]

\* The START-TLS scan stops before its loops run out of bytes.
Draining == {"skip", "skipIac", "drain", "drainIac"}
ScanInv ==
  at \in {"start", "offered"} =>
    /\ tel \in {"text", "cmd"} \cup Verbs \cup Draining
    /\ tel = "text" => left # 0
    /\ tel \in Verbs => drained = ScanLimit
    /\ tel \in Draining => drained # 0

TypeInv ==
  /\ TypeOK
  /\ model \in Models
  /\ down \in Seq(Messages)
  /\ at \in Early => up \in Seq(EarlyBytes)
  /\ ScanInv

\* FOLLOWS is the last thing the server says before the handshake, a client
\* sends its hello once, after that or at once, and only a hello is answered
\* by a handshake.
TlsInv ==
  /\ at = "offered" => secure = "starttls"
  /\ encrypted => tls = "hello" /\ at \notin Early
  /\ tls = "hello" => encrypted \/ at \in {"handshake", "closed"}
  /\ "FOLLOWS" \in ToSet(down) =>
       at \in {"handshake", "closed"} /\ secure = "starttls" /\ tls # "hello"
  /\ "DO STARTTLS" \in ToSet(down) => secure = "starttls" /\ tls # "hello"
  /\ \A k \in 1 .. Len(down) : down[k] = "FOLLOWS" => k = Len(down)
  /\ at \in Early => ToSet(down) \subseteq {"DO STARTTLS", "FOLLOWS"}
  /\ at \in Early /\ tls # "hello" => up \in Seq(ClearBytes)

\* Nothing is known of a terminal but its type.
Undiscovered(m) == m.caps = {} /\ m.cells = 0 /\ m.charsets = {}

\* The model is the terminal type's until the Query is settled, and the
\* reply mode is changed last, on both ends by the same message.
ModelInv ==
  /\ at \in Early \cup {"negotiate", "query"} => asked = "no"
  /\ at \in Early \cup {"negotiate", "query", "replymode"} => model.mode = "field"
  /\ model.mode = "character" => "replymodes" \in Codes(client)
  /\ mode = "character" \/ "SET MODE" \in ToSet(down) <=> model.mode = "character"
  /\ asked = "reply" => (model.color <=> "color" \in model.caps)
  /\ asked \in {"no", "timeout", "eof"} /\ model.extended => model.color
  /\ asked # "reply" => Undiscovered(model)

IInv == TypeInv /\ TlsInv /\ ModelInv

-----------------------------------------------------------------------------
(* Messages and bytes under way.                                           *)

\* Appending a message to those under way.
LEMMA Appended ==
  ASSUME NEW S, NEW s \in Seq(S), NEW m \in S
  PROVE  LET t == Append(s, m)
         IN /\ t \in Seq(S) /\ ToSet(t) = ToSet(s) \cup {m}
            /\ \A x : x \notin ToSet(s) => \A k \in 1 .. Len(t) : t[k] = x => k = Len(t)
<1> DEFINE t == Append(s, m)
<1>1. /\ t \in Seq(S) /\ Len(t) = Len(s) + 1 /\ Len(s) \in Nat
      /\ \A i \in 1 .. Len(s) : t[i] = s[i]
      /\ t[Len(s) + 1] = m
  BY AppendProperties, LenProperties
<1>2. DOMAIN t = 1 .. Len(t) /\ DOMAIN s = 1 .. Len(s)
  BY <1>1, LenProperties
<1> HIDE DEF t
<1>3. ToSet(t) = ToSet(s) \cup {m}
  BY <1>1, <1>2 DEF ToSet
<1>4. \A x : x \notin ToSet(s) => \A k \in 1 .. Len(t) : t[k] = x => k = Len(t)
  BY <1>1, <1>2 DEF ToSet
<1> QED
  BY <1>1, <1>3, <1>4 DEF t

\* Taking the first of them.
LEMMA Taken ==
  ASSUME NEW S, NEW s \in Seq(S), s # <<>>
  PROVE  LET t == Tail(s)
         IN /\ t \in Seq(S) /\ ToSet(s) = {Head(s)} \cup ToSet(t) /\ Head(s) = s[1]
            /\ Len(s) \in Nat \ {0} /\ Len(t) = Len(s) - 1
            /\ \A k \in 1 .. Len(t) : t[k] = s[k + 1]
<1> DEFINE t == Tail(s)
<1>1. /\ t \in Seq(S) /\ Len(t) = Len(s) - 1 /\ Len(s) \in Nat \ {0}
      /\ \A k \in 1 .. Len(t) : t[k] = s[k + 1]
      /\ Head(s) = s[1]
  BY HeadTailProperties, LenProperties, EmptySeq
<1>2. DOMAIN t = 1 .. Len(t) /\ DOMAIN s = 1 .. Len(s)
  BY <1>1, LenProperties
<1> HIDE DEF t
<1>3. ToSet(s) \subseteq {Head(s)} \cup ToSet(t)
  <2> SUFFICES ASSUME NEW i \in 1 .. Len(s)
               PROVE  s[i] \in {Head(s)} \cup ToSet(t)
    BY <1>2 DEF ToSet
  <2>1. CASE i = 1
    BY <2>1, <1>1
  <2>2. CASE i # 1
    <3>1. i - 1 \in 1 .. Len(t) /\ (i - 1) + 1 = i
      BY <2>2, <1>1
    <3>2. t[i - 1] = s[i]
      BY <3>1, <1>1
    <3> QED
      BY <3>1, <3>2, <1>2 DEF ToSet
  <2> QED
    BY <2>1, <2>2
<1>4. {Head(s)} \cup ToSet(t) \subseteq ToSet(s)
  <2>1. 1 \in 1 .. Len(s)
    BY <1>1
  <2>2. \A k \in 1 .. Len(t) : k + 1 \in 1 .. Len(s)
    BY <1>1
  <2> QED
    BY <2>1, <2>2, <1>1, <1>2 DEF ToSet
<1> QED
  BY <1>1, <1>3, <1>4 DEF t

\* No clear byte begins a hello.
LEMMA NoHello ==
  ASSUME NEW bytes \in Seq(ClearBytes)
  PROVE  ~IsPrefix(Hello, bytes)
<1> SUFFICES ASSUME IsPrefix(Hello, bytes)
             PROVE  FALSE
  OBVIOUS
<1>1. Len(Hello) = 2 /\ Hello[1] = "hello1" /\ Hello \in Seq({"hello1", "hello2"})
  BY DEF Hello
<1>2. Len(bytes) \in Nat /\ 2 <= Len(bytes) /\ SubSeq(Hello, 1, 2) = SubSeq(bytes, 1, 2)
  BY <1>1, LenProperties DEF IsPrefix
<1>3. SubSeq(bytes, 1, 2)[1] = bytes[1] /\ SubSeq(Hello, 1, 2)[1] = Hello[1]
  <2>1. 1 \in 1 .. Len(bytes) /\ 2 \in 1 .. Len(bytes)
    BY <1>2
  <2> QED
    BY <2>1, <1>1, SubSeqProperties
<1>4. bytes[1] \in ClearBytes
  BY <1>2, ElementOfSeq
<1> QED
  BY <1>1, <1>2, <1>3, <1>4 DEF ClearBytes

\* The bytes of the conversation are among those of the two alphabets.
LEMMA Alphabets ==
  /\ ClearBytes \subseteq EarlyBytes
  /\ Seq(ClearBytes) \subseteq Seq(EarlyBytes)
  /\ Hello \in Seq(EarlyBytes)
  /\ <<>> \in Seq(ClearBytes)
  /\ <<"CR", "LF">> \in Seq(ClearBytes)
  /\ <<"IAC", "WILL", "STARTTLS">> \o Follows \in Seq(ClearBytes)
  /\ <<"IAC", "WONT", "STARTTLS">> \in Seq(ClearBytes)
  /\ Seq(Byte \ {"hello1"}) \subseteq Seq(ClearBytes)
<1>1. /\ ClearBytes \subseteq EarlyBytes /\ Byte \ {"hello1"} \subseteq ClearBytes
      /\ {"hello1", "hello2"} \subseteq EarlyBytes
      /\ {"IAC", "WILL", "WONT", "STARTTLS", "SB", "FOLLOWS", "SE", "CR", "LF"} \subseteq ClearBytes
  BY ByteAssumption DEF ClearBytes, EarlyBytes, Verbs
<1>2. /\ Seq(ClearBytes) \subseteq Seq(EarlyBytes)
      /\ Seq(Byte \ {"hello1"}) \subseteq Seq(ClearBytes)
  BY <1>1, SeqMonotonic
<1>3. Follows \in Seq(ClearBytes)
  BY <1>1 DEF Follows
<1>4. <<"IAC", "WILL", "STARTTLS">> \in Seq(ClearBytes)
  BY <1>1
<1>5. <<"IAC", "WILL", "STARTTLS">> \o Follows \in Seq(ClearBytes)
  BY <1>3, <1>4, ConcatProperties
<1>6. Hello \in Seq(EarlyBytes)
  BY <1>1 DEF Hello
<1>7. <<"CR", "LF">> \in Seq(ClearBytes) /\ <<"IAC", "WONT", "STARTTLS">> \in Seq(ClearBytes)
  BY <1>1
<1>8. <<>> \in Seq(ClearBytes)
  BY EmptySeq
<1> QED
  BY <1>1, <1>2, <1>5, <1>6, <1>7, <1>8

-----------------------------------------------------------------------------
(* The START-TLS scan.                                                     *)

\* One byte of the scan: its loops keep within their bytes, and where they
\* have used them up they stop.
LEMMA ScanStep ==
  ASSUME NEW t \in {"text", "cmd"} \cup Verbs \cup Draining, NEW n \in 0 .. ScanLimit,
         NEW d \in 0 .. ScanLimit, NEW b,
         t = "text" => n # 0, t \in Verbs => d = ScanLimit, t \in Draining => d # 0
  PROVE  LET s == Decided(ScanByte([tel |-> t, left |-> n, drained |-> d], b))
         IN /\ s.tel \in {"text", "cmd"} \cup Verbs \cup Draining \cup {"accepted", "refused"}
            /\ s.left \in 0 .. ScanLimit /\ s.drained \in 0 .. ScanLimit
            /\ s.tel \in Verbs => s.drained = ScanLimit
            /\ s.tel \in Draining => s.drained # 0
<1> USE LimitAssumption
<1> DEFINE r == [tel |-> t, left |-> n, drained |-> d]
           u == ScanByte(r, b)
<1>1. r.tel = t /\ r.left = n /\ r.drained = d
  OBVIOUS
<1>2. CASE t = "text"
  <2>1. u = [r EXCEPT !.tel = IF b = "IAC" THEN "cmd" ELSE "text", !.left = n - 1]
    BY <1>1, <1>2 DEF ScanByte, Verbs
  <2>2. u.tel \in {"text", "cmd"} /\ u.left = n - 1 /\ u.drained = d
    BY <2>1
  <2> HIDE DEF u
  <2>3. Decided(u) = u
    BY <2>2 DEF Decided
  <2> QED
    BY <2>2, <2>3, <1>2 DEF u, Verbs, Draining
<1>3. CASE t = "cmd"
  <2>1. u = [r EXCEPT !.tel = IF b \in Verbs THEN b ELSE IF b = "SB" THEN "skip" ELSE "text",
                      !.drained = ScanLimit]
    BY <1>1, <1>3 DEF ScanByte, Verbs
  <2>2. u.tel \in Verbs \cup {"skip", "text"} /\ u.left = n /\ u.drained = ScanLimit
    BY <2>1 DEF Verbs
  <2> HIDE DEF u
  <2>3. Decided(u) = u
    BY <2>2 DEF Decided, Verbs
  <2> QED
    BY <2>2, <2>3 DEF u, Verbs, Draining
<1>4. CASE t \in Verbs
  <2>1. u = [r EXCEPT !.tel = CASE b # "STARTTLS" -> "text"
                                [] b = "STARTTLS" /\ t = "WILL" -> "drain"
                                [] OTHER -> "refused"]
    BY <1>1, <1>4 DEF ScanByte, Verbs
  <2>2. u.tel \in {"text", "drain", "refused"} /\ u.left = n /\ u.drained = ScanLimit
    BY <2>1, <1>4
  <2> HIDE DEF u
  <2>3. Decided(u) = u
    BY <2>2 DEF Decided
  <2> QED
    BY <2>2, <2>3 DEF u, Verbs, Draining
<1>5. CASE t \in {"skipIac", "drainIac"} /\ b = "SE"
  <2>1. u = [r EXCEPT !.tel = IF t = "skipIac" THEN "text" ELSE "accepted"]
    BY <1>1, <1>5 DEF ScanByte, Verbs
  <2>2. u.tel \in {"text", "accepted"} /\ u.left = n /\ u.drained = d
    BY <2>1
  <2> HIDE DEF u
  <2>3. Decided(u) = u
    BY <2>2 DEF Decided
  <2> QED
    BY <2>2, <2>3 DEF u, Verbs, Draining
<1>6. CASE t \in Draining /\ ~(t \in {"skipIac", "drainIac"} /\ b = "SE")
  <2> DEFINE next == IF t \in {"skip", "skipIac"} THEN IF b = "IAC" THEN "skipIac" ELSE "skip"
                     ELSE IF b = "IAC" THEN "drainIac" ELSE "drain"
  <2>1. u = [r EXCEPT !.tel = next, !.drained = d - 1]
    BY <1>1, <1>6 DEF ScanByte, Verbs, Draining
  <2>2. /\ u.tel \in Draining /\ u.left = n /\ u.drained = d - 1
        /\ d - 1 \in 0 .. ScanLimit
    <3>1. next \in Draining
      BY DEF Draining
    <3>2. d - 1 \in 0 .. ScanLimit
      BY <1>6
    <3> HIDE DEF next, u
    <3>3. u.tel = next /\ u.left = n /\ u.drained = d - 1
      BY <2>1
    <3> QED
      BY <3>1, <3>2, <3>3
  <2>3. DOMAIN u = {"tel", "left", "drained"}
    BY <2>1
  <2> HIDE DEF u
  <2>4. CASE d - 1 # 0
    <3>1. Decided(u) = u
      BY <2>2, <2>4 DEF Decided
    <3> QED
      BY <3>1, <2>2, <2>4 DEF u, Verbs, Draining
  <2>5. CASE d - 1 = 0
    <3>1. \/ Decided(u) = [u EXCEPT !.tel = "text"]
          \/ Decided(u) = [u EXCEPT !.tel = "accepted"]
      BY <2>2, <2>5 DEF Decided, Draining
    <3>2. /\ Decided(u).tel \in {"text", "accepted"}
          /\ Decided(u).left = n /\ Decided(u).drained = 0
      BY <3>1, <2>2, <2>3, <2>5
    <3> QED
      BY <3>2 DEF u, Verbs, Draining
  <2> QED
    BY <2>4, <2>5
<1> QED
  BY <1>2, <1>3, <1>4, <1>5, <1>6 DEF Draining

-----------------------------------------------------------------------------
(* The model of the terminal.                                              *)

\* What the fields of a reply are folded into stays within what the terminal
\* says of itself, and its colour is then what the reply says.
LEMMA Folded ==
  ASSUME NEW m \in Models, NEW record
  PROVE  LET r == FoldReply(m, ParseQueryReply(record, client.fields))
         IN /\ r \in Models /\ r.mode = m.mode /\ r.extended = m.extended
            /\ r.color <=> "color" \in r.caps
            /\ record # QueryReply /\ Undiscovered(m) => Undiscovered(r)
<1> USE LimitAssumption
<1> DEFINE q == ParseQueryReply(record, client.fields)
           r == FoldReply(m, q)
<1>1. q.codes \subseteq Codes(client) /\ q.charsets \subseteq Sets(client)
  <2> DEFINE seen == IF record = QueryReply THEN WellFormed(client.fields) ELSE {}
  <2>1. seen \subseteq DOMAIN client.fields
    BY DEF WellFormed
  <2>2. /\ q.codes = {client.fields[n].code : n \in seen}
                     \cup UNION {client.fields[n].lists : n \in seen}
        /\ q.charsets = UNION {client.fields[n].sets : n \in seen}
    BY DEF ParseQueryReply
  <2> HIDE DEF seen, q
  <2> QED
    BY <2>1, <2>2 DEF Codes, Sets
<1>7. record # QueryReply => q.codes = {} /\ q.cells = 0 /\ q.charsets = {}
  BY DEF ParseQueryReply
<1> HIDE DEF q
<1>2. /\ r = [m EXCEPT !.caps = q.codes, !.color = "color" \in q.codes,
                       !.cells = IF q.cells \in 1 .. AddressableCells THEN q.cells ELSE m.cells,
                       !.charsets = IF q.charsets # {} THEN q.charsets ELSE m.charsets]
  BY DEF FoldReply, Models
<1> HIDE DEF r
<1>3. /\ r.caps = q.codes /\ r.color = ("color" \in q.codes) /\ r.mode = m.mode
      /\ r.extended = m.extended
      /\ r.cells = IF q.cells \in 1 .. AddressableCells THEN q.cells ELSE m.cells
      /\ r.charsets = IF q.charsets # {} THEN q.charsets ELSE m.charsets
      /\ r = [extended |-> r.extended, color |-> r.color, caps |-> r.caps, cells |-> r.cells,
              charsets |-> r.charsets, mode |-> r.mode]
  BY <1>2 DEF Models
<1>4. r.cells \in 0 .. AddressableCells /\ r.charsets \in SUBSET Sets(client)
  <2>1. m.cells \in 0 .. AddressableCells /\ m.charsets \in SUBSET Sets(client)
    BY DEF Models
  <2> QED
    BY <2>1, <1>1, <1>3
<1>5. /\ r.extended \in BOOLEAN /\ r.mode \in {"field", "character"}
      /\ r.color \in BOOLEAN /\ r.caps \in SUBSET Codes(client)
  BY <1>1, <1>3 DEF Models
<1>6. r \in Models
  BY <1>3, <1>4, <1>5 DEF Models
<1>8. record # QueryReply /\ Undiscovered(m) => Undiscovered(r)
  BY <1>3, <1>7 DEF Undiscovered
<1> QED
  BY <1>3, <1>6, <1>8 DEF r, q

\* Setting the reply mode changes nothing else.
LEMMA ModeSet ==
  ASSUME NEW m \in Models
  PROVE  LET r == [m EXCEPT !.mode = "character"]
         IN /\ r \in Models /\ r.mode = "character" /\ r.extended = m.extended
            /\ r.color = m.color /\ r.caps = m.caps
            /\ Undiscovered(m) => Undiscovered(r)
BY DEF Models, Undiscovered

\* The models of a terminal are about the client that connected.
LEMMA ModelsKept ==
  ASSUME UNCHANGED client
  PROVE  Models' = Models /\ Codes(client)' = Codes(client)
BY DEF Models, Codes, Sets

\* What a terminal type says: colour for every extended terminal.
LEMMA ParsedType ==
  ASSUME IInv
  PROVE  /\ NoModel \in Models /\ NoModel.mode = "field" /\ ~NoModel.extended
         /\ ParseTerminalType(client) \in Models /\ ParseTerminalType(client).mode = "field"
         /\ ParseTerminalType(client).extended => ParseTerminalType(client).color
         /\ Undiscovered(NoModel) /\ Undiscovered(ParseTerminalType(client))
<1>1. NoModel \in Models /\ NoModel.mode = "field" /\ ~NoModel.extended /\ Undiscovered(NoModel)
  BY LimitAssumption DEF NoModel, Models, Undiscovered
<1>2. client.extended \in BOOLEAN /\ client.colour \in BOOLEAN
  <2> DEFINE arrival == <<secure, client>>
  <2>1. arrival \in Arrivals /\ arrival[2] = client
    BY DEF IInv, TypeInv, TypeOK
  <2> QED
    BY <2>1, ArrivalAssumption
<1> DEFINE p == ParseTerminalType(client)
<1>3. p = [NoModel EXCEPT !.extended = client.extended,
                          !.color = client.colour \/ client.extended]
  BY DEF ParseTerminalType
<1> QED
  BY <1>1, <1>2, <1>3 DEF Models, Undiscovered

-----------------------------------------------------------------------------
(* The steps of the server.                                                *)

\* Whatever a server starts with, nothing is under way.
LEMMA InitInv == Init => IInv
<1> SUFFICES ASSUME Init
             PROVE  IInv
  OBVIOUS
<1> USE LimitAssumption
<1>1. /\ <<secure, client>> \in Arrivals
      /\ secure \in {"plain", "implicit", "starttls"}
  <2>1. PICK arrival \in Arrivals : secure = arrival[1] /\ client = arrival[2]
    BY DEF Init
  <2>2. arrival = <<arrival[1], arrival[2]>> /\ secure \in {"plain", "implicit", "starttls"}
    BY <2>1, ArrivalAssumption
  <2> QED
    BY <2>1, <2>2
<1>2. /\ at = "start" /\ tel = "text" /\ left = ScanLimit /\ drained = 0 /\ encrypted = FALSE
      /\ up = <<>> /\ down = <<>> /\ model = NoModel /\ asked = "no" /\ torn = FALSE
      /\ tls = "no" /\ keyboard = TRUE /\ keys = 0 /\ mode = "field" /\ open = TRUE
  BY DEF Init
<1>3. /\ NoModel \in Models /\ NoModel.mode = "field" /\ ~NoModel.extended
      /\ NoModel.caps = {} /\ NoModel.cells = 0 /\ NoModel.charsets = {}
  BY DEF NoModel, Models
<1>4. ToSet(down) = {} /\ Len(down) = 0 /\ down \in Seq(Messages)
  BY <1>2, EmptySeq DEF ToSet
<1>5. TypeInv
  <2>1. {encrypted, torn, keyboard, open} \subseteq BOOLEAN
    BY <1>2
  <2>5. model.caps \subseteq Codes(client) /\ model.cells \in 0 .. AddressableCells
    BY <1>2, <1>3
  <2>6. TypeOK
    BY <2>1, <2>5, <1>1, <1>2 DEF TypeOK
  <2>2. ScanInv
    BY <1>2 DEF ScanInv, Verbs, Draining
  <2>3. up \in Seq(EarlyBytes)
    BY <1>2, EmptySeq
  <2> QED
    BY <2>6, <2>2, <2>3, <1>2, <1>3, <1>4 DEF TypeInv
<1>6. TlsInv
  <2>1. up \in Seq(ClearBytes) /\ \A k \in 1 .. Len(down) : down[k] = "FOLLOWS" => k = Len(down)
    BY <1>2, <1>4, Alphabets
  <2> QED
    BY <2>1, <1>2, <1>4 DEF TlsInv, Early
<1>7. ModelInv
  BY <1>2, <1>3, <1>4 DEF ModelInv, Early, Undiscovered
<1> QED
  BY <1>5, <1>6, <1>7 DEF IInv

\* A message that is not FOLLOWS, appended where none is under way.
LEMMA Tells ==
  ASSUME IInv, NEW m \in Messages, down' = Append(down, m)
  PROVE  /\ down' \in Seq(Messages) /\ ToSet(down') = ToSet(down) \cup {m}
         /\ "FOLLOWS" \notin ToSet(down) =>
              \A k \in 1 .. Len(down') : down'[k] = "FOLLOWS" => k = Len(down')
<1>1. down \in Seq(Messages)
  BY DEF IInv, TypeInv
<1> QED
  BY <1>1, Appended

\* The thread starts, with or without the START-TLS offer.
LEMMA StartInv ==
  ASSUME IInv, Start
  PROVE  IInv'
<1>1. /\ at = "start"
      /\ at' = CASE secure = "plain" -> "negotiate"
                 [] secure = "implicit" -> "handshake"
                 [] OTHER -> "offered"
      /\ down' = IF secure = "starttls" THEN Append(down, "DO STARTTLS") ELSE down
      /\ UNCHANGED <<secure, scanVars, encrypted, up, rx, model, histVars, clientVars>>
  BY DEF Start
<1>2. /\ <<secure, client>> \in Arrivals
      /\ secure \in {"plain", "implicit", "starttls"}
  <2>1. <<secure, client>> \in Arrivals
    BY DEF IInv, TypeInv, TypeOK
  <2> DEFINE arrival == <<secure, client>>
  <2>2. arrival[1] \in {"plain", "implicit", "starttls"}
    BY <2>1, ArrivalAssumption
  <2> QED
    BY <2>1, <2>2
<1>3. /\ at' \in {"negotiate", "handshake", "offered"}
      /\ at' = "offered" => secure = "starttls"
      /\ at' = "negotiate" => secure = "plain"
  BY <1>1, <1>2
<1>4. "FOLLOWS" \notin ToSet(down)
  BY <1>1 DEF IInv, TlsInv
<1>5. /\ down' \in Seq(Messages) /\ ToSet(down') \subseteq ToSet(down) \cup {"DO STARTTLS"}
      /\ \A k \in 1 .. Len(down') : down'[k] = "FOLLOWS" => k = Len(down')
      /\ "SET MODE" \in ToSet(down') <=> "SET MODE" \in ToSet(down)
      /\ "DO STARTTLS" \in ToSet(down') => secure = "starttls"
  <2>1. CASE secure = "starttls"
    BY <2>1, <1>1, <1>4, Tells, "DO STARTTLS" \in Messages DEF Messages
  <2>2. CASE secure # "starttls"
    BY <2>2, <1>1 DEF IInv, TypeInv, TlsInv
  <2> QED
    BY <2>1, <2>2
<1>6. TypeInv'
  <2>1. TypeOK'
    BY <1>1, <1>3 DEF IInv, TypeInv, TypeOK, scanVars, histVars, clientVars
  <2>2. ScanInv'
    BY <1>1, <1>3 DEF IInv, TypeInv, ScanInv, scanVars, histVars, clientVars
  <2>3. at' \in Early => up' \in Seq(EarlyBytes)
    BY <1>1 DEF IInv, TypeInv, Early
  <2>4. model' \in Models'
    BY <1>1, ModelsKept DEF IInv, TypeInv, clientVars
  <2> QED
    BY <2>1, <2>2, <2>3, <2>4, <1>5 DEF TypeInv
<1>7. TlsInv'
  <2>1. tls # "hello" /\ ~encrypted
    BY <1>1 DEF IInv, TypeInv, TypeOK, TlsInv, Early
  <2>2. ToSet(down) \subseteq {"DO STARTTLS", "FOLLOWS"} /\ up \in Seq(ClearBytes)
    BY <1>1, <2>1 DEF IInv, TlsInv, Early
  <2> QED
    BY <1>1, <1>3, <1>4, <1>5, <2>1, <2>2 DEF TlsInv, clientVars
<1>8. ModelInv'
  BY <1>1, <1>3, <1>5 DEF IInv, ModelInv, Early, Codes, histVars, clientVars
<1> QED
  BY <1>6, <1>7, <1>8 DEF IInv

\* A byte of the scan.
LEMMA ScanInvKept ==
  ASSUME IInv, ScanStarttls
  PROVE  IInv'
<1> DEFINE s == Decided(ScanByte([tel |-> tel, left |-> left, drained |-> drained], Head(up)))
           gaveUp == s.tel = "text" /\ s.left = 0
<1>1. /\ at = "offered" /\ up # <<>>
      /\ tel' = s.tel /\ left' = s.left /\ drained' = s.drained
      /\ at' = CASE s.tel = "accepted" -> "handshake"
                 [] s.tel = "refused" \/ gaveUp -> "negotiate"
                 [] OTHER -> at
      /\ down' = IF s.tel = "accepted" THEN Append(down, "FOLLOWS") ELSE down
      /\ up' = Tail(up)
      /\ torn' = (torn \/ (tel = "text" /\ Head(up) # "IAC")
                       \/ (tel' = "text" /\ drained' = 0 /\ drained > 0))
      /\ UNCHANGED <<secure, encrypted, rx, model, asked, taken, answers, clientVars>>
  BY DEF ScanStarttls
<1>2. /\ s.tel \in {"text", "cmd"} \cup Verbs \cup Draining \cup {"accepted", "refused"}
      /\ s.left \in 0 .. ScanLimit /\ s.drained \in 0 .. ScanLimit
      /\ s.tel \in Verbs => s.drained = ScanLimit
      /\ s.tel \in Draining => s.drained # 0
  <2>1. /\ tel \in {"text", "cmd"} \cup Verbs \cup Draining
        /\ left \in 0 .. ScanLimit /\ drained \in 0 .. ScanLimit
        /\ tel = "text" => left # 0
        /\ tel \in Verbs => drained = ScanLimit
        /\ tel \in Draining => drained # 0
    BY <1>1 DEF IInv, TypeInv, TypeOK, ScanInv
  <2> HIDE DEF s
  <2> QED
    BY <2>1, ScanStep DEF s
<1> HIDE DEF s
<1>3. /\ at' \in {"handshake", "negotiate", "offered"}
      /\ at' = "handshake" <=> s.tel = "accepted"
      /\ at' = "offered" => s.tel \notin {"accepted", "refused"} /\ ~gaveUp
  BY <1>1
<1>4. /\ "FOLLOWS" \notin ToSet(down) /\ tls # "hello" /\ ~encrypted /\ secure = "starttls"
      /\ ToSet(down) \subseteq {"DO STARTTLS", "FOLLOWS"} /\ up \in Seq(ClearBytes)
  BY <1>1 DEF IInv, TlsInv, TypeInv, TypeOK, Early
<1>5. /\ down' \in Seq(Messages)
      /\ \A k \in 1 .. Len(down') : down'[k] = "FOLLOWS" => k = Len(down')
      /\ ToSet(down') = IF at' = "handshake" THEN ToSet(down) \cup {"FOLLOWS"} ELSE ToSet(down)
  <2>1. CASE s.tel = "accepted"
    BY <2>1, <1>1, <1>3, <1>4, Tells DEF Messages
  <2>2. CASE s.tel # "accepted"
    BY <2>2, <1>1, <1>3 DEF IInv, TypeInv, TlsInv
  <2> QED
    BY <2>1, <2>2
<1>6. up' \in Seq(ClearBytes) /\ up' \in Seq(EarlyBytes)
  BY <1>1, <1>4, HeadTailProperties, Alphabets
<1>7. TypeInv'
  <2>1. TypeOK'
    <3>1. torn' \in BOOLEAN
      BY <1>1
    <3> QED
      BY <3>1, <1>1, <1>2, <1>3 DEF IInv, TypeInv, TypeOK, clientVars
  <2>2. ScanInv'
    BY <1>1, <1>2, <1>3 DEF ScanInv
  <2>3. model' \in Models'
    BY <1>1, ModelsKept DEF IInv, TypeInv, clientVars
  <2> QED
    BY <2>1, <2>2, <2>3, <1>5, <1>6 DEF TypeInv
<1>8. TlsInv'
  BY <1>1, <1>3, <1>4, <1>5, <1>6 DEF TlsInv, clientVars, Early
<1>9. ModelInv'
  BY <1>1, <1>3, <1>4, <1>5 DEF IInv, ModelInv, Early, Codes, clientVars
<1> QED
  BY <1>7, <1>8, <1>9 DEF IInv

\* Only a client that has sent its hello is answered by a handshake.
LEMMA HandshakeInv ==
  ASSUME IInv, Handshake
  PROVE  IInv'
<1>1. /\ at = "handshake"
      /\ UNCHANGED <<secure, scanVars, rx, down, model, histVars, clientVars>>
      /\ \/ IsPrefix(Hello, up) /\ at' = "negotiate" /\ encrypted' = TRUE
         \/ at' = "closed" /\ UNCHANGED <<encrypted, up>>
  BY DEF Handshake
<1>2. tls = "hello" \/ at' = "closed"
  <2>1. tls # "hello" => up \in Seq(ClearBytes)
    BY <1>1 DEF IInv, TlsInv, Early
  <2> QED
    BY <2>1, <1>1, NoHello
<1>3. tls = "hello" => "FOLLOWS" \notin ToSet(down)
  BY DEF IInv, TlsInv
<1>4. TypeInv'
  <2>1. TypeOK'
    BY <1>1 DEF IInv, TypeInv, TypeOK, scanVars, histVars, clientVars
  <2>2. ScanInv'
    BY <1>1 DEF ScanInv
  <2>3. model' \in Models' /\ down' \in Seq(Messages)
    BY <1>1, ModelsKept DEF IInv, TypeInv, clientVars
  <2> QED
    BY <2>1, <2>2, <2>3, <1>1 DEF TypeInv, Early
<1>5. TlsInv'
  <2>1. /\ ToSet(down') = ToSet(down) /\ tls' = tls /\ secure' = secure
        /\ \A k \in 1 .. Len(down') : down'[k] = "FOLLOWS" => k = Len(down')
        /\ "DO STARTTLS" \in ToSet(down) => secure = "starttls" /\ tls # "hello"
    BY <1>1 DEF IInv, TlsInv, clientVars
  <2>2. CASE at' = "closed" /\ UNCHANGED <<encrypted, up>>
    BY <1>1, <2>1, <2>2 DEF IInv, TlsInv, Early
  <2>3. CASE at' = "negotiate" /\ encrypted' = TRUE
    BY <1>2, <1>3, <2>1, <2>3 DEF TlsInv, Early
  <2> QED
    BY <1>1, <2>2, <2>3
<1>6. ModelInv'
  BY <1>1 DEF IInv, ModelInv, Early, Codes, histVars, clientVars
<1> QED
  BY <1>4, <1>5, <1>6 DEF IInv

\* After the handshake nothing but the model and the messages is at stake.
LEMMA SessionGoesOn ==
  ASSUME IInv, at \in Serving \cup {"negotiate"},
         at' \in Serving \cup {"negotiate", "closed"},
         UNCHANGED <<secure, scanVars, encrypted, clientVars>>,
         down' = down \/ \E m \in {"QUERY", "SET MODE", "SCREEN"} : down' = Append(down, m),
         torn' \in BOOLEAN, model' \in Models,
         asked' \in {"no", "reply", "other", "timeout", "eof"}
  PROVE  TypeInv' /\ TlsInv'
<1>1. "FOLLOWS" \notin ToSet(down) /\ at \notin Early /\ at' \notin Early
  BY DEF IInv, TlsInv, Serving, Early
<1>2. /\ down' \in Seq(Messages) /\ "FOLLOWS" \notin ToSet(down')
      /\ "DO STARTTLS" \in ToSet(down') => "DO STARTTLS" \in ToSet(down)
      /\ \A k \in 1 .. Len(down') : down'[k] = "FOLLOWS" => k = Len(down')
  <2>1. CASE down' = down
    BY <2>1, <1>1 DEF IInv, TypeInv, TlsInv
  <2>2. CASE \E m \in {"QUERY", "SET MODE", "SCREEN"} : down' = Append(down, m)
    <3>1. PICK m \in {"QUERY", "SET MODE", "SCREEN"} : down' = Append(down, m)
      BY <2>2
    <3>2. m \in Messages /\ m \notin {"FOLLOWS", "DO STARTTLS"}
      BY DEF Messages
    <3> QED
      BY <3>1, <3>2, <1>1, Tells
  <2> QED
    BY <2>1, <2>2
<1>3. /\ UNCHANGED <<client, tls, keys, mode, keyboard, open, left, drained>>
      /\ Models' = Models
  BY ModelsKept DEF clientVars, scanVars
<1>4. TypeInv'
  <2>1. TypeOK'
    <3>1. model'.caps \subseteq Codes(client)' /\ model'.cells \in 0 .. AddressableCells
      BY <1>3, ModelsKept DEF Models
    <3>2. at' \in Serving \cup {"start", "offered", "handshake", "negotiate", "closed"}
      OBVIOUS
    <3> QED
      BY <1>3, <3>1, <3>2 DEF IInv, TypeInv, TypeOK
  <2>2. ScanInv'
    BY <1>1 DEF ScanInv, Early
  <2> QED
    BY <2>1, <2>2, <1>1, <1>2, <1>3 DEF TypeInv
<1>5. TlsInv'
  <2>1. (encrypted' <=> encrypted) /\ tls' = tls /\ secure' = secure
    BY <1>3 DEF IInv, TypeInv, TypeOK
  <2>2. /\ (encrypted => tls = "hello") /\ (tls = "hello" => encrypted)
        /\ "DO STARTTLS" \in ToSet(down) => secure = "starttls" /\ tls # "hello"
    BY DEF IInv, TlsInv, Serving
  <2>3. at' # "offered" /\ at' \notin Early
    BY <1>1 DEF Early
  <2> QED
    BY <1>2, <2>1, <2>2, <2>3 DEF TlsInv
<1> QED
  BY <1>4, <1>5

\* The negotiation settles on line mode or on what the terminal type says.
LEMMA NegotiateInv ==
  ASSUME IInv, Negotiate
  PROVE  IInv'
<1>1. /\ at = "negotiate" /\ down = <<>>
      /\ at' \in {"nvt", "query", "show"}
      /\ model' \in {NoModel, ParseTerminalType(client)}
      /\ down' = IF at' = "query" THEN Append(down, "QUERY") ELSE down
      /\ UNCHANGED <<secure, scanVars, encrypted, asked, taken, answers, clientVars>>
  BY DEF Negotiate
<1>2. /\ model' \in Models /\ model'.mode = "field" /\ (model'.extended => model'.color)
      /\ Undiscovered(model')
  BY <1>1, ParsedType
<1>3. asked = "no" /\ torn' \in BOOLEAN /\ ToSet(down) = {}
  <2>1. DOMAIN down = {}
    BY <1>1
  <2>2. torn' \in BOOLEAN
    BY DEF Negotiate, IInv, TypeInv, TypeOK
  <2> QED
    BY <2>1, <2>2, <1>1 DEF IInv, ModelInv, ToSet
<1>4. TypeInv' /\ TlsInv'
  BY <1>1, <1>2, <1>3, SessionGoesOn DEF Serving
<1>5. "SET MODE" \notin ToSet(down')
  <2>1. ToSet(Append(down, "QUERY")) = {"QUERY"}
    <3>1. down \in Seq(Messages) /\ "QUERY" \in Messages
      BY DEF IInv, TypeInv, Messages
    <3> QED
      BY <3>1, <1>3, Appended
  <2> QED
    BY <2>1, <1>1, <1>3
<1>6. mode' # "character"
  <2>1. model.mode = "field"
    BY <1>1 DEF IInv, ModelInv
  <2> QED
    BY <2>1, <1>1 DEF IInv, ModelInv, clientVars
<1>7. ModelInv'
  BY <1>1, <1>2, <1>3, <1>5, <1>6 DEF ModelInv, Early
<1> QED
  BY <1>4, <1>7 DEF IInv

\* Whatever record answers the Query is folded into the model.
LEMMA ReadQueryReplyInv ==
  ASSUME IInv, ReadQueryReply
  PROVE  IInv'
<1>1. /\ at = "query"
      /\ UNCHANGED <<secure, scanVars, encrypted, down, answers, clientVars>>
      /\ \/ at' = at /\ UNCHANGED <<model, asked>>
         \/ Settle(Last(taken'))
  BY DEF ReadQueryReply
<1>2. torn' \in BOOLEAN
  <2>1. torn \in BOOLEAN
    BY DEF IInv, TypeInv, TypeOK
  <2> QED
    BY <2>1 DEF ReadQueryReply, ReadRecord
<1>3. /\ model \in Models /\ model.mode = "field" /\ asked = "no"
      /\ mode # "character" /\ "SET MODE" \notin ToSet(down)
  BY <1>1 DEF IInv, TypeInv, ModelInv
<1>4. UNCHANGED <<client, mode>>
  BY <1>1 DEF clientVars
<1>5. CASE at' = at /\ UNCHANGED <<model, asked>>
  <2>1. TypeInv' /\ TlsInv'
    BY <1>1, <1>2, <1>3, <1>5, SessionGoesOn DEF Serving
  <2>2. ModelInv'
    BY <1>1, <1>3, <1>4, <1>5 DEF IInv, ModelInv, Early
  <2> QED
    BY <2>1, <2>2 DEF IInv
<1>6. CASE Settle(Last(taken'))
  <2> DEFINE r == FoldReply(model, ParseQueryReply(Last(taken'), client.fields))
  <2>1. /\ model' = r /\ at' = "replymode" /\ asked' \in {"reply", "other"}
        /\ asked' # "reply" => Last(taken') # QueryReply
    BY <1>6 DEF Settle
  <2>2. /\ r \in Models /\ r.mode = "field"
        /\ r.color <=> "color" \in r.caps
        /\ Last(taken') # QueryReply => Undiscovered(r)
    <3>1. Undiscovered(model)
      BY <1>3 DEF IInv, ModelInv
    <3> QED
      BY <1>3, <3>1, Folded
  <2> HIDE DEF r
  <2>3. TypeInv' /\ TlsInv'
    BY <1>1, <1>2, <2>1, <2>2, SessionGoesOn DEF Serving
  <2>4. ModelInv'
    BY <1>1, <1>3, <1>4, <2>1, <2>2 DEF ModelInv, Early
  <2> QED
    BY <2>3, <2>4 DEF IInv
<1> QED
  BY <1>1, <1>5, <1>6

\* The reply mode is asked for where the terminal lists it, and what the
\* server believes changes with the message.
LEMMA RequestReplyModeInv ==
  ASSUME IInv, RequestReplyMode
  PROVE  IInv'
<1> DEFINE m == [model EXCEPT !.mode = "character"]
<1>1. /\ at = "replymode" /\ at' = "show"
      /\ UNCHANGED <<secure, scanVars, encrypted, up, rx, histVars, clientVars>>
      /\ \/ /\ "replymodes" \in model.caps
            /\ down' = Append(down, "SET MODE") /\ model' = m
         \/ UNCHANGED <<down, model>>
  BY DEF RequestReplyMode
<1>2. /\ UNCHANGED <<client, mode, asked, torn>>
      /\ torn \in BOOLEAN /\ asked \in {"no", "reply", "other", "timeout", "eof"}
      /\ model \in Models /\ model.caps \subseteq Codes(client)
  BY <1>1 DEF IInv, TypeInv, TypeOK, histVars, clientVars
<1>3. CASE UNCHANGED <<down, model>>
  <2>1. TypeInv' /\ TlsInv'
    BY <1>1, <1>2, <1>3, SessionGoesOn DEF Serving
  <2>2. ModelInv'
    BY <1>1, <1>2, <1>3, ModelsKept DEF IInv, ModelInv, Early
  <2> QED
    BY <2>1, <2>2 DEF IInv
<1>4. CASE "replymodes" \in model.caps /\ down' = Append(down, "SET MODE") /\ model' = m
  <2>1. /\ m \in Models /\ m.mode = "character" /\ m.extended = model.extended
        /\ m.color = model.color /\ m.caps = model.caps
        /\ Undiscovered(model) => Undiscovered(m)
    BY <1>2, ModeSet
  <2> HIDE DEF m
  <2>2. TypeInv' /\ TlsInv'
    BY <1>1, <1>2, <1>4, <2>1, SessionGoesOn DEF Serving
  <2>3. "SET MODE" \in ToSet(down')
    BY <1>4, Tells DEF Messages
  <2>4. ModelInv'
    BY <1>1, <1>2, <1>4, <2>1, <2>3, ModelsKept DEF IInv, ModelInv, Early
  <2> QED
    BY <2>2, <2>4 DEF IInv
<1> QED
  BY <1>1, <1>3, <1>4

\* Serving a session leaves the model as it is.
LEMMA ServesOn ==
  ASSUME IInv, at \in Serving \cup {"negotiate"}, at \notin {"query", "replymode"},
         at' \in Serving \cup {"closed"}, at' \notin {"query", "replymode"},
         UNCHANGED <<secure, scanVars, encrypted, model, asked, clientVars>>,
         down' = down \/ down' = Append(down, "SCREEN"), torn' \in BOOLEAN
  PROVE  IInv'
<1>1. /\ UNCHANGED <<client, mode>> /\ model \in Models
      /\ asked \in {"no", "reply", "other", "timeout", "eof"}
  BY DEF IInv, TypeInv, TypeOK, clientVars
<1>2. TypeInv' /\ TlsInv'
  BY <1>1, SessionGoesOn
<1>3. "SET MODE" \in ToSet(down') <=> "SET MODE" \in ToSet(down)
  BY Tells DEF Messages
<1>4. ModelInv'
  BY <1>1, <1>3, ModelsKept DEF IInv, ModelInv, Early, Serving
<1> QED
  BY <1>2, <1>4 DEF IInv

\* The application's screens and the readers of both kinds of records, the
\* lines of an NVT session, and a negotiation whose client has gone.
LEMMA SessionInv ==
  ASSUME IInv,
         Show \/ ReadReply \/ ReadUnit \/ ServeLine \/ ReceiveLine \/ NegotiationCut
  PROVE  IInv'
<1>1. torn \in BOOLEAN
  BY DEF IInv, TypeInv, TypeOK
<1>2. CASE Show
  <2>1. torn' \in BOOLEAN
    BY <1>1, <1>2 DEF Show, histVars
  <2> QED
    BY <1>2, <2>1, ServesOn DEF Show, Serving, histVars
<1>3. CASE ReadReply
  <2>1. torn' \in BOOLEAN
    BY <1>1, <1>3 DEF ReadReply, ReadRecord
  <2>2. /\ at = "read" /\ at' \in {"show", "read"}
        /\ UNCHANGED <<secure, scanVars, encrypted, down, model, asked, clientVars>>
    BY <1>3 DEF ReadReply
  <2> QED
    BY <2>1, <2>2, ServesOn DEF Serving
<1>4. CASE ReadUnit
  <2>1. torn' \in BOOLEAN
    BY <1>1, <1>4 DEF ReadUnit
  <2>2. /\ at = "read" /\ at' \in {"show", "read"}
        /\ UNCHANGED <<secure, scanVars, encrypted, down, model, asked, clientVars>>
    BY <1>4 DEF ReadUnit
  <2> QED
    BY <2>1, <2>2, ServesOn DEF Serving
<1>5. CASE ServeLine
  <2>1. /\ at = "nvt" /\ at' \in {"nvt", "closed"} /\ torn' = torn
        /\ UNCHANGED <<secure, scanVars, encrypted, down, model, asked, clientVars>>
    BY <1>5 DEF ServeLine
  <2> QED
    BY <1>1, <2>1, ServesOn DEF Serving
<1>6. CASE ReceiveLine
  <2>1. /\ at = "nvt" /\ at' = at /\ torn' = torn
        /\ UNCHANGED <<secure, scanVars, encrypted, down, model, asked, clientVars>>
    BY <1>6 DEF ReceiveLine, histVars
  <2> QED
    BY <1>1, <2>1, ServesOn DEF Serving
<1>7. CASE NegotiationCut
  <2>1. /\ at = "negotiate" /\ at' = "show" /\ torn' = torn
        /\ UNCHANGED <<secure, scanVars, encrypted, down, model, asked, clientVars>>
    BY <1>7 DEF NegotiationCut, histVars
  <2> QED
    BY <1>1, <2>1, ServesOn DEF Serving
<1> QED
  BY <1>2, <1>3, <1>4, <1>5, <1>6, <1>7

\* A timeout or a disconnect: the offer goes on in the clear, an unanswered
\* Query keeps what the terminal type says, all else ends.
LEMMA FailedInv ==
  ASSUME IInv, NEW how \in {"timeout", "eof"}, Failed(how),
         at \notin {"start", "closed", "replymode"}
  PROVE  IInv'
<1>1. /\ at' = CASE at = "offered" -> "negotiate" [] at = "query" -> "replymode"
                 [] OTHER -> "closed"
      /\ asked' = IF at = "query" THEN how ELSE asked
      /\ UNCHANGED <<secure, scanVars, encrypted, up, down, model, clientVars>>
  BY DEF Failed
<1>2. torn' \in BOOLEAN /\ torn \in BOOLEAN
  BY DEF IInv, TypeInv, TypeOK, Failed
<1>3. /\ UNCHANGED <<client, mode, tls>> /\ model \in Models
      /\ asked \in {"no", "reply", "other", "timeout", "eof"}
      /\ asked' \in {"no", "reply", "other", "timeout", "eof"}
  BY <1>1 DEF IInv, TypeInv, TypeOK, clientVars
<1>4. CASE at = "query"
  <2>1. at' = "replymode" /\ asked' = how
    BY <1>1, <1>4
  <2>2. TypeInv' /\ TlsInv'
    BY <1>1, <1>2, <1>3, <1>4, <2>1, SessionGoesOn DEF Serving
  <2>3. ModelInv'
    BY <1>1, <1>3, <1>4, <2>1, ModelsKept DEF IInv, ModelInv, Early
  <2> QED
    BY <2>2, <2>3 DEF IInv
<1>5. CASE at \in {"offered", "handshake"}
  <2>1. /\ at' \in {"negotiate", "closed"} /\ asked' = asked
        /\ at' = "closed" <=> at = "handshake"
    BY <1>1, <1>5
  <2>2. TypeOK'
    BY <1>1, <1>2, <1>3, <2>1 DEF IInv, TypeInv, TypeOK, scanVars, clientVars
  <2>3. TypeInv'
    BY <1>1, <1>3, <2>1, <2>2, ModelsKept DEF IInv, TypeInv, ScanInv, Early
  <2>4. TlsInv'
    BY <1>1, <1>3, <1>5, <2>1 DEF IInv, TlsInv, Early
  <2>5. ModelInv'
    BY <1>1, <1>3, <1>5, <2>1, ModelsKept DEF IInv, ModelInv, Early
  <2> QED
    BY <2>3, <2>4, <2>5 DEF IInv
<1>6. CASE at \in {"negotiate", "show", "read", "nvt"}
  <2>1. at' = "closed" /\ asked' = asked
    BY <1>1, <1>6
  <2> QED
    BY <1>1, <1>2, <1>6, <2>1, ServesOn DEF Serving
<1>7. at \in {"query", "offered", "handshake", "negotiate", "show", "read", "nvt"}
  BY DEF IInv, TypeInv, TypeOK, Serving
<1> QED
  BY <1>4, <1>5, <1>6, <1>7

-----------------------------------------------------------------------------
(* The steps of the client.                                                *)

\* What a client may say in the clear, and the types of what it brings.
LEMMA ClientTyped ==
  ASSUME IInv
  PROVE  /\ client.before \in Seq(ClearBytes)
         /\ \A n \in 1 .. Len(client.lines) : client.lines[n].bytes \in Seq(ClearBytes)
<1> DEFINE arrival == <<secure, client>>
<1>1. arrival \in Arrivals /\ arrival[2] = client
  BY DEF IInv, TypeInv, TypeOK
<1>2. /\ client.before \in Seq(Byte \ {"hello1"})
      /\ client.lines \in Seq([bytes : Seq(Byte \ {"hello1"}), command : Seq(Byte)])
  BY <1>1, ArrivalAssumption
<1>3. \A n \in 1 .. Len(client.lines) :
        client.lines[n] \in [bytes : Seq(Byte \ {"hello1"}), command : Seq(Byte)]
  BY <1>2, ElementOfSeq
<1> QED
  BY <1>2, <1>3, Alphabets

\* Bytes of the client arrive behind those under way.
LEMMA Said ==
  ASSUME IInv, NEW bytes, Say(bytes)
  PROVE  /\ at \in Early /\ bytes \in Seq(EarlyBytes) => up' \in Seq(EarlyBytes)
         /\ at \in Early /\ tls # "hello" /\ bytes \in Seq(ClearBytes) => up' \in Seq(ClearBytes)
BY ConcatProperties DEF Say, IInv, TypeInv, TlsInv

\* What the server holds while the client acts.
LEMMA ClientActs ==
  ASSUME IInv, UNCHANGED <<client, secure, at, scanVars, encrypted, model, histVars>>,
         down' \in Seq(Messages), at \in Early => up' \in Seq(EarlyBytes),
         keyboard' \in BOOLEAN, open' \in BOOLEAN, keys' \in Nat, mode' \in {"field", "character"},
         tls' \in {"no", "offered", "hello"}
  PROVE  TypeInv'
<1>1. /\ UNCHANGED <<asked, torn, tel, left, drained>> /\ Models' = Models
      /\ Codes(client)' = Codes(client)
  BY ModelsKept DEF scanVars, histVars
<1>2. TypeOK'
  BY <1>1 DEF IInv, TypeInv, TypeOK
<1>3. ScanInv'
  BY <1>1 DEF IInv, TypeInv, ScanInv
<1> QED
  BY <1>1, <1>2, <1>3 DEF IInv, TypeInv

\* What the client says or leaves unsaid, with no message read.
LEMMA Speaks ==
  ASSUME IInv,
         UNCHANGED <<secure, at, scanVars, encrypted, down, model, histVars, client, tls, mode>>,
         at \in Early => up' = up \/ \E bytes \in Seq(ClearBytes) : Say(bytes),
         keyboard' \in BOOLEAN, open' \in BOOLEAN, keys' \in Nat
  PROVE  IInv'
<1>1. at \in Early => up' \in Seq(EarlyBytes) /\ (tls # "hello" => up' \in Seq(ClearBytes))
  BY Said, Alphabets DEF IInv, TypeInv, TlsInv
<1>2. UNCHANGED asked /\ Codes(client)' = Codes(client)
  BY ModelsKept DEF histVars
<1>3. TypeInv'
  <2>1. /\ down' \in Seq(Messages) /\ mode' \in {"field", "character"}
        /\ tls' \in {"no", "offered", "hello"}
    BY DEF IInv, TypeInv, TypeOK
  <2> QED
    BY <1>1, <2>1, ClientActs
<1>4. TlsInv'
  BY <1>1 DEF IInv, TlsInv
<1>5. ModelInv'
  BY <1>2 DEF IInv, ModelInv
<1> QED
  BY <1>3, <1>4, <1>5 DEF IInv

\* Typing and pressing keys; before the session only a line-mode client does.
LEMMA InputInv ==
  ASSUME IInv, Press \/ TypeLine
  PROVE  IInv'
<1>1. keys \in Nat /\ keyboard \in BOOLEAN /\ open \in BOOLEAN
  BY DEF IInv, TypeInv, TypeOK
<1>2. CASE Press
  <2>1. /\ at \notin Early /\ keys' = keys + 1 /\ keyboard' = FALSE /\ open' = open
        /\ UNCHANGED <<secure, at, scanVars, encrypted, down, model, histVars, client, tls, mode>>
    BY <1>2 DEF Press, Serving, Early
  <2>2. keys' \in Nat
    BY <1>1, <2>1
  <2>3. keyboard' \in BOOLEAN /\ open' \in BOOLEAN
    BY <1>1, <2>1
  <2> QED
    BY <2>1, <2>2, <2>3, Speaks
<1>3. CASE TypeLine
  <2> DEFINE bytes == client.lines[keys + 1].bytes \o <<"CR", "LF">>
  <2>1. /\ Say(bytes) /\ keys < Len(client.lines) /\ keys' = keys + 1
        /\ UNCHANGED <<secure, at, scanVars, encrypted, down, model, histVars, client, tls, mode,
                       keyboard, open>>
    BY <1>3 DEF TypeLine
  <2>2. keys + 1 \in 1 .. Len(client.lines)
    <3>1. Len(client.lines) \in Nat
      <4> DEFINE arrival == <<secure, client>>
      <4>1. arrival \in Arrivals /\ arrival[2] = client
        BY DEF IInv, TypeInv, TypeOK
      <4> QED
        BY <4>1, ArrivalAssumption, LenProperties
    <3> QED
      BY <1>1, <2>1, <3>1
  <2>3. bytes \in Seq(ClearBytes)
    BY <2>2, ClientTyped, Alphabets, ConcatProperties
  <2> HIDE DEF bytes
  <2> QED
    BY <1>1, <2>1, <2>3, Speaks
<1> QED
  BY <1>2, <1>3

\* A client of an implicit TLS port says its hello.
LEMMA ConnectsInv ==
  ASSUME IInv, Connects
  PROVE  IInv'
<1>1. /\ at = "handshake" /\ secure = "implicit" /\ Say(Hello) /\ tls' = "hello"
      /\ UNCHANGED <<secure, at, scanVars, encrypted, down, model, histVars, client,
                     keyboard, keys, mode, open>>
  BY DEF Connects
<1>2. up' \in Seq(EarlyBytes)
  BY <1>1, Said, Alphabets DEF Early
<1>3. "FOLLOWS" \notin ToSet(down) /\ encrypted \in BOOLEAN
  BY <1>1 DEF IInv, TypeInv, TypeOK, TlsInv
<1>4. UNCHANGED asked /\ Codes(client)' = Codes(client)
  BY <1>1, ModelsKept DEF histVars
<1>5. TypeInv'
  <2>1. /\ down' \in Seq(Messages) /\ mode' \in {"field", "character"}
        /\ keyboard' \in BOOLEAN /\ open' \in BOOLEAN /\ keys' \in Nat
    BY <1>1 DEF IInv, TypeInv, TypeOK
  <2> QED
    BY <1>1, <1>2, <2>1, ClientActs
<1>6. TlsInv'
  BY <1>1, <1>3 DEF IInv, TlsInv
<1>7. ModelInv'
  BY <1>1, <1>4 DEF IInv, ModelInv
<1> QED
  BY <1>5, <1>6, <1>7 DEF IInv

\* A message reaches the client: the offer is answered, FOLLOWS by the hello,
\* and the reply mode is set.
LEMMA ReceiveInv ==
  ASSUME IInv, Receive
  PROVE  IInv'
<1> DEFINE m == Head(down)
<1>1. /\ down # <<>> /\ down' = Tail(down)
      /\ UNCHANGED <<client, keys, open, secure, at, scanVars, encrypted, rx, model, histVars>>
  BY DEF Receive
<1>2. down \in Seq(Messages)
  BY DEF IInv, TypeInv
<1>3. /\ down' \in Seq(Messages) /\ m \in ToSet(down) /\ m \in Messages
      /\ ToSet(down) = {m} \cup ToSet(down')
      /\ Len(down) \in Nat \ {0} /\ Len(down') = Len(down) - 1 /\ m = down[1]
      /\ \A k \in 1 .. Len(down') : down'[k] = down[k + 1]
  BY <1>1, <1>2, Taken, HeadTailProperties
<1>4. /\ \A k \in 1 .. Len(down') : down'[k] = "FOLLOWS" => k = Len(down')
      /\ m = "FOLLOWS" => ToSet(down') = {}
  <2>1. \A k \in 1 .. Len(down) : down[k] = "FOLLOWS" => k = Len(down)
    BY DEF IInv, TlsInv
  <2>2. \A k \in 1 .. Len(down') : k + 1 \in 1 .. Len(down)
    BY <1>3
  <2>3. \A k \in 1 .. Len(down') : down'[k] = "FOLLOWS" => k = Len(down')
    BY <2>1, <2>2, <1>3
  <2>4. ASSUME m = "FOLLOWS"
        PROVE  Len(down') = 0
    BY <2>1, <2>4, <1>3
  <2>5. DOMAIN down' = 1 .. Len(down')
    BY <1>3, LenProperties
  <2> QED
    <3>1. m = "FOLLOWS" => DOMAIN down' = {}
      BY <2>4, <2>5
    <3> QED
      BY <2>3, <3>1 DEF ToSet
<1>5. UNCHANGED asked /\ Codes(client)' = Codes(client)
  BY <1>1, ModelsKept DEF histVars
<1>6. /\ keyboard \in BOOLEAN /\ open \in BOOLEAN /\ encrypted \in BOOLEAN /\ keys \in Nat
      /\ mode \in {"field", "character"} /\ tls \in {"no", "offered", "hello"}
  BY DEF IInv, TypeInv, TypeOK
<1> HIDE DEF m
<1>7. ASSUME tls' = "hello" <=> tls = "hello", tls' \in {"no", "offered", "hello"},
             keyboard' \in BOOLEAN, mode' = (IF m = "SET MODE" THEN "character" ELSE mode),
             at \in Early => up' \in Seq(EarlyBytes) /\ (tls # "hello" => up' \in Seq(ClearBytes))
      PROVE  IInv'
  <2>1. TypeInv'
    BY <1>1, <1>3, <1>6, <1>7, ClientActs
  <2>2. TlsInv'
    BY <1>1, <1>3, <1>4, <1>7 DEF IInv, TlsInv
  <2>3. ModelInv'
    BY <1>1, <1>3, <1>5, <1>7 DEF IInv, ModelInv
  <2> QED
    BY <2>1, <2>2, <2>3 DEF IInv
<1>8. CASE m = "DO STARTTLS"
  <2> DEFINE answer == CASE client.tls = "will" -> <<"IAC", "WILL", "STARTTLS">> \o Follows
                         [] client.tls = "wont" -> <<"IAC", "WONT", "STARTTLS">>
                         [] OTHER -> <<>>
             bytes == client.before \o answer
  <2>1. /\ Say(bytes) /\ tls' = (IF client.tls = "will" THEN "offered" ELSE tls)
        /\ UNCHANGED <<sent, keyboard, mode>>
    BY <1>8 DEF Receive, m
  <2>2. bytes \in Seq(ClearBytes)
    <3>1. answer \in Seq(ClearBytes)
      BY Alphabets
    <3> HIDE DEF answer
    <3> QED
      BY <3>1, ClientTyped, ConcatProperties
  <2> HIDE DEF bytes
  <2>3. at \in Early => up' \in Seq(EarlyBytes) /\ (tls # "hello" => up' \in Seq(ClearBytes))
    BY <2>1, <2>2, Said, Alphabets
  <2> QED
    <3>1. tls # "hello"
      BY <1>3, <1>8 DEF IInv, TlsInv
    <3>2. /\ tls' = "hello" <=> tls = "hello"
          /\ tls' \in {"no", "offered", "hello"}
      BY <3>1, <1>6, <2>1
    <3>3. keyboard' \in BOOLEAN /\ mode' = mode
      BY <1>6, <2>1
    <3> QED
      BY <1>7, <1>8, <2>3, <3>2, <3>3
<1>9. CASE m = "FOLLOWS"
  <2>1. Say(Hello) /\ tls' = "hello" /\ UNCHANGED <<sent, keyboard, mode>>
    BY <1>9 DEF Receive, m
  <2>2. /\ at \in {"handshake", "closed"} /\ ToSet(down') = {}
        /\ encrypted => at \notin Early
    BY <1>3, <1>4, <1>9 DEF IInv, TlsInv
  <2>3. at \in Early => up' \in Seq(EarlyBytes)
    BY <2>1, Said, Alphabets
  <2>4. TypeInv'
    BY <1>1, <1>3, <1>6, <2>1, <2>3, ClientActs
  <2>5. TlsInv'
    BY <1>1, <1>3, <1>4, <1>6, <2>1, <2>2 DEF IInv, TlsInv
  <2>6. ModelInv'
    BY <1>1, <1>3, <1>5, <1>9, <2>1 DEF IInv, ModelInv
  <2> QED
    BY <2>4, <2>5, <2>6 DEF IInv
<1>10. CASE m \in {"QUERY", "SET MODE", "SCREEN"}
  <2>1. at \notin Early
    BY <1>3, <1>10 DEF IInv, TlsInv
  <2>2. /\ tls' = tls /\ keyboard' \in BOOLEAN
        /\ mode' = IF m = "SET MODE" THEN "character" ELSE mode
    BY <1>6, <1>10 DEF Receive, m
  <2> QED
    BY <1>6, <1>7, <2>1, <2>2
<1> QED
  BY <1>3, <1>8, <1>9, <1>10 DEF Messages

-----------------------------------------------------------------------------
(* The theorems.                                                           *)

\* No step of either side breaks the invariant.
LEMMA StepInv ==
  ASSUME IInv, [Next]_vars
  PROVE  IInv'
<1>1. CASE Start \/ ScanStarttls \/ Handshake
  BY <1>1, StartInv, ScanInvKept, HandshakeInv
<1>2. CASE Negotiate \/ ReadQueryReply \/ RequestReplyMode
  BY <1>2, NegotiateInv, ReadQueryReplyInv, RequestReplyModeInv
<1>3. CASE Show \/ ReadReply \/ ReadUnit \/ ServeLine \/ ReceiveLine \/ NegotiationCut
  BY <1>3, SessionInv
<1>4. CASE Timeout
  <2>1. at \in Timed /\ Failed("timeout")
    BY <1>4 DEF Timeout
  <2>2. at \notin {"start", "closed", "replymode"}
    BY <2>1 DEF Timed
  <2> QED
    BY <2>1, <2>2, FailedInv
<1>5. CASE Disconnected
  BY <1>5, FailedInv DEF Disconnected
<1>6. CASE Receive \/ Connects \/ Press \/ TypeLine
  BY <1>6, ReceiveInv, ConnectsInv, InputInv
<1>7. CASE HangUp \/ UNCHANGED vars
  <2>1. /\ open' \in {FALSE, open} /\ keys' = keys /\ keyboard' = keyboard /\ up' = up
        /\ UNCHANGED <<secure, at, scanVars, encrypted, down, model, histVars, client, tls, mode>>
    BY <1>7 DEF HangUp, vars, scanVars, histVars, clientVars
  <2>2. keyboard \in BOOLEAN /\ open \in BOOLEAN /\ keys \in Nat
    BY DEF IInv, TypeInv, TypeOK
  <2>3. keyboard' \in BOOLEAN /\ open' \in BOOLEAN /\ keys' \in Nat
    BY <2>1, <2>2
  <2> QED
    BY <2>1, <2>3, Speaks
<1> QED
  BY <1>1, <1>2, <1>3, <1>4, <1>5, <1>6, <1>7 DEF Next, Server

\* The invariant holds of every connection, whoever connects and however the
\* server was started.
THEOREM Invariant == Spec => []IInv
<1>1. IInv /\ [Next]_vars => IInv'
  BY StepInv
<1> QED
  BY InitInv, <1>1, PTL DEF Spec

\* Types, and no size is taken from a Query Reply whose cells cannot all be
\* addressed (server.py:770-784).
THEOREM ConnectionTyped == Spec => []TypeOK
<1>1. IInv => TypeOK
  BY DEF IInv, TypeInv
<1> QED
  BY Invariant, <1>1, PTL

\* A session runs over TLS exactly if the client has said its hello, after a
\* refusal, a timeout or an offer given up as after an acceptance
\* (server.py:1489-1540).
THEOREM TlsAlwaysAgreed == Spec => []TlsAgreed
<1>1. IInv => TlsAgreed
  BY DEF IInv, TlsInv, TlsAgreed, Serving
<1> QED
  BY Invariant, <1>1, PTL

\* However late the Query Reply is, the server's model of the terminal is what
\* the terminal said; without one it is what the terminal type says, but for
\* the colour, which any other record takes away (server.py:626-790).
THEOREM ModelAlwaysHonest == Spec => []ModelHonest
<1>1. IInv => ModelHonest
  <2> SUFFICES ASSUME IInv
               PROVE  ModelHonest
    OBVIOUS
  <2>1. /\ model.mode \in {"field", "character"} /\ mode \in {"field", "character"}
        /\ mode = "character" \/ "SET MODE" \in ToSet(down) <=> model.mode = "character"
        /\ model.mode = "character" => "replymodes" \in Codes(client)
    BY DEF IInv, TypeInv, TypeOK, ModelInv, Models
  <2>2. down = <<>> => mode = model.mode
    <3> HAVE down = <<>>
    <3>1. ToSet(down) = {}
      <4>1. DOMAIN down = {}
        OBVIOUS
      <4> QED
        BY <4>1 DEF ToSet
    <3>2. mode = "character" <=> model.mode = "character"
      BY <2>1, <3>1
    <3>3. mode \in {"field", "character"} /\ model.mode \in {"field", "character"}
      BY <2>1
    <3> QED
      BY <3>2, <3>3
  <2>3. {mode, model.mode} \subseteq {"field"} \cup
          (IF "replymodes" \in Codes(client) THEN {"character"} ELSE {})
    BY <2>1
  <2> QED
    BY <2>2, <2>3 DEF IInv, ModelInv, ModelHonest, Undiscovered
<1> QED
  BY Invariant, <1>1, PTL
-----------------------------------------------------------------------------
(* The hello behind START-TLS.                                             *)

\* Bytes that do not accept START-TLS, whatever comes before them.
Unoffered(bytes) ==
  /\ Len(bytes) # 0 => bytes[1] # "STARTTLS"
  /\ \A k \in 1 .. Len(bytes) - 1 : bytes[k] = "WILL" => bytes[k + 1] # "STARTTLS"

\* Behind the k-th byte under way, the client's FOLLOWS and nothing else.
FollowsFrom(k) ==
  tls = "offered" /\ Len(up) = k + 6 /\ \A j \in 1 .. 6 : up[k + j] = Follows[j]

\* The bytes of FOLLOWS the drain has not read are those under way.
Drains ==
  /\ tls = "offered" /\ Len(up) \in 1 .. 6 /\ drained = ScanLimit - (6 - Len(up))
  /\ \A j \in 1 .. Len(up) : up[j] = Follows[(6 - Len(up)) + j]
  /\ tel = "drainIac" <=> Len(up) \in {1, 5}

\* The scan reads WILL STARTTLS only where FOLLOWS comes behind it.
OffersUnderWay ==
  /\ \A k \in 1 .. Len(up) - 1 : up[k] = "WILL" /\ up[k + 1] = "STARTTLS" => FollowsFrom(k + 1)
  /\ tel = "WILL" /\ Len(up) # 0 => (up[1] = "STARTTLS" => FollowsFrom(1))

\* Where the offer stands, and that the handshake begins with the hello.
OfferInv ==
  /\ at \in Early /\ tls # "no" => client.tls = "will"
  /\ at = "start" => up = <<>> /\ down = <<>> /\ tls = "no" /\ tel = "text"
  /\ at = "offered" =>
       /\ down = <<>> \/ (down = <<"DO STARTTLS">> /\ tls = "no")
       /\ OffersUnderWay
       /\ tel \in {"drain", "drainIac"} => Drains
  /\ at = "handshake" /\ secure = "starttls" =>
       \/ tls = "offered" /\ down = <<"FOLLOWS">> /\ up = <<>>
       \/ tls = "hello" /\ down = <<>> /\ up = Hello

\* The six bytes of FOLLOWS.
LEMMA FollowsBytes ==
  /\ Len(Follows) = 6 /\ Follows[1] = "IAC" /\ Follows[2] = "SB" /\ Follows[3] = "STARTTLS"
  /\ Follows[4] = "FOLLOWS" /\ Follows[5] = "IAC" /\ Follows[6] = "SE"
BY DEF Follows

\* How the scan comes to a WILL, to the drain and to its end.
LEMMA ScanTurns ==
  ASSUME NEW t \in {"text", "cmd"} \cup Verbs \cup Draining, NEW n, NEW d \in 0 .. ScanLimit, NEW b
  PROVE  LET s == Decided(ScanByte([tel |-> t, left |-> n, drained |-> d], b))
         IN /\ s.tel = "WILL" => b = "WILL"
            /\ s.tel \in {"drain", "drainIac"} =>
                 \/ t = "WILL" /\ b = "STARTTLS" /\ s.tel = "drain" /\ s.drained = d
                 \/ /\ t \in {"drain", "drainIac"} /\ s.drained = d - 1
                    /\ s.tel = "drainIac" <=> b = "IAC"
                    /\ ~(t = "drainIac" /\ b = "SE")
            /\ s.tel = "accepted" => \/ t = "drainIac" /\ b = "SE"
                                     \/ t \in {"drain", "drainIac"} /\ d = 1
                                     \/ t = "WILL" /\ b = "STARTTLS" /\ d = 0
<1> USE LimitAssumption
<1> DEFINE r == [tel |-> t, left |-> n, drained |-> d]
           u == ScanByte(r, b)
<1>1. r.tel = t /\ r.left = n /\ r.drained = d
  OBVIOUS
<1>2. CASE t = "text"
  <2>1. u = [r EXCEPT !.tel = IF b = "IAC" THEN "cmd" ELSE "text", !.left = n - 1]
    BY <1>1, <1>2 DEF ScanByte, Verbs
  <2>2. u.tel \in {"text", "cmd"}
    BY <2>1
  <2> HIDE DEF u
  <2>3. Decided(u) = u
    BY <2>2 DEF Decided
  <2> QED
    BY <2>2, <2>3 DEF u
<1>3. CASE t = "cmd"
  <2>1. u = [r EXCEPT !.tel = IF b \in Verbs THEN b ELSE IF b = "SB" THEN "skip" ELSE "text",
                      !.drained = ScanLimit]
    BY <1>1, <1>3 DEF ScanByte, Verbs
  <2>2. /\ u.tel \in Verbs \cup {"skip", "text"} /\ u.drained = ScanLimit
        /\ u.tel = "WILL" => b = "WILL"
    BY <2>1 DEF Verbs
  <2> HIDE DEF u
  <2>3. Decided(u) = u
    BY <2>2 DEF Decided, Verbs
  <2> QED
    BY <2>2, <2>3 DEF u, Verbs
<1>4. CASE t \in Verbs
  <2>1. u = [r EXCEPT !.tel = CASE b # "STARTTLS" -> "text"
                                [] b = "STARTTLS" /\ t = "WILL" -> "drain"
                                [] OTHER -> "refused"]
    BY <1>1, <1>4 DEF ScanByte, Verbs
  <2> DEFINE next == CASE b # "STARTTLS" -> "text"
                       [] b = "STARTTLS" /\ t = "WILL" -> "drain"
                       [] OTHER -> "refused"
  <2>2. /\ u.tel \in {"text", "drain", "refused"} /\ u.drained = d
        /\ u.tel = "drain" => t = "WILL" /\ b = "STARTTLS"
        /\ DOMAIN u = {"tel", "left", "drained"}
    <3>1. /\ next \in {"text", "drain", "refused"}
          /\ next = "drain" => t = "WILL" /\ b = "STARTTLS"
      OBVIOUS
    <3>2. u = [r EXCEPT !.tel = next]
      BY <2>1
    <3> HIDE DEF next, u
    <3>3. u.tel = next /\ u.drained = d /\ DOMAIN u = {"tel", "left", "drained"}
      BY <3>2
    <3> QED
      BY <3>1, <3>3
  <2> HIDE DEF u
  <2>3. \/ Decided(u) = u
        \/ u.tel = "drain" /\ d = 0 /\ Decided(u) = [u EXCEPT !.tel = "accepted"]
    BY <2>2 DEF Decided
  <2>4. CASE Decided(u) = u
    BY <2>2, <2>4 DEF u
  <2>5. CASE u.tel = "drain" /\ d = 0 /\ Decided(u) = [u EXCEPT !.tel = "accepted"]
    <3>1. Decided(u).tel = "accepted"
      BY <2>2, <2>5
    <3> QED
      BY <3>1, <2>2, <2>5 DEF u
  <2> QED
    BY <2>3, <2>4, <2>5
<1>5. CASE t \in {"skipIac", "drainIac"} /\ b = "SE"
  <2>1. u = [r EXCEPT !.tel = IF t = "skipIac" THEN "text" ELSE "accepted"]
    BY <1>1, <1>5 DEF ScanByte, Verbs
  <2>2. u.tel \in {"text", "accepted"} /\ (u.tel = "accepted" => t = "drainIac")
    <3>1. u.tel = IF t = "skipIac" THEN "text" ELSE "accepted"
      BY <2>1
    <3> HIDE DEF u
    <3> QED
      BY <3>1, <1>5
  <2> HIDE DEF u
  <2>3. Decided(u) = u
    BY <2>2 DEF Decided
  <2> QED
    BY <2>2, <2>3, <1>5 DEF u
<1>6. CASE t \in Draining /\ ~(t \in {"skipIac", "drainIac"} /\ b = "SE")
  <2> DEFINE next == IF t \in {"skip", "skipIac"} THEN IF b = "IAC" THEN "skipIac" ELSE "skip"
                     ELSE IF b = "IAC" THEN "drainIac" ELSE "drain"
  <2>1. u = [r EXCEPT !.tel = next, !.drained = d - 1]
    BY <1>1, <1>6 DEF ScanByte, Verbs, Draining
  <2>2. /\ u.tel \in Draining /\ u.drained = d - 1 /\ DOMAIN u = {"tel", "left", "drained"}
        /\ u.tel \in {"drain", "drainIac"} => t \in {"drain", "drainIac"}
        /\ u.tel \in {"drain", "drainIac"} => (u.tel = "drainIac" <=> b = "IAC")
    <3>1. /\ next \in Draining /\ (next \in {"drain", "drainIac"} => t \in {"drain", "drainIac"})
          /\ next \in {"drain", "drainIac"} => (next = "drainIac" <=> b = "IAC")
      BY <1>6 DEF Draining
    <3> HIDE DEF next, u
    <3>2. u.tel = next /\ u.drained = d - 1 /\ DOMAIN u = {"tel", "left", "drained"}
      BY <2>1
    <3> QED
      BY <3>1, <3>2
  <2> HIDE DEF u
  <2>3. CASE d - 1 # 0
    <3>1. Decided(u) = u
      BY <2>2, <2>3 DEF Decided
    <3> QED
      BY <3>1, <2>2, <1>6 DEF u, Draining
  <2>4. CASE d - 1 = 0
    <3>1. \/ u.tel \in {"skip", "skipIac"} /\ Decided(u) = [u EXCEPT !.tel = "text"]
          \/ u.tel \in {"drain", "drainIac"} /\ Decided(u) = [u EXCEPT !.tel = "accepted"]
      BY <2>2, <2>4 DEF Decided, Draining
    <3>2. \/ Decided(u).tel = "text"
          \/ t \in {"drain", "drainIac"} /\ Decided(u).tel = "accepted"
      BY <3>1, <2>2
    <3>3. d = 1
      BY <2>4
    <3> QED
      BY <3>2, <3>3 DEF u
  <2> QED
    BY <2>3, <2>4
<1> QED
  BY <1>2, <1>3, <1>4, <1>5, <1>6 DEF Draining

\* One sequence of bytes behind another.
LEMMA Joined ==
  ASSUME NEW S, NEW s \in Seq(S), NEW t \in Seq(S)
  PROVE  LET u == s \o t
         IN /\ u \in Seq(S) /\ Len(s) \in Nat /\ Len(t) \in Nat /\ Len(u) = Len(s) + Len(t)
            /\ \A k \in 1 .. Len(s) : u[k] = s[k]
            /\ \A i \in 1 .. Len(t) : u[Len(s) + i] = t[i]
<1> DEFINE u == s \o t
           L == Len(s)
           N == Len(t)
<1>1. L \in Nat /\ N \in Nat
  BY LenProperties
<1>2. /\ u \in Seq(S) /\ Len(u) = L + N
      /\ \A k \in 1 .. L + N : u[k] = IF k <= L THEN s[k] ELSE t[k - L]
  BY ConcatProperties
<1> HIDE DEF u, L, N
<1>3. ASSUME NEW i \in 1 .. N
      PROVE  u[L + i] = t[i]
  <2>1. L + i \in 1 .. L + N /\ ~(L + i <= L) /\ (L + i) - L = i
    BY <1>1
  <2> QED
    BY <1>2, <2>1
<1>4. \A k \in 1 .. L : k \in 1 .. L + N /\ k <= L
  BY <1>1
<1> QED
  BY <1>1, <1>2, <1>3, <1>4 DEF u, L, N

\* What is left under way of a FOLLOWS when one byte has been read.
LEMMA FollowsShift ==
  ASSUME NEW S, up \in Seq(S), up # <<>>, up' = Tail(up), tls' = tls, NEW k \in Nat,
         FollowsFrom(k + 1)
  PROVE  FollowsFrom(k)'
<1>1. /\ Len(up) \in Nat \ {0} /\ Len(up') = Len(up) - 1
      /\ \A i \in 1 .. Len(up') : up'[i] = up[i + 1]
  BY Taken
<1>2. tls = "offered" /\ Len(up) = (k + 1) + 6 /\ \A j \in 1 .. 6 : up[(k + 1) + j] = Follows[j]
  BY DEF FollowsFrom
<1>3. Len(up') = k + 6
  BY <1>1, <1>2
<1>4. ASSUME NEW j \in 1 .. 6
      PROVE  up'[k + j] = Follows[j]
  <2>1. k + j \in 1 .. Len(up') /\ (k + j) + 1 = (k + 1) + j
    BY <1>3
  <2> QED
    BY <1>1, <1>2, <2>1
<1> QED
  BY <1>2, <1>3, <1>4 DEF FollowsFrom

\* Bytes said in the clear accept the offer with FOLLOWS behind, or not at all.
LEMMA OffersSaid ==
  ASSUME NEW S, up \in Seq(S), NEW bytes \in Seq(S), Say(bytes), tls # "offered", tel' = tel,
         OffersUnderWay, Len(bytes) # 0 => bytes[1] # "STARTTLS",
         \A i \in 1 .. Len(bytes) - 1 : bytes[i] = "WILL" /\ bytes[i + 1] = "STARTTLS" =>
           /\ tls' = "offered" /\ Len(bytes) = i + 7
           /\ \A j \in 1 .. 6 : bytes[(i + 1) + j] = Follows[j]
  PROVE  OffersUnderWay'
<1> DEFINE L == Len(up)
           N == Len(bytes)
<1>1. /\ L \in Nat /\ N \in Nat /\ Len(up') = L + N
      /\ \A k \in 1 .. L : up'[k] = up[k]
      /\ \A i \in 1 .. N : up'[L + i] = bytes[i]
  BY Joined DEF Say
<1>2. \A k \in 1 .. L - 1 : ~(up[k] = "WILL" /\ up[k + 1] = "STARTTLS")
  BY DEF OffersUnderWay, FollowsFrom
<1>3. tel = "WILL" /\ L # 0 => up[1] # "STARTTLS"
  BY DEF OffersUnderWay, FollowsFrom
<1>4. N # 0 => bytes[1] # "STARTTLS"
  OBVIOUS
<1> HIDE DEF L, N
<1>5. N # 0 => up'[L + 1] # "STARTTLS"
  <2>1. N # 0 => 1 \in 1 .. N
    BY <1>1
  <2> QED
    BY <1>1, <1>4, <2>1
<1>6. ASSUME NEW k \in 1 .. L + N - 1, up'[k] = "WILL", up'[k + 1] = "STARTTLS"
      PROVE  FollowsFrom(k + 1)'
  <2>1. CASE k \in 1 .. L - 1
    <3>1. k \in 1 .. L /\ k + 1 \in 1 .. L
      BY <1>1, <2>1
    <3> QED
      BY <1>1, <1>2, <1>6, <2>1, <3>1
  <2>2. CASE k = L
    BY <1>1, <1>5, <1>6, <2>2
  <2>3. CASE k \notin 1 .. L
    <3>1. PICK i \in 1 .. N - 1 : k = L + i
      <4>1. k - L \in 1 .. N - 1 /\ k = L + (k - L)
        BY <1>1, <2>3
      <4> QED
        BY <4>1
    <3>2. /\ i \in 1 .. N /\ i + 1 \in 1 .. N /\ k + 1 = L + (i + 1)
      BY <1>1, <3>1
    <3>3. bytes[i] = "WILL" /\ bytes[i + 1] = "STARTTLS"
      BY <1>1, <1>6, <3>1, <3>2
    <3>4. tls' = "offered" /\ N = i + 7 /\ \A j \in 1 .. 6 : bytes[(i + 1) + j] = Follows[j]
      BY <3>1, <3>3 DEF N
    <3>5. Len(up') = (k + 1) + 6
      BY <1>1, <3>1, <3>4
    <3>6. ASSUME NEW j \in 1 .. 6
          PROVE  up'[(k + 1) + j] = Follows[j]
      <4>0. N = i + 7
        BY <3>4
      <4>1. (i + 1) + j \in 1 .. N /\ (k + 1) + j = L + ((i + 1) + j)
        BY <1>1, <3>1, <4>0
      <4> QED
        BY <1>1, <3>4, <4>1
    <3> QED
      BY <3>4, <3>5, <3>6 DEF FollowsFrom
  <2> QED
    BY <1>1, <2>1, <2>2, <2>3
<1>7. ASSUME tel = "WILL", Len(up') # 0
      PROVE  up'[1] # "STARTTLS"
  <2>1. CASE L = 0
    BY <1>1, <1>5, <1>7, <2>1
  <2>2. CASE L # 0
    <3>1. 1 \in 1 .. L
      BY <1>1, <2>2
    <3> QED
      BY <1>1, <1>3, <1>7, <2>2, <3>1
  <2> QED
    BY <2>1, <2>2
<1> QED
  BY <1>1, <1>6, <1>7 DEF OffersUnderWay

\* The acceptance, behind what a client says before it.
LEMMA AcceptanceOffers ==
  ASSUME NEW S, NEW before \in Seq(S), \A k \in 1 .. Len(before) : before[k] # "STARTTLS",
         <<"IAC", "WILL", "STARTTLS">> \o Follows \in Seq(S)
  PROVE  LET bytes == before \o (<<"IAC", "WILL", "STARTTLS">> \o Follows)
         IN /\ bytes[1] # "STARTTLS"
            /\ \A i \in 1 .. Len(bytes) - 1 : bytes[i] = "WILL" /\ bytes[i + 1] = "STARTTLS" =>
                 Len(bytes) = i + 7 /\ \A j \in 1 .. 6 : bytes[(i + 1) + j] = Follows[j]
<1> DEFINE accept == <<"IAC", "WILL", "STARTTLS">> \o Follows
           bytes == before \o accept
           B == Len(before)
<1>1. /\ accept \in Seq(S) /\ Len(accept) = 9
      /\ accept[1] = "IAC" /\ accept[2] = "WILL" /\ accept[3] = "STARTTLS"
      /\ \A j \in 1 .. 6 : accept[3 + j] = Follows[j]
  BY DEF Follows
<1>2. \A i \in 1 .. 9 : accept[i] = "WILL" => i = 2
  <2>1. \A j \in 1 .. 6 : Follows[j] # "WILL"
    BY FollowsBytes
  <2>2. ASSUME NEW i \in 4 .. 9
        PROVE  accept[i] # "WILL"
    <3>1. i - 3 \in 1 .. 6 /\ 3 + (i - 3) = i
      OBVIOUS
    <3> HIDE DEF accept
    <3> QED
      BY <1>1, <2>1, <3>1
  <2>3. \A i \in 1 .. 9 : i \in {1, 2, 3} \cup 4 .. 9
    OBVIOUS
  <2> HIDE DEF accept
  <2> QED
    BY <1>1, <2>2, <2>3
<1> HIDE DEF accept
<1>3. /\ B \in Nat /\ Len(bytes) = B + 9
      /\ \A k \in 1 .. B : bytes[k] = before[k]
      /\ \A i \in 1 .. 9 : bytes[B + i] = accept[i]
  <2>1. /\ B \in Nat /\ Len(bytes) = B + Len(accept)
        /\ \A k \in 1 .. B : bytes[k] = before[k]
        /\ \A i \in 1 .. Len(accept) : bytes[B + i] = accept[i]
    <3>1. accept \in Seq(S)
      BY <1>1
    <3> QED
      BY <3>1, Joined
  <2> QED
    BY <1>1, <2>1
<1>4. \A k \in 1 .. B : before[k] # "STARTTLS"
  OBVIOUS
<1> HIDE DEF bytes, B
<1>5. bytes[1] # "STARTTLS"
  <2>1. CASE B = 0
    <3>1. 1 \in 1 .. 9 /\ B + 1 = 1
      BY <2>1
    <3> QED
      BY <1>1, <1>3, <3>1
  <2>2. CASE B # 0
    <3>1. 1 \in 1 .. B
      BY <1>3, <2>2
    <3> QED
      BY <1>3, <1>4, <3>1
  <2> QED
    BY <2>1, <2>2
<1>6. ASSUME NEW i \in 1 .. B + 9 - 1, bytes[i] = "WILL", bytes[i + 1] = "STARTTLS"
      PROVE  B + 9 = i + 7 /\ \A j \in 1 .. 6 : bytes[(i + 1) + j] = Follows[j]
  <2>1. i + 1 \notin 1 .. B
    BY <1>3, <1>4, <1>6
  <2>2. i # B
    <3>1. 1 \in 1 .. 9
      OBVIOUS
    <3> QED
      BY <1>1, <1>3, <1>6, <3>1
  <2>3. i - B \in 1 .. 9 /\ i = B + (i - B)
    BY <1>3, <2>1, <2>2
  <2>4. i = B + 2
    <3>1. accept[i - B] = "WILL"
      BY <1>3, <1>6, <2>3
    <3>2. i - B = 2
      BY <1>2, <2>3, <3>1
    <3> QED
      BY <1>3, <2>3, <3>2
  <2>5. ASSUME NEW j \in 1 .. 6
        PROVE  bytes[(i + 1) + j] = Follows[j]
    <3>1. (i + 1) + j = B + (3 + j) /\ 3 + j \in 1 .. 9
      BY <1>3, <2>4
    <3> QED
      BY <1>1, <1>3, <3>1
  <2> QED
    BY <1>3, <2>4, <2>5
<1>7. /\ bytes[1] # "STARTTLS"
      /\ \A i \in 1 .. Len(bytes) - 1 : bytes[i] = "WILL" /\ bytes[i + 1] = "STARTTLS" =>
           Len(bytes) = i + 7 /\ \A j \in 1 .. 6 : bytes[(i + 1) + j] = Follows[j]
  BY <1>3, <1>5, <1>6
<1> QED
  BY <1>7 DEF bytes, accept

\* A tail that says nothing of START-TLS but its refusal accepts nothing.
LEMMA NothingOffered ==
  ASSUME NEW S, NEW s \in Seq(S), \A k \in 1 .. Len(s) : s[k] # "STARTTLS",
         NEW t \in Seq(S), \A k \in 1 .. Len(t) : t[k] = "STARTTLS" => k > 1 /\ t[k - 1] # "WILL"
  PROVE  s \o t \in Seq(S) /\ Unoffered(s \o t)
<1> DEFINE u == s \o t
           L == Len(s)
           N == Len(t)
<1>1. /\ u \in Seq(S) /\ L \in Nat /\ N \in Nat /\ Len(u) = L + N
      /\ \A k \in 1 .. L : u[k] = s[k]
      /\ \A i \in 1 .. N : u[L + i] = t[i]
  BY Joined
<1>2. /\ \A k \in 1 .. L : s[k] # "STARTTLS"
      /\ \A k \in 1 .. N : t[k] = "STARTTLS" => k > 1 /\ t[k - 1] # "WILL"
  OBVIOUS
<1> HIDE DEF u, L, N
<1>3. ASSUME NEW k \in 1 .. L + N, u[k] = "STARTTLS"
      PROVE  k > 1 /\ u[k - 1] # "WILL"
  <2>1. k \notin 1 .. L
    BY <1>1, <1>2, <1>3
  <2>2. k - L \in 1 .. N /\ k = L + (k - L)
    BY <1>1, <2>1
  <2>3. k - L > 1 /\ t[(k - L) - 1] # "WILL"
    BY <1>1, <1>2, <1>3, <2>2
  <2>4. (k - L) - 1 \in 1 .. N /\ L + ((k - L) - 1) = k - 1
    BY <1>1, <2>2, <2>3
  <2> QED
    BY <1>1, <2>2, <2>3, <2>4
<1>4. L + N # 0 => u[1] # "STARTTLS"
  <2>1. L + N # 0 => 1 \in 1 .. L + N
    BY <1>1
  <2> QED
    BY <1>3, <2>1
<1>5. ASSUME NEW k \in 1 .. L + N - 1, u[k] = "WILL"
      PROVE  u[k + 1] # "STARTTLS"
  <2>1. k + 1 \in 1 .. L + N /\ (k + 1) - 1 = k
    BY <1>1
  <2> QED
    BY <1>3, <1>5, <2>1
<1>6. u \in Seq(S) /\ Unoffered(u)
  BY <1>1, <1>4, <1>5 DEF Unoffered
<1> QED
  BY <1>6 DEF u

\* A client answers the offer when it has read it, and not before.
LEMMA ClientUnoffered ==
  ASSUME IInv
  PROVE  /\ \A k \in 1 .. Len(client.before) : client.before[k] # "STARTTLS"
         /\ \A n \in 1 .. Len(client.lines) : \A k \in 1 .. Len(client.lines[n].bytes) :
              client.lines[n].bytes[k] # "STARTTLS"
<1> DEFINE arrival == <<secure, client>>
<1>1. arrival \in Arrivals /\ arrival[2] = client
  BY DEF IInv, TypeInv, TypeOK
<1>2. /\ "STARTTLS" \notin ToSet(client.before)
      /\ \A n \in DOMAIN client.lines :
           {"LF", "SB", "STARTTLS"} \cap ToSet(client.lines[n].bytes) = {}
  BY <1>1, TalkAssumption
<1>3. DOMAIN client.lines = 1 .. Len(client.lines)
  BY <1>1, ArrivalAssumption, LenProperties
<1>4. \A x \in Seq(ClearBytes) : \A k \in 1 .. Len(x) : x[k] \in ToSet(x)
  BY LenProperties DEF ToSet
<1> QED
  BY <1>2, <1>3, <1>4, ClientTyped

\* Behind the handshake nothing of it is at stake.
LEMMA OfferPast ==
  ASSUME at' \notin Early
  PROVE  OfferInv'
BY DEF OfferInv, Early

\* The thread makes its offer.
LEMMA OfferStart ==
  ASSUME IInv, OfferInv, Start
  PROVE  OfferInv'
<1>1. /\ at = "start" /\ UNCHANGED <<secure, tel, drained, up, client, tls>>
      /\ at' = CASE secure = "plain" -> "negotiate"
                 [] secure = "implicit" -> "handshake"
                 [] OTHER -> "offered"
      /\ down' = IF secure = "starttls" THEN Append(down, "DO STARTTLS") ELSE down
  BY DEF Start, scanVars, clientVars
<1>2. up = <<>> /\ down = <<>> /\ tls = "no" /\ tel = "text"
  BY <1>1 DEF OfferInv
<1>3. /\ at' \in {"negotiate", "handshake", "offered"}
      /\ at' = "offered" => secure # "implicit"
      /\ at' = "handshake" => secure = "implicit"
  BY <1>1
<1>4. down' \in {<<>>, <<"DO STARTTLS">>}
  <2>1. Append(<<>>, "DO STARTTLS") = <<"DO STARTTLS">>
    OBVIOUS
  <2> QED
    BY <1>1, <1>2, <2>1
<1>5. OffersUnderWay'
  <2>1. up' = <<>> /\ tel' = "text"
    BY <1>1, <1>2
  <2>2. 1 .. Len(up') = {}
    BY <2>1
  <2> QED
    BY <2>1, <2>2 DEF OffersUnderWay
<1> QED
  BY <1>1, <1>2, <1>3, <1>4, <1>5 DEF OfferInv

\* The drain has read one more byte of FOLLOWS.
LEMMA DrainsOn ==
  ASSUME Drains, up \in Seq(ClearBytes), up' = Tail(up), tls' = tls, drained \in Nat,
         drained' = drained - 1, tel' = "drainIac" <=> Head(up) = "IAC",
         ~(tel = "drainIac" /\ Head(up) = "SE"), ScanLimit >= 6
  PROVE  Drains'
<1> USE LimitAssumption
<1> DEFINE n == Len(up)
<1>1. /\ tls = "offered" /\ n \in 1 .. 6 /\ drained = ScanLimit - (6 - n)
      /\ \A j \in 1 .. n : up[j] = Follows[(6 - n) + j]
      /\ tel = "drainIac" <=> n \in {1, 5}
  BY DEF Drains
<1>2. up # <<>>
  BY <1>1, EmptySeq
<1>3. /\ Head(up) = up[1] /\ Len(up') = n - 1
      /\ \A k \in 1 .. n - 1 : up'[k] = up[k + 1]
  BY <1>2, Taken
<1> HIDE DEF n
<1>4. up[1] = Follows[7 - n]
  <2>1. 1 \in 1 .. n /\ (6 - n) + 1 = 7 - n
    BY <1>1
  <2> QED
    BY <1>1, <2>1
<1>5. n # 1
  BY <1>1, <1>3, <1>4, FollowsBytes
<1>6. tel' = "drainIac" <=> n - 1 \in {1, 5}
  <2>1. n \in {2, 3, 4, 5, 6}
    BY <1>1, <1>5
  <2>2. /\ n = 2 => 7 - n = 5
        /\ n = 3 => 7 - n = 4
        /\ n = 4 => 7 - n = 3
        /\ n = 5 => 7 - n = 2
        /\ n = 6 => 7 - n = 1
    OBVIOUS
  <2>3. Head(up) = "IAC" <=> n \in {2, 6}
    BY <1>3, <1>4, <2>1, <2>2, FollowsBytes
  <2> QED
    BY <2>1, <2>3
<1>7. ASSUME NEW j \in 1 .. n - 1
      PROVE  up'[j] = Follows[(6 - (n - 1)) + j]
  <2>1. j + 1 \in 1 .. n /\ (6 - n) + (j + 1) = (6 - (n - 1)) + j
    BY <1>1
  <2> QED
    BY <1>1, <1>3, <2>1
<1>8. n - 1 \in 1 .. 6 /\ drained' = ScanLimit - (6 - (n - 1))
  BY <1>1, <1>5
<1> QED
  BY <1>1, <1>3, <1>6, <1>7, <1>8 DEF Drains

\* A byte of the scan takes the offer on to the handshake, once the whole
\* FOLLOWS has been read.
LEMMA OfferScan ==
  ASSUME IInv, OfferInv, ScanStarttls, ScanLimit >= 6
  PROVE  OfferInv'
<1> USE LimitAssumption
<1> DEFINE s == Decided(ScanByte([tel |-> tel, left |-> left, drained |-> drained], Head(up)))
           b == Head(up)
           gaveUp == s.tel = "text" /\ s.left = 0
<1>1. /\ at = "offered" /\ up # <<>> /\ tel' = s.tel /\ drained' = s.drained
      /\ at' = CASE s.tel = "accepted" -> "handshake"
                 [] s.tel = "refused" \/ gaveUp -> "negotiate"
                 [] OTHER -> at
      /\ down' = IF s.tel = "accepted" THEN Append(down, "FOLLOWS") ELSE down
      /\ up' = Tail(up)
      /\ UNCHANGED <<secure, client, tls>>
  BY DEF ScanStarttls, clientVars
<1>2. /\ tel \in {"text", "cmd"} \cup Verbs \cup Draining /\ drained \in 0 .. ScanLimit
      /\ tel \in Verbs => drained = ScanLimit
      /\ up \in Seq(ClearBytes)
  BY <1>1 DEF IInv, TypeInv, TypeOK, ScanInv, TlsInv, Early
<1>3. /\ s.tel = "WILL" => b = "WILL"
      /\ s.tel \in {"drain", "drainIac"} =>
           \/ tel = "WILL" /\ b = "STARTTLS" /\ s.tel = "drain" /\ s.drained = drained
           \/ /\ tel \in {"drain", "drainIac"} /\ s.drained = drained - 1
              /\ s.tel = "drainIac" <=> b = "IAC"
              /\ ~(tel = "drainIac" /\ b = "SE")
      /\ s.tel = "accepted" => \/ tel = "drainIac" /\ b = "SE"
                               \/ tel \in {"drain", "drainIac"} /\ drained = 1
                               \/ tel = "WILL" /\ b = "STARTTLS" /\ drained = 0
  <2>1. /\ tel \in {"text", "cmd"} \cup Verbs \cup Draining /\ drained \in 0 .. ScanLimit
    BY <1>2
  <2> HIDE DEF s, b
  <2> QED
    BY <2>1, ScanTurns DEF s, b
<1>4. /\ Len(up) \in Nat \ {0} /\ Len(up') = Len(up) - 1 /\ b = up[1]
      /\ \A k \in 1 .. Len(up') : up'[k] = up[k + 1]
  BY <1>1, <1>2, Taken
<1> HIDE DEF s, b
<1>5. /\ at' \in {"handshake", "negotiate", "offered"}
      /\ at' = "handshake" <=> s.tel = "accepted"
  BY <1>1
<1>6. /\ down = <<>> \/ (down = <<"DO STARTTLS">> /\ tls = "no")
      /\ OffersUnderWay
      /\ tel \in {"drain", "drainIac"} => Drains
      /\ tls # "no" => client.tls = "will"
  BY <1>1 DEF OfferInv, Early
<1>7. \A k \in 1 .. Len(up) - 1 :
        up[k] = "WILL" /\ up[k + 1] = "STARTTLS" => FollowsFrom(k + 1)
  BY <1>6 DEF OffersUnderWay
<1>8. \A k \in Nat : FollowsFrom(k + 1) => FollowsFrom(k)'
  BY <1>1, <1>2, FollowsShift
<1>9. OffersUnderWay'
  <2>1. ASSUME NEW k \in 1 .. Len(up') - 1, up'[k] = "WILL", up'[k + 1] = "STARTTLS"
        PROVE  FollowsFrom(k + 1)'
    <3>1. k \in 1 .. Len(up') /\ k + 1 \in 1 .. Len(up') /\ k + 1 \in 1 .. Len(up) - 1 /\ k + 1 \in Nat
      BY <1>4
    <3>2. up[k + 1] = "WILL" /\ up[(k + 1) + 1] = "STARTTLS"
      BY <1>4, <2>1, <3>1
    <3> QED
      BY <1>7, <1>8, <3>1, <3>2
  <2>2. ASSUME tel' = "WILL", Len(up') # 0, up'[1] = "STARTTLS"
        PROVE  FollowsFrom(1)'
    <3>1. 1 \in 1 .. Len(up') /\ 1 \in 1 .. Len(up) - 1 /\ 1 \in Nat
      BY <1>4, <2>2
    <3>2. up[1] = "WILL" /\ up[1 + 1] = "STARTTLS"
      BY <1>1, <1>3, <1>4, <2>2, <3>1
    <3> QED
      BY <1>7, <1>8, <3>1, <3>2
  <2> QED
    BY <2>1, <2>2 DEF OffersUnderWay
<1>10. ASSUME tel' \in {"drain", "drainIac"}
       PROVE  Drains'
  <2>1. CASE tel = "WILL" /\ b = "STARTTLS" /\ s.tel = "drain" /\ s.drained = drained
    <3>1. FollowsFrom(1)
      <4>1. Len(up) # 0 /\ up[1] = "STARTTLS"
        BY <1>4, <2>1
      <4> QED
        BY <1>6, <2>1, <4>1 DEF OffersUnderWay
    <3>2. FollowsFrom(0)'
      <4>1. 0 \in Nat /\ 0 + 1 = 1
        OBVIOUS
      <4> QED
        BY <1>8, <3>1, <4>1
    <3>3. tls' = "offered" /\ Len(up') = 6 /\ \A j \in 1 .. 6 : up'[j] = Follows[j]
      BY <3>2 DEF FollowsFrom
    <3>4. drained' = ScanLimit /\ tel' = "drain"
      BY <1>1, <1>2, <2>1 DEF Verbs
    <3> QED
      BY <3>3, <3>4 DEF Drains
  <2>2. CASE /\ tel \in {"drain", "drainIac"} /\ s.drained = drained - 1
             /\ s.tel = "drainIac" <=> b = "IAC"
             /\ ~(tel = "drainIac" /\ b = "SE")
    <3>1. drained \in Nat
      BY <1>2
    <3>2. Drains
      BY <1>6, <2>2
    <3> QED
      BY <1>1, <1>2, <2>2, <3>1, <3>2, DrainsOn DEF b
  <2> QED
    BY <1>1, <1>3, <1>10, <2>1, <2>2
<1>11. ASSUME s.tel = "accepted"
       PROVE  tls' = "offered" /\ down' = <<"FOLLOWS">> /\ up' = <<>>
  <2>1. ~(tel = "WILL" /\ drained = 0)
    BY <1>2 DEF Verbs
  <2>2. /\ Drains
        /\ (tel = "drainIac" /\ b = "SE") \/ drained = 1
    BY <1>3, <1>6, <1>11, <2>1
  <2>3. /\ tls = "offered" /\ Len(up) \in 1 .. 6 /\ drained = ScanLimit - (6 - Len(up))
        /\ \A j \in 1 .. Len(up) : up[j] = Follows[(6 - Len(up)) + j]
        /\ tel = "drainIac" <=> Len(up) \in {1, 5}
    BY <2>2 DEF Drains
  <2>4. Len(up) = 1
    <3>1. CASE tel = "drainIac" /\ b = "SE"
      <4>1. Len(up) = 5 => up[1] = Follows[2]
        BY <2>3
      <4> QED
        BY <1>4, <2>3, <3>1, <4>1, FollowsBytes
    <3>2. CASE drained = 1
      <4> DEFINE n == Len(up)
      <4>1. n \in 1 .. 6 /\ 1 = ScanLimit - (6 - n)
        BY <2>3, <3>2
      <4> HIDE DEF n
      <4>2. n = 1
        BY <4>1
      <4> QED
        BY <4>2 DEF n
    <3> QED
      BY <2>2, <3>1, <3>2
  <2>5. up' = <<>>
    <3>1. up' \in Seq(ClearBytes) /\ Len(up') = 0
      BY <1>1, <1>2, <1>4, <2>4, HeadTailProperties
    <3> QED
      BY <3>1, EmptySeq
  <2>6. down' = <<"FOLLOWS">>
    BY <1>1, <1>6, <1>11, <2>3
  <2> QED
    BY <1>1, <2>3, <2>5, <2>6
<1>12. at' = "offered" => down' = down
  BY <1>1, <1>5
<1>13. CASE at' = "negotiate"
  BY <1>13, OfferPast DEF Early
<1>14. CASE at' = "handshake"
  BY <1>1, <1>5, <1>6, <1>11, <1>14 DEF OfferInv
<1>15. CASE at' = "offered"
  BY <1>1, <1>6, <1>9, <1>10, <1>12, <1>15 DEF OfferInv
<1> QED
  BY <1>5, <1>13, <1>14, <1>15

\* A client speaks in the clear before it has heard the offer.
LEMMA OfferSpoken ==
  ASSUME IInv, OfferInv, at \in {"offered", "handshake"}, tls # "offered",
         NEW bytes \in Seq(ClearBytes), Unoffered(bytes), Say(bytes),
         at = "handshake" => secure # "starttls",
         UNCHANGED <<client, secure, at, tel, drained, down, tls>>
  PROVE  OfferInv'
<1>1. CASE at = "offered"
  <2>1. /\ OffersUnderWay /\ ~Drains /\ tel \notin {"drain", "drainIac"}
        /\ down = <<>> \/ (down = <<"DO STARTTLS">> /\ tls = "no")
        /\ tls # "no" => client.tls = "will"
    BY <1>1 DEF OfferInv, Drains, Early
  <2>2. up \in Seq(EarlyBytes) /\ bytes \in Seq(EarlyBytes)
    BY <1>1, Alphabets DEF IInv, TypeInv, Early
  <2>3. OffersUnderWay'
    <3>1. /\ Len(bytes) # 0 => bytes[1] # "STARTTLS"
          /\ \A i \in 1 .. Len(bytes) - 1 : ~(bytes[i] = "WILL" /\ bytes[i + 1] = "STARTTLS")
      BY DEF Unoffered
    <3> QED
      BY <2>1, <2>2, <3>1, OffersSaid
  <2> QED
    BY <1>1, <2>1, <2>3 DEF OfferInv
<1>2. CASE at = "handshake"
  BY <1>2 DEF OfferInv, Early
<1> QED
  BY <1>1, <1>2

\* A line typed in the clear.
LEMMA OfferTyped ==
  ASSUME IInv, OfferInv, TypeLine
  PROVE  OfferInv'
<1> DEFINE bytes == client.lines[keys + 1].bytes \o <<"CR", "LF">>
           typed == client.lines[keys + 1].bytes
<1>1. /\ Say(bytes) /\ keys < Len(client.lines) /\ at # "start" /\ tls # "offered"
      /\ at = "handshake" => client.tls # "will"
      /\ UNCHANGED <<client, secure, at, tel, drained, down, tls>>
  BY DEF TypeLine, scanVars
<1>2. keys + 1 \in 1 .. Len(client.lines)
  <2> DEFINE arrival == <<secure, client>>
  <2>1. arrival \in Arrivals /\ arrival[2] = client
    BY DEF IInv, TypeInv, TypeOK
  <2>2. Len(client.lines) \in Nat
    BY <2>1, ArrivalAssumption, LenProperties
  <2>3. keys \in Nat
    BY DEF IInv, TypeInv, TypeOK
  <2> QED
    BY <1>1, <2>2, <2>3
<1>3. typed \in Seq(ClearBytes) /\ \A k \in 1 .. Len(typed) : typed[k] # "STARTTLS"
  BY <1>2, ClientTyped, ClientUnoffered
<1>4. bytes \in Seq(ClearBytes) /\ Unoffered(bytes)
  <2> DEFINE end == <<"CR", "LF">>
  <2>1. end \in Seq(ClearBytes) /\ \A k \in 1 .. Len(end) : end[k] # "STARTTLS"
    BY Alphabets
  <2>2. bytes = typed \o end
    OBVIOUS
  <2> HIDE DEF typed, end, bytes
  <2> QED
    BY <1>3, <2>1, <2>2, NothingOffered
<1> HIDE DEF bytes
<1>5. CASE at \notin Early
  BY <1>1, <1>5, OfferPast
<1>6. CASE at \in Early
  <2>1. at \in {"offered", "handshake"}
    BY <1>1, <1>6 DEF Early
  <2>2. at = "handshake" => secure # "starttls"
    BY <1>1, <1>6 DEF OfferInv
  <2> QED
    BY <1>1, <1>4, <2>1, <2>2, OfferSpoken
<1> QED
  BY <1>5, <1>6

\* The offer reaches the client, which answers it; and FOLLOWS, which it
\* answers by its hello.
LEMMA OfferReceived ==
  ASSUME IInv, OfferInv, Receive
  PROVE  OfferInv'
<1> DEFINE m == Head(down)
<1>1. /\ down # <<>> /\ down' = Tail(down)
      /\ UNCHANGED <<client, secure, at, tel, drained>>
  BY DEF Receive, scanVars
<1>2. CASE at \notin Early
  BY <1>1, <1>2, OfferPast
<1>3. CASE at = "start"
  BY <1>1, <1>3 DEF OfferInv
<1>4. CASE at = "offered"
  <2>1. /\ down = <<"DO STARTTLS">> /\ tls = "no" /\ OffersUnderWay
        /\ tel \notin {"drain", "drainIac"}
    BY <1>1, <1>4 DEF OfferInv, Drains
  <2>2. m = "DO STARTTLS" /\ down' = <<>>
    <3>1. Head(<<"DO STARTTLS">>) = "DO STARTTLS" /\ Tail(<<"DO STARTTLS">>) = <<>>
      OBVIOUS
    <3> QED
      BY <1>1, <2>1, <3>1
  <2> DEFINE answer == CASE client.tls = "will" -> <<"IAC", "WILL", "STARTTLS">> \o Follows
                         [] client.tls = "wont" -> <<"IAC", "WONT", "STARTTLS">>
                         [] OTHER -> <<>>
             bytes == client.before \o answer
  <2>3. Say(bytes) /\ tls' = IF client.tls = "will" THEN "offered" ELSE tls
    BY <2>2 DEF Receive
  <2>4. /\ client.before \in Seq(ClearBytes)
        /\ \A k \in 1 .. Len(client.before) : client.before[k] # "STARTTLS"
    BY ClientTyped, ClientUnoffered
  <2>5. up \in Seq(EarlyBytes) /\ tel' = tel /\ tls # "offered"
    BY <1>1, <1>4, <2>1 DEF IInv, TypeInv, Early
  <2>6. CASE client.tls = "will"
    <3> DEFINE said == client.before \o (<<"IAC", "WILL", "STARTTLS">> \o Follows)
    <3>1. Say(said)
      BY <2>3, <2>6
    <3>2. said \in Seq(EarlyBytes)
      BY <2>4, Alphabets, ConcatProperties
    <3>3. /\ said[1] # "STARTTLS"
          /\ \A i \in 1 .. Len(said) - 1 : said[i] = "WILL" /\ said[i + 1] = "STARTTLS" =>
               Len(said) = i + 7 /\ \A j \in 1 .. 6 : said[(i + 1) + j] = Follows[j]
      BY <2>4, Alphabets, AcceptanceOffers
    <3> HIDE DEF said
    <3>4. tls' = "offered"
      BY <2>3, <2>6
    <3>5. OffersUnderWay'
      BY <2>1, <2>5, <3>1, <3>2, <3>3, <3>4, OffersSaid
    <3> QED
      BY <1>1, <1>4, <2>1, <2>2, <2>6, <3>5 DEF OfferInv
  <2>7. CASE client.tls # "will"
    <3>1. bytes \in Seq(ClearBytes) /\ Unoffered(bytes)
      <4>1. /\ answer \in Seq(ClearBytes)
            /\ \A k \in 1 .. Len(answer) : answer[k] = "STARTTLS" => k > 1 /\ answer[k - 1] # "WILL"
        <5>1. answer \in {<<"IAC", "WONT", "STARTTLS">>, <<>>}
          BY <2>7
        <5> HIDE DEF answer
        <5>2. CASE answer = <<>>
          BY <5>2, EmptySeq
        <5>3. CASE answer = <<"IAC", "WONT", "STARTTLS">>
          <6>1. answer \in Seq(ClearBytes) /\ Len(answer) = 3
            BY <5>3, Alphabets
          <6>2. \A k \in 1 .. 3 : answer[k] = "STARTTLS" => k > 1 /\ answer[k - 1] # "WILL"
            BY <5>3
          <6> QED
            BY <6>1, <6>2
        <5> QED
          BY <5>1, <5>2, <5>3
      <4> HIDE DEF answer
      <4> QED
        BY <2>4, <4>1, NothingOffered
    <3> HIDE DEF bytes
    <3>3. OffersUnderWay'
      <4>1. /\ Len(bytes) # 0 => bytes[1] # "STARTTLS"
            /\ \A i \in 1 .. Len(bytes) - 1 : ~(bytes[i] = "WILL" /\ bytes[i + 1] = "STARTTLS")
        BY <3>1 DEF Unoffered
      <4>2. bytes \in Seq(EarlyBytes)
        BY <3>1, Alphabets
      <4> QED
        BY <2>1, <2>3, <2>5, <4>1, <4>2, OffersSaid
    <3>4. tls' = "no"
      BY <2>1, <2>3, <2>7
    <3> QED
      BY <1>1, <1>4, <2>1, <2>2, <3>3, <3>4 DEF OfferInv
  <2> QED
    BY <2>6, <2>7
<1>5. CASE at = "handshake"
  <2>1. m \in Messages /\ m \in ToSet(down)
    BY <1>1, Taken DEF IInv, TypeInv
  <2>2. m \in {"DO STARTTLS", "FOLLOWS"} /\ secure = "starttls"
    BY <1>5, <2>1 DEF IInv, TlsInv, Early
  <2>3. tls = "offered" /\ down = <<"FOLLOWS">> /\ up = <<>>
    BY <1>1, <1>5, <2>2 DEF OfferInv
  <2>4. m = "FOLLOWS" /\ down' = <<>> /\ client.tls = "will"
    BY <1>1, <1>5, <2>3 DEF OfferInv, Early
  <2>5. Say(Hello) /\ tls' = "hello"
    BY <2>4 DEF Receive
  <2>6. up' = Hello
    BY <2>3, <2>5, Alphabets, ConcatEmptySeq DEF Say
  <2> QED
    BY <1>1, <1>5, <2>4, <2>5, <2>6 DEF OfferInv
<1> QED
  BY <1>2, <1>3, <1>4, <1>5 DEF Early

\* No step of either side puts anything but the hello before the handshake.
LEMMA OfferKept ==
  ASSUME IInv, OfferInv, ScanLimit >= 6, [Next]_vars
  PROVE  OfferInv'
<1>1. CASE Start \/ ScanStarttls
  BY <1>1, OfferStart, OfferScan
<1>2. CASE Handshake
  BY <1>2, OfferPast DEF Handshake, Early
<1>3. CASE Negotiate \/ ReadQueryReply \/ RequestReplyMode
  BY <1>3, OfferPast DEF Negotiate, ReadQueryReply, Settle, RequestReplyMode, Early
<1>4. CASE Show \/ ReadReply \/ ReadUnit \/ ServeLine \/ ReceiveLine \/ NegotiationCut
  BY <1>4, OfferPast
     DEF Show, ReadReply, ReadUnit, ServeLine, ReceiveLine, NegotiationCut, Early
<1>5. CASE Timeout \/ Disconnected
  <2>1. PICK how \in {"timeout", "eof"} : Failed(how)
    BY <1>5 DEF Timeout, Disconnected
  <2> QED
    BY <2>1, OfferPast DEF Failed, Early
<1>6. CASE Receive \/ TypeLine
  BY <1>6, OfferReceived, OfferTyped
<1>7. CASE Connects
  BY <1>7 DEF Connects, OfferInv, Early
<1>8. CASE Press
  BY <1>8, OfferPast DEF Press, Serving, Early
<1>9. CASE HangUp \/ UNCHANGED vars
  <2>1. UNCHANGED <<client, secure, at, tel, drained, up, down, tls>>
    BY <1>9 DEF HangUp, vars, scanVars, histVars, clientVars
  <2> QED
    BY <2>1 DEF OfferInv, OffersUnderWay, Drains, FollowsFrom
<1> QED
  BY <1>1, <1>2, <1>3, <1>4, <1>5, <1>6, <1>7, <1>8, <1>9 DEF Next, Server

\* Where the offer stands, always.
LEMMA OfferAlways ==
  ScanLimit >= 6 => (Spec => []OfferInv)
<1> SUFFICES ASSUME ScanLimit >= 6
             PROVE  Spec => []OfferInv
  OBVIOUS
<1>1. Init => OfferInv
  BY DEF Init, OfferInv
<1>2. IInv /\ OfferInv /\ [Next]_vars => OfferInv'
  BY OfferKept
<1> QED
  BY Invariant, <1>1, <1>2, PTL DEF Spec

\* Reading the plaintext answers to the offer one byte at a time swallows no
\* byte of the TLS handshake (server.py:1383-1468), if the drain may read a
\* whole FOLLOWS.
THEOREM HandshakeStaysIntact ==
  ScanLimit >= 6 => (Spec => []HandshakeIntact)
<1> SUFFICES ASSUME ScanLimit >= 6
             PROVE  Spec => []HandshakeIntact
  OBVIOUS
<1>1. OfferInv => HandshakeIntact
  <2> SUFFICES ASSUME OfferInv, at = "handshake", secure = "starttls"
               PROVE  IsPrefix(up, Hello)
    BY DEF HandshakeIntact
  <2>1. up = <<>> \/ up = Hello
    BY DEF OfferInv
  <2>2. IsPrefix(<<>>, Hello) /\ IsPrefix(Hello, Hello)
    BY DEF IsPrefix, Hello
  <2> QED
    BY <2>1, <2>2
<1>2. Spec => []OfferInv
  BY OfferAlways
<1> QED
  BY <1>1, <1>2, PTL

=============================================================================
