-------------------------- MODULE NegotiationProofs --------------------------
(***************************************************************************)
(* Proofs about Negotiation, for every set of supported functions and      *)
(* every set of clients.                                                   *)
(***************************************************************************)
EXTENDS Negotiation, SequenceTheorems, TLAPS

(***************************************************************************)
(* The inductive invariants, each one stated of the tokens in flight as    *)
(* well as of the two ends.                                                *)
(***************************************************************************)

\* The tokens of a sequence; all that the client has sent, read or not (the
\* server keeps what it read: server.py:1097); and what is on its way to
\* the client.
Held(tokens) == {tokens[k] : k \in DOMAIN tokens}
FromClient == Held(buffer) \cup Held(toServer)
ToClient == Held(toClient)

\* A command that enables or disables an option names one.
Naming(tokens) ==
  \A t \in tokens : t.cmd \in {"WILL", "WONT", "DO", "DONT"} => t.opt \in Options

TypeInv == TypeOK /\ Naming(FromClient \cup ToClient)

\* Neither end of a connection whose client agrees to BINARY disables it: the
\* server only answers a refusal, and so does the client.
Disables(t, option) == t.cmd \in {"WONT", "DONT"} /\ t.opt = option
NvtInv ==
  /\ "BINARY" \in client.options
       => \A t \in FromClient \cup ToClient : ~ Disables(t, "BINARY")
  /\ NvtJustified

\* TN3270E is settled by the client's first answer: a client that said WILL
\* keeps the option, one that said WONT never has it, and the server never
\* withdraws it (server.py:1116-1121 handles it apart from the others).
Tn3270eFollows ==
  /\ "TN3270E" \in mine => "TN3270E" \in client.options
  /\ \A t \in FromClient : t.opt = "TN3270E" =>
       /\ t.cmd = "WILL" => "TN3270E" \in mine
       /\ t.cmd = "WONT" => "TN3270E" \notin client.options
  /\ e_state = "active" => "TN3270E" \in mine
  /\ e_state = "off" => "TN3270E" \notin client.options
  /\ \A t \in ToClient : ~ Disables(t, "TN3270E")

\* The functions both ends have.  Whoever proposes, and in whatever order the
\* proposals cross, every set on its way cuts down to them, and the client has
\* cut its own once the proposal that goes with the device name has arrived.
Mutual == client.functions \cap Supported
FunctionsMutual ==
  /\ agreed \in {client.functions, Mutual}
  /\ \A t \in FromClient :
       t.cmd \in {"FUNCTIONS REQUEST", "FUNCTIONS IS"} => t.funcs \cap Supported = Mutual
  /\ \A t \in ToClient :
       /\ t.cmd = "FUNCTIONS REQUEST" => t.funcs = Supported
       /\ t.cmd = "FUNCTIONS IS" => t.funcs = Mutual
  /\ "functions" \in got => functions = Mutual
  /\ "device" \in got =>
       agreed = Mutual \/ \E t \in ToClient : t.cmd = "FUNCTIONS REQUEST"

\* The loop is left with a live 3270 client only when done() holds
\* (server.py:1084-1093).
EndsDone == pc = "done" /\ ~nvt /\ ~hungUp => Done

SessionInv == Tn3270eFollows /\ FunctionsMutual /\ EndsDone

\* Among the first n tokens, the client enabled OTHER ("on") and has not
\* disabled it ("off") since.
Stands(tokens, n, on, off) ==
  \E k \in 1 .. n :
    /\ tokens[k].cmd = on /\ tokens[k].opt = "OTHER"
    /\ \A m \in (k + 1) .. n : ~ (tokens[m].cmd = off /\ tokens[m].opt = "OTHER")

Mentions(tokens, n, on, off) ==
  \E k \in 1 .. n : tokens[k].cmd \in {on, off} /\ tokens[k].opt = "OTHER"

\* The client is what it last said.  So is the server's record of it, as far
\* as the scan has come; before the scan meets the option the record is what
\* an earlier scan left, and then the buffer does mention it.
ClientStands(has, on, off) ==
  has <=> Stands(buffer \o toServer, Len(buffer) + Len(toServer), on, off)
ServerStands(n, has, on, off) ==
  IF Mentions(buffer, n, on, off)
  THEN has <=> Stands(buffer, n, on, off)
  ELSE has => Mentions(buffer, Len(buffer), on, off)

\* Outside a scan, the scan has reached the end of the buffer.
ScanAtEnd == pc = "recv" \/ (pc = "done" /\ ~nvt) => i = Len(buffer) + 1

OptionInv ==
  /\ ScanAtEnd
  /\ ClientStands("OTHER" \in mine, "WILL", "WONT")
  /\ ClientStands("OTHER" \in yours, "DO", "DONT")
  /\ ServerStands(i - 1, "OTHER" \in offered_do, "WILL", "WONT")
  /\ ServerStands(i - 1, "OTHER" \in offered_will, "DO", "DONT")

-----------------------------------------------------------------------------
(* What the two channels hold.                                             *)

\* What a sequence of one type holds: the tokens of both halves of a
\* concatenation, and the head and what follows it.
LEMMA HeldConcat ==
  ASSUME NEW S, NEW s \in Seq(S), NEW t \in Seq(S)
  PROVE  /\ s \o t \in Seq(S)
         /\ Held(s \o t) = Held(s) \cup Held(t)
<1>1. /\ s \o t \in Seq(S) /\ Len(s \o t) = Len(s) + Len(t)
      /\ \A k \in 1 .. Len(s) + Len(t) :
           (s \o t)[k] = IF k <= Len(s) THEN s[k] ELSE t[k - Len(s)]
  BY ConcatProperties
<1>2. /\ Len(s) \in Nat /\ Len(t) \in Nat
      /\ DOMAIN s = 1 .. Len(s) /\ DOMAIN t = 1 .. Len(t)
      /\ DOMAIN (s \o t) = 1 .. Len(s) + Len(t)
  BY <1>1, LenProperties
<1>3. ASSUME NEW k \in DOMAIN (s \o t)
      PROVE  (s \o t)[k] \in Held(s) \cup Held(t)
  BY <1>1, <1>2 DEF Held
<1>4. ASSUME NEW k \in DOMAIN s
      PROVE  s[k] \in Held(s \o t)
  BY <1>1, <1>2 DEF Held
<1>5. ASSUME NEW k \in DOMAIN t
      PROVE  t[k] \in Held(s \o t)
  <2>1. Len(s) + k \in DOMAIN (s \o t) /\ (s \o t)[Len(s) + k] = t[k]
    BY <1>1, <1>2
  <2>2. QED
    BY <2>1 DEF Held
<1>6. QED
  BY <1>1, <1>3, <1>4, <1>5 DEF Held

\* What a queue holds when its first token is taken.
LEMMA HeldTail ==
  ASSUME NEW S, NEW s \in Seq(S), s # <<>>
  PROVE  /\ Tail(s) \in Seq(S) /\ Head(s) \in S
         /\ Held(s) = {Head(s)} \cup Held(Tail(s))
<1>1. /\ Head(s) \in S /\ Tail(s) \in Seq(S)
      /\ Len(Tail(s)) = Len(s) - 1
      /\ \A k \in 1 .. Len(Tail(s)) : Tail(s)[k] = s[k + 1]
  BY HeadTailProperties
<1>2. /\ Len(s) \in Nat \ {0} /\ DOMAIN s = 1 .. Len(s)
      /\ DOMAIN Tail(s) = 1 .. Len(Tail(s)) /\ Head(s) = s[1]
  BY <1>1, LenProperties, EmptySeq
<1>3. ASSUME NEW k \in DOMAIN s
      PROVE  s[k] \in {Head(s)} \cup Held(Tail(s))
  <2>1. CASE k = 1
    BY <1>2, <2>1
  <2>2. CASE k # 1
    <3>1. k - 1 \in DOMAIN Tail(s) /\ Tail(s)[k - 1] = s[k]
      BY <1>1, <1>2, <2>2
    <3>2. QED
      BY <3>1 DEF Held
  <2>3. QED
    BY <2>1, <2>2
<1>4. ASSUME NEW k \in DOMAIN Tail(s)
      PROVE  Tail(s)[k] \in Held(s)
  <2>1. k + 1 \in DOMAIN s /\ Tail(s)[k] = s[k + 1]
    BY <1>1, <1>2
  <2>2. QED
    BY <2>1 DEF Held
<1>5. Head(s) \in Held(s)
  BY <1>2 DEF Held
<1>6. QED
  BY <1>1, <1>3, <1>4, <1>5 DEF Held

\* What the queues of one or two tokens hold.
LEMMA HeldShort ==
  /\ Held(<<>>) = {}
  /\ \A a : Held(<<a>>) = {a}
  /\ \A a, b : Held(<<a, b>>) = {a, b}
<1>1. Held(<<>>) = {}
  BY DEF Held
<1>2. ASSUME NEW a
      PROVE  Held(<<a>>) = {a}
  <2>1. DOMAIN <<a>> = {1} /\ <<a>>[1] = a
    OBVIOUS
  <2>2. QED
    BY <2>1 DEF Held
<1>3. ASSUME NEW a, NEW b
      PROVE  Held(<<a, b>>) = {a, b}
  <2>1. DOMAIN <<a, b>> = {1, 2} /\ <<a, b>>[1] = a /\ <<a, b>>[2] = b
    OBVIOUS
  <2>2. QED
    BY <2>1 DEF Held
<1>4. QED
  BY <1>1, <1>2, <1>3

\* The two halves that a recv cuts a sequence into.
LEMMA HeldCut ==
  ASSUME NEW S, NEW s \in Seq(S), NEW n \in 0 .. Len(s)
  PROVE  /\ SubSeq(s, 1, n) \in Seq(S) /\ SubSeq(s, n + 1, Len(s)) \in Seq(S)
         /\ SubSeq(s, 1, n) \o SubSeq(s, n + 1, Len(s)) = s
<1>1. Len(s) \in Nat /\ n \in Nat /\ n <= Len(s) /\ \A k \in 1 .. Len(s) : s[k] \in S
  BY LenProperties, ElementOfSeq
<1>2. SubSeq(s, 1, n) \o SubSeq(s, n + 1, Len(s)) = SubSeq(s, 1, Len(s))
  <2>1. 1 \in 1 .. Len(s) + 1 /\ n \in 1 - 1 .. Len(s) /\ Len(s) \in n .. Len(s)
    BY <1>1
  <2>2. QED
    BY <2>1, ConcatAdjacentSubSeq, Zenon
<1>3. SubSeq(s, 1, n) \in Seq(S)
  BY <1>1, SubSeqProperties
<1>4. SubSeq(s, n + 1, Len(s)) \in Seq(S)
  BY <1>1, SubSeqProperties
<1>5. QED
  BY <1>2, <1>3, <1>4, SubSeqFull

-----------------------------------------------------------------------------
(* One lemma for each way a step moves tokens.                             *)

\* The tokens of the negotiation have their types.
LEMMA TokensTyped ==
  /\ \A cmd \in Commands, opt \in Options \cup {""} : Token(cmd, opt) \in Tokens
  /\ \A cmd \in Commands, funcs \in SUBSET Functions :
       FunctionsToken(cmd, funcs) \in Tokens
BY DEF Token, FunctionsToken, Tokens

\* Short sequences of tokens are sequences of tokens.
LEMMA ShortTyped ==
  /\ <<>> \in Seq(Tokens)
  /\ \A a \in Tokens : <<a>> \in Seq(Tokens)
  /\ \A a, b \in Tokens : <<a, b>> \in Seq(Tokens)
OBVIOUS

\* The scan reads what the client sent and takes nothing from it.
LEMMA ScanReads ==
  ASSUME TypeOK, NEW cmds, Scanning(cmds)
  PROVE  /\ buffer[i] \in FromClient /\ buffer[i] \in Tokens
         /\ buffer[i].cmd \in cmds
         /\ FromClient' = FromClient
         /\ i' \in 1 .. (Len(buffer') + 1)
<1>1. buffer \in Seq(Tokens) /\ i \in 1 .. Len(buffer)
  BY DEF TypeOK, Scanning
<1>2. Len(buffer) \in Nat /\ DOMAIN buffer = 1 .. Len(buffer)
  BY <1>1, LenProperties
<1>3. QED
  BY <1>1, <1>2, ElementOfSeq DEF Scanning, FromClient, Held

\* What the server sends is on its way to the client.
LEMMA SendAdds ==
  ASSUME TypeOK, NEW messages \in Seq(Tokens), Send(messages)
  PROVE  /\ toClient' \in Seq(Tokens)
         /\ ToClient' = ToClient \cup Held(messages)
BY HeldConcat DEF TypeOK, Send, ToClient

\* A message that arrives is the first one on its way.
LEMMA ArrivesTakes ==
  ASSUME TypeOK, NEW cmd, Arrives(cmd)
  PROVE  /\ Head(toClient) \in Tokens /\ Head(toClient).cmd = cmd
         /\ toClient' \in Seq(Tokens)
         /\ ToClient = {Head(toClient)} \cup ToClient'
BY HeldTail DEF TypeOK, Arrives, ToClient

\* What the client replies is on its way to the server.
LEMMA ReplyAdds ==
  ASSUME TypeOK, NEW tokens \in Seq(Tokens), Reply(tokens), buffer' = buffer
  PROVE  /\ toServer' \in Seq(Tokens)
         /\ FromClient' = FromClient \cup Held(tokens)
BY HeldConcat DEF TypeOK, Reply, FromClient

\* The same of what it says on its own.
LEMMA SayAdds ==
  ASSUME TypeOK, NEW extra, NEW token \in Tokens, Say(extra, token)
  PROVE  /\ toServer' \in Seq(Tokens) /\ left' \subseteq Extras
         /\ FromClient' = FromClient \cup {token}
<1>1. toServer' = toServer \o <<token>> /\ buffer' = buffer
  BY DEF Say, TypeOK, serverVars
<1>2. QED
  BY <1>1, ReplyAdds, HeldShort, ShortTyped DEF Reply, Say, Use, TypeOK

\* A recv moves tokens from the channel to the buffer.
LEMMA RecvMoves ==
  ASSUME TypeOK, NEW n \in 0 .. Len(toServer), NEW more \in BOOLEAN,
         Recv(n, more)
  PROVE  /\ buffer' \in Seq(Tokens) /\ toServer' \in Seq(Tokens)
         /\ buffer' \o toServer' = buffer \o toServer
         /\ FromClient' = FromClient
         /\ i' = 1 /\ Len(buffer') \in Nat
<1> DEFINE read == SubSeq(toServer, 1, n)
           rest == SubSeq(toServer, n + 1, Len(toServer))
<1>1. /\ buffer \in Seq(Tokens) /\ toServer \in Seq(Tokens)
      /\ buffer' = buffer \o read /\ toServer' = rest /\ i' = 1
  BY DEF TypeOK, Recv
<1>2. /\ read \in Seq(Tokens) /\ rest \in Seq(Tokens)
      /\ read \o rest = toServer
  BY <1>1, HeldCut
<1> HIDE DEF read, rest
<1>3. (buffer \o read) \o rest = buffer \o toServer
  <2>1. \A a, b \in Seq(Tokens) : (buffer \o a) \o b = buffer \o (a \o b)
    BY ONLY <1>1, ConcatAssociative, SMTT(20)
  <2>2. read \in Seq(Tokens) /\ rest \in Seq(Tokens)
    BY <1>2
  <2>3. (buffer \o read) \o rest = buffer \o (read \o rest)
    BY ONLY <2>1, <2>2, Zenon
  <2>4. read \o rest = toServer
    BY <1>2
  <2>5. QED
    BY ONLY <2>3, <2>4, Zenon
<1>4. buffer \o read \in Seq(Tokens) /\ Held(buffer \o read) = Held(buffer) \cup Held(read)
  BY <1>1, <1>2, HeldConcat
<1>5. Held(toServer) = Held(read) \cup Held(rest)
  BY <1>2, HeldConcat
<1>6. QED
  BY <1>1, <1>2, <1>3, <1>4, <1>5, LenProperties DEF FromClient

-----------------------------------------------------------------------------
(* Types.                                                                  *)

\* The opening offers (server.py:1067-1074) ask and offer, and refuse
\* nothing.
LEMMA FirstOffersTyped ==
  /\ FirstOffers \in Seq(Tokens)
  /\ \A t \in Held(FirstOffers) :
       /\ t.cmd \in {"WILL", "DO", "TERMINAL-TYPE SEND"}
       /\ t.cmd \in {"WILL", "DO"} => t.opt \in Options
<1> DEFINE Offers == {t \in Tokens :
                        /\ t.cmd \in {"WILL", "DO", "TERMINAL-TYPE SEND"}
                        /\ t.cmd \in {"WILL", "DO"} => t.opt \in Options}
<1>1. FirstOffers \in Seq(Offers)
  <2>1. \A cmd \in {"WILL", "DO"}, opt \in Options : Token(cmd, opt) \in Offers
    BY DEF Token, Tokens, Commands
  <2>2. Token("TERMINAL-TYPE SEND", "") \in Offers
    BY DEF Token, Tokens, Commands
  <2> HIDE DEF Offers
  <2>3. \A a, b, c, d, e, f, g, h \in Offers :
          <<a, b, c, d, e, f, g, h>> \in Seq(Offers)
    OBVIOUS
  <2>4. QED
    BY <2>1, <2>2, <2>3, Zenon DEF FirstOffers, Options
<1> HIDE DEF Offers
<1>2. Held(FirstOffers) \subseteq Offers
  BY <1>1, ElementOfSeq, LenProperties DEF Held
<1>3. FirstOffers \in Seq(Tokens)
  BY <1>1, SeqMonotonic DEF Offers
<1>4. QED
  BY <1>2, <1>3 DEF Offers

\* The opening state.
LEMMA InitTyped == Init => TypeInv
<1> SUFFICES ASSUME Init PROVE TypeInv
  OBVIOUS
<1>1. FirstOffers \in Seq(Tokens)
  BY FirstOffersTyped
<1>2. Naming(Held(FirstOffers))
  <2>1. ASSUME NEW t \in Held(FirstOffers), t.cmd \in {"WILL", "WONT", "DO", "DONT"}
        PROVE  t.opt \in Options
    <3>1. t.cmd \in {"WILL", "DO", "TERMINAL-TYPE SEND"}
      BY FirstOffersTyped
    <3>2. t.cmd \in {"WILL", "DO"}
      BY <2>1, <3>1
    <3>3. QED
      BY <3>2, FirstOffersTyped
  <2>2. QED
    BY <2>1 DEF Naming
<1>3. client \in ClientKinds
  BY ClientsAssumption DEF Init
<1>4. TypeOK
  <2>1. agreed \subseteq Functions /\ left \subseteq Extras /\ client \in Clients
    BY <1>3 DEF Init, ClientKinds
  <2>2. buffer \in Seq(Tokens) /\ toServer \in Seq(Tokens) /\ toClient \in Seq(Tokens)
    BY <1>1, ShortTyped DEF Init
  <2>3. i \in 1 .. Len(buffer) + 1
    BY DEF Init
  <2>4. offered_will \subseteq Options /\ offered_do \subseteq Options
    BY DEF Init, Options
  <2>5. QED
    BY <2>1, <2>2, <2>3, <2>4 DEF Init, TypeOK
<1>5. QED
  BY <1>2, <1>4, HeldShort DEF Init, TypeInv, Naming, FromClient, ToClient

\* Sending nothing is a send.
LEMMA SendNothing == TypeOK /\ UNCHANGED toClient => Send(<<>>)
BY ConcatEmptySeq DEF TypeOK, Send

\* A client that says nothing replies with no token.
LEMMA ReplyNothing == TypeOK /\ UNCHANGED toServer => Reply(<<>>)
BY ConcatEmptySeq DEF TypeOK, Reply

\* What a scan of one token has to show: that its messages name the options
\* they enable, and that the server's variables keep their types.
LEMMA ScanTyped ==
  ASSUME TypeInv, NEW cmds, Scanning(cmds),
         NEW messages \in Seq(Tokens), Naming(Held(messages)), Send(messages),
         pc' = pc, e_state' \in {"unknown", "active", "off"},
         got' \subseteq {"binary", "eor", "term", "device", "functions"},
         functions' \subseteq Supported, nvt' \in BOOLEAN,
         offered_will' \subseteq Options, offered_do' \subseteq Options,
         answers' \in Nat
  PROVE  TypeInv'
<1>1. TypeOK /\ Naming(FromClient \cup ToClient)
  BY DEF TypeInv
<1>2. /\ FromClient' = FromClient /\ i' \in 1 .. (Len(buffer') + 1)
      /\ toClient' \in Seq(Tokens) /\ ToClient' = ToClient \cup Held(messages)
  BY <1>1, ScanReads, SendAdds
<1>3. UNCHANGED <<buffer, partial, client, mine, yours, agreed, left, hungUp, toServer>>
  BY DEF Scanning, clientVars
<1>4. TypeOK'
  BY <1>1, <1>2, <1>3 DEF TypeOK
<1>5. QED
  BY <1>1, <1>2, <1>4 DEF TypeInv, Naming

\* The same of a message that the client takes, and of its reply.
LEMMA ArrivalTyped ==
  ASSUME TypeInv, NEW cmd, Arrives(cmd),
         NEW tokens \in Seq(Tokens), Naming(Held(tokens)), Reply(tokens),
         mine' \subseteq Options, yours' \subseteq Options,
         agreed' \subseteq Functions
  PROVE  TypeInv'
<1>1. TypeOK /\ Naming(FromClient \cup ToClient)
  BY DEF TypeInv
<1>2. UNCHANGED <<serverVars, client, left, hungUp>>
  BY DEF Arrives
<1>3. /\ toClient' \in Seq(Tokens) /\ ToClient' \subseteq ToClient
      /\ toServer' \in Seq(Tokens) /\ FromClient' = FromClient \cup Held(tokens)
  BY <1>1, <1>2, ArrivesTakes, ReplyAdds DEF serverVars
<1>4. TypeOK'
  BY <1>1, <1>2, <1>3 DEF TypeOK, serverVars
<1>5. QED
  BY <1>1, <1>3, <1>4 DEF TypeInv, Naming

\* What the one-token messages hold names an option where it has to.
LEMMA ShortNamed ==
  /\ Naming(Held(<<>>))
  /\ \A cmd, opt : opt \in Options \/ cmd \notin {"WILL", "WONT", "DO", "DONT"}
                     => Naming(Held(<<Token(cmd, opt)>>))
  /\ \A cmd \in {"FUNCTIONS REQUEST", "FUNCTIONS IS"} : \A funcs :
       Naming(Held(<<FunctionsToken(cmd, funcs)>>))
<1>1. Naming(Held(<<>>))
  BY HeldShort DEF Naming
<1>2. ASSUME NEW cmd, NEW opt, opt \in Options \/ cmd \notin {"WILL", "WONT", "DO", "DONT"}
      PROVE  Naming(Held(<<Token(cmd, opt)>>))
  <2>1. Held(<<Token(cmd, opt)>>) = {Token(cmd, opt)}
    BY HeldShort, Zenon
  <2>2. Naming({Token(cmd, opt)})
    BY <1>2 DEF Naming, Token
  <2>3. QED
    BY <2>1, <2>2, Zenon
<1>3. ASSUME NEW cmd \in {"FUNCTIONS REQUEST", "FUNCTIONS IS"}, NEW funcs
      PROVE  Naming(Held(<<FunctionsToken(cmd, funcs)>>))
  <2>1. Held(<<FunctionsToken(cmd, funcs)>>) = {FunctionsToken(cmd, funcs)}
    BY HeldShort, Zenon
  <2>2. Naming({FunctionsToken(cmd, funcs)})
    <3>1. cmd \notin {"WILL", "WONT", "DO", "DONT"}
      OBVIOUS
    <3>2. FunctionsToken(cmd, funcs).cmd = cmd
      BY DEF FunctionsToken
    <3>3. QED
      BY <3>1, <3>2 DEF Naming
  <2>3. QED
    BY <2>1, <2>2, Zenon
<1>4. QED
  BY <1>1, <1>2, <1>3

\* The server's steps keep the types.
LEMMA ServerTyped == ASSUME TypeInv, Server PROVE TypeInv'
<1>1. /\ TypeOK /\ Naming(FromClient \cup ToClient)
      /\ \A cmd \in Commands, opt \in Options \cup {""} : Token(cmd, opt) \in Tokens
      /\ <<>> \in Seq(Tokens) /\ \A a \in Tokens : <<a>> \in Seq(Tokens)
  BY TokensTyped, ShortTyped DEF TypeInv
<1>2. /\ Naming(Held(<<>>))
      /\ \A cmd, opt : opt \in Options \/ cmd \notin {"WILL", "WONT", "DO", "DONT"}
                         => Naming(Held(<<Token(cmd, opt)>>))
      /\ \A cmd \in {"FUNCTIONS REQUEST", "FUNCTIONS IS"} : \A funcs :
           Naming(Held(<<FunctionsToken(cmd, funcs)>>))
  BY ShortNamed
<1>3. ASSUME NEW n \in 0 .. Len(toServer), NEW more \in BOOLEAN, Recv(n, more)
      PROVE  TypeInv'
  <2>1. /\ buffer' \in Seq(Tokens) /\ toServer' \in Seq(Tokens)
        /\ FromClient' = FromClient /\ i' \in 1 .. (Len(buffer') + 1)
    <3>1. /\ buffer' \in Seq(Tokens) /\ toServer' \in Seq(Tokens)
          /\ FromClient' = FromClient /\ i' = 1 /\ Len(buffer') \in Nat
      BY <1>1, <1>3, RecvMoves, Zenon
    <3>2. QED
      BY <3>1
  <2>2. TypeOK'
    BY <1>1, <1>3, <2>1 DEF Recv, TypeOK, clientVars
  <2>3. QED
    BY <1>1, <1>3, <2>1, <2>2 DEF Recv, TypeInv, Naming, ToClient
<1>4. CASE RecvEof
  BY <1>1, <1>4 DEF RecvEof, TypeOK, TypeInv, Naming, FromClient, ToClient, clientVars
<1>5. CASE ScanTn3270e
  <2>1. PICK messages \in {<<>>, <<Token("DEVICE-TYPE SEND", "")>>} : Send(messages)
    BY <1>1, <1>5, SendNothing DEF ScanTn3270e
  <2>2. messages \in Seq(Tokens) /\ Naming(Held(messages))
    BY <1>1, <1>2, <2>1 DEF Commands
  <2>3. QED
    BY <1>1, <1>5, <2>1, <2>2, ScanTyped DEF ScanTn3270e, TypeOK
<1>6. ASSUME NEW cmds, Scanning(cmds), cmds \subseteq {"WILL", "WONT", "DO", "DONT"}
      PROVE  /\ Option \in Options
             /\ \A cmd \in {"WILL", "WONT", "DO", "DONT"} :
                  /\ <<Token(cmd, Option)>> \in Seq(Tokens)
                  /\ Naming(Held(<<Token(cmd, Option)>>))
  BY <1>1, <1>2, <1>6, ScanReads DEF Naming, Option, Commands
<1>7. CASE ScanWill
  <2>1. PICK messages \in {<<>>, <<Token("DO", Option)>>} : Send(messages)
    BY <1>7 DEF ScanWill
  <2>2. Option \in Options /\ messages \in Seq(Tokens) /\ Naming(Held(messages))
    BY <1>1, <1>2, <1>6, <1>7, <2>1 DEF ScanWill
  <2>3. QED
    BY <1>1, <1>7, <2>1, <2>2, ScanTyped DEF ScanWill, TypeOK, Settles
<1>8. CASE ScanDo
  <2>1. PICK messages \in {<<>>, <<Token("WILL", Option)>>} : Send(messages)
    BY <1>8 DEF ScanDo
  <2>2. Option \in Options /\ messages \in Seq(Tokens) /\ Naming(Held(messages))
    BY <1>1, <1>2, <1>6, <1>8, <2>1 DEF ScanDo
  <2>3. QED
    BY <1>1, <1>8, <2>1, <2>2, ScanTyped DEF ScanDo, TypeOK, Settles
<1>9. CASE ScanDont
  <2>1. PICK messages \in {<<>>, <<Token("WONT", Option)>>} : Send(messages)
    BY <1>9 DEF ScanDont
  <2>2. Option \in Options /\ messages \in Seq(Tokens) /\ Naming(Held(messages))
    BY <1>1, <1>2, <1>6, <1>9, <2>1 DEF ScanDont
  <2>3. QED
    BY <1>1, <1>9, <2>1, <2>2, ScanTyped DEF ScanDont, TypeOK, Refusal
<1>10. CASE ScanWont
  <2>1. PICK messages \in {<<>>, <<Token("DONT", Option)>>} : Send(messages)
    BY <1>10 DEF ScanWont
  <2>2. Option \in Options /\ messages \in Seq(Tokens) /\ Naming(Held(messages))
    BY <1>1, <1>2, <1>6, <1>10, <2>1 DEF ScanWont
  <2>3. QED
    BY <1>1, <1>10, <2>1, <2>2, ScanTyped DEF ScanWont, TypeOK, Refusal
<1>11. CASE ScanTerminalType
  <2>1. PICK messages \in {<<>>, <<Token("TERMINAL-TYPE IS", "")>>} : Send(messages)
    BY <1>1, <1>11, SendNothing DEF ScanTerminalType
  <2>2. messages \in Seq(Tokens) /\ Naming(Held(messages))
    BY <1>1, <1>2, <2>1 DEF Commands
  <2>3. QED
    BY <1>1, <1>11, <2>1, <2>2, ScanTyped DEF ScanTerminalType, TypeOK
<1>12. CASE ScanDeviceType
  <2> DEFINE is == Token("DEVICE-TYPE IS", "")
             request == FunctionsToken("FUNCTIONS REQUEST", Supported)
  <2>1. is \in Tokens /\ request \in Tokens
    BY TokensTyped, SupportedAssumption DEF Commands
  <2>2. <<is, request>> \in Seq(Tokens)
    BY <2>1, ShortTyped, Zenon
  <2>3. Naming(Held(<<is, request>>))
    <3>1. Held(<<is, request>>) = {is, request}
      BY HeldShort, Zenon
    <3>2. /\ is.cmd = "DEVICE-TYPE IS"
          /\ request.cmd = "FUNCTIONS REQUEST"
      BY DEF Token, FunctionsToken
    <3>3. Naming({is, request})
      BY <3>2 DEF Naming
    <3>4. QED
      BY <3>1, <3>3, Zenon
  <2>4. Scanning({"DEVICE-TYPE REQUEST"}) /\ Send(<<is, request>>)
    BY <1>12 DEF ScanDeviceType
  <2> HIDE DEF is, request
  <2>5. /\ UNCHANGED <<pc, e_state, functions, nvt, offered_will, offered_do>>
        /\ got' \subseteq {"binary", "eor", "term", "device", "functions"}
        /\ answers' \in Nat
    <3>1. answers' = answers + 1 /\ answers \in Nat
      BY <1>1, <1>12 DEF ScanDeviceType, TypeOK
    <3>2. got' \subseteq {"binary", "eor", "term", "device", "functions"}
      BY <1>1, <1>12 DEF ScanDeviceType, TypeOK
    <3>3. UNCHANGED <<pc, e_state, functions, nvt, offered_will, offered_do>>
      BY <1>12 DEF ScanDeviceType
    <3>4. QED
      BY <3>1, <3>2, <3>3
  <2>6. QED
    BY <1>1, <2>2, <2>3, <2>4, <2>5, ScanTyped DEF TypeOK
<1>13. CASE ScanFunctions
  <2> DEFINE is == FunctionsToken("FUNCTIONS IS", functions')
  <2>1. functions' \subseteq Supported
    BY <1>13 DEF ScanFunctions
  <2>2. is \in Tokens
    BY <2>1, TokensTyped, SupportedAssumption DEF Commands
  <2>3. PICK messages \in {<<>>, <<is>>} : Send(messages)
    BY <1>13 DEF ScanFunctions
  <2>4. messages \in Seq(Tokens) /\ Naming(Held(messages))
    BY <1>1, <1>2, <2>2, <2>3
  <2>5. QED
    BY <1>1, <1>13, <2>1, <2>3, <2>4, ScanTyped DEF ScanFunctions, TypeOK
<1>14. CASE ScanUnknown
  <2>1. Send(<<>>)
    BY <1>1, <1>14, SendNothing DEF ScanUnknown
  <2>2. QED
    BY <1>1, <1>2, <1>14, <2>1, ScanTyped DEF ScanUnknown, TypeOK
<1>15. CASE ScanText
  BY <1>1, <1>15 DEF ScanText, TypeOK, TypeInv, Naming, FromClient, ToClient, clientVars
<1>16. CASE EndScan
  BY <1>1, <1>16 DEF EndScan, TypeOK, TypeInv, Naming, FromClient, ToClient, clientVars
<1>17. QED
  BY <1>3, <1>4, <1>5, <1>7, <1>8, <1>9, <1>10, <1>11, <1>12, <1>13, <1>14,
     <1>15, <1>16 DEF Server

\* The client's steps keep the types.
LEMMA ClientTyped == ASSUME TypeInv, Client PROVE TypeInv'
<1>1. /\ TypeOK /\ Naming(FromClient \cup ToClient)
      /\ \A cmd \in Commands, opt \in Options \cup {""} : Token(cmd, opt) \in Tokens
      /\ <<>> \in Seq(Tokens) /\ \A a \in Tokens : <<a>> \in Seq(Tokens)
  BY TokensTyped, ShortTyped DEF TypeInv
<1>2. /\ Naming(Held(<<>>))
      /\ \A cmd, opt : opt \in Options \/ cmd \notin {"WILL", "WONT", "DO", "DONT"}
                         => Naming(Held(<<Token(cmd, opt)>>))
      /\ \A cmd \in {"FUNCTIONS REQUEST", "FUNCTIONS IS"} : \A funcs :
           Naming(Held(<<FunctionsToken(cmd, funcs)>>))
  BY ShortNamed
<1>3. client.options \subseteq Options
  BY <1>1, ClientsAssumption DEF TypeOK, ClientKinds
<1>4. ASSUME NEW cmd0 \in {"WILL", "WONT", "DO", "DONT"}, Arrives(cmd0)
      PROVE  /\ Arg \in Options
             /\ \A cmd \in {"WILL", "WONT", "DO", "DONT"} :
                  /\ <<Token(cmd, Arg)>> \in Seq(Tokens)
                  /\ Naming(Held(<<Token(cmd, Arg)>>))
  <2>1. Arg \in Options
    BY <1>1, <1>4, ArrivesTakes DEF Arg, Naming
  <2>2. QED
    BY <1>1, <1>2, <2>1 DEF Commands
<1>5. CASE ClientDo
  <2>1. PICK tokens \in {<<>>, <<Token("WILL", Arg)>>, <<Token("WONT", Arg)>>} :
          Reply(tokens)
    BY <1>5 DEF ClientDo
  <2>2. Arg \in Options /\ tokens \in Seq(Tokens) /\ Naming(Held(tokens))
    BY <1>1, <1>2, <1>4, <1>5, <2>1 DEF ClientDo
  <2>3. QED
    BY <1>1, <1>5, <2>1, <2>2, ArrivalTyped DEF ClientDo, TypeOK
<1>6. CASE ClientWill
  <2>1. PICK tokens \in {<<>>, <<Token("DO", Arg)>>, <<Token("DONT", Arg)>>} :
          Reply(tokens)
    BY <1>6 DEF ClientWill
  <2>2. Arg \in Options /\ tokens \in Seq(Tokens) /\ Naming(Held(tokens))
    BY <1>1, <1>2, <1>4, <1>6, <2>1 DEF ClientWill
  <2>3. QED
    BY <1>1, <1>6, <2>1, <2>2, ArrivalTyped DEF ClientWill, TypeOK
<1>7. CASE ClientDont
  <2>1. PICK tokens \in {<<>>, <<Token("WONT", Arg)>>} : Reply(tokens)
    BY <1>7 DEF ClientDont
  <2>2. tokens \in Seq(Tokens) /\ Naming(Held(tokens))
    BY <1>1, <1>2, <1>4, <1>7, <2>1 DEF ClientDont
  <2>3. QED
    BY <1>1, <1>7, <2>1, <2>2, ArrivalTyped DEF ClientDont, TypeOK
<1>8. CASE ClientWont
  <2>1. PICK tokens \in {<<>>, <<Token("DONT", Arg)>>} : Reply(tokens)
    BY <1>8 DEF ClientWont
  <2>2. tokens \in Seq(Tokens) /\ Naming(Held(tokens))
    BY <1>1, <1>2, <1>4, <1>8, <2>1 DEF ClientWont
  <2>3. QED
    BY <1>1, <1>8, <2>1, <2>2, ArrivalTyped DEF ClientWont, TypeOK
<1>9. CASE ClientTerminalType
  <2>1. PICK cmd \in Commands, tokens \in {<<>>, <<Token("TERMINAL-TYPE IS", "")>>} :
          Arrives(cmd) /\ Reply(tokens)
    BY <1>1, <1>9, ReplyNothing DEF ClientTerminalType, Commands
  <2>2. tokens \in Seq(Tokens) /\ Naming(Held(tokens))
    BY <1>1, <1>2, <2>1 DEF Commands
  <2>3. QED
    BY <1>1, <1>9, <2>1, <2>2, ArrivalTyped DEF ClientTerminalType, TypeOK
<1>10. CASE ClientDeviceType
  <2>1. PICK cmd \in Commands, tokens \in {<<>>, <<Token("DEVICE-TYPE REQUEST", "")>>,
                              <<FunctionsToken("FUNCTIONS REQUEST", agreed)>>} :
          Arrives(cmd) /\ Reply(tokens)
    BY <1>10 DEF ClientDeviceType, Commands
  <2>2. FunctionsToken("FUNCTIONS REQUEST", agreed) \in Tokens
    BY <1>1, TokensTyped DEF TypeOK, Commands
  <2>3. tokens \in Seq(Tokens) /\ Naming(Held(tokens))
    BY <1>1, <1>2, <2>1, <2>2 DEF Commands
  <2>4. QED
    BY <1>1, <1>10, <2>1, <2>3, ArrivalTyped DEF ClientDeviceType, TypeOK
<1>11. CASE ClientFunctionsRequest
  <2>1. agreed' \subseteq Functions
    BY <1>1, <1>11 DEF ClientFunctionsRequest, TypeOK
  <2>2. \A cmd \in {"FUNCTIONS REQUEST", "FUNCTIONS IS"} :
          FunctionsToken(cmd, agreed') \in Tokens
    BY <2>1, TokensTyped DEF Commands
  <2>3. PICK tokens \in {<<FunctionsToken("FUNCTIONS REQUEST", agreed')>>,
                         <<FunctionsToken("FUNCTIONS IS", agreed')>>} : Reply(tokens)
    BY <1>11 DEF ClientFunctionsRequest
  <2>4. tokens \in Seq(Tokens) /\ Naming(Held(tokens))
    BY <1>1, <1>2, <2>2, <2>3
  <2>5. QED
    BY <1>1, <1>11, <2>1, <2>3, <2>4, ArrivalTyped DEF ClientFunctionsRequest, TypeOK
<1>12. CASE ClientFunctionsIs
  <2>1. PICK tokens \in {<<>>, <<Token("WONT", "TN3270E")>>} : Reply(tokens)
    BY <1>1, <1>12, ReplyNothing DEF ClientFunctionsIs
  <2>2. tokens \in Seq(Tokens) /\ Naming(Held(tokens))
    BY <1>1, <1>2, <2>1 DEF Commands, Options
  <2>3. agreed' \subseteq Functions /\ mine' \subseteq Options /\ yours' \subseteq Options
    BY <1>1, <1>12 DEF ClientFunctionsIs, TypeOK
  <2>4. QED
    BY <1>12, <2>1, <2>2, <2>3, ArrivalTyped DEF ClientFunctionsIs
<1>13. QED
  BY <1>5, <1>6, <1>7, <1>8, <1>9, <1>10, <1>11, <1>12 DEF Client

\* Every step keeps the types.
LEMMA NextTyped == TypeInv /\ [Next]_vars => TypeInv'
<1> SUFFICES ASSUME TypeInv, [Next]_vars PROVE TypeInv'
  OBVIOUS
<1>1. TypeOK /\ Naming(FromClient \cup ToClient)
  BY DEF TypeInv
<1>2. CASE RecvTimeout
  BY <1>1, <1>2 DEF RecvTimeout, TypeOK, TypeInv, Naming, FromClient, ToClient, clientVars
<1>3. CASE ClientSays
  <2>1. \A cmd \in Commands, opt \in Options \cup {""} : Token(cmd, opt) \in Tokens
    BY TokensTyped
  <2>2. PICK extra \in Extras, token \in Tokens :
          /\ Say(extra, token)
          /\ token.cmd \in {"WILL", "WONT", "DO", "DONT"} => token.opt \in Options
    <3>1. ASSUME NEW extra \in Extras, NEW cmd \in Commands, NEW opt \in Options \cup {""},
                 cmd \in {"WILL", "WONT", "DO", "DONT"} => opt \in Options,
                 Say(extra, Token(cmd, opt))
          PROVE  \E token \in Tokens :
                   /\ Say(extra, token)
                   /\ token.cmd \in {"WILL", "WONT", "DO", "DONT"} => token.opt \in Options
      BY <2>1, <3>1 DEF Token
    <3>2. PICK extra \in Extras, cmd \in Commands, opt \in Options \cup {""} :
            /\ cmd \in {"WILL", "WONT", "DO", "DONT"} => opt \in Options
            /\ Say(extra, Token(cmd, opt))
      BY <1>3 DEF ClientSays, Options, Commands, Extras
    <3>3. QED
      BY <3>1, <3>2
  <2>3. mine' \subseteq Options /\ yours' \subseteq Options
    BY <1>1, <1>3 DEF ClientSays, TypeOK, Options
  <2>4. /\ UNCHANGED <<serverVars, client, agreed, hungUp, toClient>>
        /\ toServer' \in Seq(Tokens) /\ left' \subseteq Extras
        /\ FromClient' = FromClient \cup {token}
    BY <1>1, <2>2, SayAdds DEF Say
  <2>5. TypeOK'
    BY <1>1, <2>3, <2>4 DEF TypeOK, serverVars
  <2>6. QED
    BY <1>1, <2>2, <2>4, <2>5 DEF TypeInv, Naming, ToClient
<1>4. CASE ClientHangsUp
  BY <1>1, <1>4 DEF ClientHangsUp, Use, TypeOK, TypeInv, Naming, FromClient, ToClient, serverVars
<1>5. CASE UNCHANGED vars
  BY <1>1, <1>5 DEF vars, serverVars, clientVars, TypeOK, TypeInv, Naming, FromClient, ToClient
<1>6. QED
  BY <1>2, <1>3, <1>4, <1>5, ServerTyped, ClientTyped DEF Next

\* Every variable keeps its type; with it, that every command which enables or
\* disables an option names one.
LEMMA Typing == Spec => []TypeInv
BY InitTyped, NextTyped, PTL DEF Spec

\* Every variable has its type.
THEOREM NegotiationTyped == Spec => []TypeOK
<1>1. TypeInv => TypeOK
  BY DEF TypeInv
<1>2. QED
  BY <1>1, Typing, PTL

-----------------------------------------------------------------------------
(* What a step adds to the two channels.                                   *)

\* What a queue holds when tokens are added to it.
LEMMA HeldAppend ==
  ASSUME NEW S, NEW s \in Seq(S)
  PROVE  /\ Held(s \o <<>>) = Held(s)
         /\ \A a : Held(s \o <<a>>) = Held(s) \cup {a}
         /\ \A a, b : Held(s \o <<a, b>>) = Held(s) \cup {a, b}
<1>1. Held(s \o <<>>) = Held(s)
  BY ConcatEmptySeq
<1>2. ASSUME NEW a, NEW b
      PROVE  /\ Held(s \o <<a>>) = Held(s) \cup {a}
             /\ Held(s \o <<a, b>>) = Held(s) \cup {a, b}
  <2> DEFINE T == S \cup {a, b}
  <2>1. s \in Seq(T)
    BY SeqMonotonic
  <2>2. <<a>> \in Seq(T) /\ <<a, b>> \in Seq(T)
    OBVIOUS
  <2> HIDE DEF T
  <2>3. ASSUME NEW t \in Seq(T)
        PROVE  Held(s \o t) = Held(s) \cup Held(t)
    BY <2>1, HeldConcat, Zenon
  <2>4. Held(<<a>>) = {a} /\ Held(<<a, b>>) = {a, b}
    BY HeldShort, Zenon
  <2>5. QED
    BY <2>2, <2>3, <2>4, Zenon
<1>3. QED
  BY <1>1, <1>2

\* A message the server adds withdraws only an option that the client has
\* withdrawn, and never TN3270E; it proposes all it supports, and answers with
\* the functions it has just taken.
Answers(t) ==
  /\ \A option : Disables(t, option) =>
       option # "TN3270E" /\ \E u \in FromClient : Disables(u, option)
  /\ t.cmd = "FUNCTIONS REQUEST" => t.funcs = Supported
  /\ t.cmd = "FUNCTIONS IS" => "functions" \in got' /\ t.funcs = functions'

\* What each of the server's steps sends.
LEMMA ServerSends ==
  ASSUME TypeOK, Server
  PROVE  /\ FromClient' = FromClient /\ ToClient \subseteq ToClient'
         /\ \A t \in ToClient' : t \in ToClient \/ Answers(t)
         /\ "device" \in got' =>
              "device" \in got \/ \E t \in ToClient' : t.cmd = "FUNCTIONS REQUEST"
<1> DEFINE P == /\ FromClient' = FromClient /\ ToClient \subseteq ToClient'
                /\ \A t \in ToClient' : t \in ToClient \/ Answers(t)
                /\ "device" \in got' =>
                     "device" \in got \/ \E t \in ToClient' : t.cmd = "FUNCTIONS REQUEST"
<1>1. /\ toClient \in Seq(Tokens)
      /\ Send(<<>>) => ToClient' = ToClient
      /\ \A a : Send(<<a>>) => ToClient' = ToClient \cup {a}
      /\ \A a, b : Send(<<a, b>>) => ToClient' = ToClient \cup {a, b}
  <2>1. toClient \in Seq(Tokens)
    BY DEF TypeOK
  <2>2. \A a : /\ Held(toClient \o <<>>) = Held(toClient)
               /\ Held(toClient \o <<a>>) = Held(toClient) \cup {a}
    BY <2>1, HeldAppend, Zenon
  <2>3. \A a, b : Held(toClient \o <<a, b>>) = Held(toClient) \cup {a, b}
    BY <2>1, HeldAppend, Zenon
  <2>4. QED
    BY <2>1, <2>2, <2>3 DEF Send, ToClient
<1>2. UNCHANGED toClient => ToClient' = ToClient
  BY DEF ToClient
<1>3. ASSUME NEW cmd \in {"WONT", "DONT"}, NEW refused \in {"WONT", "DONT"},
             Scanning({refused}), Option # "TN3270E"
      PROVE  Answers(Token(cmd, Option))
  <2>1. buffer[i] \in FromClient /\ buffer[i].cmd = refused
    BY <1>3, ScanReads
  <2>2. Disables(buffer[i], Option)
    BY <2>1 DEF Disables, Option
  <2>3. QED
    BY <1>3, <2>1, <2>2 DEF Answers, Disables, Token
<1>4. \A cmd, opt : cmd \notin {"WONT", "DONT", "FUNCTIONS REQUEST", "FUNCTIONS IS"}
                      => Answers(Token(cmd, opt))
  BY DEF Answers, Disables, Token
<1>5. ASSUME NEW n \in 0 .. Len(toServer), NEW more \in BOOLEAN, Recv(n, more)
      PROVE  P
  <2>1. FromClient' = FromClient
    BY <1>5, RecvMoves, Zenon
  <2>2. QED
    BY <1>2, <1>5, <2>1 DEF Recv
<1>6. CASE RecvEof \/ ScanText \/ EndScan
  BY <1>2, <1>6 DEF RecvEof, ScanText, EndScan, FromClient
<1>7. ASSUME NEW cmds, Scanning(cmds)
      PROVE  FromClient' = FromClient
  BY <1>7, ScanReads
<1>8. CASE ScanTn3270e
  <2>1. ToClient' = ToClient \/ ToClient' = ToClient \cup {Token("DEVICE-TYPE SEND", "")}
    BY <1>1, <1>2, <1>8 DEF ScanTn3270e
  <2>2. QED
    BY <1>4, <1>7, <1>8, <2>1 DEF ScanTn3270e
<1>9. CASE ScanWill
  <2>1. ToClient' = ToClient \/ ToClient' = ToClient \cup {Token("DO", Option)}
    BY <1>1, <1>9 DEF ScanWill
  <2>2. QED
    BY <1>4, <1>7, <1>9, <2>1 DEF ScanWill, Settles
<1>10. CASE ScanDo
  <2>1. ToClient' = ToClient \/ ToClient' = ToClient \cup {Token("WILL", Option)}
    BY <1>1, <1>10 DEF ScanDo
  <2>2. QED
    BY <1>4, <1>7, <1>10, <2>1 DEF ScanDo, Settles
<1>11. CASE ScanDont
  <2>1. ToClient' = ToClient \/ ToClient' = ToClient \cup {Token("WONT", Option)}
    BY <1>1, <1>11 DEF ScanDont
  <2>2. QED
    BY <1>3, <1>7, <1>11, <2>1 DEF ScanDont
<1>12. CASE ScanWont
  <2>1. ToClient' = ToClient \/ ToClient' = ToClient \cup {Token("DONT", Option)}
    BY <1>1, <1>12 DEF ScanWont
  <2>2. QED
    BY <1>3, <1>7, <1>12, <2>1 DEF ScanWont
<1>13. CASE ScanTerminalType
  <2>1. ToClient' = ToClient \/ ToClient' = ToClient \cup {Token("TERMINAL-TYPE IS", "")}
    BY <1>1, <1>2, <1>13 DEF ScanTerminalType
  <2>2. "device" \in got' => "device" \in got
    <3>1. got' \in {got, got \cup {"term"}}
      BY <1>13 DEF ScanTerminalType
    <3>2. QED
      BY <3>1
  <2>3. FromClient' = FromClient
    BY <1>7, <1>13 DEF ScanTerminalType
  <2>4. QED
    BY <1>4, <2>1, <2>2, <2>3
<1>14. CASE ScanDeviceType
  <2> DEFINE request == FunctionsToken("FUNCTIONS REQUEST", Supported)
  <2>1. ToClient' = ToClient \cup {Token("DEVICE-TYPE IS", ""), request}
    BY <1>1, <1>14 DEF ScanDeviceType
  <2>2. Answers(request) /\ request.cmd = "FUNCTIONS REQUEST"
    BY DEF Answers, Disables, FunctionsToken
  <2> HIDE DEF request
  <2>3. QED
    BY <1>4, <1>7, <1>14, <2>1, <2>2 DEF ScanDeviceType
<1>15. CASE ScanFunctions
  <2> DEFINE is == FunctionsToken("FUNCTIONS IS", functions')
  <2>1. ToClient' = ToClient \/ ToClient' = ToClient \cup {is}
    BY <1>1, <1>15 DEF ScanFunctions
  <2>2. Answers(is)
    BY <1>15 DEF Answers, Disables, FunctionsToken, ScanFunctions
  <2> HIDE DEF is
  <2>3. QED
    BY <1>7, <1>15, <2>1, <2>2 DEF ScanFunctions
<1>16. CASE ScanUnknown
  BY <1>2, <1>7, <1>16 DEF ScanUnknown
<1>17. QED
  BY <1>5, <1>6, <1>8, <1>9, <1>10, <1>11, <1>12, <1>13, <1>14, <1>15, <1>16 DEF Server

\* A token the client adds refuses an option that it does not have, or answers
\* the withdrawal of one, or abandons TN3270E; it offers TN3270E only when it
\* takes the option; and it proposes the functions it holds.
Responds(t) ==
  /\ \A option : Disables(t, option) =>
       \/ option \notin client.options
       \/ Disables(Head(toClient), option)
       \/ /\ option = "TN3270E" /\ Head(toClient).cmd = "FUNCTIONS IS"
          /\ ~ (Theirs \subseteq agreed)
  /\ t.cmd = "WILL" => t.opt \in mine'
  /\ t.cmd \in {"FUNCTIONS REQUEST", "FUNCTIONS IS"} => t.funcs \in {agreed, agreed'}

\* What the client replies to each token.
LEMMA ClientReplies ==
  ASSUME TypeOK, Client
  PROVE  /\ ToClient = {Head(toClient)} \cup ToClient'
         /\ FromClient \subseteq FromClient'
         /\ \A t \in FromClient' : t \in FromClient \/ Responds(t)
<1> DEFINE P == \A t \in FromClient' : t \in FromClient \/ Responds(t)
<1>1. /\ ToClient = {Head(toClient)} \cup ToClient'
      /\ buffer' = buffer
      /\ \E cmd : Arrives(cmd)
  <2>1. PICK cmd : Arrives(cmd)
    BY Zenon DEF Client, ClientDo, ClientWill, ClientDont, ClientWont, ClientTerminalType,
           ClientDeviceType, ClientFunctionsRequest, ClientFunctionsIs
  <2>2. QED
    BY <2>1, ArrivesTakes DEF Arrives, serverVars
<1>2. /\ UNCHANGED toServer => FromClient' = FromClient
      /\ Reply(<<>>) => FromClient' = FromClient
      /\ \A a : Reply(<<a>>) => FromClient' = FromClient \cup {a}
  <2>1. toServer \in Seq(Tokens)
    BY DEF TypeOK
  <2>2. \A a : Held(toServer \o <<>>) = Held(toServer)
               /\ Held(toServer \o <<a>>) = Held(toServer) \cup {a}
    BY <2>1, HeldAppend, Zenon
  <2>3. QED
    BY <1>1, <2>2 DEF Reply, FromClient
<1>3. \A cmd, opt : cmd \notin {"WILL", "WONT", "DONT", "FUNCTIONS REQUEST", "FUNCTIONS IS"}
                      => Responds(Token(cmd, opt))
  BY DEF Responds, Disables, Token
<1>4. \A cmd \in {"WONT", "DONT"} : \A opt :
        opt \notin client.options \/ Disables(Head(toClient), opt)
          => Responds(Token(cmd, opt))
  BY DEF Responds, Disables, Token
<1>5. \A opt \in mine' : Responds(Token("WILL", opt))
  BY DEF Responds, Disables, Token
<1>6. \A cmd \in {"FUNCTIONS REQUEST", "FUNCTIONS IS"}, funcs \in {agreed, agreed'} :
        Responds(FunctionsToken(cmd, funcs))
  BY DEF Responds, Disables, FunctionsToken
<1>7. \A cmd \in {"WONT", "DONT"} :
        Head(toClient).cmd = cmd => Disables(Head(toClient), Arg)
  BY DEF Disables, Arg
<1>8. CASE ClientDo
  <2>1. \/ FromClient' = FromClient
        \/ Arg \in mine' /\ FromClient' = FromClient \cup {Token("WILL", Arg)}
        \/ Arg \notin client.options /\ FromClient' = FromClient \cup {Token("WONT", Arg)}
    BY <1>2, <1>8 DEF ClientDo
  <2>2. QED
    BY <1>1, <1>4, <1>5, <2>1
<1>9. CASE ClientWill
  <2>1. \/ FromClient' = FromClient
        \/ FromClient' = FromClient \cup {Token("DO", Arg)}
        \/ Arg \notin client.options /\ FromClient' = FromClient \cup {Token("DONT", Arg)}
    BY <1>2, <1>9 DEF ClientWill
  <2>2. QED
    BY <1>1, <1>3, <1>4, <2>1
<1>10. CASE ClientDont
  <2>1. \/ FromClient' = FromClient
        \/ FromClient' = FromClient \cup {Token("WONT", Arg)}
    BY <1>2, <1>10 DEF ClientDont
  <2>2. Disables(Head(toClient), Arg)
    BY <1>7, <1>10 DEF ClientDont, Arrives
  <2>3. QED
    BY <1>1, <1>4, <2>1, <2>2
<1>11. CASE ClientWont
  <2>1. \/ FromClient' = FromClient
        \/ FromClient' = FromClient \cup {Token("DONT", Arg)}
    BY <1>2, <1>11 DEF ClientWont
  <2>2. Disables(Head(toClient), Arg)
    BY <1>7, <1>11 DEF ClientWont, Arrives
  <2>3. QED
    BY <1>1, <1>4, <2>1, <2>2
<1>12. CASE ClientTerminalType
  <2>1. \/ FromClient' = FromClient
        \/ FromClient' = FromClient \cup {Token("TERMINAL-TYPE IS", "")}
    BY <1>2, <1>12 DEF ClientTerminalType
  <2>2. QED
    BY <1>1, <1>3, <2>1
<1>13. CASE ClientDeviceType
  <2>1. \/ FromClient' = FromClient
        \/ FromClient' = FromClient \cup {Token("DEVICE-TYPE REQUEST", "")}
        \/ FromClient' = FromClient \cup {FunctionsToken("FUNCTIONS REQUEST", agreed)}
    BY <1>2, <1>13 DEF ClientDeviceType
  <2>2. QED
    BY <1>1, <1>3, <1>6, <2>1
<1>14. CASE ClientFunctionsRequest
  <2>1. \E cmd \in {"FUNCTIONS REQUEST", "FUNCTIONS IS"} :
          FromClient' = FromClient \cup {FunctionsToken(cmd, agreed')}
    BY <1>2, <1>14 DEF ClientFunctionsRequest
  <2>2. QED
    BY <1>1, <1>6, <2>1
<1>15. CASE ClientFunctionsIs
  <2>1. \/ FromClient' = FromClient
        \/ /\ ~ (Theirs \subseteq agreed)
           /\ FromClient' = FromClient \cup {Token("WONT", "TN3270E")}
    BY <1>2, <1>15 DEF ClientFunctionsIs
  <2>2. Head(toClient).cmd = "FUNCTIONS IS"
    BY <1>15 DEF ClientFunctionsIs, Arrives
  <2>3. ~ (Theirs \subseteq agreed) => Responds(Token("WONT", "TN3270E"))
    BY <2>2 DEF Responds, Disables, Token
  <2>4. QED
    BY <1>1, <2>1, <2>3
<1>16. QED
  BY <1>1, <1>8, <1>9, <1>10, <1>11, <1>12, <1>13, <1>14, <1>15 DEF Client

\* What the client says of its own accord is not about TN3270E or its functions.
LEMMA SaysOther ==
  ASSUME TypeOK, ClientSays
  PROVE  /\ UNCHANGED <<serverVars, client, agreed, hungUp, toClient>>
         /\ "TN3270E" \in mine' <=> "TN3270E" \in mine
         /\ \A t \in FromClient' :
              \/ t \in FromClient
              \/ /\ t.opt \in {"OTHER", ""}
                 /\ t.cmd \notin {"FUNCTIONS REQUEST", "FUNCTIONS IS"}
<1>1. PICK extra, cmd \in Commands \ {"FUNCTIONS REQUEST", "FUNCTIONS IS"}, opt \in {"OTHER", ""} :
        Say(extra, Token(cmd, opt))
  BY DEF ClientSays, Commands
<1>2. Token(cmd, opt) \in Tokens
  BY TokensTyped DEF Options
<1>3. FromClient' = FromClient \cup {Token(cmd, opt)}
  BY <1>1, <1>2, SayAdds, Zenon
<1>4. Token(cmd, opt).cmd = cmd /\ Token(cmd, opt).opt = opt
  BY DEF Token
<1>5. "TN3270E" \in mine' <=> "TN3270E" \in mine
  BY DEF ClientSays
<1>6. QED
  BY <1>1, <1>3, <1>4, <1>5 DEF Say

-----------------------------------------------------------------------------
(* Line mode.                                                              *)

\* The opening state.
LEMMA InitNvt == Init => NvtInv
<1> SUFFICES ASSUME Init PROVE NvtInv
  OBVIOUS
<1>1. FromClient = {} /\ ToClient = Held(FirstOffers)
  BY HeldShort DEF Init, FromClient, ToClient
<1>2. ASSUME NEW t \in ToClient
      PROVE  ~ Disables(t, "BINARY")
  <2>1. t.cmd \in {"WILL", "DO", "TERMINAL-TYPE SEND"}
    BY <1>1, FirstOffersTyped
  <2>2. QED
    BY <2>1 DEF Disables
<1>3. QED
  BY <1>1, <1>2 DEF Init, NvtInv, NvtJustified

\* Once there is text in the buffer it stays there.
LEMMA NvtStays ==
  ASSUME TypeOK, NvtJustified, UNCHANGED <<buffer, nvt, client>>
  PROVE  NvtJustified'
BY DEF NvtJustified

\* Line mode is entered only on what a line-mode client says.
LEMMA NextNvt ==
  ASSUME TypeInv, NvtInv, [Next]_vars
  PROVE  NvtInv'
<1> DEFINE Clean == \A t \in FromClient \cup ToClient : ~ Disables(t, "BINARY")
<1>1. TypeOK /\ NvtJustified /\ ("BINARY" \in client.options => Clean)
  BY DEF TypeInv, NvtInv
<1>2. CASE Server
  <2>1. client' = client
    BY <1>2 DEF Server, Recv, RecvEof, Scanning, ScanTn3270e, ScanWill, ScanDo, ScanDont,
       ScanWont, ScanTerminalType, ScanDeviceType, ScanFunctions, ScanUnknown, ScanText,
       EndScan, clientVars
  <2>2. /\ FromClient' = FromClient
        /\ \A t \in ToClient' : t \in ToClient \/ Answers(t)
    BY <1>1, <1>2, ServerSends
  <2>3. "BINARY" \in client'.options => Clean'
    BY <1>1, <2>1, <2>2 DEF Answers
  <2>4. NvtJustified'
    <3>1. ASSUME NEW n \in 0 .. Len(toServer), NEW more \in BOOLEAN, Recv(n, more)
          PROVE  NvtJustified'
      <4>1. \A k \in DOMAIN buffer : k \in DOMAIN buffer' /\ buffer'[k] = buffer[k]
        <5>1. /\ buffer \in Seq(Tokens) /\ SubSeq(toServer, 1, n) \in Seq(Tokens)
              /\ buffer' = buffer \o SubSeq(toServer, 1, n)
          BY <1>1, <3>1, HeldCut DEF Recv, TypeOK
        <5>2. QED
          BY <5>1, ConcatProperties, LenProperties
      <4>2. nvt' = nvt
        BY <3>1 DEF Recv
      <4>3. QED
        BY <1>1, <2>1, <4>1, <4>2 DEF NvtJustified
    <3>2. CASE RecvEof \/ EndScan
      BY <1>1, <2>1, <3>2, NvtStays DEF RecvEof, EndScan
    <3>3. ASSUME NEW cmds, Scanning(cmds), nvt' = nvt
          PROVE  NvtJustified'
      BY <1>1, <2>1, <3>3, NvtStays DEF Scanning
    <3>4. CASE ScanDont \/ ScanWont
      <4>1. /\ buffer' = buffer /\ buffer[i] \in FromClient
            /\ buffer[i].cmd \in {"WONT", "DONT"} /\ nvt' = (nvt \/ Option = "BINARY")
        BY <1>1, <3>4, ScanReads DEF ScanDont, ScanWont, Scanning, Refusal
      <4>2. Option = "BINARY" => "BINARY" \notin client.options
        BY <1>1, <4>1 DEF Disables, Option
      <4>3. QED
        BY <1>1, <2>1, <4>1, <4>2 DEF NvtJustified
    <3>5. CASE ScanText
      <4>1. buffer' = buffer /\ i \in DOMAIN buffer /\ buffer[i].cmd = "TEXT"
        BY <1>1, <3>5, LenProperties DEF ScanText, TypeOK
      <4>2. QED
        BY <4>1 DEF NvtJustified
    <3>6. QED
      BY <1>2, <3>1, <3>2, <3>3, <3>4, <3>5
      DEF Server, ScanTn3270e, ScanWill, ScanDo, ScanTerminalType, ScanDeviceType,
          ScanFunctions, ScanUnknown
  <2>5. QED
    BY <2>3, <2>4 DEF NvtInv
<1>3. CASE Client
  <2>1. PICK cmd : Arrives(cmd)
    BY <1>3, Zenon DEF Client, ClientDo, ClientWill, ClientDont, ClientWont,
       ClientTerminalType, ClientDeviceType, ClientFunctionsRequest, ClientFunctionsIs
  <2>2. UNCHANGED <<buffer, nvt, client>>
    BY <2>1 DEF Arrives, serverVars
  <2>3. /\ ToClient = {Head(toClient)} \cup ToClient'
        /\ \A t \in FromClient' : t \in FromClient \/ Responds(t)
    BY <1>1, <1>3, ClientReplies
  <2>4. "BINARY" \in client'.options => Clean'
    <3>1. SUFFICES ASSUME "BINARY" \in client.options, NEW t \in FromClient' \cup ToClient'
                   PROVE  ~ Disables(t, "BINARY")
      BY <2>2
    <3>2. t \in FromClient \/ t \in ToClient \/ Responds(t)
      BY <2>3
    <3>3. ~ Disables(Head(toClient), "BINARY")
      BY <1>1, <2>3, <3>1
    <3>4. CASE Responds(t)
      <4>1. "BINARY" # "TN3270E"
        OBVIOUS
      <4>2. QED
        BY <3>1, <3>3, <3>4, <4>1, Zenon DEF Responds
    <3>5. QED
      BY <1>1, <2>3, <3>1, <3>2, <3>4
  <2>5. QED
    BY <1>1, <2>2, <2>4, NvtStays DEF NvtInv
<1>4. CASE ClientSays
  <2>1. /\ UNCHANGED <<buffer, nvt, client, toClient>>
        /\ \A t \in FromClient' : t \in FromClient \/ t.opt \in {"OTHER", ""}
    BY <1>1, <1>4, SaysOther DEF serverVars
  <2>2. "BINARY" \in client'.options => Clean'
    BY <1>1, <2>1 DEF Disables, ToClient
  <2>3. QED
    BY <1>1, <2>1, <2>2, NvtStays DEF NvtInv
<1>5. CASE RecvTimeout \/ ClientHangsUp \/ UNCHANGED vars
  <2>1. UNCHANGED <<buffer, nvt, client, toClient, toServer>>
    BY <1>5 DEF RecvTimeout, ClientHangsUp, vars, serverVars, clientVars
  <2>2. QED
    BY <1>1, <2>1, NvtStays DEF NvtInv, FromClient, ToClient
<1>6. QED
  BY <1>2, <1>3, <1>4, <1>5 DEF Next

\* Line mode is for a client that refuses BINARY or types (README.md:153),
\* whatever it says besides and however often the scan repeats an answer.
THEOREM NvtAlwaysJustified == Spec => []NvtJustified
<1>1. NvtInv => NvtJustified
  BY DEF NvtInv
<1>2. QED
  BY <1>1, InitNvt, NextNvt, Typing, PTL DEF Spec

-----------------------------------------------------------------------------
(* What the two ends have settled.                                         *)

\* The opening state.
LEMMA InitSession == Init => SessionInv
<1> SUFFICES ASSUME Init PROVE SessionInv
  OBVIOUS
<1>1. FromClient = {} /\ ToClient = Held(FirstOffers)
  BY HeldShort DEF Init, FromClient, ToClient
<1>2. ASSUME NEW t \in ToClient
      PROVE  /\ ~ Disables(t, "TN3270E")
             /\ t.cmd \notin {"FUNCTIONS REQUEST", "FUNCTIONS IS"}
  <2>1. t.cmd \in {"WILL", "DO", "TERMINAL-TYPE SEND"}
    BY <1>1, FirstOffersTyped
  <2>2. QED
    BY <2>1 DEF Disables
<1>3. Tn3270eFollows
  BY <1>1, <1>2 DEF Init, Tn3270eFollows
<1>4. FunctionsMutual
  BY <1>1, <1>2 DEF Init, FunctionsMutual
<1>5. QED
  BY <1>3, <1>4 DEF Init, SessionInv, EndsDone

\* The server changes nothing of the client; the client nothing of the server.
LEMMA ServerStays ==
  ASSUME Server PROVE UNCHANGED <<client, mine, yours, agreed, left, hungUp>>
BY DEF Server, Recv, RecvEof, Scanning, ScanTn3270e, ScanWill, ScanDo, ScanDont,
   ScanWont, ScanTerminalType, ScanDeviceType, ScanFunctions, ScanUnknown, ScanText,
   EndScan, clientVars

\* A client that answers takes a token off the channel.
LEMMA ClientArrives ==
  ASSUME Client PROVE \E cmd : Arrives(cmd)
BY Zenon DEF Client, ClientDo, ClientWill, ClientDont, ClientWont,
   ClientTerminalType, ClientDeviceType, ClientFunctionsRequest, ClientFunctionsIs

\* The server's answer never makes the client abandon TN3270E.
LEMMA NeverAbandons ==
  ASSUME TypeOK, FunctionsMutual, toClient # <<>>, Head(toClient).cmd = "FUNCTIONS IS"
  PROVE  Theirs = Mutual /\ Theirs \subseteq agreed
<1>1. Head(toClient) \in ToClient
  BY HeldTail DEF TypeOK, ToClient
<1>2. Theirs = Mutual
  BY <1>1 DEF FunctionsMutual, Theirs
<1>3. QED
  BY <1>2 DEF FunctionsMutual, Mutual

\* Every step keeps TN3270E in step with its first answer.
LEMMA NextTn3270e ==
  ASSUME TypeOK, Tn3270eFollows, FunctionsMutual, [Next]_vars
  PROVE  Tn3270eFollows'
<1>1. CASE Server
  <2>1. /\ UNCHANGED <<client, mine>> /\ FromClient' = FromClient
        /\ \A t \in ToClient' : t \in ToClient \/ Answers(t)
    BY <1>1, ServerStays, ServerSends
  <2>2. \A t \in ToClient' : ~ Disables(t, "TN3270E")
    BY <2>1, Zenon DEF Answers, Tn3270eFollows
  <2>3. \/ e_state' = e_state
        \/ e_state' = "active" /\ "TN3270E" \in mine
        \/ e_state' = "off" /\ "TN3270E" \notin client.options
    <3>1. CASE ScanTn3270e
      <4>1. /\ buffer[i] \in FromClient /\ buffer[i].opt = "TN3270E"
            /\ buffer[i].cmd \in {"WILL", "WONT", "DO", "DONT"}
        BY <3>1, ScanReads DEF ScanTn3270e, Option
      <4>2. \/ e_state' = e_state
            \/ e_state' = "active" /\ buffer[i].cmd = "WILL"
            \/ e_state' = "off" /\ buffer[i].cmd = "WONT"
        BY <3>1, <4>1 DEF ScanTn3270e
      <4>3. QED
        BY <4>1, <4>2 DEF Tn3270eFollows
    <3>2. CASE ~ ScanTn3270e
      BY <1>1, <3>2 DEF Server, Recv, RecvEof, ScanWill, ScanDo, ScanDont, ScanWont,
         ScanTerminalType, ScanDeviceType, ScanFunctions, ScanUnknown, ScanText, EndScan
    <3>3. QED
      BY <3>1, <3>2
  <2>4. QED
    BY <2>1, <2>2, <2>3 DEF Tn3270eFollows
<1>2. CASE Client
  <2>1. PICK cmd : Arrives(cmd)
    BY <1>2, ClientArrives
  <2>2. /\ ToClient = {Head(toClient)} \cup ToClient'
        /\ \A t \in FromClient' : t \in FromClient \/ Responds(t)
    BY <1>2, ClientReplies
  <2>3. e_state' = e_state /\ client' = client /\ toClient # <<>>
    BY <2>1 DEF Arrives, serverVars
  <2>4. ~ Disables(Head(toClient), "TN3270E")
    BY <2>2 DEF Tn3270eFollows
  <2>5. Head(toClient).cmd = "FUNCTIONS IS" => Theirs \subseteq agreed
    BY <2>3, NeverAbandons
  <2>6. /\ "TN3270E" \in mine => "TN3270E" \in mine'
        /\ "TN3270E" \in mine' => "TN3270E" \in mine \/ "TN3270E" \in client.options
    <3>1. CASE ClientDont
      <4>1. Arg # "TN3270E"
        BY <2>4, <3>1 DEF ClientDont, Arrives, Disables, Arg
      <4>2. QED
        BY <3>1, <4>1 DEF ClientDont
    <3>2. CASE ClientFunctionsIs
      BY <2>5, <3>2 DEF ClientFunctionsIs, Arrives
    <3>3. CASE ClientDo
      BY <3>3 DEF ClientDo
    <3>4. CASE ~ (ClientDont \/ ClientFunctionsIs \/ ClientDo)
      BY <1>2, <3>4 DEF Client, ClientWill, ClientWont, ClientTerminalType,
         ClientDeviceType, ClientFunctionsRequest
    <3>5. QED
      BY <3>1, <3>2, <3>3, <3>4
  <2>7. ASSUME NEW t \in FromClient', Responds(t), t.opt = "TN3270E"
        PROVE  /\ t.cmd = "WILL" => "TN3270E" \in mine'
               /\ t.cmd = "WONT" => "TN3270E" \notin client.options
    <3>1. t.cmd = "WONT" => Disables(t, "TN3270E")
      BY <2>7 DEF Disables
    <3>2. Disables(t, "TN3270E") => "TN3270E" \notin client.options
      BY <2>4, <2>5, <2>7, Zenon DEF Responds
    <3>3. t.cmd = "WILL" => "TN3270E" \in mine'
      BY <2>7 DEF Responds
    <3>4. QED
      BY <3>1, <3>2, <3>3
  <2>8. QED
    BY <2>2, <2>3, <2>6, <2>7 DEF Tn3270eFollows
<1>3. CASE ClientSays
  BY <1>3, SaysOther DEF Tn3270eFollows, ToClient, serverVars
<1>4. CASE RecvTimeout \/ ClientHangsUp \/ UNCHANGED vars
  BY <1>4 DEF RecvTimeout, ClientHangsUp, vars, serverVars, clientVars, Tn3270eFollows,
     FromClient, ToClient
<1>5. QED
  BY <1>1, <1>2, <1>3, <1>4 DEF Next

\* Every step keeps the functions the two ends hold mutual.
LEMMA NextFunctions ==
  ASSUME TypeOK, FunctionsMutual, [Next]_vars
  PROVE  FunctionsMutual'
<1>1. Mutual \cap Supported = Mutual /\ client.functions \cap Supported = Mutual
  BY DEF Mutual
<1>2. CASE Server
  <2>1. /\ UNCHANGED <<client, agreed>> /\ Mutual' = Mutual
        /\ FromClient' = FromClient /\ ToClient \subseteq ToClient'
        /\ \A t \in ToClient' : t \in ToClient \/ Answers(t)
        /\ "device" \in got' =>
             "device" \in got \/ \E t \in ToClient' : t.cmd = "FUNCTIONS REQUEST"
    BY <1>2, ServerStays, ServerSends DEF Mutual
  <2>2. "functions" \in got' => functions' = Mutual
    <3>1. CASE ScanFunctions
      <4>1. buffer[i] \in FromClient /\ buffer[i].cmd \in {"FUNCTIONS IS", "FUNCTIONS REQUEST"}
        BY <3>1, ScanReads DEF ScanFunctions
      <4>2. functions' = buffer[i].funcs \cap Supported
        BY <3>1 DEF ScanFunctions
      <4>3. QED
        BY <4>1, <4>2 DEF FunctionsMutual
    <3>2. CASE ~ ScanFunctions
      <4>1. functions' = functions /\ ("functions" \in got' => "functions" \in got)
        <5>1. \/ UNCHANGED <<functions, got>>
              \/ UNCHANGED functions /\ got' = got \cup Settles(Option)
              \/ UNCHANGED functions /\ got' = got \cup {"term"}
              \/ UNCHANGED functions /\ got' = got \cup {"device"}
          BY <1>2, <3>2 DEF Server, Recv, RecvEof, ScanTn3270e, ScanWill, ScanDo, ScanDont,
             ScanWont, ScanTerminalType, ScanDeviceType, ScanUnknown, ScanText, EndScan
        <5>2. "functions" \notin Settles(Option)
          BY DEF Settles
        <5>3. QED
          BY <5>1, <5>2
      <4>2. QED
        BY <4>1 DEF FunctionsMutual
    <3>3. QED
      BY <3>1, <3>2
  <2>3. \A t \in ToClient' :
          /\ t.cmd = "FUNCTIONS REQUEST" => t.funcs = Supported
          /\ t.cmd = "FUNCTIONS IS" => t.funcs = Mutual
    BY <2>1, <2>2 DEF Answers, FunctionsMutual
  <2>4. "device" \in got' =>
          agreed = Mutual \/ \E t \in ToClient' : t.cmd = "FUNCTIONS REQUEST"
    BY <2>1 DEF FunctionsMutual
  <2>5. QED
    BY <2>1, <2>2, <2>3, <2>4 DEF FunctionsMutual
<1>3. CASE Client
  <2>1. PICK cmd : Arrives(cmd)
    BY <1>3, ClientArrives
  <2>2. /\ ToClient = {Head(toClient)} \cup ToClient'
        /\ \A t \in FromClient' : t \in FromClient \/ Responds(t)
    BY <1>3, ClientReplies
  <2>3. /\ UNCHANGED <<got, functions, client>> /\ Mutual' = Mutual
        /\ toClient # <<>>
    BY <2>1 DEF Arrives, serverVars, Mutual
  <2>4. Head(toClient).cmd = "FUNCTIONS REQUEST" => agreed' = Mutual
    <3>1. SUFFICES ASSUME Head(toClient).cmd = "FUNCTIONS REQUEST"
                   PROVE  agreed' = Mutual
      OBVIOUS
    <3>2. Theirs = Supported
      BY <2>2, <3>1 DEF FunctionsMutual, Theirs
    <3>3. ClientFunctionsRequest
      BY <1>3, <3>1 DEF Client, ClientDo, ClientWill, ClientDont, ClientWont,
         ClientTerminalType, ClientDeviceType, ClientFunctionsIs, Arrives
    <3>4. QED
      BY <1>1, <3>2, <3>3 DEF ClientFunctionsRequest, FunctionsMutual
  <2>5. agreed' \in {agreed, Mutual}
    <3>1. CASE ClientFunctionsRequest
      BY <2>4, <3>1 DEF ClientFunctionsRequest, Arrives
    <3>2. CASE ClientFunctionsIs
      <4>1. Theirs = Mutual /\ Theirs \subseteq agreed
        BY <2>3, <3>2, NeverAbandons DEF ClientFunctionsIs, Arrives
      <4>2. QED
        BY <3>2, <4>1 DEF ClientFunctionsIs
    <3>3. CASE ~ (ClientFunctionsRequest \/ ClientFunctionsIs)
      BY <1>3, <3>3 DEF Client, ClientDo, ClientWill, ClientDont, ClientWont,
         ClientTerminalType, ClientDeviceType
    <3>4. QED
      BY <3>1, <3>2, <3>3
  <2>6. agreed \in {client.functions, Mutual} /\ agreed' \in {client.functions, Mutual}
    BY <2>5 DEF FunctionsMutual
  <2>7. \A t \in FromClient' : t.cmd \in {"FUNCTIONS REQUEST", "FUNCTIONS IS"} =>
          t.funcs \cap Supported = Mutual
    <3>1. \A f \in {agreed, agreed'} : f \cap Supported = Mutual
      BY <1>1, <2>6
    <3>2. QED
      BY <2>2, <3>1 DEF Responds, FunctionsMutual
  <2>8. "device" \in got =>
          agreed' = Mutual \/ \E t \in ToClient' : t.cmd = "FUNCTIONS REQUEST"
    BY <2>2, <2>4, <2>5 DEF FunctionsMutual
  <2>9. QED
    BY <2>2, <2>3, <2>6, <2>7, <2>8 DEF FunctionsMutual
<1>4. CASE ClientSays
  <2>1. /\ UNCHANGED <<got, functions, client, agreed, toClient>> /\ Mutual' = Mutual
        /\ ToClient' = ToClient
        /\ \A t \in FromClient' :
             t \in FromClient \/ t.cmd \notin {"FUNCTIONS REQUEST", "FUNCTIONS IS"}
    BY <1>4, SaysOther DEF serverVars, Mutual, ToClient
  <2>2. QED
    BY <2>1 DEF FunctionsMutual
<1>5. CASE RecvTimeout \/ ClientHangsUp \/ UNCHANGED vars
  <2>1. /\ UNCHANGED <<got, functions, client, agreed>> /\ Mutual' = Mutual
        /\ ToClient' = ToClient /\ FromClient' = FromClient
    BY <1>5 DEF RecvTimeout, ClientHangsUp, vars, serverVars, clientVars, Mutual,
       FromClient, ToClient
  <2>2. QED
    BY <2>1 DEF FunctionsMutual
<1>6. QED
  BY <1>2, <1>3, <1>4, <1>5 DEF Next

\* The negotiation ends for a 3270 client only when done() holds.
LEMMA NextEndsDone ==
  ASSUME TypeOK, EndsDone, [Next]_vars
  PROVE  EndsDone'
<1>1. CASE Server
  <2>1. CASE EndScan
    BY <2>1 DEF EndScan, EndsDone, Done, clientVars
  <2>2. CASE ~ EndScan
    <3>1. pc' \in {"recv", "scan"} \/ nvt' = TRUE \/ hungUp' = TRUE
      <4>1. CASE RecvEof
        BY <4>1, ServerStays DEF RecvEof, Server
      <4>2. CASE \E cmds : Scanning(cmds) /\ pc' = pc
        BY <4>2 DEF Scanning
      <4>3. CASE ScanText \/ \E n \in 0 .. Len(toServer), more \in BOOLEAN : Recv(n, more)
        BY <4>3 DEF ScanText, Recv
      <4>4. QED
        BY <1>1, <2>2, <4>1, <4>2, <4>3, Zenon
        DEF Server, ScanTn3270e, ScanWill, ScanDo, ScanDont, ScanWont,
            ScanTerminalType, ScanDeviceType, ScanFunctions, ScanUnknown
    <3>2. QED
      BY <3>1 DEF EndsDone
  <2>3. QED
    BY <2>1, <2>2
<1>2. CASE Client
  BY <1>2, ClientArrives DEF Arrives, serverVars, EndsDone, Done
<1>3. CASE ClientSays
  BY <1>3, SaysOther DEF serverVars, EndsDone, Done
<1>4. CASE RecvTimeout \/ ClientHangsUp \/ UNCHANGED vars
  BY <1>4 DEF RecvTimeout, ClientHangsUp, vars, serverVars, clientVars, EndsDone, Done
<1>5. QED
  BY <1>1, <1>2, <1>3, <1>4 DEF Next

\* The invariant gives the property.
LEMMA SessionFollows == TypeOK /\ SessionInv => SessionAgreed
<1> SUFFICES ASSUME TypeOK, SessionInv, pc = "done", ~nvt, ~hungUp, toClient = <<>>
             PROVE  /\ e_state = "active" <=> "TN3270E" \in mine
                    /\ e_state = "active" => functions = agreed
  BY DEF SessionAgreed
<1>1. Done
  BY DEF SessionInv, EndsDone
<1>2. e_state \in {"active", "off"}
  BY <1>1 DEF Done
<1>3. e_state = "active" <=> "TN3270E" \in mine
  BY <1>2 DEF SessionInv, Tn3270eFollows
<1>4. ASSUME e_state = "active"
      PROVE  functions = agreed
  <2>1. "device" \in got /\ "functions" \in got
    BY <1>1, <1>4 DEF Done
  <2>2. ToClient = {}
    BY HeldShort DEF ToClient
  <2>3. QED
    BY <2>1, <2>2 DEF SessionInv, FunctionsMutual
<1>5. QED
  BY <1>3, <1>4

\* Once the negotiation is over, both ends frame records the same way and
\* have the same TN3270E functions, whoever proposed first, however the
\* proposals crossed and however often an answer was repeated: whatever the
\* server supports and whatever the client has (server.py:1166-1174, 1218-1233).
THEOREM SessionAlwaysAgreed == Spec => []SessionAgreed
<1>1. TypeInv /\ SessionInv /\ [Next]_vars => SessionInv'
  BY NextTn3270e, NextFunctions, NextEndsDone DEF TypeInv, SessionInv
<1>2. TypeInv /\ SessionInv => SessionAgreed
  BY SessionFollows DEF TypeInv
<1>3. QED
  BY <1>1, <1>2, InitSession, Typing, PTL DEF Spec

-----------------------------------------------------------------------------
(* An option the server did not offer.                                     *)

\* One more token: an "on" for OTHER makes it stand, an "off" ends it, and any
\* other token leaves it.
Speaks(token, on, off, before, after) ==
  IF token.opt = "OTHER" /\ token.cmd \in {on, off}
  THEN after <=> token.cmd = on
  ELSE after <=> before

\* How the next token of a sequence changes the last word on an option.
LEMMA StandsStep ==
  ASSUME NEW s, NEW n \in Nat, NEW on, NEW off, on # off
  PROVE  /\ Speaks(s[n + 1], on, off, Stands(s, n, on, off), Stands(s, n + 1, on, off))
         /\ Mentions(s, n + 1, on, off) <=>
              \/ Mentions(s, n, on, off)
              \/ s[n + 1].opt = "OTHER" /\ s[n + 1].cmd \in {on, off}
         /\ Stands(s, n, on, off) => Mentions(s, n, on, off)
<1> DEFINE On(k) == s[k].cmd = on /\ s[k].opt = "OTHER"
           Off(k) == s[k].cmd = off /\ s[k].opt = "OTHER"
           Step == Speaks(s[n + 1], on, off, Stands(s, n, on, off), Stands(s, n + 1, on, off))
<1>1. 1 .. (n + 1) = (1 .. n) \cup {n + 1}
  OBVIOUS
<1>2. ASSUME On(n + 1) PROVE Step
  <2>1. (n + 2) .. (n + 1) = {} /\ n + 1 \in 1 .. (n + 1) /\ (n + 1) + 1 = n + 2
    OBVIOUS
  <2>2. Stands(s, n + 1, on, off)
    BY <1>2, <2>1 DEF Stands
  <2>3. QED
    BY <1>2, <2>2 DEF Speaks
<1>3. ASSUME Off(n + 1) PROVE Step
  <2>1. ~ On(n + 1)
    BY <1>3
  <2>2. \A k \in 1 .. n : n + 1 \in (k + 1) .. (n + 1)
    OBVIOUS
  <2>3. ~ Stands(s, n + 1, on, off)
    BY <1>1, <1>3, <2>1, <2>2 DEF Stands
  <2>4. QED
    BY <1>3, <2>1, <2>3 DEF Speaks
<1>4. ASSUME ~ On(n + 1) /\ ~ Off(n + 1) PROVE Step
  <2>1. ASSUME NEW k \in 1 .. n
        PROVE  (\A m \in (k + 1) .. (n + 1) : ~ Off(m)) <=> (\A m \in (k + 1) .. n : ~ Off(m))
    <3>1. (k + 1) .. (n + 1) = ((k + 1) .. n) \cup {n + 1}
      OBVIOUS
    <3>2. QED
      BY <1>4, <3>1
  <2>2. Stands(s, n + 1, on, off) <=> Stands(s, n, on, off)
    BY <1>1, <1>4, <2>1 DEF Stands
  <2>3. QED
    BY <1>4, <2>2 DEF Speaks
<1>5. Mentions(s, n + 1, on, off) <=>
        \/ Mentions(s, n, on, off)
        \/ s[n + 1].opt = "OTHER" /\ s[n + 1].cmd \in {on, off}
  <2> DEFINE M(k) == s[k].cmd \in {on, off} /\ s[k].opt = "OTHER"
  <2>1. (\E k \in 1 .. (n + 1) : M(k)) <=> (\E k \in 1 .. n : M(k)) \/ M(n + 1)
    <3> HIDE DEF M
    <3>1. QED
      BY <1>1
  <2>2. QED
    BY <2>1 DEF Mentions
<1>6. Stands(s, n, on, off) => Mentions(s, n, on, off)
  BY DEF Mentions, Stands
<1>7. Step
  BY <1>2, <1>3, <1>4
<1>8. QED
  BY <1>5, <1>6, <1>7

\* The last word among the first n tokens is theirs alone.
LEMMA StandsSame ==
  ASSUME NEW s, NEW r, NEW n \in Nat, \A k \in 1 .. n : s[k] = r[k], NEW on, NEW off
  PROVE  /\ Stands(s, n, on, off) <=> Stands(r, n, on, off)
         /\ Mentions(s, n, on, off) <=> Mentions(r, n, on, off)
<1>1. \A k \in 1 .. n : \A m \in (k + 1) .. n : m \in 1 .. n
  OBVIOUS
<1>2. QED
  BY <1>1 DEF Stands, Mentions

\* One more token after s and t.
LEMMA StandsAppend ==
  ASSUME NEW S, NEW s \in Seq(S), NEW t \in Seq(S), NEW token,
         NEW on, NEW off, on # off
  PROVE  Speaks(token, on, off,
                Stands(s \o t, Len(s) + Len(t), on, off),
                Stands(s \o (t \o <<token>>), Len(s) + Len(t \o <<token>>), on, off))
<1> DEFINE T == S \cup {token}
           n == Len(s) + Len(t)
           u == t \o <<token>>
<1>1. s \in Seq(T) /\ t \in Seq(T) /\ <<token>> \in Seq(T)
      /\ Len(<<token>>) = 1 /\ <<token>>[1] = token
  BY SeqMonotonic
<1>2. Len(s) \in Nat /\ Len(t) \in Nat
  BY LenProperties
<1>3. /\ u \in Seq(T) /\ Len(u) = Len(t) + 1
      /\ \A k \in 1 .. Len(t) + 1 : u[k] = IF k <= Len(t) THEN t[k] ELSE <<token>>[k - Len(t)]
  BY <1>1, ConcatProperties
<1>4. u[Len(t) + 1] = token /\ \A k \in 1 .. Len(t) : u[k] = t[k]
  BY <1>1, <1>2, <1>3
<1> HIDE DEF u
<1>5. /\ \A k \in 1 .. n + 1 : (s \o u)[k] = IF k <= Len(s) THEN s[k] ELSE u[k - Len(s)]
      /\ \A k \in 1 .. n : (s \o t)[k] = IF k <= Len(s) THEN s[k] ELSE t[k - Len(s)]
  BY <1>1, <1>2, <1>3, ConcatProperties
<1>6. (s \o u)[n + 1] = token
  <2>1. n + 1 \in 1 .. n + 1 /\ ~ (n + 1 <= Len(s)) /\ (n + 1) - Len(s) = Len(t) + 1
    BY <1>2
  <2>2. (s \o u)[n + 1] = u[(n + 1) - Len(s)]
    BY <1>5, <2>1, Zenon
  <2>3. QED
    BY <1>4, <2>1, <2>2
<1>7. ASSUME NEW k \in 1 .. n
      PROVE  (s \o u)[k] = (s \o t)[k]
  <2>1. k \in 1 .. n + 1
    BY <1>2
  <2>2. CASE k <= Len(s)
    BY <1>5, <2>1, <2>2, Zenon
  <2>3. CASE ~ (k <= Len(s))
    <3>1. k - Len(s) \in 1 .. Len(t)
      BY <1>2, <2>3
    <3>2. (s \o u)[k] = u[k - Len(s)] /\ (s \o t)[k] = t[k - Len(s)]
      BY <1>5, <2>1, <2>3, Zenon
    <3>3. QED
      BY <1>4, <3>1, <3>2
  <2>4. QED
    BY <2>2, <2>3
<1>8. Len(s) + Len(u) = n + 1 /\ n \in Nat
  BY <1>2, <1>3
<1> HIDE DEF n
<1>9. Speaks((s \o u)[n + 1], on, off, Stands(s \o u, n, on, off), Stands(s \o u, n + 1, on, off))
  BY <1>8, StandsStep
<1>10. Stands(s \o u, n, on, off) <=> Stands(s \o t, n, on, off)
  BY <1>7, <1>8, StandsSame
<1>11. QED
  BY <1>6, <1>8, <1>9, <1>10 DEF Speaks, n, u

\* What the client says of OTHER goes with what it does about it.
Told(token) ==
  /\ Speaks(token, "WILL", "WONT", "OTHER" \in mine, "OTHER" \in mine')
  /\ Speaks(token, "DO", "DONT", "OTHER" \in yours, "OTHER" \in yours')
Silent ==
  /\ toServer' = toServer
  /\ "OTHER" \in mine' <=> "OTHER" \in mine
  /\ "OTHER" \in yours' <=> "OTHER" \in yours

\* What a client's step says of the option: nothing, or one token that tells what
\* the client now does.
LEMMA ClientTells ==
  ASSUME TypeOK, Client \/ ClientSays
  PROVE  /\ UNCHANGED <<serverVars, client>>
         /\ \/ Silent
            \/ \E token : toServer' = toServer \o <<token>> /\ Told(token)
<1> DEFINE Goal == \/ Silent
                   \/ \E token : toServer' = toServer \o <<token>> /\ Told(token)
<1>1. UNCHANGED <<serverVars, client>>
  <2>1. CASE Client
    BY <2>1, ClientArrives DEF Arrives
  <2>2. CASE ClientSays
    BY <2>2, SaysOther
  <2>3. QED
    BY <2>1, <2>2
<1>2. SUFFICES Goal
  BY <1>1
<1>3. /\ "OTHER" \notin client.options
      /\ toServer \in Seq(Tokens) /\ toServer \o <<>> = toServer
  BY ClientsAssumption, ConcatEmptySeq DEF TypeOK, ClientKinds
<1>4. /\ \A cmd, opt : Token(cmd, opt).cmd = cmd /\ Token(cmd, opt).opt = opt
      /\ \A cmd, funcs : FunctionsToken(cmd, funcs).opt = ""
  BY DEF Token, FunctionsToken
<1>5. CASE ClientDo
  <2>1. CASE Arg \in mine
    BY <1>3, <1>5, <2>1 DEF ClientDo, Reply, Silent
  <2>2. CASE Arg \notin mine /\ Arg \in client.options
    <3>1. toServer' = toServer \o <<Token("WILL", Arg)>> /\ mine' = mine \cup {Arg} /\ yours' = yours
      BY <1>5, <2>2 DEF ClientDo, Reply
    <3>2. Told(Token("WILL", Arg))
      BY <1>3, <1>4, <2>2, <3>1 DEF Told, Speaks
    <3>3. QED
      BY <3>1, <3>2
  <2>3. CASE Arg \notin mine /\ Arg \notin client.options
    <3>1. toServer' = toServer \o <<Token("WONT", Arg)>> /\ mine' = mine /\ yours' = yours
      BY <1>5, <2>3 DEF ClientDo, Reply
    <3>2. Told(Token("WONT", Arg))
      <4> DEFINE token == Token("WONT", Arg)
      <4>1. token.cmd = "WONT" /\ token.opt = Arg
        BY DEF Token
      <4> HIDE DEF token
      <4>2. Told(token)
        BY <2>3, <3>1, <4>1 DEF Told, Speaks
      <4>3. QED
        BY <4>2 DEF token
    <3>3. QED
      BY <3>1, <3>2
  <2>4. QED
    BY <2>1, <2>2, <2>3
<1>6. CASE ClientWill
  <2>1. CASE Arg \in yours
    BY <1>3, <1>6, <2>1 DEF ClientWill, Reply, Silent
  <2>2. CASE Arg \notin yours /\ Arg \in client.options
    <3>1. toServer' = toServer \o <<Token("DO", Arg)>> /\ yours' = yours \cup {Arg} /\ mine' = mine
      BY <1>6, <2>2 DEF ClientWill, Reply
    <3>2. Told(Token("DO", Arg))
      BY <1>3, <1>4, <2>2, <3>1 DEF Told, Speaks
    <3>3. QED
      BY <3>1, <3>2
  <2>3. CASE Arg \notin yours /\ Arg \notin client.options
    <3>1. toServer' = toServer \o <<Token("DONT", Arg)>> /\ mine' = mine /\ yours' = yours
      BY <1>6, <2>3 DEF ClientWill, Reply
    <3>2. Told(Token("DONT", Arg))
      <4> DEFINE token == Token("DONT", Arg)
      <4>1. token.cmd = "DONT" /\ token.opt = Arg
        BY DEF Token
      <4> HIDE DEF token
      <4>2. Told(token)
        BY <2>3, <3>1, <4>1 DEF Told, Speaks
      <4>3. QED
        BY <4>2 DEF token
    <3>3. QED
      BY <3>1, <3>2
  <2>4. QED
    BY <2>1, <2>2, <2>3
<1>7. CASE ClientDont
  <2>1. CASE Arg \notin mine
    BY <1>3, <1>7, <2>1 DEF ClientDont, Reply, Silent
  <2>2. CASE Arg \in mine
    <3>1. toServer' = toServer \o <<Token("WONT", Arg)>> /\ mine' = mine \ {Arg} /\ yours' = yours
      BY <1>7, <2>2 DEF ClientDont, Reply
    <3>2. Told(Token("WONT", Arg))
      BY <1>4, <3>1 DEF Told, Speaks
    <3>3. QED
      BY <3>1, <3>2
  <2>3. QED
    BY <2>1, <2>2
<1>8. CASE ClientWont
  <2>1. CASE Arg \notin yours
    BY <1>3, <1>8, <2>1 DEF ClientWont, Reply, Silent
  <2>2. CASE Arg \in yours
    <3>1. toServer' = toServer \o <<Token("DONT", Arg)>> /\ yours' = yours \ {Arg} /\ mine' = mine
      BY <1>8, <2>2 DEF ClientWont, Reply
    <3>2. Told(Token("DONT", Arg))
      BY <1>4, <3>1 DEF Told, Speaks
    <3>3. QED
      BY <3>1, <3>2
  <2>3. QED
    BY <2>1, <2>2
<1>9. ASSUME NEW token, token.opt # "OTHER", Reply(<<token>>),
             "OTHER" \in mine' <=> "OTHER" \in mine, yours' = yours
      PROVE  Goal
  BY <1>9 DEF Reply, Told, Speaks
<1>10. ASSUME Reply(<<>>) \/ UNCHANGED toServer,
             "OTHER" \in mine' <=> "OTHER" \in mine, yours' = yours
      PROVE  Goal
  BY <1>3, <1>10 DEF Reply, Silent
<1>11. CASE ClientTerminalType
  <2>1. UNCHANGED <<mine, yours>>
    BY <1>11 DEF ClientTerminalType
  <2>2. \/ Reply(<<Token("TERMINAL-TYPE IS", "")>>) \/ Reply(<<>>) \/ UNCHANGED toServer
    BY <1>11 DEF ClientTerminalType
  <2>3. QED
    BY <1>4, <1>9, <1>10, <2>1, <2>2
<1>12. CASE ClientDeviceType
  <2>1. UNCHANGED <<mine, yours>>
    BY <1>12 DEF ClientDeviceType
  <2>2. \/ Reply(<<Token("DEVICE-TYPE REQUEST", "")>>)
        \/ Reply(<<FunctionsToken("FUNCTIONS REQUEST", agreed)>>)
        \/ Reply(<<>>)
    BY <1>12 DEF ClientDeviceType
  <2>3. QED
    BY <1>4, <1>9, <1>10, <2>1, <2>2
<1>13. CASE ClientFunctionsRequest
  <2>1. UNCHANGED <<mine, yours>>
    BY <1>13 DEF ClientFunctionsRequest
  <2>2. \E cmd : Reply(<<FunctionsToken(cmd, agreed')>>)
    BY <1>13 DEF ClientFunctionsRequest
  <2>3. QED
    BY <1>4, <1>9, <2>1, <2>2
<1>14. CASE ClientFunctionsIs
  <2>1. ("OTHER" \in mine' <=> "OTHER" \in mine) /\ yours' = yours
    BY <1>14 DEF ClientFunctionsIs
  <2>2. Reply(<<Token("WONT", "TN3270E")>>) \/ UNCHANGED toServer
    BY <1>14 DEF ClientFunctionsIs
  <2>3. QED
    BY <1>4, <1>9, <1>10, <2>1, <2>2
<1>15. CASE ClientSays
  <2>1. PICK token : /\ toServer' = Append(toServer, token)
                     /\ UNCHANGED <<serverVars, client>>
                     /\ Told(token)
    <3>1. ASSUME NEW cmd \in {"WILL", "WONT"},
                 \E extra : Say(extra, Token(cmd, "OTHER")),
                 "OTHER" \in mine' <=> cmd = "WILL", UNCHANGED yours
          PROVE  \E token : /\ toServer' = Append(toServer, token)
                            /\ UNCHANGED <<serverVars, client>>
                            /\ Told(token)
      <4> DEFINE token == Token(cmd, "OTHER")
      <4>1. PICK extra : Say(extra, token)
        BY <3>1
      <4>2. token.cmd = cmd /\ token.opt = "OTHER"
        BY DEF Token
      <4> HIDE DEF token
      <4>3. Told(token)
        BY <3>1, <4>2 DEF Told, Speaks
      <4>4. QED
        BY <4>1, <4>3 DEF Say
    <3>2. ASSUME NEW cmd \in {"DO", "DONT"},
                 \E extra : Say(extra, Token(cmd, "OTHER")),
                 "OTHER" \in yours' <=> cmd = "DO", UNCHANGED mine
          PROVE  \E token : /\ toServer' = Append(toServer, token)
                            /\ UNCHANGED <<serverVars, client>>
                            /\ Told(token)
      <4> DEFINE token == Token(cmd, "OTHER")
      <4>1. PICK extra : Say(extra, token)
        BY <3>2
      <4>2. token.cmd = cmd /\ token.opt = "OTHER"
        BY DEF Token
      <4> HIDE DEF token
      <4>3. Told(token)
        BY <3>2, <4>2 DEF Told, Speaks
      <4>4. QED
        BY <4>1, <4>3 DEF Say
    <3>3. ASSUME NEW extra, Say(extra, Token(extra, "")), UNCHANGED <<mine, yours>>
          PROVE  \E token : /\ toServer' = Append(toServer, token)
                            /\ UNCHANGED <<serverVars, client>>
                            /\ Told(token)
      BY <1>4, <3>3 DEF Told, Speaks, Say
    <3>4. QED
      BY <1>15, <3>1, <3>2, <3>3 DEF ClientSays
  <2>2. Append(toServer, token) = toServer \o <<token>>
    BY <1>3
  <2>3. QED
    BY <2>1, <2>2
<1>16. QED
  BY <1>5, <1>6, <1>7, <1>8, <1>11, <1>12, <1>13, <1>14, <1>15 DEF Client

\* The opening state.
LEMMA InitOption == Init => OptionInv
<1> SUFFICES ASSUME Init PROVE OptionInv
  OBVIOUS
<1>1. Len(buffer) = 0 /\ i = 1 /\ Len(buffer) + Len(toServer) = 0 /\ i - 1 = 0
  BY DEF Init
<1>2. \A s, on, off : ~ Stands(s, 0, on, off) /\ ~ Mentions(s, 0, on, off)
  BY DEF Stands, Mentions
<1>3. /\ "OTHER" \notin mine /\ "OTHER" \notin yours
      /\ "OTHER" \notin offered_do /\ "OTHER" \notin offered_will
  BY DEF Init
<1>4. ScanAtEnd
  BY <1>1 DEF ScanAtEnd
<1>5. QED
  BY <1>1, <1>2, <1>3, <1>4 DEF OptionInv, ClientStands, ServerStands

\* What the client adds to what it said keeps ClientStands.
LEMMA ClientStandsKept ==
  ASSUME TypeOK, NEW token, NEW on, NEW off, on # off, NEW before, NEW after,
         ClientStands("OTHER" \in before, on, off),
         Speaks(token, on, off, "OTHER" \in before, "OTHER" \in after)
  PROVE  "OTHER" \in after <=>
           Stands(buffer \o (toServer \o <<token>>),
                  Len(buffer) + Len(toServer \o <<token>>), on, off)
<1> DEFINE said == Stands(buffer \o toServer, Len(buffer) + Len(toServer), on, off)
           says == Stands(buffer \o (toServer \o <<token>>),
                          Len(buffer) + Len(toServer \o <<token>>), on, off)
<1>1. Speaks(token, on, off, said, says)
  BY StandsAppend DEF TypeOK
<1>2. "OTHER" \in before <=> said
  BY DEF ClientStands
<1> HIDE DEF said
<1>3. "OTHER" \in after <=> says
  BY <1>1, <1>2, Zenon DEF Speaks
<1>4. QED
  BY <1>3

\* What the scan handles of the buffer keeps ServerStands.
LEMMA ServerStandsKept ==
  ASSUME TypeOK, i <= Len(buffer),
         NEW on, NEW off, on # off, NEW before, NEW after,
         ServerStands(i - 1, before, on, off), Speaks(buffer[i], on, off, before, after)
  PROVE  ServerStands(i, after, on, off)
<1>1. i - 1 \in Nat /\ (i - 1) + 1 = i
  BY LenProperties DEF TypeOK
<1>2. /\ Speaks(buffer[i], on, off, Stands(buffer, i - 1, on, off), Stands(buffer, i, on, off))
      /\ Mentions(buffer, i, on, off) <=>
           \/ Mentions(buffer, i - 1, on, off)
           \/ buffer[i].opt = "OTHER" /\ buffer[i].cmd \in {on, off}
  BY <1>1, StandsStep
<1>3. QED
  BY <1>2, Zenon DEF Speaks, ServerStands

\* Each scan does to the server's record what the token says, and a
\* TN3270E token, which is handled apart, says nothing of OTHER.
LEMMA ScanTells ==
  ASSUME TypeOK, Server, NEW cmds, Scanning(cmds)
  PROVE  /\ pc' = pc
         /\ Speaks(buffer[i], "WILL", "WONT",
                   "OTHER" \in offered_do, "OTHER" \in offered_do')
         /\ Speaks(buffer[i], "DO", "DONT",
                   "OTHER" \in offered_will, "OTHER" \in offered_will')
<1> DEFINE Goal == /\ pc' = pc
                   /\ Speaks(buffer[i], "WILL", "WONT",
                             "OTHER" \in offered_do, "OTHER" \in offered_do')
                   /\ Speaks(buffer[i], "DO", "DONT",
                             "OTHER" \in offered_will, "OTHER" \in offered_will')
<1>1. i' = i + 1 /\ i \in Nat /\ pc = "scan"
  BY DEF Scanning, TypeOK
<1>2. CASE ScanWill
  <2>1. buffer[i].cmd = "WILL"
    BY <1>2 DEF ScanWill, Scanning
  <2>2. UNCHANGED <<pc, offered_will>> /\ offered_do' = offered_do \cup {buffer[i].opt}
    BY <1>2 DEF ScanWill, Option
  <2>3. QED
    BY <2>1, <2>2 DEF Speaks
<1>3. CASE ScanWont
  <2>1. buffer[i].cmd = "WONT"
    BY <1>3 DEF ScanWont, Scanning
  <2>2. UNCHANGED <<pc, offered_will>> /\ offered_do' = offered_do \ {buffer[i].opt}
    BY <1>3 DEF ScanWont, Option
  <2>3. QED
    BY <2>1, <2>2 DEF Speaks
<1>4. CASE ScanDo
  <2>1. buffer[i].cmd = "DO"
    BY <1>4 DEF ScanDo, Scanning
  <2>2. UNCHANGED <<pc, offered_do>> /\ offered_will' = offered_will \cup {buffer[i].opt}
    BY <1>4 DEF ScanDo, Option
  <2>3. QED
    BY <2>1, <2>2 DEF Speaks
<1>5. CASE ScanDont
  <2>1. buffer[i].cmd = "DONT"
    BY <1>5 DEF ScanDont, Scanning
  <2>2. UNCHANGED <<pc, offered_do>> /\ offered_will' = offered_will \ {buffer[i].opt}
    BY <1>5 DEF ScanDont, Option
  <2>3. QED
    BY <2>1, <2>2 DEF Speaks
<1>6. CASE ScanTn3270e \/ ScanTerminalType \/ ScanDeviceType \/ ScanFunctions \/ ScanUnknown
  <2>1. buffer[i].opt = "TN3270E" \/ buffer[i].cmd \notin {"WILL", "WONT", "DO", "DONT"}
    BY <1>6 DEF ScanTn3270e, ScanTerminalType, ScanDeviceType, ScanFunctions, ScanUnknown,
       Scanning, Option
  <2>2. UNCHANGED <<pc, offered_do, offered_will>>
    BY <1>6 DEF ScanTn3270e, ScanTerminalType, ScanDeviceType, ScanFunctions, ScanUnknown
  <2>3. QED
    BY <2>1, <2>2 DEF Speaks
<1>7. QED
  BY <1>1, <1>2, <1>3, <1>4, <1>5, <1>6
  DEF Server, Recv, RecvEof, ScanText, EndScan

\* A receive: the scan starts over.
LEMMA RecvOption ==
  ASSUME TypeOK, OptionInv, NEW n \in 0 .. Len(toServer), NEW more \in BOOLEAN,
         Recv(n, more)
  PROVE  OptionInv'
<1>1. /\ buffer' \in Seq(Tokens) /\ toServer' \in Seq(Tokens) /\ i' = 1
      /\ buffer' \o toServer' = buffer \o toServer
  BY RecvMoves, Zenon
<1>2. Len(buffer') + Len(toServer') = Len(buffer) + Len(toServer)
  <2>1. Len(buffer' \o toServer') = Len(buffer') + Len(toServer')
    BY <1>1, ConcatProperties
  <2>2. Len(buffer \o toServer) = Len(buffer) + Len(toServer)
    BY ConcatProperties DEF TypeOK
  <2>3. QED
    BY <1>1, <2>1, <2>2, Zenon
<1>3. UNCHANGED <<mine, yours, offered_do, offered_will>> /\ pc = "recv" /\ pc' = "scan"
  BY DEF Recv, clientVars
<1>4. i - 1 = Len(buffer) /\ i' - 1 = 0 /\ Len(buffer) \in Nat /\ Len(buffer') \in Nat
  BY <1>1, <1>3, LenProperties DEF OptionInv, ScanAtEnd, TypeOK
<1>5. Len(buffer) <= Len(buffer') /\ \A k \in 1 .. Len(buffer) : buffer'[k] = buffer[k]
  <2>1. /\ buffer \in Seq(Tokens) /\ SubSeq(toServer, 1, n) \in Seq(Tokens)
        /\ buffer' = buffer \o SubSeq(toServer, 1, n)
    BY HeldCut DEF Recv, TypeOK
  <2>2. QED
    BY <2>1, ConcatProperties, LenProperties
<1>6. ASSUME NEW on, NEW off, NEW has, ServerStands(i - 1, has, on, off)
      PROVE  /\ ~ Mentions(buffer', i' - 1, on, off)
             /\ has => Mentions(buffer', Len(buffer'), on, off)
  <2>1. ~ Mentions(buffer', i' - 1, on, off)
    BY <1>4 DEF Mentions
  <2>2. has => Mentions(buffer, Len(buffer), on, off)
    BY <1>4, <1>6 DEF ServerStands
  <2>3. Mentions(buffer, Len(buffer), on, off) => Mentions(buffer', Len(buffer'), on, off)
    BY <1>4, <1>5 DEF Mentions
  <2>4. QED
    BY <2>1, <2>2, <2>3
<1>7. /\ ServerStands(i - 1, "OTHER" \in offered_do, "WILL", "WONT")'
      /\ ServerStands(i - 1, "OTHER" \in offered_will, "DO", "DONT")'
  BY <1>3, <1>6 DEF OptionInv, ServerStands
<1>8. /\ ClientStands("OTHER" \in mine, "WILL", "WONT")'
      /\ ClientStands("OTHER" \in yours, "DO", "DONT")'
  BY <1>1, <1>2, <1>3 DEF OptionInv, ClientStands
<1>9. QED
  BY <1>3, <1>7, <1>8 DEF OptionInv, ScanAtEnd

\* Every step keeps the two ends' views of the option.
LEMMA NextOption ==
  ASSUME TypeOK, OptionInv, [Next]_vars
  PROVE  OptionInv'
<1>1. CASE \E n \in 0 .. Len(toServer), more \in BOOLEAN : Recv(n, more)
  BY <1>1, RecvOption
<1>2. ASSUME Server, NEW cmds, Scanning(cmds)
      PROVE  OptionInv'
  <2>1. /\ pc' = pc /\ pc = "scan" /\ i \in Nat /\ i' - 1 = i /\ i <= Len(buffer)
        /\ UNCHANGED <<buffer, toServer, mine, yours>>
    BY <1>2, ScanTells DEF Scanning, TypeOK, clientVars
  <2>2. ServerStands(i, "OTHER" \in offered_do', "WILL", "WONT")
    <3>1. "WILL" # "WONT"
      OBVIOUS
    <3>2. QED
      BY <1>2, <2>1, <3>1, ScanTells, ServerStandsKept, Zenon DEF OptionInv
  <2>3. ServerStands(i, "OTHER" \in offered_will', "DO", "DONT")
    <3>1. "DO" # "DONT"
      OBVIOUS
    <3>2. QED
      BY <1>2, <2>1, <3>1, ScanTells, ServerStandsKept, Zenon DEF OptionInv
  <2>4. ScanAtEnd'
    BY <2>1 DEF ScanAtEnd
  <2>5. QED
    BY <2>1, <2>2, <2>3, <2>4 DEF OptionInv, ClientStands, ServerStands
<1>3. CASE RecvEof \/ ScanText \/ EndScan
  <2>1. UNCHANGED <<buffer, i, toServer, mine, yours, offered_do, offered_will>>
    BY <1>3 DEF RecvEof, ScanText, EndScan, clientVars
  <2>2. ScanAtEnd'
    <3>1. i <= Len(buffer) + 1 /\ i \in Nat /\ Len(buffer) \in Nat
      BY LenProperties DEF TypeOK
    <3>2. QED
      BY <1>3, <2>1, <3>1 DEF RecvEof, ScanText, EndScan, ScanAtEnd, OptionInv
  <2>3. QED
    BY <2>1, <2>2 DEF OptionInv, ClientStands, ServerStands
<1>4. CASE Client \/ ClientSays
  <2>1. /\ UNCHANGED <<pc, nvt, buffer, i, offered_do, offered_will>>
        /\ \/ Silent
           \/ \E token : toServer' = toServer \o <<token>> /\ Told(token)
    BY <1>4, ClientTells DEF serverVars
  <2>2. CASE Silent
    BY <2>1, <2>2 DEF Silent, OptionInv, ScanAtEnd, ClientStands, ServerStands
  <2>3. ASSUME NEW token, toServer' = toServer \o <<token>>, Told(token)
        PROVE  OptionInv'
    <3>1. "WILL" # "WONT" /\ "DO" # "DONT"
      OBVIOUS
    <3>2. ClientStands("OTHER" \in mine, "WILL", "WONT")'
      <4>1. buffer' = buffer /\ ClientStands("OTHER" \in mine, "WILL", "WONT")
        BY <2>1 DEF OptionInv
      <4>2. Speaks(token, "WILL", "WONT", "OTHER" \in mine, "OTHER" \in mine')
        BY <2>3 DEF Told
      <4>3. "OTHER" \in mine' <=>
              Stands(buffer \o (toServer \o <<token>>),
                     Len(buffer) + Len(toServer \o <<token>>), "WILL", "WONT")
        BY <3>1, <4>1, <4>2, ClientStandsKept
      <4>4. QED
        BY <2>3, <4>1, <4>3, Zenon DEF ClientStands
    <3>3. ClientStands("OTHER" \in yours, "DO", "DONT")'
      <4>1. buffer' = buffer /\ ClientStands("OTHER" \in yours, "DO", "DONT")
        BY <2>1 DEF OptionInv
      <4>2. Speaks(token, "DO", "DONT", "OTHER" \in yours, "OTHER" \in yours')
        BY <2>3 DEF Told
      <4>3. "OTHER" \in yours' <=>
              Stands(buffer \o (toServer \o <<token>>),
                     Len(buffer) + Len(toServer \o <<token>>), "DO", "DONT")
        BY <3>1, <4>1, <4>2, ClientStandsKept
      <4>4. QED
        BY <2>3, <4>1, <4>3, Zenon DEF ClientStands
    <3>4. QED
      BY <2>1, <3>2, <3>3 DEF OptionInv, ScanAtEnd, ServerStands
  <2>4. QED
    BY <2>1, <2>2, <2>3
<1>5. CASE RecvTimeout \/ ClientHangsUp \/ UNCHANGED vars
  <2>1. /\ UNCHANGED <<buffer, i, nvt, toServer, mine, yours, offered_do, offered_will>>
        /\ pc' \in {pc, "closed"}
    BY <1>5 DEF RecvTimeout, ClientHangsUp, vars, serverVars, clientVars
  <2>2. QED
    BY <2>1 DEF OptionInv, ScanAtEnd, ClientStands, ServerStands
<1>6. QED
  BY <1>1, <1>2, <1>3, <1>4, <1>5
  DEF Next, Server, ScanTn3270e, ScanWill, ScanDo, ScanDont, ScanWont,
      ScanTerminalType, ScanDeviceType, ScanFunctions, ScanUnknown

\* The invariant gives the property.
LEMMA OptionFollows == TypeOK /\ OptionInv => OptionAgreed
<1> SUFFICES ASSUME TypeOK, OptionInv, pc \in {"recv", "done"}, Quiet, ~nvt
             PROVE  /\ "OTHER" \in offered_do <=> "OTHER" \in mine
                    /\ "OTHER" \in offered_will <=> "OTHER" \in yours
  BY DEF OptionAgreed
<1>1. i - 1 = Len(buffer) /\ Len(buffer) \in Nat
  BY LenProperties DEF OptionInv, ScanAtEnd, TypeOK
<1>2. buffer \o toServer = buffer /\ Len(buffer) + Len(toServer) = Len(buffer)
  BY <1>1, ConcatEmptySeq DEF Quiet, TypeOK
<1>3. \A on, off : Stands(buffer, Len(buffer), on, off) => Mentions(buffer, Len(buffer), on, off)
  BY DEF Stands, Mentions
<1>4. QED
  BY <1>1, <1>2, <1>3 DEF OptionInv, ClientStands, ServerStands

\* Of an option that the client offers and withdraws on its own, the server
\* believes what the client does as soon as nothing is in flight, although
\* every scan handles the whole history again (server.py:1093-1101, 1122-1143).
THEOREM OptionAlwaysAgreed == Spec => []OptionAgreed
<1>1. TypeInv /\ OptionInv /\ [Next]_vars => OptionInv'
  BY NextOption DEF TypeInv
<1>2. TypeInv /\ OptionInv => OptionAgreed
  BY OptionFollows DEF TypeInv
<1>3. QED
  BY <1>1, <1>2, InitOption, Typing, PTL DEF Spec
=============================================================================
