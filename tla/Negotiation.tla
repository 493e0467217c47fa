---------------------------- MODULE Negotiation ----------------------------
(***************************************************************************)
(* tn3270_negotiate and _handle_tn3270e_sb (src/server.py): the Telnet     *)
(* options and the TN3270E DEVICE-TYPE / FUNCTIONS exchange of one         *)
(* connection, against a client at the other end of two FIFO channels.     *)
(*                                                                         *)
(* The server keeps every byte it received in "buffer" and scans it from   *)
(* the start after every recv, whatever was handled before.  A token is    *)
(* one Telnet command, option or sub-negotiation; a recv returns any       *)
(* number of tokens and may end in the middle of one.                      *)
(*                                                                         *)
(* The client is the environment.  It answers as the emulators of the x3270 *)
(* family do, and as the clients of the repository's tests do.             *)
(***************************************************************************)
EXTENDS Integers, Sequences, FiniteSets

CONSTANTS
  Supported,   \* E_SUPPORTED_FUNCTIONS
  Functions,   \* every TN3270E function a client can name
  Clients      \* the clients that may connect

Options == {"BINARY", "EOR", "TERMINAL-TYPE", "TN3270E", "OTHER"}

Extras == {"WILL", "WONT", "DO", "DONT", "NOP", "TERMINAL-TYPE SEND", "TEXT",
           "EOF"}

\* A client: the options it agrees to, the TN3270E functions it has, whether
\* it proposes them itself once it has a device name, and what else it may
\* say, once each.
ClientKinds ==
  [options : SUBSET (Options \ {"OTHER"}), functions : SUBSET Functions,
   proposes : BOOLEAN, extras : SUBSET Extras]

ASSUME SupportedAssumption == Supported \subseteq Functions
ASSUME ClientsAssumption == Clients \subseteq ClientKinds

VARIABLES
  pc,            \* "recv", "scan", "done" (the model is settled) or "closed"
  buffer, i,     \* the bytes received, and the scan's position in them
  partial,       \* has buffer the first bytes of the next token as well?
  e_state,       \* TN3270E: "unknown", "active" or "off"
  got,           \* got_binary, got_eor, got_term, got_device, got_functions
  functions,     \* the functions in effect (responses, sysreq, ...)
  nvt,           \* a line-mode client?
  offered_will, offered_do,
  answers,       \* history: DEVICE-TYPE IS messages sent
  toClient, toServer,
  client,        \* which client this is
  mine, yours,   \* options the client performs, and lets the server perform
  agreed,        \* the functions in effect at the client
  left,          \* the extras the client has not used
  hungUp

serverVars ==
  <<pc, buffer, i, partial, e_state, got, functions, nvt, offered_will,
    offered_do, answers>>
clientVars == <<client, mine, yours, agreed, left, hungUp>>
vars == <<serverVars, clientVars, toClient, toServer>>

\* A token or a message: it may name an option, or list functions.
Token(cmd, opt) == [cmd |-> cmd, opt |-> opt, funcs |-> {}]
FunctionsToken(cmd, funcs) == [cmd |-> cmd, opt |-> "", funcs |-> funcs]

-----------------------------------------------------------------------------
(* The server.                                                             *)

FirstOffers ==
  << Token("WILL", "BINARY"), Token("DO", "BINARY"),
     Token("WILL", "EOR"), Token("DO", "EOR"),
     Token("DO", "TN3270E"),
     Token("WILL", "TERMINAL-TYPE"), Token("DO", "TERMINAL-TYPE"),
     Token("TERMINAL-TYPE SEND", "") >>

Done ==
  \/ nvt
  \/ e_state = "active" /\ {"binary", "eor", "device", "functions"} \subseteq got
  \/ e_state = "off" /\ {"binary", "eor", "term"} \subseteq got

\* recv returns n whole tokens, and perhaps the first bytes of the next one.
\* Typed text has no first bytes: any of it is text.
Recv(n, more) ==
  /\ pc = "recv"
  /\ n \in 0 .. Len(toServer)
  /\ more => n < Len(toServer) /\ toServer[n + 1].cmd # "TEXT"
  /\ n > 0 \/ (more /\ ~partial)
  /\ buffer' = buffer \o SubSeq(toServer, 1, n)
  /\ toServer' = SubSeq(toServer, n + 1, Len(toServer))
  /\ partial' = more
  /\ pc' = "scan" /\ i' = 1
  /\ UNCHANGED <<e_state, got, functions, nvt, offered_will, offered_do,
                 answers, clientVars, toClient>>

\* recv returns nothing: the loop ends with what was settled so far.
RecvEof ==
  /\ pc = "recv" /\ hungUp /\ toServer = <<>>
  /\ pc' = "done"
  /\ UNCHANGED <<buffer, i, partial, e_state, got, functions, nvt,
                 offered_will, offered_do, answers, clientVars, toClient,
                 toServer>>

\* recv raises after 60 seconds without a byte, and the connection is closed.
\* A client that still has something to answer is taken to do so in time.
RecvTimeout ==
  /\ pc = "recv" /\ ~hungUp /\ toServer = <<>> /\ toClient = <<>>
  /\ pc' = "closed"
  /\ UNCHANGED <<buffer, i, partial, e_state, got, functions, nvt,
                 offered_will, offered_do, answers, clientVars, toClient,
                 toServer>>

\* The scan handles one token, and goes on with the next.
Scanning(cmds) ==
  /\ pc = "scan" /\ i <= Len(buffer) /\ buffer[i].cmd \in cmds
  /\ i' = i + 1
  /\ UNCHANGED <<buffer, partial, clientVars, toServer>>
Option == buffer[i].opt
Send(messages) == toClient' = toClient \o messages

\* What an option's reply settles, whichever side performs the option.
Settles(option) ==
  (IF option = "BINARY" THEN {"binary"} ELSE {})
    \cup (IF option = "EOR" THEN {"eor"} ELSE {})

ScanTn3270e ==
  /\ Scanning({"WILL", "WONT", "DO", "DONT"}) /\ Option = "TN3270E"
  /\ IF e_state = "active" \/ buffer[i].cmd \in {"DO", "DONT"}
     THEN UNCHANGED <<e_state, toClient>>
     ELSE IF buffer[i].cmd = "WILL"
     THEN e_state' = "active" /\ Send(<<Token("DEVICE-TYPE SEND", "")>>)
     ELSE e_state' = "off" /\ UNCHANGED toClient
  /\ UNCHANGED <<pc, got, functions, nvt, offered_will, offered_do, answers>>

\* Ack with DO only what was not offered or agreed before.
ScanWill ==
  /\ Scanning({"WILL"}) /\ Option # "TN3270E"
  /\ Send(IF Option \in offered_do THEN <<>> ELSE <<Token("DO", Option)>>)
  /\ offered_do' = offered_do \cup {Option}
  /\ got' = got \cup Settles(Option)
  /\ UNCHANGED <<pc, e_state, functions, nvt, offered_will, answers>>

ScanDo ==
  /\ Scanning({"DO"}) /\ Option # "TN3270E"
  /\ Send(IF Option \in offered_will THEN <<>> ELSE <<Token("WILL", Option)>>)
  /\ offered_will' = offered_will \cup {Option}
  /\ got' = got \cup Settles(Option)
  /\ UNCHANGED <<pc, e_state, functions, nvt, offered_do, answers>>

\* Faulty: any refusal makes a line-mode client.
RefusalOfAnything == nvt' = TRUE

\* A client that refuses BINARY is a line-mode client; the scan goes on.
Refusal == nvt' = (nvt \/ Option = "BINARY")

ScanDont ==
  /\ Scanning({"DONT"}) /\ Option # "TN3270E"
  /\ Send(IF Option \in offered_will THEN <<Token("WONT", Option)>> ELSE <<>>)
  /\ offered_will' = offered_will \ {Option}
  /\ Refusal
  /\ UNCHANGED <<pc, e_state, got, functions, offered_do, answers>>

\* Faulty: a withdrawn option stays agreed.
ScanWontKeepsOption ==
  /\ Scanning({"WONT"}) /\ Option # "TN3270E"
  /\ Send(IF Option \in offered_do THEN <<Token("DONT", Option)>> ELSE <<>>)
  /\ Refusal
  /\ UNCHANGED <<pc, e_state, got, functions, offered_will, offered_do, answers>>

ScanWont ==
  /\ Scanning({"WONT"}) /\ Option # "TN3270E"
  /\ Send(IF Option \in offered_do THEN <<Token("DONT", Option)>> ELSE <<>>)
  /\ offered_do' = offered_do \ {Option}
  /\ Refusal
  /\ UNCHANGED <<pc, e_state, got, functions, offered_will, answers>>

ScanTerminalType ==
  /\ Scanning({"TERMINAL-TYPE SEND", "TERMINAL-TYPE IS"})
  /\ IF buffer[i].cmd = "TERMINAL-TYPE SEND"
     THEN Send(<<Token("TERMINAL-TYPE IS", "")>>) /\ UNCHANGED got
     ELSE got' = got \cup {"term"} /\ UNCHANGED toClient
  /\ UNCHANGED <<pc, e_state, functions, nvt, offered_will, offered_do, answers>>

\* Faulty: the client is left to propose the functions.
ScanDeviceTypeOnly ==
  /\ Scanning({"DEVICE-TYPE REQUEST"})
  /\ Send(<<Token("DEVICE-TYPE IS", "")>>)
  /\ got' = got \cup {"device"}
  /\ answers' = answers + 1
  /\ UNCHANGED <<pc, e_state, functions, nvt, offered_will, offered_do>>

\* DEVICE-TYPE REQUEST: name the device, and propose the functions.
ScanDeviceType ==
  /\ Scanning({"DEVICE-TYPE REQUEST"})
  /\ Send(<<Token("DEVICE-TYPE IS", ""), FunctionsToken("FUNCTIONS REQUEST", Supported)>>)
  /\ got' = got \cup {"device"}
  /\ answers' = answers + 1
  /\ UNCHANGED <<pc, e_state, functions, nvt, offered_will, offered_do>>

\* Faulty: the client's set is taken as it is.
ScanFunctionsUncut ==
  /\ Scanning({"FUNCTIONS IS", "FUNCTIONS REQUEST"})
  /\ functions' = buffer[i].funcs
  /\ got' = got \cup {"functions"}
  /\ Send(IF buffer[i].cmd = "FUNCTIONS REQUEST"
          THEN <<FunctionsToken("FUNCTIONS IS", functions')>> ELSE <<>>)
  /\ UNCHANGED <<pc, e_state, nvt, offered_will, offered_do, answers>>

\* Faulty: a proposal is answered with everything the server supports.
ScanFunctionsAnswersAll ==
  /\ Scanning({"FUNCTIONS IS", "FUNCTIONS REQUEST"})
  /\ functions' = buffer[i].funcs \cap Supported
  /\ got' = got \cup {"functions"}
  /\ Send(IF buffer[i].cmd = "FUNCTIONS REQUEST"
          THEN <<FunctionsToken("FUNCTIONS IS", Supported)>> ELSE <<>>)
  /\ UNCHANGED <<pc, e_state, nvt, offered_will, offered_do, answers>>

\* FUNCTIONS: the client's set, cut down to ours; a REQUEST is answered.
ScanFunctions ==
  /\ Scanning({"FUNCTIONS IS", "FUNCTIONS REQUEST"})
  /\ functions' = buffer[i].funcs \cap Supported
  /\ got' = got \cup {"functions"}
  /\ Send(IF buffer[i].cmd = "FUNCTIONS REQUEST"
          THEN <<FunctionsToken("FUNCTIONS IS", functions')>> ELSE <<>>)
  /\ UNCHANGED <<pc, e_state, nvt, offered_will, offered_do, answers>>

\* Any other command is skipped.
ScanUnknown ==
  /\ Scanning({"NOP"})
  /\ UNCHANGED <<pc, e_state, got, functions, nvt, offered_will, offered_do,
                 answers, toClient>>

\* Plain data: a line-mode client is typing, and the scan stops.
ScanText ==
  /\ pc = "scan" /\ i <= Len(buffer) /\ buffer[i].cmd = "TEXT"
  /\ nvt' = TRUE
  /\ pc' = "done"
  /\ UNCHANGED <<buffer, i, partial, e_state, got, functions, offered_will,
                 offered_do, answers, clientVars, toClient, toServer>>

EndScan ==
  /\ pc = "scan" /\ i > Len(buffer)
  /\ pc' = IF Done THEN "done" ELSE "recv"
  /\ UNCHANGED <<buffer, i, partial, e_state, got, functions, nvt,
                 offered_will, offered_do, answers, clientVars, toClient,
                 toServer>>

Server ==
  \/ \E n \in 0 .. Len(toServer), more \in BOOLEAN : Recv(n, more)
  \/ RecvEof
  \/ ScanTn3270e \/ ScanWill \/ ScanDo \/ ScanDont \/ ScanWont
  \/ ScanTerminalType \/ ScanDeviceType \/ ScanFunctions
  \/ ScanUnknown \/ ScanText \/ EndScan

-----------------------------------------------------------------------------
(* The client.                                                             *)

Arrives(cmd) ==
  /\ ~hungUp /\ toClient # <<>> /\ Head(toClient).cmd = cmd
  /\ toClient' = Tail(toClient)
  /\ UNCHANGED <<serverVars, client, left, hungUp>>
Arg == Head(toClient).opt
Theirs == Head(toClient).funcs
Reply(tokens) == toServer' = toServer \o tokens

\* A request to enable an option is answered unless it is enabled already.
ClientDo ==
  /\ Arrives("DO")
  /\ mine' = IF Arg \in client.options THEN mine \cup {Arg} ELSE mine
  /\ Reply(IF Arg \in mine THEN <<>>
           ELSE IF Arg \in client.options THEN <<Token("WILL", Arg)>>
           ELSE <<Token("WONT", Arg)>>)
  /\ UNCHANGED <<yours, agreed>>

ClientWill ==
  /\ Arrives("WILL")
  /\ yours' = IF Arg \in client.options THEN yours \cup {Arg} ELSE yours
  /\ Reply(IF Arg \in yours THEN <<>>
           ELSE IF Arg \in client.options THEN <<Token("DO", Arg)>>
           ELSE <<Token("DONT", Arg)>>)
  /\ UNCHANGED <<mine, agreed>>

ClientDont ==
  /\ Arrives("DONT")
  /\ mine' = mine \ {Arg}
  /\ Reply(IF Arg \in mine THEN <<Token("WONT", Arg)>> ELSE <<>>)
  /\ UNCHANGED <<yours, agreed>>

ClientWont ==
  /\ Arrives("WONT")
  /\ yours' = yours \ {Arg}
  /\ Reply(IF Arg \in yours THEN <<Token("DONT", Arg)>> ELSE <<>>)
  /\ UNCHANGED <<mine, agreed>>

ClientTerminalType ==
  \/ /\ Arrives("TERMINAL-TYPE SEND")
     /\ Reply(IF "TERMINAL-TYPE" \in client.options
              THEN <<Token("TERMINAL-TYPE IS", "")>> ELSE <<>>)
     /\ UNCHANGED <<mine, yours, agreed>>
  \/ /\ Arrives("TERMINAL-TYPE IS")
     /\ UNCHANGED <<mine, yours, agreed, toServer>>

ClientDeviceType ==
  \/ /\ Arrives("DEVICE-TYPE SEND")
     /\ Reply(<<Token("DEVICE-TYPE REQUEST", "")>>)
     /\ UNCHANGED <<mine, yours, agreed>>
  \/ /\ Arrives("DEVICE-TYPE IS")
     /\ Reply(IF client.proposes
              THEN <<FunctionsToken("FUNCTIONS REQUEST", agreed)>> ELSE <<>>)
     /\ UNCHANGED <<mine, yours, agreed>>

\* The server's proposal: take it if it is no more than the client has; else
\* propose what both have (or, in a client that never proposes, state it).
ClientFunctionsRequest ==
  /\ Arrives("FUNCTIONS REQUEST")
  /\ agreed' = agreed \cap Theirs
  /\ Reply(<<FunctionsToken(IF client.proposes /\ ~(Theirs \subseteq agreed)
                            THEN "FUNCTIONS REQUEST" ELSE "FUNCTIONS IS",
                            agreed')>>)
  /\ UNCHANGED <<mine, yours>>

\* The server's answer: a set that adds a function makes the client abandon
\* TN3270E.
ClientFunctionsIs ==
  /\ Arrives("FUNCTIONS IS")
  /\ IF Theirs \subseteq agreed
     THEN agreed' = Theirs /\ UNCHANGED <<mine, toServer>>
     ELSE /\ mine' = mine \ {"TN3270E"}
          /\ Reply(<<Token("WONT", "TN3270E")>>)
          /\ UNCHANGED agreed
  /\ UNCHANGED yours

\* What the client says on its own, once each: it offers and withdraws an
\* option, asks for one and no longer, and so on.
Use(extra) ==
  /\ extra \in left /\ ~hungUp
  /\ left' = left \ {extra}

Say(extra, token) ==
  /\ Use(extra)
  /\ toServer' = Append(toServer, token)
  /\ UNCHANGED <<serverVars, client, agreed, hungUp, toClient>>

ClientSays ==
  \/ Say("WILL", Token("WILL", "OTHER")) /\ mine' = mine \cup {"OTHER"}
       /\ UNCHANGED yours
  \/ "OTHER" \in mine /\ Say("WONT", Token("WONT", "OTHER"))
       /\ mine' = mine \ {"OTHER"} /\ UNCHANGED yours
  \/ Say("DO", Token("DO", "OTHER")) /\ yours' = yours \cup {"OTHER"}
       /\ UNCHANGED mine
  \/ "OTHER" \in yours /\ Say("DONT", Token("DONT", "OTHER"))
       /\ yours' = yours \ {"OTHER"} /\ UNCHANGED mine
  \/ \E extra \in {"NOP", "TERMINAL-TYPE SEND", "TEXT"} :
       Say(extra, Token(extra, "")) /\ UNCHANGED <<mine, yours>>

ClientHangsUp ==
  /\ Use("EOF")
  /\ hungUp' = TRUE
  /\ UNCHANGED <<serverVars, client, mine, yours, agreed, toClient, toServer>>

Client ==
  \/ ClientDo \/ ClientWill \/ ClientDont \/ ClientWont
  \/ ClientTerminalType \/ ClientDeviceType
  \/ ClientFunctionsRequest \/ ClientFunctionsIs

-----------------------------------------------------------------------------
Init ==
  /\ pc = "recv" /\ buffer = <<>> /\ i = 1 /\ partial = FALSE
  /\ e_state = "unknown" /\ got = {} /\ functions = {} /\ nvt = FALSE
  /\ offered_will = {"BINARY", "EOR", "TERMINAL-TYPE"}
  /\ offered_do = {"BINARY", "EOR", "TERMINAL-TYPE", "TN3270E"}
  /\ answers = 0
  /\ toClient = FirstOffers /\ toServer = <<>>
  /\ client \in Clients
  /\ mine = {} /\ yours = {} /\ agreed = client.functions
  /\ left = client.extras /\ hungUp = FALSE

Next == Server \/ RecvTimeout \/ Client \/ ClientSays \/ ClientHangsUp

\* Both ends keep answering; the client need not say anything on its own.
Spec == Init /\ [][Next]_vars /\ WF_vars(Server) /\ WF_vars(Client)

-----------------------------------------------------------------------------
Commands ==
  {"WILL", "WONT", "DO", "DONT", "NOP", "TEXT", "TERMINAL-TYPE SEND",
   "TERMINAL-TYPE IS", "DEVICE-TYPE SEND", "DEVICE-TYPE REQUEST",
   "DEVICE-TYPE IS", "FUNCTIONS REQUEST", "FUNCTIONS IS"}
Tokens ==
  [cmd : Commands, opt : Options \cup {""}, funcs : SUBSET Functions]

TypeOK ==
  /\ pc \in {"recv", "scan", "done", "closed"}
  /\ buffer \in Seq(Tokens) /\ i \in 1 .. (Len(buffer) + 1)
  /\ partial \in BOOLEAN /\ nvt \in BOOLEAN /\ hungUp \in BOOLEAN
  /\ e_state \in {"unknown", "active", "off"}
  /\ got \subseteq {"binary", "eor", "term", "device", "functions"}
  /\ functions \subseteq Supported /\ agreed \subseteq Functions
  /\ offered_will \subseteq Options /\ offered_do \subseteq Options
  /\ answers \in Nat
  /\ toClient \in Seq(Tokens) /\ toServer \in Seq(Tokens)
  /\ client \in Clients /\ mine \subseteq Options /\ yours \subseteq Options
  /\ left \subseteq Extras

Quiet == toClient = <<>> /\ toServer = <<>>

\* Once the negotiation has ended and its last message has arrived, both ends
\* frame records the same way and agree on the TN3270E functions, whoever
\* proposed first, however the proposals crossed, and however often the scan
\* repeated an answer.
SessionAgreed ==
  pc = "done" /\ ~nvt /\ ~hungUp /\ toClient = <<>>
    => /\ e_state = "active" <=> "TN3270E" \in mine
       /\ e_state = "active" => functions = agreed

\* When nothing is in flight, what the server believes it has agreed of an
\* option it did not offer is what the client believes, although the scan
\* handles every offer and withdrawal again and again.
OptionAgreed ==
  pc \in {"recv", "done"} /\ Quiet /\ ~nvt
    => /\ "OTHER" \in offered_do <=> "OTHER" \in mine
       /\ "OTHER" \in offered_will <=> "OTHER" \in yours

\* "A genuine 3270 emulator always negotiates the binary framing and so is
\* never routed here" (README.md:153): line mode is for a client that refuses
\* BINARY or types.
NvtJustified ==
  nvt => \/ "BINARY" \notin client.options
         \/ \E k \in DOMAIN buffer : buffer[k].cmd = "TEXT"

Requests == {k \in DOMAIN buffer : buffer[k].cmd = "DEVICE-TYPE REQUEST"}

\* "DEVICE-TYPE REQUEST -> we answer DEVICE-TYPE IS" (src/server.py:1213),
\* and no acknowledgement is repeated, which "would ping-pong forever and
\* leave stray bytes ahead of the data stream" (src/server.py:1079-1080).
AnsweredOnce == answers <= Cardinality(Requests)

\* Every client that keeps answering is served, as a 3270 terminal or "rather
\* than hang the negotiation" in line mode (README.md:153).
Served == <>(pc = "done" \/ hungUp)

\* Such a client is served if it refuses BINARY, or agrees to what done() waits
\* for (src/server.py:1146-1151): both framing options, and TN3270E or a
\* terminal type.
Capable ==
  \/ "BINARY" \notin client.options
  \/ /\ {"BINARY", "EOR"} \subseteq client.options
     /\ {"TN3270E", "TERMINAL-TYPE"} \cap client.options # {}
CapableServed == Capable => Served
=============================================================================
