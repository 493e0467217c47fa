---------------------------- MODULE HostSession ----------------------------
(***************************************************************************)
(* One TN3270E session after negotiation: the stream (TN3270EStream), the  *)
(* read loops that drive it (read_client_input, _handle_attn and           *)
(* _handle_sysreq in src/server.py, reached through Transport.read_input), *)
(* the application seen through that port (it sends a screen and waits for *)
(* one reply), and the terminal at the other end of two FIFO channels.     *)
(*                                                                         *)
(* The terminal is the environment: what it does with a message, and when  *)
(* it may send a key, is what the code and its comments rely on.           *)
(***************************************************************************)
EXTENDS TN3270EStream

CONSTANTS
  MaxKeys,    \* bound: keys the user presses
  MaxNaks,    \* bound: screens the terminal refuses
  Scenarios   \* what user, terminal and application do in this session

AllKeys == {"AID", "LINE", "LOGOFF", "SYSREQ", "ATTN", "HANGUP"}

(***************************************************************************)
(* A scenario: the keys the user presses and how many of them; whether he  *)
(* presses one before the last was answered; how many screens the terminal *)
(* refuses; whether the application patches a message into the menu.       *)
(***************************************************************************)
ScenarioKinds ==
  [keys : SUBSET AllKeys, presses : 0 .. MaxKeys, typeAhead : BOOLEAN,
   refusals : 0 .. MaxNaks, messages : BOOLEAN]

ASSUME BoundsAssumption == MaxKeys \in Nat /\ MaxNaks \in Nat
ASSUME ScenariosAssumption == Scenarios \subseteq ScenarioKinds
ASSUME RoomAssumption == MaxSends >= MaxKeys + MaxNaks + 2

VARIABLES
  scenario,  \* the scenario of this behaviour
  pc,        \* where the session's thread is
  toServer,  \* messages and keys on their way to the server
  panel,     \* what the application believes the terminal shows
  shown,     \* which kind of panel that is
  display,   \* what the terminal shows
  mode,      \* the session the terminal is in
  termBound, \* has the terminal seen a BIND?
  locked,    \* is the keyboard locked?
  acked,     \* history: the displays the terminal acknowledged
  keys, naks \* counters for the bounds

termVars == <<display, mode, termBound, locked, acked, naks>>
hostVars == <<pc, panel, shown, scenario>>
vars == <<streamVars, hostVars, termVars, toServer, keys>>

(***************************************************************************)
(* A 3270 data stream, as far as this module tells two of them apart: an   *)
(* Erase/Write paints a whole panel, a Write (render_partial) only the     *)
(* message line of the panel that is there.  "id" numbers the outputs of   *)
(* the application.  What a screen shows is the panel and its message.     *)
(***************************************************************************)
Outputs == [op : {"EraseWrite", "Write"}, id : 1 .. (MaxKeys + 2)]
ASSUME ScreensAssumption == Screens = Outputs

Nothing == [base |-> 0, msg |-> 0]     \* a blank screen, or SSCP-LU text
Contents == [base : 0 .. (MaxKeys + 2), msg : 0 .. (MaxKeys + 2)]

Painted(contents, out) ==
  IF out.op = "EraseWrite"
  THEN [base |-> out.id, msg |-> out.id]
  ELSE [contents EXCEPT !.msg = out.id]

NextId == panel.msg + 1

\* The application's read loops: the logon panel, the menu, and a panel
\* opened over either of them (bound: panels are nested one deep).
Panels == {"logon", "menu", "sub"}

\* A client that hung up neither reads nor sends any more.
HungUp == \E i \in DOMAIN toServer : toServer[i].type = "EOF"

-----------------------------------------------------------------------------
(* The server.                                                             *)

\* Faulty: the BIND is forgotten.
BindForgotten ==
  /\ pc = "start"
  /\ pc' = "logon"
  /\ UNCHANGED <<streamVars, panel, shown, scenario, termVars, toServer, keys>>

\* handle_client: bind the session if BIND-IMAGE was agreed, then run the
\* application, which starts with the logon panel.
Bind ==
  /\ pc = "start"
  /\ IF "BIND-IMAGE" \in functions THEN SendBind ELSE UNCHANGED streamVars
  /\ pc' = "logon"
  /\ UNCHANGED <<panel, shown, scenario, termVars, toServer, keys>>

Show(op) ==
  LET out == [op |-> op, id |-> NextId]
  IN  Sendall(out) /\ panel' = Painted(panel, out)

FirstScreen ==
  /\ pc = "logon"
  /\ Show("EraseWrite")
  /\ pc' = "lu"
  /\ UNCHANGED <<shown, scenario, termVars, toServer, keys>>

\* The event at the head of the inbound channel, consumed by next_event.
Event(types) == toServer # <<>> /\ Head(toServer).type \in types
Consume == toServer' = Tail(toServer) /\ UNCHANGED <<termVars, keys>>

\* Records are all alike to read_client_input: next_event returns the data
\* type and read_client_input does not look at it.
Records == {"3270-DATA", "SSCP-LU-DATA"}

\* The application gets one reply and answers with one screen: another panel,
\* or (from the menu) a message patched into the panel that is there.
AppRepaints ==
  /\ pc = "lu" /\ Event(Records) /\ Consume
  /\ Show("EraseWrite")
  /\ shown' \in Panels
  /\ UNCHANGED <<pc, scenario>>

AppPatches ==
  /\ scenario.messages
  /\ pc = "lu" /\ shown = "menu" /\ Event(Records) /\ Consume
  /\ Show("Write")
  /\ UNCHANGED <<pc, shown, scenario>>

\* PF3 on the logon panel: session.run returns and the socket is closed.
AppEnds ==
  /\ pc = "lu" /\ shown = "logon" /\ Event({"3270-DATA"}) /\ Consume
  /\ pc' = "ended"
  /\ UNCHANGED <<streamVars, panel, shown, scenario>>

\* A RESPONSE is consumed by next_event wherever it is called from.
TakeResponse ==
  /\ pc \in {"lu", "sscp"} /\ Event({"RESPONSE"}) /\ Consume
  /\ OnResponse(Head(toServer).seq, Head(toServer).positive)
  /\ UNCHANGED hostVars

\* _handle_attn, called by read_client_input.
Attention ==
  /\ pc = "lu" /\ Event({"ATTN"}) /\ Consume
  /\ Redisplay
  /\ UNCHANGED hostVars

\* _handle_sysreq: enter the SSCP-LU session.
Suspend ==
  /\ pc = "lu" /\ Event({"SYSREQ"}) /\ Consume
  /\ SendSscp
  /\ pc' = "sscp"
  /\ UNCHANGED <<panel, shown, scenario>>

\* Faulty: the panel is not redisplayed on the way back.
ResumeBlank ==
  /\ pc = "sscp" /\ Event({"SYSREQ"}) /\ Consume
  /\ pc' = "lu"
  /\ UNCHANGED <<streamVars, panel, shown, scenario>>

\* _handle_sysreq: a second SYSREQ resumes the application session.
Resume ==
  /\ pc = "sscp" /\ Event({"SYSREQ"}) /\ Consume
  /\ Redisplay
  /\ pc' = "lu"
  /\ UNCHANGED <<panel, shown, scenario>>

\* Faulty: ATTN redisplays, as it does in the LU-LU session.
RedisplayOnAttention ==
  /\ pc = "sscp" /\ Event({"ATTN"}) /\ Consume
  /\ Redisplay
  /\ UNCHANGED hostVars

\* _handle_sysreq: ATTN is a no-op in the host session.
IgnoreAttention ==
  /\ pc = "sscp" /\ Event({"ATTN"}) /\ Consume
  /\ UNCHANGED <<streamVars, hostVars>>

IsLogoff(message) == message.type = "SSCP-LU-DATA" /\ message.text = "LOGOFF"

\* _handle_sysreq: LOGOFF ends the session: the farewell, then the UNBIND,
\* and _SessionLogoff unwinds the application.
Logoff ==
  /\ pc = "sscp" /\ Event(Records) /\ IsLogoff(Head(toServer)) /\ Consume
  /\ SendSscp
  /\ pc' = "logoff"
  /\ UNCHANGED <<panel, shown, scenario>>

Unbind ==
  /\ pc = "logoff"
  /\ SendUnbind
  /\ pc' = "ended"
  /\ UNCHANGED <<panel, shown, scenario, termVars, toServer, keys>>

\* Faulty: an unknown command is dropped without an answer.
DropUnrecognized ==
  /\ pc = "sscp" /\ Event(Records) /\ ~IsLogoff(Head(toServer)) /\ Consume
  /\ UNCHANGED <<streamVars, hostVars>>

\* _handle_sysreq: anything else is not a command.
Unrecognized ==
  /\ pc = "sscp" /\ Event(Records) /\ ~IsLogoff(Head(toServer)) /\ Consume
  /\ SendSscp
  /\ UNCHANGED hostVars

\* Faulty: _handle_sysreq goes on reading after a disconnect, as it does after
\* an ATTN, and next_event returns None for ever.
ReadOnAfterDisconnect ==
  /\ pc \in {"lu", "sscp"} /\ Event({"EOF"})
  /\ pc = "lu" => shown # "sub"
  /\ IF pc = "lu" THEN Consume /\ pc' = "ended" ELSE UNCHANGED <<pc, toServer, termVars, keys>>
  /\ UNCHANGED <<streamVars, panel, shown, scenario>>

\* The client hung up, and next_event returns None, now and whenever it is
\* called again.  The logon and menu loops return, and _handle_sysreq logs off.
Disconnected ==
  /\ pc \in {"lu", "sscp"} /\ Event({"EOF"})
  /\ pc = "lu" => shown # "sub"
  /\ Consume
  /\ pc' = "ended"
  /\ UNCHANGED <<streamVars, panel, shown, scenario>>

\* An open panel takes None for its leave key: the loop under it repaints its
\* own panel, and reads None again.
UnwindPanel ==
  /\ pc = "lu" /\ Event({"EOF"}) /\ shown = "sub"
  /\ Show("EraseWrite")
  /\ shown' \in {"logon", "menu"}
  /\ UNCHANGED <<pc, scenario, termVars, toServer, keys>>

Server ==
  \/ Bind \/ FirstScreen
  \/ AppRepaints \/ AppPatches \/ AppEnds
  \/ TakeResponse \/ Attention
  \/ Suspend \/ Resume \/ IgnoreAttention \/ Logoff \/ Unbind
  \/ Unrecognized \/ Disconnected \/ UnwindPanel

\* A send or a receive on the closed connection may raise, which ends the
\* session's thread (_client_thread); nothing says that it will.
Broken ==
  /\ pc # "ended" /\ HungUp
  /\ pc' = "ended"
  /\ UNCHANGED <<streamVars, panel, shown, scenario, termVars, toServer, keys>>

-----------------------------------------------------------------------------
(* The terminal.                                                           *)

Arrives(type) ==
  toClient # <<>> /\ Head(toClient).type = type /\ ~HungUp
Receive == Deliver /\ UNCHANGED <<hostVars, keys>>

\* The acknowledgement of a record that asked for one.
Answer(message, positive) ==
  toServer' = IF message.ack
              THEN Append(toServer, [type |-> "RESPONSE", seq |-> message.seq,
                                     positive |-> positive])
              ELSE toServer

\* "The client won't accept 3270-DATA until it has seen a BIND": without one
\* the record stays unread.
Accepts == "BIND-IMAGE" \in functions => termBound

PaintScreen ==
  /\ Arrives("3270-DATA") /\ Accepts /\ Receive
  /\ display' = Painted(display, Head(toClient).data)
  /\ mode' = "lu"
  /\ locked' = FALSE
  /\ acked' = IF Head(toClient).ack
              THEN acked \cup {Head(toClient).display}
              ELSE acked
  /\ Answer(Head(toClient), TRUE)
  /\ UNCHANGED <<termBound, naks>>

\* The terminal cannot process the record: nothing changes but a NAK.
RefuseScreen ==
  /\ Arrives("3270-DATA") /\ Accepts /\ Head(toClient).ack
  /\ naks < scenario.refusals /\ naks' = naks + 1
  /\ Receive
  /\ Answer(Head(toClient), FALSE)
  /\ UNCHANGED <<display, mode, termBound, locked, acked>>

ShowSscp ==
  /\ Arrives("SSCP-LU-DATA") /\ Receive
  /\ display' = Nothing
  /\ mode' = "sscp"
  /\ locked' = FALSE
  /\ UNCHANGED <<termBound, acked, naks, toServer>>

TakeBind ==
  /\ Arrives("BIND-IMAGE") /\ Receive
  /\ termBound' = TRUE
  /\ UNCHANGED <<display, mode, locked, acked, naks, toServer>>

TakeUnbind ==
  /\ Arrives("UNBIND") /\ Receive
  /\ termBound' = FALSE
  /\ mode' = "none"
  /\ UNCHANGED <<display, locked, acked, naks, toServer>>

Terminal ==
  \/ PaintScreen \/ RefuseScreen
  \/ ShowSscp \/ TakeBind \/ TakeUnbind

\* A key goes out; a user who does not type ahead waits for the last answer.
Press(key, message) ==
  /\ key \in scenario.keys /\ keys < scenario.presses /\ keys' = keys + 1
  /\ pc # "ended" /\ mode # "none" /\ ~HungUp
  /\ scenario.typeAhead \/ (toServer = <<>> /\ toClient = <<>>)
  /\ toServer' = Append(toServer, message)
  /\ UNCHANGED <<streamVars, hostVars>>
  /\ UNCHANGED <<display, mode, termBound, acked, naks>>

\* An AID key sends the fields and locks the keyboard until the next screen.
PressAid ==
  /\ mode = "lu" /\ ~locked /\ locked' = TRUE
  /\ Press("AID", [type |-> "3270-DATA"])

\* A line typed in the SSCP-LU session.
EnterLine(key) ==
  /\ mode = "sscp" /\ ~locked /\ locked' = TRUE
  /\ Press(key, [type |-> "SSCP-LU-DATA", text |-> key])

PressSysreq ==
  /\ "SYSREQ" \in functions
  /\ Press("SYSREQ", [type |-> "SYSREQ"]) /\ UNCHANGED locked

\* An x3270-family emulator only sends ATTN on a bound session.
PressAttn ==
  /\ termBound
  /\ Press("ATTN", [type |-> "ATTN"]) /\ UNCHANGED locked

HangUp ==
  Press("HANGUP", [type |-> "EOF"]) /\ UNCHANGED locked

User ==
  \/ PressAid \/ EnterLine("LINE") \/ EnterLine("LOGOFF")
  \/ PressSysreq \/ PressAttn \/ HangUp

-----------------------------------------------------------------------------
Init ==
  /\ StreamInit
  /\ scenario \in Scenarios
  /\ pc = "start" /\ panel = Nothing /\ shown = "logon"
  /\ toServer = <<>>
  /\ display = Nothing /\ mode = "none" /\ termBound = FALSE
  /\ locked = TRUE /\ acked = {}
  /\ keys = 0 /\ naks = 0

Next == Server \/ Broken \/ Terminal \/ User

\* The session's thread and the terminal keep going; the user need not.
Fairness == WF_vars(Server) /\ WF_vars(Terminal)

Spec == Init /\ [][Next]_vars /\ Fairness

-----------------------------------------------------------------------------
TypeOK ==
  /\ StreamTypeOK
  /\ scenario \in Scenarios
  /\ pc \in {"start", "logon", "lu", "sscp", "logoff", "ended"}
  /\ panel \in Contents /\ display \in Contents
  /\ shown \in Panels
  /\ mode \in {"none", "lu", "sscp"}
  /\ termBound \in BOOLEAN /\ locked \in BOOLEAN
  /\ acked \subseteq DOMAIN copies
  /\ keys \in 0 .. MaxKeys /\ naks \in 0 .. MaxNaks

\* When nothing is in flight and the application waits for input, the
\* terminal shows the panel the application waits on, and is in the LU-LU
\* session.
Synchronised ==
  pc = "lu" /\ toClient = <<>> /\ toServer = <<>>
    => display = panel /\ mode = "lu"

\* Whatever is typed ahead, interrupted, suspended and resumed, the terminal
\* comes back to the panel the application waits on: redisplay is "used to
\* restore the panel after the SYSREQ SSCP-LU session is left"
\* (src/server.py:301).
InSync == naks = 0 => Synchronised

\* It does so after refused screens as well: a refused record is sent again
\* "so the session recovers instead of being left out of sync"
\* (src/server.py:314).
RecoversFromRefusal == Synchronised

\* "SYSREQ suspends the LU-LU (ISPF application) session"
\* (src/server.py:1007): while the server is in the SSCP-LU session it sends
\* no 3270 record.
SuspendedSilent ==
  [][pc = "sscp" /\ pc' = "sscp" => sends' = sends]_vars

\* What is typed in one session is never taken by the other: a 3270 reply is
\* read by the application, a line of the SSCP-LU session by _handle_sysreq.
InputReachesItsSession ==
  [][/\ toServer # <<>> /\ toServer' = Tail(toServer)
     => /\ Head(toServer).type = "3270-DATA" => pc = "lu"
        /\ Head(toServer).type = "SSCP-LU-DATA" => pc = "sscp"]_vars

BindsBefore(i) ==
  {j \in 1 .. (i - 1) : toClient[j].type \in {"BIND-IMAGE", "UNBIND"}}

\* A 3270 record reaches the terminal only in a bound session: after the
\* BIND and never after the UNBIND, when BIND-IMAGE was agreed
\* (src/server.py:1453-1457).
DataOnlyWhenBound ==
  "BIND-IMAGE" \in functions =>
    \A i \in DOMAIN toClient : toClient[i].type = "3270-DATA" =>
      IF BindsBefore(i) = {}
      THEN termBound
      ELSE \E j \in BindsBefore(i) :
             /\ toClient[j].type = "BIND-IMAGE"
             /\ \A k \in BindsBefore(i) : k <= j

\* A screen the terminal has painted and acknowledged is not retransmitted,
\* however the acknowledgement and other answers cross on the wire.
AckedNotResent ==
  [][\A k \in acked : copies'[k] = copies[k]]_vars

\* A locked keyboard is unlocked again by a screen or a host message, unless
\* the session ends ("so the terminal is never left with a locked keyboard",
\* src/server.py:996; "so the session recovers", 314).
KeyboardRestored == locked ~> (~locked \/ pc = "ended")

\* A client that hangs up ends the session, in the application or in the
\* middle of the SSCP-LU session.
HangupEnds == HungUp ~> pc = "ended"
=============================================================================
