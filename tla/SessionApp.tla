----------------------------- MODULE SessionApp -----------------------------
(***************************************************************************)
(* The TSO/ISPF application of one connection (src/session.py): the logon  *)
(* loop, the Primary Option Menu and the panels below it, each a loop that *)
(* displays a screen, reads a reply and acts on it.  A call of one loop by *)
(* another is a frame on the stack; the last frame runs.  The transport is *)
(* the port the module documents: a send, and a read that yields a reply,  *)
(* None once the client is gone, or the exception of a SYSREQ LOGOFF.      *)
(***************************************************************************)
EXTENDS Integers, Sequences, FiniteSets, SequencesExt

CONSTANTS
  Panel,          \* the panel library: what each name declares
  Credentials,    \* _CREDENTIALS: the password of each user
  MessageHelp,    \* the help panel of a message that has one
  Logons,         \* what is typed on the logon panel: [user, password, size]
  Options,        \* what is typed on a command line: [head, tail]
  Tables,         \* what the user makes of the scratch table
  TableRows,      \* how many rows the scratch table has (session.py:490)
  Keys,           \* AIDs
  Members,        \* how many members the panel library has
  Lines,          \* how many lines a member has
  Page            \* how many rows of a list the screen shows

None == "none"
HandlerKinds == {"overlay", "view", "shell", "dlgtest", "list", "submenu"}

ASSUME PageAssumption ==
  Members \in Nat /\ Lines \in Nat /\ Page \in Nat \ {0} /\ TableRows \in Nat

\* The panels that session.py loads by name are in the library.
ASSUME LibraryAssumption == {"logon", "ispf", "tabtest", "browse"} \subseteq DOMAIN Panel

\* A panel declares positions, names and options, and the help panels it names
\* are in the library: help= (session.py:227, 452, 509, 677, 941, 1012), the
\* panels that the table of handlers loads (841-861), an item's help (790).
ASSUME PanelAssumption ==
  /\ DOMAIN Panel \subseteq STRING \ {None}
  /\ \A p \in DOMAIN Panel :
       /\ Panel[p].height \in Nat
       /\ Panel[p].spots \subseteq Nat
       /\ Panel[p].bar \in Seq(Seq(STRING))
       /\ Panel[p].help \in DOMAIN Panel \cup {None}
       /\ \A s \in DOMAIN Panel[p].fieldHelp : Panel[p].fieldHelp[s] \in DOMAIN Panel
       /\ \A s \in DOMAIN Panel[p].itemHelp : Panel[p].itemHelp[s] \in DOMAIN Panel
       /\ \A s \in DOMAIN Panel[p].rows : Panel[p].rows[s] \in STRING
       /\ \A h \in DOMAIN Panel[p].targets :
            LET target == Panel[p].targets[h]
            IN /\ target \in [fn : HandlerKinds \cup {"EXIT", "missing"}, panel : STRING]
               /\ target.fn \in HandlerKinds => target.panel \in DOMAIN Panel

ASSUME MessageAssumption == \A m \in DOMAIN MessageHelp : MessageHelp[m] \in DOMAIN Panel

\* What is typed: the fields of the logon panel, an option and what follows its
\* first dot, and every row of the scratch table or, with no field modified, none.
ASSUME TypedAssumption ==
  /\ Keys \subseteq STRING
  /\ Logons \subseteq [user : STRING, password : STRING, size : {"ok", "bad"}]
  /\ Options \subseteq [head : STRING, tail : STRING]
  /\ Tables \subseteq {<<>>} \cup [1 .. TableRows -> [key : BOOLEAN, value : BOOLEAN]]

VARIABLES
  stack,      \* the frames; <<>> once run has returned
  user,       \* the userid logged on, or "none"
  reading,    \* is the last frame in read_input?
  input,      \* the reply the client sent, or NoReply
  online,     \* is the client there?
  shown,      \* what is on the terminal: a panel, "pulldown" or "blank"
  presented,  \* history: the logon the user last gave
  refused     \* history: the rows of the scratch table that were refused

vars == <<stack, user, reading, input, online, shown, presented, refused>>

NoOption == [head |-> None, tail |-> None]
LeaveCommands == {"EXIT", "END", "RETURN", "LOGOFF"}

NoTarget == [fn |-> None, panel |-> None]
BlankRow == [key |-> FALSE, value |-> FALSE]
ExitOption == [head |-> "X", tail |-> None]

NoLogon == [user |-> None, password |-> None, size |-> "ok"]

\* A reply as the loops read it: the AID, the command field, the spot the cursor
\* is on (Nowhere, or one the panel gives a meaning), the logon fields, the rows.
Nowhere == 0
Reply(key) ==
  [key |-> key, option |-> NoOption, spot |-> Nowhere, logon |-> NoLogon, table |-> <<>>]
NoReply == Reply(None)

Frame(fn, panel) ==
  [fn |-> fn, panel |-> panel, top |-> 0, patch |-> FALSE, error |-> None,
   pending |-> NoOption, choice |-> 0, rows |-> <<>>, via |-> <<None, None>>]

Top == Last(stack)
Here == Panel[Top.panel]

Most(a, b) == IF a >= b THEN a ELSE b
Least(a, b) == IF a <= b THEN a ELSE b

----------------------------------------------------------------------------
(* Displaying *)

\* The rows a frame scrolls over, and how many of them it shows.
Extent(f) == CASE f.fn = "browse" -> Lines [] f.fn = "list" -> Members
               [] OTHER -> Panel[f.panel].height

\* Faulty: the offset of the last page is not held back.
ClampLoose(f) == Most(0, f.top)

\* The offset a loop displays from: a member or a list keeps one row in sight,
\* a paged help panel a whole page.
Clamp(f) ==
  Most(0, Least(f.top, IF f.fn = "help" THEN Extent(f) - Page ELSE Most(0, Extent(f) - 1)))

Paged == {"browse", "list", "help"}

Displayed(f) == IF f.fn \in Paged THEN [f EXCEPT !.top = Clamp(f)] ELSE f

\* A submenu that was entered by a dotted jump routes before it displays.
Jumping(f) == f.fn = "submenu" /\ f.pending # NoOption

\* _send_screen, or _update_menu_message: the message patched into what is
\* on the terminal.
Display ==
  /\ stack # <<>> /\ ~reading /\ ~Jumping(Top)
  /\ stack' = [stack EXCEPT ![Len(stack)] = Displayed(Top)]
  /\ shown' = IF Top.patch THEN shown ELSE IF Top.fn = "pulldown" THEN "pulldown" ELSE Top.panel
  /\ reading' = TRUE
  /\ UNCHANGED <<user, input, online, presented, refused>>

\* A send on a connection that is gone may raise, which unwinds every loop.
SendFails ==
  /\ stack # <<>> /\ ~reading /\ ~Jumping(Top) /\ ~online
  /\ stack' = <<>>
  /\ UNCHANGED <<user, reading, input, online, shown, presented, refused>>

----------------------------------------------------------------------------
(* Calls and returns *)

\* The last frame goes on as f.
Loop(f) ==
  /\ stack' = [stack EXCEPT ![Len(stack)] = f]
  /\ UNCHANGED <<user, presented, refused>>

Call(f, callee) ==
  /\ stack' = Append([stack EXCEPT ![Len(stack)] = f], callee)
  /\ UNCHANGED <<user, presented, refused>>

Return ==
  /\ stack' = Front(stack)
  /\ UNCHANGED <<user, presented, refused>>

\* The overlay that opened the pull-down returns with it.
ReturnTwice ==
  /\ stack' = SubSeq(stack, 1, Len(stack) - 2)
  /\ UNCHANGED <<user, presented, refused>>

\* run: the logon loop starts again, with nobody logged on.
Logoff ==
  /\ stack' = <<Frame("logon", "logon")>>
  /\ user' = None /\ presented' = NoLogon
  /\ UNCHANGED refused

\* _show_help: paged when the content is taller than the screen.
Help(panel) == Frame(IF Panel[panel].height > Page THEN "help" ELSE "overlay", panel)

\* help_for the spot the cursor is on, else the panel's help.
HelpPanel(r) ==
  IF r.spot \in DOMAIN Here.fieldHelp THEN Here.fieldHelp[r.spot] ELSE Here.help

Command(r) == IF r.key \in DOMAIN Here.keys THEN Here.keys[r.key] ELSE None
Leaves(r) == Command(r) \in LeaveCommands
CursorSelects(r) == r.key \in {"Enter", "CursorSelect"}

\* The typed option, else the one under the cursor: a <ps> phrase's value, or
\* the choice of that row.
Chosen(r) ==
  IF r.option # NoOption \/ ~CursorSelects(r) \/ r.spot \notin DOMAIN Here.rows THEN r.option
  ELSE [head |-> Here.rows[r.spot], tail |-> None]

\* Faulty: an option is routed whether or not the panel shows it.
RoutedHidden(panel, head) ==
  IF head \in DOMAIN Panel[panel].targets THEN Panel[panel].targets[head] ELSE NoTarget

\* A )PROC target is reached only through an option the panel lets one pick.
Routed(panel, head) ==
  IF head \in DOMAIN Panel[panel].targets /\ head \in Panel[panel].selections
  THEN Panel[panel].targets[head] ELSE NoTarget

\* _run_selection: a target leaves, or names a handler, or one that is missing.
Runs(panel, head) == Routed(panel, head).fn \in HandlerKinds
Exits(panel, head) == Routed(panel, head).fn = "EXIT"

\* The loop a target's handler starts, with the rest of a dotted option.
Handler(panel, option) ==
  LET target == Routed(panel, option.head)
  IN [Frame(target.fn, target.panel) EXCEPT
        !.pending = [head |-> option.tail, tail |-> None],
        !.via = <<panel, option.head>>]

----------------------------------------------------------------------------
(* What each loop does with a reply *)

Answer(fn) ==
  /\ stack # <<>> /\ reading /\ input # NoReply
  /\ Top.fn = fn
  /\ reading' = FALSE
  /\ input' = NoReply
  /\ UNCHANGED <<online, shown>>

\* Faulty: the loops below the menu redisplay when nothing could be read.
DisconnectedRedisplays ==
  /\ stack # <<>> /\ reading /\ input = NoReply /\ ~online
  /\ reading' = FALSE
  /\ IF Top.fn \in {"logon", "menu"} THEN stack' = <<>> ELSE stack' = stack
  /\ UNCHANGED <<user, input, online, shown, presented, refused>>

\* read_input returns None: every loop returns to its caller, which goes on.
Disconnected ==
  /\ stack # <<>> /\ reading /\ input = NoReply /\ ~online
  /\ reading' = FALSE
  /\ CASE Top.fn \in {"logon", "menu"} -> stack' = <<>> /\ UNCHANGED <<user, presented, refused>>
       [] Top.fn = "pulldown" -> ReturnTwice
       [] OTHER -> Return
  /\ UNCHANGED <<input, online, shown>>

\* Faulty: a user without an entry has no password to compare.
AcceptsUnknown(logon) ==
  logon.user \in DOMAIN Credentials => Credentials[logon.user] = logon.password

Accepts(logon) ==
  logon.user \in DOMAIN Credentials /\ Credentials[logon.user] = logon.password

\* The message a logon is refused with, fields before credentials.
LogonError(logon) ==
  IF logon.size = "bad" THEN "size"
  ELSE IF logon.user = None THEN "userid"
  ELSE IF ~Accepts(logon) THEN "password"
  ELSE None

\* HELP on a displayed message is the message's help.
LogonHelp(r) ==
  IF Top.error \in DOMAIN MessageHelp THEN MessageHelp[Top.error] ELSE HelpPanel(r)

AnswerLogon ==
  /\ Answer("logon")
  /\ LET error == LogonError(input.logon)
     IN CASE Leaves(input) -> stack' = <<>> /\ UNCHANGED <<user, presented, refused>>
          [] ~Leaves(input) /\ Command(input) = "HELP" /\ LogonHelp(input) # None ->
               Call(Top, Help(LogonHelp(input)))
          [] OTHER ->
               /\ presented' = input.logon
               /\ IF error = None
                  THEN user' = input.logon.user /\ stack' = <<Frame("menu", "ispf")>>
                  ELSE user' = user /\ stack' = <<[Top EXCEPT !.error = error]>>
               /\ UNCHANGED refused

\* The menu's message, patched in place: nothing was called that repaints.
Message(error) == Loop([Top EXCEPT !.patch = TRUE, !.error = error])

\* Faulty: the redraw is not asked for again once a message was patched.
AnswerMenuKeepsPatch ==
  /\ Answer("menu")
  /\ LET option == Chosen(input)
     IN CASE option = ExitOption \/ Leaves(input) -> Logoff
          [] option # ExitOption /\ ~Leaves(input) /\ Command(input) = "HELP"
               /\ HelpPanel(input) # None -> Call(Top, Help(HelpPanel(input)))
          [] OTHER ->
               CASE Exits(Top.panel, option.head) -> Logoff
                 [] Runs(Top.panel, option.head) ->
                      Call([Top EXCEPT !.error = None], Handler(Top.panel, option))
                 [] OTHER -> Message("other")

\* The menu loop: leave keys, HELP, a routed option, an option without a
\* handler, a command of the command table, and what is none of these.
AnswerMenu ==
  /\ Answer("menu")
  /\ LET option == Chosen(input)
         redraw == [Top EXCEPT !.patch = FALSE]
         head == option.head
     IN CASE option = ExitOption \/ Leaves(input) -> Logoff
          [] option # ExitOption /\ ~Leaves(input) /\ Command(input) = "HELP"
               /\ HelpPanel(input) # None -> Call(redraw, Help(HelpPanel(input)))
          [] OTHER ->
               CASE Exits(Top.panel, head) -> Logoff
                 [] Runs(Top.panel, head) ->
                      Call([redraw EXCEPT !.error = None], Handler(Top.panel, option))
                 [] Routed(Top.panel, head).fn = "missing" -> Message("unimplemented")
                 [] Routed(Top.panel, head) = NoTarget ->
                      IF option = NoOption THEN Message(None)
                      ELSE IF option.tail = None /\ head \in Here.selections
                           THEN Message("unimplemented")
                      ELSE IF option.tail = None /\ head \in Here.aliases THEN Logoff
                      ELSE Message("invalid")

\* _await_action: leave keys and HELP, for the loops that share them.
Awaited(fn) ==
  /\ Answer(fn)
  /\ ~Leaves(input)
  /\ ~(input.key = "PF1" /\ HelpPanel(input) # None)

LeaveOrHelp ==
  \E fn \in {"submenu", "view", "shell", "dlgtest", "list"} :
    /\ Answer(fn)
    /\ \/ Leaves(input) /\ Return
       \/ ~Leaves(input) /\ input.key = "PF1" /\ HelpPanel(input) # None
            /\ Call(Top, Help(HelpPanel(input)))

\* _show_submenu with the option it has, typed, pointed at or jumped with.
Route(option) ==
  CASE Exits(Top.panel, option.head) -> Return
    [] Runs(Top.panel, option.head) ->
         Call([Top EXCEPT !.error = None, !.pending = NoOption], Handler(Top.panel, option))
    [] OTHER -> Loop([Top EXCEPT !.pending = NoOption, !.error =
                  IF option.head \in Here.selections THEN "unimplemented" ELSE "invalid"])

AnswerSubmenu ==
  /\ Awaited("submenu")
  /\ IF Chosen(input) = NoOption THEN Loop(Top) ELSE Route(Chosen(input))

Jump ==
  /\ stack # <<>> /\ ~reading /\ Jumping(Top)
  /\ Route(Top.pending)
  /\ UNCHANGED <<reading, input, online, shown>>

\* _show_view: a member's name opens it; the command shell and Dialog Test
\* just show what a reply leads to.
AnswerView ==
  /\ Awaited("view")
  /\ CASE input.option = NoOption -> Loop(Top)
       [] input.option.head = "MEMBER" ->
            Call([Top EXCEPT !.error = None], Frame("browse", "browse"))
       [] OTHER -> Loop([Top EXCEPT !.error = "notfound"])

AnswerShell ==
  /\ Awaited("shell")
  /\ Loop([Top EXCEPT !.error = IF input.option = NoOption THEN None ELSE "response"])

\* Dialog Test: PF5 opens the scratch table, of blank rows.
AnswerDialogTest ==
  /\ Awaited("dlgtest")
  /\ IF input.key = "PF5"
     THEN /\ stack' = Append(stack, [Frame("table", "tabtest") EXCEPT
                               !.rows = [n \in 1 .. TableRows |-> BlankRow]])
          /\ refused' = {}
          /\ UNCHANGED <<user, presented>>
     ELSE Loop(Top)

Scrolled(f, key) ==
  CASE key \in {"PF8", "PF20"} -> f.top + Page
    [] key \in {"PF7", "PF19"} -> f.top - Page
    [] OTHER -> f.top

\* _show_member_list: paging, and the member under the cursor.
AnswerList ==
  /\ Awaited("list")
  /\ IF CursorSelects(input) /\ input.spot \in 1 .. Least(Page, Members - Top.top)
     THEN Call(Top, Frame("browse", "browse"))
     ELSE Loop([Top EXCEPT !.top = Scrolled(Top, input.key)])

AnswerBrowse ==
  /\ Answer("browse")
  /\ IF Leaves(input) THEN Return ELSE Loop([Top EXCEPT !.top = Scrolled(Top, input.key)])

\* A paged help panel; PF10 and PF11 page it too.
AnswerHelp ==
  /\ Answer("help")
  /\ IF Leaves(input) \/ input.key = "Enter" THEN Return
     ELSE LET key == IF input.key = "PF11" THEN "PF8" ELSE IF input.key = "PF10" THEN "PF7" ELSE input.key
          IN Loop([Top EXCEPT !.top = Scrolled(Top, key)])

\* F10 and F11 move along the action bar, onto it from elsewhere.
AlongBar(f, key) ==
  LET n == Len(Panel[f.panel].bar)
  IN IF key = "PF11" THEN (f.choice % n) + 1
     ELSE IF f.choice = 0 THEN n ELSE ((f.choice + n - 2) % n) + 1

\* _show_overlay: HELP, the action bar, a choice's pull-down, Enter.
AnswerOverlay ==
  /\ Answer("overlay")
  /\ CASE Leaves(input) -> Return
       [] ~Leaves(input) /\ input.key = "PF1" ->
            IF HelpPanel(input) # None THEN Call(Top, Help(HelpPanel(input))) ELSE Loop(Top)
       [] ~Leaves(input) /\ input.key # "PF1" /\ Here.bar # <<>> /\ input.key \in {"PF10", "PF11"} ->
            Loop([Top EXCEPT !.choice = AlongBar(Top, input.key)])
       [] OTHER ->
            IF CursorSelects(input) /\ input.spot \in DOMAIN Here.bar /\ Here.bar[input.spot] # <<>>
            THEN Call(Top, [Frame("pulldown", Top.panel) EXCEPT !.choice = input.spot])
            ELSE IF input.key = "Enter" THEN Return ELSE Loop(Top)

Pulldown == Here.bar[Top.choice]

\* _show_pulldown and _run_pdc_action: HELP redisplays it, an available item
\* runs its action in the overlay, and any other key closes it.
AnswerPulldown ==
  /\ Answer("pulldown")
  /\ LET action == IF input.spot \in DOMAIN Pulldown /\ CursorSelects(input)
                   THEN Pulldown[input.spot] ELSE None
     IN CASE input.key = "PF1" ->
               IF input.spot \in DOMAIN Here.itemHelp /\ input.spot \in DOMAIN Pulldown
               THEN Call(Top, Help(Here.itemHelp[input.spot])) ELSE Loop(Top)
          [] input.key # "PF1" /\ action = "exit" -> ReturnTwice
          [] input.key # "PF1" /\ action = "help" /\ Here.help # None ->
               /\ stack' = Append(Front(stack), Help(Here.help))
               /\ UNCHANGED <<user, presented, refused>>
          [] OTHER -> Return

\* Faulty: a row is checked only when every row was typed into.
RefusedTogether(rows, seen) ==
  {i \in DOMAIN rows : ~rows[i].key /\ \A j \in DOMAIN rows : rows[j] # seen[j]}

\* table_required_errors: modified rows whose required cell is blank.
Refused(rows, seen) == {i \in DOMAIN rows : rows[i] # seen[i] /\ ~rows[i].key}

\* _show_table_input: the rows are re-seeded from the reply before they are
\* checked, so a refused row is what the next reply is compared with.
AnswerTable ==
  /\ Answer("table")
  /\ CASE Leaves(input) -> Return
       [] ~Leaves(input) /\ input.key = "PF1" ->
            IF HelpPanel(input) # None
            THEN Call(Top, Frame("overlay", HelpPanel(input))) ELSE Loop(Top)
       [] OTHER ->
            LET rows == IF input.table = <<>> THEN Top.rows ELSE input.table
                errors == Refused(rows, Top.rows)
            IN /\ stack' = [stack EXCEPT ![Len(stack)] =
                    [@ EXCEPT !.rows = rows, !.error = IF errors = {} THEN "read" ELSE "required"]]
               /\ refused' = IF errors = {} THEN refused
                             ELSE refused \cup {<<i, rows[i]>> : i \in errors}
               /\ UNCHANGED <<user, presented>>

----------------------------------------------------------------------------
(* The client *)

\* What the user makes of the displayed screen before the key: its command
\* line, logon fields or table, and where the cursor is.  A key that carries
\* no fields sends none of it, and a blank screen has none.
Carries(key) == key \notin {"Clear", "PA1"}
Made(key) ==
  \/ ~Carries(key) /\ input' = Reply(key)
  \/ /\ Carries(key)
     /\ \E spot \in {Nowhere} \cup Here.spots,
           option \in {NoOption} \cup
             (IF Top.fn \in {"menu", "submenu", "view", "shell"} /\ shown # "blank"
              THEN Options ELSE {}),
           logon \in IF Top.fn = "logon" THEN Logons ELSE {NoLogon},
           table \in IF Top.fn = "table" THEN Tables ELSE {<<>>} :
          input' = [Reply(key) EXCEPT !.spot = spot, !.option = option, !.logon = logon,
                                      !.table = table]

Send ==
  /\ stack # <<>> /\ reading /\ online /\ input = NoReply
  /\ \E key \in Keys : Made(key) /\ shown' = IF key = "Clear" THEN "blank" ELSE shown
  /\ UNCHANGED <<stack, user, reading, online, presented, refused>>

\* SYSREQ and LOGOFF: the transport raises, through every loop.
SysreqLogoff ==
  /\ stack # <<>> /\ reading /\ online /\ input = NoReply
  /\ stack' = <<>>
  /\ reading' = FALSE
  /\ UNCHANGED <<user, input, online, shown, presented, refused>>

HangUp ==
  /\ stack # <<>> /\ online
  /\ online' = FALSE
  /\ UNCHANGED <<stack, user, reading, input, shown, presented, refused>>

----------------------------------------------------------------------------
Init ==
  /\ stack = <<Frame("logon", "logon")>>
  /\ user = None
  /\ reading = FALSE
  /\ input = NoReply
  /\ online = TRUE
  /\ shown = "blank"
  /\ presented = NoLogon
  /\ refused = {}

\* The thread of the connection: it displays, reads and acts.
Serve ==
  \/ Display \/ Jump \/ Disconnected
  \/ AnswerLogon \/ AnswerMenu \/ LeaveOrHelp \/ AnswerSubmenu
  \/ AnswerView \/ AnswerShell \/ AnswerDialogTest \/ AnswerList
  \/ AnswerBrowse \/ AnswerHelp \/ AnswerOverlay \/ AnswerPulldown \/ AnswerTable

Next == Serve \/ SendFails \/ Send \/ SysreqLogoff \/ HangUp

\* The thread runs; nothing makes a user press a key or hang up.
Spec == Init /\ [][Next]_vars /\ WF_vars(Serve)

----------------------------------------------------------------------------
(* Properties *)

\* The state is well formed, and what a loop displays is in sight: a member or
\* a list from one of its rows, a paged help panel a whole page (the clamps of
\* session.py:348, 419 and 616).
TypeOK ==
  /\ \A i \in DOMAIN stack :
       LET f == stack[i]
       IN /\ f.fn \in HandlerKinds \cup Paged \cup {"logon", "menu", "pulldown", "table"}
          /\ f.panel \in DOMAIN Panel
          /\ f.choice \in 0 .. Len(Panel[f.panel].bar)
          /\ f.fn = "pulldown" => f.choice # 0 /\ stack[i - 1].fn = "overlay"
  /\ reading => /\ stack # <<>>
                /\ Top.fn \in {"browse", "list"} => Top.top \in 0 .. Most(0, Extent(Top) - 1)
                /\ Top.fn = "help" => Top.top \in 0 .. Extent(Top) - Page
  /\ user \in {None} \cup DOMAIN Credentials
  /\ input # NoReply => reading
  /\ online \in BOOLEAN

\* Whatever the user types, presses or pages through, and however often a
\* logon is refused or given up, a screen other than the logon's own is served
\* only to the user whose password was the last one presented since the logon
\* loop began (session.py:946-969).
LoggedOn ==
  stack # <<>> =>
    IF stack[1].fn = "menu"
    THEN presented.user = user /\ user \in DOMAIN Credentials
         /\ Credentials[user] = presented.password /\ presented.size = "ok"
    ELSE user = None /\ \A i \in 2 .. Len(stack) : stack[i].fn \in {"overlay", "help", "pulldown"}

\* A loop that a )PROC target names runs only under the panel that declared
\* the target, through an option that panel lets the user pick: hidden and
\* unavailable options stay out of reach of a typed option, a dotted jump and
\* the cursor (session.py:566, 1028).
OnlyVisible ==
  \A i \in 2 .. Len(stack) :
    LET f == stack[i] IN
    /\ f.via # <<None, None>> =>
         /\ f.via[1] = stack[i - 1].panel
         /\ f.via[2] \in Panel[f.via[1]].selections
         /\ Panel[f.via[1]].targets[f.via[2]] = [fn |-> f.fn, panel |-> f.panel]
    /\ f.fn \in {"view", "shell", "dlgtest", "list", "submenu"} => f.via # <<None, None>>

\* A reply is read against the panel that is on the terminal: the menu's
\* message is patched in place only while the menu is what is shown.  The
\* exception is the screen the user has cleared, onto which the menu's message
\* is patched all the same (session.py:983-995, 1053-1055).
RepliesToShown ==
  reading =>
    \/ shown = IF Top.fn = "pulldown" THEN "pulldown" ELSE Top.panel
    \/ shown = "blank" /\ (Top.patch \/ input.key = "Clear")

\* A row of the scratch table whose required key is blank is read only after
\* it was refused: the rows are seeded from the reply before it is checked, so
\* the second Enter takes what the first was refused (session.py:515).
RefusedFirst ==
  \A i \in DOMAIN stack :
    stack[i].fn = "table" /\ stack[i].error = "read" =>
      \A n \in DOMAIN stack[i].rows :
        stack[i].rows[n].value /\ ~stack[i].rows[n].key => <<n, stack[i].rows[n]>> \in refused

\* A user who has pressed a key is shown a screen again or is done, and once
\* the client is gone every loop unwinds, however deep (session.py:219, 502).
Progress ==
  (~online \/ input # NoReply) ~> (stack = <<>> \/ (online /\ reading /\ input = NoReply))
=============================================================================
