----------------------------- MODULE MCSessionApp -----------------------------
(* SessionApp on a library with one panel of each kind the real one has. *)
EXTENDS SessionApp

NoKeys == [k \in {} |-> None]
Leave == [k \in {"PF3"} |-> "EXIT"]
LeaveHelp == [k \in {"PF3", "PF1"} |-> IF k = "PF3" THEN "EXIT" ELSE "HELP"]

Plain(help, keys) ==
  [height |-> 1, keys |-> keys, help |-> help, fieldHelp |-> [s \in {} |-> None],
   rows |-> [s \in {} |-> None], targets |-> [h \in {} |-> NoTarget], selections |-> {},
   aliases |-> {}, bar |-> <<>>, itemHelp |-> [s \in {} |-> None], spots |-> {}]

To(fn, panel) == [fn |-> fn, panel |-> panel]

\* The menu: settings, view, a submenu, the shell, Dialog Test, an exit, a
\* target without a handler and one whose choice is hidden.
Menu ==
  [Plain("short", LeaveHelp) EXCEPT
     !.rows = [s \in {1} |-> "0"], !.spots = {1}, !.aliases = {"BYE"},
     !.selections = {"0", "1", "3", "6", "7", "8", "9", "X"},
     !.targets = [h \in {"0", "1", "3", "6", "7", "8", "X", "H"} |->
       CASE h = "0" -> To("overlay", "settings") [] h = "1" -> To("view", "viewentry")
         [] h = "3" -> To("submenu", "utility") [] h = "6" -> To("shell", "command")
         [] h = "7" -> To("dlgtest", "dlgtest") [] h = "8" -> To("missing", None)
         [] h = "X" -> To("EXIT", None) [] h = "H" -> To("shell", "command")]]

Utility ==
  [Plain("short", LeaveHelp) EXCEPT
     !.rows = [s \in {1} |-> "1"], !.spots = {1}, !.selections = {"1", "9", "X"},
     !.targets = [h \in {"1", "X", "H"} |->
       CASE h = "1" -> To("list", "memlist") [] h = "X" -> To("EXIT", None)
         [] h = "H" -> To("list", "memlist")]]

\* Two choices: one pull-down with an unavailable item, one with an exit and help.
Settings ==
  [Plain("long", Leave) EXCEPT
     !.bar = << <<"passthru", None>>, <<"help", "exit">> >>,
     !.itemHelp = [s \in {1} |-> "short"], !.spots = {1, 2}]

MCPanel ==
  [p \in {"logon", "ispf", "settings", "viewentry", "command", "dlgtest", "tabtest",
          "memlist", "utility", "browse", "short", "long"} |->
     CASE p = "logon" -> [Plain("long", LeaveHelp) EXCEPT
                            !.fieldHelp = [s \in {1} |-> "short"], !.spots = {1}]
       [] p = "ispf" -> Menu
       [] p = "settings" -> Settings
       [] p = "utility" -> Utility
       [] p = "memlist" -> [Plain("short", LeaveHelp) EXCEPT !.spots = {1, 2}]
       [] p = "browse" -> Plain(None, Leave)
       [] p = "short" -> Plain(None, Leave)
       [] p = "long" -> [Plain(None, Leave) EXCEPT !.height = 5]
       [] OTHER -> Plain("short", LeaveHelp)]

MCCredentials == [u \in {"IBMUSER", "TESTUSER"} |-> IF u = "IBMUSER" THEN "SYS1" ELSE "RACF"]
MCMessageHelp == [m \in {"password"} |-> "short"]

Given(u, p, s) == [user |-> u, password |-> p, size |-> s]
MCLogons ==
  { NoLogon, Given("IBMUSER", "SYS1", "ok"), Given("IBMUSER", "RACF", "ok"),
    Given("TESTUSER", "RACF", "ok"), Given("STRANGER", None, "ok"), Given("IBMUSER", "SYS1", "bad") }

Typed(head) == [head |-> head, tail |-> None]
MCOptions ==
  {Typed(h) : h \in {"0", "1", "3", "6", "7", "8", "9", "X", "H", "BYE", "MEMBER"}}
    \cup {[head |-> "3", tail |-> t] : t \in {"1", "H", "X"}}
    \cup {[head |-> "X", tail |-> "1"]}

Row(key, value) == [key |-> key, value |-> value]
MCTables ==
  { <<>>, <<BlankRow, BlankRow>>, <<Row(FALSE, TRUE), BlankRow>>, <<Row(TRUE, TRUE), BlankRow>>,
    <<Row(TRUE, FALSE), Row(FALSE, TRUE)>> }

MCKeys == {"Enter", "CursorSelect", "Clear", "PA1", "PF1", "PF3", "PF5", "PF7", "PF8", "PF10", "PF11"}
=============================================================================
