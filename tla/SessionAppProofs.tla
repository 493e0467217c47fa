-------------------------- MODULE SessionAppProofs --------------------------
(***************************************************************************)
(* The safety properties of SessionApp, proved for every panel library,    *)
(* every table of credentials and whatever the user types.  The argument   *)
(* is about the stack: which loop may run over which, so that what is said *)
(* of the frame at the bottom (who is logged on) and of the one on top     *)
(* (what is on the terminal) survives every call and return.               *)
(***************************************************************************)
EXTENDS SessionApp, SequenceTheorems, TLAPS

NoVia == <<None, None>>
Popups == {"overlay", "help", "pulldown"}
FrameKinds == HandlerKinds \cup Paged \cup {"logon", "menu", "pulldown", "table"}

\* None is a string, which the provers do not know.
Words == STRING \cup {None}
Errors ==
  {None, "size", "userid", "password", "unimplemented", "invalid", "notfound", "response",
   "read", "required"}
Typable == [head : Words, tail : Words]
LogonFields == [user : Words, password : Words, size : {"ok", "bad"}]
RowKinds == [key : BOOLEAN, value : BOOLEAN]
Scratch == {<<>>} \cup [1 .. TableRows -> RowKinds]
Replies ==
  [key : Words, option : Typable, spot : Nat, logon : LogonFields, table : Scratch]

Frames ==
  [fn : FrameKinds, panel : DOMAIN Panel, top : Int, patch : BOOLEAN, error : Errors,
   pending : Typable, choice : Nat, rows : Scratch, via : Words \X Words]

\* A frame by itself.  A help loop pages a panel that is taller than the
\* screen; only the menu's message is patched in; and a row that the table
\* loop holds with a value and no key is one it has refused.
FrameOK(f, seen) ==
  /\ f \in Frames
  /\ f.choice <= Len(Panel[f.panel].bar)
  /\ f.fn = "help" => Panel[f.panel].height > Page
  /\ f.fn = "pulldown" => f.choice # 0
  /\ f.patch => f.fn = "menu"
  /\ f.fn = "table" =>
       /\ f.rows \in [1 .. TableRows -> RowKinds]
       /\ \A n \in DOMAIN f.rows : f.rows[n].value /\ ~f.rows[n].key => <<n, f.rows[n]>> \in seen

\* What a frame needs of the frame it was called by.
CalledBy(f, g) ==
  /\ f.fn \notin {"logon", "menu"}
  /\ f.fn = "pulldown" => g.fn = "overlay"
  /\ f.via # NoVia =>
       /\ f.via[1] = g.panel
       /\ f.via[2] \in Panel[g.panel].selections
       /\ Panel[g.panel].targets[f.via[2]] = [fn |-> f.fn, panel |-> f.panel]
  /\ f.fn \in {"view", "shell", "dlgtest", "list", "submenu"} => f.via # NoVia

\* Over the logon, the scratch table and every pop-up only pop-ups run.
Covers(f, g) == g.fn \in Popups \cup {"logon", "table"} => f.fn \in Popups

StackOK(s, seen) ==
  /\ s \in Seq(Frames)
  /\ \A i \in 1 .. Len(s) : FrameOK(s[i], seen)
  /\ s # <<>> => s[1].fn \in {"logon", "menu"}
  /\ \A i \in 2 .. Len(s) : CalledBy(s[i], s[i - 1])
  /\ \A i, j \in 1 .. Len(s) : i < j => Covers(s[j], s[i]) /\ ~s[i].patch

\* Who is logged on, as the bottom frame says.
UserInv ==
  /\ user \in {None} \cup DOMAIN Credentials
  /\ stack # <<>> =>
       IF stack[1].fn = "menu"
       THEN presented.user = user /\ user \in DOMAIN Credentials
            /\ Credentials[user] = presented.password /\ presented.size = "ok"
       ELSE user = None

\* What the terminal shows: while a loop reads, its own screen; and when it
\* does not, the menu if a message is to be patched into it.
ShownInv ==
  IF reading THEN RepliesToShown
  ELSE stack # <<>> /\ Top.patch => shown \in {Top.panel, "blank"}

\* What a loop displays is in sight, and a reply awaits a loop that reads.
ReadInv ==
  /\ reading => /\ stack # <<>>
                /\ Top.fn \in {"browse", "list"} => Top.top \in 0 .. Most(0, Extent(Top) - 1)
                /\ Top.fn = "help" => Top.top \in 0 .. Extent(Top) - Page
  /\ input \in Replies
  /\ input # NoReply => reading
  /\ reading \in BOOLEAN /\ online \in BOOLEAN

IInv == StackOK(stack, refused) /\ UserInv /\ ShownInv /\ ReadInv

-----------------------------------------------------------------------------
(* Stacks.                                                                 *)

\* What loops can do to the stack: the last frame goes on as another.
LEMMA LoopKeeps ==
  ASSUME NEW seen, NEW s, StackOK(s, seen), s # <<>>,
         NEW f, FrameOK(f, seen), f.fn = Last(s).fn, f.panel = Last(s).panel, f.via = Last(s).via
  PROVE  LET t == [s EXCEPT ![Len(s)] = f]
         IN StackOK(t, seen) /\ Len(t) = Len(s) /\ t[1].fn = s[1].fn /\ Last(t) = f
<1> DEFINE n == Len(s)
           t == [s EXCEPT ![n] = f]
<1>1. s \in Seq(Frames) /\ n \in Nat \ {0} /\ f \in Frames
  BY EmptySeq DEF StackOK, FrameOK
<1>2. /\ t \in Seq(Frames) /\ Len(t) = n
      /\ \A i \in 1 .. n : t[i] = IF i = n THEN f ELSE s[i]
  BY <1>1, n \in 1 .. n, ExceptSeq
<1> HIDE DEF t
<1>3. t[n] = f /\ \A i \in 1 .. n : i # n => t[i] = s[i]
  BY <1>1, <1>2
<1>4. \A i \in 1 .. n : t[i].fn = s[i].fn /\ t[i].panel = s[i].panel /\ t[i].via = s[i].via
  BY <1>3 DEF Last
<1>5. \A i \in 1 .. n : FrameOK(t[i], seen)
  BY <1>1, <1>3 DEF StackOK
<1>6. t[1].fn = s[1].fn /\ s[1].fn \in {"logon", "menu"}
  BY <1>1, <1>4 DEF StackOK
<1>7. ASSUME NEW i \in 2 .. n PROVE CalledBy(t[i], t[i - 1])
  <2>1. i \in 1 .. n /\ i - 1 \in 1 .. n /\ CalledBy(s[i], s[i - 1])
    BY <1>1 DEF StackOK
  <2> QED
    BY <2>1, <1>4 DEF CalledBy
<1>8. ASSUME NEW i \in 1 .. n, NEW j \in 1 .. n, i < j
      PROVE  Covers(t[j], t[i]) /\ ~t[i].patch
  <2>1. Covers(s[j], s[i]) /\ ~s[i].patch /\ i # n
    BY <1>1, <1>8 DEF StackOK
  <2> QED
    BY <2>1, <1>3, <1>4 DEF Covers
<1>9. StackOK(t, seen)
  BY <1>2, <1>5, <1>6, <1>7, <1>8 DEF StackOK
<1> QED
  BY <1>2, <1>3, <1>6, <1>9 DEF t, Last

\* It calls another.
LEMMA PushKeeps ==
  ASSUME NEW seen, NEW s, StackOK(s, seen), s # <<>>, ~Last(s).patch,
         NEW c, FrameOK(c, seen), CalledBy(c, Last(s)), Covers(c, Last(s))
  PROVE  LET t == Append(s, c)
         IN StackOK(t, seen) /\ Len(t) = Len(s) + 1 /\ t[1].fn = s[1].fn /\ Last(t) = c
<1> DEFINE n == Len(s)
           t == Append(s, c)
<1>1. s \in Seq(Frames) /\ n \in Nat \ {0} /\ c \in Frames
  BY EmptySeq DEF StackOK, FrameOK
<1>2. /\ t \in Seq(Frames) /\ Len(t) = n + 1
      /\ \A i \in 1 .. n : t[i] = s[i]
      /\ t[n + 1] = c
  BY <1>1, AppendProperties
<1> HIDE DEF t
<1>3. \A i \in 1 .. n + 1 : FrameOK(t[i], seen)
  BY <1>1, <1>2 DEF StackOK
<1>4. t[1] = s[1] /\ s[1].fn \in {"logon", "menu"}
  BY <1>1, <1>2 DEF StackOK
<1>5. ASSUME NEW i \in 2 .. n + 1 PROVE CalledBy(t[i], t[i - 1])
  <2>1. CASE i = n + 1
    BY <2>1, <1>1, <1>2 DEF Last
  <2>2. CASE i # n + 1
    <3>1. i \in 2 .. n /\ i \in 1 .. n /\ i - 1 \in 1 .. n
      BY <1>1, <2>2
    <3> QED
      BY <3>1, <1>2 DEF StackOK
  <2> QED
    BY <2>1, <2>2
<1>6. ASSUME NEW i \in 1 .. n PROVE Covers(c, s[i]) /\ ~s[i].patch
  <2>1. CASE i = n
    BY <2>1 DEF Last
  <2>2. CASE i # n
    <3>1. n \in 1 .. n /\ i < n
      BY <1>1, <2>2
    <3>2. Covers(s[n], s[i]) /\ ~s[i].patch
      BY <3>1 DEF StackOK
    <3> QED
      BY <3>2 DEF Covers, Last
  <2> QED
    BY <2>1, <2>2
<1>7. ASSUME NEW i \in 1 .. n + 1, NEW j \in 1 .. n + 1, i < j
      PROVE  Covers(t[j], t[i]) /\ ~t[i].patch
  <2>1. i \in 1 .. n
    BY <1>1, <1>7
  <2>2. CASE j = n + 1
    BY <2>1, <2>2, <1>2, <1>6
  <2>3. CASE j # n + 1
    <3>1. j \in 1 .. n
      BY <1>1, <2>3
    <3> QED
      BY <3>1, <2>1, <1>2, <1>7 DEF StackOK
  <2> QED
    BY <2>2, <2>3
<1>8. StackOK(t, seen)
  BY <1>2, <1>3, <1>4, <1>5, <1>7 DEF StackOK
<1> QED
  BY <1>2, <1>4, <1>8 DEF t, Last

\* It returns, one loop or two.
LEMMA CutKeeps ==
  ASSUME NEW seen, NEW s, StackOK(s, seen), NEW k \in 1 .. Len(s)
  PROVE  LET t == SubSeq(s, 1, k)
         IN /\ StackOK(t, seen) /\ Len(t) = k /\ t[1].fn = s[1].fn /\ Last(t) = s[k]
            /\ k < Len(s) => ~Last(t).patch
<1> DEFINE n == Len(s)
           t == SubSeq(s, 1, k)
<1>1. s \in Seq(Frames) /\ n \in Nat
  BY LenProperties DEF StackOK
<1>2. k \in Int /\ \A i \in 1 .. k : i \in 1 .. n /\ s[i] \in Frames
  BY <1>1, ElementOfSeq
<1>3. /\ t \in Seq(Frames)
      /\ Len(t) = IF 1 <= k THEN k - 1 + 1 ELSE 0
      /\ \A i \in 1 .. k - 1 + 1 : t[i] = s[1 + i - 1]
  BY <1>2, SubSeqProperties
<1>4. Len(t) = k /\ \A i \in 1 .. k : t[i] = s[i]
  BY <1>2, <1>3
<1> HIDE DEF t
<1>5. \A i \in 1 .. k : FrameOK(t[i], seen)
  BY <1>2, <1>4 DEF StackOK
<1>6. t[1] = s[1] /\ s[1].fn \in {"logon", "menu"} /\ t[k] = s[k]
  <2>1. s # <<>>
    BY <1>1
  <2> QED
    BY <2>1, <1>4 DEF StackOK
<1>7. ASSUME NEW i \in 2 .. k PROVE CalledBy(t[i], t[i - 1])
  <2>1. i \in 1 .. k /\ i - 1 \in 1 .. k /\ i \in 2 .. n
    BY <1>1
  <2> QED
    BY <2>1, <1>4 DEF StackOK
<1>8. ASSUME NEW i \in 1 .. k, NEW j \in 1 .. k, i < j
      PROVE  Covers(t[j], t[i]) /\ ~t[i].patch
  BY <1>2, <1>4, <1>8 DEF StackOK
<1>9. StackOK(t, seen)
  BY <1>3, <1>4, <1>5, <1>6, <1>7, <1>8 DEF StackOK
<1>10. k < n => ~s[k].patch
  <2>1. k < n => n \in 1 .. n
    BY <1>1
  <2> QED
    BY <2>1 DEF StackOK
<1> QED
  BY <1>4, <1>6, <1>9, <1>10 DEF t, Last

\* What a stack says of its last frame.
LEMMA LastFrame ==
  ASSUME NEW seen, NEW s, StackOK(s, seen), s # <<>>
  PROVE  /\ Len(s) \in Nat \ {0}
         /\ FrameOK(Last(s), seen)
         /\ Last(s).fn \in {"logon", "menu"} => Len(s) = 1
         /\ Last(s).fn \notin {"logon", "menu"} => Len(s) >= 2
         /\ Last(s).fn = "pulldown" => Len(s) >= 3 /\ s[Len(s) - 1].fn = "overlay"
         /\ Last(s).fn \in {"submenu", "view", "shell", "dlgtest", "list", "table"} =>
              s[1].fn = "menu"
<1> DEFINE n == Len(s)
<1>0. n \in Nat /\ n >= 1
  BY EmptySeq DEF StackOK
<1>1. s \in Seq(Frames) /\ 1 \in 1 .. n /\ n \in 1 .. n
  BY <1>0 DEF StackOK
<1>n. n = Len(s)
  OBVIOUS
<1> HIDE DEF n
<1>2. FrameOK(s[n], seen) /\ s[1].fn \in {"logon", "menu"}
  BY <1>1, <1>n DEF StackOK
<1>3. n # 1 => CalledBy(s[n], s[n - 1]) /\ Covers(s[n], s[1])
  <2>1. n # 1 => n \in 2 .. n /\ 1 < n
    BY <1>0
  <2> QED
    BY <1>1, <1>n, <2>1 DEF StackOK
<1>4. s[n].fn = "pulldown" => n >= 3 /\ s[n - 1].fn = "overlay"
  <2> HAVE s[n].fn = "pulldown"
  <2>1. n # 1 /\ s[n - 1].fn = "overlay"
    BY <1>2, <1>3 DEF CalledBy
  <2>2. n # 2
    BY <2>1, <1>2
  <2> QED
    BY <1>0, <2>1, <2>2
<1>5. n # 1 => s[n].fn \notin {"logon", "menu"}
  BY <1>3 DEF CalledBy
<1>6. s[n].fn \in {"submenu", "view", "shell", "dlgtest", "list", "table"} => s[1].fn = "menu"
  <2> HAVE s[n].fn \in {"submenu", "view", "shell", "dlgtest", "list", "table"}
  <2>1. n # 1 /\ s[n].fn \notin Popups
    BY <1>2 DEF Popups
  <2>2. s[1].fn # "logon"
    BY <2>1, <1>3 DEF Covers
  <2> QED
    BY <1>2, <2>2
<1> QED
  BY <1>0, <1>n, <1>2, <1>4, <1>5, <1>6 DEF Last

-----------------------------------------------------------------------------
(* Frames.                                                                 *)

\* The empty values of a frame have its types.
LEMMA Blanks ==
  /\ None \in Words /\ NoOption \in Typable /\ NoLogon \in LogonFields
  /\ <<>> \in Scratch /\ NoVia \in Words \X Words
  /\ [n \in 1 .. TableRows |-> BlankRow] \in [1 .. TableRows -> RowKinds]
<1>1. None \in Words /\ <<>> \in Scratch /\ BlankRow \in RowKinds
  BY DEF Words, Scratch, BlankRow, RowKinds
<1>2. NoOption \in Typable /\ NoLogon \in LogonFields /\ NoVia \in Words \X Words
  BY <1>1 DEF NoOption, NoLogon, Typable, LogonFields, NoVia
<1>3. [n \in 1 .. TableRows |-> BlankRow] \in [1 .. TableRows -> RowKinds]
  BY <1>1
<1> QED
  BY <1>1, <1>2, <1>3

\* A loop that starts on a panel of the library, at its top.
LEMMA NewFrame ==
  ASSUME NEW seen, NEW fn \in FrameKinds \ {"pulldown", "table"}, NEW panel \in DOMAIN Panel,
         fn = "help" => Panel[panel].height > Page
  PROVE  /\ FrameOK(Frame(fn, panel), seen)
         /\ Frame(fn, panel).fn = fn /\ Frame(fn, panel).panel = panel
         /\ Frame(fn, panel).via = NoVia /\ ~Frame(fn, panel).patch
<1> DEFINE f == Frame(fn, panel)
<1>1. /\ f.fn = fn /\ f.panel = panel /\ f.via = NoVia /\ f.patch = FALSE
      /\ f.choice = 0
  BY DEF Frame, NoVia
<1>2. f \in Frames
  <2>1. f = [fn |-> fn, panel |-> panel, top |-> 0, patch |-> FALSE, error |-> None,
             pending |-> NoOption, choice |-> 0, rows |-> <<>>, via |-> NoVia]
    BY DEF Frame, NoVia
  <2> QED
    BY <2>1, Blanks DEF Frames, Errors
<1>3. 0 <= Len(Panel[panel].bar)
  BY PanelAssumption, LenProperties
<1> QED
  BY <1>1, <1>2, <1>3 DEF FrameOK

\* A help panel, paged or not.
LEMMA HelpFrame ==
  ASSUME NEW seen, NEW panel \in DOMAIN Panel
  PROVE  /\ FrameOK(Help(panel), seen)
         /\ Help(panel).fn \in {"help", "overlay"}
         /\ Help(panel).via = NoVia /\ ~Help(panel).patch
<1>1. {"help", "overlay"} \subseteq FrameKinds \ {"pulldown", "table"}
  BY DEF FrameKinds, HandlerKinds, Paged
<1>2. CASE Panel[panel].height > Page
  BY <1>1, <1>2, NewFrame DEF Help
<1>3. CASE ~(Panel[panel].height > Page)
  BY <1>1, <1>3, NewFrame DEF Help
<1> QED
  BY <1>2, <1>3

\* A help panel may be called from anywhere.
LEMMA HelpCalled ==
  ASSUME NEW panel \in DOMAIN Panel, NEW g
  PROVE  CalledBy(Help(panel), g) /\ Covers(Help(panel), g)
<1>1. Help(panel).fn \in {"help", "overlay"} /\ Help(panel).via = NoVia
  BY HelpFrame
<1> QED
  BY <1>1 DEF CalledBy, Covers, Popups

\* A panel of the library.
LEMMA LibraryPanel ==
  ASSUME NEW p \in DOMAIN Panel
  PROVE  /\ p \in Words /\ p # None
         /\ Panel[p].height \in Nat /\ Panel[p].spots \subseteq Nat
         /\ Panel[p].bar \in Seq(Seq(STRING))
         /\ Panel[p].help \in DOMAIN Panel \cup {None}
         /\ \A s \in DOMAIN Panel[p].fieldHelp : Panel[p].fieldHelp[s] \in DOMAIN Panel
         /\ \A s \in DOMAIN Panel[p].itemHelp : Panel[p].itemHelp[s] \in DOMAIN Panel
         /\ \A s \in DOMAIN Panel[p].rows : Panel[p].rows[s] \in STRING
  BY PanelAssumption DEF Words

\* What a frame needs to go on as another: what changes has its type.
LEMMA SameFrame ==
  ASSUME NEW seen, NEW g, FrameOK(g, seen), NEW f \in Frames, f.fn = g.fn, f.panel = g.panel,
         f.choice = g.choice, f.rows = g.rows, f.patch => f.fn = "menu"
  PROVE  FrameOK(f, seen)
  BY DEF FrameOK

\* The loop that a target names: it is of a kind whose panel is in the library,
\* and the option that leads to it is one that the panel shows.
LEMMA HandlerFrame ==
  ASSUME NEW seen, NEW g, g.panel \in DOMAIN Panel, g.fn \in {"menu", "submenu"},
         NEW option \in Typable, Runs(g.panel, option.head)
  PROVE  LET f == Handler(g.panel, option)
         IN FrameOK(f, seen) /\ ~f.patch /\ CalledBy(f, g) /\ Covers(f, g)
<1> DEFINE head == option.head
           target == Panel[g.panel].targets[head]
           f == Handler(g.panel, option)
           base == Frame(target.fn, target.panel)
<1>1. head \in Words /\ option.tail \in Words
  BY DEF Typable
<1>2. /\ head \in DOMAIN Panel[g.panel].targets /\ head \in Panel[g.panel].selections
      /\ Routed(g.panel, head) = target /\ target.fn \in HandlerKinds
  BY DEF Runs, Routed, NoTarget, HandlerKinds, None
<1>3. target \in [fn : HandlerKinds \cup {"EXIT", "missing"}, panel : STRING]
      /\ target.panel \in DOMAIN Panel
  BY <1>2, PanelAssumption
<1>4. target.fn \in FrameKinds \ {"help", "pulldown", "table", "logon", "menu"}
  BY <1>2 DEF FrameKinds, HandlerKinds
<1>5. FrameOK(base, seen) /\ base.fn = target.fn /\ base.panel = target.panel /\ ~base.patch
  BY <1>3, <1>4, NewFrame
<1>6. f = [base EXCEPT !.pending = [head |-> option.tail, tail |-> None],
                       !.via = <<g.panel, head>>]
  BY <1>2 DEF Handler
<1>7. base \in Frames /\ [head |-> option.tail, tail |-> None] \in Typable
  BY <1>1, <1>5, Blanks DEF FrameOK, Typable
<1>8. <<g.panel, head>> \in Words \X Words /\ g.panel # None
  BY <1>1, LibraryPanel
<1> HIDE DEF f, base
<1>9. /\ f \in Frames /\ f.fn = base.fn /\ f.panel = base.panel /\ f.choice = base.choice
      /\ f.rows = base.rows /\ f.patch = base.patch /\ f.via = <<g.panel, head>>
  BY <1>6, <1>7, <1>8 DEF Frames
<1>10. FrameOK(f, seen) /\ ~f.patch
  BY <1>5, <1>9, SameFrame
<1>11. f.via # NoVia /\ f.via[1] = g.panel /\ f.via[2] = head
  BY <1>8, <1>9 DEF NoVia
<1>12. target = [fn |-> f.fn, panel |-> f.panel]
  BY <1>3, <1>5, <1>9
<1>13. CalledBy(f, g)
  BY <1>2, <1>4, <1>5, <1>9, <1>11, <1>12 DEF CalledBy
<1> QED
  BY <1>10, <1>13 DEF Covers, Popups, f

-----------------------------------------------------------------------------
(* Steps.                                                                  *)

\* A step after which the stack stands, with the same bottom, and no message
\* waits to be patched in.
Quiet ==
  /\ StackOK(stack', refused')
  /\ user' = user /\ presented' = presented
  /\ stack' # <<>> => stack'[1].fn = stack[1].fn /\ ~Last(stack').patch

\* What the invariant says of the frame that runs, and of the reply.
LEMMA Running ==
  ASSUME IInv, stack # <<>>
  PROVE  /\ StackOK(stack, refused) /\ FrameOK(Top, refused)
         /\ Top \in Frames /\ Top.panel \in DOMAIN Panel
         /\ input \in Replies
         /\ ~reading => input = NoReply
         /\ Top.fn # "menu" => ~Top.patch
<1>1. StackOK(stack, refused) /\ FrameOK(Top, refused) /\ input \in Replies
  BY LastFrame DEF IInv, ReadInv, Top
<1>2. Top \in Frames /\ (Top.patch => Top.fn = "menu")
  BY <1>1 DEF FrameOK
<1>3. Top.panel \in DOMAIN Panel /\ Top.patch \in BOOLEAN
  BY <1>2 DEF Frames
<1> QED
  BY <1>1, <1>2, <1>3 DEF IInv, ReadInv

\* A quiet step that leaves no reply unread keeps the invariant.
LEMMA QuietKeeps ==
  ASSUME IInv, stack # <<>>, Quiet, reading' = FALSE, input' = NoReply, online' = online
  PROVE  IInv'
<1>1. UserInv'
  BY DEF IInv, UserInv, Quiet
<1>2. ShownInv'
  BY DEF ShownInv, Quiet, Top
<1>3. ReadInv'
  <2>1. NoReply \in Replies
    BY Blanks DEF NoReply, Reply, Replies, Nowhere, None
  <2> QED
    BY <2>1 DEF IInv, ReadInv
<1> QED
  BY <1>1, <1>2, <1>3 DEF IInv, Quiet

\* A reply that a loop acts on quietly.
LEMMA AnswerKeeps ==
  ASSUME IInv, NEW fn, Answer(fn), Quiet
  PROVE  IInv'
  BY QuietKeeps DEF Answer

\* The steps the loops below the menu make of a reply.
LEMMA LoopQuiet ==
  ASSUME IInv, stack # <<>>, NEW f, Loop(f), FrameOK(f, refused),
         f.fn = Top.fn, f.panel = Top.panel, f.via = Top.via, ~f.patch
  PROVE  Quiet
<1> DEFINE t == [stack EXCEPT ![Len(stack)] = f]
<1>1. StackOK(t, refused) /\ t[1].fn = stack[1].fn /\ Last(t) = f
  BY LoopKeeps DEF IInv, Top
<1> HIDE DEF t
<1>2. stack' = t /\ UNCHANGED <<user, presented, refused>>
  BY DEF Loop, t
<1> QED
  BY <1>1, <1>2 DEF Quiet

\* The last frame goes on as f and calls c.
LEMMA CallQuiet ==
  ASSUME IInv, stack # <<>>, NEW f, NEW c, Call(f, c), FrameOK(f, refused),
         f.fn = Top.fn, f.panel = Top.panel, f.via = Top.via, ~f.patch,
         FrameOK(c, refused), CalledBy(c, Top), Covers(c, Top), ~c.patch
  PROVE  Quiet
<1> DEFINE t == [stack EXCEPT ![Len(stack)] = f]
<1>1. StackOK(t, refused) /\ Len(t) = Len(stack) /\ t[1].fn = stack[1].fn /\ Last(t) = f
  BY LoopKeeps DEF IInv, Top
<1>2. t # <<>>
  <2>1. Len(t) \in Nat \ {0}
    BY <1>1, LastFrame DEF IInv
  <2> QED
    BY <2>1
<1>3. stack' = Append(t, c) /\ UNCHANGED <<user, presented, refused>>
  BY DEF Call
<1> HIDE DEF t
<1>4. CalledBy(c, f) /\ Covers(c, f)
  BY DEF CalledBy, Covers
<1> DEFINE u == Append(t, c)
<1>5. StackOK(u, refused) /\ u[1].fn = t[1].fn /\ Last(u) = c
  BY <1>1, <1>2, <1>4, PushKeeps
<1> HIDE DEF u
<1> QED
  BY <1>1, <1>3, <1>5 DEF Quiet, u

\* A loop returns to the one that called it.
LEMMA ReturnQuiet ==
  ASSUME IInv, stack # <<>>, Return, Top.fn \notin {"logon", "menu"}
  PROVE  Quiet
<1>1. Len(stack) \in Nat /\ Len(stack) >= 2 /\ StackOK(stack, refused)
  BY LastFrame DEF IInv, Top
<1> DEFINE k == Len(stack) - 1
           t == SubSeq(stack, 1, k)
<1>2. k \in 1 .. Len(stack) /\ k < Len(stack)
  BY <1>1
<1>3. StackOK(t, refused) /\ t[1].fn = stack[1].fn /\ ~Last(t).patch
  BY <1>1, <1>2, CutKeeps
<1> HIDE DEF t
<1>4. stack' = t /\ UNCHANGED <<user, presented, refused>>
  BY DEF Return, Front, t
<1> QED
  BY <1>3, <1>4 DEF Quiet

\* A pull-down returns, and the overlay that opened it with it.
LEMMA ReturnTwiceQuiet ==
  ASSUME IInv, stack # <<>>, ReturnTwice, Top.fn = "pulldown"
  PROVE  Quiet
<1>1. Len(stack) \in Nat /\ Len(stack) >= 3 /\ StackOK(stack, refused)
  BY LastFrame DEF IInv, Top
<1> DEFINE k == Len(stack) - 2
           t == SubSeq(stack, 1, k)
<1>2. k \in 1 .. Len(stack) /\ k < Len(stack)
  BY <1>1
<1>3. StackOK(t, refused) /\ t[1].fn = stack[1].fn /\ ~Last(t).patch
  BY <1>1, <1>2, CutKeeps
<1> HIDE DEF t
<1>4. stack' = t /\ UNCHANGED <<user, presented, refused>>
  BY DEF ReturnTwice, t
<1> QED
  BY <1>3, <1>4 DEF Quiet

\* The help a panel or a field names is in the library.
LEMMA HelpNamed ==
  ASSUME IInv, stack # <<>>, NEW r, HelpPanel(r) # None
  PROVE  HelpPanel(r) \in DOMAIN Panel
  BY Running, LibraryPanel DEF HelpPanel, Here

\* A loop that has no message to patch calls a help panel.
LEMMA HelpQuiet ==
  ASSUME IInv, stack # <<>>, Top.fn # "menu",
         NEW panel \in DOMAIN Panel, Call(Top, Help(panel))
  PROVE  Quiet
<1>1. FrameOK(Top, refused) /\ ~Top.patch
  BY Running
<1>2. FrameOK(Help(panel), refused) /\ ~Help(panel).patch
  BY HelpFrame
<1>3. CalledBy(Help(panel), Top) /\ Covers(Help(panel), Top)
  BY HelpCalled
<1> QED
  BY <1>1, <1>2, <1>3, CallQuiet

\* What a loop changes of its own frame when it goes on.
LEMMA GoesOn ==
  ASSUME IInv, stack # <<>>, Top.fn # "menu"
  PROVE  /\ Loop(Top) => Quiet
         /\ \A error \in Errors : Loop([Top EXCEPT !.error = error]) => Quiet
         /\ \A top \in Int : Loop([Top EXCEPT !.top = top]) => Quiet
         /\ \A error \in Errors : Loop([Top EXCEPT !.pending = NoOption, !.error = error]) => Quiet
<1>1. FrameOK(Top, refused) /\ Top \in Frames /\ ~Top.patch
  BY Running
<1>2. Loop(Top) => Quiet
  BY <1>1, LoopQuiet
<1>3. ASSUME NEW f \in Frames, Loop(f), f.fn = Top.fn, f.panel = Top.panel, f.via = Top.via,
             f.choice = Top.choice, f.rows = Top.rows, f.patch = Top.patch
      PROVE  Quiet
  <2>1. FrameOK(f, refused)
    BY <1>1, <1>3, SameFrame
  <2> QED
    BY <1>1, <1>3, <2>1, LoopQuiet
<1>4. ASSUME NEW error \in Errors, Loop([Top EXCEPT !.error = error]) PROVE Quiet
  <2> DEFINE f == [Top EXCEPT !.error = error]
  <2>1. /\ f \in Frames /\ f.fn = Top.fn /\ f.panel = Top.panel /\ f.via = Top.via
        /\ f.choice = Top.choice /\ f.rows = Top.rows /\ f.patch = Top.patch
    BY <1>1 DEF Frames
  <2> HIDE DEF f
  <2> QED
    BY <1>3, <1>4, <2>1 DEF f
<1>5. ASSUME NEW top \in Int, Loop([Top EXCEPT !.top = top]) PROVE Quiet
  <2> DEFINE f == [Top EXCEPT !.top = top]
  <2>1. /\ f \in Frames /\ f.fn = Top.fn /\ f.panel = Top.panel /\ f.via = Top.via
        /\ f.choice = Top.choice /\ f.rows = Top.rows /\ f.patch = Top.patch
    BY <1>1 DEF Frames
  <2> HIDE DEF f
  <2> QED
    BY <1>3, <1>5, <2>1 DEF f
<1>6. ASSUME NEW error \in Errors, Loop([Top EXCEPT !.pending = NoOption, !.error = error])
      PROVE  Quiet
  <2> DEFINE f == [Top EXCEPT !.pending = NoOption, !.error = error]
  <2>1. /\ f \in Frames /\ f.fn = Top.fn /\ f.panel = Top.panel /\ f.via = Top.via
        /\ f.choice = Top.choice /\ f.rows = Top.rows /\ f.patch = Top.patch
    BY <1>1, Blanks DEF Frames
  <2> HIDE DEF f
  <2> QED
    BY <1>3, <1>6, <2>1 DEF f
<1> QED
  BY <1>2, <1>4, <1>5, <1>6

\* A stack of nothing, and one of the logon or the menu alone.
LEMMA ShortStacks ==
  ASSUME NEW seen
  PROVE  /\ StackOK(<<>>, seen)
         /\ \A f : FrameOK(f, seen) /\ f.fn \in {"logon", "menu"} => StackOK(<<f>>, seen)
<1>1. StackOK(<<>>, seen)
  BY DEF StackOK
<1>2. ASSUME NEW f, FrameOK(f, seen), f.fn \in {"logon", "menu"} PROVE StackOK(<<f>>, seen)
  <2>1. <<f>> \in Seq(Frames) /\ Len(<<f>>) = 1 /\ <<f>>[1] = f
    BY <1>2 DEF FrameOK
  <2> QED
    BY <2>1, <1>2 DEF StackOK
<1> QED
  BY <1>1, <1>2

\* Every loop is left.
LEMMA EndKeeps ==
  ASSUME IInv, stack' = <<>>, user' \in {None} \cup DOMAIN Credentials,
         reading' = FALSE, input' = NoReply, online' \in BOOLEAN
  PROVE  IInv'
<1>1. StackOK(stack', refused')
  BY ShortStacks
<1>2. NoReply \in Replies
  BY Blanks DEF NoReply, Reply, Replies, Nowhere, None
<1> QED
  BY <1>1, <1>2 DEF IInv, UserInv, ShownInv, ReadInv

\* The logon starts again, with nobody logged on.
LEMMA LogoffKeeps ==
  ASSUME IInv, stack # <<>>, Logoff, reading' = FALSE, input' = NoReply, online' = online
  PROVE  IInv'
<1> DEFINE f == Frame("logon", "logon")
<1>1. FrameOK(f, refused) /\ f.fn = "logon" /\ ~f.patch
  <2>1. "logon" \in FrameKinds \ {"pulldown", "table"}
    BY DEF FrameKinds
  <2> QED
    BY <2>1, LibraryAssumption, NewFrame
<1> HIDE DEF f
<1>2. StackOK(<<f>>, refused) /\ Len(<<f>>) = 1 /\ <<f>>[1] = f /\ <<f>> # <<>>
  BY <1>1, ShortStacks
<1>3. stack' = <<f>> /\ user' = None /\ refused' = refused
  BY DEF Logoff, f
<1>4. Top' = f /\ stack'[1] = f
  BY <1>2, <1>3 DEF Top, Last
<1>5. StackOK(stack', refused') /\ UserInv' /\ ShownInv'
  BY <1>1, <1>2, <1>3, <1>4 DEF UserInv, ShownInv
<1>6. NoReply \in Replies
  BY Blanks DEF NoReply, Reply, Replies, Nowhere, None
<1> QED
  BY <1>5, <1>6 DEF IInv, ReadInv

\* A disconnect, at any depth.
LEMMA DisconnectedKeeps == IInv /\ Disconnected => IInv'
<1> SUFFICES ASSUME IInv, Disconnected PROVE IInv'
  OBVIOUS
<1>1. stack # <<>> /\ reading' = FALSE /\ input' = NoReply /\ online' = online
  BY DEF Disconnected
<1>2. CASE Top.fn \in {"logon", "menu"}
  <2>1. stack' = <<>> /\ user' = user
    BY <1>2 DEF Disconnected
  <2> QED
    BY <1>1, <2>1, EndKeeps DEF IInv, UserInv, ReadInv
<1>3. CASE Top.fn = "pulldown"
  <2>1. ReturnTwice
    BY <1>3 DEF Disconnected
  <2> QED
    BY <1>1, <1>3, <2>1, ReturnTwiceQuiet, QuietKeeps
<1>4. CASE Top.fn \notin {"logon", "menu", "pulldown"}
  <2>1. Return
    BY <1>4 DEF Disconnected
  <2> QED
    BY <1>1, <1>4, <2>1, ReturnQuiet, QuietKeeps
<1> QED
  BY <1>2, <1>3, <1>4

\* How far a loop may be scrolled.
LEMMA ClampBounds ==
  ASSUME NEW f \in Frames
  PROVE  /\ Extent(f) \in Nat /\ Clamp(f) \in Int
         /\ f.fn \in {"browse", "list"} => Clamp(f) \in 0 .. Most(0, Extent(f) - 1)
         /\ f.fn = "help" /\ Panel[f.panel].height > Page => Clamp(f) \in 0 .. Extent(f) - Page
<1>1. f.top \in Int /\ f.panel \in DOMAIN Panel /\ Page \in Nat
  BY PageAssumption DEF Frames
<1>2. Extent(f) \in Nat /\ (f.fn = "help" => Extent(f) = Panel[f.panel].height)
  BY <1>1, PageAssumption, LibraryPanel DEF Extent
<1> QED
  BY <1>1, <1>2 DEF Clamp, Most, Least

\* A display: the loop's own screen, or the message in the menu.
LEMMA DisplayKeeps == IInv /\ Display => IInv'
<1> SUFFICES ASSUME IInv, Display PROVE IInv'
  OBVIOUS
<1> DEFINE f == Displayed(Top)
           t == [stack EXCEPT ![Len(stack)] = f]
<1>1. stack # <<>> /\ ~reading /\ stack' = t /\ reading' = TRUE
      /\ user' = user /\ input' = input /\ online' = online
      /\ presented' = presented /\ refused' = refused
  BY DEF Display
<1>2. FrameOK(Top, refused) /\ Top \in Frames /\ input = NoReply
  BY <1>1, Running
<1>3. /\ f \in Frames /\ f.fn = Top.fn /\ f.panel = Top.panel /\ f.via = Top.via
      /\ f.choice = Top.choice /\ f.rows = Top.rows /\ f.patch = Top.patch
  <2>1. Clamp(Top) \in Int
    BY <1>2, ClampBounds
  <2> QED
    BY <1>2, <2>1 DEF Displayed, Frames
<1>4. f.fn \in {"browse", "list", "help"} => f.top = Clamp(Top)
  BY <1>2, <1>3 DEF Displayed, Paged, Frames
<1> HIDE DEF f
<1>5. FrameOK(f, refused)
  BY <1>2, <1>3, SameFrame DEF FrameOK
<1>6. StackOK(t, refused) /\ Len(t) = Len(stack) /\ t[1].fn = stack[1].fn /\ Last(t) = f
  BY <1>1, <1>3, <1>5, LoopKeeps DEF IInv, Top
<1>7. t # <<>>
  <2>1. Len(t) \in Nat \ {0}
    BY <1>1, <1>6, LastFrame DEF IInv
  <2> QED
    BY <2>1
<1> HIDE DEF t
<1>8. StackOK(stack', refused') /\ stack' # <<>> /\ stack'[1].fn = stack[1].fn /\ Top' = f
  BY <1>1, <1>6, <1>7 DEF Top
<1>9. UserInv'
  BY <1>1, <1>8 DEF IInv, UserInv
<1>10. ShownInv'
  <2>2. CASE f.patch
    <3>1. shown' = shown /\ f.fn = "menu" /\ shown \in {f.panel, "blank"}
      BY <1>1, <1>3, <1>5, <2>2 DEF Display, FrameOK, IInv, ShownInv
    <3> QED
      BY <1>1, <1>8, <2>2, <3>1 DEF ShownInv, RepliesToShown
  <2>3. CASE ~f.patch
    <3>1. shown' = IF f.fn = "pulldown" THEN "pulldown" ELSE f.panel
      BY <1>3, <2>3 DEF Display
    <3> QED
      BY <1>1, <1>8, <3>1 DEF ShownInv, RepliesToShown
  <2> QED
    BY <2>2, <2>3
<1>11. ReadInv'
  <2>1. Extent(f) = Extent(Top)
    BY <1>3 DEF Extent
  <2>2. f.fn \in {"browse", "list"} => f.top \in 0 .. Most(0, Extent(f) - 1)
    BY <1>2, <1>3, <1>4, <2>1, ClampBounds
  <2>3. f.fn = "help" => f.top \in 0 .. Extent(f) - Page
    BY <1>2, <1>3, <1>4, <2>1, ClampBounds DEF FrameOK
  <2>4. Extent(Top)' = Extent(f)
    BY <1>8 DEF Extent
  <2> QED
    BY <1>1, <1>8, <2>2, <2>3, <2>4 DEF IInv, ReadInv
<1> QED
  BY <1>8, <1>9, <1>10, <1>11 DEF IInv

\* What the client does: a reply, which may clear the screen, or a hang-up;
\* and a read or a send that raises.
LEMMA ClientKeeps ==
  IInv /\ (Send \/ SysreqLogoff \/ HangUp \/ SendFails) => IInv'
<1> SUFFICES ASSUME IInv PROVE (Send \/ SysreqLogoff \/ HangUp \/ SendFails) => IInv'
  OBVIOUS
<1>1. SysreqLogoff => IInv'
  BY EndKeeps DEF SysreqLogoff, IInv, UserInv, ReadInv
<1>2. SendFails => IInv'
  BY EndKeeps DEF SendFails, IInv, UserInv, ReadInv
<1>3. ASSUME HangUp PROVE IInv'
  <2>1. stack' = stack /\ user' = user /\ reading' = reading /\ online' = FALSE
        /\ input' = input /\ shown' = shown /\ presented' = presented /\ refused' = refused
    BY <1>3 DEF HangUp
  <2>2. ShownInv' /\ UserInv'
    BY <2>1 DEF ShownInv, RepliesToShown, Top, UserInv, IInv
  <2>3. ReadInv'
    BY <2>1 DEF ReadInv, IInv, Top, Extent
  <2> QED
    BY <2>1, <2>2, <2>3 DEF IInv
<1>4. ASSUME Send PROVE IInv'
  <2>1. stack # <<>> /\ reading /\ input = NoReply
        /\ stack' = stack /\ user' = user /\ reading' = reading /\ online' = online
        /\ presented' = presented /\ refused' = refused
    BY <1>4 DEF Send
  <2>2. Top.panel \in DOMAIN Panel /\ Here.spots \subseteq Nat
    BY <2>1, Running, LibraryPanel DEF Here
  <2>3. PICK key \in Keys : Made(key) /\ shown' = IF key = "Clear" THEN "blank" ELSE shown
    BY <1>4 DEF Send
  <2>4. input' \in Replies /\ input'.key = key
    <3>1. key \in Words /\ Options \subseteq Typable /\ Logons \subseteq LogonFields
          /\ Tables \subseteq Scratch
      BY TypedAssumption DEF Words, Typable, LogonFields, Scratch, RowKinds
    <3>2. Reply(key) \in Replies /\ Reply(key).key = key
      BY <3>1, Blanks DEF Reply, Replies, Nowhere
    <3>3. CASE ~Carries(key)
      BY <2>3, <3>2, <3>3 DEF Made
    <3>4. CASE Carries(key)
      <4> DEFINE options == {NoOption} \cup
                   (IF Top.fn \in {"menu", "submenu", "view", "shell"} /\ shown # "blank"
                    THEN Options ELSE {})
                 logons == IF Top.fn = "logon" THEN Logons ELSE {NoLogon}
                 tables == IF Top.fn = "table" THEN Tables ELSE {<<>>}
      <4>1. PICK spot \in {Nowhere} \cup Here.spots, option \in options, logon \in logons,
                 table \in tables :
              input' = [Reply(key) EXCEPT !.spot = spot, !.option = option, !.logon = logon,
                                          !.table = table]
        BY <2>3, <3>4 DEF Made
      <4>2. spot \in Nat /\ option \in Typable /\ logon \in LogonFields /\ table \in Scratch
        BY <2>2, <3>1, Blanks DEF Nowhere
      <4> HIDE DEF Reply
      <4> QED
        BY <3>2, <4>1, <4>2 DEF Replies
    <3> QED
      BY <3>3, <3>4
  <2>5. RepliesToShown'
    <3>1. input.key # "Clear"
      BY <2>1 DEF NoReply, Reply, None
    <3>2. \/ shown = IF Top.fn = "pulldown" THEN "pulldown" ELSE Top.panel
          \/ shown = "blank" /\ Top.patch
      BY <2>1, <3>1 DEF IInv, ShownInv, RepliesToShown
    <3>3. Top' = Top
      BY <2>1 DEF Top
    <3>4. CASE key = "Clear"
      BY <2>3, <2>4, <3>4 DEF RepliesToShown
    <3>5. CASE key # "Clear"
      BY <2>3, <3>2, <3>3, <3>5 DEF RepliesToShown
    <3> QED
      BY <3>4, <3>5
  <2>6. ShownInv' /\ UserInv'
    BY <2>1, <2>5 DEF ShownInv, UserInv, IInv
  <2>7. ReadInv'
    BY <2>1, <2>3, <2>4 DEF ReadInv, IInv, Top, Extent
  <2> QED
    BY <2>1, <2>6, <2>7 DEF IInv
<1> QED
  BY <1>1, <1>2, <1>3, <1>4

-----------------------------------------------------------------------------
(* What each loop does with a reply.                                       *)

\* The option a reply leads to.
LEMMA ChosenTyped ==
  ASSUME IInv, stack # <<>>
  PROVE  Chosen(input) \in Typable
<1>1. input.option \in Typable
  BY Running DEF Replies
<1>2. \A s \in DOMAIN Here.rows : Here.rows[s] \in Words
  BY Running, LibraryPanel DEF Here, Words
<1> QED
  BY <1>1, <1>2, Blanks DEF Chosen, Typable

\* A logon that is accepted is the user's own.
LEMMA AcceptedLogon ==
  ASSUME NEW logon \in LogonFields, LogonError(logon) = None
  PROVE  /\ logon.user \in DOMAIN Credentials /\ logon.size = "ok"
         /\ Credentials[logon.user] = logon.password
  BY DEF LogonError, LogonFields, Accepts, None

\* The logon: leave, help, and a logon that is refused or accepted.
LEMMA AnswerLogonKeeps == IInv /\ AnswerLogon => IInv'
<1> SUFFICES ASSUME IInv, AnswerLogon PROVE IInv'
  OBVIOUS
<1> DEFINE error == LogonError(input.logon)
<1>1. Answer("logon") /\ stack # <<>> /\ Top.fn = "logon" /\ reading' = FALSE
      /\ input' = NoReply /\ online' = online /\ shown' = shown
  BY DEF AnswerLogon, Answer
<1>2. Len(stack) = 1 /\ stack[1] = Top /\ FrameOK(Top, refused) /\ Top \in Frames /\ ~Top.patch
  BY <1>1, LastFrame, Running DEF IInv, Top, Last
<1>3. user = None /\ input.logon \in LogonFields
  BY <1>1, <1>2, Running DEF IInv, UserInv, Replies
<1>4. NoReply \in Replies
  BY Blanks DEF NoReply, Reply, Replies, Nowhere, None
<1>5. ASSUME NEW f, FrameOK(f, refused), f.fn \in {"logon", "menu"}, ~f.patch,
             stack' = <<f>>, refused' = refused, UserInv'
      PROVE  IInv'
  <2>1. StackOK(<<f>>, refused) /\ Len(<<f>>) = 1 /\ <<f>>[1] = f
    BY <1>5, ShortStacks
  <2>2. Top' = f
    BY <2>1, <1>5 DEF Top, Last
  <2> QED
    BY <1>1, <1>4, <1>5, <2>1, <2>2 DEF IInv, ShownInv, ReadInv
<1>6. CASE Leaves(input)
  BY <1>1, <1>3, <1>6, EndKeeps DEF AnswerLogon, IInv, ReadInv
<1>7. CASE ~Leaves(input) /\ Command(input) = "HELP" /\ LogonHelp(input) # None
  <2>1. LogonHelp(input) \in DOMAIN Panel
    BY <1>1, <1>7, MessageAssumption, HelpNamed DEF LogonHelp
  <2>2. Call(Top, Help(LogonHelp(input)))
    BY <1>7 DEF AnswerLogon
  <2> QED
    BY <1>1, <2>1, <2>2, HelpQuiet, AnswerKeeps
<1>8. CASE ~Leaves(input) /\ ~(Command(input) = "HELP" /\ LogonHelp(input) # None)
  <2>1. presented' = input.logon /\ refused' = refused
        /\ IF error = None
           THEN user' = input.logon.user /\ stack' = <<Frame("menu", "ispf")>>
           ELSE user' = user /\ stack' = <<[Top EXCEPT !.error = error]>>
    BY <1>8 DEF AnswerLogon
  <2>2. CASE error = None
    <3> DEFINE f == Frame("menu", "ispf")
    <3>1. FrameOK(f, refused) /\ f.fn = "menu" /\ ~f.patch
      <4>1. "menu" \in FrameKinds \ {"pulldown", "table"}
        BY DEF FrameKinds
      <4> QED
        BY <4>1, LibraryAssumption, NewFrame
    <3> HIDE DEF f
    <3>2. stack' = <<f>> /\ user' = input.logon.user
      BY <2>1, <2>2 DEF f
    <3>3. UserInv'
      <4>1. stack'[1].fn = "menu"
        BY <3>1, <3>2
      <4> QED
        BY <1>3, <2>1, <2>2, <3>2, <4>1, AcceptedLogon DEF UserInv
    <3> QED
      BY <2>1, <3>1, <3>2, <3>3, <1>5
  <2>3. CASE error # None
    <3> DEFINE f == [Top EXCEPT !.error = error]
    <3>1. error \in Errors
      BY DEF LogonError, Errors
    <3>2. /\ f \in Frames /\ f.fn = Top.fn /\ f.panel = Top.panel /\ f.choice = Top.choice
          /\ f.rows = Top.rows /\ f.patch = Top.patch
      BY <1>2, <3>1 DEF Frames
    <3> HIDE DEF f
    <3>3. FrameOK(f, refused) /\ f.fn = "logon" /\ ~f.patch
      BY <1>1, <1>2, <3>2, SameFrame
    <3>4. stack' = <<f>> /\ user' = user
      BY <2>1, <2>3 DEF f
    <3>5. UserInv'
      <4>1. stack'[1].fn = "logon"
        BY <3>3, <3>4
      <4> QED
        BY <1>3, <3>4, <4>1 DEF UserInv
    <3> QED
      BY <2>1, <3>3, <3>4, <3>5, <1>5
  <2> QED
    BY <2>2, <2>3
<1> QED
  BY <1>6, <1>7, <1>8

\* The menu's message goes into what is on the terminal, which is the menu or
\* the screen the user has cleared.
LEMMA MessageKeeps ==
  ASSUME IInv, Answer("menu"), NEW error \in Errors, Message(error)
  PROVE  IInv'
<1> DEFINE f == [Top EXCEPT !.patch = TRUE, !.error = error]
           t == [stack EXCEPT ![Len(stack)] = f]
<1>1. stack # <<>> /\ Top.fn = "menu" /\ reading /\ reading' = FALSE /\ input' = NoReply
      /\ online' = online /\ shown' = shown
  BY DEF Answer
<1>2. FrameOK(Top, refused) /\ Top \in Frames
  BY <1>1, Running
<1>3. /\ f \in Frames /\ f.fn = Top.fn /\ f.panel = Top.panel /\ f.via = Top.via
      /\ f.choice = Top.choice /\ f.rows = Top.rows
  BY <1>2 DEF Frames
<1>4. stack' = t /\ user' = user /\ presented' = presented /\ refused' = refused
  BY DEF Message, Loop
<1> HIDE DEF f
<1>5. FrameOK(f, refused)
  BY <1>1, <1>2, <1>3, SameFrame
<1>6. StackOK(t, refused) /\ t[1].fn = stack[1].fn /\ Last(t) = f
  BY <1>1, <1>3, <1>5, LoopKeeps DEF IInv, Top
<1> HIDE DEF t
<1>7. StackOK(stack', refused') /\ stack'[1].fn = stack[1].fn /\ Top' = f
  BY <1>4, <1>6 DEF Top
<1>8. shown \in {Top.panel, "blank"}
  BY <1>1 DEF IInv, ShownInv, RepliesToShown
<1>9. ShownInv' /\ UserInv'
  BY <1>1, <1>3, <1>4, <1>7, <1>8 DEF ShownInv, UserInv, IInv
<1>10. NoReply \in Replies
  BY Blanks DEF NoReply, Reply, Replies, Nowhere, None
<1> QED
  BY <1>1, <1>7, <1>9, <1>10 DEF IInv, ReadInv

\* The menu: log off, help, a handler, or a message.
LEMMA AnswerMenuKeeps == IInv /\ AnswerMenu => IInv'
<1> SUFFICES ASSUME IInv, AnswerMenu PROVE IInv'
  OBVIOUS
<1> DEFINE option == Chosen(input)
           head == option.head
           redraw == [Top EXCEPT !.patch = FALSE]
           calling == [redraw EXCEPT !.error = None]
<1>1. Answer("menu") /\ stack # <<>> /\ Top.fn = "menu" /\ reading' = FALSE
      /\ input' = NoReply /\ online' = online
  BY DEF AnswerMenu, Answer
<1>2. FrameOK(Top, refused) /\ Top \in Frames /\ Top.panel \in DOMAIN Panel
  BY <1>1, Running
<1>3. /\ redraw \in Frames /\ redraw.fn = Top.fn /\ redraw.panel = Top.panel
      /\ redraw.via = Top.via /\ ~redraw.patch /\ FrameOK(redraw, refused)
  <2>1. /\ redraw \in Frames /\ redraw.fn = Top.fn /\ redraw.panel = Top.panel
        /\ redraw.via = Top.via /\ ~redraw.patch
        /\ redraw.choice = Top.choice /\ redraw.rows = Top.rows
    BY <1>2 DEF Frames
  <2> HIDE DEF redraw
  <2> QED
    BY <1>2, <2>1, SameFrame
<1>4. /\ calling.fn = Top.fn /\ calling.panel = Top.panel
      /\ calling.via = Top.via /\ ~calling.patch /\ FrameOK(calling, refused)
  <2> HIDE DEF redraw
  <2>1. /\ calling \in Frames /\ calling.fn = redraw.fn /\ calling.panel = redraw.panel
        /\ calling.via = redraw.via /\ calling.patch = redraw.patch
        /\ calling.choice = redraw.choice /\ calling.rows = redraw.rows
    BY <1>3, Blanks DEF Frames, Errors
  <2> HIDE DEF calling
  <2> QED
    BY <1>3, <2>1, SameFrame
<1>5. option \in Typable
  BY <1>1, ChosenTyped
<1>6. \/ Logoff
      \/ HelpPanel(input) # None /\ Call(redraw, Help(HelpPanel(input)))
      \/ Runs(Top.panel, head) /\ Call(calling, Handler(Top.panel, option))
      \/ \E error \in {None, "unimplemented", "invalid"} : Message(error)
  <2>1. \/ Routed(Top.panel, head) = NoTarget \/ Exits(Top.panel, head)
        \/ Runs(Top.panel, head) \/ Routed(Top.panel, head).fn = "missing"
    BY <1>2, PanelAssumption DEF Routed, Exits, Runs
  <2>2. CASE option = ExitOption \/ Leaves(input)
    BY <2>2 DEF AnswerMenu
  <2>3. CASE ~(option = ExitOption \/ Leaves(input))
             /\ Command(input) = "HELP" /\ HelpPanel(input) # None
    BY <2>3 DEF AnswerMenu
  <2>4. CASE ~(option = ExitOption \/ Leaves(input))
             /\ ~(Command(input) = "HELP" /\ HelpPanel(input) # None)
    <3>1. CASE Exits(Top.panel, head)
      BY <2>4, <3>1 DEF AnswerMenu, Exits, Runs, HandlerKinds, NoTarget, None
    <3>2. CASE Runs(Top.panel, head)
      BY <2>4, <3>2 DEF AnswerMenu, Exits, Runs, HandlerKinds, NoTarget, None
    <3>3. CASE Routed(Top.panel, head).fn = "missing"
      BY <2>4, <3>3 DEF AnswerMenu, Exits, Runs, HandlerKinds, NoTarget, None
    <3>4. CASE Routed(Top.panel, head) = NoTarget
      BY <2>4, <3>4 DEF AnswerMenu, Exits, Runs, HandlerKinds, NoTarget, None
    <3> QED
      BY <2>1, <3>1, <3>2, <3>3, <3>4
  <2> QED
    BY <2>2, <2>3, <2>4
<1> HIDE DEF redraw, calling, option
<1>7. CASE Logoff
  BY <1>1, <1>7, LogoffKeeps
<1>8. CASE HelpPanel(input) # None /\ Call(redraw, Help(HelpPanel(input)))
  <2>1. HelpPanel(input) \in DOMAIN Panel
    BY <1>1, <1>8, HelpNamed
  <2>2. Quiet
    BY <1>1, <1>3, <1>8, <2>1, HelpFrame, HelpCalled, CallQuiet
  <2> QED
    BY <1>1, <2>2, AnswerKeeps
<1>9. CASE Runs(Top.panel, head) /\ Call(calling, Handler(Top.panel, option))
  <2> DEFINE c == Handler(Top.panel, option)
  <2>1. FrameOK(c, refused) /\ ~c.patch /\ CalledBy(c, Top) /\ Covers(c, Top)
    BY <1>1, <1>2, <1>5, <1>9, HandlerFrame
  <2> HIDE DEF c
  <2>2. Call(calling, c)
    BY <1>9 DEF c
  <2>3. Quiet
    BY <1>1, <1>4, <2>1, <2>2, CallQuiet
  <2> QED
    BY <1>1, <2>3, AnswerKeeps
<1>10. CASE \E error \in {None, "unimplemented", "invalid"} : Message(error)
  BY <1>1, <1>10, MessageKeeps DEF Errors
<1> QED
  BY <1>6, <1>7, <1>8, <1>9, <1>10

\* A submenu routes an option as the menu does, and stays where it is.
LEMMA RouteQuiet ==
  ASSUME IInv, stack # <<>>, Top.fn = "submenu", NEW option \in Typable, Route(option)
  PROVE  Quiet
<1> DEFINE calling == [Top EXCEPT !.error = None, !.pending = NoOption]
           c == Handler(Top.panel, option)
<1>1. FrameOK(Top, refused) /\ Top \in Frames /\ Top.panel \in DOMAIN Panel /\ ~Top.patch
  BY Running
<1>2. /\ calling.fn = Top.fn /\ calling.panel = Top.panel
      /\ calling.via = Top.via /\ ~calling.patch /\ FrameOK(calling, refused)
  <2>1. /\ calling \in Frames /\ calling.fn = Top.fn /\ calling.panel = Top.panel
        /\ calling.via = Top.via /\ calling.patch = Top.patch
        /\ calling.choice = Top.choice /\ calling.rows = Top.rows
    BY <1>1, Blanks DEF Frames, Errors
  <2> HIDE DEF calling
  <2> QED
    BY <1>1, <2>1, SameFrame
<1>3. \/ Return
      \/ Runs(Top.panel, option.head) /\ Call(calling, c)
      \/ \E error \in {"unimplemented", "invalid"} :
           Loop([Top EXCEPT !.pending = NoOption, !.error = error])
  BY DEF Route
<1> HIDE DEF calling
<1>4. CASE Return
  BY <1>4, ReturnQuiet
<1>5. CASE Runs(Top.panel, option.head) /\ Call(calling, c)
  <2>1. FrameOK(c, refused) /\ ~c.patch /\ CalledBy(c, Top) /\ Covers(c, Top)
    BY <1>1, <1>5, HandlerFrame
  <2> HIDE DEF c
  <2> QED
    BY <1>2, <1>5, <2>1, CallQuiet
<1>6. CASE \E error \in {"unimplemented", "invalid"} :
             Loop([Top EXCEPT !.pending = NoOption, !.error = error])
  BY <1>6, GoesOn DEF Errors
<1> QED
  BY <1>3, <1>4, <1>5, <1>6

\* The submenu, with a reply or with what is left of a dotted option.
LEMMA SubmenuKeeps == IInv /\ (AnswerSubmenu \/ Jump) => IInv'
<1> SUFFICES ASSUME IInv, AnswerSubmenu \/ Jump PROVE IInv'
  OBVIOUS
<1>1. CASE AnswerSubmenu
  <2>1. Answer("submenu") /\ stack # <<>> /\ Top.fn = "submenu"
    BY <1>1 DEF AnswerSubmenu, Awaited, Answer
  <2>2. Loop(Top) \/ Route(Chosen(input))
    BY <1>1 DEF AnswerSubmenu
  <2>3. Quiet
    BY <2>1, <2>2, ChosenTyped, RouteQuiet, GoesOn
  <2> QED
    BY <2>1, <2>3, AnswerKeeps
<1>2. CASE Jump
  <2>1. /\ stack # <<>> /\ ~reading /\ Top.fn = "submenu" /\ Route(Top.pending)
        /\ reading' = reading /\ input' = input /\ online' = online
    BY <1>2 DEF Jump, Jumping
  <2>2. Top \in Frames /\ input = NoReply
    BY <2>1, Running
  <2>3. Top.pending \in Typable
    BY <2>2 DEF Frames
  <2>4. Quiet
    BY <2>1, <2>3, RouteQuiet
  <2>5. reading' = FALSE
    BY <2>1 DEF IInv, ReadInv
  <2> QED
    BY <2>1, <2>2, <2>4, <2>5, QuietKeeps
<1> QED
  BY <1>1, <1>2

\* The leave keys and HELP that the loops below the menu share.
LEMMA LeaveOrHelpKeeps == IInv /\ LeaveOrHelp => IInv'
<1> SUFFICES ASSUME IInv, LeaveOrHelp PROVE IInv'
  OBVIOUS
<1>1. PICK fn \in {"submenu", "view", "shell", "dlgtest", "list"} :
        /\ Answer(fn)
        /\ \/ Leaves(input) /\ Return
           \/ ~Leaves(input) /\ input.key = "PF1" /\ HelpPanel(input) # None
                /\ Call(Top, Help(HelpPanel(input)))
  BY DEF LeaveOrHelp
<1>2. stack # <<>> /\ Top.fn = fn
  BY <1>1 DEF Answer
<1>3. Return \/ (HelpPanel(input) # None /\ Call(Top, Help(HelpPanel(input))))
  BY <1>1
<1>4. Quiet
  <2>1. CASE Return
    BY <1>2, <2>1, ReturnQuiet
  <2>2. CASE HelpPanel(input) # None /\ Call(Top, Help(HelpPanel(input)))
    BY <1>2, <2>2, HelpNamed, HelpQuiet
  <2> QED
    BY <1>3, <2>1, <2>2
<1> QED
  BY <1>1, <1>4, AnswerKeeps

\* A member opens over the entry panel and over the list.
LEMMA BrowseQuiet ==
  ASSUME IInv, stack # <<>>, Top.fn \in {"view", "list"},
         NEW f, f \in {Top, [Top EXCEPT !.error = None]}, Call(f, Frame("browse", "browse"))
  PROVE  Quiet
<1> DEFINE c == Frame("browse", "browse")
<1>1. FrameOK(c, refused) /\ c.fn = "browse" /\ c.via = NoVia /\ ~c.patch
  <2>1. "browse" \in FrameKinds \ {"pulldown", "table"}
    BY DEF FrameKinds, Paged
  <2> QED
    BY <2>1, LibraryAssumption, NewFrame, SMTT(20)
<1> HIDE DEF c
<1>2. CalledBy(c, Top) /\ Covers(c, Top)
  BY <1>1 DEF CalledBy, Covers, Popups
<1>3. FrameOK(Top, refused) /\ Top \in Frames /\ ~Top.patch
  BY Running
<1>4. /\ f \in Frames /\ f.fn = Top.fn /\ f.panel = Top.panel /\ f.via = Top.via
      /\ f.choice = Top.choice /\ f.rows = Top.rows /\ f.patch = Top.patch
  BY <1>3 DEF Frames, Errors
<1>5. FrameOK(f, refused) /\ ~f.patch
  BY <1>3, <1>4, SameFrame
<1>6. Call(f, c)
  BY DEF c
<1> QED
  BY <1>1, <1>2, <1>4, <1>5, <1>6, CallQuiet

\* Where a loop may be scrolled to is some line, until it is displayed.
LEMMA ScrolledTyped ==
  ASSUME NEW f \in Frames, NEW key
  PROVE  Scrolled(f, key) \in Int
  BY PageAssumption DEF Scrolled, Frames

\* The entry panel, the shell, the member list, a member and a paged help.
LEMMA PanelLoopsKeep ==
  IInv /\ (AnswerView \/ AnswerShell \/ AnswerList \/ AnswerBrowse \/ AnswerHelp) => IInv'
<1> SUFFICES ASSUME IInv
             PROVE  (AnswerView \/ AnswerShell \/ AnswerList \/ AnswerBrowse \/ AnswerHelp) => IInv'
  OBVIOUS
<1>1. ASSUME AnswerView PROVE IInv'
  <2>1. Answer("view") /\ stack # <<>> /\ Top.fn = "view"
    BY <1>1 DEF AnswerView, Awaited, Answer
  <2>2. \/ Loop(Top)
        \/ Call([Top EXCEPT !.error = None], Frame("browse", "browse"))
        \/ Loop([Top EXCEPT !.error = "notfound"])
    BY <1>1 DEF AnswerView
  <2>3. "notfound" \in Errors
    BY DEF Errors
  <2>4. Quiet
    BY <2>1, <2>2, <2>3, GoesOn, BrowseQuiet
  <2> QED
    BY <2>1, <2>4, AnswerKeeps
<1>2. ASSUME AnswerShell PROVE IInv'
  <2>1. Answer("shell") /\ stack # <<>> /\ Top.fn = "shell"
    BY <1>2 DEF AnswerShell, Awaited, Answer
  <2> DEFINE error == IF input.option = NoOption THEN None ELSE "response"
  <2>2. error \in Errors /\ Loop([Top EXCEPT !.error = error])
    BY <1>2 DEF AnswerShell, Errors
  <2>3. Quiet
    BY <2>1, <2>2, GoesOn
  <2> QED
    BY <2>1, <2>3, AnswerKeeps
<1>3. ASSUME AnswerList PROVE IInv'
  <2>1. Answer("list") /\ stack # <<>> /\ Top.fn = "list"
    BY <1>3 DEF AnswerList, Awaited, Answer
  <2>2. \/ Call(Top, Frame("browse", "browse"))
        \/ Loop([Top EXCEPT !.top = Scrolled(Top, input.key)])
    BY <1>3 DEF AnswerList
  <2>3. Scrolled(Top, input.key) \in Int
    BY <2>1, Running, ScrolledTyped
  <2>4. Quiet
    BY <2>1, <2>2, <2>3, GoesOn, BrowseQuiet
  <2> QED
    BY <2>1, <2>4, AnswerKeeps
<1>4. ASSUME AnswerBrowse PROVE IInv'
  <2>1. Answer("browse") /\ stack # <<>> /\ Top.fn = "browse"
    BY <1>4 DEF AnswerBrowse, Answer
  <2>2. Return \/ Loop([Top EXCEPT !.top = Scrolled(Top, input.key)])
    BY <1>4 DEF AnswerBrowse
  <2>3. Scrolled(Top, input.key) \in Int
    BY <2>1, Running, ScrolledTyped
  <2>4. Quiet
    BY <2>1, <2>2, <2>3, GoesOn, ReturnQuiet
  <2> QED
    BY <2>1, <2>4, AnswerKeeps
<1>5. ASSUME AnswerHelp PROVE IInv'
  <2>1. Answer("help") /\ stack # <<>> /\ Top.fn = "help"
    BY <1>5 DEF AnswerHelp, Answer
  <2>2. Return \/ \E key : Loop([Top EXCEPT !.top = Scrolled(Top, key)])
    BY <1>5 DEF AnswerHelp
  <2>3. \A key : Scrolled(Top, key) \in Int
    BY <2>1, Running, ScrolledTyped
  <2>4. Quiet
    BY <2>1, <2>2, <2>3, GoesOn, ReturnQuiet
  <2> QED
    BY <2>1, <2>4, AnswerKeeps
<1> QED
  BY <1>1, <1>2, <1>3, <1>4, <1>5

\* Along the action bar and round its ends.
LEMMA AlongBarBounds ==
  ASSUME NEW f \in Frames, Panel[f.panel].bar # <<>>, f.choice <= Len(Panel[f.panel].bar), NEW key
  PROVE  AlongBar(f, key) \in Nat /\ AlongBar(f, key) <= Len(Panel[f.panel].bar)
<1> DEFINE n == Len(Panel[f.panel].bar)
           c == f.choice
<1>1. n \in Nat \ {0} /\ c \in Nat
  <2>1. Panel[f.panel].bar \in Seq(Seq(STRING)) /\ c \in Nat
    BY LibraryPanel DEF Frames
  <2> QED
    BY <2>1, EmptySeq
<1>2. AlongBar(f, key) = IF key = "PF11" THEN (c % n) + 1
                         ELSE IF c = 0 THEN n ELSE ((c + n - 2) % n) + 1
  BY DEF AlongBar
<1> HIDE DEF n, c
<1>3. (c % n) \in 0 .. n - 1 /\ ((c + n - 2) % n) \in 0 .. n - 1
  BY <1>1
<1>4. AlongBar(f, key) \in Nat /\ AlongBar(f, key) <= n
  BY <1>1, <1>2, <1>3
<1> QED
  BY <1>4 DEF n

\* An overlay: leave, help, along the action bar, a pull-down.
LEMMA AnswerOverlayKeeps == IInv /\ AnswerOverlay => IInv'
<1> SUFFICES ASSUME IInv, AnswerOverlay PROVE IInv'
  OBVIOUS
<1> DEFINE along == [Top EXCEPT !.choice = AlongBar(Top, input.key)]
           c == [Frame("pulldown", Top.panel) EXCEPT !.choice = input.spot]
<1>1. Answer("overlay") /\ stack # <<>> /\ Top.fn = "overlay"
  BY DEF AnswerOverlay, Answer
<1>2. FrameOK(Top, refused) /\ Top \in Frames /\ Top.panel \in DOMAIN Panel /\ ~Top.patch
  BY <1>1, Running
<1>3. \/ Return \/ Loop(Top)
      \/ HelpPanel(input) # None /\ Call(Top, Help(HelpPanel(input)))
      \/ Here.bar # <<>> /\ Loop(along)
      \/ input.spot \in DOMAIN Here.bar /\ Call(Top, c)
  BY DEF AnswerOverlay
<1> HIDE DEF along, c
<1>4. CASE Return \/ Loop(Top)
  BY <1>1, <1>4, ReturnQuiet, GoesOn, AnswerKeeps
<1>5. CASE HelpPanel(input) # None /\ Call(Top, Help(HelpPanel(input)))
  BY <1>1, <1>5, HelpNamed, HelpQuiet, AnswerKeeps
<1>6. CASE Here.bar # <<>> /\ Loop(along)
  <2>1. AlongBar(Top, input.key) \in Nat
        /\ AlongBar(Top, input.key) <= Len(Panel[Top.panel].bar)
    BY <1>2, <1>6, AlongBarBounds DEF FrameOK, Here
  <2>2. /\ along \in Frames /\ along.fn = Top.fn /\ along.panel = Top.panel
        /\ along.via = Top.via /\ along.patch = Top.patch
        /\ along.choice = AlongBar(Top, input.key)
    BY <1>2, <2>1 DEF Frames, along
  <2>3. FrameOK(along, refused)
    BY <1>1, <1>2, <2>1, <2>2 DEF FrameOK
  <2> QED
    BY <1>1, <1>2, <1>6, <2>2, <2>3, LoopQuiet, AnswerKeeps
<1>7. CASE input.spot \in DOMAIN Here.bar /\ Call(Top, c)
  <2>1. /\ input.spot \in Nat /\ input.spot # 0
        /\ input.spot <= Len(Panel[Top.panel].bar)
    BY <1>2, <1>7, LibraryPanel, LenProperties DEF Here
  <2>2. Panel[Top.panel].bar \in Seq(Seq(STRING)) /\ "pulldown" \in FrameKinds
    BY <1>2, LibraryPanel DEF FrameKinds
  <2> DEFINE base == Frame("pulldown", Top.panel)
  <2>3. /\ base = [fn |-> "pulldown", panel |-> Top.panel, top |-> 0, patch |-> FALSE,
                   error |-> None, pending |-> NoOption, choice |-> 0, rows |-> <<>>, via |-> NoVia]
        /\ c = [base EXCEPT !.choice = input.spot]
    BY DEF c, Frame, NoVia
  <2> HIDE DEF base
  <2>4. base \in Frames
    BY <1>2, <2>2, <2>3, Blanks DEF Frames, Errors
  <2>5. /\ c \in Frames /\ c.fn = "pulldown" /\ c.panel = Top.panel /\ ~c.patch
        /\ c.choice = input.spot /\ c.via = NoVia
    BY <2>1, <2>3, <2>4 DEF Frames
  <2>6. FrameOK(c, refused)
    BY <2>1, <2>5 DEF FrameOK
  <2>7. CalledBy(c, Top) /\ Covers(c, Top)
    BY <1>1, <2>5 DEF CalledBy, Covers, Popups
  <2> QED
    BY <1>1, <1>2, <1>7, <2>5, <2>6, <2>7, CallQuiet, AnswerKeeps
<1> QED
  BY <1>3, <1>4, <1>5, <1>6, <1>7

\* A pull-down: an item's help, or close it and do what the item says.
LEMMA AnswerPulldownKeeps == IInv /\ AnswerPulldown => IInv'
<1> SUFFICES ASSUME IInv, AnswerPulldown PROVE IInv'
  OBVIOUS
<1>1. Answer("pulldown") /\ stack # <<>> /\ Top.fn = "pulldown"
  BY DEF AnswerPulldown, Answer
<1>2. /\ Top.panel \in DOMAIN Panel
      /\ Here.help # None => Here.help \in DOMAIN Panel
      /\ input.spot \in DOMAIN Here.itemHelp => Here.itemHelp[input.spot] \in DOMAIN Panel
  BY <1>1, Running, LibraryPanel DEF Here
<1>3. \/ Return \/ ReturnTwice \/ Loop(Top)
      \/ input.spot \in DOMAIN Here.itemHelp /\ Call(Top, Help(Here.itemHelp[input.spot]))
      \/ /\ Here.help # None
         /\ stack' = Append(Front(stack), Help(Here.help))
         /\ UNCHANGED <<user, presented, refused>>
  BY DEF AnswerPulldown
<1>4. CASE Return \/ Loop(Top)
  BY <1>1, <1>4, ReturnQuiet, GoesOn, AnswerKeeps
<1>5. CASE ReturnTwice
  BY <1>1, <1>5, ReturnTwiceQuiet, AnswerKeeps
<1>6. CASE input.spot \in DOMAIN Here.itemHelp /\ Call(Top, Help(Here.itemHelp[input.spot]))
  BY <1>1, <1>2, <1>6, HelpQuiet, AnswerKeeps
<1>7. CASE /\ Here.help # None
           /\ stack' = Append(Front(stack), Help(Here.help))
           /\ UNCHANGED <<user, presented, refused>>
  <2> DEFINE k == Len(stack) - 1
             t == SubSeq(stack, 1, k)
             c == Help(Here.help)
  <2>1. Len(stack) \in Nat /\ Len(stack) >= 2 /\ StackOK(stack, refused)
    BY <1>1, LastFrame DEF IInv, Top
  <2>2. k \in 1 .. Len(stack) /\ k < Len(stack)
    BY <2>1
  <2>3. StackOK(t, refused) /\ Len(t) = k /\ t[1].fn = stack[1].fn /\ ~Last(t).patch
    BY <2>1, <2>2, CutKeeps
  <2>4. t # <<>>
    <3>1. k # 0 /\ Len(t) = k
      BY <2>2, <2>3
    <3> HIDE DEF t, k
    <3> QED
      BY <3>1
  <2>5. FrameOK(c, refused) /\ ~c.patch /\ CalledBy(c, Last(t)) /\ Covers(c, Last(t))
    BY <1>2, <1>7, HelpFrame, HelpCalled
  <2>6. stack' = Append(t, c) /\ UNCHANGED <<user, presented, refused>>
    BY <1>7 DEF Front
  <2> HIDE DEF t, c
  <2> DEFINE u == Append(t, c)
  <2>7. StackOK(u, refused) /\ u[1].fn = t[1].fn /\ Last(u) = c
    BY <2>3, <2>4, <2>5, PushKeeps
  <2> HIDE DEF u
  <2>8. Quiet
    BY <2>3, <2>5, <2>6, <2>7 DEF Quiet, u
  <2> QED
    BY <1>1, <2>8, AnswerKeeps
<1> QED
  BY <1>3, <1>4, <1>5, <1>6, <1>7

\* The scratch table starts over: no other frame is one.
LEMMA NoTableBelow ==
  ASSUME NEW seen, NEW s, StackOK(s, seen), s # <<>>, Last(s).fn = "dlgtest"
  PROVE  StackOK(s, {})
<1> DEFINE n == Len(s)
<1>1. n \in Nat \ {0} /\ FrameOK(Last(s), seen)
  BY LastFrame
<1>2. ASSUME NEW i \in 1 .. n PROVE s[i].fn # "table"
  <2>1. CASE i = n
    BY <2>1 DEF Last
  <2>2. CASE i # n
    <3>1. n \in 1 .. n /\ i < n
      BY <1>1, <2>2
    <3>2. Covers(s[n], s[i])
      BY <3>1 DEF StackOK
    <3> QED
      BY <3>2 DEF Covers, Popups, Last
  <2> QED
    BY <2>1, <2>2
<1>3. \A i \in 1 .. n : FrameOK(s[i], {})
  BY <1>2 DEF StackOK, FrameOK
<1> QED
  BY <1>3 DEF StackOK

\* Dialog Test: a scratch table of blank rows.
LEMMA AnswerDialogTestKeeps == IInv /\ AnswerDialogTest => IInv'
<1> SUFFICES ASSUME IInv, AnswerDialogTest PROVE IInv'
  OBVIOUS
<1>1. Answer("dlgtest") /\ stack # <<>> /\ Top.fn = "dlgtest"
  BY DEF AnswerDialogTest, Awaited, Answer
<1>2. CASE input.key # "PF5"
  <2>1. Loop(Top)
    BY <1>2 DEF AnswerDialogTest
  <2> QED
    BY <1>1, <2>1, GoesOn, AnswerKeeps
<1>3. CASE input.key = "PF5"
  <2> DEFINE base == Frame("table", "tabtest")
             blank == [n \in 1 .. TableRows |-> BlankRow]
             c == [base EXCEPT !.rows = blank]
  <2>1. base = [fn |-> "table", panel |-> "tabtest", top |-> 0, patch |-> FALSE, error |-> None,
                pending |-> NoOption, choice |-> 0, rows |-> <<>>, via |-> NoVia]
    BY DEF Frame, NoVia
  <2>2. blank \in [1 .. TableRows -> RowKinds] /\ blank \in Scratch
        /\ \A n \in DOMAIN blank : ~blank[n].value
    BY Blanks DEF BlankRow, Scratch
  <2>3. stack' = Append(stack, c) /\ refused' = {} /\ user' = user /\ presented' = presented
    BY <1>3 DEF AnswerDialogTest
  <2> HIDE DEF base, blank
  <2>4. base \in Frames
    BY <2>1, LibraryAssumption, Blanks DEF Frames, FrameKinds, Errors
  <2>5. /\ c \in Frames /\ c.fn = "table" /\ c.panel = "tabtest" /\ ~c.patch
        /\ c.choice = 0 /\ c.rows = blank /\ c.via = NoVia
    BY <2>1, <2>2, <2>4 DEF Frames
  <2> HIDE DEF c
  <2>6. FrameOK(c, {})
    <3>1. c.choice <= Len(Panel[c.panel].bar)
      BY <2>5, LibraryAssumption, LibraryPanel, LenProperties
    <3> QED
      BY <2>2, <2>5, <3>1 DEF FrameOK
  <2>7. CalledBy(c, Top) /\ Covers(c, Top) /\ ~Top.patch
    BY <1>1, <2>5, Running DEF CalledBy, Covers, Popups
  <2>8. StackOK(stack, {})
    BY <1>1, NoTableBelow DEF IInv, Top
  <2> DEFINE u == Append(stack, c)
  <2>9. StackOK(u, {}) /\ u[1].fn = stack[1].fn /\ Last(u) = c
    BY <1>1, <2>6, <2>7, <2>8, PushKeeps DEF Top
  <2> HIDE DEF u
  <2>10. Quiet
    BY <2>3, <2>5, <2>9 DEF Quiet, u
  <2> QED
    BY <1>1, <2>10, AnswerKeeps
<1> QED
  BY <1>2, <1>3

\* What was refused stays refused.
LEMMA RefusedGrows ==
  ASSUME NEW seen, NEW more, seen \subseteq more, NEW s, StackOK(s, seen)
  PROVE  StackOK(s, more)
<1>1. \A i \in 1 .. Len(s) : FrameOK(s[i], more)
  BY DEF StackOK, FrameOK
<1> QED
  BY <1>1 DEF StackOK

\* A row with a value and no key is in the reply's table either because it was
\* in the last one, and was refused then, or because it is refused now.
LEMMA AnswerTableKeeps == IInv /\ AnswerTable => IInv'
<1> SUFFICES ASSUME IInv, AnswerTable PROVE IInv'
  OBVIOUS
<1> DEFINE rows == IF input.table = <<>> THEN Top.rows ELSE input.table
           errors == Refused(rows, Top.rows)
           error == IF errors = {} THEN "read" ELSE "required"
           f == [Top EXCEPT !.rows = rows, !.error = error]
           c == Frame("overlay", HelpPanel(input))
           more == IF errors = {} THEN refused
                   ELSE refused \cup {<<i, rows[i]>> : i \in errors}
<1>1. Answer("table") /\ stack # <<>> /\ Top.fn = "table"
  BY DEF AnswerTable, Answer
<1>2. FrameOK(Top, refused) /\ Top \in Frames /\ ~Top.patch /\ input.table \in Scratch
  BY <1>1, Running DEF Replies
<1>3. \/ Return \/ Loop(Top)
      \/ HelpPanel(input) # None /\ Call(Top, c)
      \/ /\ stack' = [stack EXCEPT ![Len(stack)] = [@ EXCEPT !.rows = rows, !.error = error]]
         /\ refused' = more
         /\ UNCHANGED <<user, presented>>
  BY DEF AnswerTable
<1>4. CASE Return \/ Loop(Top)
  BY <1>1, <1>4, ReturnQuiet, GoesOn, AnswerKeeps
<1>5. CASE HelpPanel(input) # None /\ Call(Top, c)
  <2>1. HelpPanel(input) \in DOMAIN Panel
    BY <1>1, <1>5, HelpNamed
  <2>2. FrameOK(c, refused) /\ c.fn = "overlay" /\ c.via = NoVia /\ ~c.patch
    <3>1. "overlay" \in FrameKinds \ {"pulldown", "table"}
      BY DEF FrameKinds, HandlerKinds
    <3> QED
      BY <2>1, <3>1, NewFrame
  <2> HIDE DEF c
  <2>3. CalledBy(c, Top) /\ Covers(c, Top)
    BY <2>2 DEF CalledBy, Covers, Popups
  <2> QED
    BY <1>1, <1>2, <1>5, <2>2, <2>3, CallQuiet, AnswerKeeps
<1>6. CASE /\ stack' = [stack EXCEPT ![Len(stack)] = [@ EXCEPT !.rows = rows, !.error = error]]
           /\ refused' = more
           /\ UNCHANGED <<user, presented>>
  <2>1. rows \in [1 .. TableRows -> RowKinds] /\ rows \in Scratch
        /\ Top.rows \in [1 .. TableRows -> RowKinds] /\ error \in Errors
    BY <1>1, <1>2 DEF FrameOK, Scratch, Errors
  <2>2. refused \subseteq more /\ \A i \in errors : <<i, rows[i]>> \in more
    OBVIOUS
  <2> HIDE DEF more
  <2>3. ASSUME NEW n \in DOMAIN rows, rows[n].value, ~rows[n].key PROVE <<n, rows[n]>> \in more
    <3>1. n \in 1 .. TableRows /\ n \in DOMAIN Top.rows
      BY <2>1
    <3>2. CASE rows[n] = Top.rows[n]
      <4>1. <<n, Top.rows[n]>> \in refused
        BY <1>1, <1>2, <2>3, <3>1, <3>2 DEF FrameOK
      <4> QED
        BY <2>2, <3>2, <4>1
    <3>3. CASE rows[n] # Top.rows[n]
      BY <2>2, <2>3, <3>3 DEF Refused
    <3> QED
      BY <3>2, <3>3
  <2> HIDE DEF rows, errors, error
  <2>4. /\ f \in Frames /\ f.fn = Top.fn /\ f.panel = Top.panel /\ f.via = Top.via
        /\ f.patch = Top.patch /\ f.choice = Top.choice /\ f.rows = rows
    BY <1>2, <2>1 DEF Frames
  <2>5. FrameOK(f, more)
    BY <1>1, <1>2, <2>1, <2>3, <2>4 DEF FrameOK
  <2>6. StackOK(stack, more)
    BY <2>2, RefusedGrows DEF IInv
  <2> DEFINE t == [stack EXCEPT ![Len(stack)] = f]
  <2>7. stack' = t
    <3>1. Len(stack) \in 1 .. Len(stack) /\ stack \in Seq(Frames)
      BY <1>1, LastFrame DEF IInv, StackOK
    <3> QED
      BY <1>6, <3>1 DEF Top, Last
  <2> HIDE DEF f
  <2>8. StackOK(t, more) /\ t[1].fn = stack[1].fn /\ Last(t) = f
    BY <1>1, <2>4, <2>5, <2>6, LoopKeeps DEF Top
  <2> HIDE DEF t
  <2>9. Quiet
    BY <1>2, <1>6, <2>4, <2>7, <2>8 DEF Quiet
  <2> QED
    BY <1>1, <2>9, AnswerKeeps
<1> QED
  BY <1>3, <1>4, <1>5, <1>6

-----------------------------------------------------------------------------
(* The theorems.                                                           *)

\* The logon alone, nothing on the terminal.
LEMMA InitIInv == Init => IInv
<1> SUFFICES ASSUME Init PROVE IInv
  OBVIOUS
<1> DEFINE f == Frame("logon", "logon")
<1>1. FrameOK(f, refused) /\ f.fn = "logon" /\ ~f.patch
  <2>1. "logon" \in FrameKinds \ {"pulldown", "table"}
    BY DEF FrameKinds
  <2> QED
    BY <2>1, LibraryAssumption, NewFrame
<1> HIDE DEF f
<1>2. stack = <<f>> /\ StackOK(stack, refused) /\ Top = f /\ stack[1] = f
  BY <1>1, ShortStacks DEF Init, f, Top, Last
<1>3. NoReply \in Replies
  BY Blanks DEF NoReply, Reply, Replies, Nowhere, None
<1> QED
  BY <1>1, <1>2, <1>3 DEF Init, IInv, UserInv, ShownInv, ReadInv

\* Every step keeps the invariant.
LEMMA NextIInv == IInv /\ [Next]_vars => IInv'
<1> SUFFICES ASSUME IInv, [Next]_vars PROVE IInv'
  OBVIOUS
<1>1. CASE Display
  BY <1>1, DisplayKeeps
<1>2. CASE Disconnected
  BY <1>2, DisconnectedKeeps
<1>3. CASE AnswerLogon
  BY <1>3, AnswerLogonKeeps
<1>4. CASE AnswerMenu
  BY <1>4, AnswerMenuKeeps
<1>5. CASE LeaveOrHelp
  BY <1>5, LeaveOrHelpKeeps
<1>6. CASE AnswerSubmenu \/ Jump
  BY <1>6, SubmenuKeeps
<1>7. CASE AnswerView \/ AnswerShell \/ AnswerList \/ AnswerBrowse \/ AnswerHelp
  BY <1>7, PanelLoopsKeep
<1>8. CASE AnswerDialogTest
  BY <1>8, AnswerDialogTestKeeps
<1>9. CASE AnswerOverlay
  BY <1>9, AnswerOverlayKeeps
<1>10. CASE AnswerPulldown
  BY <1>10, AnswerPulldownKeeps
<1>11. CASE AnswerTable
  BY <1>11, AnswerTableKeeps
<1>12. CASE Send \/ SysreqLogoff \/ HangUp \/ SendFails
  BY <1>12, ClientKeeps
<1>13. CASE UNCHANGED vars
  <2>1. ShownInv' /\ UserInv' /\ ReadInv'
    BY <1>13 DEF vars, IInv, ShownInv, RepliesToShown, UserInv, ReadInv, Top, Extent
  <2> QED
    BY <1>13, <2>1 DEF vars, IInv
<1> QED
  BY <1>1, <1>2, <1>3, <1>4, <1>5, <1>6, <1>7, <1>8, <1>9, <1>10, <1>11, <1>12, <1>13
     DEF Next, Serve

\* The invariant holds in every state: the stack of loops is one the program
\* can build, and user, terminal and reply agree with it (session.py:897-1055).
THEOREM Invariant == Spec => []IInv
  BY InitIInv, NextIInv, PTL DEF Spec

\* Types, and every loop displays lines that its panel, member or list has,
\* however far the user pages (session.py:348, 419, 616).
THEOREM AppTyped == Spec => []TypeOK
<1>1. IInv => TypeOK
  <2> SUFFICES ASSUME IInv PROVE TypeOK
    OBVIOUS
  <2>1. DOMAIN stack = 1 .. Len(stack) /\ Len(stack) \in Nat
    BY LenProperties DEF IInv, StackOK
  <2>2. ASSUME NEW i \in DOMAIN stack
        PROVE  /\ stack[i].fn \in FrameKinds
               /\ stack[i].panel \in DOMAIN Panel
               /\ stack[i].choice \in 0 .. Len(Panel[stack[i].panel].bar)
               /\ stack[i].fn = "pulldown" => stack[i].choice # 0 /\ stack[i - 1].fn = "overlay"
    <3> DEFINE f == stack[i]
    <3>1. FrameOK(f, refused) /\ f \in Frames
      BY <2>1 DEF IInv, StackOK, FrameOK
    <3>2. f.fn \in FrameKinds /\ f.panel \in DOMAIN Panel /\ f.choice \in Nat
      BY <3>1 DEF Frames
    <3>3. Len(Panel[f.panel].bar) \in Nat
      BY <3>2, LibraryPanel, LenProperties
    <3>4. f.choice \in 0 .. Len(Panel[f.panel].bar)
      BY <3>1, <3>2, <3>3 DEF FrameOK
    <3>5. f.fn = "pulldown" => f.choice # 0 /\ stack[i - 1].fn = "overlay"
      <4> HAVE f.fn = "pulldown"
      <4>1. i # 1
        BY <2>1 DEF IInv, StackOK
      <4>2. i \in 2 .. Len(stack)
        BY <2>1, <4>1
      <4>3. CalledBy(f, stack[i - 1])
        BY <4>2 DEF IInv, StackOK
      <4> QED
        BY <3>1, <4>3 DEF FrameOK, CalledBy
    <3> QED
      BY <3>2, <3>4, <3>5
  <2> QED
    BY <2>2 DEF TypeOK, FrameKinds, IInv, UserInv, ReadInv
<1> QED
  BY Invariant, <1>1, PTL

\* No screen but the logon's own is served to a user who was not accepted:
\* whatever he types and however deep the stack is (session.py:946-969).
THEOREM OnlyLoggedOn == Spec => []LoggedOn
<1>1. IInv => LoggedOn
  <2> SUFFICES ASSUME IInv, stack # <<>>, stack[1].fn # "menu",
                      NEW i \in 2 .. Len(stack)
               PROVE  stack[i].fn \in Popups
    BY DEF LoggedOn, IInv, UserInv, Popups
  <2>1. Len(stack) \in Nat
    BY LastFrame DEF IInv
  <2>2. 1 \in 1 .. Len(stack) /\ i \in 1 .. Len(stack) /\ 1 < i
    BY <2>1
  <2>3. stack[1].fn = "logon" /\ Covers(stack[i], stack[1])
    BY <2>2 DEF IInv, StackOK
  <2> QED
    BY <2>3 DEF Covers
<1> QED
  BY Invariant, <1>1, PTL

\* A handler runs only through an option that the panel under it shows, by
\* whatever way it was chosen (session.py:566, 1028).
THEOREM VisibleOnly == Spec => []OnlyVisible
<1>1. IInv => OnlyVisible
  <2> SUFFICES ASSUME IInv, NEW i \in 2 .. Len(stack)
               PROVE  LET f == stack[i] IN
                      /\ f.via # NoVia =>
                           /\ f.via[1] = stack[i - 1].panel
                           /\ f.via[2] \in Panel[f.via[1]].selections
                           /\ Panel[f.via[1]].targets[f.via[2]] = [fn |-> f.fn, panel |-> f.panel]
                      /\ f.fn \in {"view", "shell", "dlgtest", "list", "submenu"} => f.via # NoVia
    BY DEF OnlyVisible, NoVia
  <2>1. CalledBy(stack[i], stack[i - 1])
    BY DEF IInv, StackOK
  <2> QED
    BY <2>1 DEF CalledBy
<1> QED
  BY Invariant, <1>1, PTL

\* A reply is read against the panel that is on the terminal, or against the
\* screen the user has cleared (session.py:983-995, 1053-1055).
THEOREM RepliesAlwaysToShown == Spec => []RepliesToShown
<1>1. IInv => RepliesToShown
  <2>1. ~reading => RepliesToShown
    BY DEF RepliesToShown
  <2>2. IInv /\ reading => RepliesToShown
    BY DEF IInv, ShownInv
  <2> QED
    BY <2>1, <2>2
<1> QED
  BY Invariant, <1>1, PTL

\* A row without its required key is taken only after it was refused
\* (session.py:515), over a table of any size.
THEOREM RefusedBeforeRead == Spec => []RefusedFirst
<1>1. IInv => RefusedFirst
  <2> SUFFICES ASSUME IInv, NEW i \in DOMAIN stack, stack[i].fn = "table",
                      NEW n \in DOMAIN stack[i].rows, stack[i].rows[n].value, ~stack[i].rows[n].key
               PROVE  <<n, stack[i].rows[n]>> \in refused
    BY DEF RefusedFirst
  <2>1. DOMAIN stack = 1 .. Len(stack)
    BY LenProperties DEF IInv, StackOK
  <2>2. FrameOK(stack[i], refused)
    BY <2>1 DEF IInv, StackOK
  <2> QED
    BY <2>2 DEF FrameOK
<1> QED
  BY Invariant, <1>1, PTL
=============================================================================
