----------------------------- MODULE PanelSource -----------------------------
(***************************************************************************)
(* The panel compiler (src/dtl.py): a parser fed with start tags, text and *)
(* end tags, most of which an author leaves out, that lays the panel out   *)
(* in nested flow boxes and records which options it offers.               *)
(*                                                                         *)
(* A text is a sequence of words, each with an identity, so that what      *)
(* becomes of it can be followed.  The action bar, lists with data, group  *)
(* boxes, figures, choice grids, variables and messages are left out.      *)
(***************************************************************************)
EXTENDS Integers, Sequences, FiniteSets, SequencesExt

CONSTANTS
  Documents,      \* kinds of documents: the <panel> tag, the start tags and
                  \* texts (sequences of word lengths) they use, the bound on tags
  Variables,      \* the dialog variables, with their values
  Width, Depth    \* the panel's size

ASSUME SizeAssumption == Width \in Nat \ {0} /\ Depth \in Nat \ {0}

VARIABLES
  document,   \* the kind of document
  p,          \* the parser
  tags,       \* how many tags it was fed
  said,       \* the identities of the words it was fed
  spoke,      \* was the last event a text?
  ended       \* has close() run?

vars == <<document, p, tags, said, spoke, ended>>

panel == document.panel

HGap == 2
ListIndent == 4
FieldGap == 1
None == -1
NoTag == [tag |-> "none"]

Containers == {"area", "region", "dtacol"}
Lists == {"ul", "sl"}
Instructions == {"topinst", "pnlinst", "botinst"}
Infos == {"info", "p"} \cup Instructions
TextTags == Infos \cup {"li", "nt"}
FieldTags == {"dtafld", "cmdarea"}
Content == TextTags \cup FieldTags \cup {"choice", "chdiv"}
Directives == {"comment", "source"}

\* What a document may use; a text is given by the sizes of its words.
Elements ==
  Containers \cup Lists \cup Content \cup Directives
  \cup {"divider", "selfld", "hp", "ps", "chofld", "dtafldd"}

ASSUME DocumentAssumption ==
  \A d \in Documents : d.texts \subseteq Seq(Nat) /\ \A e \in d.tags : e.tag \in Elements

\* The elements whose emitter takes the runs of an inline phrase.
TakesRuns == Infos \cup {"li", "divider"}

Most(a, b) == IF a >= b THEN a ELSE b
Least(a, b) == IF a <= b THEN a ELSE b

----------------------------------------------------------------------------
(* Words and lines *)

LineLen(words) ==
  IF words = <<>> THEN 0 ELSE FoldLeft(LAMBDA n, w : n + w.size, Len(words) - 1, words)

\* _wrap: greedy, and a word longer than the line has a line of its own.
Taken(lines, w, width) ==
  LET line == Last(lines)
  IN IF line = <<>> \/ LineLen(line) + 1 + w.size <= width
     THEN [lines EXCEPT ![Len(lines)] = Append(line, w)] ELSE Append(lines, <<w>>)
Wrap(words, width) ==
  LET lines[n \in 0 .. Len(words)] ==
        IF n = 0 THEN << <<>> >> ELSE Taken(lines[n - 1], words[n], width)
  IN lines[Len(words)]

Ids(words) == {words[i].id : i \in DOMAIN words}

\* What is drawn at a place: length cells of data after the attribute, and the
\* number a choice is picked by.
Item(kind, row, col, length, words) ==
  [kind |-> kind, row |-> row, col |-> col, length |-> length, words |-> Ids(words), num |-> None]
TextAt(row, col, words) == Item("text", row, col, LineLen(words), words)

Add(s, item) == [s EXCEPT !.items = Append(@, item)]

\* A text cut to its room shows the words that fit in whole, and loses the rest.
Inside(words, room) ==
  {words[i].id : i \in {j \in DOMAIN words : LineLen(SubSeq(words, 1, j)) <= room}}
CutAt(row, col, words, room) ==
  [Item("text", row, col, Least(LineLen(words), room), <<>>) EXCEPT !.words = Inside(words, room)]
AddCut(s, row, col, words, room) ==
  [Add(s, CutAt(row, col, words, room)) EXCEPT !.dropped = @ \cup (Ids(words) \ Inside(words, room))]
AddLines(s, row, col, lines) ==
  [s EXCEPT !.items = @ \o [i \in DOMAIN lines |-> TextAt(row + i - 1, col, lines[i])]]

----------------------------------------------------------------------------
(* Flow boxes *)

Box(s) == Last(s.boxes)
SetBox(s, box) == [s EXCEPT !.boxes[Len(s.boxes)] = box]
SetRow(s, row) == SetBox(s, [Box(s) EXCEPT !.row = row])

UsableRows == Depth - panel.bmargin

FlowCol(s) == (IF s.hang # None THEN s.hang ELSE Box(s).col) + s.infoIndent

\* What hangs under a note does not follow the columns of a horizontal box.
HangsAcross(s) == s.hang # None /\ Box(s).dir = "horiz"

\* _resolve_pos: the next row of the box, held back from the panel's edges.
Place(s) ==
  [row |-> IF Box(s).row >= UsableRows THEN UsableRows - 1 ELSE Box(s).row,
   col |-> IF FlowCol(s) >= Width THEN Most(0, Width - 2) ELSE FlowCol(s)]
Placed(s) ==
  [SetBox(s, [Box(s) EXCEPT !.row = @ + 1, !.had = TRUE])
   EXCEPT !.strained = @ \/ Box(s).row >= UsableRows \/ FlowCol(s) >= Width \/ HangsAcross(s)]

RowOccupied(s, row) == \E i \in DOMAIN s.items : s.items[i].row = row

\* _skip_blank_before: a blank line before a block that follows content.
SkipBlankBefore(s, e) ==
  IF /\ ~e.compact /\ Box(s).had
     /\ Box(s).row >= 1 /\ Box(s).row + 1 < Depth /\ RowOccupied(s, Box(s).row - 1)
  THEN SetRow(s, Box(s).row + 1) ELSE s

\* _box_extent: below and right of the items since one; <<None, None>> if none.
Extent(s, start) ==
  LET since == {i \in DOMAIN s.items : i > start}
      Furthest(f(_)) == CHOOSE x \in {f(i) : i \in since} : \A i \in since : f(i) <= x
  IN IF since = {} THEN <<None, None>>
     ELSE << Furthest(LAMBDA i : s.items[i].row + 1),
             Furthest(LAMBDA i : s.items[i].col + s.items[i].length) >>

\* Faulty: the next sibling starts where this one does.
FlowHorizStays(s, start) ==
  LET bottom == Extent(s, start)[1]
  IN SetBox(s, [Box(s) EXCEPT
       !.maxbottom = IF bottom = None THEN @ ELSE Most(@, bottom), !.row = Box(s).row0])

\* _flow_horiz: the next sibling starts to the right, on the box's first row.
FlowHoriz(s, start) ==
  LET extent == Extent(s, start)
  IN SetBox(s, [Box(s) EXCEPT
       !.col = IF extent[2] = None THEN @ ELSE extent[2] + HGap,
       !.maxbottom = IF extent[1] = None THEN @ ELSE Most(@, extent[1]),
       !.row = Box(s).row0])

\* _emit_flow_lines: wrapped to the panel, the flow goes on below.
FlowLines(s, words, row, col) ==
  LET lines == Wrap(words, Most(1, Width - (col + 1)))
  IN SetRow(AddLines(s, row, col, lines), row + Len(lines))

BlankAfter(s) == SetRow(s, Box(s).row + 1)

----------------------------------------------------------------------------
(* Emitting the open element *)

\* A phrase among other text makes a line of several runs.
Mixed(s) == s.marks \ {0, Len(s.chars)} # {}

\* _emit_info.  An instruction at the foot, and a blank line after one at the
\* top whose text is one run.
InfoAt(s, row, col, e, words) ==
  LET lines == Wrap(words, Most(1, Width - col - 1))
      foot == Most(row, Depth - 1 - Len(lines))
  IN CASE e.tag = "botinst" -> SetRow(AddLines(s, foot, col, lines), foot + Len(lines))
       [] e.tag = "topinst" /\ ~e.compact /\ ~Mixed(s) -> BlankAfter(FlowLines(s, words, row, col))
       [] OTHER -> FlowLines(s, words, row, col)
SpacedInfo(s, e, words) ==
  InfoAt(Placed(s), Place(s).row,
         Place(s).col + Len(s.lists) * ListIndent + (IF e.tag = "p" THEN e.indent ELSE 0), e, words)
EmitInfo(s, e, words) ==
  IF words = <<>> THEN s
  ELSE SpacedInfo(IF e.tag \in {"p", "pnlinst"} THEN SkipBlankBefore(s, e) ELSE s, e, words)

\* _emit_listitem: not held back from the foot of the panel.
EmitListItem(s, words) ==
  IF words = <<>> THEN s
  ELSE LET bullet == FlowCol(s) + (Most(Len(s.lists), 1) - 1) * ListIndent + Last(s.lists).indent
           crossed == [s EXCEPT !.strained = @ \/ HangsAcross(s)]
           marked == IF Last(s.lists).tag = "sl" THEN crossed
                     ELSE Add(crossed, Item("mark", Box(s).row, bullet, Least(Most(1, Len(s.lists) - 1), 3), <<>>))
       IN FlowLines(marked, words, Box(s).row, bullet + ListIndent)

\* _emit_note of an <nt>: a heading, and a body that hangs under its text.
NoteHead == 5
NoteAt(s, row, col, words) ==
  LET body == col + NoteHead + 1
      lines == IF words = <<>> THEN <<>> ELSE Wrap(words, Most(1, Width - body - 1))
  IN [SetRow(AddLines(Add(s, Item("mark", row, col, NoteHead, <<>>)), row, body, lines),
             row + Most(Len(lines), 1))
      EXCEPT !.hang = body]
SpacedNote(s, e, words) ==
  NoteAt(Placed(s), Place(s).row, Place(s).col + Len(s.lists) * ListIndent + e.indent, words)
EmitNote(s, e, words) == SpacedNote(SkipBlankBefore(s, e), e, words)

\* _emit_divider: a rule, or its text, where the tag was.
EmitDivider(s, e, words) ==
  CASE e.type = "text" /\ words # <<>> -> AddCut(s, e.row, e.col, words, e.span)
    [] e.type = "text" /\ words = <<>> -> s
    [] OTHER -> [Add(s, Item("rule", e.row, e.col, e.span, <<>>)) EXCEPT !.dropped = @ \cup Ids(words)]

\* _add_field: a prompt beside or above its entry, and a description after it.
FieldAt(s, at, e, prompt, description) ==
  LET above == e.above \/ (~e.above /\ Box(s).above)
      padded == IF ~above /\ prompt # <<>> /\ Box(s).pmtwidth > LineLen(prompt)
                THEN Box(s).pmtwidth ELSE LineLen(prompt)
      row == IF above /\ prompt # <<>> THEN at.row + 1 ELSE at.row
      col == CASE above -> at.col
               [] ~above /\ Box(s).pmtwidth > 0 -> at.col + Box(s).pmtwidth + 1
               [] OTHER -> at.col + LineLen(prompt) + FieldGap
      wide == col + e.entwidth > Width
      length == IF wide THEN (IF col >= Width THEN 1 ELSE Most(1, Width - col - 1)) ELSE e.entwidth
      fldcol == IF wide /\ col >= Width THEN Most(at.col, Width - 2) ELSE col
      placed == LET q == Placed(s) IN IF row > at.row THEN SetRow(q, Box(q).row + 1) ELSE q
      prompted == IF prompt = <<>> THEN placed
                  ELSE Add(placed, Item("text", at.row, at.col, padded, prompt))
      room == Width - (fldcol + length + 2)
      told == CASE description = <<>> -> prompted
                [] description # <<>> /\ room <= 0 -> [prompted EXCEPT !.dropped = @ \cup Ids(description)]
                [] OTHER -> AddCut(prompted, row, fldcol + length + 2, description, room)
  IN [Add(told, Item("field", row, fldcol, length, <<>>)) EXCEPT
        !.strained = @ \/ wide \/ (~above /\ padded > Box(s).pmtwidth /\ Box(s).pmtwidth > 0)]
EmitField(s, e, prompt, description) == FieldAt(s, Place(s), e, prompt, description)

----------------------------------------------------------------------------
(* Selection fields *)

\* Truthiness of a condition: a bare one is true, a variable's value counts,
\* and a literal is false when it says so.
Truthy(value) ==
  CASE value = "" -> TRUE
    [] value # "" /\ value \in DOMAIN Variables -> Variables[value] \notin {"", "0"}
    [] OTHER -> value \notin {"0", "no", "off", "false"}

\* HIDE hides when its condition is true, HIDEX when it is false.
Hidden(e) == ("hide" \in DOMAIN e.when /\ Truthy(e.when["hide"]))
             \/ ("hidex" \in DOMAIN e.when /\ ~Truthy(e.when["hidex"]))

\* _emit_selfld_prompt: once, above the choices or to their left.
EmitPrompt(s) ==
  LET sf == s.sf
      before == sf.pmtbefore
      width == IF before THEN (IF sf.pmtwidth > 0 THEN sf.pmtwidth ELSE LineLen(sf.prompt) + 1)
               ELSE IF sf.pmtwidth > 0 THEN sf.pmtwidth ELSE Width - sf.origin - 1
      lines == Wrap(sf.prompt, Most(1, width))
      shift == Most(0, sf.origin + width - sf.numcol)
  IN CASE sf.prompted -> s
       [] ~sf.prompted /\ sf.prompt = <<>> -> [s EXCEPT !.sf.prompted = TRUE]
       [] OTHER ->
            [AddLines(s, sf.row, sf.origin, lines) EXCEPT
               !.sf = IF before
                      THEN [sf EXCEPT !.prompted = TRUE, !.beside = sf.row + Len(lines), !.numcol = @ + shift, !.textcol = @ + shift]
                      ELSE [sf EXCEPT !.prompted = TRUE, !.row = @ + Len(lines)]]

Digits(n) == IF n > 9 THEN 2 ELSE 1

\* _emit_chofld: an entry after the choice's text, its description below.
WithEntry(s, e, row, col, description) ==
  LET wide == col + e.entwidth + 1 >= Width
      length == IF wide THEN Most(1, Width - col - 2) ELSE e.entwidth
      added == [Add(s, Item("field", row, col, length, <<>>)) EXCEPT !.strained = @ \/ wide]
  IN IF description = <<>> THEN added
     ELSE Add(added, TextAt(row + 1, s.sf.textcol, description))

\* Faulty: an unavailable choice is recorded like any other.
OffersUnavailable(s, e, num, row) ==
  IF num = None THEN s
  ELSE [s EXCEPT !.selections = @ \cup {num}, !.selectionRows = @ \cup {<<row, num>>}]

\* Faulty: the row is recorded after the flow moved on from it.
OffersNextRow(s, e, num, row) ==
  IF num = None \/ e.unavail THEN s
  ELSE [s EXCEPT !.selections = @ \cup {num},
                 !.selectionRows = IF s.sf.multi THEN @
                                   ELSE {x \in @ : x[1] # s.sf.row} \cup {<<s.sf.row, num>>}]

\* What a choice that can be picked leaves behind: its value, and its row.
Offers(s, e, num, row) ==
  IF num = None \/ e.unavail THEN s
  ELSE [s EXCEPT !.selections = @ \cup {num},
                 !.selectionRows = IF s.sf.multi THEN @
                                   ELSE {x \in @ : x[1] # row} \cup {<<row, num>>}]

\* The first numbered choice of a single field decides that it has one entry.
Arranged(sf, e) ==
  IF sf.auto \/ sf.count > 0 \/ ~sf.single \/ e.selchar # None THEN sf
  ELSE [sf EXCEPT !.auto = TRUE, !.numcol = sf.origin + 4, !.textcol = sf.origin + 8]

Number(sf, e) ==
  CASE e.selchar # None -> e.selchar
    [] e.selchar = None /\ sf.multi -> None
    [] OTHER -> sf.count + sf.fchoice

\* A field to mark, or a number, after the one entry of a single field.
Marks(sf, e) ==
  CASE sf.multi /\ ~e.unavail ->
         <<[Item("field", sf.row, sf.numcol, 1, <<>>) EXCEPT !.num = Number(sf, e)]>>
    [] OTHER ->
         (IF sf.auto /\ sf.count = 0 THEN <<Item("field", sf.row, sf.origin - 1, 2, <<>>)>> ELSE <<>>)
         \o <<[Item("mark", sf.row, sf.numcol, IF sf.auto THEN Digits(Number(sf, e)) + 1 ELSE 2, <<>>)
               EXCEPT !.num = Number(sf, e)]>>

\* The choice is counted, and the next one comes below.
Counted(s, e, words, extra) ==
  LET sf == s.sf
  IN [s EXCEPT
        !.sf = [sf EXCEPT !.row = @ + 1 + extra, !.count = @ + 1,
                          !.row0 = IF @ = None THEN sf.row ELSE @],
        !.strained = @ \/ sf.textcol + LineLen(words) >= Width \/ (sf.auto /\ sf.beside > 0),
        !.choices = @ \cup {[num |-> Number(sf, e), row |-> sf.row, words |-> Ids(words),
                             unavail |-> e.unavail, multi |-> sf.multi]}]

DrawChoice(s, e, entry, words, description) ==
  LET sf == s.sf
      shown == [s EXCEPT !.items = @ \o Marks(sf, e) \o <<TextAt(sf.row, sf.textcol, words)>>]
      full == IF entry = NoTag THEN shown
              ELSE WithEntry(shown, entry, sf.row, sf.textcol + LineLen(words) + 1, description)
  IN Offers(Counted(full, e, words, IF description = <<>> THEN 0 ELSE 1), e, Number(sf, e), sf.row)

\* _emit_choice: after the prompt, unless it is hidden.
ChoiceOf(s, e, entry, words, description) ==
  IF Hidden(e) THEN [s EXCEPT !.dropped = @ \cup Ids(words \o description)]
  ELSE DrawChoice([s EXCEPT !.sf = Arranged(@, e)], e, entry, words, description)
EmitChoice(s, e, after) ==
  LET words == IF s.entry = NoTag THEN after ELSE s.entryText
      led == IF ~s.sf.prompted /\ s.sf.prompt # <<>> THEN Ids(words) ELSE {}
  IN ChoiceOf([EmitPrompt(s) EXCEPT !.entry = NoTag, !.entryText = <<>>, !.led = @ \cup led],
              e, s.entry, words, IF s.entry = NoTag THEN <<>> ELSE after)

\* _emit_chdiv: a rule, a text or a blank row among the choices.
ChdivOf(s, e, words) ==
  LET start == IF s.sf.auto THEN s.sf.origin - 1 ELSE s.sf.numcol
      drawn == CASE e.type = "dash" ->
                      [Add(s, Item("rule", s.sf.row, start, Most(1, Width - start - 1), <<>>))
                       EXCEPT !.dropped = @ \cup Ids(words)]
                 [] e.type # "dash" /\ words # <<>> ->
                      AddCut(s, s.sf.row, start, words, Most(1, Width - start - 1))
                 [] OTHER -> s
  IN [drawn EXCEPT !.sf.row = s.sf.row + 1]
EmitChdiv(s, e, words) == ChdivOf(EmitPrompt(s), e, words)

----------------------------------------------------------------------------
(* The events *)

\* The text of the open element: one that takes no runs has lost it.
Captured(s) == IF s.phrased /\ s.tag.tag \notin TakesRuns THEN <<>> ELSE s.chars

Emitted(s) ==
  LET e == s.tag
      words == IF s.described THEN s.description ELSE Captured(s)
  IN CASE e.tag \in Infos -> EmitInfo(s, e, words)
       [] e.tag = "li" -> EmitListItem(s, words)
       [] e.tag = "nt" -> EmitNote(s, e, words)
       [] e.tag = "divider" -> EmitDivider(s, e, words)
       [] e.tag = "dtafld" ->
            IF s.described /\ s.chars # <<>> THEN EmitField(s, e, s.chars, s.description)
            ELSE EmitField(s, e, words, <<>>)
       [] e.tag = "cmdarea" ->
            [EmitField(SkipBlankBefore(s, e), e, words, <<>>)
             EXCEPT !.dropped = @ \cup (IF s.described THEN Ids(s.chars) ELSE {})]
       [] e.tag = "choice" -> EmitChoice(s, e, words)
       [] e.tag = "chdiv" -> EmitChdiv(s, e, words)

\* A point-and-shoot phrase belongs to the first row its element drew.
Pointed(s, start, phrase) ==
  LET rows == {s.items[i].row : i \in {j \in DOMAIN s.items : j > start}}
      first == CHOOSE r \in rows : \A q \in rows : r <= q
  IN IF ~s.pointed THEN s
     ELSE [s EXCEPT !.pointed = FALSE,
                    !.psRows = IF rows = {} THEN @ ELSE {x \in @ : x[1] # first} \cup {<<first, phrase>>}]

\* Faulty: the captured text stays for the next element.
EmitCurrentKeepsText(s) ==
  IF s.tag = NoTag THEN s
  ELSE [Emitted(s) EXCEPT !.tag = NoTag, !.phrased = FALSE, !.phrase = FALSE, !.marks = {},
          !.described = FALSE, !.describing = FALSE, !.description = <<>>, !.pointed = FALSE]

\* The capture state is reset, whatever the element was.
Released(s) ==
  [s EXCEPT !.lost = IF Captured(s) = s.chars THEN @ ELSE @ \cup Ids(s.chars),
            !.tag = NoTag, !.chars = <<>>, !.phrased = FALSE, !.phrase = FALSE, !.marks = {},
            !.described = FALSE, !.describing = FALSE, !.description = <<>>]
Flowed(s, horiz, start) == IF horiz THEN FlowHoriz(s, start) ELSE s

\* _emit_current: what an end tag, or the next block tag, does with the element.
EmitCurrent(s) ==
  IF s.tag = NoTag THEN s
  ELSE Released(Pointed(Flowed(Emitted(s), Box(s).dir = "horiz" /\ s.sf = NoTag, Len(s.items)),
                        Len(s.items), Ids(IF s.entry = NoTag THEN s.chars ELSE s.entryText)))

\* _finalize_panel_title: centred, and the body starts below it.
FinishTitle(s) ==
  LET row == panel.tmargin
      titled == Add(s, TextAt(row, Most(0, (Width - LineLen(s.title)) \div 2), s.title))
  IN CASE ~s.titling -> s
       [] s.titling /\ s.title = <<>> -> [s EXCEPT !.titling = FALSE]
       [] s.titling /\ s.title # <<>> /\ ~panel.titline ->
            [s EXCEPT !.titling = FALSE, !.dropped = @ \cup Ids(s.title)]
       [] OTHER -> [SetBox(titled, [Box(s) EXCEPT !.row = Most(@, row + 1), !.had = TRUE])
                    EXCEPT !.titling = FALSE]

\* _start_area and _start_dtacol: a box that goes on where its parent is.
OpenBox(s, e) ==
  LET parent == Box(s)
      row == parent.row + e.margind
  IN [s EXCEPT !.boxes = Append(@,
        [tag |-> e.tag, row |-> row, row0 |-> row, maxbottom |-> row, col |-> parent.col + e.indent,
         dir |-> e.dir, start |-> Len(s.items), width |-> e.width, depth |-> e.depth,
         extend |-> e.extend, div |-> e.div, margind |-> e.margind,
         pmtwidth |-> IF e.tag = "dtacol" THEN (IF e.pmtwidth > 0 THEN e.pmtwidth ELSE parent.pmtwidth) ELSE 0,
         above |-> IF e.tag = "dtacol" THEN e.above \/ parent.above ELSE FALSE,
         had |-> e.tag # "dtacol" /\ parent.had])]

\* _start_divider: a gutter between columns, a blank row, or a rule to come.
OpenDivider(s, e) ==
  CASE Box(s).dir = "horiz" -> SetBox(s, [Box(s) EXCEPT !.col = @ + HGap])
    [] Box(s).dir # "horiz" /\ e.type = "blank" -> SetRow(s, Box(s).row + 1)
    [] OTHER ->
         [SetRow(s, Box(s).row + 1) EXCEPT
            !.tag = [tag |-> "divider", type |-> e.type, row |-> Box(s).row, col |-> Box(s).col,
                     span |-> IF Box(s).width > 0 THEN Box(s).width ELSE Most(1, Width - Box(s).col - 1)],
            !.chars = <<>>]

SelfldAt(s, e, origin) ==
     [SetBox(s, [Box(s) EXCEPT !.had = TRUE]) EXCEPT !.sf =
        [tag |-> "selfld", row |-> Box(s).row, origin |-> origin, numcol |-> origin,
         textcol |-> origin + 3, start |-> Len(s.items), multi |-> e.type = "multi",
         single |-> e.type = "single", auto |-> FALSE, count |-> 0, fchoice |-> e.fchoice,
         pmtbefore |-> e.pmtbefore, pmtwidth |-> e.pmtwidth, prompt |-> <<>>, prompted |-> FALSE,
         beside |-> 0, row0 |-> None, depth |-> e.depth, extend |-> e.extend]]
OpenSelfld(s, e) == SelfldAt(SkipBlankBefore(s, e), e, Box(s).col)

\* _end_selfld: the flow goes on below the choices, or to their right.
SelfldEnd(s) ==
  LET deep == IF s.sf.row0 = None THEN s.sf.row
              ELSE Most(Most(s.sf.row, s.sf.row0 + s.sf.depth), IF s.sf.extend THEN UsableRows ELSE 0)
      closed == [s EXCEPT !.sf = NoTag, !.strained = @ \/ s.sf.beside > deep]
  IN IF Box(s).dir = "horiz" THEN FlowHoriz(closed, s.sf.start) ELSE SetRow(closed, deep)
CloseSelfld(s) == SelfldEnd(EmitPrompt(s))

\* _end_area: margin, depth, extension and divider of the box, and the parent
\* resumes below it, or to its right.
CloseBox(s0) ==
  LET box0 == Box(s0)
      row1 == box0.row + box0.margind
      row2 == Most(row1, Most(IF box0.depth > 0 THEN box0.row0 + box0.depth ELSE 0,
                              IF box0.extend THEN UsableRows ELSE 0))
      ruled == IF box0.div
               THEN Add(s0, Item("rule", row2, box0.col,
                          IF box0.width > 0 THEN box0.width ELSE Most(1, Width - box0.col - 1), <<>>))
               ELSE s0
      row == IF box0.div THEN row2 + 1 ELSE row2
      maxbottom == IF box0.depth > 0 \/ box0.extend \/ box0.div THEN Most(box0.maxbottom, row) ELSE box0.maxbottom
      bottom == IF box0.dir = "horiz" THEN maxbottom ELSE row
      s == [ruled EXCEPT !.boxes = Front(@), !.infoIndent = 0]
      parent == Box(s)
      right == Extent(s, box0.start)[2]
  IN IF parent.dir = "horiz"
     THEN [SetBox(s, [parent EXCEPT
             !.col = IF box0.width > 0 THEN box0.col + box0.width + HGap
                     ELSE IF right = None THEN @ ELSE right + HGap,
             !.maxbottom = Most(@, bottom), !.row = parent.row0])
           EXCEPT !.strained = @ \/ (box0.width > 0 /\ right > box0.col + box0.width)]
     ELSE SetRow(s, bottom)

\* An inline tag leaves the open element open.
Inline(s, e) ==
  \/ e.tag \in {"ps", "dtafldd"} \cup Directives
  \/ e.tag = "chofld" /\ s.tag.tag = "choice"
  \/ e.tag = "hp" /\ s.tag.tag \in TextTags \cup {"divider"}
StartInline(s, e) ==
  CASE e.tag \in Directives -> [s EXCEPT !.skip = e.tag]
    [] e.tag = "hp" -> [s EXCEPT !.phrased = TRUE, !.phrase = TRUE, !.marks = @ \cup {Len(s.chars)}]
    [] e.tag = "ps" -> [s EXCEPT !.pointed = TRUE]
    [] e.tag = "chofld" -> [s EXCEPT !.entry = e, !.entryText = s.chars, !.chars = <<>>]
    [] e.tag = "dtafldd" ->
         IF s.tag.tag \in FieldTags
         THEN [s EXCEPT !.describing = TRUE, !.described = TRUE, !.description = <<>>] ELSE s

OpenList(s, e) == [s EXCEPT !.lists = Append(@, [tag |-> e.tag, indent |-> e.indent])]
StartBlock(s, e) ==
  CASE e.tag \in Containers -> OpenBox(s, e)
    [] e.tag \in Lists -> OpenList(SkipBlankBefore(s, e), e)
    [] e.tag = "divider" -> OpenDivider(s, e)
    [] e.tag = "selfld" -> OpenSelfld(s, e)
    [] e.tag \in Content ->
         [s EXCEPT !.tag = e, !.chars = <<>>, !.infoIndent = IF e.tag = "info" THEN e.indent ELSE @]
    [] OTHER -> s

\* Faulty: a block tag does not end the open element.
StartedLeavesOpen(s, e) == IF Inline(s, e) THEN StartInline(s, e) ELSE StartBlock(s, e)

\* handle_starttag: the title ends at the first tag, and the open element at
\* the first block tag; a directive swallows every tag.
Started(s, e) == IF Inline(s, e) THEN StartInline(s, e) ELSE StartBlock(EmitCurrent(s), e)
StartTag(s, e) == IF s.skip # "none" THEN s ELSE Started(FinishTitle(s), e)

\* handle_data: whichever capture is on takes the text; without one it is lost.
Data(s, words) ==
  CASE s.skip # "none" -> [s EXCEPT !.dropped = @ \cup Ids(words)]
    [] s.skip = "none" /\ s.titling -> [s EXCEPT !.title = @ \o words]
    [] s.skip = "none" /\ ~s.titling /\ s.describing -> [s EXCEPT !.description = @ \o words]
    [] s.skip = "none" /\ ~s.titling /\ ~s.describing /\ s.tag # NoTag -> [s EXCEPT !.chars = @ \o words]
    [] OTHER -> IF s.sf # NoTag /\ ~s.sf.prompted THEN [s EXCEPT !.sf.prompt = @ \o words]
                ELSE s

\* handle_endtag: an inline end tag, or one that ends the open element and then
\* its own container.
EndInline(s, tag) ==
  CASE tag = "hp" -> [s EXCEPT !.phrase = FALSE, !.marks = @ \cup {Len(s.chars)}]
    [] tag \in {"ps", "chofld"} -> s
    [] tag = "dtafldd" -> [s EXCEPT !.describing = FALSE]
EndBlock(s, tag) ==
  CASE tag \in Containers -> CloseBox(s)
    [] tag \in Lists -> [s EXCEPT !.lists = IF @ = <<>> THEN @ ELSE Front(@)]
    [] tag = "selfld" -> CloseSelfld(s)
    [] tag = "nt" -> [s EXCEPT !.hang = None]
    [] tag = "info" -> [s EXCEPT !.infoIndent = 0]
    [] OTHER -> s
Ended(s, tag) ==
  IF tag \in {"ps", "chofld", "dtafldd"} \/ (tag = "hp" /\ s.phrased)
  THEN EndInline(s, tag) ELSE EndBlock(EmitCurrent(s), tag)
EndTag(s, tag) ==
  CASE s.skip = tag -> [s EXCEPT !.skip = "none"]
    [] s.skip \notin {tag, "none"} -> s
    [] OTHER -> Ended(FinishTitle(s), tag)

\* _retract_title_if_collision: a title whose row something else is on goes.
RetractTitle(s) ==
  LET titled == {i \in DOMAIN s.items : Ids(s.title) # {} /\ s.items[i].words = Ids(s.title)}
      collides == \E i \in titled : \E j \in DOMAIN s.items \ titled : s.items[j].row = s.items[i].row
  IN IF collides
     THEN [s EXCEPT !.items = [i \in 1 .. Len(s.items) - 1 |-> s.items[i + 1]],
                    !.dropped = @ \cup Ids(s.title)]
     ELSE s

\* close: what is open at the end of the input is finished like at its end tag.
Close(s) == RetractTitle(EmitCurrent(FinishTitle([s EXCEPT !.skip = "none"])))

----------------------------------------------------------------------------
(* The documents an author writes *)

Root ==
  [tag |-> "panel", row |-> panel.tmargin, row0 |-> panel.tmargin, maxbottom |-> panel.tmargin,
   col |-> 1, dir |-> "vert", start |-> 0, width |-> 0, depth |-> 0, extend |-> FALSE,
   div |-> FALSE, margind |-> 0, pmtwidth |-> 0, above |-> FALSE, had |-> FALSE]

Fresh ==
  [boxes |-> <<Root>>, items |-> <<>>, tag |-> NoTag, chars |-> <<>>, phrased |-> FALSE,
   phrase |-> FALSE, marks |-> {}, describing |-> FALSE, described |-> FALSE, description |-> <<>>,
   title |-> <<>>, titling |-> TRUE, sf |-> NoTag, pointed |-> FALSE, psRows |-> {},
   entry |-> NoTag, entryText |-> <<>>, skip |-> "none", lists |-> <<>>, hang |-> None,
   infoIndent |-> 0, selections |-> {}, selectionRows |-> {}, choices |-> {}, dropped |-> {},
   lost |-> {}, led |-> {}, strained |-> FALSE]

\* Where a start tag may come: fields, boxes and selection fields outside lists
\* and notes, choices in a selection field, and phrases in an open element.
MayStart(e) ==
  CASE p.skip # "none" -> e.tag = "p"
    [] p.skip = "none" /\ e.tag = "hp" -> p.tag.tag \in TextTags \cup {"divider"} /\ ~p.phrased
    [] p.skip = "none" /\ e.tag = "ps" ->
         p.tag.tag \in TextTags \cup {"dtafld", "choice"} /\ ~p.pointed
    [] p.skip = "none" /\ e.tag = "chofld" -> p.tag.tag = "choice" /\ p.entry = NoTag
    [] p.skip = "none" /\ e.tag = "dtafldd" -> p.tag.tag \in FieldTags /\ ~p.described
    [] p.skip = "none" /\ e.tag \in {"choice", "chdiv"} -> p.sf # NoTag
    [] p.skip = "none" /\ e.tag = "li" -> p.lists # <<>>
    [] p.skip = "none" /\ e.tag \in Lists \cup {"p"} \cup Directives -> p.sf = NoTag
    [] OTHER -> p.sf = NoTag /\ p.lists = <<>> /\ p.hang = None /\ p.tag.tag # "nt"

\* The end tags that match something open.
MayEnd(tag) ==
  CASE p.skip # "none" -> tag = p.skip
    [] p.skip = "none" /\ tag = "hp" -> p.phrase
    [] p.skip = "none" /\ tag = "dtafldd" -> p.describing
    [] p.skip = "none" /\ tag = "chofld" -> p.entry # NoTag
    [] p.skip = "none" /\ tag \in Containers ->
         /\ Len(p.boxes) > 1 /\ tag = Box(p).tag
         /\ p.sf = NoTag /\ p.lists = <<>> /\ p.hang = None /\ p.tag.tag # "nt"
    [] p.skip = "none" /\ tag \in Lists -> p.lists # <<>> /\ tag = Last(p.lists).tag
    [] p.skip = "none" /\ tag = "selfld" -> p.sf # NoTag
    [] p.skip = "none" /\ tag = "nt" -> p.hang # None \/ p.tag.tag = "nt"
    [] p.skip = "none" /\ tag = "info" -> p.infoIndent > 0 \/ p.tag.tag = "info"
    [] OTHER -> tag = p.tag.tag

\* A text is written inside something that holds text.
MayText ==
  /\ ~spoke
  /\ p.skip # "none" \/ p.titling \/ p.tag # NoTag \/ (p.sf # NoTag /\ ~p.sf.prompted)

Start(e) ==
  /\ ~ended /\ tags < document.length /\ MayStart(e)
  /\ p' = StartTag(p, e)
  /\ tags' = tags + 1 /\ spoke' = FALSE
  /\ UNCHANGED <<document, said, ended>>

Text(sizes) ==
  LET words == [i \in DOMAIN sizes |-> [id |-> <<tags, i>>, size |-> sizes[i]]]
  IN /\ ~ended /\ MayText
     /\ p' = Data(p, words)
     /\ said' = said \cup Ids(words) /\ spoke' = TRUE
     /\ UNCHANGED <<document, tags, ended>>

End(tag) ==
  /\ ~ended /\ tags < document.length /\ MayEnd(tag)
  /\ p' = EndTag(p, tag)
  /\ tags' = tags + 1 /\ spoke' = FALSE
  /\ UNCHANGED <<document, said, ended>>

EndOfInput ==
  /\ ~ended /\ tags > 0
  /\ p' = Close(p) /\ ended' = TRUE
  /\ UNCHANGED <<document, tags, said, spoke>>

Init ==
  /\ document \in Documents
  /\ p = Fresh /\ tags = 0 /\ said = {} /\ spoke = FALSE /\ ended = FALSE

Next ==
  \/ \E e \in document.tags : Start(e)
  \/ \E sizes \in document.texts : Text(sizes)
  \/ \E tag \in {e.tag : e \in document.tags} : End(tag)
  \/ EndOfInput

Spec == Init /\ [][Next]_vars

----------------------------------------------------------------------------
(* What the compiler promises *)

\* The parser is in a state it can go on from: what it captures belongs to an
\* element that is open, at most one capture is on, and boxes start at items
\* already laid out (the state handle_starttag and _emit_current hand on).
TypeOK ==
  /\ p.tag = NoTag => p.chars = <<>> /\ ~p.phrased /\ p.marks = {} /\ ~p.described /\ ~p.pointed /\ p.entry = NoTag
  /\ p.describing => p.described /\ p.tag.tag \in FieldTags
  /\ p.phrase => p.phrased
  /\ p.entry # NoTag => p.tag.tag = "choice" /\ p.sf # NoTag
  /\ p.titling => p.items = <<>> /\ p.tag = NoTag
  /\ p.sf # NoTag => p.sf.start <= Len(p.items) /\ (p.sf.count > 0 => p.sf.prompted)
  /\ p.boxes # <<>>
  /\ \A i \in DOMAIN p.boxes :
       /\ p.boxes[i].start <= Len(p.items) /\ (p.strained \/ p.boxes[i].row0 <= p.boxes[i].row)
       /\ i > 1 => p.boxes[i].start >= p.boxes[i - 1].start
  /\ \A i \in DOMAIN p.items : p.items[i].row >= 0 /\ p.items[i].col >= 0

\* The prompt of a selection field that is neither closed nor given a choice is
\* still waiting when the input ends.
Waiting == IF p.sf # NoTag /\ ~p.sf.prompted THEN Ids(p.sf.prompt) ELSE {}

\* Whichever end tags the author leaves out, every word written inside an
\* element is on the panel exactly once, or it is one of those an _emit_* method
\* throws away and then it is nowhere.  Thrown away are (dropped) what the author
\* hid: a comment, a hidden choice, the title under TITLINE=NO; but also a title
\* whose row another element took, the text of a dashed divider or choice
\* divider, the own text of a command area that has a description, and the words
\* of a description, a divider or a choice divider its room does not hold; and
\* (lost) the text of a note, a list item or a choice with a phrase in it.  The
\* caption of a selection field that never got a choice is not drawn (Waiting).
TextShownOnce ==
  ended =>
    \A w \in said :
      LET shown == {i \in DOMAIN p.items : w \in p.items[i].words}
      IN IF w \in p.dropped \cup p.lost \cup Waiting THEN shown = {} ELSE Cardinality(shown) = 1

\* The cells of an item: its attribute, its data, and a field's terminator.
Right(item) == item.col + item.length + (IF item.kind = "field" THEN 1 ELSE 0)

\* As long as nothing was strained (ran off the panel, past a width the author
\* gave or out of its columns), no two items share a cell, except that the
\* attribute of a later one may stand for an earlier field's terminator: an element
\* is laid out beside or below what the flow, its boxes and lists left before.
NothingOverlaps ==
  ended /\ ~p.strained =>
    \A i, j \in DOMAIN p.items :
      i < j /\ p.items[i].row = p.items[j].row =>
        \/ p.items[i].col > Right(p.items[j])
        \/ p.items[j].col > p.items[i].col + p.items[i].length

\* The values and rows that pick an option are those of the choices that are
\* shown and available: each such choice shows its number, or the field to mark
\* it in, on its row, and a numbered one can be picked there by the cursor, unless
\* another one lies on the same row, as in two selection fields side by side: a
\* row remembers one choice only.  A row that picks a choice shows its words.  A
\* row that is point-and-shoot shows a word of the element with the phrase.
Offered == {c \in p.choices : ~c.unavail /\ c.num # None}
Numbered == {c \in Offered : ~c.multi}
On(row) == {p.items[i] : i \in {j \in DOMAIN p.items : p.items[j].row = row}}
WordsOn(row) == UNION {item.words : item \in On(row)}
Pickable ==
  /\ p.selections = {c.num : c \in Offered}
  /\ \A c \in Offered : \E item \in On(c.row) : item.num = c.num
  /\ \A c \in Numbered : <<c.row, c.num>> \in p.selectionRows \/ \E d \in Numbered \ {c} : d.row = c.row
  /\ \A x \in p.selectionRows : \E c \in Numbered : <<c.row, c.num>> = x /\ c.words \subseteq WordsOn(x[1])
  /\ \A x \in p.psRows :
       \/ x[2] = {} \/ x[2] \cap WordsOn(x[1]) # {}
       \/ x[2] \subseteq p.led \cup p.lost
=============================================================================
