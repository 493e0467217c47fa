------------------------------- MODULE PanelIO -------------------------------
(***************************************************************************)
(* One panel on one terminal: src/screen.py renders it as a 3270 data      *)
(* stream, the terminal interprets the orders, the user types into it, the *)
(* Read Modified reply is decoded by src/server.py and read back by        *)
(* src/screen.py.  The buffer addresses are those of src/ds3270.py.        *)
(*                                                                         *)
(* A byte is a number, and 6-bit chunks are Chunk-valued: a coded address  *)
(* byte has 2 flag bits above its chunk, so a byte is below 4 * Chunk and  *)
(* its largest value is IAC.  A character is a byte like any other.        *)
(***************************************************************************)
EXTENDS Integers, Sequences, FiniteSets, TLC

CONSTANTS
  Panels,     \* the panels the application may display
  Terminals,  \* which terminals connect: [colour, oversize, attributes]
  Width, Depth, \* the presentation space
  Chunk,      \* the 64 values of a 6-bit address chunk
  RunMin,     \* _RA_MIN_RUN
  Typed,      \* the characters the user types
  Upper(_),   \* str.upper of a character
  Pointed,    \* the cells the user moves the cursor to without typing
  MaxInputs,  \* bound: what the user does between the keys that reply
  MaxTurns    \* bound: replies

Size == Width * Depth
Cells == 0 .. Size - 1

\* MAX_ADDRESSABLE_CELLS: addresses whose high byte is not IAC.
Addressable == Chunk * (Chunk - 1)

ASSUME SizeAssumption ==
  /\ Chunk \in Nat /\ Chunk > 2
  /\ Width \in Nat \ {0} /\ Depth \in Nat \ {0}
  /\ Size <= Addressable
  /\ RunMin \in Nat \ {0}

\* Characters and colours: the bytes below IAC.
Char == 0 .. 4 * Chunk - 2

\* An element of a Screen whose texts are of the bytes B; the index is the row
\* of a table cell, or 0.
Item(B) ==
  [kind : {"text", "field"}, row : Nat, col : Nat, length : Nat, index : Nat,
   text : Seq(B), designator : Seq(B), pad : B, fg : Char,
   runs : Seq([text : Seq(B), fg : Char]),
   mdt : BOOLEAN, cursor : BOOLEAN, required : BOOLEAN, caps : BOOLEAN]

\* A Screen: which item is the command line, or 0; the message that replaces
\* its message line; the choices of its action bar.
Screen(B) ==
  [items : Seq(Item(B)), command : Nat, message : Seq(Item(B)),
   bar : Seq([row : Nat, col : Nat, length : Nat])]

ASSUME PanelsAssumption ==
  Panels \subseteq {p \in Screen(Char) : p.command \in 0 .. Len(p.items)}

ASSUME TerminalsAssumption ==
  Terminals \subseteq [colour : BOOLEAN, oversize : BOOLEAN, attributes : BOOLEAN]

ASSUME UserAssumption ==
  /\ Typed \subseteq Char
  /\ \A c \in 0 .. 4 * Chunk - 1 : Upper(c) \in 0 .. 4 * Chunk - 1 /\ (c \in Char => Upper(c) \in Char)
  /\ Pointed \subseteq Cells
  /\ MaxInputs \in Nat /\ MaxTurns \in Nat

VARIABLES
  terminal,   \* which terminal this is
  panel,      \* the Screen the application displayed last
  cells,      \* the terminal's buffer
  cursor,     \* the terminal's cursor address
  rejected,   \* did the terminal reject the last write?
  reply,      \* the reply record on its way, or <<>>
  read,       \* what the application read from it
  at,         \* "user" types, "reply" is on its way, the "app" decides, or it "ended"
  inputs, turns,
  since       \* history: what happened since the last full screen

vars == <<terminal, panel, cells, cursor, rejected, reply, read, at, inputs, turns, since>>

----------------------------------------------------------------------------
(* Bytes *)

IAC == 4 * Chunk - 1
Null == 0
SBA == 2              \* above the high byte of a binary address on any panel
SF == 3
SA == 4
Blank == Chunk        \* 0x40, as the first coded chunk
NoColour == 0

Enter == Chunk + 1     \* AIDs
Clear == Chunk + 2
Selectable == Chunk + 3 \* the designators "?" and ">"
Selected == Chunk + 4
Detectable == 1       \* an attribute's intensity, when it is not normal

\* Faulty: both bytes are flagged 11, and the lower one can be an IAC.
EncodePackAddrHigh(a) ==
  IF a \in 0 .. Addressable - 1 THEN <<(3 * Chunk) + (a \div Chunk), (3 * Chunk) + (a % Chunk)>>
  ELSE <<>>

\* Faulty: no address is refused, as before #348.
EncodePackAddrAny(a) == <<(3 * Chunk) + (a \div Chunk), Chunk + (a % Chunk)>>

\* encode_pack_addr: 6 bits a byte, flagged 11 and 01.  An address behind the
\* last that can be coded raises, and has no bytes.
EncodePackAddr(a) ==
  IF a \in 0 .. Addressable - 1 THEN <<(3 * Chunk) + (a \div Chunk), Chunk + (a % Chunk)>>
  ELSE <<>>

\* _decode_buffer_addr: flags 00 announce a 14-bit binary address.
DecodeBufferAddr(hi, lo) ==
  IF hi >= Chunk THEN (hi % Chunk) * Chunk + (lo % Chunk) ELSE (hi * 4 * Chunk) + lo

Least(S) == CHOOSE x \in S : \A y \in S : x <= y
Most(S) == CHOOSE x \in S : \A y \in S : x >= y

\* str.strip
Strip(s) ==
  LET solid == {i \in DOMAIN s : s[i] # Blank}
  IN IF solid = {} THEN <<>> ELSE SubSeq(s, Least(solid), Most(solid))

UpperAll(s) == [i \in DOMAIN s |-> Upper(s[i])]

----------------------------------------------------------------------------
(* Rendering: items of a Screen to orders *)

Addr(it) == it.row * Width + it.col
DataAddr(it) == Addr(it) + 1

Fields(p) == {i \in DOMAIN p.items : p.items[i].kind = "field"}
TableCells(p) == {i \in Fields(p) : p.items[i].index > 0}

\* An order: what it does, its address bytes, its character or attribute.
Order(op, bytes, c, fg, prot, mdt) ==
  [op |-> op, bytes |-> bytes, c |-> c, fg |-> fg, prot |-> prot, mdt |-> mdt]
At(op, a, c) == Order(op, EncodePackAddr(a), c, NoColour, FALSE, FALSE)
Put(c) == Order("put", <<>>, c, NoColour, FALSE, FALSE)
SetColour(fg) == Order("SA", <<>>, Null, fg, FALSE, FALSE)
StartField(it, prot, mdt, fg) ==
  Order("SF", <<>>, IF it.designator = <<>> THEN Null ELSE Detectable, fg, prot, mdt)
Terminator == Order("SF", <<>>, Null, NoColour, TRUE, FALSE)
InsertCursor == Order("IC", <<>>, Null, NoColour, FALSE, FALSE)

Puts(s) == [i \in DOMAIN s |-> Put(s[i])]

Concat(seqs) ==
  LET from[i \in 1 .. Len(seqs) + 1] ==
        IF i > Len(seqs) THEN <<>> ELSE seqs[i] \o from[i + 1]
  IN from[1]

RunColour(run, base) == IF run.fg # NoColour THEN run.fg ELSE base

\* Faulty: the colour of the last run is left on, as before #345.
EmitAttrRunsNoReset(runs, base) ==
  Concat([i \in DOMAIN runs |-> <<SetColour(RunColour(runs[i], base))>> \o Puts(runs[i].text)])

\* _emit_attr_runs: a colour other than the default is reset at the end.
EmitAttrRuns(runs, base) ==
  Concat([i \in DOMAIN runs |-> <<SetColour(RunColour(runs[i], base))>> \o Puts(runs[i].text)])
    \o (IF RunColour(runs[Len(runs)], base) # NoColour THEN <<SetColour(NoColour)>> ELSE <<>>)

OneChar(s) == \A i \in DOMAIN s : s[i] = s[1]

\* _emit_ra: the buffer is circular, and a run to its end stops at 0.
RepeatTo(stop, c) == At("RA", stop % Size, c)

\* Text.render (and GraphicText.render, whose characters differ).
EmitText(it, colour) ==
  LET base == IF colour THEN it.fg ELSE NoColour
      text == it.designator \o it.text
  IN <<At("SBA", Addr(it), Null), StartField(it, TRUE, FALSE, base)>>
       \o (IF it.runs # <<>> /\ colour THEN EmitAttrRuns(it.runs, base)
           ELSE IF Len(text) >= RunMin /\ OneChar(text)
                THEN <<RepeatTo(Addr(it) + 1 + Len(text), text[1])>>
           ELSE Puts(text))

\* str.ljust and the cut to the field's length.
Filled(s, length, fill) ==
  [i \in 1 .. length |-> IF i <= Len(s) THEN s[i] ELSE fill]

\* Field.render: data, a protected terminator behind it, and the cursor.
EmitField(it, colour) ==
  <<At("SBA", Addr(it), Null), StartField(it, FALSE, it.mdt, IF colour THEN it.fg ELSE NoColour)>>
    \o Puts(Filled(it.designator \o it.text, it.length, it.pad))
    \o <<At("SBA", DataAddr(it) + it.length, Null), Terminator>>
    \o (IF it.cursor THEN <<At("SBA", DataAddr(it), Null), InsertCursor>> ELSE <<>>)

Emit(it, colour) == IF it.kind = "field" THEN EmitField(it, colour) ELSE EmitText(it, colour)

\* What flowed off the bottom is dropped, or it would wrap to the top.
OnPanel(it) == it.row \in 0 .. Depth - 1

EmitItems(items, colour) == Concat([i \in DOMAIN items |-> Emit(items[i], colour)])

\* A write: its command, the WCC bit that resets the modified tags, its orders.
Render(p, colour) ==
  [erase |-> TRUE, reset |-> TRUE,
   orders |-> Concat([i \in DOMAIN p.items |->
                IF OnPanel(p.items[i]) THEN Emit(p.items[i], colour) ELSE <<>>])]

\* Faulty: the modified tags are reset, as a full screen does.
RenderPartialReset(items, colour, a) ==
  [erase |-> FALSE, reset |-> TRUE,
   orders |-> EmitItems(items, colour) \o <<At("SBA", a, Null), InsertCursor>>]

\* render_partial: no erase, and the modified tags stay.
RenderPartial(items, colour, a) ==
  [erase |-> FALSE, reset |-> FALSE,
   orders |-> EmitItems(items, colour) \o <<At("SBA", a, Null), InsertCursor>>]

\* Faulty: the EUA starts where the cursor is, not at the top of the buffer.
RenderEraseInputBelow(a) ==
  [erase |-> FALSE, reset |-> TRUE,
   orders |-> <<At("EUA", 0, Null), At("SBA", a, Null), InsertCursor>>]

\* From the top of the buffer around to it.
RenderEraseInput(a) ==
  [erase |-> FALSE, reset |-> TRUE,
   orders |-> <<At("SBA", 0, Null), At("EUA", 0, Null), At("SBA", a, Null), InsertCursor>>]

----------------------------------------------------------------------------
(* The terminal *)

EmptyCell == [attr |-> FALSE, prot |-> FALSE, mdt |-> FALSE, c |-> Null, fg |-> NoColour]
Erased == [a \in Cells |-> EmptyCell]
Next1(a) == (a + 1) % Size

\* The cells from a up to, not including, stop: all of them when they are one.
Span(a, stop) ==
  IF a < stop THEN a .. stop - 1 ELSE (a .. Size - 1) \cup (0 .. stop - 1)

Attributes(buf) == {x \in Cells : buf[x].attr}

\* The cells of the field that starts at attribute x, in order.
Data(buf, x) ==
  LET extent[n \in 1 .. Size] ==
        IF buf[(x + n) % Size].attr THEN <<>> ELSE <<(x + n) % Size>> \o extent[n + 1]
  IN extent[1]

Members(s) == {s[n] : n \in DOMAIN s}

\* The cells the user may type in: all of them on an unformatted screen.
InputCells(buf) ==
  IF Attributes(buf) = {} THEN Cells
  ELSE UNION {Members(Data(buf, x)) : x \in {y \in Attributes(buf) : ~buf[y].prot}}

Stored(t, cell) == [t EXCEPT !.buf[t.at] = cell, !.at = Next1(t.at)]

Obey(t, o) ==
  LET a == DecodeBufferAddr(o.bytes[1], o.bytes[2])
      write(S, cell) == [x \in Cells |-> IF x \in S THEN cell ELSE t.buf[x]]
  IN IF t.rejected THEN t ELSE
     CASE o.op = "put" -> Stored(t, [EmptyCell EXCEPT !.c = o.c, !.fg = t.fg])
       [] o.op = "SF" -> Stored(t, [EmptyCell EXCEPT !.attr = TRUE, !.prot = o.prot,
                                      !.mdt = o.mdt, !.c = o.c, !.fg = o.fg])
       [] o.op = "SA" -> [t EXCEPT !.fg = o.fg]
       [] o.op = "IC" -> [t EXCEPT !.cursor = t.at]
       [] o.op \in {"SBA", "RA", "EUA"} /\ a \notin Cells -> [t EXCEPT !.rejected = TRUE]
       [] o.op = "SBA" /\ a \in Cells -> [t EXCEPT !.at = a]
       [] o.op = "RA" /\ a \in Cells ->
            [t EXCEPT !.at = a, !.buf = write(Span(t.at, a), [EmptyCell EXCEPT !.c = o.c, !.fg = t.fg])]
       [] o.op = "EUA" /\ a \in Cells ->
            [t EXCEPT !.at = a, !.buf = write(Span(t.at, a) \cap InputCells(t.buf), EmptyCell)]

\* A write: an order for an address the screen has not ends it.
Interpret(buf, cur, write) ==
  LET start == IF write.erase THEN Erased
               ELSE [a \in Cells |-> [buf[a] EXCEPT !.mdt = @ /\ ~write.reset]]
      origin == IF write.erase THEN 0 ELSE cur
      after[n \in 0 .. Len(write.orders)] ==
        IF n = 0 THEN [buf |-> start, at |-> origin, cursor |-> origin, fg |-> NoColour,
                       rejected |-> FALSE]
        ELSE Obey(after[n - 1], write.orders[n])
  IN after[Len(write.orders)]

\* A terminal of more than 4096 cells sends 14-bit addresses.
SentAddr(a) == IF terminal.oversize THEN <<a \div (4 * Chunk), a % (4 * Chunk)>>
               ELSE EncodePackAddr(a)

\* The characters of the field that starts at attribute x: what is not null.
Characters(x) ==
  LET field == Data(cells, x)
  IN Concat([n \in DOMAIN field |->
               IF cells[field[n]].c = Null THEN <<>> ELSE <<cells[field[n]].c>>])

\* A modified field in a reply: its attributes, then its characters.
SentField(x) ==
  <<SBA>> \o SentAddr(Next1(x))
    \o (IF terminal.attributes THEN <<SA, Chunk, cells[x].fg>> ELSE <<>>)
    \o Characters(x)

ReadModified(aid) ==
  LET from[a \in 0 .. Size] ==
        IF a = Size THEN <<>>
        ELSE (IF cells[a].attr /\ cells[a].mdt THEN SentField(a) ELSE <<>>) \o from[a + 1]
  IN <<aid>> \o SentAddr(cursor) \o from[0]

----------------------------------------------------------------------------
(* Decoding the reply *)

\* Faulty: a field that strips to nothing is not recorded, as before #346.
ParseFieldsNonEmpty(b) ==
  LET triple(i, order) == i + 2 <= Len(b) /\ b[i] = order
      scan[i \in 1 .. Len(b) + 3] ==
        [open \in BOOLEAN |->
           IF i > Len(b) THEN [text |-> <<>>, fields |-> <<>>]
           ELSE IF triple(i, SBA) THEN
             LET rest == scan[i + 3][TRUE]
             IN [text |-> <<>>, fields |->
                  (IF Strip(rest.text) = <<>> THEN <<>> ELSE
                   <<[addr |-> DecodeBufferAddr(b[i + 1], b[i + 2]), text |-> Strip(rest.text)]>>)
                    \o rest.fields]
           ELSE IF open /\ triple(i, SA) THEN scan[i + 3][TRUE]
           ELSE IF open /\ b[i] \notin {SBA, SF} THEN [scan[i + 1][TRUE] EXCEPT !.text = <<b[i]>> \o @]
           ELSE [scan[i + 1][FALSE] EXCEPT !.text = <<>>]]
  IN scan[2][FALSE].fields

\* The loop of _parse_3270_reply, from its end: the text of the open field,
\* and the fields behind it.  An SA triple inside a field is not text.
ParseFields(b) ==
  LET triple(i, order) == i + 2 <= Len(b) /\ b[i] = order
      scan[i \in 1 .. Len(b) + 3] ==
        [open \in BOOLEAN |->
           IF i > Len(b) THEN [text |-> <<>>, fields |-> <<>>]
           ELSE IF triple(i, SBA) THEN
             LET rest == scan[i + 3][TRUE]
             IN [text |-> <<>>, fields |->
                  <<[addr |-> DecodeBufferAddr(b[i + 1], b[i + 2]), text |-> Strip(rest.text)]>>
                    \o rest.fields]
           ELSE IF open /\ triple(i, SA) THEN scan[i + 3][TRUE]
           ELSE IF open /\ b[i] \notin {SBA, SF} THEN [scan[i + 1][TRUE] EXCEPT !.text = <<b[i]>> \o @]
           ELSE [scan[i + 1][FALSE] EXCEPT !.text = <<>>]]
  IN scan[2][FALSE].fields

\* _parse_3270_reply: a field that comes twice keeps its last text.
ParseReply(b) ==
  LET found == ParseFields(b)
      last(a) == Most({i \in DOMAIN found : found[i].addr = a})
  IN [aid |-> b[1],
      cursor |-> IF Len(b) >= 3 /\ b[2] \notin {SBA, SF} THEN DecodeBufferAddr(b[2], b[3]) ELSE -1,
      fields |-> [a \in {found[i].addr : i \in DOMAIN found} |-> found[last(a)].text]]

NothingRead == [aid |-> 0, cursor |-> -1, fields |-> <<>>]

----------------------------------------------------------------------------
(* Reading a reply back *)

Returned(f, it) == DataAddr(it) \in DOMAIN f

\* read_table_rows: a cell that was not returned keeps what was rendered.
ReadTableRows(p, f) ==
  [i \in TableCells(p) |->
     LET it == p.items[i]
         value == IF Returned(f, it) THEN f[DataAddr(it)] ELSE it.text
     IN IF it.caps THEN UpperAll(value) ELSE value]

RowOf(p, i) == p.items[i].index

\* Faulty: a row is modified when a cell of it came back, as before #346.
ModifiedRowsReturned(p, f) ==
  {RowOf(p, i) : i \in {j \in TableCells(p) : Returned(f, p.items[j])}}

\* A row is modified when a returned cell differs from what was rendered.
ModifiedRows(p, f) ==
  {RowOf(p, i) : i \in {j \in TableCells(p) :
     Returned(f, p.items[j]) /\ f[DataAddr(p.items[j])] # Strip(p.items[j].text)}}

\* table_required_errors: the blank required cells of the modified rows.
TableRequiredErrors(p, f) ==
  {i \in TableCells(p) :
     LET it == p.items[i]
     IN /\ it.required
        /\ it.index \in ModifiedRows(p, f)
        /\ Strip(IF Returned(f, it) THEN f[DataAddr(it)] ELSE it.text) = <<>>}

\* command_value, with the `or ""` of its callers.
CommandValue(p, f) ==
  LET it == p.items[p.command]
  IN IF p.command # 0 /\ Returned(f, it) THEN f[DataAddr(it)] ELSE <<>>

\* selected_designators: the selection fields that came back selected.
SelectedDesignators(p, f) ==
  {i \in DOMAIN p.items :
     LET it == p.items[i]
     IN /\ it.designator # <<>>
        /\ Returned(f, it)
        /\ f[DataAddr(it)] # <<>> /\ f[DataAddr(it)][1] = Selected}

\* action_choice_at: the action-bar choice the cursor is on.
ActionChoiceAt(p, a) ==
  {n \in DOMAIN p.bar :
     /\ a # -1
     /\ p.bar[n].row = a \div Width
     /\ p.bar[n].col < a % Width /\ a % Width <= p.bar[n].col + p.bar[n].length}

----------------------------------------------------------------------------
(* The application, the user, and the wire between them *)

\* Does rendering raise?  An order is for an address that cannot be coded.
Raises(write) ==
  \E n \in DOMAIN write.orders :
     write.orders[n].op \in {"SBA", "RA", "EUA"} /\ write.orders[n].bytes = <<>>

\* A write leaves through the transport and unlocks the keyboard; but when
\* rendering it raises nothing is sent, and _client_thread closes the socket.
Write(write) ==
  /\ UNCHANGED <<terminal, reply, inputs, turns>>
  /\ \/ /\ Raises(write)
        /\ at' = "ended"
        /\ UNCHANGED <<cells, cursor, rejected, read>>
     \/ /\ ~Raises(write)
        /\ at' = "user"
        /\ \E t \in {Interpret(cells, cursor, write)} :
             cells' = t.buf /\ cursor' = t.cursor /\ rejected' = t.rejected
        /\ read' = NothingRead

\* _send_screen of a panel.
Show(p) ==
  /\ at = "app"
  /\ panel' = p
  /\ since' = {}
  /\ Write(Render(p, terminal.colour))

\* The rows read back are the rows of the next display.
Reseeded(p, rows) ==
  [p EXCEPT !.items = [i \in DOMAIN @ |->
     IF i \in TableCells(p) THEN [@[i] EXCEPT !.text = rows[i]] ELSE @[i]]]

\* _show_table_input after a reply: the rows are read back before the
\* required cells are checked, so a refused row is displayed as it stands.
Redisplay ==
  /\ read.aid = Enter
  /\ TableCells(panel) # {}
  /\ Show(Reseeded(panel, ReadTableRows(panel, read.fields)))

CommandField == panel.items[panel.command]

\* _update_menu_message: the message line in place, the cursor on the command.
Patch ==
  /\ at = "app"
  /\ panel.command # 0 /\ panel.message # <<>>
  /\ since' = since \cup {"patched"}
  /\ Write(RenderPartial(panel.message, terminal.colour, DataAddr(CommandField)))
  /\ UNCHANGED panel

\* render_erase_input.
EraseInput ==
  /\ at = "app"
  /\ panel.command # 0
  /\ since' = since \cup {"erased"}
  /\ Write(RenderEraseInput(DataAddr(CommandField)))
  /\ UNCHANGED panel

ReadReply ==
  /\ at = "reply"
  /\ read' = ParseReply(reply)
  /\ reply' = <<>>
  /\ at' = "app"
  /\ UNCHANGED <<terminal, panel, cells, cursor, rejected, inputs, turns, since>>

Edit(buf, cur) ==
  /\ at = "user" /\ inputs < MaxInputs
  /\ cells' = buf /\ cursor' = cur
  /\ inputs' = inputs + 1
  /\ since' = since \cup {"typed"}
  /\ UNCHANGED <<terminal, panel, rejected, reply, read, at, turns>>

\* The user edits fields; text typed on a screen without any is not modelled.
InputFields == IF at = "user" THEN {x \in Attributes(cells) : ~cells[x].prot} ELSE {}

Type(x, n, c) ==
  LET a == Data(cells, x)[n]
  IN Edit([cells EXCEPT ![x].mdt = TRUE, ![a].c = c], Next1(a))

\* Erase EOF: nulls from the n-th cell to the end of the field.
EraseEof(x, n) ==
  LET field == Data(cells, x)
      gone == {field[k] : k \in n .. Len(field)}
  IN Edit([a \in Cells |-> IF a \in gone THEN [cells[a] EXCEPT !.c = Null]
                           ELSE [cells[a] EXCEPT !.mdt = @ \/ a = x]], field[n])

\* Cursor Select in a selection field toggles its designator and its tag.
CursorSelect(x) ==
  LET d == Next1(x)
  IN /\ at = "user" /\ cells[x].attr /\ cells[x].c = Detectable
     /\ cells[d].c \in {Selectable, Selected}
     /\ Edit([cells EXCEPT ![x].mdt = cells[d].c = Selectable,
                ![d].c = IF cells[d].c = Selectable THEN Selected ELSE Selectable], d)

MoveCursor(a) == Edit(cells, a)

PressEnter ==
  /\ at = "user" /\ turns < MaxTurns
  /\ reply' = ReadModified(Enter)
  /\ at' = "reply" /\ turns' = turns + 1
  /\ UNCHANGED <<terminal, panel, cells, cursor, rejected, read, inputs, since>>

\* Clear erases the terminal's buffer and sends its AID alone.
PressClear ==
  /\ at = "user" /\ turns < MaxTurns
  /\ cells' = Erased /\ cursor' = 0
  /\ reply' = <<Clear>>
  /\ at' = "reply" /\ turns' = turns + 1
  /\ since' = since \cup {"cleared"}
  /\ UNCHANGED <<terminal, panel, rejected, read, inputs>>

Init ==
  /\ terminal \in Terminals
  /\ panel \in Panels
  /\ cells = Erased /\ cursor = 0 /\ rejected = FALSE
  /\ reply = <<>> /\ read = NothingRead
  /\ at = "app" /\ inputs = 0 /\ turns = 0 /\ since = {"cleared"}

User ==
  \/ \E x \in InputFields : \E n \in DOMAIN Data(cells, x) :
       (\E c \in Typed : Type(x, n, c)) \/ EraseEof(x, n)
  \/ \E x \in Cells : CursorSelect(x)
  \/ \E a \in Pointed : MoveCursor(a)
  \/ PressEnter \/ PressClear

App == (\E p \in Panels : Show(p)) \/ Redisplay \/ Patch \/ EraseInput \/ ReadReply

Next == User \/ App

Spec == Init /\ [][Next]_vars

----------------------------------------------------------------------------
(* Properties *)

\* Type invariant.  No byte that a terminal with coded addresses replies is an
\* IAC (MAX_ADDRESSABLE_CELLS, encode_pack_addr).
TypeOK ==
  /\ \A i \in DOMAIN panel.items : panel.items[i].text \in Seq(0 .. IAC)
  /\ \A a \in Cells : cells[a] \in
       [attr : BOOLEAN, prot : BOOLEAN, mdt : BOOLEAN, c : 0 .. IAC, fg : Char]
  /\ cursor \in Cells /\ rejected \in BOOLEAN
  /\ \A i \in DOMAIN reply : reply[i] \in 0 .. IAC /\ (reply[i] = IAC => terminal.oversize)
  /\ DOMAIN read.fields \subseteq Nat
  /\ at \in {"user", "reply", "app", "ended"}
  /\ inputs \in 0 .. MaxInputs /\ turns \in 0 .. MaxTurns
  /\ since \subseteq {"typed", "patched", "erased", "cleared"}

\* The text of a field on the terminal, at the position the panel gives it.
Shown(it) == Characters(Addr(it))

\* The characters an item declares, and the cells of its attribute and of them.
Declared(it) ==
  IF it.kind = "field" THEN Filled(it.designator \o it.text, it.length, it.pad)
  ELSE it.designator \o it.text

Occupied(it) == Addr(it) .. Addr(it) + Len(Declared(it))

\* Where a field's terminator goes, and whether that is behind the last cell.
Ending(it) == DataAddr(it) + it.length
Overruns(it) == it.kind = "field" /\ Ending(it) >= Size

\* The text of an item that has runs is theirs (Text.rich).
RunTexts(runs) == Concat([i \in DOMAIN runs |-> runs[i].text])
Rich(it) == it.runs # <<>> => it.designator = <<>> /\ it.text = RunTexts(it.runs)

\* No item runs over the end of the screen.
Fits(it) == Addr(it) + Len(Declared(it)) < Size

\* Two items, one rendered before the other, do not lie on each other; but a
\* terminator may lie on the attribute of a text, or of what is rendered later.
Apart(it, next) ==
  /\ Occupied(it) \cap Occupied(next) = {}
  /\ it.kind = "field" => Ending(it) \notin Occupied(next) \ {Addr(next)}
  /\ next.kind = "field" =>
       Ending(next) \notin Occupied(it) \/ (it.kind # "field" /\ Ending(next) = Addr(it))

\* Is a panel laid out so that all of it can be seen?  A panel whose text ran on
\* behind its last row is not: what follows is put on that row too.
LaidOut(p) ==
  /\ \E i \in DOMAIN p.items : OnPanel(p.items[i])
  /\ \A i \in DOMAIN p.items : OnPanel(p.items[i]) => Rich(p.items[i]) /\ Fits(p.items[i])
  /\ \A i, j \in DOMAIN p.items :
       i < j /\ OnPanel(p.items[i]) /\ OnPanel(p.items[j]) => Apart(p.items[i], p.items[j])

\* The colours its characters are declared in.
DeclaredColours(it) ==
  IF it.runs = <<>> \/ ~terminal.colour \/ it.kind = "field"
  THEN [n \in DOMAIN Declared(it) |-> NoColour]
  ELSE Concat([i \in DOMAIN it.runs |->
         [n \in DOMAIN it.runs[i].text |-> RunColour(it.runs[i], it.fg)]])

RunsOff(p) == \E i \in DOMAIN p.items : OnPanel(p.items[i]) /\ Overruns(p.items[i])

\* A full screen, laid out as above, is on the terminal as its panel declares
\* it: every item on it has its characters, in its own colour (#345), at its
\* place, though a rule may fill the last cell and an item may have flowed off
\* the bottom; and the user can type into exactly the length of a field, and
\* nothing else.  Unless a field ends in the very last cell: its terminator's
\* address is not wrapped, so the terminal rejects the write, or, on the largest
\* screen that can be addressed, render raises and the session ends (#348).
Drawn ==
  since = {} /\ LaidOut(panel) =>
    /\ at = "ended" => RunsOff(panel) /\ Size = Addressable
    /\ at = "user" =>
         /\ rejected <=> RunsOff(panel)
         /\ rejected => Size < Addressable
         /\ ~rejected =>
              /\ \A i \in DOMAIN panel.items :
                   LET it == panel.items[i]
                   IN OnPanel(it) =>
                        /\ cells[Addr(it)].attr /\ cells[Addr(it)].prot = (it.kind = "text")
                        /\ \A n \in DOMAIN Declared(it) :
                             LET cell == cells[(Addr(it) + n) % Size]
                             IN ~cell.attr /\ cell.c = Declared(it)[n]
                                /\ cell.fg = DeclaredColours(it)[n]
              /\ InputCells(cells) =
                   UNION {DataAddr(panel.items[i]) .. Addr(panel.items[i]) + panel.items[i].length :
                            i \in {j \in Fields(panel) : OnPanel(panel.items[j])}}

\* A binary cursor address whose low byte is the code of SBA: the decoder
\* takes it for the first field's order, and that field is lost.
MistakenCursor == terminal.oversize /\ cursor % (4 * Chunk) = SBA

Whole == ~rejected /\ "cleared" \notin since /\ ~MistakenCursor

Answered == at = "app" /\ read.aid = Enter /\ Whole

\* What the application reads is what the user sees, whatever was typed, erased
\* (#346) or patched in place, on every display and in every reply mode: the
\* command, the marked selection fields, the cursor's action-bar choice and
\* every table cell, folded where its column says so.  Except that cells which
\* render_erase_input emptied read as their defaults: they come back unmodified.
ReadIsShown ==
  Answered =>
    /\ read.cursor = cursor
    /\ panel.command # 0 => CommandValue(panel, read.fields) = Strip(Shown(CommandField))
    /\ SelectedDesignators(panel, read.fields) =
         {i \in DOMAIN panel.items : LET it == panel.items[i]
            IN it.designator # <<>> /\ cells[DataAddr(it)].c = Selected}
    /\ \A n \in DOMAIN panel.bar :
         n \in ActionChoiceAt(panel, read.cursor) <=>
           cursor \in DataAddr(panel.bar[n]) .. Addr(panel.bar[n]) + panel.bar[n].length
    /\ "erased" \notin since =>
         \A i \in TableCells(panel) :
           OnPanel(panel.items[i]) =>
             Strip(ReadTableRows(panel, read.fields)[i]) =
               LET shown == Strip(Shown(panel.items[i]))
               IN IF panel.items[i].caps THEN UpperAll(shown) ELSE shown

Touched(it) == Strip(Shown(it)) # Strip(it.text)

\* A required cell is refused exactly when the user sees it blank in a row
\* where something now differs from what was displayed: a row nobody touched is
\* never refused, though all its cells come back, and clearing a cell is an
\* edit.  Not so in a row with visible pad characters, which read as text.
RefusedRows ==
  Answered /\ "erased" \notin since =>
    \A i \in TableCells(panel) :
      LET it == panel.items[i]
          row == {j \in TableCells(panel) : RowOf(panel, j) = it.index}
      IN OnPanel(it) /\ (\A j \in row : panel.items[j].pad \in {Null, Blank}) =>
           (i \in TableRequiredErrors(panel, read.fields) <=>
              /\ it.required
              /\ Strip(Shown(it)) = <<>>
              /\ \E j \in row : Touched(panel.items[j]))

\* Does the message lie apart from the fields, all of which have an end?
Patchable(p) ==
  /\ LaidOut(p) /\ ~RunsOff(p)
  /\ \A m \in DOMAIN p.message :
       LET text == p.message[m]
       IN /\ text.kind = "text" /\ Rich(text) /\ Fits(text)
          /\ \A i \in Fields(p) : OnPanel(p.items[i]) => Apart(p.items[i], text)

\* Patching the message in place, apart from the fields, keeps what the user
\* typed, and that it was typed (render_partial, screen.py:1097).
PatchKeeps ==
  [][Patch /\ "cleared" \notin since /\ Patchable(panel) =>
       \A a \in InputCells(cells) \cup {x \in Attributes(cells) : ~cells[x].prot} :
         cells'[a] = cells[a]]_vars

\* Erasing the input empties every field, wherever the cursor was, leaves every
\* attribute and all protected text, and unmarks what was typed
\* (render_erase_input).
EraseEmpties ==
  [][EraseInput /\ at' = "user" =>
       \A a \in Cells :
         cells'[a] = IF a \in InputCells(cells) THEN EmptyCell
                     ELSE [cells[a] EXCEPT !.mdt = FALSE]]_vars
=============================================================================
