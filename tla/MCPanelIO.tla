------------------------------ MODULE MCPanelIO ------------------------------
(* PanelIO on a small instance: 3 rows of 10 cells, all that 6-valued chunks  *)
(* can address.                                                               *)
EXTENDS PanelIO

Small == 8
Capital == 10
Dash == 11
Red == 20
Blue == 21

\* A field, the last cell of a label, its attribute, and two cells whose 14-bit
\* address has the code of SBA in its low byte.
MCPointed == {1, 2, 4, 26}

MCTyped == {Blank, Small}
MCUpper(c) == IF c = Small THEN Capital ELSE c

MCTerminals ==
  { [colour |-> FALSE, oversize |-> FALSE, attributes |-> FALSE],
    [colour |-> TRUE, oversize |-> FALSE, attributes |-> TRUE],
    [colour |-> FALSE, oversize |-> TRUE, attributes |-> FALSE] }

Label(row, col, text) ==
  [kind |-> "text", row |-> row, col |-> col, text |-> text, length |-> Len(text),
   fg |-> NoColour, runs |-> <<>>, mdt |-> FALSE, cursor |-> FALSE, pad |-> Blank,
   designator |-> <<>>, index |-> 0, required |-> FALSE, caps |-> FALSE]

Entry(row, col, length) ==
  [Label(row, col, <<>>) EXCEPT !.kind = "field", !.length = length, !.mdt = TRUE]

Cell(row, col, index, text) ==
  [Entry(row, col, 1) EXCEPT !.index = index, !.text = text]

Panel(items) == [items |-> items, command |-> 0, message |-> <<>>, bar |-> <<>>]

Command == [Entry(0, 0, 2) EXCEPT !.cursor = TRUE]
Rule(row, col, length) == Label(row, col, [n \in 1 .. length |-> Dash])

\* A command line with a message, a two-row table whose key is required and
\* folded, and a row that flowed off the bottom.
Table ==
  [Panel(<< Command, Label(0, 4, <<Small>>),
            [Cell(1, 0, 1, <<>>) EXCEPT !.required = TRUE, !.caps = TRUE],
            Cell(1, 4, 1, <<Small>>),
            [Cell(2, 0, 2, <<Small>>) EXCEPT !.required = TRUE],
            [Cell(2, 4, 2, <<>>) EXCEPT !.pad = Null, !.mdt = FALSE],
            [Cell(3, 0, 3, <<Small>>) EXCEPT !.required = TRUE] >>)
   EXCEPT !.command = 1, !.message = <<Label(0, 4, <<Dash, Dash>>)>>]

\* Text in colours, a rule to the last cell and one off the bottom.
Coloured ==
  Panel(<< [Label(0, 0, <<Small, Small, Dash>>) EXCEPT !.fg = Blue,
              !.runs = << [text |-> <<Small>>, fg |-> NoColour],
                          [text |-> <<Small, Dash>>, fg |-> Red] >>],
           Label(0, 5, <<Capital>>), Rule(2, 3, Width - 4), Rule(3, 0, 5),
           [Entry(1, 2, 3) EXCEPT !.fg = Red, !.text = <<Small>>, !.cursor = TRUE] >>)

\* Selection fields, one of them text, under an action bar of one choice.
Marked ==
  [Panel(<< Label(0, 0, <<Capital, Capital>>),
            [Label(1, 0, <<Small>>) EXCEPT !.designator = <<Selectable>>],
            [Entry(1, 4, 2) EXCEPT !.designator = <<Selected>>] >>)
   EXCEPT !.bar = <<[row |-> 0, col |-> 0, length |-> 2]>>]

\* A padded table row, and a field that ends in the last cell.
Padded ==
  Panel(<< [Cell(1, 0, 1, <<>>) EXCEPT !.required = TRUE],
           [Cell(1, 4, 1, <<>>) EXCEPT !.pad = Dash] >>)
Corner == Panel(<< Entry(2, Width - 3, 2) >>)

MCPanels == {Table, Coloured, Marked, Padded, Corner}

\* All of them can be seen.
ASSUME PanelsLaidOut == \A p \in MCPanels : LaidOut(p) /\ (p.message # <<>> => Patchable(p))
=============================================================================
