---------------------------- MODULE MCPanelSource ----------------------------
(* PanelSource on a small panel, with one vocabulary for each part of the language. *)
EXTENDS PanelSource

\* A start tag without attributes, and with some.
Tag(tag) ==
  [tag |-> tag, compact |-> FALSE, indent |-> 0, dir |-> "vert", width |-> 0, depth |-> 0,
   extend |-> FALSE, div |-> FALSE, margind |-> 0, pmtwidth |-> 0, above |-> FALSE,
   entwidth |-> 4, type |-> "none", fchoice |-> 1, pmtbefore |-> FALSE, selchar |-> None,
   unavail |-> FALSE, when |-> [x \in {} |-> ""]]
Tags(names) == {Tag(name) : name \in names}

Columns == [Tag("region") EXCEPT !.dir = "horiz"]
Rule == [Tag("divider") EXCEPT !.type = "dash"]
Caption == [Tag("divider") EXCEPT !.type = "text"]
Blank == [Tag("divider") EXCEPT !.type = "blank"]
Single == [Tag("selfld") EXCEPT !.type = "single"]
Multi == [Tag("selfld") EXCEPT !.type = "multi", !.pmtbefore = TRUE]
Menu == [Tag("selfld") EXCEPT !.type = "menu", !.fchoice = 0, !.depth = 3]
Choice == Tag("choice")
Unavailable == [Choice EXCEPT !.unavail = TRUE]
When(attr, value) == [Choice EXCEPT !.when = [x \in {attr} |-> value]]

MCVariables == [OFF |-> "0", SET |-> "1"]

Plain == [tmargin |-> 0, bmargin |-> 0, titline |-> TRUE]
Margins == [tmargin |-> 1, bmargin |-> 2, titline |-> FALSE]
Doc(panel_, tags_, texts, length) ==
  [panel |-> panel_, tags |-> tags_, texts |-> texts, length |-> length]
Short == {<<3>>}
Long == {<<8, 7, 6>>}

\* Two selection fields in a row.
SideBySide == Doc(Plain, {Columns, Single, [Single EXCEPT !.fchoice = 5], Choice}, Short, 6)

MCDocuments ==
  { Doc(Plain, Tags({"p", "area"}) \cup {Columns, Rule}, Long, 6),
    Doc(Margins, Tags({"p"}) \cup {Columns, [Tag("area") EXCEPT !.depth = 2, !.div = TRUE]}, Short, 6),
    Doc(Plain, Tags({"dtafld", "dtafldd"}) \cup {Columns, [Tag("dtacol") EXCEPT !.pmtwidth = 5]}, Short, 6),
    Doc(Plain, Tags({"cmdarea", "dtafldd"}) \cup {Columns, [Tag("dtafld") EXCEPT !.above = TRUE]}, Short, 6),
    Doc(Plain, Tags({"dtafld", "dtafldd", "chdiv"}) \cup {Caption, Single}, Short \cup Long, 5),
    SideBySide,
    Doc(Plain, Tags({"ps", "p"}) \cup {Single, Choice, Unavailable, When("hide", "SET")}, Short, 5),
    Doc(Plain, {Columns, Multi, Choice, [Choice EXCEPT !.selchar = 9]}, Short, 6),
    Doc(Plain, {Multi, Unavailable, When("hidex", "SET"), When("hidex", "off")}, Short, 6),
    Doc(Plain, Tags({"chofld"}) \cup {Menu, Single, Choice, [Tag("chdiv") EXCEPT !.type = "dash"]}, Short, 6),
    Doc(Plain, Tags({"chofld", "ps", "chdiv"}) \cup {Single, Choice}, Short, 6),
    Doc(Plain, Tags({"ul", "sl", "li", "p"}), Long, 6),
    Doc(Plain, Tags({"nt", "hp", "p", "ul", "li"}), Short, 6),
    Doc(Margins, Tags({"topinst", "botinst", "p"}) \cup {[Tag("info") EXCEPT !.indent = 2]}, Short \cup Long, 5),
    Doc(Plain, Tags({"topinst", "hp"}), Short \cup Long, 6),
    Doc(Plain, Tags({"pnlinst", "comment", "source"}), Short, 6),
    Doc(Margins, Tags({"p"}) \cup
      {[Tag("region") EXCEPT !.width = 9, !.indent = 1], [Tag("area") EXCEPT !.margind = 1], Caption}, Short, 6),
    Doc(Plain, Tags({"p"}) \cup {Blank, [Tag("area") EXCEPT !.extend = TRUE], Caption, Columns}, Short, 6) }
=============================================================================
