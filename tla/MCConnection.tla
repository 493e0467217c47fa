---------------------------- MODULE MCConnection ----------------------------
(* Connection on small instances: the clients that may connect.             *)
EXTENDS Connection

Field(code) == [code |-> code, lists |-> {}, cells |-> 0, sets |-> {}]
Summary(lists) == [Field("summary") EXCEPT !.lists = lists]
Area(cells) == [Field("area") EXCEPT !.cells = cells]
Charsets == [Field("charsets") EXCEPT !.sets = {"ge"}]

Terminal ==
  [link |-> "basic", tls |-> "wont", before |-> <<>>, extended |-> FALSE,
   colour |-> FALSE, fields |-> <<>>, noise |-> <<>>, lines |-> <<>>]

Option == <<"IAC", "WILL", "OPT">>
Nop == <<"IAC", "NOP">>
Subneg == <<"IAC", "SB", "OPT", "IAC", "SE">>

\* Basic terminals: one without extended data stream; a colour terminal whose
\* size fits; a mono one of an unaddressable size, whose reply breaks off; one
\* that never answers the Query.
MCBasic ==
  { Terminal,
    [Terminal EXCEPT !.extended = TRUE, !.noise = Option,
       !.fields = <<Summary({"color", "replymodes"}), Area(4), Charsets>>],
    [Terminal EXCEPT !.extended = TRUE, !.noise = Nop,
       !.fields = <<Area(9), Summary({"area"}), Field("malformed"), Field("color")>>],
    [Terminal EXCEPT !.extended = TRUE] }

\* TN3270E terminals with something between their records.
MCEnhanced ==
  { [Terminal EXCEPT !.link = "tn3270e", !.extended = TRUE, !.noise = noise] :
      noise \in {Option, Nop, Subneg} }

Line(bytes, command) == [bytes |-> bytes, command |-> command]

\* A line-mode client that types a command behind an option, an empty line and
\* another command; one that logs off and types on.
MCLines ==
  { [Terminal EXCEPT !.link = "nvt", !.lines =
       <<Line(Option \o <<"help">> \o Nop, <<"help">>), Line(<<>>, <<>>),
         Line(<<"IAC", "IAC", "time">>, <<"time">>)>>],
    [Terminal EXCEPT !.link = "nvt", !.lines =
       <<Line(<<"logoff">>, <<"logoff">>), Line(<<"time">>, <<"time">>)>>] }

\* What a client may say about START-TLS, and before that.
MCTls ==
  { [Terminal EXCEPT !.tls = reply, !.before = before] :
      reply \in {"will", "silent", "wont"},
      before \in {<<>>, Option, Subneg, Nop \o Nop \o Nop \o Nop \o Nop \o Nop \o Nop,
                  <<"IAC", "SB", "x", "x", "x", "x", "x", "x", "x", "IAC", "SE">>} }

MCArrivals ==
  ({"plain"} \X (MCBasic \cup MCEnhanced \cup MCLines)) \cup ({"starttls"} \X MCTls)
  \cup ({"implicit", "starttls"} \X
          { [c EXCEPT !.tls = reply] : c \in MCLines, reply \in {"will", "wont"} })

MCByte == STRING

\* What the user of a terminal sends: a record with a byte that is escaped, and
\* one without.
MCKeyed == <<<<"aid", "IAC", "key0">>, <<"aid", "key1">>>>

=============================================================================
