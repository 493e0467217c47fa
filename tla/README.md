# Formal models of the 3270 server

TLA+ specifications of the server in this repository: a TN3270 / TN3270E server (`server.py`)
with a TSO/ISPF-style application (`session.py`) on panels compiled from DTL (`dtl.py`,
`screen.py`). TLC checks them on small instances; TLAPS proves the main results for every value of
the constants.

    tlc -config host_session.cfg MCHostSession.tla     # one run
    tlapm SessionAppProofs.tla                         # the proofs of one component

## The system

One thread per client (`_client_thread`) runs, in this order: the TLS or START-TLS handshake, the
Telnet negotiation, the Read Partition Query, and then either a line-mode session or the ISPF
application. Client threads share nothing but the message catalogue, which is loaded lazily and
idempotently, and the session context is thread-local. So the concurrency that matters is not
between threads: it is between one server thread, the client's emulator and its user, over two
byte streams. Messages cross, keys are typed ahead, segments split anywhere, and the server blocks
in `recv` inside nested loops.

| Component | State | Operations | What makes it correct |
|---|---|---|---|
| `TN3270EStream` (server.py 219-332) | `_seq`, `_pending`, `last_screen`, `bound` | `sendall`, `redisplay`, `on_response`, `send_bind`, `send_sscp`, `send_unbind` | the map of unacknowledged records stays bounded; a refused screen is sent again a bounded number of times; a settled one never |
| Read loop and SYSREQ / ATTN (server.py 334-370, 944-1036) | which session the thread is in | `next_event`, `read_client_input`, `_handle_sysreq`, `_handle_attn` | the terminal comes back to the panel the application waits on, unlocked; the LU-LU and SSCP-LU sessions stay apart; a disconnect ends the session |
| Negotiation (server.py 1046-1233) | received bytes, `e_state`, the `got_` flags, offered options, functions | one scan of everything received per `recv` | both ends agree on framing and functions; every client is served; only line-mode clients get line mode |
| Record framing (server.py 372-411, 805-853) | `_rxbuf` / a buffer per call | `_next_unit`, `read_record` | records come out whole, once and in order, however the bytes are split |
| Query and reply mode (server.py 579-799) | terminal model | `query_terminal`, `request_reply_mode`, `parse_query_reply` | a silent or odd terminal leaves the model unchanged; a late answer is not input |
| Reply codec (server.py 868-941, ds3270.py) | - | `_decode_buffer_addr`, `_parse_3270_reply`, `encode_pack_addr` | addresses round-trip; every modified field is reported once, a cleared one too |
| Line-mode session (server.py 1245-1312) | line buffer | `_strip_nvt`, `run_nvt_session` | every line is answered once, one prompt per answer |
| Connection lifecycle (server.py 1418-1615) | socket, TLS state | `handle_client`, `_offer_starttls`, `_client_thread`, the accept loop | a refusal or a timeout leaves plaintext; one client never stops another; the socket is closed |
| ISPF application (session.py) | the stack of panel loops, `short_msg`, `needs_full_redraw`, table rows | `run`, `_await_action`, the `_show_*` loops, `_run_selection` | no panel before the logon; a menu message only over the menu; every loop ends on a disconnect |
| Screen model (screen.py) | items, fields, rows | layout, validation, `read_table_rows`, `render`, `render_partial` | fields map to addresses and back; validation matches the declarations |
| DTL compiler (dtl.py), structured fields, GOCA | - | parsing and byte formats | sequential and stateless |

The hard behaviours, each at its line, are the `hazards` of `PROJECT.json`.

## Modules

| Module | Models | Checked by | Proved in |
|---|---|---|---|
| `TN3270EStream` | the stream, open: any caller, any client | `stream_delivery` | `TN3270EStreamProofs` |
| `RecordDelivery` | what the stream promises: no numbers, no map, no cap | refined by `TN3270EStream` | `ImplementsDelivery` |
| `HostSession` | the stream composed with the real read loops, the application as a port, a terminal and a user | `host_*` | `HostSessionProofs` |
| `Negotiation` | `tn3270_negotiate` and `_handle_tn3270e_sb`, with a client | `neg_*` | `NegotiationProofs` |
| `Connection` | `_client_thread`: TLS and START-TLS, the hand-over after the negotiation, Query and reply mode, `_next_unit` and `read_record` byte by byte, line mode | `connection` | `ConnectionProofs`, `ReadersProofs` |
| `SessionApp` | `run` and every `_show_*` loop of `session.py`, as a stack of frames | `application` | `SessionAppProofs` |
| `PanelIO` | one panel on one terminal: rendering (`screen.py`), the terminal's orders and Read Modified, the reply codec (`server.py`, `ds3270.py`), read-back and the required check | `panel_io` | `PanelIOProofs` |
| `PanelSource` | the DTL compiler (`dtl.py`): open elements, implied end tags, flow and layout, selections | `panel_source` | `PanelSourceProofs` |

How they fit together: `Connection` takes the negotiation as one step (`Negotiation` is that step
at the level of tokens) and its session as "send a screen, read one record" (`HostSession` is the
session on TN3270E with SYSREQ and ATTN, `SessionApp` what the application does with a record).
`SessionApp` takes a panel for what it declares; `PanelSource` is where the declaration comes from
and `PanelIO` how a panel and its fields travel.

Each `MC` module gives the constants of its module their small values. An
operator under the comment "Faulty" is a variant of the one after it with a plausible mistake:
`PROJECT.json` pairs every checked property with one that breaks it, so a property that could not
fail would be noticed.

### TN3270EStream

`_pending` is a Python dict, and the model keeps the two things the code relies on: one entry per
key, and iteration in the order in which keys were first inserted (`at`, the time of insertion; a
key that is overwritten keeps its place). `SendRecord` is `_send_3270` with everything it does:
the next number modulo 2^16 (`Base * Base`), the entry, the cap, the write. `OnResponse` takes any
number, known or not, and also a RESPONSE too short to have one. It reads the number as the code
does (`AsRead`): `_next_unit` does not collapse doubled IACs, so every number whose high byte is
0xFF is read as 0xFFFF. Two history variables, `sends` and `copies`, count what went out.

`RecordDelivery` says what this bookkeeping is for. A display is outstanding from its first copy
until it is acknowledged, given up or forgotten; only an outstanding display is sent again, at most
`MaxRetries` times; making room costs at most one display and never the one just sent. The mapping
takes the displays in `_pending` for the outstanding ones.

### HostSession

`pc` is where the session's thread is: before the bind, before the first panel, waiting in
`read_client_input` ("lu"), waiting in `_handle_sysreq` ("sscp"), between the farewell and the
UNBIND, ended. Each branch of `next_event`'s callers is an action. The application is what the
port shows of it: it answers a reply with another panel (Erase/Write) or, from the menu, with a
message patched in place (Write), and it unwinds its open panels on a disconnect, one deep.
`panel` is what the application believes the terminal shows, `display` what it does show.

The terminal and its user are the environment. The terminal paints or refuses a record and answers
if it was asked to; it takes no 3270 record before a BIND when BIND-IMAGE was agreed; an AID key
locks its keyboard until the next output. A *scenario* fixes what the user may press, how often,
whether he types ahead, how many screens are refused, and whether the application patches the menu.

### Negotiation

A token is one Telnet command, option or sub-negotiation. The buffer is never trimmed and every
`recv` scans it from the start, as in the code; `recv` returns any number of whole tokens and
possibly part of the next, which is enough for a scan of its own. The branches of the scan are
actions, because what they send is on its way while the scan goes on. The client answers as the
x3270 family does (it may propose functions itself, it abandons TN3270E when the server adds a
function) or as the clients in `test_tn3270e.py` do (it waits for the server's proposal).

### Connection

`at` is where the connection's thread is. A byte is a string (`"IAC"`, `"EOR"`, a letter), a `recv`
takes any prefix of what the client has sent (`Cuts`), and `Timeout` may fire at any `recv` that
has a timeout, also while an answer is on its way. `TelnetByte` is one byte of either reader: of
`read_record` on a basic connection, where a fresh buffer is made for every call, and of
`_next_unit` on TN3270E, whose buffer persists but which splices out an option triplet before its
third byte has come. `ScanByte` is one byte of `_client_accepts_starttls` and `_drain_subneg`, with
their two limits of 64 bytes. `Settle` folds whatever record came during the Query into the model,
as `query_terminal` does. An IAC IAC on TN3270E stays two bytes in the record, as `_next_unit` leaves
it; `sent` is what the client meant, with one byte. `Negotiate` reads only as far as the scan comes:
a command that the end of the `recv` cuts waits for the next one, and when line mode begins it goes
with the buffer (`Scanned`). The history variable `torn` is set exactly where the code drops bytes of
a record, an answer or a command, and the properties about records and lines say what holds until then.

### SessionApp

A loop that calls another is a frame below it: logon, menu, submenu, view, shell, Dialog Test,
member list, browse, help (paged or an overlay), overlays with an action bar, pull-downs and the
scratch table. `Display` is the send at the head of a loop, the `Answer*` actions what the loop does
with a reply, `Disconnected` what it does with None. The transport is the port that `session.py`
documents; a send on a closed connection may raise (`SendFails`) and SYSREQ LOGOFF raises through
every loop. `run` hands the user back to the logon after LOGOFF; `presented` records the last
credentials given since then, `via` the panel and the option through which a handler was reached.

### PanelIO

`Render`, `RenderPartial` and `RenderEraseInput` produce the orders of a write, `Interpret` is the
terminal that obeys them, `ReadModified` what it sends when the user presses a key, and
`ParseReply` and the `Screen` methods what the server makes of that. A byte is a number below
`4 * Chunk`; addresses are coded in 6-bit chunks (here `Chunk`-valued) or, by a terminal with a
large screen, in binary. `EncodePackAddr` has no bytes for an address of `Addressable` or more, for
which `encode_pack_addr` raises: then nothing is sent and the session ends (`Write`, `Raises`). A
panel is redisplayed as `_show_table_input` does, a message is patched
in as `_update_menu_message` does.

### PanelSource

The author writes start tags, texts and end tags in any order the language allows, one action
each, and may leave out every end tag that the parser implies. `Started`/`Ended` are
`handle_starttag`/`handle_endtag` with the implicit flush, `EmitCurrent` the emitter of the open
element, `OpenBox`/`CloseBox`/`FlowHoriz`/`Place` the flow through regions, areas and columns. A
word is a number of cells with an identity, so the properties can say where each word went: into
which items, or, where a text is cut to its room, nowhere (`Inside`, `CutAt`, `AddCut`). A phrase
among other text leaves `marks`, on which the spacing of a top instruction depends (`Mixed`). An item
that shows a choice's number or is the field to mark it in carries the choice's `num`. The
model was compared item by item with `load_dtl` on about 28,000 random documents of its
vocabularies: positions, lengths, selection maps and lost words agree.

## What the runs show

| Run | Expect | Instance | Shows |
|---|---|---|---|
| `stream_delivery` | pass | 2 screens, 4 numbers, cap 2, 2 retries, 6 sends | the invariant that the proofs use, both bounds, the newest record tracked, and the refinement. Six sends wrap the numbers, reuse keys that are still in the map, fill the cap and exhaust the retries, with numbers whose high byte is the IAC |
| `host_session` | pass | three scenarios, up to 4 keys, 2 refusals | see below |
| `neg_clients` | pass | 10 TN3270E emulators, 16 other clients that each say one thing unasked, 2 that offer options, 1 that refuses EOR | both ends agree, every client that agrees to what `done()` waits for, or refuses BINARY, is served (`CapableServed`), line mode is justified |
| `connection` | pass | 32 arrivals (terminals, TN3270E terminals with an option, a command or a sub-negotiation before each record, line-mode clients, START-TLS clients that accept, refuse or say nothing after something else) | see below |
| `application` | pass | a library with one panel of each kind, 3 members of 3 lines, pages of 2 rows | see below |
| `panel_io` | pass | 5 panels of 3 x 10 cells, all that can be addressed, 3 terminals, 2 inputs a turn, 2 replies | see below |
| `panel_source` | pass | 18 vocabularies, up to 6 tags, 24 columns, 9 rows | see below |
| `host_patched_panel` | violation of `InSync` | AID, AID, SYSREQ, SYSREQ | `redisplay` repeats the last *write*, not the last *panel* |
| `host_stale_retransmit` | violation of `RecoversFromRefusal` | ATTN, AID, one refusal | an old panel painted over a newer one |
| `host_suspended_retransmit` | violation of `SuspendedSilent` | AID, SYSREQ, one refusal | a 3270 screen in the SSCP-LU session |
| `neg_answers` | violation of `AnsweredOnce` | the emulators | DEVICE-TYPE IS sent twice for one request |
| `neg_refuses_eor` | violation of `Served` | one terminal | BINARY without EOR: neither 3270 nor line mode |

`host_session` unites three scenarios, because different promises hold in each. *Interrupting*:
menu messages, ATTN and a hang-up with type-ahead. *Suspending*: SYSREQ, SSCP lines, LOGOFF, ATTN
and a hang-up, by a user who waits for each answer, without menu messages. *Refusing*: up to two
refused screens with type-ahead and ATTN. In all of them a 3270 record reaches the client only in a
bound session, an acknowledged screen is not sent again, a locked keyboard is unlocked, and a
hang-up ends the session; in the first two, where nothing is refused, the terminal also ends up
with the panel the application waits on. The violation runs show what fails outside of these
scenarios: menu messages before a SYSREQ, a refusal after a newer screen, a refusal while
suspended. Type-ahead across SYSREQ is left to `Suspending`'s assumption: `read_client_input`
ignores the data type of a record, so a line typed ahead of the resume would be read by the
application.

`connection`: no byte of a TLS handshake is taken for Telnet or lost (`HandshakeIntact`); both ends
agree whether the session is encrypted (`TlsAgreed`); records come out whole, once and in order
until a reader drops bytes, and byte for byte but for an FF on TN3270E, which comes out doubled
(`RecordsWhole`); the model is what the terminal said if it answered, and what its type says if it
did not, and a reply mode is set only where it is supported (`ModelHonest`); every line is answered
once, in order, and none after LOGOFF, until a byte is dropped before line mode begins
(`CommandsAnswered`); and every thread ends, except one that waits for the hello on an
implicit TLS port (`ThreadEnds`).

`application`: a screen of the application only after the matching password (`LoggedOn`); handlers
only through options the panel shows as available (`OnlyVisible`); each reply read against the
panel that is shown (`RepliesToShown`); a blank key is refused once (`RefusedFirst`); every key
is answered with a screen, and every stack of loops comes to its end on a disconnect (`Progress`).

`panel_io`: the terminal shows what the panel declares, in the declared colours, with input fields
of exactly the declared length, if no two items of the panel lie on each other (`Drawn`, `LaidOut`;
all panels of the run are laid out), and rendering raises only for the field that ends in the last
cell; the application reads what the user sees
(`ReadIsShown`) and refuses exactly the rows the user has touched and left blank (`RefusedRows`);
a patched message keeps what was typed, if it lies apart from the fields (`PatchKeeps`, `Patchable`),
and erasing the input empties every field and
nothing else (`EraseEmpties`).

`panel_source`: with any end tags left out, every word is shown exactly once or is one of those an
emitter throws away, and then it is shown nowhere (`TextShownOnce`; points 10, 12 and 14 below); no
two items share a cell (`NothingOverlaps`); and what can be picked is what is offered: every
available choice shows its number, or the field to mark it in, on its row, and the cursor picks it
there, unless another choice lies on that row (`Pickable`). 1.86 million states in 36 seconds.

`neg_clients` uses an action constraint: the client waits while the server scans. A scan step does
not read the channel from the client and both ends only append, so a client step during a scan can
be moved after it. No property looks at what differs.

`CHECK_DEADLOCK FALSE` is set everywhere: sessions end, documents end, users stop typing, and the
counters are bounded.

### Bounds

`MaxSends`, `MaxKeys`, `MaxNaks` and `Keyed` bound the length of a behaviour; `RoomAssumption` makes sure
that `MaxSends` never stops the server in `HostSession`. `Base` stands for the 256 values of a
byte, `PendingCap` for 128 entries. `ShortChannel` keeps the channel of the open stream at two
messages; only `Deliver` reads it. Panels are nested one deep in `HostSession`. In `Negotiation`
each client says at most one pair of things that nobody asked for.

`Connection`: `ScanLimit` is 6 for the 64 of the START-TLS scan, and the clients say up to 14 bytes
before their reply, so that both loops run out; `AddressableCells` is 5 for 4032, with one terminal
that fits and one that does not; `Keyed` is 2 records a connection, each with an IAC in it, enough
for a record typed during the Query, one behind another in the same `recv`, and a late Query Reply.
`PanelIO`: `Chunk` is 6 for 64, and 30 cells are all that 6-valued chunks can address (4032 in the
code), so that both bytes of an address take every value, the binary code of SBA occurs as a low
byte, and the first address that does not exist cannot be coded. On a smaller screen it can be, and
the terminal rejects the write: the run passes with `Width = 9` as well, and the theorems cover
both; `RunMin` decides between a repeat order and single characters as in the code. The user types
two characters a field may hold, erases, moves the cursor to four chosen cells and presses ENTER or
CLEAR, at most `MaxInputs` times before each of `MaxTurns` replies. Typing on an unformatted screen
is left out. `SessionApp`: three members and three lines on pages of two rows have a first, a middle
and a last page; the scratch table has two rows for the code's four; panels nest as deep as the
loops call each other, which the help panels and the menus end. `PanelSource`: `Depth` and `Width`
let a document run off either edge; a vocabulary holds what interacts (columns, areas and rules;
prompts, fields and descriptions; lists and notes), and five or six tags open, nest, close and leave
open each of its elements.

### What the models except

Where the code does not keep a promise, the property names the exception as a definition or a
condition of its own, so that what remains is checked. These are:

1. CLEAR at the menu: the menu's message is patched onto the blanked screen, the menu is not
   painted again (session.py:1053-1055; `RepliesToShown`).
2. PAD with a visible character: an untouched padded row counts as modified, and a blank required
   cell that is padded does not read as blank (screen.py:1205-1244; `RefusedRows`).
3. `render_erase_input` resets the MDTs, so emptied cells are not returned and `read_table_rows`
   gives their defaults, although its docstring says that the cleared fields read as empty
   (screen.py:1111-1137; `ReadIsShown`, "erased").
4. A binary cursor address whose low byte is 0x11 is taken for an SBA order, and the first field is
   lost (server.py:909-939; `MistakenCursor`).
5. A field that ends in the last cell puts its terminator at an address that does not exist
   (screen.py:693-696; `RunsOff`): the terminal rejects the write, or on a screen of 4032 cells
   `encode_pack_addr` raises out of `render` and the session ends (ds3270.py:115-116; `Raises`).
6. The scratch table is seeded from the reply before the reply is checked, so a second Enter takes
   the refused row (session.py:515; `RefusedFirst` says only that it was refused once).
7. A record that is not a Query Reply, received during the Query, clears the colour capability,
   although the docstring promises an unchanged model (server.py:768). Of the colour of such a
   terminal `ModelHonest` says nothing (`asked`).
8. `read_record` loses what follows a record in the same `recv`; `_next_unit` loses two bytes of an
   option that TCP cut, and the record a command interrupts; a timeout in the middle of a record or
   of a START-TLS reply loses its first half (server.py:838, 392; `torn`). `_next_unit` also returns
   an escaped FF doubled, although its docstring says that it is data (server.py:375, 391-393;
   `RecordsWhole`, `Escaped`). And a
   hand-over to line mode loses a command that the end of the `recv` cut, whose rest is then typed
   text (server.py:1108-1114, 1182-1184; `torn` in `CommandsAnswered`).
9. No timeout on the implicit TLS handshake (server.py:1554; `ThreadEnds`).
10. DTL: an inline phrase inside a list item's or a note's text loses the text, and inside a
    `<choice>` the phrase and what follows it, although docs/dtl-tags-reference.md lists HP there
    (dtl.py:2028-2063; `lost`).
11. DTL: a `<ps>` in the first choice of a prompted `<selfld>` is recorded on the prompt's row
    (dtl.py:2100-2108; `led`).
12. DTL: with `</selfld>` omitted, later elements overlay the choices, and the caption of a
    `<selfld>` without choices is never emitted (dtl.py:1964-1968; `Waiting`; the author of the
    model writes nothing but choices before the end tag).
13. DTL, marked `strained`: what is placed past the panel's edges or beyond a region's width; a
    prompt wider than PMTWIDTH; choice text longer than its row; a BEFORE prompt on a numbered
    selection, or one deeper than its choices; what hangs under a note in a horizontal box. And where
    nothing is strained, the attribute of a later item may stand for an earlier field's terminator
    (`NothingOverlaps`).
14. DTL, words that are nowhere although nobody asked for it: a title whose row another element took;
    the text of a dashed `<divider>` or `<chdiv>`; the own text of a `<cmdarea>` that has a
    description; and the words of a description, a divider or a choice divider for which its room
    is too small (dtl.py:3996, 4725-4728; `dropped`, together with what the author hid: comments,
    hidden choices, the title under TITLINE=NO).
15. DTL: of two numbered choices on one row, those of selection fields beside each other, the cursor
    picks the one drawn last (dtl.py:4693; `Pickable` asks it of the choices alone on their row).

More that was met on the way, in what is not modelled: `help_for` and `action_choice_at` differ by
one in where a choice of the action bar begins (screen.py:1026-1029 and 847-849); a grid of choices
(CHOICECOLS) keeps only the last choice of a row in `selection_rows` (dtl.py:4693); `DIV=` of a
horizontal region is drawn beside its columns and not below them (dtl.py:1664-1668); a self-closing
`<dtacol/>` leaves its box open (dtl.py:2113-2156); UNAVAIL of a `<choice>` takes a variable's name
for a truth value (dtl.py:4592).

### Fairness

`HostSession`: weak fairness of the server's actions together and of the terminal's together. The
thread runs whenever it has something to read or write, and `_next_unit` leaves a command or record
in the buffer for no longer than that; the terminal handles what arrives. The user is under no
obligation. That a closed connection raises (`Broken`) is possible and never assumed.
`Negotiation`: weak fairness of the server and of the client's answers. `RecvTimeout` happens only
when nothing is in flight: a client that still has something to answer is taken to do it within
the 60 seconds. `Served` and `CapableServed` speak
about such clients.
`Connection`: weak fairness of the thread's actions together, and of `Timeout`: a socket timeout
expires if nothing comes. The client is under no obligation, not even to hang up. `SessionApp`:
weak fairness of the thread. `PanelIO` and `PanelSource` state safety only.

## What is proved

Each proof module states its component's inductive invariant before it uses it (`StreamInv`,
`IInv`, or one invariant for each question), then what each operation keeps of it, one lemma for
each action or group of actions, and the theorems at the end of each part. TLC had checked every
invariant on the instances above before it was proved.

| Module | Theorems | For every |
|---|---|---|
| `TN3270EStreamProofs` | `StreamInvariant`, `RetransmissionsAreBounded`, `PendingIsBounded`, `NewestIsTracked`, `ImplementsDelivery` | set of screens, `Base >= 2` (the code: 256), `PendingCap >= 1` (128), `MaxRetries`, `MaxSends` |
| `HostSessionProofs` | `Invariant`, `SessionTyped`, `SessionIsStream`, `DataIsBound`, `AckedStaysSettled`, `ComesBackInSync`, `SuspendedIsSilent`, `InputStaysInItsSession` | set of scenarios, number of keys and of refusals, and the stream's constants |
| `NegotiationProofs` | `NegotiationTyped`, `NvtAlwaysJustified`, `SessionAlwaysAgreed`, `OptionAlwaysAgreed` | set of clients, of functions, and of supported functions |
| `ConnectionProofs` | `Invariant`, `ConnectionTyped`, `TlsAlwaysAgreed`, `ModelAlwaysHonest`, `HandshakeStaysIntact` | set of arrivals, limit of the scan (the code: 64; at least 6 for the last one), number of addressable cells |
| `ReadersProofs` | `RecordsAlwaysWhole`, `CommandsAlwaysAnswered` | the same, and any bytes, records, lines, and commands between them |
| `PanelIOProofs` | `CodedAddressRead`, `SentAddressRead`, `TypeCorrect`, `ErasesAllInput`, `DrawnAsDeclared`, `PatchKeepsTyped` | set of panels and of terminals, size of the screen up to what coded addresses reach, `Chunk > 2` (the code: 64), `RunMin >= 1`, what the user types (the last two: panels that are laid out, `LaidOut` and `Patchable`) |
| `PanelSourceProofs` | `TextAlwaysShownOnce` | set of documents: tags of the modelled elements with any attributes, any texts, panel and variables |
| `SessionAppProofs` | `Invariant`, `AppTyped`, `OnlyLoggedOn`, `VisibleOnly`, `RepliesAlwaysToShown`, `RefusedBeforeRead` | panel library, members, lines, page and table size, credentials |

**The stream.** The bound on retransmissions is not inductive: the code compares the count in the
*entry*, and the promise is about what *went out*. `StreamInv` therefore adds that the two agree
(`RetriesCounted`) and that no display is tracked under two numbers, which would start two chains
of retransmissions (`KeysUnique`). That the cap spares the newest record needs the order of the
map: insertion times are distinct and lie in the past (`TimesPast`), so with at least two entries
the one that `next(iter(...))` names is not the one just inserted. A wrapped number may overwrite
an old entry, and then nothing is evicted at all; `InsertKeepsKeys` and `CapKeepsNewest` treat both
cases. The step lemmas follow the operations (`SendallKeepsInv`, `RetransmitKeepsInv`,
`SettleKeepsInv`, `WireKeepsInv`), and the refinement uses the same split.

**The session.** `SessionIsStream` says that the composed system, with the real read loops, a
terminal and a user, implements the open stream `StreamSpec`: what is proved of the stream against
any client and caller holds in every session. The inductive part is that a session never asks for
an output that does not exist (`RoomInv`: keys read, keys on their way and panels to unwind bound
the number of outputs) and where a BIND or an UNBIND may stand in the channel (`BindInv`). The
other theorems need one invariant each:

- `AckedStaysSettled`, if `MaxSends < Base * (Base - 1)`, that is, for the first 65,279 records of a
  connection of the real server: numbers then neither wrap nor have a high byte of 0xFF, which
  `AsRead` confuses. `AckInv` orders the numbers in both channels and in the map: every response on
  its way has a lower number than every record on its way, so the answers to one record cannot
  meet the entry of another.
- `ComesBackInSync`, if no scenario has both SYSREQ and patched messages. `SyncInv` folds what is on
  its way over what the terminal shows (`Final`) and says that this *leads to* the panel the
  application waits on; `Restores` says that `redisplay` would lead there too.
- `SuspendedIsSilent`, if terminals with a SYSREQ key refuse nothing.
- `InputStaysInItsSession`, if a user with a SYSREQ key moreover waits for each answer. `WaitInv`
  says that then at most one line is on its way, in the mode of the session that will read it.

The instance of `host_session` satisfies all of these hypotheses, and they cannot be dropped:
`host_patched_panel` and `host_suspended_retransmit` violate the second and the third property
outside of them.

**The negotiation.** `NvtInv` is that neither end withdraws BINARY between clients that agree to it,
over both channels and the whole history in the buffer. For `SessionAgreed`: TN3270E is settled by
the client's first answer and withdrawn by neither end (`Tn3270eFollows`); whoever proposes
functions, every set under way cuts down to those both ends have, and the client has cut its own
once the proposal that goes with the device name has arrived (`FunctionsMutual`); and the loop is
left only when `done()` holds (`EndsDone`). `OptionInv` is about a scan that handles the whole
history again: after `n` tokens the server's record is what the first `n` tokens say, or, if they do
not mention the option yet, what the last scan left, and then the rest of the buffer does mention
it.

**The connection.** `ScanInv` keeps the two loops of the START-TLS scan within their limits;
`TlsInv` is that FOLLOWS is the last thing the server says before the handshake, that a client sends
its hello once, after that or at once, and that only a hello is answered by a handshake; `ModelInv`
is which parts of the model may change before, during and after the Query; of a terminal whose first
record was not the reply `ModelAlwaysHonest` leaves the colour open. `OfferInv`, for
`HandshakeIntact`, says that while the server scans, the bytes under way have a WILL STARTTLS only
with the client's FOLLOWS right behind it and nothing behind that (`OffersUnderWay`), that a drain
has read of that FOLLOWS exactly what is no longer under way (`Drains`), and that the handshake
begins with an empty channel or with the hello. The theorem has the hypothesis `ScanLimit >= 6` (the
code: 64), the length of FOLLOWS.

**The readers.** `_next_unit`, `read_record`, `_strip_nvt` and the negotiation's filter are folds of
one step over the bytes (`Read`). A recursive function over sequences cannot be given to the
prover's induction, so the fold is characterised as a relation: `Leads` says that some sequence of
states runs along the bytes, `PathsExist` that there is exactly one, by the shortest bytes that
would have none or two (`Shortest`), and `Reading` that the fold therefore takes a byte at
a time and composes over joined bytes. From then on every reader is an equation.

For `RecordsWhole`, `Units` is the reader of a whole stream: it starts afresh behind each record or
command and collects the records. A stream read by frames, one `recv` at a time, is read to the
same records (`UnitsFrame`), an escaped record is read back (`EscapedFrame`), and the client's noise
adds nothing (`NoiseAdds`). `RecInv` says that what the thread holds and what is under way lead
from the records *taken* to the records *sent* (`Followed`). It speaks of some bytes that frame like
those held and not of the bytes held: `_next_unit` removes a command's bytes from its buffer
before the record behind them is complete. The invariant ends where `torn` begins, that is, where
the readers of the code drop bytes (the 8th point above). The records taken are a prefix of
`Expected`, what the reader makes of those sent: the same records, on TN3270E with each FF doubled.

For `CommandsAnswered`, `Lines` reads the bytes as lines of stripped commands and `ServeInv` says
that what was received and is under way leads from the commands *answered* to those *typed*. Before
the session a second reader matters, which marks only where in a Telnet command the stream stands
(`Marked`): the scan for START-TLS, the handshake and the negotiation each consume a prefix of what
the client sent, and what they leave must start at a command's end or inside of a line as the
next reader takes it (`ApartInv`, `TypedIn`). `AcceptInv` closes the one dangerous case, a line
that was typed before the offer was accepted: the scan, which drops what is not a command, would
have come upon the line before it could come upon FOLLOWS. So a client that accepted has typed
nothing when its handshake begins (`HandInv`). The negotiation is a prefix too: what it hands over
is what its scan did not come to, unless it was inside a command, and then `torn` holds.

**The application.** The invariant says which stacks the program can build: which loop is called by
which, through which option of which panel (`CalledBy`), that over the logon, the scratch table and
every pop-up only pop-ups run (`Covers`), and that a message is only to be patched by the top frame.
`UserInv` ties the bottom frame to the credentials that were accepted, `ShownInv` the terminal to
the loop that reads, `ReadInv` the page to the panel's length.

**The screen.** The prover has no induction over data, but a recursive *function* can be unrolled: a
function that satisfies its equations is constructed step by step (`History`, `Backwards`), the
`CHOOSE` behind the definition is then such a function, and what holds of its values follows by
induction on a set of numbers, which is first-order (`Induct`, from the least element of a set).
`DataIs`, `ConcatUnrolled`, `Interpreted` and `ParseFieldsTyped` do this for the loops over a
field's cells, the items of a panel, the orders of a write and the bytes of a reply. `IOInv` is that
everything is made of the bytes in `Sent`: the characters, and the IAC only from a terminal with
binary addresses. It has to hold of the panel too, because the rows that are read back become the
panel that is displayed next. `InputErased` follows the four orders of `render_erase_input`; since
the cells it erases have no attributes, the input cells stay the same while it runs
(`InputCellsSame`). Of `EncodePackAddr` and `DecodeBufferAddr` the theorems cover every address that
the code accepts, with the bound of 4032 as the place where the high byte would become an IAC.

`DrawnAsDeclared` goes from one order to the whole screen. `Obeyed` says that orders lead from one
state of the terminal to another, and composes (`ObeyedBoth`). A text's characters are put one by
one, in colour runs or by one RA, and all three ways leave the same cells (`Writes`, `Fills`,
`TextFills`): an RA that ends at the last cell stops at address 0, and the run has filled the cells
before it. An item leaves its attribute, its characters behind it and, for a field, the terminator
(`Drew`), and the cells of no other item (`Touches`). `Panelled` is then the induction over the
items: those drawn so far are still as they were drawn (`Seen`), no cell but the attribute of one of
their fields is unprotected (`Guarded`), and the write was rejected if and only if a field ran over
the end (`Overran`), and rendering raises exactly where that end is also the end of what can be
addressed. From `Seen` and `Guarded` follow the characters, and that the cells the user can type
into are those of the fields (`InputsAre`). The hypothesis `LaidOut` asks that texts and data end
before the screen does and that no two items have a cell in common, where a terminator may lie on
the attribute of a text. Without it `Drawn` would be false, since the later item wins. Of the panels
in `src/panels` all but one are laid out on 24 x 80; the text of the long help panel runs on past
the last row, where the compiler puts what follows on that row too (`strained` in `PanelSource`).

`PatchKeepsTyped` looks further, over all that happens between two full screens. Typing changes characters
and tags, erasing empties data, patching draws texts between the fields: `FieldsInv` is what all of
them leave, namely that every field has an attribute behind its length and that nothing but the
attributes of fields is unprotected (`Fielded`). So what the user can type into and what carries a
modified tag lies within the fields (`TypedWithin`), and `Patched` says of the message's orders, item
by item, that they reach no cell there and leave the fields as they are. The hypothesis `Patchable`
asks that the message and each field lie apart and that no field ends in the last cell: there the panel
was rejected halfway, and what is unprotected behind the last order that was obeyed may be anything.
The message line of the menu (row 2, from column 25) lies apart from the fields of every panel in
`src/panels`.

**The source of a panel.** `TextShownOnce` speaks of the finished panel only, when every word has
come to rest. On its way a word moves: it is captured with the open element, a phrase or a prompt
takes it over, and it is drawn when some later tag closes that element. The invariant `Conserved`
says where it can be meanwhile: every word that was fed is in exactly one of seven places (`Shares`),
namely drawn, gone (dropped by the layout or lost by a phrase), in the title, in the prompt of a
selection field that was not drawn yet, in the text of the open element, in that of its entry, or in
its description. This is inductive only with `Control`, which says what may be captured while which
element is open, since each emitter reads some of these places and the reset behind it empties them all,
and with `TitleFirst`, since `_retract_title_if_collision` takes the first item away again for the
title. A text that is cut to
its room is divided between its item and what is gone (`AddCutSpends`). An emitter is then a transfer:
`Draws` says that it adds items that show given words once and
leaves the others alone, `Emits` that nothing captured remains but a waiting prompt, and both
compose (`DrawsOn`, `EmitsOn`). A text of any length keeps its words when it is cut into lines
(`WrapHolds`); `Wrap` and the loops over lines are followed step by step with `History`. The end
of the input is a start tag's flush once more, and there `Conserved` leaves the words drawn, gone or
waiting, as `ConservedShown` states.

The assumptions are the named `ASSUME`s of each module. They bound nothing the code leaves open:
sizes are natural numbers, panels have the fields that `session.py` reads from them and name panels
of the library (`PanelAssumption`), a document is written in the modelled elements and a text is a
sequence of words (`DocumentAssumption`), and what a client says in the clear is not the first byte
of its TLS hello (`ArrivalAssumption`). `TalkAssumption` says how a client talks: what it puts
between records and before its answer is complete Telnet commands, it does not speak of START-TLS
unasked, a line ends with its LF and strips to the command the user typed. It excludes
sub-negotiations within lines and between the records of a basic terminal: `_strip_nvt` and
`read_record` take IAC SB for a command of two bytes, and the rest would be typed text or part of
the next record. `RoomAssumption` makes `MaxSends` large enough not to stop the server.

Only model-checked:

- All liveness (`KeyboardRestored`, `HangupEnds`, `CapableServed`, `ThreadEnds`, `Progress`): the
  prover has no rule for fairness.
- `ReadIsShown` and `RefusedRows` of `PanelIO`: they say that `_parse_3270_reply`, a loop over the
  bytes, undoes Read Modified, a loop over the fields, for any texts that were typed.
- `NothingOverlaps`, `Pickable` and `TypeOK` of `PanelSource`: the theorem about the words does not
  depend on where they are placed, and these do. A place is the result of the flow through all boxes and
  lines before it.
- The mutants, and the disagreements (the runs that expect a violation).

## Not modelled

- The accept loop: its threads share nothing but the lazily loaded message catalogue.
- TLS beyond its first bytes; certificates and key files (`make_tls_context`).
- The texts of messages and answers, times, terminal type strings and device names: no property
  depends on them.
- `screen.py`: graphic text, the numeric and pattern checks, the size of alternate screens, and
  the list window, which is a slice.
- `dtl.py`: tables (`lstfld`, `lstcol`), figures, group boxes, dynamic areas, action bars, definition
  and parameter lists, headings, key lists, variable classes and message members, CHOICECOLS, and
  the checks of attribute values. They lay items out with the same operators.
- `structured_fields.py`, `goca.py`: stateless byte formats. `golden_corpus.py`, tests: support.

## Plan

1. Proofs about `PanelSource`: the flow never places two items on one cell.
2. More of `dtl.py`: `lstfld` columns and the action bar.
