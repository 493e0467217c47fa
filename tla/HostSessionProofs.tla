------------------------- MODULE HostSessionProofs -------------------------
(***************************************************************************)
(* A TN3270E session, whatever its user presses and its terminal refuses.  *)
(* The stream's own invariant (TN3270EStreamProofs) says what the server   *)
(* tracks; the ones here relate it to what is under way in both channels   *)
(* and to what the terminal will show once it has read everything.         *)
(***************************************************************************)
EXTENDS HostSession, TN3270EStreamProofs, SequenceTheorems

\* What is under way to the server.
Events ==
  [type : {"RESPONSE"}, seq : SeqNumbers, positive : BOOLEAN]
  \cup [type : {"SSCP-LU-DATA"}, text : {"LINE", "LOGOFF"}]
  \cup [type : {"3270-DATA", "SYSREQ", "ATTN", "EOF"}]

\* The places of the keys in a channel, and of its records or responses.
Keyed(channel) == {i \in DOMAIN channel : channel[i].type # "RESPONSE"}
Typed(channel, type) == {i \in DOMAIN channel : channel[i].type = type}

\* Types, and that nothing follows a hang-up.
TypeInv ==
  /\ TypeOK /\ StreamInv
  /\ toServer \in Seq(Events)
  /\ naks <= scenario.refusals
  /\ Typed(toServer, "EOF") \subseteq {Len(toServer)}
  /\ \A i \in Typed(toClient, "3270-DATA") : toClient[i].display \in DOMAIN copies

\* The application has one output for every key it has read, the first one,
\* and one for the panel it leaves when the client has hung up.
Answered == pc \notin {"start", "logon"}
Unwound == Event({"EOF"}) /\ shown # "sub"
RoomInv ==
  panel.msg + Cardinality(Keyed(toServer))
    <= keys + (IF Answered THEN 1 ELSE 0) + (IF Unwound THEN 1 ELSE 0)

\* With BIND-IMAGE the BIND is the first message and the UNBIND the last, and
\* a session that has started is bound, or will be once the BIND is read.
WillBind == toClient # <<>> /\ toClient[1].type = "BIND-IMAGE"
BindInv ==
  "BIND-IMAGE" \in functions =>
    /\ pc = "start" => toClient = <<>>
    /\ Typed(toClient, "BIND-IMAGE") \subseteq {1}
    /\ Typed(toClient, "UNBIND") # {} => pc = "ended"
    /\ Typed(toClient, "UNBIND") \subseteq {Len(toClient)}
    /\ pc \notin {"start", "ended"} => termBound \/ WillBind
    /\ Typed(toClient, "3270-DATA") # {} => termBound \/ WillBind

IInv == TypeInv /\ RoomInv /\ BindInv

\* Every number is under way once: those of the responses are below those of
\* the records, both are in order, and a display is under way with the number
\* it is tracked by.  The terminal's acknowledgement of a tracked display is
\* the only answer to it that is under way.
Datas == Typed(toClient, "3270-DATA")
Responses == Typed(toServer, "RESPONSE")
NumbersPast ==
  /\ seq = sends /\ sends <= MaxSends
  /\ \A e \in pending : e.seq <= sends
  /\ \A i \in Responses : toServer[i].seq <= sends
  /\ \A j \in Datas : toClient[j].seq <= sends
DatasOrdered == \A i, j \in Datas : i < j => toClient[i].seq < toClient[j].seq
ResponsesOrdered == \A i, j \in Responses : i < j => toServer[i].seq < toServer[j].seq
ResponsesFirst == \A i \in Responses, j \in Datas : toServer[i].seq < toClient[j].seq
TrackedAsSent ==
  \A e \in pending, j \in Datas : e.display = toClient[j].display => e.seq = toClient[j].seq
AckedOnce ==
  \A e \in pending : e.display \in acked =>
    /\ \A j \in Datas : toClient[j].seq # e.seq
    /\ \A i \in Responses : toServer[i].seq = e.seq => toServer[i].positive

AckInv ==
  "RESPONSES" \in functions =>
    /\ NumbersPast
    /\ DatasOrdered /\ ResponsesOrdered /\ ResponsesFirst
    /\ TrackedAsSent /\ AckedOnce

\* Where a session without a refusal leads: what the terminal shows, and the
\* session it is in, once it has read all that is under way.
Views == [screen : Contents, mode : {"none", "lu", "sscp"}]
Seen(view, message) ==
  CASE message.type = "3270-DATA" ->
         [screen |-> Painted(view.screen, message.data), mode |-> "lu"]
    [] message.type = "SSCP-LU-DATA" -> [screen |-> Nothing, mode |-> "sscp"]
    [] message.type = "UNBIND" -> [view EXCEPT !.mode = "none"]
    [] OTHER -> view

Unfolds(views) ==
  /\ views \in [0 .. Len(toClient) -> Views]
  /\ views[0] = [screen |-> display, mode |-> mode]
  /\ \A i \in 1 .. Len(toClient) : views[i] = Seen(views[i - 1], toClient[i])

Final(view) == \E views : Unfolds(views) /\ views[Len(toClient)] = view

Patched == "SYSREQ" \in scenario.keys /\ scenario.messages
LeadsTo(view) ==
  /\ pc \in {"start", "logon"} => view.mode = "none"
  /\ pc = "lu" => view.mode = "lu" /\ (~Patched => view.screen = panel)
  /\ pc \in {"sscp", "logoff"} => view.mode = "sscp"

SyncInv ==
  naks = 0 =>
    /\ \A i \in Responses : toServer[i].positive
    /\ \E view \in Views : Final(view) /\ LeadsTo(view)

\* A user without SYSREQ never enters the SSCP-LU session.
NeverSuspended ==
  "SYSREQ" \notin scenario.keys =>
    /\ pc \notin {"sscp", "logoff"} /\ mode # "sscp"
    /\ Typed(toClient, "SSCP-LU-DATA") = {}
    /\ Typed(toServer, "SYSREQ") = {} /\ Typed(toServer, "SSCP-LU-DATA") = {}

\* What redisplay sends again restores the panel where it stands, and
\* anywhere if no message is ever patched in.
Restores ==
  pc \in {"lu", "sscp"} =>
    /\ last_screen \in Outputs /\ Painted(panel, last_screen) = panel
    /\ ~scenario.messages => last_screen.op = "EraseWrite"
ScreenInv == NeverSuspended /\ Restores

\* A user who waits for the answer has one line under way, typed in the
\* session that will read it.
WaitInv ==
  ~scenario.typeAhead /\ naks = 0 /\ pc # "ended" =>
    \A i \in Typed(toServer, "3270-DATA") \cup Typed(toServer, "SSCP-LU-DATA") :
      /\ Len(toServer) = 1 /\ toClient = <<>>
      /\ toServer[i].type = "3270-DATA" => pc = "lu"
      /\ toServer[i].type = "SSCP-LU-DATA" => pc \in {"sscp", "logoff"}

-----------------------------------------------------------------------------
(* Channels.                                                               *)

\* Sending on a channel.
LEMMA Grown ==
  ASSUME NEW S, NEW s \in Seq(S), NEW m \in S, NEW t, t = Append(s, m)
  PROVE  /\ t \in Seq(S) /\ t # <<>> /\ Len(s) \in Nat /\ Len(t) = Len(s) + 1
         /\ DOMAIN s = 1 .. Len(s) /\ DOMAIN t = 1 .. Len(t)
         /\ \A i \in DOMAIN s : t[i] = s[i]
         /\ t[Len(t)] = m
BY AppendProperties, LenProperties

\* Receiving from it.
LEMMA Shrunk ==
  ASSUME NEW S, NEW s \in Seq(S), s # <<>>, NEW t, t = Tail(s)
  PROVE  /\ t \in Seq(S) /\ Len(s) \in Nat /\ Len(s) >= 1 /\ Len(t) = Len(s) - 1
         /\ DOMAIN s = 1 .. Len(s) /\ DOMAIN t = 1 .. Len(t)
         /\ \A i \in DOMAIN t : i + 1 \in DOMAIN s /\ t[i] = s[i + 1]
         /\ Head(s) \in S /\ Head(s) = s[1]
<1>1. /\ t \in Seq(S) /\ Len(t) = Len(s) - 1 /\ Len(s) \in Nat
      /\ \A i \in 1 .. Len(t) : t[i] = s[i + 1]
      /\ Head(s) \in S /\ Head(s) = s[1]
  BY HeadTailProperties, LenProperties
<1>2. Len(s) >= 1
  BY <1>1, EmptySeq
<1>3. DOMAIN s = 1 .. Len(s) /\ DOMAIN t = 1 .. Len(t)
  BY <1>1, LenProperties
<1> QED
  BY <1>1, <1>2, <1>3

\* One key more.
LEMMA KeyedGrown ==
  ASSUME NEW s \in Seq(Events), NEW m \in Events
  PROVE  /\ IsFiniteSet(Keyed(s)) /\ Cardinality(Keyed(s)) \in Nat
         /\ Cardinality(Keyed(Append(s, m)))
              = Cardinality(Keyed(s)) + (IF m.type = "RESPONSE" THEN 0 ELSE 1)
<1> DEFINE t == Append(s, m)
           n == Len(s)
<1>1. /\ n \in Nat /\ DOMAIN s = 1 .. n /\ DOMAIN t = 1 .. (n + 1)
      /\ \A i \in 1 .. n : t[i] = s[i]
      /\ t[n + 1] = m
  BY Grown
<1>2. IsFiniteSet(Keyed(s)) /\ Cardinality(Keyed(s)) \in Nat
  <2>1. IsFiniteSet(1 .. n)
    BY <1>1, FS_Interval
  <2>2. Keyed(s) \subseteq 1 .. n
    BY <1>1 DEF Keyed
  <2> QED
    BY <2>1, <2>2, FS_Subset, FS_CardinalityType
<1> HIDE DEF t, n
<1>3. CASE m.type = "RESPONSE"
  <2>1. Keyed(t) = Keyed(s)
    BY <1>1, <1>3 DEF Keyed
  <2> QED
    BY <1>2, <1>3, <2>1 DEF t
<1>4. CASE m.type # "RESPONSE"
  <2>1. Keyed(t) = Keyed(s) \cup {n + 1} /\ n + 1 \notin Keyed(s)
    BY <1>1, <1>4 DEF Keyed
  <2>2. Cardinality(Keyed(t)) = Cardinality(Keyed(s)) + 1
    BY <1>2, <2>1, FS_AddElement
  <2> QED
    BY <1>2, <1>4, <2>2 DEF t
<1> QED
  BY <1>3, <1>4

\* One key less.
LEMMA KeyedShrunk ==
  ASSUME NEW s \in Seq(Events), s # <<>>
  PROVE  /\ Cardinality(Keyed(s)) \in Nat /\ Cardinality(Keyed(Tail(s))) \in Nat
         /\ Cardinality(Keyed(Tail(s))) <= Cardinality(Keyed(s))
         /\ Head(s).type # "RESPONSE" =>
              Cardinality(Keyed(Tail(s))) + 1 <= Cardinality(Keyed(s))
<1> DEFINE t == Tail(s)
           rest == Keyed(s) \ {1}
           f == [i \in Keyed(t) |-> i + 1]
<1>1. /\ t \in Seq(Events) /\ Head(s) \in Events /\ Head(s) = s[1] /\ Len(s) >= 1
      /\ Len(s) \in Nat /\ DOMAIN s = 1 .. Len(s) /\ DOMAIN t = 1 .. Len(t)
      /\ Len(t) = Len(s) - 1
      /\ \A i \in DOMAIN t : i + 1 \in DOMAIN s /\ t[i] = s[i + 1]
  BY Shrunk
<1>2. /\ IsFiniteSet(Keyed(s)) /\ Cardinality(Keyed(s)) \in Nat
      /\ IsFiniteSet(Keyed(t)) /\ Cardinality(Keyed(t)) \in Nat
  BY <1>1, KeyedGrown
<1> HIDE DEF t
<1>3. /\ IsFiniteSet(rest) /\ Cardinality(rest) \in Nat
      /\ Cardinality(rest) = IF 1 \in Keyed(s) THEN Cardinality(Keyed(s)) - 1
                             ELSE Cardinality(Keyed(s))
  BY <1>2, FS_RemoveElement, FS_CardinalityType
<1>4. /\ f \in [Keyed(t) -> rest]
      /\ \A x, y \in Keyed(t) : x # y => f[x] # f[y]
  <2>1. \A i \in Keyed(t) : i \in 1 .. Len(t) /\ i + 1 \in rest
    BY <1>1 DEF Keyed
  <2> QED
    BY <2>1, <1>1
<1> HIDE DEF f, rest
<1>5. ~(Cardinality(rest) < Cardinality(Keyed(t)))
  BY <1>2, <1>3, <1>4, FS_PigeonHole
<1>6. Head(s).type # "RESPONSE" => 1 \in Keyed(s)
  BY <1>1 DEF Keyed
<1> QED
  BY <1>2, <1>3, <1>5, <1>6 DEF t

\* What the fields of an event are.
LEMMA EventFields ==
  ASSUME NEW m \in Events
  PROVE  /\ m.type \in {"RESPONSE", "SSCP-LU-DATA", "3270-DATA", "SYSREQ", "ATTN", "EOF"}
         /\ m.type = "RESPONSE" => m.seq \in SeqNumbers /\ m.positive \in BOOLEAN
         /\ m.type = "SSCP-LU-DATA" => m.text \in {"LINE", "LOGOFF"}
BY DEF Events

\* And those of a message to the terminal.
LEMMA MessageFields ==
  ASSUME NEW m \in Messages
  PROVE  /\ m.type \in {"3270-DATA", "BIND-IMAGE", "UNBIND", "SSCP-LU-DATA"}
         /\ m.type = "3270-DATA" => /\ m.ack \in BOOLEAN /\ m.seq \in SeqNumbers
                                    /\ m.data \in Screens /\ m.display \in Nat \ {0}
BY DEF Messages

-----------------------------------------------------------------------------
(* Screens.                                                                *)

\* What painting makes of a terminal, or of what the application believes.
LEMMA PaintedContents ==
  ASSUME NEW c \in Contents, NEW out \in Outputs
  PROVE  /\ Painted(c, out) \in Contents /\ Painted(c, out).msg = out.id
         /\ Painted(Painted(c, out), out) = Painted(c, out)
         /\ out.op = "EraseWrite" => \A d \in Contents : Painted(d, out) = Painted(c, out)
<1>1. out.id \in 0 .. (MaxKeys + 2)
  BY BoundsAssumption DEF Outputs
<1> QED
  BY <1>1 DEF Painted, Contents

\* The application has an output left for every key.
LEMMA RoomLeft ==
  ASSUME TypeInv, RoomInv
  PROVE  /\ panel \in Contents /\ panel.msg \in Nat /\ keys \in Nat /\ keys <= MaxKeys
         /\ Cardinality(Keyed(toServer)) \in Nat
         /\ NextId \in 1 .. (MaxKeys + 2)
<1>1. /\ panel \in Contents /\ keys \in 0 .. MaxKeys /\ toServer \in Seq(Events)
  BY DEF TypeInv, TypeOK
<1>2. panel.msg \in Nat /\ keys \in Nat /\ keys <= MaxKeys
  BY <1>1, BoundsAssumption DEF Contents
<1>3. IsFiniteSet(Keyed(toServer)) /\ Cardinality(Keyed(toServer)) \in Nat
  <2>1. CASE toServer = <<>>
    <3>1. Keyed(toServer) = {}
      BY <2>1 DEF Keyed
    <3> QED
      BY <3>1, FS_EmptySet
  <2>2. CASE toServer # <<>>
    <3>1. \E m : m \in Events
      BY <1>1, <2>2, Shrunk
    <3> QED
      BY <1>1, <3>1, KeyedGrown
  <2> QED
    BY <2>1, <2>2
<1>4. Unwound => Cardinality(Keyed(toServer)) >= 1
  <2> HAVE Unwound
  <2>1. 1 \in Keyed(toServer)
    BY <1>1, Shrunk DEF Unwound, Event, Keyed
  <2>2. Cardinality(Keyed(toServer)) # 0
    BY <1>3, <2>1, FS_EmptySet
  <2> QED
    BY <1>3, <2>2
<1>5. panel.msg <= keys + 1
  BY <1>2, <1>3, <1>4 DEF RoomInv
<1> QED
  BY <1>1, <1>2, <1>3, <1>5, BoundsAssumption DEF NextId

\* An output of the application.
LEMMA Shown ==
  ASSUME TypeInv, RoomInv, NEW op \in {"EraseWrite", "Write"}, Show(op)
  PROVE  LET out == [op |-> op, id |-> NextId]
         IN /\ out \in Outputs /\ out \in Screens /\ Sendall(out) /\ last_screen' = out
            /\ panel' = Painted(panel, out) /\ panel' \in Contents
            /\ panel'.msg = panel.msg + 1
<1> DEFINE out == [op |-> op, id |-> NextId]
<1>1. panel \in Contents /\ panel.msg \in Nat /\ NextId \in 1 .. (MaxKeys + 2)
  BY RoomLeft
<1>2. out \in Outputs /\ out.id = panel.msg + 1
  BY <1>1 DEF Outputs, NextId
<1>3. Sendall(out) /\ panel' = Painted(panel, out)
  BY DEF Show
<1>4. last_screen' = out
  BY <1>3 DEF Sendall
<1> HIDE DEF out
<1>5. panel' \in Contents /\ panel'.msg = panel.msg + 1
  BY <1>1, <1>2, <1>3, PaintedContents
<1> QED
  BY <1>2, <1>3, <1>4, <1>5, ScreensAssumption DEF out

\* A record put on the wire, and what the map may hold then.
LEMMA RecordSent ==
  ASSUME TypeInv, NEW entries, NEW data \in Screens, NEW retries, NEW k \in Nat \ {0},
         SendRecord(entries, data, retries, k)
  PROVE  /\ \E m \in Messages :
              /\ toClient' = Append(toClient, m) /\ m.type = "3270-DATA"
              /\ m.data = data /\ m.display = k
              /\ "RESPONSES" \in functions => m.seq = NextSeq
         /\ sends < MaxSends /\ sends' = sends + 1
         /\ "RESPONSES" \in functions =>
              /\ seq' = NextSeq
              /\ \A e \in pending' : e \in entries \/ (e.display = k /\ e.seq = NextSeq)
<1>1. seq \in SeqNumbers /\ NextSeq \in SeqNumbers /\ 0 \in SeqNumbers
  <2>1. seq \in SeqNumbers
    BY DEF TypeInv, TypeOK, StreamTypeOK
  <2>2. Base * Base \in Nat /\ Base * Base > 0
    BY BaseAssumption
  <2> QED
    BY <2>1, <2>2, NextSeqType DEF SeqNumbers
<1>2. \A s \in SeqNumbers : DataMessage(s, data, k) \in Messages
  BY DEF DataMessage, Messages
<1>3. \A s \in SeqNumbers :
        LET m == DataMessage(s, data, k)
        IN m.type = "3270-DATA" /\ m.data = data /\ m.display = k /\ m.seq = s
  BY DEF DataMessage
<1>4. /\ sends < MaxSends /\ sends' = sends + 1
      /\ toClient' = Append(toClient, DataMessage(
                       IF "RESPONSES" \in functions THEN NextSeq ELSE 0, data, k))
      /\ "RESPONSES" \in functions =>
           /\ seq' = NextSeq
           /\ pending' = Capped(Insert(entries, NextSeq, data, retries, k))
  BY DEF SendRecord, Write
<1>5. \A e \in Insert(entries, NextSeq, data, retries, k) :
        e \in entries \/ (e.display = k /\ e.seq = NextSeq)
  BY DEF Insert
<1>6. \A set : Capped(set) \subseteq set
  BY DEF Capped
<1> QED
  BY <1>1, <1>2, <1>3, <1>4, <1>5, <1>6

\* The record holds the screen it was given.
LEMMA RecordHolds ==
  ASSUME TypeInv, NEW entries, NEW data \in Screens, NEW retries, NEW k \in Nat \ {0},
         SendRecord(entries, data, retries, k)
  PROVE  \E m \in Messages :
           toClient' = Append(toClient, m) /\ m.type = "3270-DATA" /\ m.data = data
BY RecordSent

\* Every step of a session is a step of the stream or leaves it alone.
LEMMA StreamSteps ==
  ASSUME TypeInv, RoomInv, [Next]_vars
  PROVE  [StreamNext]_streamVars
<1>1. ASSUME NEW op \in {"EraseWrite", "Write"}, Show(op)
      PROVE  StreamNext
  BY <1>1, Shown DEF StreamNext
<1>2. CASE UNCHANGED streamVars
  BY <1>2
<1>3. CASE FirstScreen \/ AppRepaints \/ AppPatches \/ UnwindPanel
  BY <1>1, <1>3 DEF FirstScreen, AppRepaints, AppPatches, UnwindPanel
<1>4. CASE Bind
  BY <1>4 DEF Bind, StreamNext
<1>5. CASE TakeResponse
  <2>1. toServer # <<>> /\ Head(toServer).type = "RESPONSE"
        /\ OnResponse(Head(toServer).seq, Head(toServer).positive)
    BY <1>5 DEF TakeResponse, Event
  <2>2. Head(toServer).seq \in SeqNumbers /\ Head(toServer).positive \in BOOLEAN
    BY <2>1, Shrunk, EventFields DEF TypeInv
  <2> QED
    BY <2>1, <2>2 DEF StreamNext
<1>6. CASE Attention \/ Resume
  BY <1>6 DEF Attention, Resume, StreamNext
<1>7. CASE Suspend \/ Logoff \/ Unrecognized \/ Unbind
  BY <1>7 DEF Suspend, Logoff, Unrecognized, Unbind, StreamNext
<1>8. CASE Terminal
  BY <1>8 DEF Terminal, PaintScreen, RefuseScreen, ShowSscp, TakeBind, TakeUnbind, Receive,
              StreamNext
<1>9. CASE AppEnds \/ IgnoreAttention \/ Disconnected \/ Broken
  BY <1>9 DEF AppEnds, IgnoreAttention, Disconnected, Broken
<1>10. CASE User
  BY <1>10 DEF User, PressAid, EnterLine, PressSysreq, PressAttn, HangUp, Press
<1>11. CASE UNCHANGED vars
  BY <1>11 DEF vars
<1> QED
  BY <1>2, <1>3, <1>4, <1>5, <1>6, <1>7, <1>8, <1>9, <1>10, <1>11 DEF Next, Server

-----------------------------------------------------------------------------
(* Types.                                                                  *)

\* What StreamNext does to the wire and to the count of copies.
LEMMA WireKept ==
  ASSUME TypeInv, [StreamNext]_streamVars
  PROVE  /\ StreamInv' /\ DOMAIN copies \subseteq DOMAIN copies' /\ UNCHANGED functions
         /\ \A i \in Typed(toClient', "3270-DATA") : toClient'[i].display \in DOMAIN copies'
<1> DEFINE Good ==
             /\ DOMAIN copies \subseteq DOMAIN copies'
             /\ \A i \in Typed(toClient', "3270-DATA") : toClient'[i].display \in DOMAIN copies'
<1>1. StreamInv' /\ toClient \in Seq(Messages) /\ copies \in Seq(Nat)
  BY StepKeepsInv DEF TypeInv, TypeOK, StreamTypeOK
<1>2. UNCHANGED functions
  BY FunctionsFixed DEF streamVars
<1>3. ASSUME NEW m \in Messages, toClient' = Append(toClient, m),
             DOMAIN copies \subseteq DOMAIN copies',
             m.type = "3270-DATA" => m.display \in DOMAIN copies'
      PROVE  Good
  <2>1. /\ DOMAIN toClient = 1 .. Len(toClient) /\ DOMAIN toClient' = 1 .. Len(toClient')
        /\ Len(toClient') = Len(toClient) + 1 /\ Len(toClient) \in Nat
        /\ \A i \in DOMAIN toClient : toClient'[i] = toClient[i]
        /\ toClient'[Len(toClient')] = m
    BY <1>1, <1>3, Grown
  <2>2. \A i \in DOMAIN toClient' : i \in DOMAIN toClient \/ i = Len(toClient')
    BY <2>1
  <2> QED
    BY <1>3, <2>1, <2>2 DEF Typed, TypeInv
<1>4. ASSUME NEW data \in Screens, Sendall(data)
      PROVE  Good
  <2>1. /\ copies' = Append(copies, 1) /\ SendRecord(pending, data, 0, Len(copies) + 1)
        /\ Len(copies) + 1 \in Nat \ {0}
    BY <1>1, <1>4, LenProperties DEF Sendall
  <2>2. /\ DOMAIN copies \subseteq DOMAIN copies' /\ Len(copies) + 1 \in DOMAIN copies'
    BY <1>1, <2>1, Grown, 1 \in Nat
  <2>3. PICK m \in Messages : toClient' = Append(toClient, m) /\ m.display = Len(copies) + 1
    BY <2>1, RecordSent
  <2> QED
    BY <1>3, <2>2, <2>3
<1>5. ASSUME NEW e \in pending, Retransmit(e)
      PROVE  Good
  <2>1. /\ e \in Entries /\ e.display \in DOMAIN copies
    BY DEF TypeInv, StreamInv, StreamTypeOK, RetriesCounted
  <2>2. DOMAIN copies' = DOMAIN copies
    BY <1>1, <1>5 DEF Retransmit
  <2>3. SendRecord(pending \ {e}, e.data, e.retries + 1, e.display)
    BY <1>5 DEF Retransmit
  <2>4. e.display \in Nat \ {0} /\ e.data \in Screens
    BY <2>1 DEF Entries
  <2>5. ASSUME NEW data \in Screens, NEW k \in Nat \ {0}, NEW entries, NEW retries,
               SendRecord(entries, data, retries, k)
        PROVE  \E m \in Messages : toClient' = Append(toClient, m) /\ m.display = k
    BY <2>5, RecordSent
  <2>6. PICK m \in Messages : toClient' = Append(toClient, m) /\ m.display = e.display
    BY <2>3, <2>4, <2>5
  <2> QED
    BY <1>3, <2>1, <2>2, <2>6
<1>6. ASSUME NEW m \in Messages, m.type # "3270-DATA", Write(m), UNCHANGED copies
      PROVE  Good
  BY <1>3, <1>6 DEF Write
<1>7. ASSUME UNCHANGED <<toClient, copies>>
      PROVE  Good
  BY <1>7, Zenon DEF TypeInv
<1>8. ASSUME Deliver
      PROVE  Good
  <2>1. /\ \A i \in DOMAIN toClient' : i + 1 \in DOMAIN toClient /\ toClient'[i] = toClient[i + 1]
        /\ copies' = copies
    BY <1>1, <1>8, Shrunk DEF Deliver
  <2> QED
    BY <2>1 DEF Typed, TypeInv
<1>9. ASSUME Redisplay
      PROVE  Good
  <2>1. last_screen \in Screens \cup {NoScreen}
    BY DEF TypeInv, TypeOK, StreamTypeOK
  <2>2. CASE last_screen = NoScreen
    BY <1>7, <1>9, <2>2 DEF Redisplay, streamVars
  <2>3. CASE last_screen # NoScreen
    BY <1>4, <1>9, <2>1, <2>3 DEF Redisplay
  <2> QED
    BY <2>2, <2>3
<1>10. ASSUME NEW s, NEW positive, OnResponse(s, positive)
       PROVE  Good
  <2>1. CASE \E e \in pending : Retransmit(e)
    BY <1>5, <2>1
  <2>2. CASE Settle(Entry(AsRead(s)))
    BY <1>7, <2>2 DEF Settle
  <2> QED
    BY <1>10, <2>1, <2>2 DEF OnResponse, Entry
<1>11. ASSUME SendBind \/ SendSscp \/ SendUnbind
       PROVE  Good
  <2>1. /\ [type |-> "BIND-IMAGE"] \in Messages /\ [type |-> "SSCP-LU-DATA"] \in Messages
        /\ [type |-> "UNBIND"] \in Messages
    BY DEF Messages
  <2> QED
    BY <1>6, <1>11, <2>1 DEF SendBind, SendSscp, SendUnbind
<1>12. ASSUME UNCHANGED streamVars
       PROVE  Good
  BY <1>7, <1>12 DEF streamVars
<1> QED
  BY <1>1, <1>2, <1>4, <1>8, <1>9, <1>10, <1>11, <1>12 DEF StreamNext

\* Reading from the terminal's channel.
LEMMA ConsumedKeeps ==
  ASSUME TypeInv, toServer # <<>>, toServer' = Tail(toServer)
  PROVE  toServer' \in Seq(Events) /\ Typed(toServer', "EOF") \subseteq {Len(toServer')}
<1>1. /\ toServer' \in Seq(Events) /\ Len(toServer') = Len(toServer) - 1 /\ Len(toServer) \in Nat
      /\ DOMAIN toServer' = 1 .. Len(toServer')
      /\ \A i \in DOMAIN toServer' : i + 1 \in DOMAIN toServer /\ toServer'[i] = toServer[i + 1]
  BY Shrunk DEF TypeInv
<1>2. ASSUME NEW i \in Typed(toServer', "EOF")
      PROVE  i = Len(toServer) - 1
  <2>1. i \in 1 .. Len(toServer') /\ i + 1 \in Typed(toServer, "EOF")
    BY <1>1 DEF Typed
  <2>2. i + 1 = Len(toServer)
    BY <2>1 DEF TypeInv
  <2>3. i \in Int /\ Len(toServer) \in Int
    BY <1>1, <2>1
  <2> HIDE DEF Typed
  <2> QED
    BY <2>2, <2>3
<1> QED
  BY <1>1, <1>2

\* Sending on it, which nobody does after a hang-up.
LEMMA SaidKeeps ==
  ASSUME TypeInv, ~HungUp, NEW m \in Events, toServer' = Append(toServer, m)
  PROVE  toServer' \in Seq(Events) /\ Typed(toServer', "EOF") \subseteq {Len(toServer')}
<1>1. /\ toServer' \in Seq(Events) /\ Len(toServer') = Len(toServer) + 1 /\ Len(toServer) \in Nat
      /\ DOMAIN toServer = 1 .. Len(toServer) /\ DOMAIN toServer' = 1 .. Len(toServer')
      /\ \A i \in DOMAIN toServer : toServer'[i] = toServer[i]
  BY Grown DEF TypeInv
<1>2. \A i \in DOMAIN toServer' : i \in DOMAIN toServer \/ i = Len(toServer')
  BY <1>1
<1> QED
  BY <1>1, <1>2 DEF Typed, HungUp

\* What the terminal answers a record with.
LEMMA Answered1 ==
  ASSUME TypeInv, ~HungUp, toClient # <<>>, Head(toClient).type = "3270-DATA",
         NEW positive \in BOOLEAN, Answer(Head(toClient), positive)
  PROVE  /\ toServer' \in Seq(Events) /\ Typed(toServer', "EOF") \subseteq {Len(toServer')}
         /\ \/ toServer' = toServer
            \/ \E m \in Events : m.type = "RESPONSE" /\ toServer' = Append(toServer, m)
<1>1. Head(toClient) \in Messages
  BY Shrunk DEF TypeInv, TypeOK, StreamTypeOK
<1> DEFINE m == [type |-> "RESPONSE", seq |-> Head(toClient).seq, positive |-> positive]
<1>2. m \in Events
  BY <1>1, MessageFields DEF Events
<1>3. toServer' = toServer \/ toServer' = Append(toServer, m)
  BY DEF Answer
<1>4. m.type = "RESPONSE"
  OBVIOUS
<1> HIDE DEF m
<1> QED
  BY <1>2, <1>3, <1>4, SaidKeeps DEF TypeInv

-----------------------------------------------------------------------------
(* Who changes what.                                                       *)

\* The server touches nothing of the terminal's, and at most reads one event.
LEMMA ServerFrame ==
  ASSUME Server \/ Broken
  PROVE  /\ UNCHANGED <<termVars, keys, scenario>>
         /\ pc # "ended"
         /\ \/ /\ toServer # <<>> /\ toServer' = Tail(toServer)
               /\ pc \in {"lu", "sscp"}
            \/ /\ toServer' = toServer
               /\ Bind \/ FirstScreen \/ Unbind \/ UnwindPanel \/ Broken
<1>1. CASE Bind \/ FirstScreen \/ Unbind \/ UnwindPanel \/ Broken
  BY <1>1 DEF Bind, FirstScreen, Unbind, UnwindPanel, Broken
<1>2. CASE AppRepaints \/ AppPatches \/ AppEnds \/ Disconnected
  BY <1>2 DEF AppRepaints, AppPatches, AppEnds, Disconnected, Event, Consume
<1>3. CASE TakeResponse \/ Attention \/ IgnoreAttention \/ Unrecognized
  BY <1>3 DEF TakeResponse, Attention, IgnoreAttention, Unrecognized, Event, Consume, hostVars
<1>4. CASE Suspend \/ Resume \/ Logoff
  BY <1>4 DEF Suspend, Resume, Logoff, Event, Consume
<1> QED
  BY <1>1, <1>2, <1>3, <1>4 DEF Server

\* What the server may write, and when.
LEMMA ServerWrites ==
  ASSUME TypeInv, RoomInv, Server \/ Broken
  PROVE  \/ toClient' = toClient
         \/ \E m \in Messages :
              /\ toClient' = Append(toClient, m)
              /\ m.type = "BIND-IMAGE" => pc = "start"
              /\ m.type = "3270-DATA" => pc # "start"
              /\ m.type = "UNBIND" => pc' = "ended"
              /\ m.type = "SSCP-LU-DATA" => Suspend \/ Logoff \/ Unrecognized
<1> DEFINE Written(type) == \E m \in Messages : toClient' = Append(toClient, m) /\ m.type = type
<1>1. \A data \in Screens, k \in Nat \ {0} : \A entries, retries :
        SendRecord(entries, data, retries, k) => Written("3270-DATA")
  BY RecordSent
<1>2. ASSUME NEW op \in {"EraseWrite", "Write"}, Show(op)
      PROVE  Written("3270-DATA")
  <2>1. PICK out \in Screens : Sendall(out)
    BY <1>2, Shown
  <2>2. SendRecord(pending, out, 0, Len(copies) + 1) /\ Len(copies) + 1 \in Nat \ {0}
    BY <2>1, LenProperties DEF Sendall, TypeInv, TypeOK, StreamTypeOK
  <2> QED
    BY <1>1, <2>2
<1>3. ASSUME Redisplay
      PROVE  toClient' = toClient \/ Written("3270-DATA")
  <2>1. CASE last_screen = NoScreen
    BY <1>3, <2>1 DEF Redisplay, streamVars
  <2>2. CASE last_screen # NoScreen
    <3>1. Sendall(last_screen) /\ last_screen \in Screens
      BY <1>3, <2>2 DEF Redisplay, TypeInv, TypeOK, StreamTypeOK
    <3>2. SendRecord(pending, last_screen, 0, Len(copies) + 1) /\ Len(copies) + 1 \in Nat \ {0}
      BY <3>1, LenProperties DEF Sendall, TypeInv, TypeOK, StreamTypeOK
    <3> QED
      BY <1>1, <3>1, <3>2
  <2> QED
    BY <2>1, <2>2
<1>4. ASSUME NEW s, NEW positive, OnResponse(s, positive)
      PROVE  toClient' = toClient \/ Written("3270-DATA")
  <2>1. ASSUME NEW e \in pending, Retransmit(e)
        PROVE  Written("3270-DATA")
    <3>1. SendRecord(pending \ {e}, e.data, e.retries + 1, e.display)
      BY <2>1 DEF Retransmit
    <3>2. e.data \in Screens /\ e.display \in Nat \ {0}
      BY DEF TypeInv, TypeOK, StreamTypeOK, Entries
    <3> QED
      BY <1>1, <3>1, <3>2
  <2>2. ASSUME NEW entries, Settle(entries)
        PROVE  toClient' = toClient
    BY <2>2 DEF Settle
  <2> QED
    BY <1>4, <2>1, <2>2 DEF OnResponse, Entry
<1>5. /\ [type |-> "BIND-IMAGE"] \in Messages /\ [type |-> "SSCP-LU-DATA"] \in Messages
      /\ [type |-> "UNBIND"] \in Messages
  BY DEF Messages
<1>6. /\ SendBind => Written("BIND-IMAGE")
      /\ SendSscp => Written("SSCP-LU-DATA")
      /\ SendUnbind => Written("UNBIND")
  BY <1>5 DEF SendBind, SendSscp, SendUnbind, Write
<1> HIDE DEF Written
<1>7. \/ toClient' = toClient
      \/ Written("SSCP-LU-DATA") /\ (Suspend \/ Logoff \/ Unrecognized)
      \/ Written("BIND-IMAGE") /\ pc = "start"
      \/ Written("3270-DATA") /\ pc # "start"
      \/ Written("UNBIND") /\ pc' = "ended"
  <2>1. CASE Bind
    BY <1>6, <2>1 DEF Bind, streamVars
  <2>2. CASE FirstScreen \/ AppRepaints \/ AppPatches \/ UnwindPanel
    BY <1>2, <2>2 DEF FirstScreen, AppRepaints, AppPatches, UnwindPanel
  <2>3. CASE TakeResponse
    BY <1>4, <2>3 DEF TakeResponse
  <2>4. CASE Attention \/ Resume
    BY <1>3, <2>4 DEF Attention, Resume
  <2>5. CASE Suspend \/ Logoff \/ Unrecognized \/ Unbind
    BY <1>6, <2>5 DEF Suspend, Logoff, Unrecognized, Unbind
  <2>6. CASE AppEnds \/ IgnoreAttention \/ Disconnected \/ Broken
    BY <2>6 DEF AppEnds, IgnoreAttention, Disconnected, Broken, streamVars
  <2> QED
    BY <2>1, <2>2, <2>3, <2>4, <2>5, <2>6 DEF Server
<1>8. \A type : Written(type) =>
        \E m \in Messages : toClient' = Append(toClient, m) /\ m.type = type
  BY DEF Written
<1>9. CASE toClient' = toClient
  BY <1>9
<1>10. CASE toClient' # toClient
  <2>1. PICK type \in {"SSCP-LU-DATA", "BIND-IMAGE", "3270-DATA", "UNBIND"} :
               /\ Written(type)
               /\ type = "BIND-IMAGE" => pc = "start"
               /\ type = "3270-DATA" => pc # "start"
               /\ type = "UNBIND" => pc' = "ended"
               /\ type = "SSCP-LU-DATA" => Suspend \/ Logoff \/ Unrecognized
    BY <1>7, <1>10
  <2> QED
    BY <1>8, <2>1
<1> QED
  BY <1>9, <1>10

\* The terminal reads one message, and at most answers it.
LEMMA TerminalFrame ==
  ASSUME TypeInv, Terminal
  PROVE  /\ UNCHANGED <<hostVars, keys>> /\ ~HungUp
         /\ toClient # <<>> /\ toClient' = Tail(toClient)
         /\ UNCHANGED <<functions, bound, seq, last_screen, pending, sends, copies>>
         /\ toServer' \in Seq(Events) /\ Typed(toServer', "EOF") \subseteq {Len(toServer')}
         /\ \/ toServer' = toServer
            \/ \E m \in Events : m.type = "RESPONSE" /\ toServer' = Append(toServer, m)
<1>1. /\ UNCHANGED <<hostVars, keys>> /\ ~HungUp
      /\ toClient # <<>> /\ toClient' = Tail(toClient)
      /\ UNCHANGED <<functions, bound, seq, last_screen, pending, sends, copies>>
  BY DEF Terminal, PaintScreen, RefuseScreen, ShowSscp, TakeBind, TakeUnbind, Arrives, Receive,
         Deliver
<1>2. CASE PaintScreen \/ RefuseScreen
  <2>1. \E positive \in BOOLEAN : Answer(Head(toClient), positive)
    BY <1>2 DEF PaintScreen, RefuseScreen
  <2>2. Head(toClient).type = "3270-DATA"
    BY <1>2 DEF PaintScreen, RefuseScreen, Arrives
  <2> QED
    BY <1>1, <2>1, <2>2, Answered1
<1>3. CASE ShowSscp \/ TakeBind \/ TakeUnbind
  BY <1>1, <1>3 DEF ShowSscp, TakeBind, TakeUnbind, TypeInv
<1> QED
  BY <1>2, <1>3 DEF Terminal

\* The user adds one key, and nothing after a hang-up.
LEMMA UserFrame ==
  ASSUME TypeInv, User
  PROVE  /\ UNCHANGED <<streamVars, hostVars, display, mode, termBound, acked, naks>>
         /\ ~HungUp /\ keys \in Nat /\ keys < MaxKeys /\ keys' = keys + 1
         /\ locked' \in BOOLEAN
         /\ \E m \in Events : m.type # "RESPONSE" /\ toServer' = Append(toServer, m)
<1>1. locked \in BOOLEAN /\ keys \in Nat /\ scenario.presses \in 0 .. MaxKeys
  BY BoundsAssumption, ScenariosAssumption DEF TypeInv, TypeOK, ScenarioKinds
<1>2. ASSUME NEW key, NEW m \in Events, m.type # "RESPONSE", Press(key, m)
      PROVE  /\ UNCHANGED <<streamVars, hostVars, display, mode, termBound, acked, naks>>
             /\ ~HungUp /\ keys \in Nat /\ keys < MaxKeys /\ keys' = keys + 1
             /\ \E n \in Events : n.type # "RESPONSE" /\ toServer' = Append(toServer, n)
  BY <1>1, <1>2, BoundsAssumption DEF Press
<1>3. /\ \A type \in {"3270-DATA", "SYSREQ", "ATTN", "EOF"} : [type |-> type] \in Events
      /\ \A key \in {"LINE", "LOGOFF"} : [type |-> "SSCP-LU-DATA", text |-> key] \in Events
  BY DEF Events
<1>4. CASE PressAid
  BY <1>2, <1>3, <1>4 DEF PressAid
<1>5. ASSUME NEW key \in {"LINE", "LOGOFF"}, EnterLine(key)
      PROVE  /\ locked' = TRUE
             /\ \E m \in Events : m.type # "RESPONSE" /\ Press(key, m)
  <2>1. [type |-> "SSCP-LU-DATA", text |-> key].type # "RESPONSE"
    OBVIOUS
  <2> QED
    BY <1>3, <1>5, <2>1 DEF EnterLine
<1>6. CASE PressSysreq \/ PressAttn \/ HangUp
  BY <1>1, <1>2, <1>3, <1>6 DEF PressSysreq, PressAttn, HangUp
<1> QED
  BY <1>2, <1>4, <1>5, <1>6 DEF User

-----------------------------------------------------------------------------
(* The invariant IInv.                                                     *)

\* Every step keeps the types, and the end of a session last.
LEMMA TypeKept ==
  ASSUME TypeInv, RoomInv, [Next]_vars
  PROVE  TypeInv'
<1>1. /\ StreamInv' /\ DOMAIN copies \subseteq DOMAIN copies'
      /\ \A i \in Typed(toClient', "3270-DATA") : toClient'[i].display \in DOMAIN copies'
  BY StreamSteps, WireKept
<1>2. /\ toServer \in Seq(Events) /\ Typed(toServer, "EOF") \subseteq {Len(toServer)}
      /\ scenario \in Scenarios /\ naks \in 0 .. MaxNaks /\ naks <= scenario.refusals
      /\ panel \in Contents /\ display \in Contents /\ shown \in Panels
      /\ pc \in {"start", "logon", "lu", "sscp", "logoff", "ended"}
      /\ mode \in {"none", "lu", "sscp"} /\ termBound \in BOOLEAN /\ locked \in BOOLEAN
      /\ acked \subseteq DOMAIN copies /\ keys \in 0 .. MaxKeys
  BY DEF TypeInv, TypeOK
<1> DEFINE Host == /\ panel' \in Contents /\ shown' \in Panels
                   /\ pc' \in {"start", "logon", "lu", "sscp", "logoff", "ended"}
           Term == /\ display' \in Contents /\ mode' \in {"none", "lu", "sscp"}
                   /\ termBound' \in BOOLEAN /\ locked' \in BOOLEAN
                   /\ acked' \subseteq DOMAIN copies'
                   /\ naks' \in 0 .. MaxNaks /\ naks' <= scenario.refusals
           Read == toServer' \in Seq(Events) /\ Typed(toServer', "EOF") \subseteq {Len(toServer')}
<1>3. scenario' = scenario /\ keys' \in 0 .. MaxKeys
  <2>1. CASE Server \/ Broken
    BY <1>2, <2>1, ServerFrame
  <2>2. CASE Terminal
    BY <1>2, <2>2, TerminalFrame DEF hostVars
  <2>3. CASE User
    BY <2>3, UserFrame, BoundsAssumption DEF hostVars
  <2>4. CASE UNCHANGED vars
    BY <1>2, <2>4 DEF vars, hostVars
  <2> QED
    BY <2>1, <2>2, <2>3, <2>4 DEF Next
<1>4. Read
  <2>1. CASE Server \/ Broken
    <3>1. CASE toServer' = toServer
      BY <1>2, <3>1
    <3>2. CASE toServer # <<>> /\ toServer' = Tail(toServer)
      BY <3>2, ConsumedKeeps
    <3> QED
      BY <2>1, <3>1, <3>2, ServerFrame
  <2>2. CASE Terminal
    BY <2>2, TerminalFrame
  <2>3. CASE User
    BY <2>3, UserFrame, SaidKeeps
  <2>4. CASE UNCHANGED vars
    BY <1>2, <2>4 DEF vars
  <2> QED
    BY <2>1, <2>2, <2>3, <2>4 DEF Next
<1>5. Host
  <2>1. CASE Terminal \/ User
    BY <1>2, <2>1, TerminalFrame, UserFrame DEF hostVars
  <2>2. CASE UNCHANGED vars
    BY <1>2, <2>2 DEF vars, hostVars
  <2>3. CASE Broken
    BY <1>2, <2>3 DEF Broken
  <2>4. CASE FirstScreen \/ AppRepaints \/ AppPatches \/ UnwindPanel
    <3>1. panel' \in Contents
      BY <2>4, Shown DEF FirstScreen, AppRepaints, AppPatches, UnwindPanel
    <3> QED
      BY <1>2, <2>4, <3>1 DEF FirstScreen, AppRepaints, AppPatches, UnwindPanel, Panels
  <2>5. CASE Bind \/ AppEnds \/ Suspend \/ Resume \/ Logoff \/ Unbind \/ Disconnected
    BY <1>2, <2>5 DEF Bind, AppEnds, Suspend, Resume, Logoff, Unbind, Disconnected
  <2>6. CASE TakeResponse \/ Attention \/ IgnoreAttention \/ Unrecognized
    BY <1>2, <2>6 DEF TakeResponse, Attention, IgnoreAttention, Unrecognized, hostVars
  <2> QED
    BY <2>1, <2>2, <2>3, <2>4, <2>5, <2>6 DEF Next, Server
<1>6. Term
  <2>1. CASE UNCHANGED termVars
    BY <1>1, <1>2, <2>1 DEF termVars
  <2>2. CASE User
    BY <1>1, <1>2, <2>2, UserFrame
  <2>3. CASE PaintScreen
    <3> DEFINE m == Head(toClient)
    <3>1. /\ m \in Messages /\ m = toClient[1] /\ m.type = "3270-DATA"
          /\ 1 \in Typed(toClient, "3270-DATA")
      BY <2>3, Shrunk DEF PaintScreen, Arrives, TypeInv, TypeOK, StreamTypeOK, Typed
    <3>2. m.data \in Outputs /\ m.display \in DOMAIN copies
      BY <3>1, MessageFields, ScreensAssumption DEF TypeInv
    <3>3. display' \in Contents
      BY <1>2, <2>3, <3>2, PaintedContents DEF PaintScreen
    <3>4. acked' \subseteq DOMAIN copies'
      BY <1>1, <1>2, <2>3, <3>2 DEF PaintScreen
    <3> QED
      BY <1>2, <2>3, <3>3, <3>4 DEF PaintScreen
  <2>4. CASE RefuseScreen
    <3>1. scenario.refusals \in 0 .. MaxNaks
      BY <1>2, ScenariosAssumption DEF ScenarioKinds
    <3>2. naks' \in 0 .. MaxNaks /\ naks' <= scenario.refusals
      BY <1>2, <2>4, <3>1, BoundsAssumption DEF RefuseScreen
    <3> QED
      BY <1>1, <1>2, <2>4, <3>2 DEF RefuseScreen
  <2>5. CASE ShowSscp \/ TakeBind \/ TakeUnbind
    <3>1. Nothing \in Contents
      BY BoundsAssumption DEF Nothing, Contents
    <3> QED
      BY <1>1, <1>2, <2>5, <3>1 DEF ShowSscp, TakeBind, TakeUnbind
  <2> QED
    BY <2>1, <2>2, <2>3, <2>4, <2>5, ServerFrame DEF Next, Terminal, vars
<1> HIDE DEF Host, Term, Read
<1>7. StreamTypeOK'
  BY <1>1 DEF StreamInv
<1>8. TypeOK'
  BY <1>2, <1>3, <1>5, <1>6, <1>7 DEF TypeOK, Host, Term
<1> QED
  BY <1>1, <1>3, <1>4, <1>6, <1>8 DEF TypeInv, Term, Read

\* Every step leaves the application an output for every key under way.
LEMMA RoomKept ==
  ASSUME TypeInv, RoomInv, [Next]_vars
  PROVE  RoomInv'
<1> DEFINE k == Cardinality(Keyed(toServer))
           a == IF Answered THEN 1 ELSE 0
           u == IF Unwound THEN 1 ELSE 0
<1>1. /\ panel.msg \in Nat /\ keys \in Nat /\ k \in Nat
      /\ a \in 0 .. 1 /\ u \in 0 .. 1 /\ panel.msg + k <= keys + a + u
  BY RoomLeft DEF RoomInv
<1>2. /\ k' = Cardinality(Keyed(toServer'))
      /\ a' = IF pc' \notin {"start", "logon"} THEN 1 ELSE 0
      /\ u' = IF Unwound' THEN 1 ELSE 0
      /\ (RoomInv' <=> panel'.msg + k' <= keys' + a' + u')
  BY DEF Keyed, Answered, RoomInv
<1>3. /\ ~HungUp => u = 0
      /\ toServer # <<>> /\ Head(toServer).type # "EOF" => u = 0
  BY Shrunk DEF Unwound, Event, HungUp, TypeInv
<1>4. ASSUME toServer # <<>>, toServer' = Tail(toServer)
      PROVE  k' \in Nat /\ k' <= k /\ (Head(toServer).type # "RESPONSE" => k' + 1 <= k)
  BY <1>4, KeyedShrunk DEF TypeInv
<1>5. a' \in 0 .. 1 /\ u' \in 0 .. 1
  BY <1>2
<1>6. \A op \in {"EraseWrite", "Write"} : Show(op) => panel'.msg = panel.msg + 1
  BY Shown
<1> HIDE DEF k, a, u
<1>7. CASE UNCHANGED vars
  <2>1. k' = k
    BY <1>7 DEF k, Keyed, vars
  <2>2. a' = a /\ u' = u /\ panel' = panel /\ keys' = keys
    BY <1>7 DEF a, u, Answered, Unwound, Event, vars, hostVars
  <2> QED
    BY <1>1, <1>2, <2>1, <2>2
<1>8. CASE User
  <2>1. PICK m \in Events : m.type # "RESPONSE" /\ toServer' = Append(toServer, m)
    BY <1>8, UserFrame
  <2>2. k' = k + 1
    BY <1>2, <2>1, KeyedGrown DEF k, TypeInv
  <2>3. a' = a /\ panel' = panel /\ keys' = keys + 1 /\ u = 0
    BY <1>3, <1>8, UserFrame DEF a, Answered, hostVars
  <2> QED
    BY <1>1, <1>2, <1>5, <2>2, <2>3
<1>9. CASE Terminal
  <2>1. k' = k
    <3>1. CASE toServer' = toServer
      BY <1>2, <3>1 DEF k
    <3>2. ASSUME NEW m \in Events, m.type = "RESPONSE", toServer' = Append(toServer, m)
          PROVE  k' = k
      <4>1. k' = k + 0
        BY <1>2, <3>2, KeyedGrown DEF k, TypeInv
      <4> QED
        BY <1>1, <4>1
    <3> QED
      BY <1>9, <3>1, <3>2, TerminalFrame
  <2>2. a' = a /\ panel' = panel /\ keys' = keys /\ u = 0
    BY <1>3, <1>9, TerminalFrame DEF a, Answered, hostVars
  <2> QED
    BY <1>1, <1>2, <1>5, <2>1, <2>2
<1>10. CASE Bind \/ Unbind \/ Broken
  <2>1. /\ toServer' = toServer /\ shown' = shown /\ panel' = panel /\ keys' = keys
        /\ pc = "start" \/ pc' \notin {"start", "logon"}
    BY <1>10 DEF Bind, Unbind, Broken
  <2>2. k' = k /\ u' = u
    BY <1>2, <2>1 DEF k, u, Unwound, Event
  <2>3. a <= a'
    BY <1>2, <1>5, <2>1 DEF a, Answered
  <2> QED
    BY <1>1, <1>2, <1>5, <2>1, <2>2, <2>3
<1>11. CASE FirstScreen
  <2>1. /\ toServer' = toServer /\ shown' = shown /\ keys' = keys
        /\ a = 0 /\ a' = 1 /\ panel'.msg = panel.msg + 1
    BY <1>2, <1>6, <1>11 DEF FirstScreen, a, Answered
  <2>2. k' = k /\ u' = u
    BY <1>2, <2>1 DEF k, u, Unwound, Event
  <2> QED
    BY <1>1, <1>2, <2>1, <2>2
<1>12. CASE AppRepaints \/ AppPatches
  <2>1. /\ toServer # <<>> /\ toServer' = Tail(toServer) /\ keys' = keys
        /\ Head(toServer).type \in Records
        /\ a = 1 /\ a' = 1 /\ panel'.msg = panel.msg + 1
    BY <1>2, <1>6, <1>12 DEF AppRepaints, AppPatches, Consume, Event, a, Answered
  <2>2. Head(toServer).type # "EOF" /\ Head(toServer).type # "RESPONSE"
    BY <2>1 DEF Records
  <2> QED
    BY <1>1, <1>2, <1>3, <1>4, <1>5, <2>1, <2>2
<1>13. CASE UnwindPanel
  <2>1. /\ toServer' = toServer /\ keys' = keys
        /\ u = 0 /\ u' = 1 /\ a = 1 /\ a' = 1 /\ panel'.msg = panel.msg + 1
    BY <1>2, <1>6, <1>13 DEF UnwindPanel, u, Unwound, Event, a, Answered
  <2>2. k' = k
    BY <1>2, <2>1 DEF k
  <2> QED
    BY <1>1, <1>2, <2>1, <2>2
<1>14. CASE Disconnected
  <2>1. /\ toServer # <<>> /\ toServer' = Tail(toServer) /\ keys' = keys
        /\ Head(toServer).type = "EOF" /\ panel' = panel /\ a = 1 /\ a' = 1
    BY <1>2, <1>14 DEF Disconnected, Consume, Event, a, Answered
  <2> QED
    BY <1>1, <1>2, <1>4, <1>5, <2>1
<1>15. CASE \/ AppEnds \/ TakeResponse \/ Attention \/ IgnoreAttention \/ Unrecognized
            \/ Suspend \/ Resume \/ Logoff
  <2>1. /\ toServer # <<>> /\ toServer' = Tail(toServer) /\ keys' = keys
        /\ Head(toServer).type # "EOF" /\ panel' = panel /\ a = 1 /\ a' = 1
    <3>1. CASE AppEnds \/ Suspend \/ Resume
      BY <1>2, <1>15, <3>1 DEF AppEnds, Suspend, Resume, Consume, Event, a, Answered
    <3>2. CASE TakeResponse \/ Attention \/ IgnoreAttention
      BY <1>2, <3>2 DEF TakeResponse, Attention, IgnoreAttention, Consume, Event, a, Answered,
                        hostVars
    <3>3. CASE Unrecognized \/ Logoff
      BY <1>2, <3>3 DEF Unrecognized, Logoff, Consume, Event, Records, a, Answered, hostVars
    <3> QED
      BY <1>15, <3>1, <3>2, <3>3
  <2> QED
    BY <1>1, <1>2, <1>3, <1>4, <1>5, <2>1
<1> QED
  BY <1>7, <1>8, <1>9, <1>10, <1>11, <1>12, <1>13, <1>14, <1>15 DEF Next, Server

\* What the terminal's next message tells of those behind it.
LEMMA BindKept ==
  ASSUME TypeInv, RoomInv, BindInv, [Next]_vars
  PROVE  BindInv'
<1>1. toClient \in Seq(Messages) /\ functions' = functions
  BY StreamSteps, WireKept DEF TypeInv, TypeOK, StreamTypeOK
<1>2. SUFFICES ASSUME "BIND-IMAGE" \in functions
               PROVE  BindInv'
  BY <1>1 DEF BindInv
<1>3. ASSUME toClient' = toClient, termBound' = termBound,
             pc' = pc \/ (pc # "ended" /\ pc' = "ended")
                      \/ (pc \notin {"start", "ended"} /\ pc' # "start")
      PROVE  BindInv'
  BY <1>2, <1>3 DEF BindInv, WillBind, Typed
<1>4. ASSUME Server \/ Broken
      PROVE  BindInv'
  <2>1. /\ termBound' = termBound /\ pc # "ended" /\ pc' # "start"
        /\ pc' \in {"logon", "lu", "sscp", "logoff", "ended"}
        /\ pc = "start" => Bind \/ Broken
    <3>1. CASE Bind \/ FirstScreen \/ AppRepaints \/ AppPatches \/ UnwindPanel \/ Broken
      BY <3>1, <1>4, ServerFrame DEF Bind, FirstScreen, AppRepaints, AppPatches, UnwindPanel,
                                     Broken, termVars
    <3>2. CASE AppEnds \/ Suspend \/ Resume \/ Logoff \/ Unbind \/ Disconnected
      BY <3>2, <1>4, ServerFrame DEF AppEnds, Suspend, Resume, Logoff, Unbind, Disconnected,
                                     termVars
    <3>3. CASE TakeResponse \/ Attention \/ IgnoreAttention \/ Unrecognized
      BY <3>3, <1>4, ServerFrame DEF TakeResponse, Attention, IgnoreAttention, Unrecognized,
                                     termVars, hostVars
    <3> QED
      BY <1>4, <3>1, <3>2, <3>3 DEF Server
  <2>2. CASE toClient' = toClient
    <3>1. pc = "start" => pc' = "ended"
      <4>1. Bind => toClient' # toClient
        BY <1>1, <1>2, Grown DEF Bind, SendBind, Write, Messages
      <4> QED
        BY <2>1, <2>2, <4>1 DEF Broken
    <3> QED
      BY <1>3, <2>1, <2>2, <3>1
  <2>3. CASE \E m \in Messages :
               /\ toClient' = Append(toClient, m)
               /\ m.type = "BIND-IMAGE" => pc = "start"
               /\ m.type = "3270-DATA" => pc # "start"
               /\ m.type = "UNBIND" => pc' = "ended"
    <3>1. PICK m \in Messages :
               /\ toClient' = Append(toClient, m)
               /\ m.type = "BIND-IMAGE" => pc = "start"
               /\ m.type = "3270-DATA" => pc # "start"
               /\ m.type = "UNBIND" => pc' = "ended"
      BY <2>3
    <3>2. /\ Len(toClient) \in Nat /\ Len(toClient') = Len(toClient) + 1
          /\ DOMAIN toClient = 1 .. Len(toClient) /\ DOMAIN toClient' = 1 .. Len(toClient')
          /\ \A i \in DOMAIN toClient : toClient'[i] = toClient[i]
          /\ toClient'[Len(toClient')] = m
      BY <1>1, <3>1, Grown
    <3>3. /\ pc = "start" => Len(toClient) = 0
          /\ toClient # <<>> => Len(toClient) >= 1
      BY <1>1, <1>2, EmptySeq, LenProperties DEF BindInv
    <3>4. \A i \in DOMAIN toClient' : i \in DOMAIN toClient \/ i = Len(toClient')
      BY <3>2
    <3>5. Typed(toClient', "BIND-IMAGE") \subseteq {1}
      BY <1>2, <3>1, <3>2, <3>3, <3>4 DEF BindInv, Typed
    <3>6. /\ Typed(toClient, "UNBIND") = {}
          /\ Typed(toClient', "UNBIND") \subseteq {Len(toClient')}
          /\ Typed(toClient', "UNBIND") # {} => pc' = "ended"
      <4>1. Typed(toClient, "UNBIND") = {}
        BY <1>2, <2>1 DEF BindInv
      <4> QED
        BY <3>1, <3>2, <3>4, <4>1 DEF Typed
    <3>7. CASE pc # "start"
      <4>1. termBound \/ WillBind
        BY <1>2, <2>1, <3>7 DEF BindInv
      <4>2. WillBind => WillBind'
        BY <1>1, <3>2, <3>3, EmptySeq DEF WillBind
      <4> QED
        BY <2>1, <3>5, <3>6, <4>1, <4>2 DEF BindInv
    <3>8. CASE pc = "start"
      <4>1. m.type = "BIND-IMAGE"
        <5> DEFINE b == [type |-> "BIND-IMAGE"]
        <5>1. b \in Messages /\ b.type = "BIND-IMAGE"
          BY DEF Messages
        <5> HIDE DEF b
        <5>2. CASE toClient' = Append(toClient, b)
          BY <1>1, <3>2, <5>1, <5>2, Grown
        <5>3. toClient' # toClient
          BY <3>2
        <5> QED
          BY <1>2, <2>1, <3>8, <5>1, <5>2, <5>3 DEF Bind, Broken, SendBind, Write, streamVars, b
      <4>2. WillBind'
        BY <3>2, <3>3, <3>8, <4>1 DEF WillBind
      <4> QED
        BY <2>1, <3>5, <3>6, <4>2 DEF BindInv
    <3> QED
      BY <3>7, <3>8
  <2> QED
    BY <1>4, <2>2, <2>3, ServerWrites
<1>5. ASSUME Terminal
      PROVE  BindInv'
  <2>1. /\ toClient # <<>> /\ toClient' = Tail(toClient) /\ pc' = pc
    BY <1>5, TerminalFrame DEF hostVars
  <2>2. /\ Len(toClient) \in Nat /\ Len(toClient) >= 1 /\ Len(toClient') = Len(toClient) - 1
        /\ DOMAIN toClient = 1 .. Len(toClient) /\ DOMAIN toClient' = 1 .. Len(toClient')
        /\ \A i \in DOMAIN toClient' : i + 1 \in DOMAIN toClient /\ toClient'[i] = toClient[i + 1]
        /\ Head(toClient) = toClient[1] /\ Head(toClient) \in Messages
    BY <1>1, <2>1, Shrunk
  <2>3. pc # "start"
    BY <1>2, <2>1 DEF BindInv
  <2>4. /\ Typed(toClient', "BIND-IMAGE") = {}
        /\ \A type : Typed(toClient', type) # {} => Typed(toClient, type) # {}
    <3>1. \A type : \A i \in Typed(toClient', type) : i \in Nat /\ i >= 1 /\ i + 1 \in Typed(toClient, type)
      BY <2>2 DEF Typed
    <3>2. \A i \in Typed(toClient', "BIND-IMAGE") : i + 1 = 1
      BY <1>2, <3>1 DEF BindInv
    <3> HIDE DEF Typed
    <3> QED
      BY <3>1, <3>2
  <2>5. Typed(toClient', "UNBIND") \subseteq {Len(toClient')}
    <3>1. \A i \in Typed(toClient', "UNBIND") : i \in Nat /\ i + 1 = Len(toClient)
      BY <1>2, <2>2 DEF BindInv, Typed
    <3> QED
      BY <2>2, <3>1
  <2>6. CASE TakeUnbind
    <3>1. 1 \in Typed(toClient, "UNBIND")
      BY <2>2, <2>6 DEF TakeUnbind, Arrives, Typed
    <3>2. Len(toClient) = 1 /\ pc = "ended"
      BY <1>2, <3>1 DEF BindInv
    <3>3. Typed(toClient', "3270-DATA") = {}
      BY <2>2, <3>2 DEF Typed
    <3> QED
      BY <1>2, <2>1, <2>4, <2>5, <3>2, <3>3 DEF BindInv
  <2>7. CASE ~TakeUnbind
    <3>1. (termBound \/ WillBind) => termBound'
      BY <1>5, <2>2, <2>7 DEF Terminal, PaintScreen, RefuseScreen, ShowSscp, TakeBind, WillBind,
                              Arrives
    <3> QED
      BY <1>2, <2>1, <2>3, <2>4, <2>5, <3>1 DEF BindInv
  <2> QED
    BY <2>6, <2>7
<1>6. CASE User
  BY <1>3, <1>6, UserFrame DEF hostVars, streamVars
<1>7. CASE UNCHANGED vars
  BY <1>3, <1>7 DEF vars, streamVars, hostVars, termVars
<1> QED
  BY <1>4, <1>5, <1>6, <1>7 DEF Next

\* A new session (src/server.py:1448-1460).
LEMMA StartsRight == Init => IInv
<1> SUFFICES ASSUME Init
             PROVE  IInv
  OBVIOUS
<1>1. StreamInv /\ toClient = <<>>
  BY InitEstablishesInv DEF Init, StreamInit
<1>2. Nothing \in Contents /\ Nothing.msg = 0
  BY BoundsAssumption DEF Nothing, Contents
<1>3. scenario.refusals \in 0 .. MaxNaks
  BY ScenariosAssumption DEF Init, ScenarioKinds
<1>4. TypeOK
  <2>1. /\ scenario \in Scenarios /\ pc = "start" /\ shown \in Panels
        /\ panel \in Contents /\ display \in Contents /\ mode = "none"
        /\ termBound \in BOOLEAN /\ locked \in BOOLEAN /\ acked = {}
        /\ keys = 0 /\ naks = 0
    BY <1>2 DEF Init, Panels
  <2>2. keys \in 0 .. MaxKeys /\ naks \in 0 .. MaxNaks
    BY <2>1, BoundsAssumption
  <2> QED
    BY <1>1, <2>1, <2>2 DEF TypeOK, StreamInv
<1>5. TypeInv
  <2>1. toServer = <<>> /\ Typed(toServer, "EOF") = {} /\ Typed(toClient, "3270-DATA") = {}
    BY <1>1 DEF Init, Typed
  <2>2. naks <= scenario.refusals
    BY <1>3, BoundsAssumption DEF Init
  <2> QED
    BY <1>1, <1>4, <2>1, <2>2 DEF TypeInv
<1>6. RoomInv
  <2>1. Keyed(toServer) = {} /\ ~Answered /\ ~Unwound
    BY DEF Init, Keyed, Answered, Unwound, Event
  <2> QED
    BY <1>2, <2>1, FS_EmptySet DEF RoomInv, Init
<1>7. BindInv
  BY <1>1 DEF BindInv, Init, Typed
<1> QED
  BY <1>5, <1>6, <1>7 DEF IInv

\* The inductive invariant.
THEOREM Invariant == Spec => []IInv
<1>1. IInv /\ [Next]_vars => IInv'
  BY TypeKept, RoomKept, BindKept DEF IInv
<1> QED
  BY <1>1, StartsRight, PTL DEF Spec

\* Every variable keeps its type: among others, the user's keys never ask
\* the application for more outputs than there are.
THEOREM SessionTyped == Spec => []TypeOK
<1>1. IInv => TypeOK
  BY DEF IInv, TypeInv
<1> QED
  BY <1>1, Invariant, PTL

\* The stream's own theorems hold of a session: its steps are the stream's.
THEOREM SessionIsStream == Spec => StreamSpec
<1>1. Init => StreamInit
  BY DEF Init
<1>2. IInv /\ [Next]_vars => [StreamNext]_streamVars
  BY StreamSteps DEF IInv
<1> QED
  BY <1>1, <1>2, Invariant, PTL DEF Spec, StreamSpec

\* No 3270 record reaches the terminal before the BIND or after the UNBIND,
\* if BIND-IMAGE was agreed (src/server.py:1453-1457).
THEOREM DataIsBound == Spec => []DataOnlyWhenBound
<1>1. IInv => DataOnlyWhenBound
  <2> SUFFICES ASSUME IInv, "BIND-IMAGE" \in functions,
                      NEW i \in DOMAIN toClient, toClient[i].type = "3270-DATA"
               PROVE  IF BindsBefore(i) = {}
                      THEN termBound
                      ELSE \E j \in BindsBefore(i) :
                             /\ toClient[j].type = "BIND-IMAGE"
                             /\ \A k \in BindsBefore(i) : k <= j
    BY DEF DataOnlyWhenBound
  <2>1. /\ DOMAIN toClient = 1 .. Len(toClient) /\ Len(toClient) \in Nat
    BY LenProperties DEF IInv, TypeInv, TypeOK, StreamTypeOK
  <2>2. /\ termBound \/ WillBind
        /\ Typed(toClient, "BIND-IMAGE") \subseteq {1}
        /\ Typed(toClient, "UNBIND") \subseteq {Len(toClient)}
    BY DEF IInv, BindInv, Typed
  <2>3. \A j \in BindsBefore(i) : j = 1 /\ toClient[j].type = "BIND-IMAGE"
    <3> SUFFICES ASSUME NEW j \in BindsBefore(i)
                 PROVE  j = 1 /\ toClient[j].type = "BIND-IMAGE"
      OBVIOUS
    <3>1. j \in DOMAIN toClient /\ j # Len(toClient)
      <4> DEFINE last == Len(toClient)
      <4>1. i \in 1 .. last /\ last \in Nat /\ DOMAIN toClient = 1 .. last
        BY <2>1
      <4>2. j \in 1 .. (i - 1)
        BY DEF BindsBefore
      <4> HIDE DEF last
      <4>3. j \in 1 .. last /\ j # last
        BY <4>1, <4>2
      <4> QED
        BY <4>1, <4>3 DEF last
    <3> QED
      BY <2>2, <3>1 DEF BindsBefore, Typed
  <2>4. CASE BindsBefore(i) = {}
    <3>1. ~WillBind
      BY <2>1, <2>4 DEF WillBind, BindsBefore
    <3> QED
      BY <2>2, <2>4, <3>1
  <2>5. CASE BindsBefore(i) # {}
    BY <2>3, <2>5
  <2> QED
    BY <2>4, <2>5
<1> QED
  BY <1>1, Invariant, PTL

-----------------------------------------------------------------------------
(* Acknowledgements.                                                       *)

\* What a channel still holds of the messages of a type: all it held, or all
\* but the first.
Carries(old, new, type) ==
  \E d \in {0, 1} : \A i \in Typed(new, type) : i + d \in Typed(old, type) /\ new[i] = old[i + d]

\* A channel that is left alone, read, or given a message of another type.
LEMMA ChannelCarries ==
  ASSUME NEW S, NEW s \in Seq(S), NEW t, NEW type,
         \/ t = s
         \/ s # <<>> /\ t = Tail(s)
         \/ \E m \in S : m.type # type /\ t = Append(s, m)
  PROVE  Carries(s, t, type)
<1>1. CASE t = s
  <2>1. \A i \in Typed(s, type) : i + 0 = i
    BY LenProperties DEF Typed
  <2> QED
    BY <1>1, <2>1 DEF Carries
<1>2. CASE s # <<>> /\ t = Tail(s)
  <2>1. \A i \in DOMAIN t : i + 1 \in DOMAIN s /\ t[i] = s[i + 1]
    BY <1>2, Shrunk
  <2> QED
    BY <2>1 DEF Carries, Typed
<1>3. ASSUME NEW m \in S, m.type # type, t = Append(s, m)
      PROVE  Carries(s, t, type)
  <2>1. /\ Len(s) \in Nat /\ Len(t) = Len(s) + 1
        /\ DOMAIN s = 1 .. Len(s) /\ DOMAIN t = 1 .. Len(t)
        /\ \A i \in DOMAIN s : t[i] = s[i]
        /\ t[Len(t)] = m
    BY <1>3, Grown
  <2>2. \A i \in Typed(t, type) : i \in Typed(s, type) /\ t[i] = s[i] /\ i + 0 = i
    <3> DEFINE n == Len(s)
               k == Len(t)
    <3>1. n \in Nat /\ k = n + 1 /\ DOMAIN s = 1 .. n /\ DOMAIN t = 1 .. k
      BY <2>1
    <3> HIDE DEF n, k
    <3>2. \A i \in 1 .. k : (i \in 1 .. n \/ i = k) /\ i + 0 = i
      BY <3>1
    <3>3. \A i \in DOMAIN t : (i \in DOMAIN s \/ i = k) /\ i + 0 = i
      BY <3>1, <3>2
    <3> QED
      BY <1>3, <2>1, <3>3 DEF Typed, k
  <2> QED
    BY <2>2 DEF Carries
<1> QED
  BY <1>1, <1>2, <1>3

\* The numbers are numbers.
LEMMA NumbersTyped ==
  ASSUME TypeInv
  PROVE  /\ sends \in Nat /\ seq \in Nat
         /\ \A e \in pending : e.seq \in Nat
         /\ \A i \in Responses : toServer[i].seq \in Nat /\ toServer[i].positive \in BOOLEAN
         /\ \A j \in Datas : toClient[j].seq \in Nat /\ toClient[j].display \in DOMAIN copies
<1>1. SeqNumbers \subseteq Nat
  BY BaseAssumption DEF SeqNumbers
<1>2. sends \in Nat /\ seq \in SeqNumbers /\ \A e \in pending : e.seq \in SeqNumbers
  BY DEF TypeInv, TypeOK, StreamTypeOK, Entries
<1>3. \A i \in Responses : toServer[i].seq \in SeqNumbers /\ toServer[i].positive \in BOOLEAN
  <2>1. \A i \in DOMAIN toServer : toServer[i] \in Events
    BY ElementOfSeq, LenProperties DEF TypeInv
  <2> QED
    BY <2>1, EventFields DEF Responses, Typed
<1>4. \A j \in Datas : toClient[j].seq \in SeqNumbers
  <2>1. \A j \in DOMAIN toClient : toClient[j] \in Messages
    BY ElementOfSeq, LenProperties DEF TypeInv, TypeOK, StreamTypeOK
  <2> QED
    BY <2>1, MessageFields DEF Datas, Typed
<1> QED
  BY <1>1, <1>2, <1>3, <1>4 DEF Datas, TypeInv

\* Nothing new under way.
LEMMA AckLess ==
  ASSUME TypeInv, TypeInv', AckInv, pending' \subseteq pending,
         UNCHANGED <<functions, seq, sends, acked>>,
         Carries(toClient, toClient', "3270-DATA"), Carries(toServer, toServer', "RESPONSE")
  PROVE  AckInv'
<1>1. SUFFICES ASSUME "RESPONSES" \in functions
               PROVE  AckInv'
  BY DEF AckInv
<1>2. PICK c \in {0, 1} : \A j \in Datas' : j + c \in Datas /\ toClient'[j] = toClient[j + c]
  BY DEF Carries, Datas, Typed
<1>3. PICK d \in {0, 1} : \A i \in Responses' : i + d \in Responses /\ toServer'[i] = toServer[i + d]
  BY DEF Carries, Responses, Typed
<1>4. /\ \A j, k \in Datas' : j < k => j + c < k + c
      /\ \A i, j \in Responses' : i < j => i + d < j + d
  <2>1. Datas' \subseteq Int /\ Responses' \subseteq Int
    BY LenProperties DEF TypeInv, TypeOK, StreamTypeOK, Datas, Responses, Typed
  <2> QED
    BY <2>1
<1> HIDE DEF Datas, Responses
<1> QED
  BY <1>1, <1>2, <1>3, <1>4 DEF AckInv, NumbersPast, DatasOrdered, ResponsesOrdered,
     ResponsesFirst, TrackedAsSent, AckedOnce

\* A new record, with the next number.
LEMMA AckRecord ==
  ASSUME TypeInv, TypeInv', AckInv, MaxSends < Base * (Base - 1),
         NEW entries \in SUBSET pending, NEW data \in Screens, NEW retries, NEW k \in Nat \ {0},
         SendRecord(entries, data, retries, k), UNCHANGED <<functions, acked>>,
         Carries(toServer, toServer', "RESPONSE"),
         "RESPONSES" \in functions =>
           /\ k \notin acked
           /\ \A e \in entries : e.display # k
           /\ \A j \in Datas : toClient[j].display # k
  PROVE  AckInv'
<1>1. SUFFICES ASSUME "RESPONSES" \in functions
               PROVE  AckInv'
  BY DEF AckInv
<1>2. /\ sends \in Nat /\ sends < MaxSends /\ sends' = sends + 1 /\ NextSeq = sends + 1
      /\ seq' = NextSeq
  <2>1. /\ sends \in Nat /\ sends < MaxSends /\ sends' = sends + 1 /\ seq = sends
        /\ seq' = NextSeq
    BY <1>1, NumbersTyped, RecordSent DEF AckInv, NumbersPast
  <2>2. MaxSends \in Nat /\ Base * (Base - 1) \in Nat /\ Base * Base \in Nat
        /\ Base * (Base - 1) <= Base * Base
    BY BaseAssumption, SendsAssumption
  <2>3. sends + 1 < Base * Base
    BY <2>1, <2>2
  <2> QED
    BY <2>1, <2>2, <2>3 DEF NextSeq
<1>3. PICK m \in Messages :
        /\ toClient' = Append(toClient, m) /\ m.type = "3270-DATA" /\ m.display = k
        /\ m.seq = sends + 1
  BY <1>1, <1>2, RecordSent
<1> DEFINE n == Len(toClient')
<1>4. /\ n \in Nat /\ toClient'[n] = m
      /\ \A j \in Datas' : j = n \/ (j \in Datas /\ toClient'[j] = toClient[j])
      /\ \A j \in Datas : j \in Int /\ j < n
      /\ Datas' \subseteq Int
  <2>1. /\ Len(toClient) \in Nat /\ n = Len(toClient) + 1
        /\ DOMAIN toClient = 1 .. Len(toClient) /\ DOMAIN toClient' = 1 .. n
        /\ \A i \in DOMAIN toClient : toClient'[i] = toClient[i]
        /\ toClient'[n] = m
    BY <1>3, Grown DEF TypeInv, TypeOK, StreamTypeOK
  <2>2. \A j \in DOMAIN toClient' : j \in DOMAIN toClient \/ j = n
    BY <2>1
  <2>3. \A j \in DOMAIN toClient : j \in Int /\ j < n
    BY <2>1
  <2>4. DOMAIN toClient' \subseteq Int
    BY <2>1
  <2>5. /\ \A j \in Datas' : j \in DOMAIN toClient' /\ toClient'[j].type = "3270-DATA"
        /\ \A j \in Datas : j \in DOMAIN toClient
        /\ \A j \in DOMAIN toClient : toClient[j].type = "3270-DATA" => j \in Datas
    BY DEF Datas, Typed
  <2> HIDE DEF n
  <2>6. \A j \in Datas' : j = n \/ (j \in Datas /\ toClient'[j] = toClient[j])
    BY <2>1, <2>2, <2>5
  <2> QED
    BY <2>1, <2>3, <2>4, <2>5, <2>6
<1>5. PICK d \in {0, 1} : \A i \in Responses' : i + d \in Responses /\ toServer'[i] = toServer[i + d]
  BY DEF Carries, Responses, Typed
<1>6. Responses' \subseteq Int
  BY LenProperties DEF TypeInv, Responses, Typed
<1>7. \A e \in pending' : e \in entries \/ (e.display = k /\ e.seq = sends + 1)
  <2>1. \A e \in pending' : e \in entries \/ (e.display = k /\ e.seq = NextSeq)
    BY <1>1, RecordSent, ZenonT(40)
  <2> QED
    BY <1>2, <2>1
<1>8. /\ \A i \in Responses : toServer[i].seq \in Nat
      /\ \A j \in Datas : toClient[j].seq \in Nat
      /\ \A e \in pending : e.seq \in Nat
  BY NumbersTyped
<1>9. /\ NumbersPast
      /\ DatasOrdered /\ ResponsesOrdered /\ ResponsesFirst
      /\ TrackedAsSent /\ AckedOnce
  BY <1>1 DEF AckInv
<1> HIDE DEF n, Datas, Responses
<1>10. \A x \in Nat : x <= sends => x <= sends' /\ x < sends + 1
  BY <1>2
<1>11. \A i \in Responses' : toServer'[i].seq <= sends /\ toServer'[i].seq \in Nat
  BY <1>5, <1>8, <1>9 DEF NumbersPast
<1>12. NumbersPast'
  <2>1. seq' = sends' /\ sends' <= MaxSends
    BY <1>2, SendsAssumption
  <2>2. \A e \in pending' : e.seq <= sends'
    <3>1. \A e \in pending : e.seq <= sends'
      BY <1>8, <1>9, <1>10 DEF NumbersPast
    <3>2. sends + 1 <= sends'
      BY <1>2
    <3> QED
      BY <1>7, <3>1, <3>2
  <2>3. \A i \in Responses' : toServer'[i].seq <= sends'
    BY <1>10, <1>11
  <2>4. \A j \in Datas' : toClient'[j].seq <= sends'
    <3> SUFFICES ASSUME NEW j \in Datas'
                 PROVE  toClient'[j].seq <= sends'
      OBVIOUS
    <3>1. CASE toClient'[j].seq = sends + 1
      BY <1>2, <3>1
    <3>2. CASE j \in Datas /\ toClient'[j] = toClient[j]
      BY <1>8, <1>9, <1>10, <3>2 DEF NumbersPast
    <3> QED
      BY <1>3, <1>4, <3>1, <3>2
  <2> QED
    BY <2>1, <2>2, <2>3, <2>4 DEF NumbersPast
<1>13. DatasOrdered'
  <2> SUFFICES ASSUME NEW i \in Datas', NEW j \in Datas', i < j
               PROVE  toClient'[i].seq < toClient'[j].seq
    BY DEF DatasOrdered
  <2>1. CASE j = n
    <3>1. i # n
      BY <1>4, <2>1
    <3>2. i \in Datas /\ toClient'[i] = toClient[i]
      BY <1>4, <3>1
    <3>3. toClient[i].seq < sends + 1
      BY <1>8, <1>9, <1>10, <3>2 DEF NumbersPast
    <3> QED
      BY <1>3, <1>4, <2>1, <3>2, <3>3
  <2>2. CASE j # n
    <3>1. j \in Datas /\ toClient'[j] = toClient[j] /\ j < n /\ j \in Int
      BY <1>4, <2>2
    <3>2. i # n
      BY <1>4, <3>1
    <3>3. i \in Datas /\ toClient'[i] = toClient[i]
      BY <1>4, <3>2
    <3> QED
      BY <1>9, <3>1, <3>3 DEF DatasOrdered
  <2> QED
    BY <2>1, <2>2
<1>14. ResponsesOrdered'
  <2>1. \A i, j \in Responses' : i < j => i + d < j + d
    BY <1>6
  <2> QED
    BY <1>5, <1>9, <2>1 DEF ResponsesOrdered
<1>15. ResponsesFirst'
  <2> SUFFICES ASSUME NEW i \in Responses', NEW j \in Datas'
               PROVE  toServer'[i].seq < toClient'[j].seq
    BY DEF ResponsesFirst
  <2>1. CASE j = n
    <3>1. toServer'[i].seq < sends + 1
      BY <1>10, <1>11
    <3> QED
      BY <1>3, <1>4, <2>1, <3>1
  <2>2. CASE j # n
    BY <1>4, <1>5, <1>9, <2>2 DEF ResponsesFirst
  <2> QED
    BY <2>1, <2>2
<1>16. TrackedAsSent'
  <2> SUFFICES ASSUME NEW e \in pending', NEW j \in Datas', e.display = toClient'[j].display
               PROVE  e.seq = toClient'[j].seq
    BY DEF TrackedAsSent
  <2>1. CASE j = n
    <3>1. e.display = k /\ toClient'[j].seq = sends + 1
      BY <1>3, <1>4, <2>1
    <3> QED
      BY <1>1, <1>7, <3>1
  <2>2. CASE j # n
    <3>1. j \in Datas /\ toClient'[j] = toClient[j]
      BY <1>4, <2>2
    <3>2. e \in entries
      BY <1>1, <1>7, <3>1
    <3> QED
      BY <1>9, <3>1, <3>2 DEF TrackedAsSent
  <2> QED
    BY <2>1, <2>2
<1>17. AckedOnce'
  <2> SUFFICES ASSUME NEW e \in pending', e.display \in acked
               PROVE  /\ \A j \in Datas' : toClient'[j].seq # e.seq
                      /\ \A i \in Responses' : toServer'[i].seq = e.seq => toServer'[i].positive
    BY DEF AckedOnce
  <2>1. e \in pending
    BY <1>1, <1>7
  <2>2. e.seq \in Nat /\ e.seq <= sends
    BY <1>8, <1>9, <2>1 DEF NumbersPast
  <2>3. e.seq # sends + 1
    BY <1>2, <2>2
  <2>4. \A j \in Datas : toClient[j].seq # e.seq
    BY <1>9, <2>1 DEF AckedOnce
  <2>5. \A i \in Responses : toServer[i].seq = e.seq => toServer[i].positive
    BY <1>9, <2>1 DEF AckedOnce
  <2>6. \A j \in Datas' : toClient'[j].seq # e.seq
    BY <1>3, <1>4, <2>3, <2>4
  <2> QED
    BY <1>5, <2>5, <2>6
<1> QED
  BY <1>12, <1>13, <1>14, <1>15, <1>16, <1>17 DEF AckInv

\* The terminal's answer to a record.
LEMMA AckAnswered ==
  ASSUME TypeInv, TypeInv', AckInv, toClient # <<>>, toClient' = Tail(toClient),
         Head(toClient).type = "3270-DATA", ~HungUp,
         NEW positive \in BOOLEAN,
         toServer' = Append(toServer, [type |-> "RESPONSE", seq |-> Head(toClient).seq,
                                       positive |-> positive]),
         UNCHANGED <<functions, seq, sends, pending>>,
         acked' \subseteq acked \cup (IF positive THEN {Head(toClient).display} ELSE {})
  PROVE  AckInv'
<1>1. SUFFICES ASSUME "RESPONSES" \in functions
               PROVE  AckInv'
  BY DEF AckInv
<1> DEFINE h == Head(toClient)
           r == [type |-> "RESPONSE", seq |-> h.seq, positive |-> positive]
           n == Len(toServer')
<1>2. /\ h = toClient[1] /\ h \in Messages /\ 1 \in Datas
      /\ \A j \in Datas' : j \in Int /\ j >= 1 /\ j + 1 \in Datas /\ toClient'[j] = toClient[j + 1]
  <2>1. /\ h = toClient[1] /\ h \in Messages /\ 1 \in DOMAIN toClient
        /\ \A j \in DOMAIN toClient' :
             j \in Int /\ j >= 1 /\ j + 1 \in DOMAIN toClient /\ toClient'[j] = toClient[j + 1]
    BY Shrunk DEF TypeInv, TypeOK, StreamTypeOK
  <2> QED
    BY <2>1 DEF Datas, Typed
<1>3. r.seq = h.seq /\ r.positive = positive /\ r \in Events
  BY <1>2, MessageFields DEF Events
<1>4. /\ n \in Nat /\ toServer'[n] = r
      /\ \A i \in Responses' : i = n \/ (i \in Responses /\ toServer'[i] = toServer[i])
      /\ \A i \in Responses : i \in Int /\ i < n
      /\ Responses' \subseteq Int
  <2> HIDE DEF r
  <2>1. /\ Len(toServer) \in Nat /\ n = Len(toServer) + 1
        /\ DOMAIN toServer = 1 .. Len(toServer) /\ DOMAIN toServer' = 1 .. n
        /\ \A i \in DOMAIN toServer : toServer'[i] = toServer[i]
        /\ toServer'[n] = r
    BY <1>3, Grown DEF TypeInv, r
  <2>2. \A i \in DOMAIN toServer' : i \in DOMAIN toServer \/ i = n
    BY <2>1
  <2>3. \A i \in DOMAIN toServer : i \in Int /\ i < n
    BY <2>1
  <2>4. DOMAIN toServer' \subseteq Int
    BY <2>1
  <2> HIDE DEF n
  <2> QED
    BY <2>1, <2>2, <2>3, <2>4 DEF Responses, Typed
<1>5. /\ NumbersPast
      /\ DatasOrdered /\ ResponsesOrdered /\ ResponsesFirst
      /\ TrackedAsSent /\ AckedOnce
  BY <1>1 DEF AckInv
<1>6. /\ \A i \in Responses : toServer[i].seq \in Nat
      /\ \A j \in Datas : toClient[j].seq \in Nat
      /\ \A e \in pending : e.seq \in Nat
  BY NumbersTyped
<1> HIDE DEF h, r, n, Datas, Responses
<1>7. \A j \in Datas' : \E p \in Datas : 1 < p /\ toClient'[j] = toClient[p]
  <2>1. \A j \in Datas' : 1 < j + 1
    BY <1>2
  <2> QED
    BY <1>2, <2>1
<1>8. \A j \in Datas' : h.seq < toClient'[j].seq /\ toClient'[j].seq \in Nat
  BY <1>2, <1>5, <1>6, <1>7 DEF DatasOrdered
<1>9. h.seq \in Nat /\ h.seq <= sends /\ \A i \in Responses : toServer[i].seq < h.seq
  BY <1>2, <1>5, <1>6 DEF NumbersPast, ResponsesFirst
<1>10. NumbersPast'
  <2>1. \A i \in Responses' : toServer'[i].seq <= sends'
    BY <1>3, <1>4, <1>5, <1>9 DEF NumbersPast
  <2>2. \A j \in Datas' : toClient'[j].seq <= sends'
    BY <1>5, <1>7 DEF NumbersPast
  <2> QED
    BY <1>5, <2>1, <2>2 DEF NumbersPast
<1>11. DatasOrdered'
  <2>1. \A i, j \in Datas' : i < j => i + 1 < j + 1
    BY <1>2
  <2> QED
    BY <1>2, <1>5, <2>1 DEF DatasOrdered
<1>12. ResponsesOrdered'
  <2> SUFFICES ASSUME NEW i \in Responses', NEW j \in Responses', i < j
               PROVE  toServer'[i].seq < toServer'[j].seq
    BY DEF ResponsesOrdered
  <2>1. i # n
    <3>1. j \in Int /\ j <= n
      BY <1>4
    <3> QED
      BY <1>4, <3>1
  <2>2. i \in Responses /\ toServer'[i] = toServer[i]
    BY <1>4, <2>1
  <2>3. CASE j = n
    BY <1>3, <1>4, <1>9, <2>2, <2>3
  <2>4. CASE j # n
    BY <1>4, <1>5, <2>2, <2>4 DEF ResponsesOrdered
  <2> QED
    BY <2>3, <2>4
<1>13. ResponsesFirst'
  <2> SUFFICES ASSUME NEW i \in Responses', NEW j \in Datas'
               PROVE  toServer'[i].seq < toClient'[j].seq
    BY DEF ResponsesFirst
  <2>1. CASE i = n
    BY <1>3, <1>4, <1>8, <2>1
  <2>2. CASE i # n
    <3>1. i \in Responses /\ toServer'[i] = toServer[i]
      BY <1>4, <2>2
    <3> QED
      BY <1>5, <1>7, <3>1 DEF ResponsesFirst
  <2> QED
    BY <2>1, <2>2
<1>14. TrackedAsSent'
  <2> SUFFICES ASSUME NEW e \in pending, NEW j \in Datas', e.display = toClient'[j].display
               PROVE  e.seq = toClient'[j].seq
    BY DEF TrackedAsSent
  <2>1. PICK p \in Datas : toClient'[j] = toClient[p]
    BY <1>7
  <2> QED
    BY <1>5, <2>1 DEF TrackedAsSent
<1>15. AckedOnce'
  <2> SUFFICES ASSUME NEW e \in pending, e.display \in acked'
               PROVE  /\ \A j \in Datas' : toClient'[j].seq # e.seq
                      /\ \A i \in Responses' : toServer'[i].seq = e.seq => toServer'[i].positive
    BY DEF AckedOnce
  <2>1. CASE e.display \in acked
    <3>1. /\ \A j \in Datas : toClient[j].seq # e.seq
          /\ \A i \in Responses : toServer[i].seq = e.seq => toServer[i].positive
      BY <1>5, <2>1 DEF AckedOnce
    <3>2. e.seq # h.seq
      BY <1>2, <3>1
    <3> QED
      BY <1>3, <1>4, <1>7, <3>1, <3>2
  <2>2. CASE e.display \notin acked
    <3>1. positive /\ e.display = h.display
      BY <2>2 DEF h
    <3>2. e.seq = h.seq
      BY <1>2, <1>5, <3>1 DEF TrackedAsSent
    <3>3. \A i \in Responses : toServer[i].seq # e.seq
      BY <1>6, <1>9, <3>2
    <3>4. ASSUME NEW j \in Datas'
          PROVE  toClient'[j].seq # e.seq
      <4>1. h.seq < toClient'[j].seq /\ toClient'[j].seq \in Nat /\ h.seq \in Nat
        BY <1>8, <1>9
      <4>2. \A x, y \in Nat : x < y => y # x
        OBVIOUS
      <4> QED
        BY <3>2, <4>1, <4>2, Zenon
    <3> QED
      BY <1>3, <1>4, <3>1, <3>3, <3>4
  <2> QED
    BY <2>1, <2>2
<1> QED
  BY <1>10, <1>11, <1>12, <1>13, <1>14, <1>15 DEF AckInv

\* A refused record is sent again only if the terminal has not acknowledged
\* it: no other answer to it is under way, and no copy of it.
LEMMA AckRefused ==
  ASSUME TypeInv, TypeInv', AckInv, MaxSends < Base * (Base - 1), toServer # <<>>,
         Head(toServer).type = "RESPONSE", toServer' = Tail(toServer), UNCHANGED acked,
         NEW e \in Entry(AsRead(Head(toServer).seq)), ~Head(toServer).positive, Retransmit(e)
  PROVE  e.display \notin acked /\ AckInv'
<1> DEFINE h == Head(toServer)
<1>1. "RESPONSES" \in functions /\ e \in pending
  BY DEF Entry, TypeInv, StreamInv, TrackedOnRequest
<1>2. /\ h = toServer[1] /\ 1 \in Responses
      /\ Carries(toServer, toServer', "RESPONSE")
  <2>1. toServer \in Seq(Events)
    BY DEF TypeInv
  <2>2. h = toServer[1] /\ 1 \in Responses
    BY <2>1, Shrunk DEF Responses, Typed
  <2>3. Carries(toServer, toServer', "RESPONSE")
    BY <2>1, ChannelCarries
  <2> QED
    BY <2>2, <2>3
<1>3. /\ NumbersPast
      /\ ResponsesFirst /\ TrackedAsSent /\ AckedOnce
  BY <1>1 DEF AckInv
<1>4. /\ h.seq \in Nat /\ e.seq \in Nat /\ e.seq <= sends /\ sends <= MaxSends /\ sends \in Nat
  BY <1>1, <1>2, <1>3, NumbersTyped DEF NumbersPast
<1> HIDE DEF h
<1>5. e.seq = h.seq
  <2>1. e.seq = AsRead(h.seq)
    BY DEF Entry, h
  <2>2. Base \in Nat /\ Base >= 2 /\ Base * (Base - 1) \in Nat /\ Base * Base \in Nat
        /\ Base * (Base - 1) <= Base * Base - 1
    BY BaseAssumption
  <2>3. e.seq # Base * Base - 1
    BY <1>4, <2>2, SendsAssumption
  <2> QED
    BY <2>1, <2>3 DEF AsRead
<1>6. e.display \notin acked
  BY <1>1, <1>2, <1>3, <1>5 DEF AckedOnce, h
<1>7. \A j \in Datas : toClient[j].display # e.display
  <2> SUFFICES ASSUME NEW j \in Datas, toClient[j].display = e.display
               PROVE  FALSE
    OBVIOUS
  <2>1. e.seq = toClient[j].seq
    BY <1>1, <1>3 DEF TrackedAsSent
  <2>2. h.seq < toClient[j].seq
    BY <1>2, <1>3 DEF ResponsesFirst
  <2>3. \A x \in Nat : ~(x < x)
    OBVIOUS
  <2> QED
    BY <1>4, <1>5, <2>1, <2>2, <2>3, Zenon
<1>8. /\ SendRecord(pending \ {e}, e.data, e.retries + 1, e.display)
      /\ UNCHANGED functions
      /\ e.data \in Screens /\ e.display \in Nat \ {0}
      /\ \A f \in pending \ {e} : f.display # e.display
  BY <1>1 DEF Retransmit, TypeInv, TypeOK, StreamTypeOK, Entries, StreamInv, KeysUnique
<1> DEFINE rest == pending \ {e}
           more == e.retries + 1
<1>9. rest \in SUBSET pending /\ SendRecord(rest, e.data, more, e.display)
      /\ \A f \in rest : f.display # e.display
  BY <1>8
<1> HIDE DEF rest, more
<1>10. AckInv'
  BY <1>2, <1>6, <1>7, <1>8, <1>9, AckRecord
<1> QED
  BY <1>6, <1>10

\* A display is sent: a new one, which nobody has acknowledged.
LEMMA AckDisplayed ==
  ASSUME TypeInv, TypeInv', AckInv, MaxSends < Base * (Base - 1),
         NEW data \in Screens, Sendall(data), UNCHANGED acked,
         Carries(toServer, toServer', "RESPONSE")
  PROVE  AckInv' /\ copies' = Append(copies, 1)
<1> DEFINE k == Len(copies) + 1
<1>1. /\ copies \in Seq(Nat) /\ acked \subseteq DOMAIN copies
      /\ \A e \in pending : e.display \in DOMAIN copies
      /\ \A j \in Datas : toClient[j].display \in DOMAIN copies
  BY DEF TypeInv, TypeOK, StreamTypeOK, StreamInv, RetriesCounted, Datas
<1>2. k \in Nat \ {0} /\ k \notin DOMAIN copies
  BY <1>1, LenProperties
<1>3. /\ SendRecord(pending, data, 0, k) /\ UNCHANGED functions
      /\ copies' = Append(copies, 1)
  BY DEF Sendall
<1> HIDE DEF k
<1>4. pending \in SUBSET pending
  OBVIOUS
<1>5. AckInv'
  BY <1>1, <1>2, <1>3, <1>4, AckRecord
<1> QED
  BY <1>3, <1>5

\* Every step keeps the numbers under way in order; and it counts a copy of a
\* display only if the terminal has not acknowledged it.
LEMMA AckKept ==
  ASSUME TypeInv, RoomInv, AckInv, MaxSends < Base * (Base - 1), [Next]_vars
  PROVE  AckInv' /\ \A k \in acked : copies'[k] = copies[k]
<1>1. TypeInv'
  BY TypeKept
<1>2. /\ toServer \in Seq(Events) /\ toClient \in Seq(Messages) /\ copies \in Seq(Nat)
      /\ acked \subseteq DOMAIN copies /\ DOMAIN copies = 1 .. Len(copies)
  BY LenProperties DEF TypeInv, TypeOK, StreamTypeOK
<1> DEFINE Kept == AckInv' /\ \A k \in acked : copies'[k] = copies[k]
           Reads == Carries(toServer, toServer', "RESPONSE")
           Writes == Carries(toClient, toClient', "3270-DATA")
<1> SUFFICES Kept
  OBVIOUS
<1> HIDE DEF Kept, Reads, Writes
<1>3. ASSUME pending' \subseteq pending, UNCHANGED <<functions, seq, sends, acked, copies>>,
             Reads, Writes
      PROVE  Kept
  BY <1>1, <1>3, AckLess DEF Kept, Reads, Writes
<1>4. ASSUME NEW data \in Screens, Sendall(data), UNCHANGED acked, Reads
      PROVE  Kept
  <2>1. AckInv' /\ copies' = Append(copies, 1)
    BY <1>1, <1>4, AckDisplayed DEF Reads
  <2>2. \A k \in acked : copies'[k] = copies[k]
    BY <1>2, <2>1, Grown, 1 \in Nat
  <2> QED
    BY <2>1, <2>2 DEF Kept
<1>5. ASSUME NEW op \in {"EraseWrite", "Write"}, Show(op), UNCHANGED acked, Reads
      PROVE  Kept
  BY <1>4, <1>5, Shown
<1>6. ASSUME Redisplay, UNCHANGED acked, Reads
      PROVE  Kept
  <2>1. CASE last_screen = NoScreen
    <3>1. UNCHANGED streamVars
      BY <1>6, <2>1 DEF Redisplay
    <3>2. Writes
      BY <1>2, <3>1, ChannelCarries DEF Writes, streamVars
    <3> QED
      BY <1>3, <1>6, <3>1, <3>2 DEF streamVars
  <2>2. CASE last_screen # NoScreen
    BY <1>4, <1>6, <2>2 DEF Redisplay, TypeInv, TypeOK, StreamTypeOK
  <2> QED
    BY <2>1, <2>2
<1>7. ASSUME NEW m \in Messages, m.type # "3270-DATA", Write(m), Reads,
             UNCHANGED <<functions, seq, pending, sends, acked, copies>>
      PROVE  Kept
  <2>1. Writes
    BY <1>2, <1>7, ChannelCarries DEF Write, Writes
  <2> QED
    BY <1>3, <1>7, <2>1
<1>8. Server \/ Broken => Reads /\ UNCHANGED acked
  BY <1>2, ServerFrame, ChannelCarries DEF Reads, termVars
<1>9. CASE Server \/ Broken
  <2>1. CASE UNCHANGED streamVars
    <3>1. Writes
      BY <1>2, <2>1, ChannelCarries DEF Writes, streamVars
    <3> QED
      BY <1>3, <1>8, <1>9, <2>1, <3>1 DEF streamVars
  <2>2. CASE FirstScreen \/ AppRepaints \/ AppPatches \/ UnwindPanel
    BY <1>5, <1>8, <1>9, <2>2 DEF FirstScreen, AppRepaints, AppPatches, UnwindPanel
  <2>3. CASE Attention \/ Resume
    BY <1>6, <1>8, <1>9, <2>3 DEF Attention, Resume
  <2>4. CASE Suspend \/ Logoff \/ Unrecognized \/ Unbind \/ Bind
    <3>1. /\ [type |-> "BIND-IMAGE"] \in Messages /\ [type |-> "SSCP-LU-DATA"] \in Messages
          /\ [type |-> "UNBIND"] \in Messages
      BY DEF Messages
    <3>2. SendSscp => Kept
      BY <1>7, <1>8, <1>9, <3>1 DEF SendSscp
    <3>3. SendUnbind => Kept
      BY <1>7, <1>8, <1>9, <3>1 DEF SendUnbind
    <3>4. SendBind => Kept
      BY <1>7, <1>8, <1>9, <3>1 DEF SendBind
    <3> QED
      BY <2>1, <2>4, <3>2, <3>3, <3>4 DEF Suspend, Logoff, Unrecognized, Unbind, Bind
  <2>5. CASE TakeResponse
    <3>1. /\ toServer # <<>> /\ Head(toServer).type = "RESPONSE" /\ toServer' = Tail(toServer)
          /\ OnResponse(Head(toServer).seq, Head(toServer).positive)
      BY <2>5 DEF TakeResponse, Event, Consume
    <3>2. ASSUME NEW e \in Entry(AsRead(Head(toServer).seq)), ~Head(toServer).positive,
                 Retransmit(e)
          PROVE  Kept
      <4>1. e.display \notin acked /\ AckInv'
        BY <1>1, <1>8, <1>9, <3>1, <3>2, AckRefused
      <4>2. \A k \in acked : copies'[k] = copies[k]
        BY <1>2, <3>2, <4>1 DEF Retransmit
      <4> QED
        BY <4>1, <4>2 DEF Kept
    <3>3. ASSUME Settle(Entry(AsRead(Head(toServer).seq)))
          PROVE  Kept
      <4>1. /\ pending' \subseteq pending
            /\ UNCHANGED <<functions, seq, toClient, sends, copies>>
        BY <3>3 DEF Settle
      <4>2. Writes
        BY <1>2, <4>1, ChannelCarries DEF Writes
      <4> QED
        BY <1>3, <1>8, <1>9, <4>1, <4>2
    <3> QED
      BY <3>1, <3>2, <3>3 DEF OnResponse
  <2>6. CASE AppEnds \/ IgnoreAttention \/ Disconnected \/ Broken
    BY <2>1, <2>6 DEF AppEnds, IgnoreAttention, Disconnected, Broken
  <2> QED
    BY <1>9, <2>2, <2>3, <2>4, <2>5, <2>6 DEF Server
<1>10. CASE Terminal
  <2>1. /\ toClient # <<>> /\ toClient' = Tail(toClient) /\ ~HungUp
        /\ UNCHANGED <<functions, seq, pending, sends, copies>>
        /\ Writes
    BY <1>2, <1>10, TerminalFrame, ChannelCarries DEF Writes
  <2>2. ASSUME toServer' = toServer, UNCHANGED acked
        PROVE  Kept
    <3>1. Reads
      BY <1>2, <2>2, ChannelCarries DEF Reads
    <3> QED
      BY <1>3, <2>1, <2>2, <3>1
  <2>3. ASSUME NEW positive \in BOOLEAN, Head(toClient).type = "3270-DATA", Head(toClient).ack,
               Answer(Head(toClient), positive),
               acked' \subseteq acked \cup (IF positive THEN {Head(toClient).display} ELSE {})
        PROVE  Kept
    <3>1. toServer' = Append(toServer, [type |-> "RESPONSE", seq |-> Head(toClient).seq,
                                        positive |-> positive])
      BY <2>3 DEF Answer
    <3>2. AckInv'
      BY <1>1, <2>1, <2>3, <3>1, AckAnswered
    <3> QED
      BY <2>1, <3>2 DEF Kept
  <2>4. CASE PaintScreen
    <3>1. CASE Head(toClient).ack
      BY <2>3, <2>4, <3>1 DEF PaintScreen, Arrives
    <3>2. CASE ~Head(toClient).ack
      BY <2>2, <2>4, <3>2 DEF PaintScreen, Answer
    <3> QED
      BY <3>1, <3>2
  <2>5. CASE RefuseScreen
    BY <2>3, <2>5 DEF RefuseScreen, Arrives
  <2>6. CASE ShowSscp \/ TakeBind \/ TakeUnbind
    BY <2>2, <2>6 DEF ShowSscp, TakeBind, TakeUnbind
  <2> QED
    BY <1>10, <2>4, <2>5, <2>6 DEF Terminal
<1>11. CASE User
  <2>1. PICK m \in Events : m.type # "RESPONSE" /\ toServer' = Append(toServer, m)
    BY <1>11, UserFrame
  <2>2. UNCHANGED streamVars /\ UNCHANGED acked
    BY <1>11, UserFrame
  <2>3. Reads /\ Writes
    BY <1>2, <2>1, <2>2, ChannelCarries DEF Reads, Writes, streamVars
  <2> QED
    BY <1>3, <2>2, <2>3 DEF streamVars
<1>12. CASE UNCHANGED vars
  <2>1. Reads /\ Writes
    BY <1>2, <1>12, ChannelCarries DEF Reads, Writes, vars, streamVars
  <2> QED
    BY <1>3, <1>12, <2>1 DEF vars, streamVars, termVars
<1> QED
  BY <1>9, <1>10, <1>11, <1>12 DEF Next

\* As long as the numbers neither wrap nor reach 0xFF in their high byte, a
\* screen the terminal has painted and acknowledged is never retransmitted,
\* however its answers and the records cross (src/server.py:306-332).
THEOREM AckedStaysSettled ==
  MaxSends < Base * (Base - 1) => (Spec => AckedNotResent)
<1> SUFFICES ASSUME MaxSends < Base * (Base - 1)
             PROVE  Spec => AckedNotResent
  OBVIOUS
<1>1. Init => AckInv
  <2> SUFFICES ASSUME Init
               PROVE  AckInv
    OBVIOUS
  <2>1. Datas = {} /\ Responses = {} /\ pending = {} /\ seq = sends /\ sends = 0
    BY DEF Init, StreamInit, Datas, Responses, Typed
  <2> QED
    BY <2>1, SendsAssumption DEF AckInv, NumbersPast, DatasOrdered, ResponsesOrdered,
       ResponsesFirst, TrackedAsSent, AckedOnce
<1>2. IInv /\ AckInv /\ [Next]_vars => AckInv' /\ \A k \in acked : copies'[k] = copies[k]
  BY AckKept DEF IInv
<1>3. IInv /\ AckInv /\ [Next]_vars => [\A k \in acked : copies'[k] = copies[k]]_vars
  BY <1>2
<1> QED
  BY <1>1, <1>2, <1>3, Invariant, PTL DEF Spec, AckedNotResent

-----------------------------------------------------------------------------
(* Screens and the SSCP-LU session.                                        *)

\* What is not under way does not come under way by reading, nor by another
\* type of message.
LEMMA NoneCarried ==
  ASSUME NEW s, NEW t, NEW type, Carries(s, t, type), Typed(s, type) = {}
  PROVE  Typed(t, type) = {}
BY DEF Carries

\* redisplay sends last_screen, and remembers it.
LEMMA Redisplayed ==
  ASSUME Redisplay
  PROVE  last_screen' = last_screen
BY DEF Redisplay, Sendall, streamVars

\* A terminal without a SYSREQ key is never suspended.
LEMMA NeverSuspendedKept ==
  ASSUME TypeInv, RoomInv, NeverSuspended, [Next]_vars
  PROVE  NeverSuspended'
<1>1. /\ toServer \in Seq(Events) /\ toClient \in Seq(Messages)
  BY DEF TypeInv, TypeOK, StreamTypeOK
<1>2. CASE Server \/ Broken
  <2> SUFFICES ASSUME "SYSREQ" \notin scenario.keys
               PROVE  NeverSuspended'
    BY <1>2, ServerFrame DEF NeverSuspended
  <2>1. /\ pc \notin {"sscp", "logoff"} /\ mode' # "sscp"
        /\ Typed(toClient, "SSCP-LU-DATA") = {}
        /\ Typed(toServer, "SYSREQ") = {} /\ Typed(toServer, "SSCP-LU-DATA") = {}
    BY <1>2, ServerFrame DEF NeverSuspended, termVars
  <2>2. ~Suspend
    <3>1. Suspend => 1 \in Typed(toServer, "SYSREQ")
      BY <1>1, Shrunk DEF Suspend, Event, Typed
    <3> QED
      BY <2>1, <3>1
  <2>3. ~Logoff /\ ~Unrecognized
    BY <2>1 DEF Logoff, Unrecognized
  <2>4. pc' \notin {"sscp", "logoff"}
    <3>1. CASE Bind \/ FirstScreen \/ AppRepaints \/ AppPatches \/ AppEnds \/ Broken
      BY <2>1, <3>1 DEF Bind, FirstScreen, AppRepaints, AppPatches, AppEnds, Broken
    <3>2. CASE TakeResponse \/ Attention \/ Resume \/ IgnoreAttention
      BY <2>1, <3>2 DEF TakeResponse, Attention, Resume, IgnoreAttention, hostVars
    <3>3. CASE Unbind \/ Disconnected \/ UnwindPanel
      BY <2>1, <3>3 DEF Unbind, Disconnected, UnwindPanel
    <3> QED
      BY <1>2, <2>2, <2>3, <3>1, <3>2, <3>3 DEF Server
  <2>5. Carries(toClient, toClient', "SSCP-LU-DATA")
    <3>1. toClient' = toClient \/ \E m \in Messages :
            m.type # "SSCP-LU-DATA" /\ toClient' = Append(toClient, m)
      BY <1>2, <2>2, <2>3, ServerWrites
    <3> QED
      BY <1>1, <3>1, ChannelCarries
  <2>6. Carries(toServer, toServer', "SYSREQ") /\ Carries(toServer, toServer', "SSCP-LU-DATA")
    BY <1>1, <1>2, ServerFrame, ChannelCarries
  <2> QED
    BY <2>1, <2>4, <2>5, <2>6, NoneCarried DEF NeverSuspended
<1>3. CASE Terminal
  <2> SUFFICES ASSUME "SYSREQ" \notin scenario.keys
               PROVE  NeverSuspended'
    BY <1>3, TerminalFrame DEF NeverSuspended, hostVars
  <2>1. /\ pc' \notin {"sscp", "logoff"} /\ mode # "sscp"
        /\ Typed(toClient, "SSCP-LU-DATA") = {}
        /\ Typed(toServer, "SYSREQ") = {} /\ Typed(toServer, "SSCP-LU-DATA") = {}
    BY <1>3, TerminalFrame DEF NeverSuspended, hostVars
  <2>2. Carries(toClient, toClient', "SSCP-LU-DATA")
    BY <1>1, <1>3, TerminalFrame, ChannelCarries
  <2>3. \A type \in {"SYSREQ", "SSCP-LU-DATA"} : Carries(toServer, toServer', type)
    BY <1>1, <1>3, TerminalFrame, ChannelCarries
  <2>4. ~ShowSscp
    <3>1. ShowSscp => 1 \in Typed(toClient, "SSCP-LU-DATA")
      BY <1>1, Shrunk DEF ShowSscp, Arrives, Typed
    <3> QED
      BY <2>1, <3>1
  <2>5. mode' # "sscp"
    BY <1>3, <2>1, <2>4 DEF Terminal, PaintScreen, RefuseScreen, TakeBind, TakeUnbind
  <2> QED
    BY <2>1, <2>2, <2>3, <2>5, NoneCarried DEF NeverSuspended
<1>4. CASE User
  <2> SUFFICES ASSUME "SYSREQ" \notin scenario.keys
               PROVE  NeverSuspended'
    BY <1>4, UserFrame DEF NeverSuspended, hostVars
  <2>1. /\ pc' \notin {"sscp", "logoff"} /\ mode # "sscp" /\ mode' = mode
        /\ toClient' = toClient /\ Typed(toClient, "SSCP-LU-DATA") = {}
        /\ Typed(toServer, "SYSREQ") = {} /\ Typed(toServer, "SSCP-LU-DATA") = {}
    BY <1>4, UserFrame DEF NeverSuspended, hostVars, streamVars
  <2>2. \E type \in {"3270-DATA", "ATTN", "EOF"} : toServer' = Append(toServer, [type |-> type])
    BY <1>4, <2>1 DEF User, PressAid, EnterLine, PressSysreq, PressAttn, HangUp, Press
  <2>3. \A type \in {"3270-DATA", "ATTN", "EOF"} : [type |-> type] \in Events
    BY DEF Events
  <2>4. \A type \in {"SYSREQ", "SSCP-LU-DATA"} : Carries(toServer, toServer', type)
    <3> SUFFICES ASSUME NEW type \in {"SYSREQ", "SSCP-LU-DATA"}
                 PROVE  Carries(toServer, toServer', type)
      OBVIOUS
    <3>1. \E m \in Events : m.type # type /\ toServer' = Append(toServer, m)
      BY <2>2, <2>3
    <3> QED
      BY <1>1, <3>1, ChannelCarries
  <2>5. Typed(toClient', "SSCP-LU-DATA") = {}
    BY <2>1
  <2> QED
    BY <2>1, <2>4, <2>5, NoneCarried DEF NeverSuspended
<1>5. CASE UNCHANGED vars
  BY <1>5 DEF NeverSuspended, vars, hostVars, termVars, streamVars, Typed
<1> QED
  BY <1>2, <1>3, <1>4, <1>5 DEF Next

\* Every step of the session keeps what redisplay would restore.
LEMMA RestoresKept ==
  ASSUME TypeInv, RoomInv, Restores, [Next]_vars
  PROVE  Restores'
<1>1. ASSUME pc \in {"lu", "sscp"}, UNCHANGED <<panel, last_screen, scenario>>
      PROVE  Restores'
  BY <1>1 DEF Restores
<1>2. ASSUME NEW op \in {"EraseWrite", "Write"}, Show(op), UNCHANGED scenario,
             op = "EraseWrite" \/ scenario.messages
      PROVE  Restores'
  <2> DEFINE out == [op |-> op, id |-> NextId]
  <2>1. /\ out \in Outputs /\ last_screen' = out /\ out.op = op
        /\ panel' = Painted(panel, out) /\ panel \in Contents
    BY <1>2, Shown DEF TypeInv, TypeOK
  <2> HIDE DEF out
  <2>2. Painted(panel', out) = panel'
    BY <2>1, PaintedContents
  <2> QED
    BY <1>2, <2>1, <2>2 DEF Restores
<1>3. CASE FirstScreen \/ AppRepaints \/ UnwindPanel
  BY <1>2, <1>3 DEF FirstScreen, AppRepaints, UnwindPanel
<1>4. CASE AppPatches
  BY <1>2, <1>4 DEF AppPatches
<1>5. CASE Attention \/ Resume
  BY <1>1, <1>5, Redisplayed DEF Attention, Resume, hostVars
<1>6. CASE TakeResponse
  <2>1. last_screen' = last_screen
    BY <1>6 DEF TakeResponse, OnResponse, Retransmit, Settle
  <2> QED
    BY <1>1, <1>6, <2>1 DEF TakeResponse, hostVars
<1>7. CASE Suspend \/ Unrecognized \/ IgnoreAttention
  BY <1>1, <1>7 DEF Suspend, Unrecognized, IgnoreAttention, SendSscp, hostVars, streamVars
<1>8. CASE Bind \/ Logoff \/ Unbind \/ AppEnds \/ Disconnected \/ Broken
  <2>1. pc' \notin {"lu", "sscp"}
    BY <1>8 DEF Bind, Logoff, Unbind, AppEnds, Disconnected, Broken
  <2> QED
    BY <2>1 DEF Restores
<1>9. CASE Terminal \/ User
  <2>1. UNCHANGED <<pc, panel, last_screen, scenario>>
    BY <1>9, TerminalFrame, UserFrame DEF hostVars, streamVars
  <2> QED
    BY <2>1 DEF Restores
<1>10. CASE UNCHANGED vars
  BY <1>10 DEF Restores, vars, hostVars, streamVars
<1> QED
  BY <1>3, <1>4, <1>5, <1>6, <1>7, <1>8, <1>9, <1>10 DEF Next, Server

-----------------------------------------------------------------------------
(* Where everything under way leads.                                       *)

View0 == [screen |-> display, mode |-> mode]

\* Reading a message turns one view into another.
LEMMA SeenView ==
  ASSUME NEW view \in Views, NEW m \in Messages
  PROVE  /\ Seen(view, m) \in Views
         /\ m.type = "3270-DATA" =>
              Seen(view, m).mode = "lu" /\ Seen(view, m).screen = Painted(view.screen, m.data)
         /\ m.type = "SSCP-LU-DATA" => Seen(view, m).mode = "sscp"
         /\ m.type = "BIND-IMAGE" => Seen(view, m) = view
<1>1. view.screen \in Contents /\ view.mode \in {"none", "lu", "sscp"}
  BY DEF Views
<1>2. Nothing \in Contents
  BY BoundsAssumption DEF Nothing, Contents
<1>3. CASE m.type = "3270-DATA"
  <2>1. m.data \in Outputs
    BY <1>3, MessageFields, ScreensAssumption
  <2>2. Painted(view.screen, m.data) \in Contents
    BY <1>1, <2>1, PaintedContents
  <2>3. Seen(view, m) = [screen |-> Painted(view.screen, m.data), mode |-> "lu"]
    BY <1>3 DEF Seen
  <2> QED
    BY <1>3, <2>2, <2>3 DEF Views
<1>4. CASE m.type = "SSCP-LU-DATA"
  <2>1. Seen(view, m) = [screen |-> Nothing, mode |-> "sscp"]
    BY <1>4 DEF Seen
  <2> QED
    BY <1>2, <1>4, <2>1 DEF Views
<1>5. CASE m.type = "UNBIND"
  <2>1. Seen(view, m) = [view EXCEPT !.mode = "none"]
    BY <1>5 DEF Seen
  <2> QED
    BY <1>5, <2>1 DEF Views
<1>6. CASE m.type = "BIND-IMAGE"
  <2>1. Seen(view, m) = view
    BY <1>6 DEF Seen
  <2> QED
    BY <1>6, <2>1
<1> QED
  BY <1>3, <1>4, <1>5, <1>6, MessageFields

\* With nothing under way, it is what the terminal shows now.
LEMMA FinalNow ==
  ASSUME TypeInv, NEW view, Final(view)
  PROVE  toClient = <<>> => view = View0
BY LenProperties DEF Final, Unfolds, View0

\* Nothing sent and nothing read.
LEMMA FinalSame ==
  ASSUME NEW view, Final(view), UNCHANGED <<toClient, display, mode>>
  PROVE  Final(view)'
BY DEF Final, Unfolds

\* A message more.
LEMMA FinalSent ==
  ASSUME TypeInv, NEW view \in Views, Final(view), NEW m \in Messages,
         toClient' = Append(toClient, m), UNCHANGED <<display, mode>>
  PROVE  Seen(view, m) \in Views /\ Final(Seen(view, m))'
<1> DEFINE n == Len(toClient)
           w == Seen(view, m)
<1>1. /\ n \in Nat /\ Len(toClient') = n + 1
      /\ \A i \in 1 .. n : toClient'[i] = toClient[i]
      /\ toClient'[n + 1] = m
  BY Grown DEF TypeInv, TypeOK, StreamTypeOK
<1>2. w \in Views
  BY SeenView
<1>3. PICK views : Unfolds(views) /\ views[n] = view
  BY DEF Final
<1>4. /\ views \in [0 .. n -> Views] /\ views[0] = View0
      /\ \A i \in 1 .. n : views[i] = Seen(views[i - 1], toClient[i])
  BY <1>3 DEF Unfolds, View0
<1> HIDE DEF n, w
<1> DEFINE more == [i \in 0 .. (n + 1) |-> IF i = n + 1 THEN w ELSE views[i]]
<1>5. /\ more \in [0 .. (n + 1) -> Views] /\ more[n + 1] = w
      /\ \A i \in 0 .. n : more[i] = views[i]
  <2>1. \A i \in 0 .. (n + 1) : i = n + 1 \/ i \in 0 .. n
    BY <1>1
  <2>2. \A i \in 0 .. n : i # n + 1 /\ i \in 0 .. (n + 1)
    BY <1>1
  <2>3. n + 1 \in 0 .. (n + 1)
    BY <1>1
  <2> QED
    BY <1>2, <1>4, <2>1, <2>2, <2>3
<1> HIDE DEF more
<1>6. \A i \in 1 .. (n + 1) : more[i] = Seen(more[i - 1], toClient'[i])
  <2> SUFFICES ASSUME NEW i \in 1 .. (n + 1)
               PROVE  more[i] = Seen(more[i - 1], toClient'[i])
    OBVIOUS
  <2>1. CASE i = n + 1
    <3>1. i - 1 = n /\ n \in 0 .. n
      BY <1>1, <2>1
    <3>2. more[i - 1] = view
      BY <1>3, <1>5, <3>1 DEF n
    <3> QED
      BY <1>1, <1>5, <2>1, <3>2 DEF w
  <2>2. CASE i # n + 1
    <3>1. i \in 1 .. n /\ i \in 0 .. n /\ i - 1 \in 0 .. n
      BY <1>1, <2>2
    <3> QED
      BY <1>1, <1>4, <1>5, <3>1
  <2> QED
    BY <2>1, <2>2
<1>7. more[0] = View0 /\ View0' = View0
  BY <1>1, <1>4, <1>5 DEF View0
<1>8. PICK path : path = more
  OBVIOUS
<1>9. Unfolds(path)'
  <2>1. /\ more \in [0 .. Len(toClient') -> Views]
        /\ more[0] = [screen |-> display', mode |-> mode']
        /\ \A i \in 1 .. Len(toClient') : more[i] = Seen(more[i - 1], toClient'[i])
    BY <1>1, <1>5, <1>6, <1>7 DEF View0
  <2> QED
    BY <1>8, <2>1 DEF Unfolds
<1>10. Final(w)'
  BY <1>1, <1>5, <1>8, <1>9 DEF Final, w
<1> QED
  BY <1>2, <1>10 DEF w

\* A message less: where the rest leads has not changed.
LEMMA FinalRead ==
  ASSUME TypeInv, NEW view, Final(view), toClient # <<>>, toClient' = Tail(toClient),
         View0' = Seen(View0, Head(toClient))
  PROVE  Final(view)'
<1> DEFINE n == Len(toClient')
<1>1. /\ n \in Nat /\ Len(toClient) = n + 1
      /\ \A i \in 1 .. n : toClient'[i] = toClient[i + 1]
      /\ Head(toClient) = toClient[1]
  BY Shrunk DEF TypeInv, TypeOK, StreamTypeOK
<1>2. PICK views : Unfolds(views) /\ views[n + 1] = view
  BY <1>1 DEF Final
<1>3. /\ views \in [0 .. (n + 1) -> Views] /\ views[0] = View0
      /\ \A i \in 1 .. (n + 1) : views[i] = Seen(views[i - 1], toClient[i])
  BY <1>1, <1>2 DEF Unfolds, View0
<1> HIDE DEF n
<1> DEFINE less == [i \in 0 .. n |-> views[i + 1]]
<1>4. /\ less \in [0 .. n -> Views]
      /\ \A i \in 0 .. n : less[i] = views[i + 1]
  <2>1. \A i \in 0 .. n : i + 1 \in 0 .. (n + 1)
    BY <1>1
  <2> QED
    BY <1>3, <2>1
<1> HIDE DEF less
<1>5. less[0] = View0'
  <2>1. 0 \in 0 .. n /\ 1 \in 1 .. (n + 1) /\ 0 + 1 = 1 /\ 1 - 1 = 0
    BY <1>1
  <2>2. less[0] = views[1] /\ views[1] = Seen(views[0], toClient[1])
    BY <1>3, <1>4, <2>1
  <2> QED
    BY <1>1, <1>3, <2>2
<1>6. \A i \in 1 .. n : less[i] = Seen(less[i - 1], toClient'[i])
  <2> SUFFICES ASSUME NEW i \in 1 .. n
               PROVE  less[i] = Seen(less[i - 1], toClient'[i])
    OBVIOUS
  <2>1. /\ i \in 0 .. n /\ i - 1 \in 0 .. n /\ i + 1 \in 1 .. (n + 1)
        /\ (i - 1) + 1 = i /\ (i + 1) - 1 = i
    BY <1>1
  <2>2. less[i] = views[i + 1] /\ less[i - 1] = views[i]
    BY <1>4, <2>1
  <2>3. views[i + 1] = Seen(views[i], toClient[i + 1])
    BY <1>3, <2>1
  <2> QED
    BY <1>1, <2>2, <2>3
<1>7. less[n] = view
  <2>1. n \in 0 .. n
    BY <1>1
  <2> QED
    BY <1>2, <1>4, <2>1
<1>8. PICK path : path = less
  OBVIOUS
<1>9. Unfolds(path)'
  <2>1. /\ less \in [0 .. Len(toClient') -> Views]
        /\ less[0] = [screen |-> display', mode |-> mode']
        /\ \A i \in 1 .. Len(toClient') : less[i] = Seen(less[i - 1], toClient'[i])
    BY <1>4, <1>5, <1>6 DEF View0, n
  <2> QED
    BY <1>8, <2>1 DEF Unfolds
<1> QED
  BY <1>7, <1>8, <1>9 DEF Final, n

\* A display more.
LEMMA FinalDisplayed ==
  ASSUME TypeInv, NEW view \in Views, Final(view), NEW data \in Outputs, Sendall(data),
         UNCHANGED <<display, mode>>
  PROVE  \E w \in Views : Final(w)' /\ w.mode = "lu" /\ w.screen = Painted(view.screen, data)
<1> DEFINE k == Len(copies) + 1
<1>1. SendRecord(pending, data, 0, k) /\ k \in Nat \ {0}
  BY LenProperties DEF Sendall, TypeInv, TypeOK, StreamTypeOK
<1> HIDE DEF k
<1>2. PICK m \in Messages :
        toClient' = Append(toClient, m) /\ m.type = "3270-DATA" /\ m.data = data
  <2>1. data \in Screens
    BY ScreensAssumption
  <2> QED
    BY <1>1, <2>1, RecordHolds
<1> DEFINE w == Seen(view, m)
<1>3. w \in Views /\ Final(w)'
  BY <1>2, FinalSent
<1>4. w.mode = "lu" /\ w.screen = Painted(view.screen, data)
  BY <1>2, SeenView
<1> QED
  BY <1>3, <1>4

\* A line of the SSCP-LU session more.
LEMMA FinalText ==
  ASSUME TypeInv, NEW view \in Views, Final(view), SendSscp, UNCHANGED <<display, mode>>
  PROVE  \E w \in Views : Final(w)' /\ w.mode = "sscp"
<1> DEFINE m == [type |-> "SSCP-LU-DATA"]
           w == Seen(view, m)
<1>1. m \in Messages /\ toClient' = Append(toClient, m)
  BY DEF Messages, SendSscp, Write
<1>2. m.type = "SSCP-LU-DATA"
  OBVIOUS
<1> HIDE DEF m
<1>3. w \in Views /\ Final(w)'
  BY <1>1, FinalSent
<1>4. w.mode = "sscp"
  BY <1>1, <1>2, SeenView
<1> QED
  BY <1>3, <1>4

\* The server never sends the terminal astray.
LEMMA ServerLeads ==
  ASSUME TypeInv, RoomInv, ScreenInv, NEW view \in Views, Final(view), LeadsTo(view),
         \A i \in Responses : toServer[i].positive, Server \/ Broken
  PROVE  \E w \in Views : Final(w)' /\ LeadsTo(w)'
<1>1. UNCHANGED <<display, mode, scenario>> /\ panel \in Contents
  BY ServerFrame DEF termVars, TypeInv, TypeOK
<1>2. view.screen \in Contents
  BY DEF Views
<1>3. ASSUME toClient' = toClient, LeadsTo(view)'
      PROVE  \E w \in Views : Final(w)' /\ LeadsTo(w)'
  BY <1>1, <1>3, FinalSame
<1>4. ASSUME pc' = "ended"
      PROVE  \E w \in Views : Final(w)' /\ LeadsTo(w)'
  <2>1. \A w : LeadsTo(w)'
    BY <1>4 DEF LeadsTo
  <2>2. \E w \in Views : Final(w)'
    <3>1. CASE toClient' = toClient
      BY <1>1, <3>1, FinalSame
    <3>2. ASSUME NEW m \in Messages, toClient' = Append(toClient, m)
          PROVE  \E w \in Views : Final(w)'
      BY <1>1, <3>2, FinalSent
    <3> QED
      BY <3>1, <3>2, ServerWrites
  <2> QED
    BY <2>1, <2>2
<1>5. ASSUME NEW op \in {"EraseWrite", "Write"}, Show(op), pc' = "lu",
             op = "EraseWrite" \/ (scenario.messages /\ pc = "lu")
      PROVE  \E w \in Views : Final(w)' /\ LeadsTo(w)'
  <2> DEFINE out == [op |-> op, id |-> NextId]
  <2>1. /\ out \in Outputs /\ Sendall(out) /\ out.op = op
        /\ panel' = Painted(panel, out)
    BY <1>5, Shown
  <2> HIDE DEF out
  <2>2. PICK w \in Views : Final(w)' /\ w.mode = "lu" /\ w.screen = Painted(view.screen, out)
    BY <1>1, <2>1, FinalDisplayed
  <2>3. ~Patched' => w.screen = panel'
    <3>1. CASE op = "EraseWrite"
      BY <1>1, <1>2, <2>1, <2>2, <3>1, PaintedContents
    <3>2. CASE scenario.messages /\ pc = "lu"
      <4>1. Patched' <=> Patched
        BY <1>1 DEF Patched
      <4>2. ~Patched => view.screen = panel
        BY <3>2 DEF LeadsTo
      <4> QED
        BY <2>1, <2>2, <4>1, <4>2
    <3> QED
      BY <1>5, <3>1, <3>2
  <2>4. LeadsTo(w)'
    BY <1>5, <2>2, <2>3 DEF LeadsTo
  <2> QED
    BY <2>2, <2>4
<1>6. CASE FirstScreen \/ AppRepaints \/ UnwindPanel
  BY <1>5, <1>6 DEF FirstScreen, AppRepaints, UnwindPanel
<1>7. CASE AppPatches
  BY <1>5, <1>7 DEF AppPatches
<1>8. CASE Attention \/ Resume
  <2>1. /\ Redisplay /\ pc \in {"lu", "sscp"} /\ pc' = "lu" /\ panel' = panel
    BY <1>8 DEF Attention, Resume, hostVars
  <2>2. /\ last_screen \in Outputs /\ Painted(panel, last_screen) = panel
        /\ ~scenario.messages => last_screen.op = "EraseWrite"
    BY <2>1 DEF ScreenInv, Restores
  <2>3. Sendall(last_screen)
    BY <2>1, <2>2, NoScreenAssumption, ScreensAssumption DEF Redisplay
  <2>4. PICK w \in Views :
          Final(w)' /\ w.mode = "lu" /\ w.screen = Painted(view.screen, last_screen)
    BY <1>1, <2>2, <2>3, FinalDisplayed
  <2>5. ~Patched => w.screen = panel
    <3>1. CASE pc = "lu"
      BY <2>2, <2>4, <3>1 DEF LeadsTo
    <3>2. CASE pc = "sscp"
      <4>1. "SYSREQ" \in scenario.keys
        BY <3>2 DEF ScreenInv, NeverSuspended
      <4>2. ~Patched => last_screen.op = "EraseWrite"
        BY <2>2, <4>1 DEF Patched
      <4> QED
        BY <1>1, <1>2, <2>2, <2>4, <4>2, PaintedContents
    <3> QED
      BY <2>1, <3>1, <3>2
  <2>6. LeadsTo(w)'
    BY <1>1, <2>1, <2>4, <2>5 DEF LeadsTo, Patched
  <2> QED
    BY <2>4, <2>6
<1>9. CASE TakeResponse
  <2>1. /\ toServer # <<>> /\ Head(toServer).type = "RESPONSE"
        /\ OnResponse(Head(toServer).seq, Head(toServer).positive) /\ UNCHANGED hostVars
    BY <1>9 DEF TakeResponse, Event
  <2>2. Head(toServer).positive
    BY <2>1, Shrunk DEF TypeInv, Responses, Typed
  <2>3. toClient' = toClient
    BY <2>1, <2>2 DEF OnResponse, Settle
  <2>4. LeadsTo(view)'
    BY <2>1 DEF LeadsTo, Patched, hostVars
  <2> QED
    BY <1>3, <2>3, <2>4
<1>10. CASE Suspend \/ Logoff \/ Unrecognized
  <2>1. SendSscp /\ pc' \in {"sscp", "logoff"}
    BY <1>10 DEF Suspend, Logoff, Unrecognized, hostVars
  <2>2. PICK w \in Views : Final(w)' /\ w.mode = "sscp"
    BY <1>1, <2>1, FinalText
  <2>3. LeadsTo(w)'
    BY <2>1, <2>2 DEF LeadsTo
  <2> QED
    BY <2>2, <2>3
<1>11. CASE IgnoreAttention
  <2>1. toClient' = toClient /\ LeadsTo(view)'
    BY <1>11 DEF IgnoreAttention, LeadsTo, Patched, hostVars, streamVars
  <2> QED
    BY <1>3, <2>1
<1>12. CASE Bind
  <2>1. LeadsTo(view)'
    BY <1>12 DEF Bind, LeadsTo
  <2>2. CASE toClient' = toClient
    BY <1>3, <2>1, <2>2
  <2>3. CASE SendBind
    <3> DEFINE m == [type |-> "BIND-IMAGE"]
    <3>1. m \in Messages /\ toClient' = Append(toClient, m)
      BY <2>3 DEF Messages, SendBind, Write
    <3>2. m.type = "BIND-IMAGE"
      OBVIOUS
    <3> HIDE DEF m
    <3>3. Seen(view, m) = view /\ Final(Seen(view, m))'
      BY <1>1, <3>1, <3>2, FinalSent, SeenView
    <3>4. Final(view)'
      BY <3>3
    <3> QED
      BY <2>1, <3>4
  <2> QED
    BY <1>12, <2>2, <2>3 DEF Bind, streamVars
<1>13. CASE AppEnds \/ Unbind \/ Disconnected \/ Broken
  BY <1>4, <1>13 DEF AppEnds, Unbind, Disconnected, Broken
<1> QED
  BY <1>6, <1>7, <1>8, <1>9, <1>10, <1>11, <1>12, <1>13 DEF Server

\* Every step keeps that what is on its way leads to the panel awaited.
LEMMA SyncKept ==
  ASSUME TypeInv, RoomInv, ScreenInv, SyncInv, [Next]_vars
  PROVE  SyncInv'
<1>1. SUFFICES ASSUME naks' = 0
               PROVE  SyncInv'
  BY DEF SyncInv
<1>2. naks = 0 /\ ~RefuseScreen
  <2>1. naks \in Nat
    BY BoundsAssumption DEF TypeInv, TypeOK
  <2>2. ~RefuseScreen
    <3>1. RefuseScreen => naks' = naks + 1
      BY DEF RefuseScreen
    <3> QED
      BY <1>1, <2>1, <3>1
  <2>3. naks' = naks
    <3>1. CASE Server \/ Broken
      BY <3>1, ServerFrame DEF termVars
    <3>2. CASE Terminal
      BY <2>2, <3>2 DEF Terminal, PaintScreen, ShowSscp, TakeBind, TakeUnbind
    <3>3. CASE User
      BY <3>3, UserFrame
    <3>4. CASE UNCHANGED vars
      BY <3>4 DEF vars, termVars
    <3> QED
      BY <3>1, <3>2, <3>3, <3>4 DEF Next
  <2> QED
    BY <1>1, <2>2, <2>3
<1>3. /\ toServer \in Seq(Events) /\ toClient \in Seq(Messages)
      /\ \A i \in Responses : toServer[i].positive
  BY <1>2 DEF SyncInv, TypeInv, TypeOK, StreamTypeOK
<1>4. PICK view \in Views : Final(view) /\ LeadsTo(view)
  BY <1>2 DEF SyncInv
<1> DEFINE Leads == \E w \in Views : Final(w)' /\ LeadsTo(w)'
           Positive == \A i \in Typed(toServer', "RESPONSE") : toServer'[i].positive
<1> HIDE DEF Leads, Positive
<1>5. Carries(toServer, toServer', "RESPONSE") => Positive
  BY <1>3 DEF Carries, Positive, Responses
<1>6. ASSUME UNCHANGED hostVars, Final(view)'
      PROVE  Leads
  <2>1. LeadsTo(view)'
    BY <1>4, <1>6 DEF LeadsTo, Patched, hostVars
  <2> QED
    BY <1>6, <2>1 DEF Leads
<1>7. ASSUME Server \/ Broken
      PROVE  Leads /\ Positive
  <2>1. Leads
    BY <1>3, <1>4, <1>7, ServerLeads DEF Leads
  <2>2. Carries(toServer, toServer', "RESPONSE")
    BY <1>3, <1>7, ServerFrame, ChannelCarries
  <2> QED
    BY <1>5, <2>1, <2>2
<1>8. ASSUME Terminal
      PROVE  Leads /\ Positive
  <2>1. /\ toClient # <<>> /\ toClient' = Tail(toClient) /\ UNCHANGED hostVars
    BY <1>8, TerminalFrame
  <2>2. View0' = Seen(View0, Head(toClient))
    <3>1. CASE PaintScreen
      BY <3>1 DEF PaintScreen, Arrives, Seen, View0
    <3>2. CASE ShowSscp
      BY <3>2 DEF ShowSscp, Arrives, Seen, View0
    <3>3. CASE TakeBind
      BY <3>3 DEF TakeBind, Arrives, Seen, View0
    <3>4. CASE TakeUnbind
      BY <3>4 DEF TakeUnbind, Arrives, Seen, View0
    <3> QED
      BY <1>2, <1>8, <3>1, <3>2, <3>3, <3>4 DEF Terminal
  <2>3. Leads
    BY <1>4, <1>6, <2>1, <2>2, FinalRead
  <2>4. Positive
    <3>1. CASE toServer' = toServer
      BY <1>3, <1>5, <3>1, ChannelCarries
    <3>2. CASE toServer' # toServer
      <4> DEFINE m == [type |-> "RESPONSE", seq |-> Head(toClient).seq, positive |-> TRUE]
      <4>1. toServer' = Append(toServer, m)
        BY <1>2, <1>8, <3>2 DEF Terminal, PaintScreen, ShowSscp, TakeBind, TakeUnbind, Answer
      <4>2. m.positive
        OBVIOUS
      <4>3. m \in Events
        <5>1. Head(toClient).type = "3270-DATA" /\ Head(toClient) \in Messages
          BY <1>2, <1>3, <1>8, <2>1, <3>2, Shrunk
             DEF Terminal, PaintScreen, ShowSscp, TakeBind, TakeUnbind, Arrives
        <5> QED
          BY <5>1, MessageFields DEF Events
      <4> HIDE DEF m
      <4>4. /\ DOMAIN toServer = 1 .. Len(toServer) /\ DOMAIN toServer' = 1 .. Len(toServer')
            /\ Len(toServer) \in Nat /\ Len(toServer') = Len(toServer) + 1
            /\ \A i \in DOMAIN toServer : toServer'[i] = toServer[i]
            /\ toServer'[Len(toServer')] = m
        BY <1>3, <4>1, <4>3, Grown
      <4>5. \A i \in DOMAIN toServer' : i \in DOMAIN toServer \/ i = Len(toServer')
        BY <4>4
      <4> QED
        BY <1>3, <4>2, <4>4, <4>5 DEF Positive, Responses, Typed
    <3> QED
      BY <3>1, <3>2
  <2> QED
    BY <2>3, <2>4
<1>9. ASSUME User \/ UNCHANGED vars
      PROVE  Leads /\ Positive
  <2>1. UNCHANGED <<toClient, display, mode, hostVars>>
    BY <1>9, UserFrame DEF vars, streamVars, termVars
  <2>2. Leads
    BY <1>4, <1>6, <2>1, FinalSame
  <2>3. Carries(toServer, toServer', "RESPONSE")
    <3>1. toServer' = toServer \/ \E m \in Events :
            m.type # "RESPONSE" /\ toServer' = Append(toServer, m)
      BY <1>9, UserFrame DEF vars
    <3> QED
      BY <1>3, <3>1, ChannelCarries
  <2> QED
    BY <1>5, <2>2, <2>3
<1>10. Leads /\ Positive
  BY <1>7, <1>8, <1>9 DEF Next
<1> QED
  BY <1>10 DEF SyncInv, Leads, Positive, Responses, Typed

-----------------------------------------------------------------------------
(* A user who waits for the answer.                                        *)

\* The lines and the replies under way.
Lines(channel) == Typed(channel, "3270-DATA") \cup Typed(channel, "SSCP-LU-DATA")

\* Every step of a user who waits leaves at most one line on its way.
LEMMA WaitKept ==
  ASSUME TypeInv, RoomInv, SyncInv, WaitInv, [Next]_vars
  PROVE  WaitInv'
<1> SUFFICES ASSUME naks' = 0, ~scenario'.typeAhead, pc' # "ended"
             PROVE  WaitInv'
  BY DEF WaitInv
<1>1. /\ naks = 0 /\ scenario' = scenario /\ pc # "ended" /\ ~scenario.typeAhead
  <2>1. naks \in Nat
    BY BoundsAssumption DEF TypeInv, TypeOK
  <2>2. CASE Server \/ Broken
    BY <2>2, ServerFrame DEF termVars
  <2>3. CASE Terminal
    <3>1. UNCHANGED hostVars /\ (naks' = naks \/ naks' = naks + 1)
      BY <2>3, TerminalFrame DEF Terminal, PaintScreen, RefuseScreen, ShowSscp, TakeBind, TakeUnbind
    <3> QED
      BY <2>1, <3>1 DEF hostVars
  <2>4. CASE User
    BY <2>4, UserFrame DEF hostVars
  <2>5. CASE UNCHANGED vars
    BY <2>5 DEF vars, hostVars, termVars
  <2> QED
    BY <2>2, <2>3, <2>4, <2>5 DEF Next
<1>2. /\ toServer \in Seq(Events) /\ toClient \in Seq(Messages)
      /\ pc \in {"start", "logon", "lu", "sscp", "logoff", "ended"}
  BY DEF TypeInv, TypeOK, StreamTypeOK
<1>3. \A i \in Lines(toServer) :
        /\ Len(toServer) = 1 /\ toClient = <<>>
        /\ toServer[i].type = "3270-DATA" => pc = "lu"
        /\ toServer[i].type = "SSCP-LU-DATA" => pc \in {"sscp", "logoff"}
  BY <1>1 DEF WaitInv, Lines
<1>4. ASSUME Lines(toServer') = {}
      PROVE  WaitInv'
  BY <1>4 DEF WaitInv, Lines, Typed
<1>5. ASSUME UNCHANGED <<toServer, toClient, pc>>
      PROVE  WaitInv'
  BY <1>1, <1>5 DEF WaitInv, Typed
<1>6. CASE Server \/ Broken
  <2>1. CASE toServer # <<>> /\ toServer' = Tail(toServer)
    <3>1. /\ Len(toServer') = Len(toServer) - 1 /\ Len(toServer) \in Nat
          /\ DOMAIN toServer' = 1 .. Len(toServer')
          /\ \A i \in DOMAIN toServer' : i + 1 \in DOMAIN toServer /\ toServer'[i] = toServer[i + 1]
      BY <1>2, <2>1, Shrunk
    <3>2. \A i \in Lines(toServer') : i \in DOMAIN toServer' /\ i + 1 \in Lines(toServer)
      BY <3>1 DEF Lines, Typed
    <3>3. Len(toServer) = 1 => DOMAIN toServer' = {}
      BY <3>1
    <3>4. Lines(toServer') = {}
      BY <1>3, <3>2, <3>3
    <3> QED
      BY <1>4, <3>4
  <2>2. CASE toServer' = toServer /\ (Bind \/ FirstScreen \/ Unbind \/ UnwindPanel \/ Broken)
    <3>1. CASE Bind \/ FirstScreen
      <4>1. pc \in {"start", "logon"}
        BY <3>1 DEF Bind, FirstScreen
      <4>2. Lines(toServer) = {}
        BY <1>3, <4>1 DEF Lines, Typed
      <4> QED
        BY <1>4, <2>2, <4>2
    <3>2. CASE UnwindPanel
      <4>1. toServer # <<>> /\ toServer[1].type = "EOF" /\ DOMAIN toServer = 1 .. Len(toServer)
        BY <1>2, <3>2, Shrunk DEF UnwindPanel, Event
      <4>2. \A i \in Lines(toServer) : i = 1
        BY <1>3, <4>1 DEF Lines, Typed
      <4>3. Lines(toServer) = {}
        BY <4>1, <4>2 DEF Lines, Typed
      <4> QED
        BY <1>4, <2>2, <4>3
    <3>3. CASE Unbind \/ Broken
      BY <3>3 DEF Unbind, Broken
    <3> QED
      BY <2>2, <3>1, <3>2, <3>3
  <2> QED
    BY <1>6, <2>1, <2>2, ServerFrame
<1>7. CASE Terminal
  <2>1. toClient # <<>> /\ \A type \in {"3270-DATA", "SSCP-LU-DATA"} :
                             Carries(toServer, toServer', type)
    BY <1>2, <1>7, TerminalFrame, ChannelCarries
  <2>2. Typed(toServer, "3270-DATA") = {} /\ Typed(toServer, "SSCP-LU-DATA") = {}
    BY <1>3, <2>1 DEF Lines
  <2>3. Lines(toServer') = {}
    BY <2>1, <2>2, NoneCarried DEF Lines
  <2> QED
    BY <1>4, <2>3
<1>8. CASE User
  <2>1. /\ UNCHANGED <<streamVars, hostVars>> /\ ~HungUp
        /\ toServer = <<>> /\ toClient = <<>>
    BY <1>1, <1>8, UserFrame DEF User, PressAid, EnterLine, PressSysreq, PressAttn, HangUp, Press
  <2>2. /\ mode = "lu" => pc = "lu"
        /\ mode = "sscp" => pc \in {"sscp", "logoff"}
    <3>1. PICK view \in Views : Final(view) /\ LeadsTo(view)
      BY <1>1 DEF SyncInv
    <3>2. view.mode = mode
      BY <2>1, <3>1, FinalNow DEF View0
    <3> QED
      BY <1>1, <1>2, <3>1, <3>2 DEF LeadsTo
  <2>3. \E m \in Events :
          /\ toServer' = Append(toServer, m)
          /\ m.type = "3270-DATA" => mode = "lu"
          /\ m.type = "SSCP-LU-DATA" => mode = "sscp"
    <3>1. \A type \in {"3270-DATA", "SYSREQ", "ATTN", "EOF"} : [type |-> type] \in Events
      BY DEF Events
    <3>2. \A key \in {"LINE", "LOGOFF"} : [type |-> "SSCP-LU-DATA", text |-> key] \in Events
      BY DEF Events
    <3>3. CASE PressAid
      BY <3>1, <3>3 DEF PressAid, Press
    <3>4. ASSUME NEW key \in {"LINE", "LOGOFF"}, EnterLine(key)
          PROVE  \E m \in Events :
                   /\ toServer' = Append(toServer, m)
                   /\ m.type = "3270-DATA" => mode = "lu"
                   /\ m.type = "SSCP-LU-DATA" => mode = "sscp"
      BY <3>2, <3>4 DEF EnterLine, Press
    <3>5. CASE PressSysreq \/ PressAttn \/ HangUp
      BY <3>1, <3>5 DEF PressSysreq, PressAttn, HangUp, Press
    <3> QED
      BY <1>8, <3>3, <3>4, <3>5 DEF User
  <2>4. PICK m \in Events :
          /\ toServer' = Append(toServer, m)
          /\ m.type = "3270-DATA" => mode = "lu"
          /\ m.type = "SSCP-LU-DATA" => mode = "sscp"
    BY <2>3
  <2>5. Len(toServer') = 1 /\ DOMAIN toServer' = {1} /\ toServer'[1] = m
    BY <2>1, <2>4
  <2>6. toClient' = <<>> /\ pc' = pc
    BY <2>1 DEF streamVars, hostVars
  <2> QED
    BY <2>2, <2>4, <2>5, <2>6 DEF WaitInv, Typed
<1>9. CASE UNCHANGED vars
  BY <1>5, <1>9 DEF vars, streamVars, hostVars
<1> QED
  BY <1>6, <1>7, <1>8, <1>9 DEF Next

\* Everything at once.
SessionInv == IInv /\ ScreenInv /\ SyncInv /\ WaitInv

\* It is an invariant of the composed session.
LEMMA SessionInvariant == Spec => []SessionInv
<1>1. Init => SessionInv
  <2> SUFFICES ASSUME Init
               PROVE  SessionInv
    OBVIOUS
  <2>1. IInv
    BY StartsRight
  <2>2. toServer = <<>> /\ toClient = <<>>
    BY DEF Init, StreamInit
  <2>3. Len(toClient) = 0 /\ DOMAIN toServer = {} /\ DOMAIN toClient = {}
    BY <2>2
  <2>4. \A type : Typed(toServer, type) = {} /\ Typed(toClient, type) = {}
    BY <2>3 DEF Typed
  <2>5. ScreenInv
    BY <2>4 DEF ScreenInv, NeverSuspended, Restores, Init
  <2>6. WaitInv
    BY <2>4 DEF WaitInv
  <2>7. SyncInv
    <3> DEFINE start == [i \in 0 .. 0 |-> View0]
    <3>1. View0 \in Views
      BY <2>1 DEF IInv, TypeInv, TypeOK, View0, Views
    <3>2. /\ start \in [0 .. Len(toClient) -> Views] /\ start[0] = View0
          /\ 1 .. Len(toClient) = {}
      BY <2>3, <3>1
    <3>3. Final(View0)
      BY <2>3, <3>2 DEF Final, Unfolds, View0
    <3>4. LeadsTo(View0)
      BY DEF LeadsTo, Init, View0
    <3> QED
      BY <2>4, <3>1, <3>3, <3>4 DEF SyncInv, Responses
  <2> QED
    BY <2>1, <2>5, <2>6, <2>7 DEF SessionInv
<1>2. SessionInv /\ [Next]_vars => SessionInv'
  <2> SUFFICES ASSUME SessionInv, [Next]_vars
               PROVE  SessionInv'
    OBVIOUS
  <2>1. TypeInv /\ RoomInv /\ BindInv /\ ScreenInv /\ SyncInv /\ WaitInv
    BY DEF SessionInv, IInv
  <2>2. IInv'
    BY <2>1, TypeKept, RoomKept, BindKept DEF IInv
  <2>3. ScreenInv'
    BY <2>1, NeverSuspendedKept, RestoresKept DEF ScreenInv
  <2>4. SyncInv'
    BY <2>1, SyncKept
  <2>5. WaitInv'
    BY <2>1, WaitKept
  <2> QED
    BY <2>2, <2>3, <2>4, <2>5 DEF SessionInv
<1> QED
  BY <1>1, <1>2, PTL DEF Spec

\* Without a refused screen, the terminal comes back to the panel the
\* application waits on (src/server.py:301), if no message is patched into a
\* panel that SYSREQ may have taken off the screen.
THEOREM ComesBackInSync ==
  (\A s \in Scenarios : "SYSREQ" \in s.keys => ~s.messages) => (Spec => []InSync)
<1> SUFFICES ASSUME \A s \in Scenarios : "SYSREQ" \in s.keys => ~s.messages
             PROVE  Spec => []InSync
  OBVIOUS
<1>1. SessionInv => InSync
  <2> SUFFICES ASSUME SessionInv, naks = 0, pc = "lu", toClient = <<>>
               PROVE  display = panel /\ mode = "lu"
    BY DEF InSync, Synchronised
  <2>1. PICK view \in Views : Final(view) /\ LeadsTo(view)
    BY DEF SessionInv, SyncInv
  <2>2. view = View0
    BY <2>1, FinalNow DEF SessionInv, IInv
  <2>3. ~Patched
    BY DEF SessionInv, IInv, TypeInv, TypeOK, Patched
  <2> QED
    BY <2>1, <2>2, <2>3 DEF LeadsTo, View0
<1> QED
  BY <1>1, SessionInvariant, PTL

\* While the session is suspended the server sends no 3270 record
\* (src/server.py:1007), if no screen is refused: only a refusal read in the
\* SSCP-LU session makes it send one.
THEOREM SuspendedIsSilent ==
  (\A s \in Scenarios : "SYSREQ" \in s.keys => s.refusals = 0) => (Spec => SuspendedSilent)
<1> SUFFICES ASSUME \A s \in Scenarios : "SYSREQ" \in s.keys => s.refusals = 0
             PROVE  Spec => SuspendedSilent
  OBVIOUS
<1>1. SessionInv /\ [Next]_vars => [pc = "sscp" /\ pc' = "sscp" => sends' = sends]_vars
  <2> SUFFICES ASSUME SessionInv, Next, pc = "sscp", pc' = "sscp"
               PROVE  sends' = sends
    OBVIOUS
  <2>1. naks = 0
    <3>1. "SYSREQ" \in scenario.keys /\ scenario \in Scenarios
      BY DEF SessionInv, ScreenInv, NeverSuspended, IInv, TypeInv, TypeOK
    <3>2. scenario.refusals = 0 /\ naks \in Nat /\ naks <= scenario.refusals
      BY <3>1, BoundsAssumption DEF SessionInv, IInv, TypeInv, TypeOK
    <3> QED
      BY <3>2
  <2>2. CASE TakeResponse
    <3>1. Head(toServer).positive
      BY <2>1, <2>2, Shrunk
         DEF TakeResponse, Event, SessionInv, SyncInv, IInv, TypeInv, Responses, Typed
    <3> QED
      BY <2>2, <3>1 DEF TakeResponse, OnResponse, Settle
  <2>3. CASE IgnoreAttention \/ Unrecognized
    BY <2>3 DEF IgnoreAttention, Unrecognized, SendSscp, streamVars
  <2>4. CASE Terminal \/ User
    BY <2>4, TerminalFrame, UserFrame DEF SessionInv, IInv, streamVars
  <2> QED
    BY <2>2, <2>3, <2>4
       DEF Next, Server, Bind, FirstScreen, AppRepaints, AppPatches, AppEnds, Attention, Suspend,
           Resume, Logoff, Unbind, Disconnected, UnwindPanel, Broken
<1> QED
  BY <1>1, SessionInvariant, PTL DEF Spec, SuspendedSilent

\* What is typed in one session is read by that session
\* (src/server.py:996-1044), if a user with a SYSREQ key waits for the answer
\* before he presses another and his terminal refuses nothing.
THEOREM InputStaysInItsSession ==
  (\A s \in Scenarios : "SYSREQ" \in s.keys => ~s.typeAhead /\ s.refusals = 0)
    => (Spec => InputReachesItsSession)
<1> SUFFICES ASSUME \A s \in Scenarios : "SYSREQ" \in s.keys => ~s.typeAhead /\ s.refusals = 0
             PROVE  Spec => InputReachesItsSession
  OBVIOUS
<1> DEFINE Right == toServer # <<>> /\ toServer' = Tail(toServer)
                      => /\ Head(toServer).type = "3270-DATA" => pc = "lu"
                         /\ Head(toServer).type = "SSCP-LU-DATA" => pc = "sscp"
<1>1. SessionInv /\ [Next]_vars => [Right]_vars
  <2> SUFFICES ASSUME SessionInv, Next, toServer # <<>>, toServer' = Tail(toServer)
               PROVE  /\ Head(toServer).type = "3270-DATA" => pc = "lu"
                      /\ Head(toServer).type = "SSCP-LU-DATA" => pc = "sscp"
    OBVIOUS
  <2>1. toServer \in Seq(Events) /\ scenario \in Scenarios
    BY DEF SessionInv, IInv, TypeInv, TypeOK
  <2>2. Len(toServer') # Len(toServer) /\ Head(toServer) = toServer[1] /\ 1 \in DOMAIN toServer
    BY <2>1, Shrunk
  <2>3. pc \in {"lu", "sscp"}
    <3>1. CASE Server \/ Broken
      BY <2>2, <3>1, ServerFrame
    <3>2. \A m \in Events : toServer' # Append(toServer, m)
      <4> SUFFICES ASSUME NEW m \in Events, toServer' = Append(toServer, m)
                   PROVE  FALSE
        OBVIOUS
      <4>1. Len(toServer') = Len(toServer) + 1 /\ Len(toServer') = Len(toServer) - 1
            /\ Len(toServer) \in Nat
        BY <2>1, Shrunk, Grown
      <4> QED
        BY <4>1
    <3>3. CASE Terminal \/ User
      BY <2>2, <3>2, <3>3, TerminalFrame, UserFrame DEF SessionInv, IInv
    <3> QED
      BY <3>1, <3>3 DEF Next
  <2>4. CASE "SYSREQ" \notin scenario.keys
    BY <2>2, <2>3, <2>4 DEF SessionInv, ScreenInv, NeverSuspended, Typed
  <2>5. CASE "SYSREQ" \in scenario.keys
    <3>1. ~scenario.typeAhead /\ naks = 0
      <4>1. ~scenario.typeAhead /\ scenario.refusals = 0 /\ naks \in Nat /\ naks <= scenario.refusals
        BY <2>1, <2>5, BoundsAssumption DEF SessionInv, IInv, TypeInv, TypeOK
      <4> QED
        BY <4>1
    <3> QED
      BY <2>2, <2>3, <3>1 DEF SessionInv, WaitInv, Typed
  <2> QED
    BY <2>4, <2>5
<1> QED
  BY <1>1, SessionInvariant, PTL DEF Spec, InputReachesItsSession
=============================================================================
