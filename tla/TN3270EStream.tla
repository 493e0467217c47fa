--------------------------- MODULE TN3270EStream ---------------------------
(***************************************************************************)
(* TN3270EStream (src/server.py), the socket wrapper that frames the       *)
(* outbound 3270 records of one TN3270E session: the numbering of the      *)
(* records, the map of records still to be acknowledged, the               *)
(* retransmission of a record the client refused, and the BIND / UNBIND /  *)
(* SSCP-LU messages.                                                       *)
(*                                                                         *)
(* The module is a component: its environment (the application that calls  *)
(* sendall, and the client that answers) is free to call anything in any   *)
(* order and to answer any sequence number, known or not, any number of    *)
(* times.  HostSession puts the real callers and a terminal around it.     *)
(***************************************************************************)
EXTENDS Integers, Sequences, FiniteSets

CONSTANTS
  Screens,      \* the 3270 data streams the application sends
  NoScreen,     \* "nothing sent yet" (None)
  Base,         \* values of a byte: 256 in the code, a few in a model
  PendingCap,   \* _RESPONSE_PENDING_CAP
  MaxRetries,   \* _RESPONSE_MAX_RETRIES
  MaxSends      \* bound: 3270-DATA records sent in one behaviour

ASSUME BaseAssumption == Base \in Nat /\ Base >= 2
ASSUME CapAssumption == PendingCap \in Nat /\ PendingCap >= 1
ASSUME RetriesAssumption == MaxRetries \in Nat
ASSUME SendsAssumption == MaxSends \in Nat
ASSUME NoScreenAssumption == NoScreen \notin Screens

\* The optional TN3270E functions the server supports (E_SUPPORTED_FUNCTIONS).
SupportedFunctions ==
  {"BIND-IMAGE", "RESPONSES", "SYSREQ", "CONTENTION-RESOLUTION"}

\* The two-byte sequence numbers, and the value of a RESPONSE without one.
SeqNumbers == 0 .. (Base * Base - 1)
NoSeq == -1

VARIABLES
  functions,    \* the functions agreed for this session
  bound,        \* has a BIND been sent?
  seq,          \* _seq: the number of the last record sent under RESPONSES
  last_screen,  \* the last data given to sendall
  pending,      \* _pending: one entry per record not yet acknowledged
  toClient,     \* messages written to the socket and not yet read
  sends,        \* history: 3270-DATA records sent so far
  copies        \* history: copies[k] = how often the k-th display was sent

streamVars ==
  <<functions, bound, seq, last_screen, pending, toClient, sends, copies>>

(***************************************************************************)
(* _pending is a Python dict: keyed by sequence number and iterated in the *)
(* order in which the keys were first inserted.  An entry is a record;     *)
(* "at" is the time its key was inserted.  "display" names the sendall     *)
(* call the data came from.                                                *)
(***************************************************************************)
Entries ==
  [seq : SeqNumbers, data : Screens, retries : 0 .. MaxRetries,
   display : Nat \ {0}, at : Nat]

Entry(s) == {e \in pending : e.seq = s}

\* Faulty: the entry inserted last is taken for the oldest.
Youngest(entries) == CHOOSE e \in entries : \A f \in entries : e.at >= f.at

\* next(iter(_pending)): the entry whose key was inserted first.
Oldest(entries) == CHOOSE e \in entries : \A f \in entries : e.at <= f.at

\* Faulty: the retry is counted here and by the caller.
InsertCountedTwice(entries, s, data, retries, display) ==
  {e \in entries : e.seq # s} \cup
    {[seq |-> s, data |-> data, retries |-> retries + 1, display |-> display,
      at |-> sends + 1]}

\* _pending[s] = (data, retries), on a dict holding "entries": a key that is
\* already there keeps its place in the order.
Insert(entries, s, data, retries, display) ==
  LET same == {e \in entries : e.seq = s}
  IN  (entries \ same) \cup
        {[seq |-> s, data |-> data, retries |-> retries, display |-> display,
          at |-> IF same = {} THEN sends + 1
                              ELSE (CHOOSE e \in same : TRUE).at]}

\* The cap on _pending: one entry too many pushes the oldest out.
Capped(entries) ==
  IF Cardinality(entries) > PendingCap
  THEN entries \ {Oldest(entries)}
  ELSE entries

NextSeq == (seq + 1) % (Base * Base)

\* A 3270-DATA message.  "ack" is RESPONSE-FLAG = ALWAYS, "grant" the
\* SEND-DATA bit of the REQUEST-FLAG.
DataMessage(s, data, display) ==
  [type |-> "3270-DATA", ack |-> "RESPONSES" \in functions, seq |-> s,
   grant |-> "CONTENTION-RESOLUTION" \in functions,
   data |-> data, display |-> display]

Messages ==
  [type : {"3270-DATA"}, ack : BOOLEAN, seq : SeqNumbers, grant : BOOLEAN,
   data : Screens, display : Nat \ {0}]
  \cup [type : {"BIND-IMAGE", "UNBIND", "SSCP-LU-DATA"}]

Write(message) == toClient' = Append(toClient, message)

\* _send_3270, on a _pending that holds "entries".
SendRecord(entries, data, retries, display) ==
  /\ sends < MaxSends
  /\ sends' = sends + 1
  /\ IF "RESPONSES" \in functions
     THEN /\ seq' = NextSeq
          /\ pending' = Capped(Insert(entries, NextSeq, data, retries, display))
          /\ Write(DataMessage(NextSeq, data, display))
     ELSE /\ pending' = entries
          /\ Write(DataMessage(0, data, display))
          /\ UNCHANGED seq

\* Faulty: only the first screen is remembered for redisplay.
SendallRemembersFirst(data) ==
  /\ last_screen' = IF last_screen = NoScreen THEN data ELSE last_screen
  /\ copies' = Append(copies, 1)
  /\ SendRecord(pending, data, 0, Len(copies) + 1)
  /\ UNCHANGED <<functions, bound>>

Sendall(data) ==
  /\ last_screen' = data
  /\ copies' = Append(copies, 1)
  /\ SendRecord(pending, data, 0, Len(copies) + 1)
  /\ UNCHANGED <<functions, bound>>

Redisplay ==
  IF last_screen = NoScreen
  THEN UNCHANGED streamVars
  ELSE Sendall(last_screen)

(***************************************************************************)
(* on_response.  The payload is the record as _next_unit framed it: the    *)
(* doubled IACs of the header are not collapsed, so payload[3] and         *)
(* payload[4] of a number whose high byte is 0xFF are both 0xFF.           *)
(***************************************************************************)
AsRead(s) ==
  IF s # NoSeq /\ s \div Base = Base - 1 THEN Base * Base - 1 ELSE s

\* Faulty: the retry count starts again with every copy.
RetransmitUncounted(e) ==
  /\ copies' = [copies EXCEPT ![e.display] = @ + 1]
  /\ SendRecord(pending \ {e}, e.data, e.retries, e.display)
  /\ UNCHANGED <<functions, bound, last_screen>>

\* Faulty: the refused entry stays in the map beside its copy.
RetransmitKeepsEntry(e) ==
  /\ copies' = [copies EXCEPT ![e.display] = @ + 1]
  /\ SendRecord(pending, e.data, e.retries + 1, e.display)
  /\ UNCHANGED <<functions, bound, last_screen>>

Retransmit(e) ==
  /\ copies' = [copies EXCEPT ![e.display] = @ + 1]
  /\ SendRecord(pending \ {e}, e.data, e.retries + 1, e.display)
  /\ UNCHANGED <<functions, bound, last_screen>>

Settle(entries) ==
  /\ pending' = pending \ entries
  /\ UNCHANGED <<functions, bound, seq, last_screen, toClient, sends, copies>>

\* Faulty: one retransmission too many.
OnResponseOnceMore(s, positive) ==
  LET retry == {e \in Entry(AsRead(s)) : ~positive /\ e.retries <= MaxRetries}
  IN  \/ \E e \in retry : Retransmit(e)
      \/ retry = {} /\ Settle(Entry(AsRead(s)))

\* Faulty: an acknowledgement is taken for a refusal.
OnResponseAlwaysNegative(s, positive) ==
  LET retry == {e \in Entry(AsRead(s)) : e.retries < MaxRetries}
  IN  \/ \E e \in retry : Retransmit(e)
      \/ retry = {} /\ Settle(Entry(AsRead(s)))

OnResponse(s, positive) ==
  LET retry == {e \in Entry(AsRead(s)) : ~positive /\ e.retries < MaxRetries}
  IN  \/ \E e \in retry : Retransmit(e)
      \/ retry = {} /\ Settle(Entry(AsRead(s)))

SendBind ==
  /\ Write([type |-> "BIND-IMAGE"])
  /\ bound' = TRUE
  /\ UNCHANGED <<functions, seq, last_screen, pending, sends, copies>>

SendSscp ==
  /\ Write([type |-> "SSCP-LU-DATA"])
  /\ UNCHANGED <<functions, bound, seq, last_screen, pending, sends, copies>>

SendUnbind ==
  /\ Write([type |-> "UNBIND"])
  /\ bound' = FALSE
  /\ UNCHANGED <<functions, seq, last_screen, pending, sends, copies>>

\* The network hands the oldest message on the wire to the client.
Deliver ==
  /\ toClient # <<>>
  /\ toClient' = Tail(toClient)
  /\ UNCHANGED <<functions, bound, seq, last_screen, pending, sends, copies>>

StreamInit ==
  /\ functions \in SUBSET SupportedFunctions
  /\ bound = FALSE
  /\ seq = 0
  /\ last_screen = NoScreen
  /\ pending = {}
  /\ toClient = <<>>
  /\ sends = 0
  /\ copies = <<>>

StreamNext ==
  \/ \E data \in Screens : Sendall(data)
  \/ Redisplay
  \/ \E s \in SeqNumbers \cup {NoSeq}, positive \in BOOLEAN :
       OnResponse(s, positive)
  \/ SendBind
  \/ SendSscp
  \/ SendUnbind
  \/ Deliver

StreamSpec == StreamInit /\ [][StreamNext]_streamVars

-----------------------------------------------------------------------------
\* Every variable of the stream keeps its type; in particular an entry of
\* _pending never records more than _RESPONSE_MAX_RETRIES retransmissions.
StreamTypeOK ==
  /\ functions \subseteq SupportedFunctions
  /\ bound \in BOOLEAN
  /\ seq \in SeqNumbers
  /\ last_screen \in Screens \cup {NoScreen}
  /\ pending \subseteq Entries
  /\ toClient \in Seq(Messages)
  /\ sends \in Nat
  /\ copies \in Seq(Nat)

\* A dict has one entry per key, and one per insertion time; and one display
\* is never tracked under two sequence numbers, so that no two NAKs can both
\* start a chain of retransmissions of it.
KeysUnique ==
  \A e, f \in pending :
    e.seq = f.seq \/ e.at = f.at \/ e.display = f.display => e = f

\* The retry count kept in _pending is the truth: a display tracked with r
\* retransmissions has been put on the wire exactly 1 + r times.
RetriesCounted ==
  \A e \in pending :
    e.display \in DOMAIN copies /\ copies[e.display] = e.retries + 1

\* "a small cap so a persistently-failing screen can't loop"
\* (src/server.py:151): whatever the client answers, however often, one
\* display is sent at most 1 + _RESPONSE_MAX_RETRIES times.
RetransmitsBounded ==
  \A k \in DOMAIN copies : copies[k] <= MaxRetries + 1

\* "so a client that stops sending responses can't grow the map without
\* limit" (src/server.py:154): _pending never exceeds its cap.
PendingBounded ==
  IsFiniteSet(pending) /\ Cardinality(pending) <= PendingCap

\* Insertion times lie in the past.
TimesPast == \A e \in pending : e.at <= sends

\* Nothing is tracked unless the client agreed to acknowledge.
TrackedOnRequest == "RESPONSES" \in functions \/ pending = {}

\* The inductive invariant: the retry counts in _pending, the copies that
\* really went out and the order of the map agree at all times.
StreamInv ==
  /\ StreamTypeOK
  /\ KeysUnique
  /\ RetriesCounted
  /\ RetransmitsBounded
  /\ PendingBounded
  /\ TimesPast
  /\ TrackedOnRequest

\* The cap never costs the record that was just sent: under RESPONSES a
\* record on its way to the client is tracked, so its NAK can be honoured.
NewestTracked ==
  [][sends' # sends /\ "RESPONSES" \in functions
       => \E e \in pending' : e.seq = seq']_streamVars

\* What may be sent again is what _pending tracks.
Delivery == INSTANCE RecordDelivery
  WITH acknowledged <- "RESPONSES" \in functions,
       outstanding <- {e.display : e \in pending}

\* The numbering, the map and its cap (src/server.py:252-275, 306-332) keep
\* the promise of RecordDelivery: a settled screen is never sent again, an
\* outstanding one at most MaxRetries times, and making room costs at most
\* one screen, never the one just sent.
DeliverySpec == Delivery!Spec
=============================================================================
