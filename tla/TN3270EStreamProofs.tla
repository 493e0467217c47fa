------------------------ MODULE TN3270EStreamProofs ------------------------
(***************************************************************************)
(* Proofs about TN3270EStream, for every set of screens, every width of    *)
(* the sequence numbers, every cap and every retry limit.                  *)
(***************************************************************************)
EXTENDS TN3270EStream, FiniteSetTheorems, WellFoundedInduction, TLAPS

\* A non-empty set of entries has an entry whose key came first: the one
\* that next(iter(_pending)) names (src/server.py:266).
LEMMA OldestIsFirst ==
  ASSUME NEW entries, entries # {}, \A e \in entries : e.at \in Nat
  PROVE  /\ Oldest(entries) \in entries
         /\ \A f \in entries : Oldest(entries).at <= f.at
<1> DEFINE times == {e.at : e \in entries}
<1>1. times \subseteq Nat /\ times # {}
  OBVIOUS
<1>2. PICK t \in times : \A u \in times : ~ (<<u, t>> \in OpToRel(<, Nat))
  BY <1>1, NatLessThanWellFounded, WFMin, Zenon
<1>3. \A u \in times : t <= u
  <2>1. SUFFICES ASSUME NEW u \in times, ~ (t <= u)
                 PROVE  FALSE
    OBVIOUS
  <2>2. u \in Nat /\ t \in Nat /\ u < t
    BY <1>1, <2>1
  <2>3. <<u, t>> \in OpToRel(<, Nat)
    BY <2>2 DEF OpToRel
  <2>4. QED
    BY <1>2, <2>3
<1>4. PICK e \in entries : e.at = t
  OBVIOUS
<1>5. \A f \in entries : e.at <= f.at
  BY <1>3, <1>4
<1>6. QED
  BY <1>5 DEF Oldest

\* Sequence numbers wrap inside the two bytes of the header.
LEMMA NextSeqType == seq \in SeqNumbers => NextSeq \in SeqNumbers
<1>1. Base * Base \in Nat /\ Base * Base > 0
  BY BaseAssumption
<1>2. QED
  BY <1>1 DEF NextSeq, SeqNumbers

(***************************************************************************)
(* The map under one call of _send_3270.  "entries" is _pending at the     *)
(* call: the whole map for a new screen, the map without the refused entry *)
(* for a retransmission.  "display" is not tracked in it.                  *)
(***************************************************************************)

\* Inserting keeps the entries well typed, their keys unique and their
\* insertion times in the past (src/server.py:264).
LEMMA InsertKeepsKeys ==
  ASSUME StreamInv, NEW entries, entries \subseteq pending,
         NEW data \in Screens, NEW retries \in 0 .. MaxRetries,
         NEW display \in Nat \ {0}, \A e \in entries : e.display # display
  PROVE  LET after == Insert(entries, NextSeq, data, retries, display)
         IN  /\ after \subseteq Entries
             /\ \A e, f \in after :
                  e.seq = f.seq \/ e.at = f.at \/ e.display = f.display => e = f
             /\ \A e \in after : e.at <= sends + 1
<1> DEFINE same == {e \in entries : e.seq = NextSeq}
           time == IF same = {} THEN sends + 1 ELSE (CHOOSE e \in same : TRUE).at
           new == [seq |-> NextSeq, data |-> data, retries |-> retries,
                   display |-> display, at |-> time]
<1>1. Insert(entries, NextSeq, data, retries, display)
        = (entries \ same) \cup {new}
  BY DEF Insert
<1>2. /\ pending \subseteq Entries /\ sends \in Nat
      /\ NextSeq \in SeqNumbers
      /\ \A e \in pending : e.at \in Nat /\ e.at <= sends
      /\ \A e, f \in pending :
           e.seq = f.seq \/ e.at = f.at \/ e.display = f.display => e = f
  BY NextSeqType DEF StreamInv, StreamTypeOK, TimesPast, KeysUnique, Entries
<1>3. same # {} => (CHOOSE e \in same : TRUE) \in same
  OBVIOUS
<1>4. time \in Nat /\ time <= sends + 1
  BY <1>2, <1>3
<1>5. \A e \in entries \ same : e.at # time
  <2>1. CASE same = {}
    BY <1>2, <2>1
  <2>2. CASE same # {}
    BY <1>2, <1>3, <2>2
  <2>3. QED
    BY <2>1, <2>2
<1>6. new \in Entries
  BY <1>2, <1>4 DEF Entries
<1>7. \A e \in entries \ same :
        e.seq # new.seq /\ e.at # new.at /\ e.display # new.display
  BY <1>5
<1>8. new.at <= sends + 1
  BY <1>4
<1> HIDE DEF new, time
<1>9. QED
  BY <1>1, <1>2, <1>6, <1>7, <1>8

Displays(entries) == {e.display : e \in entries}

\* After one send of "display" the map "kept" tracks it, and what "entries"
\* tracked but for at most one other display.
TracksAllButOne(kept, entries, display) ==
  \/ Displays(kept) = Displays(entries) \cup {display}
  \/ \E lost \in Displays(entries) :
       Displays(kept) = (Displays(entries) \cup {display}) \ {lost}

\* What the cap leaves of "after", the map in which a send was entered.
KeepsNewest(kept, after, entries, retries, display) ==
  /\ kept \subseteq after
  /\ IsFiniteSet(kept) /\ Cardinality(kept) <= PendingCap
  /\ \E e \in kept : e.seq = NextSeq
  /\ \A e \in kept :
       \/ e \in entries
       \/ e.display = display /\ e.retries = retries
  /\ TracksAllButOne(kept, entries, display)

\* The cap (src/server.py:265-266) holds after every send, the record just
\* sent survives it, and at most one other display is lost: the one whose
\* key was reused when the numbers wrapped, or the oldest one.
LEMMA CapKeepsNewest ==
  ASSUME StreamInv, NEW entries, entries \subseteq pending,
         NEW data \in Screens, NEW retries \in 0 .. MaxRetries,
         NEW display \in Nat \ {0}, \A e \in entries : e.display # display,
         NEW after, after = Insert(entries, NextSeq, data, retries, display),
         NEW kept, kept = Capped(after)
  PROVE  KeepsNewest(kept, after, entries, retries, display)
<1> DEFINE same == {e \in entries : e.seq = NextSeq}
           time == IF same = {} THEN sends + 1 ELSE (CHOOSE e \in same : TRUE).at
           new == [seq |-> NextSeq, data |-> data, retries |-> retries,
                   display |-> display, at |-> time]
           Kept == /\ kept \subseteq after
                   /\ IsFiniteSet(kept) /\ Cardinality(kept) <= PendingCap
                   /\ \E e \in kept : e.seq = NextSeq
                   /\ \A e \in kept :
                        \/ e \in entries
                        \/ e.display = display /\ e.retries = retries
<1>1. after = (entries \ same) \cup {new}
  BY DEF Insert
<1>2. /\ after \subseteq Entries
      /\ \A e, f \in after :
           e.seq = f.seq \/ e.at = f.at \/ e.display = f.display => e = f
      /\ \A e \in after : e.at <= sends + 1
  BY InsertKeepsKeys
<1>3. /\ IsFiniteSet(entries) /\ Cardinality(entries) <= PendingCap
      /\ Cardinality(entries) \in Nat
  BY FS_Subset, FS_CardinalityType, CapAssumption DEF StreamInv, PendingBounded
<1>4. /\ new.seq = NextSeq /\ new.display = display /\ new.retries = retries
      /\ same = {} => new.at = sends + 1
      /\ kept = Capped(after)
  OBVIOUS
<1>5. \A e, f \in entries : e.seq = f.seq \/ e.display = f.display => e = f
  BY DEF StreamInv, KeysUnique
<1>6. new \notin entries
  BY <1>4
<1> HIDE DEF new
<1>7. CASE same = {}
  <2>1. after = entries \cup {new} /\ new.at = sends + 1
    BY <1>1, <1>4, <1>7
  <2>2. IsFiniteSet(after) /\ Cardinality(after) = Cardinality(entries) + 1
    BY <2>1, <1>3, <1>6, FS_AddElement
  <2>3. CASE Cardinality(after) <= PendingCap
    <3>1. kept = after
      BY <2>2, <2>3, <1>3, <1>4, CapAssumption DEF Capped
    <3>2. Displays(kept) = Displays(entries) \cup {display}
      BY <3>1, <2>1, <1>4 DEF Displays
    <3>3. Kept
      BY <3>1, <2>1, <2>2, <2>3, <1>4
    <3>4. TracksAllButOne(kept, entries, display)
      BY <3>2 DEF TracksAllButOne
    <3>5. QED
      BY <3>3, <3>4 DEF KeepsNewest
  <2>4. CASE ~ (Cardinality(after) <= PendingCap)
    <3>1. kept = after \ {Oldest(after)}
      BY <2>2, <2>4, <1>3, <1>4, CapAssumption DEF Capped
    <3>2. /\ Oldest(after) \in after
          /\ \A f \in after : Oldest(after).at <= f.at
      BY <1>1, <1>2, OldestIsFirst DEF Entries
    <3>3. PICK other \in entries : TRUE
      BY <2>2, <2>4, <1>3, CapAssumption, FS_EmptySet
    <3>4. other.at \in Nat /\ other.at <= sends /\ sends \in Nat
      BY DEF StreamInv, StreamTypeOK, TimesPast, Entries
    <3>5. Oldest(after) # new
      BY <3>2, <3>3, <3>4, <2>1
    <3>6. /\ Oldest(after) \in entries
          /\ kept = (entries \ {Oldest(after)}) \cup {new}
      BY <3>1, <3>2, <3>5, <2>1
    <3>7. IsFiniteSet(kept) /\ Cardinality(kept) = Cardinality(after) - 1
      BY <3>1, <3>2, <2>2, FS_RemoveElement
    <3>8. Displays(kept)
            = (Displays(entries) \cup {display}) \ {Oldest(after).display}
      BY <3>6, <1>4, <1>5 DEF Displays
    <3>9. Oldest(after).display \in Displays(entries)
      BY <3>6 DEF Displays
    <3>10. Cardinality(kept) <= PendingCap
      BY <3>7, <2>2, <1>3, CapAssumption
    <3>11. Kept
      BY <3>1, <3>6, <3>7, <3>10, <1>4
    <3>12. TracksAllButOne(kept, entries, display)
      BY <3>8, <3>9, Zenon DEF TracksAllButOne
    <3>13. QED
      BY <3>11, <3>12 DEF KeepsNewest
  <2>5. QED
    BY <2>3, <2>4
<1>8. CASE same # {}
  <2>1. PICK reused \in same : TRUE
    BY <1>8
  <2>2. same = {reused}
    BY <2>1, <1>5
  <2>3. after = (entries \ {reused}) \cup {new}
    BY <1>1, <2>2
  <2>4. /\ IsFiniteSet(entries \ {reused})
        /\ Cardinality(entries \ {reused}) = Cardinality(entries) - 1
    BY <2>1, <1>3, FS_RemoveElement
  <2>5. IsFiniteSet(after) /\ Cardinality(after) = Cardinality(entries)
    <3>1. new \notin entries \ {reused}
      BY <1>6
    <3>2. /\ IsFiniteSet((entries \ {reused}) \cup {new})
          /\ Cardinality((entries \ {reused}) \cup {new})
               = Cardinality(entries \ {reused}) + 1
      BY <3>1, <2>4, FS_AddElement
    <3>3. QED
      BY <3>2, <2>3, <2>4, <1>3
  <2>6. kept = after
    BY <2>5, <1>3, <1>4, CapAssumption DEF Capped
  <2>7. Displays(kept) = (Displays(entries) \cup {display}) \ {reused.display}
    BY <2>1, <2>3, <2>6, <1>4, <1>5 DEF Displays
  <2>8. reused.display \in Displays(entries)
    BY <2>1 DEF Displays
  <2>9. Kept
    BY <2>3, <2>5, <2>6, <1>3, <1>4
  <2>10. TracksAllButOne(kept, entries, display)
    BY <2>7, <2>8, Zenon DEF TracksAllButOne
  <2>11. QED
    BY <2>9, <2>10 DEF KeepsNewest
<1>9. QED
  BY <1>7, <1>8

\* What a send leaves behind, with the map that was there at the call.
SendDone(entries, retries, display) ==
  /\ seq' \in SeqNumbers /\ sends' \in Nat
  /\ toClient' \in Seq(Messages)
  /\ pending' \subseteq Entries
  /\ KeysUnique' /\ PendingBounded' /\ TimesPast' /\ TrackedOnRequest'
  /\ \A e \in pending' :
       \/ e \in entries
       \/ e.display = display /\ e.retries = retries
  /\ IF "RESPONSES" \in functions
     THEN /\ TracksAllButOne(pending', entries, display)
          /\ \E e \in pending' : e.seq = seq'
     ELSE pending' = entries

\* _send_3270 as a step (src/server.py:252-275): what both of its callers
\* rely on.
LEMMA SendKeepsMap ==
  ASSUME StreamInv, NEW entries, entries \subseteq pending,
         NEW data \in Screens, NEW retries \in 0 .. MaxRetries,
         NEW display \in Nat \ {0}, \A e \in entries : e.display # display,
         SendRecord(entries, data, retries, display), UNCHANGED functions
  PROVE  SendDone(entries, retries, display)
<1>1. /\ StreamTypeOK /\ NextSeq \in SeqNumbers
      /\ sends \in Nat /\ sends' = sends + 1
  BY NextSeqType DEF StreamInv, StreamTypeOK, SendRecord
<1>2. \A s \in SeqNumbers : DataMessage(s, data, display) \in Messages
  BY DEF DataMessage, Messages
<1>3. 0 \in SeqNumbers
  <2>1. Base * Base \in Nat /\ Base * Base > 0
    BY BaseAssumption
  <2>2. QED
    BY <2>1 DEF SeqNumbers
<1>4. toClient' \in Seq(Messages)
  <2>1. PICK s \in SeqNumbers : Write(DataMessage(s, data, display))
    BY <1>1, <1>3 DEF SendRecord
  <2>2. QED
    BY <1>1, <1>2, <2>1 DEF Write, StreamTypeOK
<1>5. CASE "RESPONSES" \in functions
  <2>a. PICK after : after = Insert(entries, NextSeq, data, retries, display)
    OBVIOUS
  <2>b. PICK kept : kept = Capped(after)
    OBVIOUS
  <2>1. pending' = kept /\ seq' = NextSeq
    BY <1>5, <2>a, <2>b DEF SendRecord
  <2>2. /\ after \subseteq Entries
        /\ \A e, f \in after :
             e.seq = f.seq \/ e.at = f.at \/ e.display = f.display => e = f
        /\ \A e \in after : e.at <= sends + 1
    BY <2>a, InsertKeepsKeys
  <2>3. KeepsNewest(kept, after, entries, retries, display)
    BY <2>a, <2>b, CapKeepsNewest
  <2>4. KeysUnique' /\ TimesPast' /\ PendingBounded' /\ TrackedOnRequest'
    BY <1>1, <1>5, <2>1, <2>2, <2>3
    DEF KeysUnique, TimesPast, PendingBounded, TrackedOnRequest, KeepsNewest
  <2>5. pending' \subseteq Entries /\ seq' \in SeqNumbers
    BY <1>1, <2>1, <2>2, <2>3 DEF KeepsNewest
  <2>6. QED
    BY <1>1, <1>4, <1>5, <2>1, <2>3, <2>4, <2>5 DEF KeepsNewest, SendDone
<1>6. CASE "RESPONSES" \notin functions
  <2>1. pending' = entries /\ seq' = seq /\ pending = {}
    BY <1>6 DEF StreamInv, TrackedOnRequest, SendRecord
  <2>2. pending' = {}
    BY <2>1
  <2>3. PendingBounded'
    BY <2>1, <2>2 DEF StreamInv, PendingBounded
  <2>4. QED
    BY <1>1, <1>4, <1>6, <2>1, <2>2, <2>3
    DEF KeysUnique, TimesPast, TrackedOnRequest, StreamTypeOK, SendDone
<1>7. QED
  BY <1>5, <1>6

\* sendall (src/server.py:248-250) and redisplay (300-304).
LEMMA SendallKeepsInv ==
  ASSUME StreamInv, NEW data \in Screens, Sendall(data)
  PROVE  StreamInv' /\ SendDone(pending, 0, Len(copies) + 1)
<1> DEFINE k == Len(copies) + 1
<1>1. /\ copies \in Seq(Nat) /\ k \in Nat \ {0}
      /\ copies' = Append(copies, 1) /\ copies' \in Seq(Nat)
      /\ DOMAIN copies' = DOMAIN copies \cup {k} /\ copies'[k] = 1
      /\ \A j \in DOMAIN copies : j # k /\ copies'[j] = copies[j]
  BY DEF StreamInv, StreamTypeOK, Sendall
<1>2. /\ \A e \in pending : e.display # k
      /\ 0 \in 0 .. MaxRetries
  BY <1>1, RetriesAssumption DEF StreamInv, RetriesCounted
<1>3. SendRecord(pending, data, 0, k) /\ UNCHANGED functions
  BY DEF Sendall
<1> HIDE DEF k
<1>4. SendDone(pending, 0, k)
  BY <1>1, <1>2, <1>3, SendKeepsMap
<1>5. RetriesCounted'
  BY <1>1, <1>4 DEF StreamInv, RetriesCounted, SendDone
<1>6. RetransmitsBounded'
  BY <1>1, RetriesAssumption DEF StreamInv, RetransmitsBounded
<1>7. StreamTypeOK'
  BY <1>1, <1>4 DEF StreamInv, StreamTypeOK, Sendall, SendDone
<1>8. QED
  BY <1>4, <1>5, <1>6, <1>7 DEF StreamInv, SendDone, k

\* The NAK branch of on_response (src/server.py:324-332).
LEMMA RetransmitKeepsInv ==
  ASSUME StreamInv, NEW e \in pending, e.retries < MaxRetries, Retransmit(e)
  PROVE  StreamInv' /\ SendDone(pending \ {e}, e.retries + 1, e.display)
<1>1. /\ e \in Entries /\ e.retries + 1 \in 0 .. MaxRetries
      /\ e.display \in Nat \ {0} /\ e.data \in Screens
  BY RetriesAssumption DEF StreamInv, StreamTypeOK, Entries
<1>2. \A f \in pending \ {e} : f.display # e.display
  BY DEF StreamInv, KeysUnique
<1>3. /\ copies \in Seq(Nat)
      /\ e.display \in DOMAIN copies /\ copies[e.display] = e.retries + 1
  BY DEF StreamInv, StreamTypeOK, RetriesCounted
<1>4. /\ copies' \in Seq(Nat) /\ DOMAIN copies' = DOMAIN copies
      /\ copies'[e.display] = e.retries + 2
      /\ \A j \in DOMAIN copies : j # e.display => copies'[j] = copies[j]
  BY <1>1, <1>3 DEF Retransmit, Entries
<1>5. /\ SendRecord(pending \ {e}, e.data, e.retries + 1, e.display)
      /\ UNCHANGED functions
  BY DEF Retransmit
<1>6. SendDone(pending \ {e}, e.retries + 1, e.display)
  BY <1>1, <1>2, <1>5, SendKeepsMap
<1>7. RetriesCounted'
  <2>1. SUFFICES ASSUME NEW f \in pending'
                 PROVE  /\ f.display \in DOMAIN copies'
                        /\ copies'[f.display] = f.retries + 1
    BY DEF RetriesCounted
  <2>2. CASE f \in pending \ {e}
    BY <1>2, <1>4, <2>2 DEF StreamInv, RetriesCounted
  <2>3. CASE f.display = e.display /\ f.retries = e.retries + 1
    BY <1>1, <1>3, <1>4, <2>3 DEF Entries
  <2>4. f \in pending \ {e} \/ (f.display = e.display /\ f.retries = e.retries + 1)
    BY <1>6, Zenon DEF SendDone
  <2>5. QED
    BY <2>2, <2>3, <2>4, Zenon
<1>8. RetransmitsBounded'
  <2>1. \A j \in DOMAIN copies : copies[j] <= MaxRetries + 1
    BY DEF StreamInv, RetransmitsBounded
  <2>2. e.retries + 2 <= MaxRetries + 1
    BY <1>1, RetriesAssumption DEF Entries
  <2>3. QED
    BY <1>4, <2>1, <2>2 DEF RetransmitsBounded
<1>9. StreamTypeOK'
  BY <1>4, <1>6 DEF StreamInv, StreamTypeOK, Retransmit, SendDone
<1>10. QED
  BY <1>6, <1>7, <1>8, <1>9 DEF StreamInv, SendDone

\* The other branches of on_response: an acknowledgement, an unknown number,
\* and giving up (src/server.py:324-330).
LEMMA SettleKeepsInv ==
  ASSUME StreamInv, NEW entries, entries \subseteq pending, Settle(entries)
  PROVE  StreamInv'
<1>1. pending' \subseteq pending
  BY DEF Settle
<1>2. PendingBounded'
  <2>1. IsFiniteSet(pending') /\ Cardinality(pending') <= Cardinality(pending)
    BY <1>1, FS_Subset DEF StreamInv, PendingBounded
  <2>2. Cardinality(pending) \in Nat /\ Cardinality(pending') \in Nat
    BY <2>1, FS_CardinalityType DEF StreamInv, PendingBounded
  <2>3. QED
    BY <2>1, <2>2, CapAssumption DEF StreamInv, PendingBounded
<1>3. StreamTypeOK' /\ KeysUnique' /\ RetriesCounted' /\ RetransmitsBounded'
  BY <1>1 DEF StreamInv, StreamTypeOK, KeysUnique, RetriesCounted,
              RetransmitsBounded, Settle
<1>4. TimesPast' /\ TrackedOnRequest'
  BY <1>1 DEF StreamInv, TimesPast, TrackedOnRequest, Settle
<1>5. QED
  BY <1>2, <1>3, <1>4 DEF StreamInv

\* A step that only touches the wire or the bound flag.
LEMMA WireKeepsInv ==
  ASSUME StreamInv, toClient' \in Seq(Messages), bound' \in BOOLEAN,
         UNCHANGED <<functions, seq, last_screen, pending, sends, copies>>
  PROVE  StreamInv'
BY DEF StreamInv, StreamTypeOK, KeysUnique, RetriesCounted,
       RetransmitsBounded, PendingBounded, TimesPast, TrackedOnRequest

\* A fresh stream tracks nothing.
LEMMA InitEstablishesInv == StreamInit => StreamInv
<1> SUFFICES ASSUME StreamInit PROVE StreamInv
  OBVIOUS
<1>1. 0 \in SeqNumbers
  <2>1. Base * Base \in Nat /\ Base * Base > 0
    BY BaseAssumption
  <2>2. QED
    BY <2>1 DEF SeqNumbers
<1>2. IsFiniteSet({}) /\ Cardinality({}) <= PendingCap
  BY FS_EmptySet, CapAssumption
<1>3. StreamTypeOK
  <2>1. toClient \in Seq(Messages) /\ copies \in Seq(Nat)
    BY DEF StreamInit
  <2>2. functions \subseteq SupportedFunctions
    BY DEF StreamInit
  <2>3. pending \subseteq Entries /\ sends \in Nat /\ bound \in BOOLEAN
    BY DEF StreamInit
  <2>4. QED
    BY <1>1, <2>1, <2>2, <2>3 DEF StreamInit, StreamTypeOK
<1>4. KeysUnique /\ RetriesCounted /\ TimesPast /\ TrackedOnRequest
  BY DEF StreamInit, KeysUnique, RetriesCounted, TimesPast, TrackedOnRequest
<1>5. RetransmitsBounded /\ PendingBounded
  BY <1>2 DEF StreamInit, RetransmitsBounded, PendingBounded
<1>6. QED
  BY <1>3, <1>4, <1>5 DEF StreamInv

\* Every step of the server, its caller and the client keeps the invariant.
LEMMA StepKeepsInv == StreamInv /\ [StreamNext]_streamVars => StreamInv'
<1> SUFFICES ASSUME StreamInv, [StreamNext]_streamVars
             PROVE  StreamInv'
  OBVIOUS
<1>1. ASSUME NEW data \in Screens, Sendall(data) PROVE StreamInv'
  BY <1>1, SendallKeepsInv
<1>2. CASE Redisplay
  <2>1. CASE last_screen = NoScreen
    BY <1>2, <2>1, WireKeepsInv
    DEF Redisplay, streamVars, StreamInv, StreamTypeOK
  <2>2. CASE last_screen # NoScreen
    BY <1>1, <1>2, <2>2 DEF Redisplay, StreamInv, StreamTypeOK
  <2>3. QED
    BY <2>1, <2>2
<1>3. ASSUME NEW s \in SeqNumbers \cup {NoSeq}, NEW positive \in BOOLEAN,
             OnResponse(s, positive)
      PROVE  StreamInv'
  <2>1. CASE \E e \in pending : e.retries < MaxRetries /\ Retransmit(e)
    BY <2>1, RetransmitKeepsInv
  <2>2. CASE Settle(Entry(AsRead(s)))
    BY <2>2, SettleKeepsInv DEF Entry
  <2>3. QED
    BY <1>3, <2>1, <2>2 DEF OnResponse, Entry
<1>4. CASE SendBind
  <2>1. toClient' \in Seq(Messages)
    BY <1>4 DEF SendBind, Write, Messages, StreamInv, StreamTypeOK
  <2>2. QED
    BY <1>4, <2>1, WireKeepsInv DEF SendBind
<1>5. CASE SendSscp
  <2>1. toClient' \in Seq(Messages)
    BY <1>5 DEF SendSscp, Write, Messages, StreamInv, StreamTypeOK
  <2>2. QED
    BY <1>5, <2>1, WireKeepsInv DEF SendSscp, StreamInv, StreamTypeOK
<1>6. CASE SendUnbind
  <2>1. toClient' \in Seq(Messages)
    BY <1>6 DEF SendUnbind, Write, Messages, StreamInv, StreamTypeOK
  <2>2. QED
    BY <1>6, <2>1, WireKeepsInv DEF SendUnbind
<1>7. CASE Deliver
  <2>1. toClient' \in Seq(Messages)
    BY <1>7 DEF Deliver, StreamInv, StreamTypeOK
  <2>2. QED
    BY <1>7, <2>1, WireKeepsInv DEF Deliver, StreamInv, StreamTypeOK
<1>8. CASE UNCHANGED streamVars
  BY <1>8, WireKeepsInv DEF streamVars, StreamInv, StreamTypeOK
<1>9. QED
  BY <1>1, <1>2, <1>3, <1>4, <1>5, <1>6, <1>7, <1>8 DEF StreamNext

-----------------------------------------------------------------------------
\* The retry counts in _pending and the copies on the wire agree in every
\* state of the stream, whatever its callers and its client do.
THEOREM StreamInvariant == StreamSpec => []StreamInv
BY InitEstablishesInv, StepKeepsInv, PTL DEF StreamSpec

\* No display is ever sent more than 1 + _RESPONSE_MAX_RETRIES times
\* (src/server.py:150-152), whatever the client answers.
THEOREM RetransmissionsAreBounded == StreamSpec => []RetransmitsBounded
<1>1. StreamInv => RetransmitsBounded
  BY DEF StreamInv
<1>2. QED
  BY <1>1, StreamInvariant, PTL

\* _pending never grows past its cap (src/server.py:153-155).
THEOREM PendingIsBounded == StreamSpec => []PendingBounded
<1>1. StreamInv => PendingBounded
  BY DEF StreamInv
<1>2. QED
  BY <1>1, StreamInvariant, PTL

\* No step of the stream changes the agreed functions.
LEMMA FunctionsFixed == StreamNext => UNCHANGED functions
BY DEF StreamNext, Sendall, Redisplay, OnResponse, Retransmit, Settle,
       SendBind, SendSscp, SendUnbind, Deliver, streamVars

\* A step of the stream is a sendall, a retransmission, the settling of one
\* entry, or leaves the map alone.
LEMMA StepCases ==
  ASSUME StreamInv, StreamNext
  PROVE  \/ \E data \in Screens : Sendall(data)
         \/ \E e \in pending : e.retries < MaxRetries /\ Retransmit(e)
         \/ \E s \in SeqNumbers \cup {NoSeq} : Settle(Entry(AsRead(s)))
         \/ UNCHANGED <<functions, seq, pending, sends, copies>>
<1>1. Redisplay => \/ \E data \in Screens : Sendall(data)
                   \/ UNCHANGED <<functions, seq, pending, sends, copies>>
  BY DEF Redisplay, streamVars, StreamInv, StreamTypeOK
<1>2. ASSUME NEW s \in SeqNumbers \cup {NoSeq}, NEW positive \in BOOLEAN,
             OnResponse(s, positive)
      PROVE  \/ \E e \in pending : e.retries < MaxRetries /\ Retransmit(e)
             \/ Settle(Entry(AsRead(s)))
  BY <1>2 DEF OnResponse, Entry
<1>3. SendBind \/ SendSscp \/ SendUnbind \/ Deliver
        => UNCHANGED <<functions, seq, pending, sends, copies>>
  BY DEF SendBind, SendSscp, SendUnbind, Deliver
<1>4. QED
  BY <1>1, <1>2, <1>3 DEF StreamNext

\* The record just sent is tracked (src/server.py:264-266): the cap drops an
\* older one.
THEOREM NewestIsTracked == StreamSpec => NewestTracked
<1> DEFINE Tracked == sends' # sends /\ "RESPONSES" \in functions
                        => \E e \in pending' : e.seq = seq'
<1>1. StreamInv /\ [StreamNext]_streamVars => [Tracked]_streamVars
  <2> SUFFICES ASSUME StreamInv, StreamNext, "RESPONSES" \in functions,
                      sends' # sends
               PROVE  \E e \in pending' : e.seq = seq'
    OBVIOUS
  <2>1. CASE \E data \in Screens : Sendall(data)
    BY <2>1, SendallKeepsInv DEF SendDone
  <2>2. CASE \E e \in pending : e.retries < MaxRetries /\ Retransmit(e)
    BY <2>2, RetransmitKeepsInv DEF SendDone
  <2>3. CASE \E s \in SeqNumbers \cup {NoSeq} : Settle(Entry(AsRead(s)))
    BY <2>3 DEF Settle
  <2>4. QED
    BY <2>1, <2>2, <2>3, StepCases
<1>2. QED
  BY <1>1, StreamInvariant, PTL DEF StreamSpec, NewestTracked

-----------------------------------------------------------------------------
(***************************************************************************)
(* The refinement.                                                         *)
(***************************************************************************)

\* A send of display k is a Track(k) step of RecordDelivery.
LEMMA SendTracks ==
  ASSUME NEW entries, NEW k, NEW retries, SendDone(entries, retries, k),
         "RESPONSES" \in functions, k \notin Displays(entries),
         Displays(entries) \cup {k} = Displays(pending) \cup {k}
  PROVE  Delivery!Track(k)
<1>1. \/ Displays(pending') = Displays(pending) \cup {k}
      \/ \E lost \in Displays(pending) \ {k} :
           Displays(pending') = (Displays(pending) \cup {k}) \ {lost}
  BY DEF SendDone, TracksAllButOne
<1>2. QED
  BY <1>1 DEF Delivery!Track, Displays

\* Every step of the stream is a step of RecordDelivery or changes nothing
\* that RecordDelivery speaks of.
LEMMA StepImplementsDelivery ==
  StreamInv /\ [StreamNext]_streamVars => [Delivery!Next]_(Delivery!deliveryVars)
<1> SUFFICES ASSUME StreamInv, StreamNext
             PROVE  Delivery!Next \/ UNCHANGED Delivery!deliveryVars
  BY DEF streamVars, Delivery!deliveryVars
<1>1. UNCHANGED functions
  BY FunctionsFixed
<1>2. \A e \in pending : e.display \in DOMAIN copies
  BY DEF StreamInv, RetriesCounted
<1>3. ASSUME NEW data \in Screens, Sendall(data)
      PROVE  Delivery!Next
  <2>1. SendDone(pending, 0, Len(copies) + 1) /\ copies' = Append(copies, 1)
    BY <1>3, SendallKeepsInv DEF Sendall
  <2>2. CASE "RESPONSES" \in functions
    <3>1. Len(copies) + 1 \notin Displays(pending)
      BY <1>2 DEF Displays, StreamInv, StreamTypeOK
    <3>2. PICK k : k = Len(copies) + 1
      OBVIOUS
    <3>3. SendDone(pending, 0, k) /\ k \notin Displays(pending)
      BY <2>1, <3>1, <3>2
    <3>4. Delivery!Track(k)
      BY <2>2, <3>3, SendTracks
    <3>5. Delivery!Track(Len(copies) + 1)
      BY <3>2, <3>4 DEF Delivery!Track
    <3>6. Delivery!Display
      BY <1>1, <2>1, <2>2, <3>5 DEF Delivery!Display
    <3>7. QED
      BY <3>6 DEF Delivery!Next
  <2>3. CASE "RESPONSES" \notin functions
    BY <1>1, <2>1, <2>3 DEF SendDone, Delivery!Next, Delivery!Display
  <2>4. QED
    BY <2>2, <2>3
<1>4. ASSUME NEW e \in pending, e.retries < MaxRetries, Retransmit(e)
      PROVE  Delivery!Next
  <2>1. /\ SendDone(pending \ {e}, e.retries + 1, e.display)
        /\ copies' = [copies EXCEPT ![e.display] = @ + 1]
    BY <1>4, RetransmitKeepsInv DEF Retransmit
  <2>2. "RESPONSES" \in functions
    BY DEF StreamInv, TrackedOnRequest
  <2>3. /\ e.display \notin Displays(pending \ {e})
        /\ Displays(pending \ {e}) \cup {e.display}
             = Displays(pending) \cup {e.display}
    BY DEF Displays, StreamInv, KeysUnique
  <2>4. Delivery!Track(e.display)
    BY <2>1, <2>2, <2>3, SendTracks
  <2>5. copies[e.display] <= MaxRetries
    BY <1>4, RetriesAssumption
    DEF StreamInv, StreamTypeOK, RetriesCounted, Entries
  <2>6. Delivery!SendAgain(e.display)
    BY <1>1, <2>1, <2>4, <2>5 DEF Delivery!SendAgain
  <2>7. QED
    BY <2>6 DEF Delivery!Next
<1>5. ASSUME NEW s \in SeqNumbers \cup {NoSeq}, Settle(Entry(AsRead(s)))
      PROVE  Delivery!Next \/ UNCHANGED Delivery!deliveryVars
  <2>1. CASE Entry(AsRead(s)) = {}
    BY <1>5, <2>1 DEF Settle, Delivery!deliveryVars
  <2>2. CASE Entry(AsRead(s)) # {}
    <3>1. PICK e \in pending : Entry(AsRead(s)) = {e}
      BY <2>2 DEF Entry, StreamInv, KeysUnique
    <3>2. Displays(pending') = Displays(pending) \ {e.display}
      BY <1>5, <3>1 DEF Settle, Displays, StreamInv, KeysUnique
    <3>3. Delivery!Forget(e.display)
      BY <1>5, <3>2 DEF Delivery!Forget, Displays, Settle
    <3>4. QED
      BY <3>3 DEF Delivery!Next
  <2>3. QED
    BY <2>1, <2>2
<1>6. CASE UNCHANGED <<functions, seq, pending, sends, copies>>
  BY <1>6 DEF Delivery!deliveryVars
<1>7. QED
  BY <1>3, <1>4, <1>5, <1>6, StepCases

\* TN3270EStream implements RecordDelivery: a settled screen is never sent
\* again, an outstanding one at most MaxRetries times, and making room costs
\* at most one screen, never the one just sent.
THEOREM ImplementsDelivery == StreamSpec => DeliverySpec
<1>1. StreamInit => Delivery!Init
  BY DEF StreamInit, Delivery!Init
<1>2. QED
  BY <1>1, StepImplementsDelivery, StreamInvariant, PTL
  DEF StreamSpec, DeliverySpec, Delivery!Spec
=============================================================================
