--------------------------- MODULE ReadersProofs ---------------------------
(***************************************************************************)
(* Of every client that may connect: the records the session takes are the *)
(* ones the client sent, whole and in order, wherever the reads cut the    *)
(* stream; and every command of a client in line mode is answered once and *)
(* for what it says, whoever of the handshake, the negotiation and the     *)
(* line reader finds its bytes.                                            *)
(*                                                                         *)
(* Each reader is a fold over the bytes.  The first part shows that there  *)
(* is one fold for each step function and that it composes over joined     *)
(* bytes; the second, what a frame, the units of a stream and a line make  *)
(* of the bytes a client writes; the rest are the invariants that hold     *)
(* what was read, what waits and what was said together.                   *)
(***************************************************************************)
EXTENDS ConnectionProofs, WellFoundedInduction

-----------------------------------------------------------------------------
(* Induction over sequences.                                               *)

\* A non-empty set of numbers has a least one.
LEMMA LeastNumber ==
  ASSUME NEW T, T \subseteq Nat, T # {}
  PROVE  \E t \in T : \A u \in T : t <= u
<1>1. PICK t \in T : \A u \in T : ~ (<<u, t>> \in OpToRel(<, Nat))
  BY NatLessThanWellFounded, WFMin, Zenon
<1>2. ASSUME NEW u \in T
      PROVE  t <= u
  <2>1. SUFFICES ASSUME ~ (t <= u)
                 PROVE  FALSE
    OBVIOUS
  <2>2. u \in Nat /\ t \in Nat /\ u < t
    BY <2>1
  <2>3. <<u, t>> \in OpToRel(<, Nat)
    BY <2>2 DEF OpToRel
  <2> QED
    BY <1>1, <2>3
<1> QED
  BY <1>2

\* A non-empty set of sequences has a shortest one.
LEMMA Shortest ==
  ASSUME NEW S, NEW T, T \subseteq Seq(S), T # {}
  PROVE  \E t \in T : \A u \in T : Len(t) <= Len(u)
<1> DEFINE N == {Len(t) : t \in T}
<1>1. N \subseteq Nat /\ N # {}
  BY LenProperties
<1>2. PICK n \in N : \A m \in N : n <= m
  <2> HIDE DEF N
  <2> QED
    BY <1>1, LeastNumber
<1> QED
  BY <1>2

\* A set of sequences that has the empty one, and every sequence whose tail it
\* has, has all of them.
LEMMA InductTail ==
  ASSUME NEW S, NEW T, <<>> \in T, \A s \in Seq(S) : s # <<>> /\ Tail(s) \in T => s \in T
  PROVE  Seq(S) \subseteq T
<1> DEFINE out == {s \in Seq(S) : s \notin T}
<1> SUFFICES ASSUME out # {}
             PROVE  FALSE
  OBVIOUS
<1>1. PICK s \in out : \A u \in out : Len(s) <= Len(u)
  <2>1. out \subseteq Seq(S)
    OBVIOUS
  <2> HIDE DEF out
  <2> QED
    BY <2>1, Shortest
<1>2. s \in Seq(S) /\ s # <<>> /\ Tail(s) \in Seq(S) /\ Len(Tail(s)) = Len(s) - 1
      /\ Len(s) \in Nat
  BY HeadTailProperties, LenProperties
<1>3. Tail(s) \notin out
  <2>1. ASSUME Tail(s) \in out
        PROVE  FALSE
    <3>1. Len(s) <= Len(Tail(s))
      BY <1>1, <2>1
    <3> HIDE DEF out
    <3> QED
      BY <1>2, <3>1
  <2> QED
    BY <2>1
<1> QED
  BY <1>2, <1>3

\* A sequence is its head followed by its tail.
LEMMA HeadAndTail ==
  ASSUME NEW S, NEW s \in Seq(S), s # <<>>
  PROVE  /\ Head(s) \in S /\ Tail(s) \in Seq(S)
         /\ s = <<Head(s)>> \o Tail(s)
         /\ \A t \in Seq(S) : s \o t # <<>> /\ Head(s \o t) = Head(s) /\ Tail(s \o t) = Tail(s) \o t
<1>1. /\ Head(s) \in S /\ Tail(s) \in Seq(S) /\ Len(Tail(s)) = Len(s) - 1
      /\ \A i \in 1 .. Len(Tail(s)) : Tail(s)[i] = s[i + 1]
      /\ Len(s) \in Nat \ {0} /\ Head(s) = s[1]
  BY HeadTailProperties, EmptySeq
<1>2. s = <<Head(s)>> \o Tail(s)
  <2>1. <<Head(s)>> \in Seq(S) /\ Len(<<Head(s)>>) = 1 /\ <<Head(s)>>[1] = Head(s)
    BY <1>1
  <2> DEFINE u == <<Head(s)>> \o Tail(s)
  <2>2. /\ u \in Seq(S) /\ Len(u) = 1 + Len(Tail(s))
        /\ \A i \in 1 .. 1 + Len(Tail(s)) : u[i] =
             IF i <= 1 THEN <<Head(s)>>[i] ELSE Tail(s)[i - 1]
    BY <1>1, <2>1, ConcatProperties
  <2> HIDE DEF u
  <2>3. \A i \in 1 .. Len(s) : s[i] = u[i]
    <3> SUFFICES ASSUME NEW i \in 1 .. Len(s)
                 PROVE  s[i] = u[i]
      OBVIOUS
    <3>1. CASE i = 1
      BY <3>1, <1>1, <2>1, <2>2
    <3>2. CASE i # 1
      <4>1. i - 1 \in 1 .. Len(Tail(s)) /\ (i - 1) + 1 = i
        BY <3>2, <1>1
      <4> QED
        BY <3>2, <4>1, <1>1, <2>2
    <3> QED
      BY <3>1, <3>2
  <2>4. s = u
    BY <2>2, <2>3, <1>1, SeqEqual
  <2> QED
    BY <2>4 DEF u
<1>3. ASSUME NEW t \in Seq(S)
      PROVE  s \o t # <<>> /\ Head(s \o t) = Head(s) /\ Tail(s \o t) = Tail(s) \o t
  <2> DEFINE u == s \o t
  <2>1. /\ u \in Seq(S) /\ Len(u) = Len(s) + Len(t) /\ Len(t) \in Nat
        /\ \A i \in 1 .. Len(s) + Len(t) : u[i] = IF i <= Len(s) THEN s[i] ELSE t[i - Len(s)]
    BY ConcatProperties, LenProperties
  <2> DEFINE v == Tail(s) \o t
  <2>2. /\ v \in Seq(S) /\ Len(v) = Len(Tail(s)) + Len(t)
        /\ \A i \in 1 .. Len(Tail(s)) + Len(t) : v[i] =
             IF i <= Len(Tail(s)) THEN Tail(s)[i] ELSE t[i - Len(Tail(s))]
    BY <1>1, ConcatProperties
  <2> HIDE DEF u, v
  <2>3. u # <<>> /\ Head(u) = u[1] /\ u[1] = s[1]
    BY <1>1, <2>1, EmptySeq
  <2>4. /\ Tail(u) \in Seq(S) /\ Len(Tail(u)) = Len(u) - 1
        /\ \A i \in 1 .. Len(Tail(u)) : Tail(u)[i] = u[i + 1]
    BY <2>1, <2>3, HeadTailProperties
  <2>5. \A i \in 1 .. Len(v) : Tail(u)[i] = v[i]
    <3> SUFFICES ASSUME NEW i \in 1 .. Len(v)
                 PROVE  Tail(u)[i] = v[i]
      OBVIOUS
    <3>1. CASE i <= Len(Tail(s))
      <4>1. i \in 1 .. Len(Tail(s)) /\ i + 1 <= Len(s) /\ i \in 1 .. Len(Tail(u))
            /\ i + 1 \in 1 .. Len(s) + Len(t)
        BY <3>1, <1>1, <2>1, <2>2, <2>4
      <4>2. Tail(u)[i] = u[i + 1] /\ u[i + 1] = s[i + 1]
        BY <4>1, <2>1, <2>4
      <4> QED
        BY <4>1, <4>2, <2>2, <3>1, <1>1
    <3>2. CASE ~(i <= Len(Tail(s)))
      <4>1. ~(i + 1 <= Len(s)) /\ i \in 1 .. Len(Tail(u)) /\ i + 1 \in 1 .. Len(s) + Len(t)
            /\ (i + 1) - Len(s) = i - Len(Tail(s))
        BY <3>2, <1>1, <2>1, <2>2, <2>4
      <4>2. Tail(u)[i] = u[i + 1] /\ u[i + 1] = t[(i + 1) - Len(s)]
        BY <4>1, <2>1, <2>4
      <4> QED
        BY <4>1, <4>2, <2>2, <3>2, <1>1
    <3> QED
      BY <3>1, <3>2
  <2>6. Len(Tail(u)) = Len(v)
    BY <2>1, <2>2, <2>4, <1>1
  <2>7. Tail(u) = v
    BY <2>2, <2>4, <2>5, <2>6, SeqEqual
  <2> QED
    BY <2>3, <2>7, <1>1 DEF u, v
<1> QED
  BY <1>1, <1>2, <1>3

-----------------------------------------------------------------------------
(* Reading byte by byte.                                                   *)

\* read[bytes][s] is what the bytes make of the state s, step by step.
Reads(S, step, read) ==
  /\ read \in [Seq(Byte) -> [S -> S]]
  /\ \A s \in S : read[<<>>][s] = s
  /\ \A bytes \in Seq(Byte) \ {<<>>}, s \in S :
       read[bytes][s] = read[Tail(bytes)][step[s][Head(bytes)]]

\* The equation of Read's definition.
Unrolls(S, step, read) ==
  read = [more \in Seq(Byte) |->
            [s \in S |-> IF more = <<>> THEN s ELSE read[Tail(more)][step[s][Head(more)]]]]

\* What satisfies the equation reads.
LEMMA UnrolledReads ==
  ASSUME NEW S, NEW step \in [S -> [Byte -> S]], NEW read, Unrolls(S, step, read)
  PROVE  Reads(S, step, read)
<1>1. \A more \in Seq(Byte) : read[more] =
        [s \in S |-> IF more = <<>> THEN s ELSE read[Tail(more)][step[s][Head(more)]]]
  BY DEF Unrolls
<1>2. <<>> \in Seq(Byte) /\ \A s \in S : read[<<>>][s] = s
  BY <1>1, EmptySeq
<1>3. ASSUME NEW bytes \in Seq(Byte) \ {<<>>}, NEW s \in S
      PROVE  read[bytes][s] = read[Tail(bytes)][step[s][Head(bytes)]]
  <2>1. read[bytes] = [t \in S |-> IF bytes = <<>> THEN t
                                   ELSE read[Tail(bytes)][step[t][Head(bytes)]]]
    BY <1>1
  <2> QED
    BY <2>1
<1> DEFINE T == {bytes \in Seq(Byte) : read[bytes] \in [S -> S]}
<1>4. <<>> \in T
  <2>1. \A s \in S : read[<<>>][s] \in S
    BY <1>2
  <2>2. read[<<>>] = [s \in S |-> IF <<>> = <<>> THEN s ELSE read[Tail(<<>>)][step[s][Head(<<>>)]]]
    BY <1>1, <1>2
  <2> QED
    BY <1>2, <2>2
<1>5. ASSUME NEW bytes \in Seq(Byte), bytes # <<>>, Tail(bytes) \in T
      PROVE  bytes \in T
  <2>1. Head(bytes) \in Byte
    BY <1>5, HeadTailProperties
  <2>2. \A s \in S : read[Tail(bytes)][step[s][Head(bytes)]] \in S
    BY <1>5, <2>1
  <2>3. read[bytes] = [s \in S |-> read[Tail(bytes)][step[s][Head(bytes)]]]
    BY <1>1, <1>5
  <2> QED
    BY <2>2, <2>3
<1>6. Seq(Byte) \subseteq T
  <2> HIDE DEF T
  <2> QED
    BY <1>4, <1>5, InductTail
<1>7. read \in [Seq(Byte) -> [S -> S]]
  BY <1>6 DEF Unrolls
<1> QED
  BY <1>2, <1>3, <1>7 DEF Reads

\* Any two readings agree.
LEMMA ReadsOnce ==
  ASSUME NEW S, NEW step \in [S -> [Byte -> S]], NEW f, NEW g,
         Reads(S, step, f), Reads(S, step, g)
  PROVE  f = g
<1> DEFINE T == {bytes \in Seq(Byte) : f[bytes] = g[bytes]}
<1>0. /\ f \in [Seq(Byte) -> [S -> S]] /\ g \in [Seq(Byte) -> [S -> S]]
      /\ <<>> \in Seq(Byte)
      /\ \A bytes \in Seq(Byte) : f[bytes] \in [S -> S] /\ g[bytes] \in [S -> S]
  BY EmptySeq DEF Reads
<1>1. <<>> \in T
  <2>1. \A s \in S : f[<<>>][s] = g[<<>>][s]
    BY DEF Reads
  <2>2. f[<<>>] \in [S -> S] /\ g[<<>>] \in [S -> S]
    BY <1>0
  <2>3. f[<<>>] = g[<<>>]
    BY <2>1, <2>2
  <2> QED
    BY <1>0, <2>3
<1>2. ASSUME NEW bytes \in Seq(Byte), bytes # <<>>, Tail(bytes) \in T
      PROVE  bytes \in T
  <2>1. \A s \in S : f[bytes][s] = g[bytes][s]
    <3> TAKE s \in S
    <3>1. f[bytes][s] = f[Tail(bytes)][step[s][Head(bytes)]]
          /\ g[bytes][s] = g[Tail(bytes)][step[s][Head(bytes)]]
      BY <1>2 DEF Reads
    <3> QED
      BY <1>2, <3>1
  <2>2. f[bytes] \in [S -> S] /\ g[bytes] \in [S -> S]
    BY <1>0
  <2>3. f[bytes] = g[bytes]
    BY <2>1, <2>2
  <2> QED
    BY <2>3
<1>3. Seq(Byte) \subseteq T
  <2> HIDE DEF T
  <2> QED
    BY <1>1, <1>2, InductTail
<1> QED
  BY <1>0, <1>3

\* Bytes read in two parts are read in one.
LEMMA ReadConcat ==
  ASSUME NEW S, NEW step \in [S -> [Byte -> S]], NEW read, Reads(S, step, read)
  PROVE  \A a \in Seq(Byte), b \in Seq(Byte), s \in S : read[a \o b][s] = read[b][read[a][s]]
<1> DEFINE T == {a \in Seq(Byte) : \A b \in Seq(Byte), s \in S :
                                     read[a \o b][s] = read[b][read[a][s]]}
<1>1. <<>> \in T
  <2>1. <<>> \in Seq(Byte) /\ \A b \in Seq(Byte) : <<>> \o b = b
    BY EmptySeq, ConcatEmptySeq
  <2> QED
    BY <2>1 DEF Reads
<1>2. ASSUME NEW a \in Seq(Byte), a # <<>>, Tail(a) \in T
      PROVE  a \in T
  <2> SUFFICES ASSUME NEW b \in Seq(Byte), NEW s \in S
               PROVE  read[a \o b][s] = read[b][read[a][s]]
    OBVIOUS
  <2>0. a \o b \in Seq(Byte)
    BY ConcatProperties
  <2>8. /\ Head(a) \in Byte /\ Tail(a) \in Seq(Byte)
        /\ \A c \in Seq(Byte) : a \o c # <<>> /\ Head(a \o c) = Head(a)
                               /\ Tail(a \o c) = Tail(a) \o c
    <3> HIDE DEF T
    <3> QED
      BY <1>2, HeadAndTail, Zenon
  <2>1. /\ Head(a) \in Byte /\ Tail(a) \in Seq(Byte)
        /\ a \o b # <<>> /\ Head(a \o b) = Head(a) /\ Tail(a \o b) = Tail(a) \o b
    BY <2>8
  <2> DEFINE t == step[s][Head(a)]
  <2>2. t \in S
    BY <2>1
  <2> DEFINE ab == a \o b
  <2>5. ab \in Seq(Byte) \ {<<>>} /\ Head(ab) = Head(a) /\ Tail(ab) = Tail(a) \o b
    BY <2>0, <2>1
  <2> HIDE DEF ab
  <2>6. read[ab][s] = read[Tail(ab)][step[s][Head(ab)]]
    BY <2>5 DEF Reads
  <2>7. read[a][s] = read[Tail(a)][step[s][Head(a)]]
    BY <1>2 DEF Reads
  <2>3. read[a \o b][s] = read[Tail(a) \o b][t] /\ read[a][s] = read[Tail(a)][t]
    BY <2>5, <2>6, <2>7 DEF ab
  <2>4. read[Tail(a) \o b][t] = read[b][read[Tail(a)][t]]
    BY <1>2, <2>2
  <2> QED
    BY <2>3, <2>4
<1>3. Seq(Byte) \subseteq T
  <2> HIDE DEF T
  <2> QED
    BY <1>1, <1>2, InductTail
<1> QED
  BY <1>3

\* A byte more is a step more.
LEMMA ReadAppend ==
  ASSUME NEW S, NEW step \in [S -> [Byte -> S]], NEW read, Reads(S, step, read)
  PROVE  /\ \A b \in Byte, s \in S : read[<<b>>][s] = step[s][b]
         /\ \A a \in Seq(Byte), b \in Byte, s \in S :
              read[Append(a, b)][s] = step[read[a][s]][b]
<1>0. \A a \in Seq(Byte), b \in Seq(Byte), s \in S : read[a \o b][s] = read[b][read[a][s]]
  BY ReadConcat
<1>1. ASSUME NEW b \in Byte, NEW s \in S
      PROVE  read[<<b>>][s] = step[s][b]
  <2>1. <<b>> \in Seq(Byte) \ {<<>>} /\ Head(<<b>>) = b /\ Tail(<<b>>) = <<>>
    OBVIOUS
  <2>2. step[s][b] \in S
    OBVIOUS
  <2> QED
    BY <2>1, <2>2 DEF Reads
<1>2. ASSUME NEW a \in Seq(Byte), NEW b \in Byte, NEW s \in S
      PROVE  read[Append(a, b)][s] = step[read[a][s]][b]
  <2>1. Append(a, b) = a \o <<b>> /\ <<b>> \in Seq(Byte)
    BY AppendIsConcat
  <2>2. read[a][s] \in S
    BY DEF Reads
  <2>3. read[a \o <<b>>][s] = read[<<b>>][read[a][s]]
    BY <1>0, <2>1
  <2> QED
    BY <1>1, <2>1, <2>2, <2>3
<1> QED
  BY <1>1, <1>2

\* h[n] is the state after the n-th byte, v the last.
IsPath(step, bytes, s, v, h) ==
  /\ h[0] = s /\ h[Len(bytes)] = v
  /\ \A n \in 1 .. Len(bytes) : h[n] = step[h[n - 1]][bytes[n]]

\* The bytes lead from the state s to the state v.
Leads(step, bytes, s, v) == \E h : IsPath(step, bytes, s, v, h)

\* A path over bytes is its first step and a path over the others.
LEMMA PathUnrolls ==
  ASSUME NEW S, NEW step \in [S -> [Byte -> S]]
  PROVE  \A bytes \in Seq(Byte), s \in S : \A v :
           IF bytes = <<>> THEN Leads(step, bytes, s, v) <=> v = s
           ELSE Leads(step, bytes, s, v) <=> Leads(step, Tail(bytes), step[s][Head(bytes)], v)
<1> SUFFICES ASSUME NEW bytes \in Seq(Byte), NEW s \in S, NEW v
             PROVE  IF bytes = <<>> THEN Leads(step, bytes, s, v) <=> v = s
                    ELSE Leads(step, bytes, s, v)
                         <=> Leads(step, Tail(bytes), step[s][Head(bytes)], v)
  OBVIOUS
<1>1. ASSUME bytes = <<>>
      PROVE  Leads(step, bytes, s, v) <=> v = s
  <2>1. Len(bytes) = 0
    BY <1>1
  <2>2. ASSUME v = s
        PROVE  \E h : IsPath(step, bytes, s, v, h)
    <3> DEFINE h == [n \in 0 .. 0 |-> s]
    <3>1. IsPath(step, bytes, s, v, h)
      BY <2>1, <2>2 DEF IsPath
    <3> QED
      BY <3>1
  <2>3. ASSUME NEW h, IsPath(step, bytes, s, v, h)
        PROVE  v = s
    BY <2>1, <2>3 DEF IsPath
  <2> QED
    BY <2>2, <2>3 DEF Leads
<1>2. ASSUME bytes # <<>>
      PROVE  Leads(step, bytes, s, v) <=>
             Leads(step, Tail(bytes), step[s][Head(bytes)], v)
  <2> DEFINE more == Tail(bytes)
             t == step[s][Head(bytes)]
             N == Len(more)
  <2>1. /\ more \in Seq(Byte) /\ N \in Nat /\ Len(bytes) = N + 1 /\ Head(bytes) = bytes[1]
        /\ \A i \in 1 .. N : more[i] = bytes[i + 1]
    <3>1. /\ Tail(bytes) \in Seq(Byte) /\ Len(Tail(bytes)) = Len(bytes) - 1
          /\ \A i \in 1 .. Len(Tail(bytes)) : Tail(bytes)[i] = bytes[i + 1]
          /\ Len(bytes) \in Nat \ {0} /\ Head(bytes) = bytes[1]
      BY <1>2, HeadTailProperties, EmptySeq
    <3> QED
      BY <3>1
  <2> HIDE DEF more, N
  <2>2. ASSUME NEW h, IsPath(step, bytes, s, v, h)
        PROVE  \E g : IsPath(step, more, t, v, g)
    <3> DEFINE g == [n \in 0 .. N |-> h[n + 1]]
    <3>1. \A n \in 0 .. N : g[n] = h[n + 1]
      OBVIOUS
    <3> HIDE DEF g
    <3>2. g[0] = t
      <4>1. 1 \in 1 .. Len(bytes) /\ 0 \in 0 .. N
        BY <2>1
      <4> QED
        BY <2>2, <2>1, <3>1, <4>1 DEF IsPath
    <3>3. g[N] = v
      <4>1. N \in 0 .. N
        BY <2>1
      <4> QED
        BY <2>2, <2>1, <3>1, <4>1 DEF IsPath
    <3>4. ASSUME NEW n \in 1 .. N
          PROVE  g[n] = step[g[n - 1]][more[n]]
      <4>1. /\ n + 1 \in 1 .. Len(bytes) /\ n \in 0 .. N /\ n - 1 \in 0 .. N
            /\ (n + 1) - 1 = n /\ (n - 1) + 1 = n
        BY <2>1
      <4>2. h[n + 1] = step[h[n]][bytes[n + 1]]
        BY <2>2, <4>1 DEF IsPath
      <4>3. g[n] = h[n + 1] /\ g[n - 1] = h[n] /\ more[n] = bytes[n + 1]
        BY <2>1, <3>1, <4>1
      <4> QED
        BY <4>2, <4>3
    <3>5. IsPath(step, more, t, v, g)
      BY <3>2, <3>3, <3>4 DEF IsPath, N
    <3> QED
      BY <3>5
  <2>3. ASSUME NEW g, IsPath(step, more, t, v, g)
        PROVE  \E h : IsPath(step, bytes, s, v, h)
    <3> DEFINE h == [n \in 0 .. N + 1 |-> IF n = 0 THEN s ELSE g[n - 1]]
    <3>1. \A n \in 0 .. N + 1 : h[n] = IF n = 0 THEN s ELSE g[n - 1]
      OBVIOUS
    <3> HIDE DEF h
    <3>2. h[0] = s
      BY <2>1, <3>1
    <3>3. h[Len(bytes)] = v
      <4>1. Len(bytes) \in 0 .. N + 1 /\ Len(bytes) # 0 /\ Len(bytes) - 1 = N
        BY <2>1
      <4> QED
        BY <2>3, <3>1, <4>1 DEF IsPath, N
    <3>4. ASSUME NEW n \in 1 .. Len(bytes)
          PROVE  h[n] = step[h[n - 1]][bytes[n]]
      <4>1. CASE n = 1
        <5>1. 1 \in 0 .. N + 1 /\ h[1] = g[0]
          BY <2>1, <3>1
        <5>2. g[0] = t
          BY <2>3 DEF IsPath
        <5> QED
          BY <2>1, <3>2, <4>1, <5>1, <5>2
      <4>2. CASE n # 1
        <5>1. /\ n - 1 \in 1 .. N /\ n \in 0 .. N + 1 /\ n - 1 \in 0 .. N + 1 /\ n # 0 /\ n - 1 # 0
              /\ (n - 1) + 1 = n
          BY <2>1, <4>2
        <5>2. g[n - 1] = step[g[(n - 1) - 1]][more[n - 1]]
          BY <2>3, <5>1 DEF IsPath, N
        <5>3. h[n] = g[n - 1] /\ h[n - 1] = g[(n - 1) - 1] /\ more[n - 1] = bytes[n]
          BY <2>1, <3>1, <5>1
        <5> QED
          BY <5>2, <5>3
      <4> QED
        BY <4>1, <4>2
    <3>5. IsPath(step, bytes, s, v, h)
      BY <3>2, <3>3, <3>4 DEF IsPath
    <3> QED
      BY <3>5
  <2> QED
    BY <2>2, <2>3 DEF more, Leads
<1> QED
  BY <1>1, <1>2

\* There is one reading of every bytes in every state.
Determined(S, step) ==
  \A bytes \in Seq(Byte), s \in S : \E v \in S : \A w : Leads(step, bytes, s, w) <=> w = v

\* Every bytes lead from every state to one state.
LEMMA PathsExist ==
  ASSUME NEW S, NEW step \in [S -> [Byte -> S]]
  PROVE  Determined(S, step)
<1>0. \A bytes \in Seq(Byte), s \in S : \A v :
        IF bytes = <<>> THEN Leads(step, bytes, s, v) <=> v = s
        ELSE Leads(step, bytes, s, v) <=> Leads(step, Tail(bytes), step[s][Head(bytes)], v)
  BY PathUnrolls
<1> DEFINE T == {bytes \in Seq(Byte) : \A s \in S : \E v \in S :
                   \A w : Leads(step, bytes, s, w) <=> w = v}
<1>1. <<>> \in T
  <2>1. <<>> \in Seq(Byte)
    BY EmptySeq
  <2>2. \A s \in S : \A w : Leads(step, <<>>, s, w) <=> w = s
    BY <1>0, <2>1
  <2> QED
    BY <2>1, <2>2
<1>2. ASSUME NEW bytes \in Seq(Byte), bytes # <<>>, Tail(bytes) \in T
      PROVE  bytes \in T
  <2> SUFFICES ASSUME NEW s \in S
               PROVE  \E v \in S : \A w : Leads(step, bytes, s, w) <=> w = v
    OBVIOUS
  <2>1. step[s][Head(bytes)] \in S
    BY <1>2, HeadTailProperties
  <2>2. PICK v \in S : \A w : Leads(step, Tail(bytes), step[s][Head(bytes)], w) <=> w = v
    BY <1>2, <2>1
  <2> HIDE DEF T
  <2>3. \A w : Leads(step, bytes, s, w) <=> Leads(step, Tail(bytes), step[s][Head(bytes)], w)
    BY <1>0, <1>2
  <2> QED
    BY <2>2, <2>3
<1>3. Seq(Byte) \subseteq T
  <2> HIDE DEF T
  <2> QED
    BY <1>1, <1>2, InductTail
<1> QED
  BY <1>3 DEF Determined

\* There is a reading.
LEMMA ReadExists ==
  ASSUME NEW S, NEW step \in [S -> [Byte -> S]]
  PROVE  \E read : Unrolls(S, step, read)
<1>0. \A bytes \in Seq(Byte), s \in S : \A v :
        IF bytes = <<>> THEN Leads(step, bytes, s, v) <=> v = s
        ELSE Leads(step, bytes, s, v) <=> Leads(step, Tail(bytes), step[s][Head(bytes)], v)
  BY PathUnrolls
<1>5. Determined(S, step)
  BY PathsExist
<1> DEFINE V(bytes, s) == CHOOSE v \in S : Leads(step, bytes, s, v)
           read == [bytes \in Seq(Byte) |-> [s \in S |-> V(bytes, s)]]
<1>1. ASSUME NEW bytes \in Seq(Byte), NEW s \in S
      PROVE  /\ V(bytes, s) \in S
             /\ \A w : Leads(step, bytes, s, w) <=> w = V(bytes, s)
  <2>1. PICK v \in S : \A w : Leads(step, bytes, s, w) <=> w = v
    BY <1>5 DEF Determined
  <2>2. \E w \in S : Leads(step, bytes, s, w)
    BY <2>1
  <2>3. V(bytes, s) \in S /\ Leads(step, bytes, s, V(bytes, s))
    BY <2>2
  <2> QED
    BY <2>1, <2>3
<1> HIDE DEF V
<1>2. ASSUME NEW bytes \in Seq(Byte), NEW s \in S
      PROVE  V(bytes, s) = IF bytes = <<>> THEN s ELSE read[Tail(bytes)][step[s][Head(bytes)]]
  <2>1. CASE bytes = <<>>
    BY <1>0, <1>1, <2>1
  <2>2. CASE bytes # <<>>
    <3>1. Tail(bytes) \in Seq(Byte) /\ step[s][Head(bytes)] \in S
      BY <2>2, HeadTailProperties
    <3>2. \A w : Leads(step, bytes, s, w) <=> Leads(step, Tail(bytes), step[s][Head(bytes)], w)
      BY <1>0, <2>2
    <3>3. V(bytes, s) = V(Tail(bytes), step[s][Head(bytes)])
      BY <1>1, <3>1, <3>2
    <3>4. read[Tail(bytes)][step[s][Head(bytes)]] = V(Tail(bytes), step[s][Head(bytes)])
      BY <3>1
    <3> QED
      BY <2>2, <3>3, <3>4
  <2> QED
    BY <2>1, <2>2
<1>3. Unrolls(S, step, read)
  <2>1. \A bytes \in Seq(Byte) : [s \in S |-> V(bytes, s)] =
          [s \in S |-> IF bytes = <<>> THEN s ELSE read[Tail(bytes)][step[s][Head(bytes)]]]
    <3> HIDE DEF read
    <3> QED
      BY <1>2
  <2> DEFINE want == [bytes \in Seq(Byte) |-> [s \in S |->
                       IF bytes = <<>> THEN s ELSE read[Tail(bytes)][step[s][Head(bytes)]]]]
  <2>2. read = want
    BY <2>1
  <2> HIDE DEF read
  <2> QED
    BY <2>2 DEF Unrolls
<1> QED
  BY <1>3

\* What reads with a step.
Reader(S, step) == CHOOSE read : Unrolls(S, step, read)

\* It reads bytes in any two parts, and the last of them last.
Composes(S, step, read) ==
  /\ \A a \in Seq(Byte), b \in Seq(Byte), s \in S : read[a \o b][s] = read[b][read[a][s]]
  /\ \A b \in Byte, s \in S : read[<<b>>][s] = step[s][b]
  /\ \A a \in Seq(Byte), b \in Byte, s \in S : read[Append(a, b)][s] = step[read[a][s]][b]

\* A reader takes a byte at a time, composes over joined bytes, and is the only one
\* that does.
LEMMA Reading ==
  ASSUME NEW S, NEW step \in [S -> [Byte -> S]]
  PROVE  /\ Unrolls(S, step, Reader(S, step))
         /\ Reads(S, step, Reader(S, step))
         /\ Composes(S, step, Reader(S, step))
         /\ \A read : Unrolls(S, step, read) => read = Reader(S, step)
<1> DEFINE read == Reader(S, step)
<1>1. Unrolls(S, step, read)
  <2>1. \E r : Unrolls(S, step, r)
    BY ReadExists
  <2> QED
    BY <2>1 DEF Reader
<1> HIDE DEF read
<1>2. Reads(S, step, read)
  BY <1>1, UnrolledReads
<1>3. \A a \in Seq(Byte), b \in Seq(Byte), s \in S : read[a \o b][s] = read[b][read[a][s]]
  BY <1>2, ReadConcat
<1>4. /\ \A b \in Byte, s \in S : read[<<b>>][s] = step[s][b]
      /\ \A a \in Seq(Byte), b \in Byte, s \in S : read[Append(a, b)][s] = step[read[a][s]][b]
  BY <1>2, ReadAppend
<1>5. ASSUME NEW r, Unrolls(S, step, r)
      PROVE  r = read
  <2>1. Reads(S, step, r)
    BY <1>5, UnrolledReads
  <2> QED
    BY <1>2, <2>1, ReadsOnce
<1> QED
  BY <1>1, <1>2, <1>3, <1>4, <1>5 DEF Composes, read

-----------------------------------------------------------------------------
(* Telnet framing.                                                         *)

Framing(e) == [s \in Frames |-> [b \in Byte |-> TelnetByte(e, s, b)]]

\* A byte of a frame makes a frame.
LEMMA FrameByte ==
  ASSUME NEW e \in BOOLEAN, NEW s \in Frames, NEW b \in Byte
  PROVE  TelnetByte(e, s, b) \in Frames
<1> DEFINE t == TelnetByte(e, s, b)
<1> SUFFICES t \in Frames
  OBVIOUS
<1>1. /\ s.kind \in {"more", "record", "cmd"}
      /\ s.out \in Seq(Byte) /\ s.pend \in Seq(Byte) /\ s.rest \in Seq(Byte)
  BY DEF Frames
<1>2. /\ Append(s.rest, b) \in Seq(Byte) /\ Append(s.out, b) \in Seq(Byte)
      /\ Append(s.pend, b) \in Seq(Byte)
  BY <1>1, AppendProperties
<1>3. /\ <<b>> \in Seq(Byte) /\ <<>> \in Seq(Byte)
      /\ s.out \o (IF e THEN <<b, b>> ELSE <<b>>) \in Seq(Byte)
  <2>1. <<b>> \in Seq(Byte) /\ <<>> \in Seq(Byte) /\ <<b, b>> \in Seq(Byte)
    OBVIOUS
  <2> QED
    BY <2>1, <1>1, ConcatProperties
<1>4. CASE s.kind # "more"
  <2>1. t = [s EXCEPT !.rest = Append(s.rest, b)]
    BY <1>4 DEF TelnetByte
  <2> QED
    BY <2>1, <1>2 DEF Frames
<1>5. CASE s.kind = "more"
  <2> DEFINE ff == IF e THEN <<b, b>> ELSE <<b>>
  <2>1. \/ t = [s EXCEPT !.out = Append(s.out, b)]
        \/ t = [s EXCEPT !.pend = <<b>>]
        \/ t = [s EXCEPT !.kind = "record", !.pend = <<>>]
        \/ t = [s EXCEPT !.out = s.out \o ff, !.pend = <<>>]
        \/ t = [s EXCEPT !.pend = Append(s.pend, b)]
        \/ t = [s EXCEPT !.pend = <<>>, !.kind = IF e THEN "cmd" ELSE s.kind]
        \/ t = [s EXCEPT !.pend = <<>>]
    BY <1>5 DEF TelnetByte
  <2>2. s.out \o ff \in Seq(Byte)
    BY <1>3
  <2> HIDE DEF t, ff
  <2>3. CASE t = [s EXCEPT !.out = Append(s.out, b)]
    BY <2>3, <1>1, <1>2 DEF Frames
  <2>4. CASE t = [s EXCEPT !.pend = <<b>>]
    BY <2>4, <1>1, <1>3 DEF Frames
  <2>5. CASE t = [s EXCEPT !.kind = "record", !.pend = <<>>]
    BY <2>5, <1>1, <1>3 DEF Frames
  <2>6. CASE t = [s EXCEPT !.out = s.out \o ff, !.pend = <<>>]
    BY <2>6, <1>1, <1>3, <2>2 DEF Frames
  <2>7. CASE t = [s EXCEPT !.pend = Append(s.pend, b)]
    BY <2>7, <1>1, <1>2 DEF Frames
  <2>8. CASE t = [s EXCEPT !.pend = <<>>, !.kind = IF e THEN "cmd" ELSE s.kind]
    BY <2>8, <1>1, <1>3 DEF Frames
  <2>9. CASE t = [s EXCEPT !.pend = <<>>]
    BY <2>9, <1>1, <1>3 DEF Frames
  <2> QED
    BY <2>1, <2>3, <2>4, <2>5, <2>6, <2>7, <2>8, <2>9
<1> QED
  BY <1>4, <1>5

\* What Frame reads with.
Framed(e) == Reader(Frames, Framing(e))

\* Frame is the reader of a frame, from a fresh one.
LEMMA FramedIs ==
  ASSUME NEW e \in BOOLEAN
  PROVE  /\ Framing(e) \in [Frames -> [Byte -> Frames]]
         /\ \A bytes : Frame(e, bytes) = Framed(e)[bytes][Fresh]
<1> DEFINE U(r) == r = [more \in Seq(Byte) |->
                          [s \in Frames |-> IF more = <<>> THEN s
                                            ELSE r[Tail(more)][TelnetByte(e, s, Head(more))]]]
           f == CHOOSE r : U(r)
<1>1. \A bytes : Frame(e, bytes) = f[bytes][Fresh]
  BY DEF Frame, Read
<1>2. Framing(e) \in [Frames -> [Byte -> Frames]]
  BY FrameByte DEF Framing
<1>3. \A r : U(r) <=> Unrolls(Frames, Framing(e), r)
  <2> TAKE r
  <2> DEFINE step == Framing(e)
  <2>1. \A more \in Seq(Byte) :
          [s \in Frames |-> IF more = <<>> THEN s ELSE r[Tail(more)][TelnetByte(e, s, Head(more))]] =
          [s \in Frames |-> IF more = <<>> THEN s ELSE r[Tail(more)][step[s][Head(more)]]]
    <3> TAKE more \in Seq(Byte)
    <3>1. CASE more = <<>>
      BY <3>1
    <3>2. CASE more # <<>>
      <4>1. Head(more) \in Byte
        BY <3>2, HeadTailProperties
      <4>2. \A s \in Frames : step[s][Head(more)] = TelnetByte(e, s, Head(more))
        BY <4>1 DEF Framing
      <4> HIDE DEF step
      <4> QED
        BY <4>2
    <3> QED
      BY <3>1, <3>2
  <2> HIDE DEF step
  <2>2. [more \in Seq(Byte) |->
          [s \in Frames |-> IF more = <<>> THEN s ELSE r[Tail(more)][TelnetByte(e, s, Head(more))]]] =
        [more \in Seq(Byte) |->
          [s \in Frames |-> IF more = <<>> THEN s ELSE r[Tail(more)][step[s][Head(more)]]]]
    BY <2>1
  <2> QED
    BY <2>2 DEF Unrolls, step
<1>4. U(f)
  <2>1. \E r : U(r)
    <3> HIDE DEF U
    <3> QED
      BY <1>2, <1>3, Reading
  <2> HIDE DEF U
  <2> QED
    BY <2>1
<1> HIDE DEF f, U
<1>5. f = Framed(e)
  BY <1>2, <1>3, <1>4, Reading DEF Framed
<1> QED
  BY <1>1, <1>2, <1>5

-----------------------------------------------------------------------------
(* Records read from a stream.                                             *)

\* A set of sequences that has the empty one, and every sequence it has with
\* an element more, has all of them.
LEMMA InductAppend ==
  ASSUME NEW S, NEW T, <<>> \in T,
         \A s \in Seq(S), x \in S : s \in T => Append(s, x) \in T
  PROVE  Seq(S) \subseteq T
<1> DEFINE out == {s \in Seq(S) : s \notin T}
<1> SUFFICES ASSUME out # {}
             PROVE  FALSE
  OBVIOUS
<1>1. PICK s \in out : \A u \in out : Len(s) <= Len(u)
  <2>1. out \subseteq Seq(S)
    OBVIOUS
  <2> HIDE DEF out
  <2> QED
    BY <2>1, Shortest
<1>2. PICK u \in Seq(S), x \in S : s = Append(u, x)
  BY SequenceEmptyOrAppend
<1>3. Len(s) = Len(u) + 1 /\ Len(u) \in Nat
  BY <1>2, AppendProperties, LenProperties
<1>4. u \notin out
  <2>1. ASSUME u \in out
        PROVE  FALSE
    <3>1. Len(s) <= Len(u)
      BY <1>1, <2>1
    <3> HIDE DEF out
    <3> QED
      BY <1>3, <3>1
  <2> QED
    BY <2>1
<1> QED
  BY <1>2, <1>4

\* A prefix, element by element.
LEMMA PrefixIs ==
  ASSUME NEW S, NEW s \in Seq(S), NEW t \in Seq(S)
  PROVE  IsPrefix(s, t) <=> Len(s) <= Len(t) /\ \A i \in 1 .. Len(s) : s[i] = t[i]
<1>1. Len(s) \in Nat /\ Len(t) \in Nat
  BY LenProperties
<1>2. SubSeq(s, 1, Len(s)) = s
  BY SubSeqFull
<1>3. ASSUME Len(s) <= Len(t)
      PROVE  (s = SubSeq(t, 1, Len(s))) <=> \A i \in 1 .. Len(s) : s[i] = t[i]
  <2> DEFINE n == Len(s)
             u == SubSeq(t, 1, n)
  <2>1. \A i \in 1 .. n : t[i] \in S
    BY <1>1, <1>3, ElementOfSeq
  <2>2. /\ u \in Seq(S) /\ Len(u) = IF 1 <= n THEN n - 1 + 1 ELSE 0
        /\ \A i \in 1 .. n - 1 + 1 : u[i] = t[1 + i - 1]
    <3> HIDE DEF n
    <3>1. n \in Int /\ 1 \in Int
      BY <1>1 DEF n
    <3> QED
      BY <2>1, <3>1, SubSeqProperties
  <2>3. Len(u) = Len(s) /\ \A i \in 1 .. Len(s) : u[i] = t[i]
    <3> HIDE DEF u
    <3> QED
      BY <2>2, <1>1
  <2> HIDE DEF u
  <2>4. (\A i \in 1 .. Len(s) : s[i] = t[i]) => s = u
    BY <2>2, <2>3, SeqEqual
  <2>5. s = u => \A i \in 1 .. Len(s) : s[i] = t[i]
    BY <2>3
  <2> QED
    BY <2>4, <2>5 DEF u
<1> QED
  BY <1>2, <1>3 DEF IsPrefix

\* What is a prefix stays one when the other grows.
LEMMA PrefixGrows ==
  ASSUME NEW S, NEW s \in Seq(S), NEW t \in Seq(S), NEW x \in S
  PROVE  /\ IsPrefix(s, s) /\ IsPrefix(<<>>, s)
         /\ IsPrefix(s, t) => IsPrefix(s, Append(t, x))
         /\ IsPrefix(Append(s, x), t) => IsPrefix(s, t)
<1>1. /\ Append(s, x) \in Seq(S) /\ Append(t, x) \in Seq(S) /\ <<>> \in Seq(S)
      /\ Len(s) \in Nat /\ Len(t) \in Nat /\ Len(<<>>) = 0
      /\ Len(Append(s, x)) = Len(s) + 1 /\ \A i \in 1 .. Len(s) : Append(s, x)[i] = s[i]
      /\ Len(Append(t, x)) = Len(t) + 1 /\ \A i \in 1 .. Len(t) : Append(t, x)[i] = t[i]
  BY AppendProperties, LenProperties, EmptySeq
<1>2. IsPrefix(s, s) /\ IsPrefix(<<>>, s)
  <2>1. IsPrefix(s, s)
    BY <1>1, PrefixIs
  <2>2. Len(<<>>) <= Len(s) /\ \A i \in 1 .. Len(<<>>) : <<>>[i] = s[i]
    BY <1>1
  <2> QED
    BY <1>1, <2>1, <2>2, PrefixIs
<1>3. ASSUME IsPrefix(s, t)
      PROVE  IsPrefix(s, Append(t, x))
  <2> DEFINE u == Append(t, x)
  <2>1. Len(s) <= Len(t) /\ \A i \in 1 .. Len(s) : s[i] = t[i]
    BY <1>3, PrefixIs
  <2>2. u \in Seq(S) /\ Len(u) = Len(t) + 1 /\ \A i \in 1 .. Len(t) : u[i] = t[i]
    BY <1>1
  <2> HIDE DEF u
  <2>3. Len(s) <= Len(u) /\ \A i \in 1 .. Len(s) : s[i] = u[i]
    BY <1>1, <2>1, <2>2
  <2>4. IsPrefix(s, u)
    BY <2>2, <2>3, PrefixIs
  <2> QED
    BY <2>4 DEF u
<1>4. ASSUME IsPrefix(Append(s, x), t)
      PROVE  IsPrefix(s, t)
  <2> DEFINE u == Append(s, x)
  <2>1. u \in Seq(S) /\ Len(u) = Len(s) + 1 /\ \A i \in 1 .. Len(s) : u[i] = s[i]
    BY <1>1
  <2>2. Len(u) <= Len(t) /\ \A i \in 1 .. Len(u) : u[i] = t[i]
    BY <1>4, <2>1, PrefixIs
  <2> HIDE DEF u
  <2>3. Len(s) <= Len(t) /\ \A i \in 1 .. Len(s) : s[i] = t[i]
    BY <1>1, <2>1, <2>2
  <2> QED
    BY <2>3, PrefixIs
<1> QED
  BY <1>2, <1>3, <1>4

Records == Seq(Seq(Byte))
Readings == [frame : Frames, got : Records]

\* What a reader returns of a record: on TN3270E all but its header, and
\* nothing of a record that has none.
Returned(e, got, out) ==
  IF e /\ out = <<>> THEN got ELSE Append(got, IF e THEN Tail(out) ELSE out)

\* A byte of a stream of records: a whole record is returned, a whole command
\* forgotten, and either way the next byte begins another.
UnitByte(e, u, b) ==
  LET f == TelnetByte(e, u.frame, b)
  IN [frame |-> IF f.kind = "more" THEN f ELSE Fresh,
      got |-> IF f.kind = "record" THEN Returned(e, u.got, f.out) ELSE u.got]

Uniting(e) == [u \in Readings |-> [b \in Byte |-> UnitByte(e, u, b)]]
Units(e) == Reader(Readings, Uniting(e))

\* The records that the bytes add to those got before them, from a fresh frame.
From(got) == [frame |-> Fresh, got |-> got]

\* A fresh frame is a frame, and a start of a reading.
LEMMA FreshFrame == Fresh \in Frames /\ \A got \in Records : From(got) \in Readings
<1>1. <<>> \in Seq(Byte)
  BY EmptySeq
<1>2. Fresh \in Frames
  BY <1>1 DEF Fresh, Frames
<1> QED
  BY <1>2 DEF From, Readings

\* What read_record returns of a frame joins the records.
LEMMA ReturnedRecords ==
  ASSUME NEW e \in BOOLEAN, NEW got \in Records, NEW out \in Seq(Byte)
  PROVE  Returned(e, got, out) \in Records
<1>1. CASE e /\ out = <<>>
  BY <1>1 DEF Returned
<1>2. CASE ~(e /\ out = <<>>)
  <2> DEFINE r == IF e THEN Tail(out) ELSE out
  <2>1. r \in Seq(Byte)
    <3>1. e => Tail(out) \in Seq(Byte)
      BY <1>2, HeadTailProperties
    <3> QED
      BY <3>1
  <2> HIDE DEF r
  <2>2. Append(got, r) \in Records
    BY <2>1, AppendProperties DEF Records
  <2> QED
    BY <1>2, <2>2 DEF Returned, r
<1> QED
  BY <1>1, <1>2

\* The units are read a byte at a time, and compose.
LEMMA UnitsRead ==
  ASSUME NEW e \in BOOLEAN
  PROVE  /\ Uniting(e) \in [Readings -> [Byte -> Readings]]
         /\ \A u \in Readings, b \in Byte : Uniting(e)[u][b] = UnitByte(e, u, b)
         /\ Reads(Readings, Uniting(e), Units(e))
         /\ Composes(Readings, Uniting(e), Units(e))
<1>1. \A u \in Readings, b \in Byte : UnitByte(e, u, b) \in Readings
  <2> TAKE u \in Readings, b \in Byte
  <2> DEFINE f == TelnetByte(e, u.frame, b)
  <2>1. u.frame \in Frames /\ u.got \in Records
    BY DEF Readings
  <2>2. f \in Frames /\ Fresh \in Frames
    BY <2>1, FrameByte, FreshFrame
  <2>3. f.out \in Seq(Byte)
    BY <2>2 DEF Frames
  <2>4. Returned(e, u.got, f.out) \in Records
    BY <2>1, <2>3, ReturnedRecords
  <2>5. UnitByte(e, u, b) =
          [frame |-> IF f.kind = "more" THEN f ELSE Fresh,
           got |-> IF f.kind = "record" THEN Returned(e, u.got, f.out) ELSE u.got]
    BY DEF UnitByte
  <2> HIDE DEF f
  <2> QED
    BY <2>1, <2>2, <2>4, <2>5 DEF Readings
<1>2. /\ Uniting(e) \in [Readings -> [Byte -> Readings]]
      /\ \A u \in Readings, b \in Byte : Uniting(e)[u][b] = UnitByte(e, u, b)
  BY <1>1 DEF Uniting
<1> QED
  BY <1>2, Reading DEF Units

\* The facts of Frame's reader, in the same form.
LEMMA FramesRead ==
  ASSUME NEW e \in BOOLEAN
  PROVE  /\ \A s \in Frames, b \in Byte : Framing(e)[s][b] = TelnetByte(e, s, b)
         /\ \A bytes \in Seq(Byte), s \in Frames : Framed(e)[bytes][s] \in Frames
         /\ \A s \in Frames : Framed(e)[<<>>][s] = s
         /\ \A a \in Seq(Byte), b \in Seq(Byte), s \in Frames :
              Framed(e)[a \o b][s] = Framed(e)[b][Framed(e)[a][s]]
         /\ \A b \in Byte, s \in Frames : Framed(e)[<<b>>][s] = TelnetByte(e, s, b)
         /\ \A a \in Seq(Byte), b \in Byte, s \in Frames :
              Framed(e)[Append(a, b)][s] = TelnetByte(e, Framed(e)[a][s], b)
<1>1. Framing(e) \in [Frames -> [Byte -> Frames]]
  BY FramedIs
<1>2. \A s \in Frames, b \in Byte : Framing(e)[s][b] = TelnetByte(e, s, b)
  BY DEF Framing
<1>3. Reads(Frames, Framing(e), Framed(e)) /\ Composes(Frames, Framing(e), Framed(e))
  BY <1>1, Reading DEF Framed
<1>4. /\ \A bytes \in Seq(Byte), s \in Frames : Framed(e)[bytes][s] \in Frames
      /\ \A s \in Frames : Framed(e)[<<>>][s] = s
  BY <1>3 DEF Reads
<1>5. /\ \A a \in Seq(Byte), b \in Seq(Byte), s \in Frames :
           Framed(e)[a \o b][s] = Framed(e)[b][Framed(e)[a][s]]
      /\ \A b \in Byte, s \in Frames : Framed(e)[<<b>>][s] = Framing(e)[s][b]
      /\ \A a \in Seq(Byte), b \in Byte, s \in Frames :
           Framed(e)[Append(a, b)][s] = Framing(e)[Framed(e)[a][s]][b]
  BY <1>3 DEF Composes
<1> QED
  BY <1>2, <1>4, <1>5

\* More bytes, more records.
LEMMA GotGrows ==
  ASSUME NEW e \in BOOLEAN, NEW bytes \in Seq(Byte), NEW u \in Readings
  PROVE  IsPrefix(u.got, Units(e)[bytes][u].got)
<1> DEFINE read == Units(e)
           step == Uniting(e)
           T == {a \in Seq(Byte) : \A v \in Readings : IsPrefix(v.got, read[a][v].got)}
<1>1. /\ step \in [Readings -> [Byte -> Readings]]
      /\ \A v \in Readings, b \in Byte : step[v][b] = UnitByte(e, v, b)
      /\ Reads(Readings, step, read)
  BY UnitsRead
<1> HIDE DEF read, step
<1>2. <<>> \in T
  <2>1. \A v \in Readings : read[<<>>][v] = v /\ v.got \in Records
    BY <1>1 DEF Reads, Readings
  <2>2. \A r \in Records : IsPrefix(r, r)
    BY PrefixGrows, EmptySeq DEF Records
  <2> QED
    BY <2>1, <2>2, EmptySeq
<1>3. ASSUME NEW a \in Seq(Byte), a # <<>>, Tail(a) \in T
      PROVE  a \in T
  <2> SUFFICES ASSUME NEW v \in Readings
               PROVE  IsPrefix(v.got, read[a][v].got)
    OBVIOUS
  <2> DEFINE w == step[v][Head(a)]
             f == TelnetByte(e, v.frame, Head(a))
  <2>8. Head(a) \in Byte
    BY <1>3, HeadTailProperties
  <2>9. v.got \in Records /\ v.frame \in Frames
    BY DEF Readings
  <2>1. Head(a) \in Byte /\ w \in Readings /\ v.got \in Records /\ v.frame \in Frames
    BY <1>1, <2>8, <2>9
  <2>2. read[a][v] = read[Tail(a)][w]
    BY <1>1, <1>3 DEF Reads
  <2>3. IsPrefix(w.got, read[Tail(a)][w].got)
    BY <1>3, <2>1
  <2>4. w.got = IF f.kind = "record" THEN Returned(e, v.got, f.out) ELSE v.got
    <3>1. w = UnitByte(e, v, Head(a))
      BY <1>1, <2>1
    <3> HIDE DEF w
    <3> QED
      BY <3>1 DEF UnitByte
  <2>5. read[Tail(a)][w].got \in Records
    BY <1>1, <1>3, <2>1 DEF Reads, Readings
  <2>6. CASE w.got = v.got
    BY <2>2, <2>3, <2>6
  <2>7. CASE w.got # v.got
    <3> DEFINE r == IF e THEN Tail(f.out) ELSE f.out
    <3>1. w.got = Append(v.got, r) /\ ~(e /\ f.out = <<>>)
      BY <2>4, <2>7 DEF Returned
    <3>2. r \in Seq(Byte)
      <4>1. f.out \in Seq(Byte)
        BY <2>1, FrameByte DEF Frames
      <4> QED
        BY <3>1, <4>1, HeadTailProperties
    <3> HIDE DEF r, w
    <3> QED
      BY <2>1, <2>2, <2>3, <2>5, <3>1, <3>2, PrefixGrows DEF Records
  <2> QED
    BY <2>6, <2>7
<1>4. Seq(Byte) \subseteq T
  <2> HIDE DEF T
  <2> QED
    BY <1>2, <1>3, InductTail
<1> QED
  BY <1>4 DEF read

\* A whole frame only collects what follows it; another never has anything
\* behind it, and on a basic connection it is never a command.
LEMMA FrameByteKeeps ==
  ASSUME NEW e \in BOOLEAN, NEW s \in Frames, NEW b \in Byte
  PROVE  LET t == TelnetByte(e, s, b)
         IN /\ s.kind # "more" => /\ t.kind = s.kind /\ t.out = s.out /\ t.pend = s.pend
                                  /\ t.rest = Append(s.rest, b)
            /\ s.kind = "more" => t.rest = s.rest
            /\ ~e /\ s.kind # "cmd" => t.kind # "cmd"
<1> DEFINE t == TelnetByte(e, s, b)
<1>1. CASE s.kind # "more"
  <2>1. t = [s EXCEPT !.rest = Append(s.rest, b)]
    BY <1>1 DEF TelnetByte
  <2>2. /\ t.kind = s.kind /\ t.out = s.out /\ t.pend = s.pend
        /\ t.rest = Append(s.rest, b)
    <3> HIDE DEF t
    <3> QED
      BY <2>1 DEF Frames
  <2> HIDE DEF t
  <2> QED
    BY <1>1, <2>2 DEF t
<1>2. CASE s.kind = "more"
  <2> DEFINE ff == IF e THEN <<b, b>> ELSE <<b>>
  <2>1. \/ t = [s EXCEPT !.out = Append(s.out, b)]
        \/ t = [s EXCEPT !.pend = <<b>>]
        \/ t = [s EXCEPT !.kind = "record", !.pend = <<>>]
        \/ t = [s EXCEPT !.out = s.out \o ff, !.pend = <<>>]
        \/ t = [s EXCEPT !.pend = Append(s.pend, b)]
        \/ t = [s EXCEPT !.pend = <<>>, !.kind = IF e THEN "cmd" ELSE s.kind]
        \/ t = [s EXCEPT !.pend = <<>>]
    BY <1>2 DEF TelnetByte
  <2> HIDE DEF t, ff
  <2>2. t.rest = s.rest
    BY <2>1 DEF Frames
  <2>3. ~e => t.kind # "cmd"
    BY <1>2, <2>1 DEF Frames
  <2> QED
    BY <1>2, <2>2, <2>3 DEF t
<1> QED
  BY <1>1, <1>2

\* What the frame of some bytes says of the records in them.
UnitsSaid(e, raw) ==
  LET f == Framed(e)[raw][Fresh]
  IN /\ f \in Frames
     /\ f.kind = "more" => f.rest = <<>>
     /\ \A got \in Records : Units(e)[raw][From(got)] =
          IF f.kind = "more" THEN [frame |-> f, got |-> got]
          ELSE Units(e)[f.rest][From(IF f.kind = "record" THEN Returned(e, got, f.out) ELSE got)]
     /\ ~e => f.kind # "cmd"

\* The units of some bytes are those of their first frame and of what follows it.
LEMMA UnitsFrame ==
  ASSUME NEW e \in BOOLEAN, NEW raw \in Seq(Byte)
  PROVE  UnitsSaid(e, raw)
<1> DEFINE T == {a \in Seq(Byte) : UnitsSaid(e, a)}
           units == Units(e)
           step == Uniting(e)
<1>1. /\ Reads(Readings, step, units) /\ Composes(Readings, step, units)
      /\ step \in [Readings -> [Byte -> Readings]]
      /\ \A v \in Readings, b \in Byte : step[v][b] = UnitByte(e, v, b)
  BY UnitsRead
<1>2. Fresh \in Frames /\ \A got \in Records : From(got) \in Readings
  BY FreshFrame
<1> HIDE DEF units, step
<1>3. <<>> \in T
  <2>1. Framed(e)[<<>>][Fresh] = Fresh
    BY <1>2, FramesRead
  <2>2. \A got \in Records : units[<<>>][From(got)] = From(got)
    BY <1>1, <1>2 DEF Reads
  <2>3. Fresh.kind = "more" /\ Fresh.rest = <<>>
    BY DEF Fresh
  <2>4. UnitsSaid(e, <<>>)
    BY <1>2, <2>1, <2>2, <2>3 DEF UnitsSaid, From, units
  <2> QED
    BY <2>4, EmptySeq
<1>4. ASSUME NEW a \in Seq(Byte), NEW b \in Byte, a \in T
      PROVE  Append(a, b) \in T
  <2> DEFINE f == Framed(e)[a][Fresh]
             t == TelnetByte(e, f, b)
             ab == Append(a, b)
  <2>1. ab \in Seq(Byte) /\ Framed(e)[ab][Fresh] = t /\ f \in Frames /\ t \in Frames
    BY <1>2, <1>4, FramesRead, FrameByte, AppendProperties
  <2>2. /\ f.kind = "more" => f.rest = <<>>
        /\ \A got \in Records : units[a][From(got)] =
             IF f.kind = "more" THEN [frame |-> f, got |-> got]
             ELSE units[f.rest][From(IF f.kind = "record" THEN Returned(e, got, f.out) ELSE got)]
        /\ ~e => f.kind # "cmd"
    BY <1>4 DEF UnitsSaid, units
  <2> HIDE DEF f, T
  <2>3. /\ f.kind # "more" => /\ t.kind = f.kind /\ t.out = f.out /\ t.pend = f.pend
                              /\ t.rest = Append(f.rest, b)
        /\ f.kind = "more" => t.rest = f.rest
        /\ ~e /\ f.kind # "cmd" => t.kind # "cmd"
    BY <2>1, FrameByteKeeps
  <2>4. f.rest \in Seq(Byte) /\ f.out \in Seq(Byte) /\ t.out \in Seq(Byte)
    BY <2>1 DEF Frames
  <2> HIDE DEF t, ab
  <2>5. ASSUME NEW got \in Records
        PROVE  units[ab][From(got)] =
                 IF t.kind = "more" THEN [frame |-> t, got |-> got]
                 ELSE units[t.rest][From(IF t.kind = "record" THEN Returned(e, got, t.out) ELSE got)]
    <3>1. units[ab][From(got)] = step[units[a][From(got)]][b]
      BY <1>1, <1>2, <1>4 DEF Composes, ab
    <3>2. CASE f.kind # "more"
      <4> DEFINE g == IF f.kind = "record" THEN Returned(e, got, f.out) ELSE got
      <4>1. g \in Records
        BY <2>4, ReturnedRecords
      <4>2. units[a][From(got)] = units[f.rest][From(g)]
        BY <2>2, <3>2
      <4>3. units[Append(f.rest, b)][From(g)] = step[units[f.rest][From(g)]][b]
        <5> HIDE DEF g
        <5> QED
          BY <1>1, <1>2, <2>4, <4>1 DEF Composes
      <4> QED
        BY <2>3, <3>1, <3>2, <4>2, <4>3
    <3>3. CASE f.kind = "more"
      <4> DEFINE u == [frame |-> f, got |-> got]
                 g == IF t.kind = "record" THEN Returned(e, got, t.out) ELSE got
      <4>1. units[a][From(got)] = u
        BY <2>2, <3>3
      <4>2. u \in Readings /\ u.frame = f /\ u.got = got
        BY <2>1 DEF Readings
      <4> HIDE DEF u
      <4>3. units[ab][From(got)] = UnitByte(e, u, b)
        BY <1>1, <3>1, <4>1, <4>2
      <4>4. UnitByte(e, u, b) = [frame |-> IF t.kind = "more" THEN t ELSE Fresh, got |-> g]
        BY <4>2 DEF UnitByte, t
      <4>5. t.kind # "more" => units[t.rest][From(g)] = From(g)
        <5>1. g \in Records
          BY <2>4, ReturnedRecords
        <5> HIDE DEF g
        <5> QED
          BY <1>1, <1>2, <2>2, <2>3, <3>3, <5>1 DEF Reads
      <4> QED
        BY <4>3, <4>4, <4>5 DEF From
    <3> QED
      BY <3>2, <3>3
  <2>6. UnitsSaid(e, ab)
    BY <2>1, <2>2, <2>3, <2>5 DEF UnitsSaid, units
  <2> QED
    BY <2>1, <2>6 DEF T, ab
<1>5. Seq(Byte) \subseteq T
  <2> HIDE DEF T
  <2> QED
    BY <1>3, <1>4, InductAppend
<1> QED
  BY <1>5

\* A byte that does not end a TN3270E frame.
LEMMA MoreByte ==
  ASSUME NEW s \in Frames, NEW b \in Byte, s.kind = "more", TelnetByte(TRUE, s, b).kind = "more"
  PROVE  LET t == TelnetByte(TRUE, s, b)
         IN \/ s.pend = <<>> /\ b # "IAC" /\ t = [s EXCEPT !.out = Append(s.out, b)]
            \/ s.pend = <<>> /\ b = "IAC" /\ t = [s EXCEPT !.pend = <<b>>]
            \/ s.pend = <<"IAC">> /\ b = "IAC"
               /\ t = [s EXCEPT !.out = s.out \o <<b, b>>, !.pend = <<>>]
            \/ t = [s EXCEPT !.pend = Append(s.pend, b)]
            \/ t = [s EXCEPT !.pend = <<>>]
<1> DEFINE t == TelnetByte(TRUE, s, b)
<1>1. \/ s.pend = <<>> /\ b # "IAC" /\ t = [s EXCEPT !.out = Append(s.out, b)]
      \/ s.pend = <<>> /\ b = "IAC" /\ t = [s EXCEPT !.pend = <<b>>]
      \/ t = [s EXCEPT !.kind = "record", !.pend = <<>>]
      \/ s.pend = <<"IAC">> /\ b = "IAC"
         /\ t = [s EXCEPT !.out = s.out \o <<b, b>>, !.pend = <<>>]
      \/ t = [s EXCEPT !.pend = Append(s.pend, b)]
      \/ t = [s EXCEPT !.pend = <<>>, !.kind = "cmd"]
      \/ t = [s EXCEPT !.pend = <<>>]
  BY DEF TelnetByte
<1>2. t.kind = "more"
  OBVIOUS
<1> HIDE DEF t
<1>3. t # [s EXCEPT !.kind = "record", !.pend = <<>>]
      /\ t # [s EXCEPT !.pend = <<>>, !.kind = "cmd"]
  BY <1>2 DEF Frames
<1> QED
  BY <1>1, <1>3 DEF t

Held(f) == [f EXCEPT !.pend = <<>>]

\* What _next_unit keeps of a unit that is not complete, if it keeps all of
\* it, makes the same frame again.
LEMMA Reframed ==
  ASSUME NEW raw \in Seq(Byte), Frame(TRUE, raw).kind = "more"
  PROVE  LET f == Frame(TRUE, raw)
         IN f.out \o f.pend \in Seq(Byte) /\ Frame(TRUE, f.out \o f.pend) = f
<1> DEFINE frame == Framed(TRUE)
           Again(f) == f.kind = "more" => /\ frame[f.out][Fresh] = Held(f)
                                          /\ frame[f.pend][Held(f)] = f
           T == {a \in Seq(Byte) : Again(frame[a][Fresh])}
<1>0. \A bytes : Frame(TRUE, bytes) = frame[bytes][Fresh]
  BY FramedIs
<1>1. /\ \A bytes \in Seq(Byte), s \in Frames : frame[bytes][s] \in Frames
      /\ \A s \in Frames : frame[<<>>][s] = s
      /\ \A a \in Seq(Byte), b \in Seq(Byte), s \in Frames :
           frame[a \o b][s] = frame[b][frame[a][s]]
      /\ \A b \in Byte, s \in Frames : frame[<<b>>][s] = TelnetByte(TRUE, s, b)
      /\ \A a \in Seq(Byte), b \in Byte, s \in Frames :
           frame[Append(a, b)][s] = TelnetByte(TRUE, frame[a][s], b)
  BY FramesRead
<1>10. \A x \in Seq(Byte), b \in Byte, s \in Frames :
         frame[Append(x, b)][s] = TelnetByte(TRUE, frame[x][s], b)
  BY <1>1
<1>11. \A x \in Seq(Byte), y \in Seq(Byte), s \in Frames : frame[x \o y][s] = frame[y][frame[x][s]]
  BY <1>1
<1>2. Fresh \in Frames
  BY FreshFrame
<1> HIDE DEF frame
<1>3. <<>> \in T
  <2>1. frame[<<>>][Fresh] = Fresh /\ Fresh.out = <<>> /\ Fresh.pend = <<>> /\ Held(Fresh) = Fresh
    BY <1>1, <1>2 DEF Fresh, Held
  <2> QED
    BY <2>1, EmptySeq
<1>4. ASSUME NEW a \in Seq(Byte), NEW b \in Byte, a \in T
      PROVE  Append(a, b) \in T
  <2> DEFINE f == frame[a][Fresh]
             t == TelnetByte(TRUE, f, b)
  <2>1. /\ Append(a, b) \in Seq(Byte) /\ frame[Append(a, b)][Fresh] = t
        /\ f \in Frames /\ t \in Frames
    BY <1>1, <1>2, FrameByte, AppendProperties
  <2>2. Again(f)
    BY <1>4
  <2> HIDE DEF T, f
  <2>3. ASSUME t.kind = "more"
        PROVE  frame[t.out][Fresh] = Held(t) /\ frame[t.pend][Held(t)] = t
    <3>1. f.kind = "more"
      BY <2>1, <2>3, FrameByteKeeps
    <3>2. /\ f.out \in Seq(Byte) /\ f.pend \in Seq(Byte) /\ Held(f) \in Frames
          /\ f.pend = <<>> => Held(f) = f
      <4>1. <<>> \in Seq(Byte)
        BY EmptySeq
      <4> QED
        BY <2>1, <4>1 DEF Frames, Held
    <3>3. frame[f.out][Fresh] = Held(f) /\ frame[f.pend][Held(f)] = f
      BY <2>2, <3>1
    <3>4. \/ f.pend = <<>> /\ b # "IAC" /\ t = [f EXCEPT !.out = Append(f.out, b)]
          \/ f.pend = <<>> /\ b = "IAC" /\ t = [f EXCEPT !.pend = <<b>>]
          \/ f.pend = <<"IAC">> /\ b = "IAC"
             /\ t = [f EXCEPT !.out = f.out \o <<b, b>>, !.pend = <<>>]
          \/ t = [f EXCEPT !.pend = Append(f.pend, b)]
          \/ t = [f EXCEPT !.pend = <<>>]
      BY <2>1, <2>3, <3>1, MoreByte
    <3>5. CASE f.pend = <<>> /\ b # "IAC" /\ t = [f EXCEPT !.out = Append(f.out, b)]
      <4>3. frame[Append(f.out, b)][Fresh] = TelnetByte(TRUE, frame[f.out][Fresh], b)
        BY <1>2, <1>10, <3>2, Zenon
      <4>1. frame[Append(f.out, b)][Fresh] = t
        BY <3>2, <3>3, <3>5, <4>3, Zenon
      <4> HIDE DEF t
      <4>2. t.out = Append(f.out, b) /\ t.pend = <<>> /\ Held(t) = t
        BY <2>1, <3>5 DEF Frames, Held
      <4> QED
        BY <1>1, <2>1, <4>1, <4>2
    <3>6. CASE f.pend = <<>> /\ b = "IAC" /\ t = [f EXCEPT !.pend = <<b>>]
      <4>1. frame[<<b>>][Held(f)] = t
        BY <1>1, <2>1, <3>2, <3>6
      <4> HIDE DEF t
      <4>2. t.out = f.out /\ t.pend = <<b>> /\ Held(t) = Held(f)
        BY <2>1, <3>6 DEF Frames, Held
      <4> QED
        BY <3>3, <4>1, <4>2
    <3>7. CASE f.pend = <<"IAC">> /\ b = "IAC"
               /\ t = [f EXCEPT !.out = f.out \o <<b, b>>, !.pend = <<>>]
      <4>1. frame[<<b>>][Held(f)] = f
        BY <3>3, <3>7
      <4>2. <<b, b>> = Append(<<b>>, b) /\ <<b>> \in Seq(Byte) /\ <<b, b>> \in Seq(Byte)
        OBVIOUS
      <4>6. frame[Append(<<b>>, b)][Held(f)] = TelnetByte(TRUE, frame[<<b>>][Held(f)], b)
        BY <1>10, <3>2, <4>2, Zenon
      <4>3. frame[<<b, b>>][Held(f)] = t
        BY <4>1, <4>2, <4>6, Zenon
      <4>7. frame[f.out \o <<b, b>>][Fresh] = frame[<<b, b>>][frame[f.out][Fresh]]
        BY <1>2, <1>11, <3>2, <4>2, Zenon
      <4>4. frame[f.out \o <<b, b>>][Fresh] = t
        BY <3>3, <4>3, <4>7, Zenon
      <4> HIDE DEF t
      <4>5. t.out = f.out \o <<b, b>> /\ t.pend = <<>> /\ Held(t) = t
        BY <2>1, <3>7 DEF Frames, Held
      <4> QED
        BY <1>1, <2>1, <4>4, <4>5
    <3>8. CASE t = [f EXCEPT !.pend = Append(f.pend, b)]
      <4>3. frame[Append(f.pend, b)][Held(f)] = TelnetByte(TRUE, frame[f.pend][Held(f)], b)
        BY <1>10, <3>2, Zenon
      <4>1. frame[Append(f.pend, b)][Held(f)] = t
        BY <3>3, <4>3, Zenon
      <4> HIDE DEF t
      <4>2. t.out = f.out /\ t.pend = Append(f.pend, b) /\ Held(t) = Held(f)
        BY <2>1, <3>8 DEF Frames, Held
      <4> QED
        BY <3>3, <4>1, <4>2
    <3>9. CASE t = [f EXCEPT !.pend = <<>>]
      <4> HIDE DEF t
      <4>1. t.out = f.out /\ t.pend = <<>> /\ Held(t) = Held(f) /\ t = Held(f)
        BY <2>1, <3>9 DEF Frames, Held
      <4> QED
        BY <1>1, <2>1, <3>3, <4>1
    <3> QED
      BY <3>4, <3>5, <3>6, <3>7, <3>8, <3>9
  <2> HIDE DEF t
  <2> QED
    BY <2>1, <2>3 DEF T
<1>5. Seq(Byte) \subseteq T
  <2> HIDE DEF T
  <2> QED
    BY <1>3, <1>4, InductAppend
<1> DEFINE g == frame[raw][Fresh]
<1>6. g \in Frames /\ g.kind = "more" /\ Again(g)
  BY <1>0, <1>1, <1>2, <1>5
<1> HIDE DEF g
<1>7. g.out \in Seq(Byte) /\ g.pend \in Seq(Byte)
  BY <1>6 DEF Frames
<1>8. frame[g.out \o g.pend][Fresh] = g
  BY <1>1, <1>2, <1>6, <1>7
<1>9. g.out \o g.pend \in Seq(Byte)
  BY <1>7, ConcatProperties
<1> QED
  BY <1>0, <1>8, <1>9 DEF g

-----------------------------------------------------------------------------
(* What a client sends.                                                    *)

Twice(b) == IF b = "IAC" THEN <<b, b>> ELSE <<b>>
Doubling == [s \in Seq(Byte) |-> [b \in Byte |-> s \o Twice(b)]]

\* A byte more of a record is one or two more on the wire.
LEMMA EscapedIs ==
  /\ Escaped(<<>>) = <<>>
  /\ \A x \in Seq(Byte) : Escaped(x) \in Seq(Byte)
  /\ \A x \in Seq(Byte), b \in Byte : Escaped(Append(x, b)) = Escaped(x) \o Twice(b)
<1> DEFINE S == Seq(Byte)
           U(r) == r = [more \in Seq(Byte) |->
                          [s \in S |-> IF more = <<>> THEN s
                                       ELSE r[Tail(more)][s \o (IF Head(more) = "IAC"
                                                                THEN <<Head(more), Head(more)>>
                                                                ELSE <<Head(more)>>)]]]
           f == CHOOSE r : U(r)
           read == Reader(S, Doubling)
<1>1. \A x : Escaped(x) = f[x][<<>>]
  BY DEF Escaped, Read
<1>2. Doubling \in [S -> [Byte -> S]] /\ \A s \in S, b \in Byte : Doubling[s][b] = s \o Twice(b)
  <2>1. \A b \in Byte : Twice(b) \in Seq(Byte)
    <3> TAKE b \in Byte
    <3>1. <<b>> \in Seq(Byte) /\ <<b, b>> \in Seq(Byte)
      OBVIOUS
    <3> QED
      BY <3>1 DEF Twice
  <2>2. \A s \in S, b \in Byte : s \o Twice(b) \in S
    BY <2>1, ConcatProperties
  <2> QED
    BY <2>2 DEF Doubling
<1>3. \A r : U(r) <=> Unrolls(S, Doubling, r)
  <2> TAKE r
  <2>1. \A more \in Seq(Byte), s \in S : more # <<>> =>
          s \o (IF Head(more) = "IAC" THEN <<Head(more), Head(more)>> ELSE <<Head(more)>>) =
          Doubling[s][Head(more)]
    BY <1>2, HeadTailProperties DEF Twice
  <2> HIDE DEF S
  <2>2. \A more \in Seq(Byte) :
          [s \in S |-> IF more = <<>> THEN s
                       ELSE r[Tail(more)][s \o (IF Head(more) = "IAC" THEN <<Head(more), Head(more)>>
                                                ELSE <<Head(more)>>)]] =
          [s \in S |-> IF more = <<>> THEN s ELSE r[Tail(more)][Doubling[s][Head(more)]]]
    BY <2>1
  <2>3. [more \in Seq(Byte) |->
          [s \in S |-> IF more = <<>> THEN s
                       ELSE r[Tail(more)][s \o (IF Head(more) = "IAC" THEN <<Head(more), Head(more)>>
                                                ELSE <<Head(more)>>)]]] =
        [more \in Seq(Byte) |->
          [s \in S |-> IF more = <<>> THEN s ELSE r[Tail(more)][Doubling[s][Head(more)]]]]
    BY <2>2
  <2> QED
    BY <2>3 DEF Unrolls
<1> HIDE DEF S, U
<1>4. U(f)
  <2>1. \E r : U(r)
    BY <1>2, <1>3, Reading
  <2> QED
    BY <2>1
<1> HIDE DEF f
<1>5. f = read
  BY <1>2, <1>3, <1>4, Reading
<1>6. Reads(S, Doubling, read) /\ Composes(S, Doubling, read)
  BY <1>2, Reading
<1> HIDE DEF read
<1>7. <<>> \in S
  BY EmptySeq DEF S
<1>8. /\ read[<<>>][<<>>] = <<>>
      /\ \A x \in Seq(Byte) : read[x][<<>>] \in S
  BY <1>6, <1>7 DEF Reads
<1>9. \A x \in Seq(Byte), b \in Byte : read[Append(x, b)][<<>>] = Doubling[read[x][<<>>]][b]
  BY <1>6, <1>7 DEF Composes
<1>10. \A x \in Seq(Byte), b \in Byte : Doubling[read[x][<<>>]][b] = read[x][<<>>] \o Twice(b)
  BY <1>2, <1>8
<1> QED
  BY <1>1, <1>5, <1>8, <1>9, <1>10 DEF S

Open(s) == s \in Frames /\ s.kind = "more" /\ s.pend = <<>>

\* A byte of a record, and the end of it, where no command has begun.
DataReads(e, s, b) ==
  /\ Framed(e)[Twice(b)][s] = [s EXCEPT !.out = s.out \o (IF e THEN Twice(b) ELSE <<b>>)]
  /\ Framed(e)[<<"IAC", "EOR">>][s] = [s EXCEPT !.kind = "record"]
  /\ <<"IAC", "EOR">> \in Seq(Byte) /\ Twice(b) \in Seq(Byte)

\* A byte of a record, doubled when it is an IAC, is read back by an open frame, and
\* IAC EOR ends the record.
LEMMA DataByte ==
  ASSUME NEW e \in BOOLEAN, NEW s, Open(s), NEW b \in Byte
  PROVE  DataReads(e, s, b)
<1> DEFINE t == TelnetByte(e, s, "IAC")
<1>1. "IAC" \in Byte /\ "EOR" \in Byte /\ s \in Frames /\ s.kind = "more" /\ s.pend = <<>>
      /\ s.out \in Seq(Byte)
  BY ByteAssumption DEF Open, Frames
<1>2. /\ <<"IAC">> \in Seq(Byte) /\ <<b>> \in Seq(Byte) /\ <<"IAC", "EOR">> \in Seq(Byte)
      /\ <<"IAC", "IAC">> \in Seq(Byte)
      /\ <<"IAC", "EOR">> = Append(<<"IAC">>, "EOR")
      /\ <<"IAC", "IAC">> = Append(<<"IAC">>, "IAC")
  BY <1>1
<1>3. t = [s EXCEPT !.pend = <<"IAC">>] /\ t \in Frames
  <2>1. t = [s EXCEPT !.pend = <<"IAC">>]
    BY <1>1 DEF TelnetByte
  <2>2. t \in Frames
    BY <1>1, FrameByte
  <2> QED
    BY <2>1, <2>2
<1> HIDE DEF t
<1>4. /\ t.kind = "more" /\ t.pend = <<"IAC">> /\ t.out = s.out /\ t.rest = s.rest
      /\ s = [kind |-> "more", out |-> s.out, pend |-> <<>>, rest |-> s.rest]
      /\ t = [kind |-> "more", out |-> s.out, pend |-> <<"IAC">>, rest |-> s.rest]
  BY <1>1, <1>3 DEF Frames
<1>5. /\ Framed(e)[Append(<<"IAC">>, "EOR")][s] = TelnetByte(e, t, "EOR")
      /\ Framed(e)[Append(<<"IAC">>, "IAC")][s] = TelnetByte(e, t, "IAC")
  <2>1. Framed(e)[<<"IAC">>][s] = t
    BY <1>1, FramesRead DEF t
  <2>2. \A x \in Byte : Framed(e)[Append(<<"IAC">>, x)][s] = TelnetByte(e, Framed(e)[<<"IAC">>][s], x)
    BY <1>1, <1>2, FramesRead
  <2> QED
    BY <1>1, <2>1, <2>2, Zenon
<1>10. Len(t.pend) = 1 /\ t.pend # <<>>
  BY <1>4
<1>6. TelnetByte(e, t, "EOR") = [s EXCEPT !.kind = "record"]
  <2>1. TelnetByte(e, t, "EOR") = [t EXCEPT !.kind = "record", !.pend = <<>>]
    BY <1>4, <1>10 DEF TelnetByte, Verbs
  <2> QED
    BY <2>1, <1>1, <1>3, <1>4 DEF Frames
<1>7. TelnetByte(e, t, "IAC") =
        [s EXCEPT !.out = s.out \o (IF e THEN <<"IAC", "IAC">> ELSE <<"IAC">>)]
  <2> DEFINE o == s.out \o (IF e THEN <<"IAC", "IAC">> ELSE <<"IAC">>)
  <2>1. TelnetByte(e, t, "IAC") = [t EXCEPT !.out = o, !.pend = <<>>]
    BY <1>4, <1>10 DEF TelnetByte, Verbs
  <2> HIDE DEF o
  <2>2. TelnetByte(e, t, "IAC") = [s EXCEPT !.out = o]
    BY <2>1, <1>1, <1>3, <1>4 DEF Frames
  <2> QED
    BY <2>2 DEF o
<1>8. Framed(e)[Twice(b)][s] = [s EXCEPT !.out = s.out \o (IF e THEN Twice(b) ELSE <<b>>)]
  <2>1. CASE b = "IAC"
    <3>1. Twice(b) = <<"IAC", "IAC">>
      BY <2>1 DEF Twice
    <3>2. Framed(e)[Twice(b)][s] = TelnetByte(e, t, "IAC")
      BY <3>1, <1>2, <1>5, Zenon
    <3> QED
      BY <3>1, <3>2, <1>7, <2>1, Zenon
  <2>2. CASE b # "IAC"
    <3>1. Twice(b) = <<b>>
      BY <2>2 DEF Twice
    <3>2. Framed(e)[<<b>>][s] = TelnetByte(e, s, b)
      BY <1>1, FramesRead
    <3>3. TelnetByte(e, s, b) = [s EXCEPT !.out = Append(s.out, b)]
      BY <1>1, <2>2 DEF TelnetByte
    <3>4. Append(s.out, b) = s.out \o <<b>> /\ (IF e THEN Twice(b) ELSE <<b>>) = <<b>>
      BY <1>1, <3>1, AppendIsConcat
    <3> QED
      BY <3>1, <3>2, <3>3, <3>4, Zenon
  <2> QED
    BY <2>1, <2>2
<1>9. Twice(b) \in Seq(Byte)
  BY <1>2 DEF Twice
<1> QED
  BY <1>2, <1>5, <1>6, <1>8, <1>9 DEF DataReads

\* Bytes are joined in any order.
LEMMA Associative ==
  \A a \in Seq(Byte), b \in Seq(Byte), c \in Seq(Byte) : (a \o b) \o c = a \o (b \o c)
BY ConcatAssociative

\* A record on the wire is read back: doubled as it came on TN3270E.
EscapedReads(e, s, record) ==
  Framed(e)[Escaped(record)][s] = [s EXCEPT !.out = s.out \o (IF e THEN Escaped(record) ELSE record)]

\* An open frame takes a record as it was escaped, byte after byte.
LEMMA EscapedFrame ==
  ASSUME NEW e \in BOOLEAN, NEW s, Open(s), NEW record \in Seq(Byte)
  PROVE  EscapedReads(e, s, record)
<1> DEFINE Data(x) == IF e THEN Escaped(x) ELSE x
           R(x) == Framed(e)[Escaped(x)][s] = [s EXCEPT !.out = s.out \o Data(x)]
           T == {x \in Seq(Byte) : R(x)}
<1>1. s \in Frames /\ s.kind = "more" /\ s.pend = <<>> /\ s.out \in Seq(Byte)
  BY DEF Open, Frames
<1>2. <<>> \in T
  <2>1. Framed(e)[Escaped(<<>>)][s] = s
    BY <1>1, EscapedIs, FramesRead
  <2>2. Data(<<>>) = <<>> /\ s.out \o <<>> = s.out
    BY <1>1, EscapedIs, ConcatEmptySeq
  <2>3. [s EXCEPT !.out = s.out] = s
    BY <1>1 DEF Frames
  <2>4. R(<<>>)
    BY <2>1, <2>2, <2>3
  <2> QED
    BY <2>4, EmptySeq
<1>3. ASSUME NEW x \in Seq(Byte), NEW b \in Byte, x \in T
      PROVE  Append(x, b) \in T
  <2> DEFINE y == Append(x, b)
             o == s.out \o Data(x)
             r == [s EXCEPT !.out = o]
             d == IF e THEN Twice(b) ELSE <<b>>
  <2>1. /\ y \in Seq(Byte) /\ Escaped(x) \in Seq(Byte) /\ Escaped(y) = Escaped(x) \o Twice(b)
        /\ Data(x) \in Seq(Byte) /\ y = x \o <<b>> /\ <<b>> \in Seq(Byte)
    <3>1. y = x \o <<b>> /\ y \in Seq(Byte)
      BY AppendIsConcat, AppendProperties
    <3>2. Escaped(x) \in Seq(Byte) /\ Escaped(y) = Escaped(x) \o Twice(b)
      BY EscapedIs
    <3>3. <<b>> \in Seq(Byte)
      OBVIOUS
    <3> QED
      BY <3>1, <3>2, <3>3
  <2>2. Framed(e)[Escaped(x)][s] = r
    BY <1>3
  <2>3. o \in Seq(Byte)
    BY <1>1, <2>1, ConcatProperties
  <2>4. Open(r) /\ r.out = o
    <3> HIDE DEF o
    <3> QED
      BY <1>1, <2>3 DEF Frames, Open
  <2>10. DataReads(e, r, b)
    <3> HIDE DEF r
    <3> QED
      BY <2>4, DataByte
  <2>5. Framed(e)[Twice(b)][r] = [r EXCEPT !.out = o \o d] /\ Twice(b) \in Seq(Byte)
    <3> HIDE DEF r, o
    <3>1. Framed(e)[Twice(b)][r] = [r EXCEPT !.out = r.out \o d] /\ Twice(b) \in Seq(Byte)
      BY <2>10 DEF DataReads
    <3> QED
      BY <2>4, <3>1
  <2>6. Framed(e)[Escaped(y)][s] = [r EXCEPT !.out = o \o d]
    <3>1. Framed(e)[Escaped(x) \o Twice(b)][s] = Framed(e)[Twice(b)][Framed(e)[Escaped(x)][s]]
      BY <1>1, <2>1, <2>5, FramesRead
    <3> HIDE DEF r, o, d, y
    <3> QED
      BY <2>1, <2>2, <2>5, <3>1
  <2>7. [r EXCEPT !.out = o \o d] = [s EXCEPT !.out = o \o d]
    <3> HIDE DEF o, d
    <3> QED
      BY <1>1 DEF Frames
  <2>8. o \o d = s.out \o Data(y)
    <3>1. d \in Seq(Byte) /\ Data(y) = Data(x) \o d
      <4> HIDE DEF y
      <4> QED
        BY <2>1, <2>5
    <3> HIDE DEF d
    <3>2. (s.out \o Data(x)) \o d = s.out \o (Data(x) \o d)
      BY <1>1, <2>1, <3>1, Associative, Zenon
    <3> QED
      BY <3>1, <3>2
  <2>9. R(y)
    BY <2>6, <2>7, <2>8
  <2> QED
    BY <2>1, <2>9
<1>4. Seq(Byte) \subseteq T
  <2> HIDE DEF T
  <2> QED
    BY <1>2, <1>3, InductAppend
<1> QED
  BY <1>4 DEF EscapedReads

Header(e) == IF e THEN <<"data">> ELSE <<>>

\* Whatever a client says before a record, if that is no record the reader
\* returns the record, once.
LEMMA RecordSent ==
  ASSUME NEW e \in BOOLEAN, NEW noise \in Seq(Byte), NEW record \in Seq(Byte), NEW got \in Records,
         Units(e)[noise][From(got)] = From(got)
  PROVE  LET wire == noise \o Header(e) \o Escaped(record) \o <<"IAC", "EOR">>
         IN /\ wire \in Seq(Byte)
            /\ Units(e)[wire][From(got)] =
                 From(Append(got, IF e THEN Escaped(record) ELSE record))
<1> DEFINE esc == Escaped(record)
           eor == <<"IAC", "EOR">>
           data == IF e THEN esc ELSE record
           body == (Header(e) \o esc) \o eor
           wire == noise \o Header(e) \o esc \o eor
           out == Header(e) \o data
           s == [Fresh EXCEPT !.out = Header(e)]
           f == [Fresh EXCEPT !.out = out]
<1>1. /\ esc \in Seq(Byte) /\ eor \in Seq(Byte) /\ Header(e) \in Seq(Byte) /\ data \in Seq(Byte)
      /\ "data" \in Byte
  <2>1. "data" \in Byte /\ "IAC" \in Byte /\ "EOR" \in Byte
    BY ByteAssumption
  <2>2. esc \in Seq(Byte)
    BY EscapedIs
  <2> HIDE DEF esc
  <2> QED
    BY <2>1, <2>2 DEF Header
<1>2. /\ Header(e) \o esc \in Seq(Byte) /\ body \in Seq(Byte) /\ out \in Seq(Byte)
      /\ wire = noise \o body
  <2> HIDE DEF esc, eor, data
  <2>1. Header(e) \o esc \in Seq(Byte) /\ body \in Seq(Byte) /\ out \in Seq(Byte)
    BY <1>1, ConcatProperties
  <2>2. noise \o Header(e) \o esc = noise \o (Header(e) \o esc)
    BY <1>1, Associative, Zenon
  <2> DEFINE he == Header(e) \o esc
  <2>3. (noise \o he) \o eor = noise \o (he \o eor)
    <3> HIDE DEF he
    <3>1. he \in Seq(Byte)
      BY <2>1 DEF he
    <3> QED
      BY <1>1, <3>1, Associative, Zenon
  <2> QED
    BY <2>1, <2>2, <2>3
<1>3. Fresh \in Frames /\ Open(Fresh)
  BY FreshFrame DEF Open, Fresh
<1>4. Framed(e)[Header(e)][Fresh] = s /\ Open(s) /\ s.out = Header(e)
  <2>1. Open(s) /\ s.out = Header(e)
    <3> DEFINE h == Header(e)
    <3>1. h \in Seq(Byte) /\ Fresh.kind = "more" /\ Fresh.pend = <<>>
      BY <1>1 DEF Fresh
    <3> HIDE DEF h
    <3>2. [Fresh EXCEPT !.out = h] \in Frames /\ [Fresh EXCEPT !.out = h].out = h
      BY <1>3, <3>1 DEF Frames
    <3>3. [Fresh EXCEPT !.out = h].kind = "more" /\ [Fresh EXCEPT !.out = h].pend = <<>>
      BY <1>3, <3>1 DEF Frames
    <3> QED
      BY <3>2, <3>3 DEF Open, h
  <2>2. CASE e
    <3>1. Header(e) = <<"data">> /\ Twice("data") = <<"data">> /\ Fresh.out = <<>>
      BY <2>2 DEF Header, Twice, Fresh
    <3>2. Framed(e)[Twice("data")][Fresh] =
            [Fresh EXCEPT !.out = Fresh.out \o (IF e THEN Twice("data") ELSE <<"data">>)]
      <4>1. DataReads(e, Fresh, "data")
        BY <1>1, <1>3, DataByte
      <4> QED
        BY <4>1 DEF DataReads
    <3>3. Fresh.out \o <<"data">> = <<"data">>
      BY <1>1, <3>1, ConcatEmptySeq
    <3> QED
      BY <2>1, <2>2, <3>1, <3>2, <3>3
  <2>3. CASE ~e
    <3>1. Header(e) = <<>> /\ Framed(e)[<<>>][Fresh] = Fresh
      BY <1>3, <2>3, FramesRead DEF Header
    <3>2. [Fresh EXCEPT !.out = <<>>] = Fresh
      BY DEF Fresh
    <3> QED
      BY <2>1, <3>1, <3>2
  <2> QED
    BY <2>2, <2>3
<1>5. Framed(e)[Header(e) \o esc][Fresh] = f /\ Open(f)
  <2>1. Framed(e)[esc][s] = [s EXCEPT !.out = s.out \o data]
    <3> HIDE DEF s
    <3>1. EscapedReads(e, s, record)
      BY <1>4, EscapedFrame
    <3> QED
      BY <3>1 DEF EscapedReads
  <2>2. Framed(e)[Header(e) \o esc][Fresh] = Framed(e)[esc][Framed(e)[Header(e)][Fresh]]
    <3> HIDE DEF esc
    <3> QED
      BY <1>1, <1>3, FramesRead
  <2>3. [s EXCEPT !.out = s.out \o data] = f
    <3>1. s.out \o data = out
      BY <1>4
    <3> HIDE DEF data, out
    <3> QED
      BY <3>1 DEF Fresh
  <2>4. Open(f)
    <3> HIDE DEF out
    <3> QED
      BY <1>2, <1>3 DEF Frames, Open
  <2> QED
    BY <1>4, <2>1, <2>2, <2>3, <2>4
<1>6. Framed(e)[body][Fresh] = [f EXCEPT !.kind = "record"]
  <2> DEFINE he == Header(e) \o esc
  <2>1. Framed(e)[he \o eor][Fresh] = Framed(e)[eor][Framed(e)[he][Fresh]]
    <3> HIDE DEF he, eor
    <3>1. he \in Seq(Byte)
      BY <1>2 DEF he
    <3> QED
      BY <1>1, <1>3, <3>1, FramesRead
  <2>2. Framed(e)[eor][f] = [f EXCEPT !.kind = "record"]
    <3> HIDE DEF f
    <3>1. DataReads(e, f, "data")
      BY <1>1, <1>5, DataByte
    <3> QED
      BY <3>1 DEF DataReads
  <2> QED
    BY <1>5, <2>1, <2>2
<1>7. Units(e)[body][From(got)] = From(Append(got, data))
  <2> DEFINE g == [f EXCEPT !.kind = "record"]
  <2>1. g.kind = "record" /\ g.out = out /\ g.rest = <<>>
    <3> HIDE DEF out
    <3> QED
      BY DEF Fresh
  <2> HIDE DEF g
  <2>2. UnitsSaid(e, body)
    <3> HIDE DEF body
    <3> QED
      BY <1>2, UnitsFrame
  <2>3. Units(e)[body][From(got)] = Units(e)[<<>>][From(Returned(e, got, out))]
    <3>1. Framed(e)[body][Fresh] = g
      BY <1>6 DEF g
    <3> HIDE DEF body, out
    <3> QED
      BY <2>1, <2>2, <3>1 DEF UnitsSaid
  <2>4. Returned(e, got, out) = Append(got, data) /\ Append(got, data) \in Records
    <3>1. e => out = <<"data">> \o data /\ Tail(out) = data /\ out # <<>>
      <4> HIDE DEF data
      <4>1. /\ <<"data">> \in Seq(Byte) /\ <<"data">> # <<>> /\ Tail(<<"data">>) = <<>>
            /\ <<>> \o data = data
        BY <1>1, ConcatEmptySeq
      <4>2. <<"data">> \o data # <<>> /\ Tail(<<"data">> \o data) = Tail(<<"data">>) \o data
        BY <1>1, <4>1, HeadAndTail
      <4> QED
        BY <4>1, <4>2 DEF Header
    <3>2. ~e => out = data
      <4> HIDE DEF data
      <4> QED
        BY <1>1, ConcatEmptySeq DEF Header
    <3>3. Append(got, data) \in Records
      <4> HIDE DEF data
      <4> QED
        BY <1>1, AppendProperties DEF Records
    <3> HIDE DEF data, out
    <3> QED
      BY <3>1, <3>2, <3>3 DEF Returned
  <2>5. \A r \in Records : Units(e)[<<>>][From(r)] = From(r)
    BY UnitsRead, FreshFrame DEF Reads
  <2> QED
    BY <2>3, <2>4, <2>5
<1>8. Units(e)[noise \o body][From(got)] = From(Append(got, data))
  <2>1. From(got) \in Readings
    BY FreshFrame
  <2>2. Units(e)[noise \o body][From(got)] = Units(e)[body][Units(e)[noise][From(got)]]
    <3> HIDE DEF body
    <3> QED
      BY <1>2, <2>1, UnitsRead DEF Composes
  <2> QED
    BY <1>7, <2>2
<1>9. wire \in Seq(Byte)
  <2>1. noise \o body \in Seq(Byte)
    <3> HIDE DEF body
    <3> QED
      BY <1>2, ConcatProperties
  <2> QED
    BY <1>2, <2>1
<1> QED
  BY <1>2, <1>8, <1>9

-----------------------------------------------------------------------------
(* Telnet commands ahead of the data.                                      *)

Plains == [frame : Frames, kept : Seq(Byte)]
Plaining == [p \in Plains |-> [b \in Byte |-> PlainByte(p, b)]]
Skimmed == Reader(Plains, Plaining)
Unkept(s) == [frame |-> s, kept |-> <<>>]

\* Plain is the reader of what a frame leaves of bytes, from a fresh one.
LEMMA PlainIs ==
  /\ Plaining \in [Plains -> [Byte -> Plains]]
  /\ \A p \in Plains, b \in Byte : Plaining[p][b] = PlainByte(p, b)
  /\ Reads(Plains, Plaining, Skimmed) /\ Composes(Plains, Plaining, Skimmed)
  /\ \A s \in Frames : Unkept(s) \in Plains
  /\ \A bytes : Plain(bytes) = Skimmed[bytes][Unkept(Fresh)].kept
<1> DEFINE U(r) == r = [more \in Seq(Byte) |->
                          [s \in Plains |-> IF more = <<>> THEN s
                                            ELSE r[Tail(more)][PlainByte(s, Head(more))]]]
           f == CHOOSE r : U(r)
<1>1. \A bytes : Plain(bytes) = f[bytes][Unkept(Fresh)].kept
  BY DEF Plain, Read, Plains, Unkept
<1>2. \A p \in Plains, b \in Byte : PlainByte(p, b) \in Plains
  <2> TAKE p \in Plains, b \in Byte
  <2> DEFINE t == TelnetByte(TRUE, p.frame, b)
  <2>1. t \in Frames /\ Fresh \in Frames
    BY FrameByte, FreshFrame DEF Plains
  <2>2. Append(p.kept, b) \in Seq(Byte) /\ <<>> \in Seq(Byte)
    BY AppendProperties, EmptySeq DEF Plains
  <2>3. PlainByte(p, b) = IF t = Fresh \/ (t.kind = "cmd" /\ t.out = <<>>)
                          THEN [frame |-> Fresh, kept |-> <<>>]
                          ELSE [frame |-> t, kept |-> Append(p.kept, b)]
    BY DEF PlainByte
  <2> HIDE DEF t
  <2>4. /\ [frame |-> Fresh, kept |-> <<>>] \in Plains
        /\ [frame |-> t, kept |-> Append(p.kept, b)] \in Plains
    BY <2>1, <2>2 DEF Plains
  <2> QED
    BY <2>3, <2>4
<1>3. /\ Plaining \in [Plains -> [Byte -> Plains]]
      /\ \A p \in Plains, b \in Byte : Plaining[p][b] = PlainByte(p, b)
  BY <1>2 DEF Plaining
<1>4. \A r : U(r) <=> Unrolls(Plains, Plaining, r)
  <2> TAKE r
  <2>1. \A more \in Seq(Byte), s \in Plains : more # <<>> =>
          PlainByte(s, Head(more)) = Plaining[s][Head(more)]
    BY <1>3, HeadTailProperties
  <2>2. \A more \in Seq(Byte) :
          [s \in Plains |-> IF more = <<>> THEN s ELSE r[Tail(more)][PlainByte(s, Head(more))]] =
          [s \in Plains |-> IF more = <<>> THEN s ELSE r[Tail(more)][Plaining[s][Head(more)]]]
    BY <2>1
  <2>3. [more \in Seq(Byte) |->
          [s \in Plains |-> IF more = <<>> THEN s ELSE r[Tail(more)][PlainByte(s, Head(more))]]] =
        [more \in Seq(Byte) |->
          [s \in Plains |-> IF more = <<>> THEN s ELSE r[Tail(more)][Plaining[s][Head(more)]]]]
    BY <2>2
  <2> QED
    BY <2>3 DEF Unrolls
<1> HIDE DEF U
<1>5. U(f)
  <2>1. \E r : U(r)
    BY <1>3, <1>4, Reading
  <2> QED
    BY <2>1
<1> HIDE DEF f
<1>6. f = Skimmed
  BY <1>3, <1>4, <1>5, Reading DEF Skimmed
<1>7. Reads(Plains, Plaining, Skimmed) /\ Composes(Plains, Plaining, Skimmed)
  BY <1>3, Reading DEF Skimmed
<1>8. \A s \in Frames : Unkept(s) \in Plains
  BY EmptySeq DEF Unkept, Plains
<1> QED
  BY <1>1, <1>3, <1>6, <1>7, <1>8

\* A frame with data in it, or a whole record: no command ahead of the data.
Stuck(s) == s.out # <<>> \/ s.kind = "record"

\* Where a byte leads: from what is no command to what is none, else to the
\* frame that TelnetByte makes, a whole command made fresh.
LEMMA PlainStep ==
  ASSUME NEW p \in Plains, NEW b \in Byte, p.frame.kind = "cmd" => Stuck(p.frame)
  PROVE  LET q == PlainByte(p, b)
             t == TelnetByte(TRUE, p.frame, b)
         IN /\ q \in Plains
            /\ q.frame.kind = "cmd" => Stuck(q.frame)
            /\ Stuck(p.frame) => Stuck(q.frame)
            /\ q.frame = IF t.kind = "cmd" /\ t.out = <<>> THEN Fresh ELSE t
            /\ q.kept = <<>> <=> q.frame = Fresh
            /\ q.frame # Fresh => q.kept = Append(p.kept, b)
<1> DEFINE q == PlainByte(p, b)
           s == p.frame
           t == TelnetByte(TRUE, s, b)
<1>1. s \in Frames /\ t \in Frames /\ Fresh \in Frames
  BY FrameByte, FreshFrame DEF Plains
<1>2. q = IF t = Fresh \/ (t.kind = "cmd" /\ t.out = <<>>)
          THEN [frame |-> Fresh, kept |-> <<>>]
          ELSE [frame |-> t, kept |-> Append(p.kept, b)]
  BY DEF PlainByte
<1>3. q \in Plains
  BY PlainIs
<1>4. Append(p.kept, b) # <<>>
  BY AppendProperties DEF Plains
<1>5. Fresh.kind = "more" /\ Fresh.out = <<>>
  BY DEF Fresh
<1>6. Stuck(s) => Stuck(t) /\ (t.kind = "cmd" => t.out # <<>>)
  <2>1. CASE s.kind # "more"
    BY <1>1, <2>1, FrameByteKeeps DEF Stuck
  <2>2. CASE s.kind = "more" /\ s.out # <<>>
    <3>1. s.out \in Seq(Byte) /\ <<b, b>> \in Seq(Byte)
      BY <1>1 DEF Frames
    <3>2. \/ t.out = s.out \/ t.out = Append(s.out, b) \/ t.out = s.out \o <<b, b>>
      <4>1. \/ t = [s EXCEPT !.out = Append(s.out, b)]
            \/ t = [s EXCEPT !.pend = <<b>>]
            \/ t = [s EXCEPT !.kind = "record", !.pend = <<>>]
            \/ t = [s EXCEPT !.out = s.out \o <<b, b>>, !.pend = <<>>]
            \/ t = [s EXCEPT !.pend = Append(s.pend, b)]
            \/ t = [s EXCEPT !.pend = <<>>, !.kind = "cmd"]
            \/ t = [s EXCEPT !.pend = <<>>]
        BY <2>2 DEF TelnetByte
      <4> HIDE DEF t, s
      <4> QED
        BY <1>1, <4>1 DEF Frames
    <3>3. Append(s.out, b) # <<>>
      BY <3>1, AppendProperties
    <3>4. s.out \o <<b, b>> # <<>>
      BY <2>2, <3>1, ConcatEqualIffEmpty
    <3> QED
      BY <2>2, <3>2, <3>3, <3>4 DEF Stuck
  <2> QED
    BY <2>1, <2>2 DEF Stuck
<1> SUFFICES /\ q \in Plains
             /\ q.frame.kind = "cmd" => Stuck(q.frame)
             /\ Stuck(s) => Stuck(q.frame)
             /\ q.frame = IF t.kind = "cmd" /\ t.out = <<>> THEN Fresh ELSE t
             /\ q.kept = <<>> <=> q.frame = Fresh
             /\ q.frame # Fresh => q.kept = Append(p.kept, b)
  OBVIOUS
<1>7. /\ s.kind = "cmd" => Stuck(s)
      /\ t.kind = "cmd" /\ t.out # <<>> => Stuck(t)
      /\ ~Stuck(Fresh)
  BY <1>5 DEF Stuck
<1> HIDE DEF t, q, s
<1>8. CASE t = Fresh \/ (t.kind = "cmd" /\ t.out = <<>>)
  <2>1. q.frame = Fresh /\ q.kept = <<>>
    BY <1>2, <1>8
  <2>2. ~Stuck(s)
    BY <1>5, <1>6, <1>7, <1>8
  <2> QED
    BY <1>3, <1>5, <1>8, <2>1, <2>2
<1>9. CASE ~(t = Fresh \/ (t.kind = "cmd" /\ t.out = <<>>))
  <2>1. q.frame = t /\ q.kept = Append(p.kept, b)
    BY <1>2, <1>9
  <2> QED
    BY <1>3, <1>4, <1>6, <1>7, <1>9, <2>1
<1> QED
  BY <1>8, <1>9

\* Bytes the negotiation would take for commands only say no record to
\* _next_unit, and leave it where a frame begins.
PlainSaid(x) ==
  LET p == Skimmed[x][Unkept(Fresh)]
  IN /\ p \in Plains
     /\ p.frame.kind = "cmd" => Stuck(p.frame)
     /\ p.kept = <<>> <=> p.frame = Fresh
     /\ \A got \in Records : p.frame.kind = "more" =>
          Units(TRUE)[x][From(got)] = [frame |-> p.frame, got |-> got]

\* Of the bytes that hold no record, what Plain keeps is what the units still hold.
LEMMA PlainUnits ==
  ASSUME NEW x \in Seq(Byte)
  PROVE  PlainSaid(x)
<1> DEFINE T == {a \in Seq(Byte) : PlainSaid(a)}
<1>1. Unkept(Fresh) \in Plains /\ Unkept(Fresh).frame = Fresh /\ Unkept(Fresh).kept = <<>>
  BY PlainIs, FreshFrame DEF Unkept
<1>2. /\ \A p \in Plains : Skimmed[<<>>][p] = p
      /\ \A a \in Seq(Byte), b \in Byte, p \in Plains :
           Skimmed[Append(a, b)][p] = Plaining[Skimmed[a][p]][b]
      /\ \A p \in Plains, b \in Byte : Plaining[p][b] = PlainByte(p, b)
  BY PlainIs DEF Reads, Composes
<1>3. /\ \A u \in Readings : Units(TRUE)[<<>>][u] = u
      /\ \A a \in Seq(Byte), b \in Byte, u \in Readings :
           Units(TRUE)[Append(a, b)][u] = Uniting(TRUE)[Units(TRUE)[a][u]][b]
      /\ \A u \in Readings, b \in Byte : Uniting(TRUE)[u][b] = UnitByte(TRUE, u, b)
  BY UnitsRead DEF Reads, Composes
<1>4. <<>> \in T
  <2>1. Skimmed[<<>>][Unkept(Fresh)] = Unkept(Fresh)
    BY <1>1, <1>2
  <2>2. \A got \in Records : Units(TRUE)[<<>>][From(got)] = [frame |-> Fresh, got |-> got]
    BY <1>3, FreshFrame DEF From
  <2>3. Fresh.kind = "more"
    BY DEF Fresh
  <2> QED
    BY <1>1, <2>1, <2>2, <2>3, EmptySeq DEF PlainSaid
<1>5. ASSUME NEW a \in Seq(Byte), NEW b \in Byte, a \in T
      PROVE  Append(a, b) \in T
  <2> DEFINE p == Skimmed[a][Unkept(Fresh)]
             s == p.frame
             t == TelnetByte(TRUE, s, b)
             q == PlainByte(p, b)
  <2>1. /\ p \in Plains /\ s \in Frames
        /\ s.kind = "cmd" => Stuck(s)
        /\ \A got \in Records : s.kind = "more" =>
             Units(TRUE)[a][From(got)] = [frame |-> s, got |-> got]
    BY <1>5 DEF PlainSaid, Plains
  <2>2. /\ q \in Plains
        /\ q.frame.kind = "cmd" => Stuck(q.frame)
        /\ q.frame = IF t.kind = "cmd" /\ t.out = <<>> THEN Fresh ELSE t
        /\ q.kept = <<>> <=> q.frame = Fresh
    <3> HIDE DEF p
    <3> QED
      BY <2>1, PlainStep
  <2>3. Skimmed[Append(a, b)][Unkept(Fresh)] = q
    BY <1>1, <1>2, <2>1
  <2>4. s.kind # "more" => t.kind = s.kind /\ t.out = s.out
    <3> HIDE DEF p, s
    <3> QED
      BY <2>1, FrameByteKeeps
  <2>5. t \in Frames
    <3> HIDE DEF s
    <3> QED
      BY <2>1, FrameByte
  <2> HIDE DEF t
  <2>6. q.frame.kind = "more" =>
          /\ s.kind = "more"
          /\ q.frame = IF t.kind = "more" THEN t ELSE Fresh
          /\ t.kind # "record"
    <3> HIDE DEF q, s
    <3>1. Fresh.kind = "more"
      BY DEF Fresh
    <3>2. t.kind \in {"more", "record", "cmd"}
      BY <2>5 DEF Frames
    <3> QED
      BY <2>1, <2>2, <2>4, <3>1, <3>2 DEF Stuck
  <2>7. ASSUME NEW got \in Records, q.frame.kind = "more"
        PROVE  Units(TRUE)[Append(a, b)][From(got)] = [frame |-> q.frame, got |-> got]
    <3> DEFINE u == [frame |-> s, got |-> got]
    <3>1. Units(TRUE)[a][From(got)] = u
      BY <2>1, <2>6, <2>7
    <3>2. u \in Readings /\ From(got) \in Readings
      <4> HIDE DEF s
      <4> QED
        BY <2>1, FreshFrame DEF Readings
    <3>3. Units(TRUE)[Append(a, b)][From(got)] = UnitByte(TRUE, u, b)
      <4> HIDE DEF u
      <4> QED
        BY <1>3, <3>1, <3>2
    <3>4. UnitByte(TRUE, u, b) = [frame |-> IF t.kind = "more" THEN t ELSE Fresh,
                                  got |-> IF t.kind = "record" THEN Returned(TRUE, got, t.out) ELSE got]
      BY DEF UnitByte, t
    <3> HIDE DEF q, u
    <3> QED
      BY <2>6, <2>7, <3>3, <3>4
  <2> HIDE DEF q
  <2> QED
    BY <2>2, <2>3, <2>7, AppendProperties DEF PlainSaid
<1> HIDE DEF T
<1>6. \A a \in Seq(Byte), b \in Byte : a \in T => Append(a, b) \in T
  BY <1>5
<1>7. Seq(Byte) \subseteq T
  BY <1>4, <1>6, InductAppend
<1> QED
  BY <1>7 DEF T

\* What a terminal says between its records adds none.
NoiseSaid(c) ==
  /\ c.noise \in Seq(Byte)
  /\ \A got \in Records :
       /\ c.link = "basic" => Units(FALSE)[c.noise][From(got)] = From(got)
       /\ c.link = "tn3270e" => Units(TRUE)[c.noise][From(got)] = From(got)

\* The commands a client puts before its records are no record.
LEMMA NoiseAdds ==
  ASSUME NEW arrival \in Arrivals
  PROVE  NoiseSaid(arrival[2])
<1> DEFINE c == arrival[2]
<1>1. /\ c.noise \in Seq(Byte)
      /\ c.link = "basic" => Frame(FALSE, c.noise) = Fresh
      /\ c.link = "tn3270e" => Plain(c.noise) = <<>>
  BY TalkAssumption
<1> HIDE DEF c
<1>2. Fresh.kind = "more"
  BY DEF Fresh
<1>3. ASSUME NEW got \in Records, c.link = "basic"
      PROVE  Units(FALSE)[c.noise][From(got)] = From(got)
  <2>1. Framed(FALSE)[c.noise][Fresh] = Fresh
    BY <1>1, <1>3, FramedIs
  <2>2. UnitsSaid(FALSE, c.noise)
    BY <1>1, UnitsFrame
  <2>3. Units(FALSE)[c.noise][From(got)] = [frame |-> Fresh, got |-> got]
    BY <1>2, <2>1, <2>2 DEF UnitsSaid
  <2> QED
    BY <2>3 DEF From
<1>4. ASSUME NEW got \in Records, c.link = "tn3270e"
      PROVE  Units(TRUE)[c.noise][From(got)] = From(got)
  <2>1. Skimmed[c.noise][Unkept(Fresh)].kept = <<>>
    BY <1>1, <1>4, PlainIs
  <2>2. PlainSaid(c.noise)
    BY <1>1, PlainUnits
  <2>3. Units(TRUE)[c.noise][From(got)] = [frame |-> Fresh, got |-> got]
    BY <1>2, <2>1, <2>2 DEF PlainSaid
  <2> QED
    BY <2>3 DEF From
<1>5. NoiseSaid(c)
  BY <1>1, <1>3, <1>4 DEF NoiseSaid
<1> QED
  BY <1>5 DEF c

-----------------------------------------------------------------------------
(* The negotiation's scan.                                                 *)

Scans == [mark : Marks, kept : Seq(Byte)]
Scanning == [s \in Scans |-> [b \in Byte |-> NegotiationByte(s, b)]]
Unscanned == [mark |-> "text", kept |-> <<>>]

\* The scan takes a byte at a time.
LEMMA ScannedIs ==
  /\ Scanned(<<>>) = Unscanned
  /\ \A x \in Seq(Byte) : Scanned(x) \in Scans
  /\ \A x \in Seq(Byte), b \in Byte : Scanned(Append(x, b)) = NegotiationByte(Scanned(x), b)
<1> DEFINE U(r) == r = [more \in Seq(Byte) |->
                          [s \in Scans |-> IF more = <<>> THEN s
                                           ELSE r[Tail(more)][NegotiationByte(s, Head(more))]]]
           f == CHOOSE r : U(r)
           read == Reader(Scans, Scanning)
<1>1. \A bytes : Scanned(bytes) = f[bytes][Unscanned]
  BY DEF Scanned, Read, Scans, Unscanned
<1>2. \A s \in Scans, b \in Byte : NegotiationByte(s, b) \in Scans
  <2> TAKE s \in Scans, b \in Byte
  <2> DEFINE m == MarkByte(s.mark, b)
  <2>1. m \in Marks
    BY DEF Scans, Marks, MarkByte
  <2>2. Append(s.kept, b) \in Seq(Byte) /\ <<>> \in Seq(Byte)
    BY AppendProperties, EmptySeq DEF Scans
  <2>3. NegotiationByte(s, b) = [mark |-> m, kept |-> IF m = "text" THEN <<>> ELSE Append(s.kept, b)]
    BY DEF NegotiationByte
  <2> HIDE DEF m
  <2> QED
    BY <2>1, <2>2, <2>3 DEF Scans
<1>3. /\ Scanning \in [Scans -> [Byte -> Scans]]
      /\ \A s \in Scans, b \in Byte : Scanning[s][b] = NegotiationByte(s, b)
  BY <1>2 DEF Scanning
<1>4. \A r : U(r) <=> Unrolls(Scans, Scanning, r)
  <2> TAKE r
  <2>1. \A more \in Seq(Byte), s \in Scans : more # <<>> =>
          NegotiationByte(s, Head(more)) = Scanning[s][Head(more)]
    BY <1>3, HeadTailProperties
  <2>2. \A more \in Seq(Byte) :
          [s \in Scans |-> IF more = <<>> THEN s ELSE r[Tail(more)][NegotiationByte(s, Head(more))]] =
          [s \in Scans |-> IF more = <<>> THEN s ELSE r[Tail(more)][Scanning[s][Head(more)]]]
    BY <2>1
  <2>3. [more \in Seq(Byte) |->
          [s \in Scans |-> IF more = <<>> THEN s ELSE r[Tail(more)][NegotiationByte(s, Head(more))]]] =
        [more \in Seq(Byte) |->
          [s \in Scans |-> IF more = <<>> THEN s ELSE r[Tail(more)][Scanning[s][Head(more)]]]]
    BY <2>2
  <2> QED
    BY <2>3 DEF Unrolls
<1> HIDE DEF U
<1>5. U(f)
  <2>1. \E r : U(r)
    BY <1>3, <1>4, Reading
  <2> QED
    BY <2>1
<1> HIDE DEF f
<1>6. f = read
  BY <1>3, <1>4, <1>5, Reading
<1>7. Reads(Scans, Scanning, read) /\ Composes(Scans, Scanning, read)
  BY <1>3, Reading
<1> HIDE DEF read
<1>8. Unscanned \in Scans
  BY EmptySeq DEF Unscanned, Scans, Marks
<1>9. read[<<>>][Unscanned] = Unscanned /\ \A x \in Seq(Byte) : read[x][Unscanned] \in Scans
  BY <1>7, <1>8 DEF Reads
<1>10. \A x \in Seq(Byte), b \in Byte :
         read[Append(x, b)][Unscanned] = Scanning[read[x][Unscanned]][b]
  BY <1>7, <1>8 DEF Composes
<1> QED
  BY <1>1, <1>3, <1>6, <1>9, <1>10

-----------------------------------------------------------------------------
(* A connection whose records are read.                                    *)

\* The reader holds what reads like some bytes from where a unit began, and
\* from there on what is under way makes of the records taken those sent.
Followed(e, r, u, t, s) ==
  \E raw \in Seq(Byte) : /\ Framed(e)[raw][Fresh] = Framed(e)[r][Fresh]
                         /\ Units(e)[raw \o u][From(t)] = From(s)

\* The reader has received a: it goes on with a unit that is not complete, or
\* with what is left behind one.
Follows3270(e, r, a, b, t, s) ==
  LET f == Framed(e)[r \o a][Fresh]
  IN /\ f.kind = "more" => \A k \in Seq(Byte) :
          Framed(e)[k][Fresh] = f => Followed(e, k, b, t, s)
     /\ f.kind # "more" =>
          Followed(e, f.rest, b, IF f.kind = "record" THEN Returned(e, t, f.out) ELSE t, s)

\* More bytes of the stream arrive: the frame they end in holds the next record.
LEMMA Onward ==
  ASSUME NEW e \in BOOLEAN, NEW r \in Seq(Byte), NEW a \in Seq(Byte), NEW b \in Seq(Byte),
         NEW t \in Records, NEW s \in Records, Followed(e, r, a \o b, t, s)
  PROVE  Follows3270(e, r, a, b, t, s)
<1> DEFINE f == Framed(e)[r \o a][Fresh]
<1>1. PICK raw \in Seq(Byte) : /\ Framed(e)[raw][Fresh] = Framed(e)[r][Fresh]
                               /\ Units(e)[raw \o (a \o b)][From(t)] = From(s)
  BY DEF Followed
<1>2. /\ raw \o a \in Seq(Byte) /\ r \o a \in Seq(Byte)
      /\ raw \o (a \o b) = (raw \o a) \o b
  <2>1. raw \o (a \o b) = (raw \o a) \o b
    BY <1>1, Associative, Zenon
  <2> QED
    BY <1>1, <2>1, ConcatProperties
<1>3. Framed(e)[raw \o a][Fresh] = f
  <2>1. /\ Framed(e)[raw \o a][Fresh] = Framed(e)[a][Framed(e)[raw][Fresh]]
        /\ Framed(e)[r \o a][Fresh] = Framed(e)[a][Framed(e)[r][Fresh]]
    BY FramesRead, FreshFrame
  <2> QED
    BY <1>1, <2>1
<1>4. UnitsSaid(e, raw \o a)
  BY <1>2, UnitsFrame
<1>5. From(t) \in Readings
  BY FreshFrame
<1>6. /\ \A x \in Seq(Byte), y \in Seq(Byte), u \in Readings :
           Units(e)[x \o y][u] = Units(e)[y][Units(e)[x][u]]
  BY UnitsRead DEF Composes
<1> HIDE DEF f
<1>7. ASSUME f.kind = "more", NEW k \in Seq(Byte), Framed(e)[k][Fresh] = f
      PROVE  Followed(e, k, b, t, s)
  BY <1>1, <1>2, <1>3, <1>7 DEF Followed
<1>8. ASSUME f.kind # "more"
      PROVE  Followed(e, f.rest, b, IF f.kind = "record" THEN Returned(e, t, f.out) ELSE t, s)
  <2> DEFINE v == IF f.kind = "record" THEN Returned(e, t, f.out) ELSE t
  <2>1. f \in Frames /\ Units(e)[raw \o a][From(t)] = Units(e)[f.rest][From(v)]
    BY <1>3, <1>4, <1>8 DEF UnitsSaid
  <2>2. f.rest \in Seq(Byte) /\ v \in Records
    <3>1. f.rest \in Seq(Byte) /\ f.out \in Seq(Byte)
      BY <2>1 DEF Frames
    <3>2. Returned(e, t, f.out) \in Records
      BY <3>1, ReturnedRecords
    <3> QED
      BY <3>1, <3>2
  <2> HIDE DEF v
  <2>3. From(v) \in Readings
    BY <2>2, FreshFrame
  <2>4. Units(e)[(raw \o a) \o b][From(t)] = Units(e)[b][Units(e)[raw \o a][From(t)]]
    BY <1>2, <1>5, <1>6, Zenon
  <2>5. Units(e)[f.rest \o b][From(v)] = Units(e)[b][Units(e)[f.rest][From(v)]]
    BY <1>6, <2>2, <2>3, Zenon
  <2>6. Units(e)[f.rest \o b][From(v)] = From(s)
    BY <1>1, <1>2, <2>1, <2>4, <2>5
  <2>7. Followed(e, f.rest, b, v, s)
    BY <2>2, <2>6 DEF Followed
  <2> QED
    BY <2>7 DEF v
<1> QED
  BY <1>7, <1>8 DEF Follows3270, f

\* What a reader has taken is the beginning of what was sent.
LEMMA FollowedPrefix ==
  ASSUME NEW e \in BOOLEAN, NEW r \in Seq(Byte), NEW u \in Seq(Byte),
         NEW t \in Records, NEW s \in Records, Followed(e, r, u, t, s)
  PROVE  IsPrefix(t, s)
<1>1. PICK raw \in Seq(Byte) : Units(e)[raw \o u][From(t)] = From(s)
  BY DEF Followed
<1>2. raw \o u \in Seq(Byte) /\ From(t) \in Readings
  BY <1>1, ConcatProperties, FreshFrame
<1>3. IsPrefix(From(t).got, Units(e)[raw \o u][From(t)].got)
  BY <1>2, GotGrows
<1>4. From(t).got = t /\ From(s).got = s
  BY DEF From
<1> QED
  BY <1>1, <1>3, <1>4

\* A record more under way.
LEMMA FollowedSent ==
  ASSUME NEW e \in BOOLEAN, NEW r \in Seq(Byte), NEW u \in Seq(Byte),
         NEW t \in Records, NEW s \in Records, Followed(e, r, u, t, s),
         NEW noise \in Seq(Byte), NEW record \in Seq(Byte),
         Units(e)[noise][From(s)] = From(s)
  PROVE  Followed(e, r, u \o (noise \o Header(e) \o Escaped(record) \o <<"IAC", "EOR">>), t,
                  Append(s, IF e THEN Escaped(record) ELSE record))
<1> DEFINE wire == noise \o Header(e) \o Escaped(record) \o <<"IAC", "EOR">>
           more == Append(s, IF e THEN Escaped(record) ELSE record)
<1>1. PICK raw \in Seq(Byte) : /\ Framed(e)[raw][Fresh] = Framed(e)[r][Fresh]
                               /\ Units(e)[raw \o u][From(t)] = From(s)
  BY DEF Followed
<1>2. wire \in Seq(Byte) /\ Units(e)[wire][From(s)] = From(more)
  BY RecordSent
<1> HIDE DEF wire, more
<1>3. raw \o u \in Seq(Byte) /\ From(t) \in Readings
  BY <1>1, ConcatProperties, FreshFrame
<1>4. (raw \o u) \o wire = raw \o (u \o wire)
  BY <1>1, <1>2, Associative, Zenon
<1>5. \A x \in Seq(Byte), y \in Seq(Byte), v \in Readings :
        Units(e)[x \o y][v] = Units(e)[y][Units(e)[x][v]]
  BY UnitsRead DEF Composes
<1>6. Units(e)[(raw \o u) \o wire][From(t)] = Units(e)[wire][Units(e)[raw \o u][From(t)]]
  BY <1>2, <1>3, <1>5, Zenon
<1>7. Units(e)[raw \o (u \o wire)][From(t)] = From(more)
  BY <1>1, <1>2, <1>4, <1>6
<1>8. Followed(e, r, u \o wire, t, more)
  BY <1>1, <1>7 DEF Followed
<1> QED
  BY <1>8 DEF wire, more

\* A reader that holds nothing, with nothing under way, has all there is.
LEMMA FollowedNothing ==
  ASSUME NEW e \in BOOLEAN, NEW t \in Records
  PROVE  Followed(e, <<>>, <<>>, t, t)
<1>1. <<>> \in Seq(Byte) /\ <<>> \o <<>> = <<>>
  BY EmptySeq, ConcatEmptySeq
<1>2. Units(e)[<<>>][From(t)] = From(t)
  BY FreshFrame, UnitsRead DEF Reads
<1> QED
  BY <1>1, <1>2 DEF Followed

\* A recv cuts what is under way in two.
LEMMA CutsJoin ==
  ASSUME NEW s \in Seq(Byte), NEW c \in Cuts(s)
  PROVE  c[1] \in Seq(Byte) /\ c[2] \in Seq(Byte) /\ c[1] \o c[2] = s
<1>1. PICK k \in 1 .. Len(s) : c = <<SubSeq(s, 1, k), SubSeq(s, k + 1, Len(s))>>
  BY DEF Cuts
<1>2. Len(s) \in Nat /\ \A i \in 1 .. Len(s) : s[i] \in Byte
  BY LenProperties, ElementOfSeq
<1>3. SubSeq(s, 1, k) \in Seq(Byte) /\ SubSeq(s, k + 1, Len(s)) \in Seq(Byte)
  <2>1. \A i \in 1 .. k : s[i] \in Byte
    BY <1>2
  <2>2. \A i \in k + 1 .. Len(s) : s[i] \in Byte
    BY <1>2
  <2> QED
    BY <1>2, <2>1, <2>2, SubSeqProperties
<1>4. SubSeq(s, 1, k) \o SubSeq(s, k + 1, Len(s)) = SubSeq(s, 1, Len(s))
  <2>1. 1 \in 1 .. Len(s) + 1 /\ k \in 1 - 1 .. Len(s) /\ Len(s) \in k .. Len(s)
    BY <1>2
  <2> QED
    BY <2>1, ConcatAdjacentSubSeq
<1>5. SubSeq(s, 1, Len(s)) = s
  BY SubSeqFull
<1> QED
  BY <1>1, <1>3, <1>4, <1>5

\* The negotiation ends between two bytes of what is under way, or before it.
LEMMA HandedOver ==
  ASSUME NEW s \in Seq(Byte), NEW c \in Cuts(s) \cup {<<<<>>, s>>}
  PROVE  c[1] \in Seq(Byte) /\ c[2] \in Seq(Byte) /\ c[1] \o c[2] = s
<1>1. CASE c \in Cuts(s)
  BY <1>1, CutsJoin
<1>2. CASE c = <<<<>>, s>>
  BY <1>2, EmptySeq, ConcatEmptySeq
<1> QED
  BY <1>1, <1>2

\* What a reader makes of a record the client sent: on TN3270E its FFs stay
\* doubled.
ReadAs(e, record) == IF e THEN Escaped(record) ELSE record
AllRead(e, s) == [n \in 1 .. Len(s) |-> ReadAs(e, s[n])]

\* The records as they are read, one by one.
LEMMA AllReadIs ==
  ASSUME NEW e \in BOOLEAN, NEW s \in Records
  PROVE  /\ AllRead(e, s) \in Records /\ Len(AllRead(e, s)) = Len(s)
         /\ \A n \in 1 .. Len(s) : AllRead(e, s)[n] = ReadAs(e, s[n])
<1>1. Len(s) \in Nat /\ \A n \in 1 .. Len(s) : s[n] \in Seq(Byte)
  BY LenProperties, ElementOfSeq DEF Records
<1>2. \A n \in 1 .. Len(s) : ReadAs(e, s[n]) \in Seq(Byte)
  BY <1>1, EscapedIs DEF ReadAs
<1>3. AllRead(e, s) \in [1 .. Len(s) -> Seq(Byte)]
  BY <1>2 DEF AllRead
<1>4. AllRead(e, s) \in Seq(Seq(Byte)) /\ Len(AllRead(e, s)) = Len(s)
  <2> DEFINE t == AllRead(e, s)
  <2>1. DOMAIN t = 1 .. Len(s)
    BY DEF AllRead
  <2> HIDE DEF t
  <2>2. t \in Seq(Seq(Byte))
    BY <1>1, <1>3, SeqDef DEF t
  <2>3. Len(t) \in Nat /\ 1 .. Len(t) = 1 .. Len(s)
    BY <2>1, <2>2, LenProperties
  <2>4. Len(t) = Len(s)
    BY <1>1, <2>3
  <2> QED
    BY <2>2, <2>4 DEF t
<1> QED
  BY <1>4 DEF AllRead, Records

\* A record more is read behind the others.
LEMMA AllReadGrows ==
  ASSUME NEW e \in BOOLEAN, NEW s \in Records, NEW record \in Seq(Byte)
  PROVE  AllRead(e, Append(s, record)) = Append(AllRead(e, s), ReadAs(e, record))
<1> DEFINE more == Append(s, record)
           t == AllRead(e, s)
           u == AllRead(e, more)
           v == Append(t, ReadAs(e, record))
<1>1. /\ more \in Records /\ Len(s) \in Nat /\ Len(more) = Len(s) + 1
      /\ more[Len(s) + 1] = record /\ \A n \in 1 .. Len(s) : more[n] = s[n]
  BY AppendProperties, LenProperties DEF Records
<1>2. ReadAs(e, record) \in Seq(Byte)
  BY EscapedIs DEF ReadAs
<1> HIDE DEF more
<1>3. /\ u \in Records /\ Len(u) = Len(s) + 1
      /\ \A n \in 1 .. Len(s) + 1 : u[n] = ReadAs(e, more[n])
  BY <1>1, AllReadIs
<1>4. /\ t \in Records /\ Len(t) = Len(s)
      /\ \A n \in 1 .. Len(s) : t[n] = ReadAs(e, s[n])
  BY AllReadIs
<1> HIDE DEF t, u
<1>5. /\ v \in Seq(Seq(Byte)) /\ Len(v) = Len(s) + 1
      /\ v[Len(s) + 1] = ReadAs(e, record) /\ \A n \in 1 .. Len(s) : v[n] = t[n]
  BY <1>2, <1>4, AppendProperties DEF Records
<1> HIDE DEF v
<1>6. \A n \in 1 .. Len(s) + 1 : u[n] = v[n]
  <2> TAKE n \in 1 .. Len(s) + 1
  <2>1. CASE n = Len(s) + 1
    BY <1>1, <1>3, <1>5, <2>1
  <2>2. CASE n \in 1 .. Len(s)
    BY <1>1, <1>3, <1>4, <1>5, <2>2
  <2> QED
    BY <1>1, <2>1, <2>2
<1>7. u = v
  BY <1>3, <1>5, <1>6, SeqEqual DEF Records
<1> QED
  BY <1>7 DEF u, v, t, more

Basic == client.link = "basic"
Extended == client.link = "tn3270e"
Beginning == Early \cup {"negotiate"}
Reading3270 == {"query", "replymode", "show", "read"}

\* What the reader of this connection makes of the records sent.
Expected == AllRead(Extended, sent)

StreamTyped ==
  /\ taken \in Records /\ sent \in Records
  /\ rx \in Seq(Byte) /\ up \in Seq(Byte)

\* No record is sent or read before the session; only a basic terminal is
\* queried, and the START-TLS offer is answered before the session or never.
QuietInv ==
  /\ at \in Beginning => taken = <<>> /\ sent = <<>> /\ rx = <<>> /\ "QUERY" \notin ToSet(down)
  /\ "QUERY" \in ToSet(down) => Basic
  /\ at \in {"query", "replymode"} => Basic
  /\ open /\ at \in Reading3270 => "DO STARTTLS" \notin ToSet(down)

\* As long as no reader dropped a byte, what it holds and what is under way
\* are the records that have been sent and not been taken, as it reads them.
RecordInv ==
  ~torn =>
    /\ IsPrefix(taken, Expected)
    /\ at \in Reading3270 /\ (Basic \/ Extended) => Followed(Extended, rx, up, taken, Expected)

RecInv == StreamTyped /\ QuietInv /\ RecordInv

\* What a client says is made of bytes.
ClientSays(c) ==
  /\ c.before \in Seq(Byte) /\ NoiseSaid(c)
  /\ \A n \in 1 .. Len(c.lines) : c.lines[n].bytes \in Seq(Byte)

\* What a client says is bytes, and its noise is no record.
LEMMA ClientBytes ==
  ASSUME IInv
  PROVE  ClientSays(client)
<1> DEFINE arrival == <<secure, client>>
<1>1. arrival \in Arrivals /\ arrival[2] = client
  BY DEF IInv, TypeInv, TypeOK
<1>2. NoiseSaid(client)
  <2>1. NoiseSaid(arrival[2])
    BY <1>1, NoiseAdds
  <2> QED
    BY <1>1, <2>1
<1>3. \A s \in Seq(ClearBytes) : s \in Seq(Byte)
  <2>1. \A s \in Seq(ClearBytes) : \A i \in 1 .. Len(s) : s[i] \in Byte
    BY ElementOfSeq DEF ClearBytes
  <2> QED
    BY <2>1 DEF ClearBytes
<1> QED
  BY <1>2, <1>3, ClientTyped DEF ClientSays

\* What goes over the wire for a record.
Wire(c, e, record) == c.noise \o Header(e) \o Escaped(record) \o <<"IAC", "EOR">>

\* A record on the wire is bytes.
LEMMA WireBytes ==
  ASSUME IInv, NEW e \in BOOLEAN, NEW record \in Seq(Byte)
  PROVE  Wire(client, e, record) \in Seq(Byte) /\ Escaped(record) \in Seq(Byte)
<1>1. client.noise \in Seq(Byte)
  BY ClientBytes DEF ClientSays, NoiseSaid
<1>2. Escaped(record) \in Seq(Byte)
  BY EscapedIs
<1>3. Header(e) \in Seq(Byte) /\ <<"IAC", "EOR">> \in Seq(Byte)
  BY ByteAssumption DEF Header
<1>4. client.noise \o Header(e) \in Seq(Byte)
  BY <1>1, <1>3, ConcatProperties
<1>5. client.noise \o Header(e) \o Escaped(record) \in Seq(Byte)
  BY <1>2, <1>4, ConcatProperties
<1>6. client.noise \o Header(e) \o Escaped(record) \o <<"IAC", "EOR">> \in Seq(Byte)
  BY <1>3, <1>5, ConcatProperties
<1> QED
  BY <1>2, <1>6 DEF Wire

\* What a key sends.
LEMMA Pressed ==
  ASSUME IInv, Press
  PROVE  \E record \in Seq(Byte) :
           Say(Wire(client, Extended, record)) /\ sent' = Append(sent, record)
<1>1. keys + 1 \in DOMAIN Keyed
  <2>1. keys \in Nat /\ keys < Len(Keyed)
    BY DEF Press, IInv, TypeInv, TypeOK
  <2>2. DOMAIN Keyed = 1 .. Len(Keyed) /\ Len(Keyed) \in Nat
    BY KeyedAssumption, LenProperties
  <2> QED
    BY <2>1, <2>2
<1>2. Keyed[keys + 1] \in Seq(Byte)
  BY <1>1, KeyedAssumption, ElementOfSeq, LenProperties
<1>3. /\ Say(Wire(client, Extended, Keyed[keys + 1]))
      /\ sent' = Append(sent, Keyed[keys + 1])
  BY DEF Press, Reply, Wire, Header, Extended
<1> QED
  BY <1>2, <1>3

\* What the Query has a terminal send.
LEMMA Replied ==
  ASSUME IInv, Receive, Head(down) = "QUERY"
  PROVE  \/ UNCHANGED <<up, sent>>
         \/ /\ Say(Wire(client, FALSE, QueryReply)) /\ QueryReply \in Seq(Byte)
            /\ sent' = Append(sent, QueryReply)
<1>1. IF client.fields # <<>> THEN Reply(<<>>, QueryReply) /\ sent' = Append(sent, QueryReply)
      ELSE UNCHANGED <<up, sent>>
  BY DEF Receive
<1>2. QueryReply \in Seq(Byte)
  BY ByteAssumption DEF QueryReply
<1> HIDE DEF QueryReply
<1> QED
  BY <1>1, <1>2 DEF Reply, Wire, Header

\* What a client says otherwise.
LEMMA SaysBytes ==
  ASSUME IInv, \/ Receive /\ Head(down) # "QUERY"
               \/ Connects \/ TypeLine
  PROVE  (up' = up \/ \E bytes \in Seq(Byte) : Say(bytes)) /\ sent' = sent
<1>1. /\ Hello \in Seq(Byte) /\ <<"CR", "LF">> \in Seq(Byte)
      /\ <<"IAC", "WILL", "STARTTLS">> \o Follows \in Seq(Byte)
      /\ <<"IAC", "WONT", "STARTTLS">> \in Seq(Byte) /\ <<>> \in Seq(Byte)
  <2>1. {"IAC", "WILL", "WONT", "STARTTLS", "SB", "FOLLOWS", "SE", "CR", "LF", "hello1", "hello2"}
        \subseteq Byte
    BY ByteAssumption DEF Verbs
  <2>2. <<"IAC", "WILL", "STARTTLS">> \in Seq(Byte) /\ Follows \in Seq(Byte)
    BY <2>1 DEF Follows
  <2>3. <<"IAC", "WILL", "STARTTLS">> \o Follows \in Seq(Byte)
    BY <2>2, ConcatProperties
  <2> QED
    BY <2>1, <2>3 DEF Hello
<1>2. client.before \in Seq(Byte) /\ \A n \in 1 .. Len(client.lines) : client.lines[n].bytes \in Seq(Byte)
  BY ClientBytes DEF ClientSays
<1>3. CASE Receive /\ Head(down) # "QUERY"
  <2> DEFINE answer == CASE client.tls = "will" -> <<"IAC", "WILL", "STARTTLS">> \o Follows
                         [] client.tls = "wont" -> <<"IAC", "WONT", "STARTTLS">>
                         [] OTHER -> <<>>
  <2>1. answer \in Seq(Byte)
    BY <1>1
  <2>2. sent' = sent /\ (up' = up \/ Say(client.before \o answer) \/ Say(Hello))
    BY <1>3 DEF Receive
  <2> HIDE DEF answer
  <2>3. client.before \o answer \in Seq(Byte)
    BY <1>2, <2>1, ConcatProperties
  <2> QED
    BY <1>1, <2>2, <2>3
<1>4. CASE Connects
  BY <1>1, <1>4 DEF Connects
<1>5. CASE TypeLine
  <2>1. keys + 1 \in 1 .. Len(client.lines)
    <3> DEFINE arrival == <<secure, client>>
    <3>1. arrival \in Arrivals /\ arrival[2] = client
      BY DEF IInv, TypeInv, TypeOK
    <3>2. Len(client.lines) \in Nat
      BY <3>1, ArrivalAssumption, LenProperties
    <3> QED
      BY <1>5, <3>2 DEF TypeLine, IInv, TypeInv, TypeOK
  <2>2. client.lines[keys + 1].bytes \o <<"CR", "LF">> \in Seq(Byte)
    BY <1>1, <1>2, <2>1, ConcatProperties
  <2>3. sent' = sent /\ Say(client.lines[keys + 1].bytes \o <<"CR", "LF">>)
    BY <1>5 DEF TypeLine
  <2> QED
    BY <2>2, <2>3
<1> QED
  BY <1>3, <1>4, <1>5

\* The first line end of what was received, and the bytes on either side.
LineEnd(s) == SelectInSeq(s, LAMBDA b : b = "LF")

\* The first line end splits what was received.
LEMMA FirstLine ==
  ASSUME NEW s \in Seq(Byte), Contains(s, "LF")
  PROVE  /\ LineEnd(s) \in 1 .. Len(s) /\ s[LineEnd(s)] = "LF"
         /\ \A i \in 1 .. LineEnd(s) - 1 : s[i] # "LF"
         /\ SubSeq(s, 1, LineEnd(s) - 1) \in Seq(Byte)
         /\ SubSeq(s, LineEnd(s) + 1, Len(s)) \in Seq(Byte)
<1> DEFINE I == {i \in 1 .. Len(s) : s[i] = "LF"}
           k == LineEnd(s)
<1>1. Len(s) \in Nat /\ \A i \in 1 .. Len(s) : s[i] \in Byte
  BY LenProperties, ElementOfSeq
<1>2. I # {} /\ I \subseteq Nat
  BY <1>1 DEF Contains
<1>3. \E i \in I : \A j \in I : i <= j
  BY <1>2, LeastNumber
<1>4. k = CHOOSE i \in I : \A j \in I : i =< j
  BY <1>2 DEF LineEnd, SelectInSeq, Min
<1>5. k \in I /\ \A j \in I : k <= j
  BY <1>3, <1>4
<1> HIDE DEF k
<1>6. k \in 1 .. Len(s) /\ s[k] = "LF"
  BY <1>5
<1>7. \A i \in 1 .. k - 1 : s[i] # "LF"
  BY <1>1, <1>5
<1>8. SubSeq(s, 1, k - 1) \in Seq(Byte)
  <2>1. \A i \in 1 .. k - 1 : s[i] \in Byte
    BY <1>1, <1>6
  <2> QED
    BY <1>1, <1>6, <2>1, SubSeqProperties
<1>9. SubSeq(s, k + 1, Len(s)) \in Seq(Byte)
  <2>1. \A i \in k + 1 .. Len(s) : s[i] \in Byte
    BY <1>1, <1>6
  <2> QED
    BY <1>1, <1>6, <2>1, SubSeqProperties
<1> QED
  BY <1>6, <1>7, <1>8, <1>9 DEF k

\* What the readers hold, return and leave is made of bytes.
LEMMA ReadRecordTyped ==
  ASSUME StreamTyped, ReadRecord
  PROVE  taken' \in Records /\ rx' \in Seq(Byte) /\ up' \in Seq(Byte)
<1>1. PICK c \in Cuts(up) :
        LET f == Frame(FALSE, rx \o c[1])
        IN /\ up' = c[2]
           /\ IF f.kind = "record"
                THEN /\ rx' = <<>>
                     /\ torn' = (torn \/ f.rest # <<>>)
                     /\ taken' = Append(taken, f.out)
                ELSE /\ rx' = rx \o c[1]
                     /\ UNCHANGED <<taken, torn>>
  BY DEF ReadRecord
<1>2. c[1] \in Seq(Byte) /\ c[2] \in Seq(Byte) /\ rx \o c[1] \in Seq(Byte)
  BY CutsJoin, ConcatProperties DEF StreamTyped
<1> DEFINE f == Frame(FALSE, rx \o c[1])
<1>3. f.out \in Seq(Byte)
  <2>1. f = Framed(FALSE)[rx \o c[1]][Fresh]
    BY FramedIs
  <2>2. f \in Frames
    BY <1>2, <2>1, FramesRead, FreshFrame
  <2> QED
    BY <2>2 DEF Frames
<1>4. Append(taken, f.out) \in Records
  BY <1>3, AppendProperties DEF StreamTyped, Records
<1> HIDE DEF f
<1>5. /\ up' = c[2]
      /\ \/ rx' = <<>> /\ taken' = Append(taken, f.out)
         \/ rx' = rx \o c[1] /\ taken' = taken
  BY <1>1 DEF f
<1> QED
  BY <1>2, <1>4, <1>5, EmptySeq DEF StreamTyped

\* What _next_unit keeps of an incomplete unit.
LEMMA KeptBytes ==
  ASSUME NEW f \in Frames
  PROVE  KeptIncomplete(f) \in Seq(Byte)
<1>1. f.out \in Seq(Byte) /\ f.pend \in Seq(Byte) /\ <<>> \in Seq(Byte)
  BY DEF Frames
<1> QED
  BY <1>1, ConcatProperties DEF KeptIncomplete

\* One turn of read_client_input: what it received and what it made of it.
UnitRead(a, b, f) ==
  /\ a \in Seq(Byte) /\ b \in Seq(Byte) /\ up = a \o b /\ rx \o a \in Seq(Byte)
  /\ f = Framed(TRUE)[rx \o a][Fresh] /\ f \in Frames
  /\ up' = b
  /\ rx' = IF f.kind = "more" THEN KeptIncomplete(f) ELSE f.rest
  /\ torn' = (torn \/ (f.kind = "more" /\ KeptIncomplete(f) # f.out \o f.pend)
                   \/ (f.kind = "cmd" /\ f.out # <<>>))
  /\ IF f.kind = "record" /\ f.out # <<>>
       THEN taken' = Append(taken, Tail(f.out)) /\ at' = "show"
       ELSE UNCHANGED <<taken, at>>

\* A read takes the first unit out of the bytes that arrive.
LEMMA ReadUnitIs ==
  ASSUME StreamTyped, ReadUnit
  PROVE  \E a, b, f : UnitRead(a, b, f)
<1>1. PICK c \in (IF Frame(TRUE, rx).kind = "more" THEN Cuts(up) ELSE {<<<<>>, up>>}) :
        LET f == Frame(TRUE, rx \o c[1])
        IN /\ up' = c[2]
           /\ rx' = IF f.kind = "more" THEN KeptIncomplete(f) ELSE f.rest
           /\ torn' = (torn \/ (f.kind = "more" /\ KeptIncomplete(f) # f.out \o f.pend)
                            \/ (f.kind = "cmd" /\ f.out # <<>>))
           /\ IF f.kind = "record" /\ f.out # <<>>
                THEN taken' = Append(taken, Tail(f.out)) /\ at' = "show"
                ELSE UNCHANGED <<taken, at>>
  BY DEF ReadUnit
<1>2. c[1] \in Seq(Byte) /\ c[2] \in Seq(Byte) /\ up = c[1] \o c[2]
  <2>1. CASE c \in Cuts(up)
    BY <2>1, CutsJoin DEF StreamTyped
  <2>2. CASE c = <<<<>>, up>>
    BY <2>2, EmptySeq, ConcatEmptySeq DEF StreamTyped
  <2> QED
    BY <2>1, <2>2
<1>3. rx \o c[1] \in Seq(Byte)
  BY <1>2, ConcatProperties DEF StreamTyped
<1> DEFINE f == Frame(TRUE, rx \o c[1])
<1>4. f = Framed(TRUE)[rx \o c[1]][Fresh]
  BY FramedIs
<1>5. f \in Frames
  BY <1>3, <1>4, FramesRead, FreshFrame
<1>6. UnitRead(c[1], c[2], f)
  BY <1>1, <1>2, <1>3, <1>4, <1>5 DEF UnitRead
<1> QED
  BY <1>6

\* A read leaves bytes and records.
LEMMA ReadUnitTyped ==
  ASSUME StreamTyped, ReadUnit
  PROVE  taken' \in Records /\ rx' \in Seq(Byte) /\ up' \in Seq(Byte)
<1>1. PICK a, b, f : UnitRead(a, b, f)
  BY ReadUnitIs
<1>2. /\ b \in Seq(Byte) /\ f \in Frames /\ up' = b
      /\ rx' = IF f.kind = "more" THEN KeptIncomplete(f) ELSE f.rest
      /\ taken' = taken \/ (f.out # <<>> /\ taken' = Append(taken, Tail(f.out)))
  BY <1>1 DEF UnitRead
<1>3. f.out \in Seq(Byte) /\ f.rest \in Seq(Byte) /\ KeptIncomplete(f) \in Seq(Byte)
  BY <1>2, KeptBytes DEF Frames
<1>4. f.out # <<>> => Append(taken, Tail(f.out)) \in Records
  <2>1. f.out # <<>> => Tail(f.out) \in Seq(Byte)
    BY <1>3, HeadTailProperties
  <2> QED
    BY <2>1, AppendProperties DEF StreamTyped, Records
<1> QED
  BY <1>2, <1>3, <1>4 DEF StreamTyped

\* Every step keeps the types.
LEMMA StreamStep ==
  ASSUME IInv, StreamTyped, [Next]_vars
  PROVE  StreamTyped'
<1>1. /\ taken \in Records /\ sent \in Records
      /\ rx \in Seq(Byte) /\ up \in Seq(Byte) /\ <<>> \in Seq(Byte)
  BY EmptySeq DEF StreamTyped
<1>2. CASE \/ Start \/ RequestReplyMode \/ Show \/ HangUp \/ UNCHANGED vars
           \/ NegotiationCut \/ Timeout \/ Disconnected
  <2>1. /\ taken' = taken /\ sent' = sent /\ rx' \in {rx, <<>>} /\ up' \in {up, <<>>}
    BY <1>2 DEF Start, RequestReplyMode, Show, HangUp, vars, NegotiationCut, Timeout, Disconnected,
                Failed, histVars, clientVars
  <2> QED
    BY <1>1, <2>1 DEF StreamTyped
<1>3. CASE ScanStarttls
  <2>1. up' = Tail(up) /\ up # <<>> /\ UNCHANGED <<taken, sent, rx>>
    BY <1>3 DEF ScanStarttls, clientVars
  <2> QED
    BY <1>1, <2>1, HeadTailProperties DEF StreamTyped
<1>4. CASE Handshake
  <2>1. UNCHANGED <<taken, sent, rx>> /\ (up' = up \/ (IsPrefix(Hello, up) /\ up' = SubSeq(up, Len(Hello) + 1, Len(up))))
    BY <1>4 DEF Handshake, histVars, clientVars
  <2>2. SubSeq(up, Len(Hello) + 1, Len(up)) \in Seq(Byte)
    <3>1. Len(Hello) = 2 /\ Len(up) \in Nat /\ \A i \in 1 .. Len(up) : up[i] \in Byte
      BY <1>1, LenProperties, ElementOfSeq DEF Hello
    <3>2. \A i \in 2 + 1 .. Len(up) : up[i] \in Byte
      BY <3>1
    <3> QED
      BY <3>1, <3>2, SubSeqProperties
  <2> QED
    BY <1>1, <2>1, <2>2 DEF StreamTyped
<1>5. CASE Negotiate
  <2>1. UNCHANGED <<taken, sent>>
    BY <1>5 DEF Negotiate, histVars, clientVars
  <2>2. rx' \in Seq(Byte) /\ up' \in Seq(Byte)
    <3>1. PICK c \in Cuts(up) \cup {<<<<>>, up>>} : up' = c[2] /\ rx' \in {Scanned(c[1]).kept, <<>>}
      BY <1>5 DEF Negotiate
    <3>2. c[1] \in Seq(Byte) /\ c[2] \in Seq(Byte)
      BY <1>1, <3>1, HandedOver
    <3> QED
      BY <1>1, <3>1, <3>2, ScannedIs DEF Scans
  <2> QED
    BY <1>1, <2>1, <2>2 DEF StreamTyped
<1>6. CASE ReadQueryReply \/ ReadReply
  <2>1. ReadRecord /\ sent' = sent
    BY <1>6 DEF ReadQueryReply, ReadReply, clientVars
  <2> QED
    BY <1>1, <2>1, ReadRecordTyped DEF StreamTyped
<1>7. CASE ReadUnit
  <2>1. sent' = sent
    BY <1>7 DEF ReadUnit, clientVars
  <2> QED
    BY <1>1, <1>7, <2>1, ReadUnitTyped DEF StreamTyped
<1>8. CASE ServeLine
  <2>1. /\ Contains(rx, "LF") /\ rx' = SubSeq(rx, LineEnd(rx) + 1, Len(rx))
        /\ UNCHANGED <<taken, sent, up>>
    BY <1>8 DEF ServeLine, LineEnd, clientVars
  <2> QED
    BY <1>1, <2>1, FirstLine DEF StreamTyped
<1>9. CASE ReceiveLine
  <2>1. PICK c \in Cuts(up) : rx' = rx \o c[1] /\ up' = c[2]
    BY <1>9 DEF ReceiveLine
  <2>2. UNCHANGED <<taken, sent>>
    BY <1>9 DEF ReceiveLine, histVars, clientVars
  <2> QED
    BY <1>1, <2>1, <2>2, CutsJoin, ConcatProperties DEF StreamTyped
<1>10. CASE Receive \/ Connects \/ TypeLine \/ Press
  <2>1. taken' = taken /\ rx' = rx
    BY <1>10 DEF Receive, Connects, TypeLine, Press, histVars
  <2>2. /\ up' = up \/ \E bytes \in Seq(Byte) : Say(bytes)
        /\ sent' = sent \/ \E record \in Seq(Byte) : sent' = Append(sent, record)
    <3>1. CASE Press
      <4>1. PICK record \in Seq(Byte) :
              Say(Wire(client, Extended, record)) /\ sent' = Append(sent, record)
        BY <3>1, Pressed
      <4>2. Wire(client, Extended, record) \in Seq(Byte)
        BY WireBytes DEF Extended
      <4> QED
        BY <4>1, <4>2
    <3>2. CASE Receive /\ Head(down) = "QUERY"
      BY <3>2, Replied, WireBytes
    <3>3. CASE (Receive /\ Head(down) # "QUERY") \/ Connects \/ TypeLine
      BY <3>3, SaysBytes
    <3> QED
      BY <1>10, <3>1, <3>2, <3>3
  <2>3. up' \in Seq(Byte)
    BY <1>1, <2>2, ConcatProperties DEF Say
  <2>4. sent' \in Records
    <3>1. \A record \in Seq(Byte) : Append(sent, record) \in Records
      BY <1>1, AppendProperties DEF Records
    <3> QED
      BY <1>1, <2>2, <3>1
  <2> QED
    BY <1>1, <2>1, <2>3, <2>4 DEF StreamTyped
<1> QED
  BY <1>2, <1>3, <1>4, <1>5, <1>6, <1>7, <1>8, <1>9, <1>10 DEF Next, Server

\* A step that says nothing but m to the client, and goes to no session that
\* was not served.
LEMMA QuietTells ==
  ASSUME IInv, QuietInv, NEW m \in Messages, m # "QUERY", m # "DO STARTTLS",
         down' = down \/ down' = Append(down, m), UNCHANGED <<client, open>>,
         at' \in Beginning => at \in Beginning /\ taken' = taken /\ sent' = sent /\ rx' \in {rx, <<>>},
         at' \in {"query", "replymode"} => at \in {"query", "replymode"},
         at' \in Reading3270 => at \in Reading3270 \/ ~open
  PROVE  QuietInv'
<1>1. ToSet(down') \subseteq ToSet(down) \cup {m}
  BY Tells
<1>2. Basic' <=> Basic
  BY DEF Basic
<1> QED
  BY <1>1, <1>2 DEF QuietInv

\* No step queries a client before its session, or any but a basic terminal.
LEMMA QuietStep ==
  ASSUME IInv, QuietInv, [Next]_vars
  PROVE  QuietInv'
<1> USE DEF Basic
<1>1. "FOLLOWS" \in Messages /\ "SCREEN" \in Messages /\ "SET MODE" \in Messages
  BY DEF Messages
<1>2. CASE Start
  <2>1. /\ at = "start" /\ at' \in Beginning
        /\ UNCHANGED <<client, open, taken, sent, rx>>
        /\ down' = down \/ down' = Append(down, "DO STARTTLS")
    <3>1. /\ at = "start" /\ at' \in {"negotiate", "handshake", "offered"}
      BY <1>2 DEF Start
    <3> QED
      BY <1>2, <3>1 DEF Start, clientVars, histVars, Beginning, Early
  <2>2. ToSet(down') \subseteq ToSet(down) \cup {"DO STARTTLS"}
    BY <2>1, Tells DEF Messages
  <2>3. "QUERY" \notin ToSet(down)
    BY <2>1 DEF QuietInv, Beginning, Early
  <2> QED
    BY <2>1, <2>2, <2>3 DEF QuietInv, Beginning, Early, Reading3270
<1>3. CASE ScanStarttls
  <2>1. /\ at = "offered" /\ at' \in {"handshake", "negotiate", at}
        /\ UNCHANGED <<client, open, taken, sent, rx>>
        /\ down' = down \/ down' = Append(down, "FOLLOWS")
    BY <1>3 DEF ScanStarttls, clientVars
  <2> QED
    BY <1>1, <2>1, QuietTells DEF Beginning, Early, Reading3270
<1>4. CASE Handshake
  <2>1. /\ at = "handshake" /\ at' \in {"negotiate", "closed"}
        /\ UNCHANGED <<client, open, taken, sent, rx, down>>
    BY <1>4 DEF Handshake, clientVars, histVars
  <2> QED
    BY <1>1, <2>1, QuietTells DEF Beginning, Early, Reading3270
<1>5. CASE Negotiate
  <2>1. /\ down = <<>> /\ at' \in {"nvt", "query", "show"}
        /\ at' = "query" => Basic
        /\ UNCHANGED <<client, open>>
        /\ down' = IF at' = "query" THEN Append(down, "QUERY") ELSE down
    BY <1>5 DEF Negotiate, clientVars
  <2>2. ToSet(down) = {}
    <3>1. DOMAIN down = {}
      BY <2>1
    <3> QED
      BY <3>1 DEF ToSet
  <2>3. ToSet(down') \subseteq {"QUERY"} /\ ("QUERY" \in ToSet(down') => at' = "query")
    BY <2>1, <2>2, Tells DEF Messages
  <2> QED
    BY <2>1, <2>3 DEF QuietInv, Beginning, Early, Reading3270
<1>6. CASE ReadQueryReply \/ ReadReply \/ ReadUnit
  <2>1. /\ at \in {"query", "read"} /\ at' \in {"query", "replymode", "read", "show"}
        /\ at = "read" => at' \in {"read", "show"}
        /\ UNCHANGED <<client, open, down>>
    BY <1>6 DEF ReadQueryReply, Settle, ReadReply, ReadUnit, clientVars
  <2> QED
    BY <1>1, <2>1, QuietTells DEF Beginning, Early, Reading3270
<1>7. CASE RequestReplyMode \/ Show
  <2>1. /\ at \in {"replymode", "show"} /\ at' \in {"show", "read"} /\ UNCHANGED <<client, open>>
        /\ \E m \in {"SET MODE", "SCREEN"} : down' = down \/ down' = Append(down, m)
    BY <1>7 DEF RequestReplyMode, Show, clientVars
  <2> QED
    BY <1>1, <2>1, QuietTells DEF Beginning, Early, Reading3270
<1>8. CASE ServeLine \/ ReceiveLine
  <2>1. at = "nvt" /\ at' \in {"nvt", "closed"} /\ UNCHANGED <<client, open, down>>
    BY <1>8 DEF ServeLine, ReceiveLine, clientVars
  <2> QED
    BY <1>1, <2>1, QuietTells DEF Beginning, Early, Reading3270
<1>9. CASE Timeout \/ Disconnected
  <2>1. /\ at \notin {"start", "closed", "replymode"}
        /\ at' = CASE at = "offered" -> "negotiate" [] at = "query" -> "replymode"
                   [] OTHER -> "closed"
        /\ UNCHANGED <<client, open, down, taken, sent>> /\ rx' = <<>>
    BY <1>9 DEF Timeout, Timed, Disconnected, Failed, clientVars
  <2> QED
    BY <1>1, <2>1, QuietTells DEF Beginning, Early, Reading3270
<1>10. CASE NegotiationCut
  <2>1. /\ ~open /\ at = "negotiate" /\ at' = "show" /\ UNCHANGED <<client, open, down>>
    BY <1>10 DEF NegotiationCut, clientVars
  <2> QED
    BY <1>1, <2>1, QuietTells DEF Beginning, Early, Reading3270
<1>11. CASE Receive
  <2>1. down' = Tail(down) /\ UNCHANGED <<at, client, open, taken, rx>>
    BY <1>11 DEF Receive, histVars
  <2>2. /\ ToSet(down) = {Head(down)} \cup ToSet(down')
    BY <1>11, <2>1, Taken DEF Receive, IInv, TypeInv
  <2>3. Head(down) # "QUERY" => sent' = sent
    BY <1>11, SaysBytes
  <2> QED
    BY <2>1, <2>2, <2>3 DEF QuietInv
<1>12. CASE Press
  <2>1. at \notin Beginning /\ UNCHANGED <<at, client, open, down>>
    BY <1>12 DEF Press, Serving, Beginning, Early
  <2> QED
    BY <2>1 DEF QuietInv
<1>13. CASE Connects \/ TypeLine \/ HangUp \/ UNCHANGED vars
  <2>1. /\ UNCHANGED <<at, client, down, taken, sent, rx>> /\ (open' => open)
    BY <1>13 DEF Connects, TypeLine, HangUp, vars, histVars, clientVars
  <2> QED
    BY <2>1 DEF QuietInv
<1> QED
  BY <1>2, <1>3, <1>4, <1>5, <1>6, <1>7, <1>8, <1>9, <1>10, <1>11, <1>12, <1>13 DEF Next, Server

\* A step that leaves the records alone, and what is under way to a reader.
LEMMA RecordKept ==
  ASSUME RecordInv, torn' = torn, UNCHANGED <<client, taken, sent>>,
         at' \in Reading3270 /\ (Basic \/ Extended) => at \in Reading3270 /\ rx' = rx /\ up' = up
  PROVE  RecordInv'
<1>1. Basic' = Basic /\ Extended' = Extended
  BY DEF Basic, Extended
<1>2. Expected' = Expected
  BY <1>1 DEF Expected
<1>3. ASSUME at' \in Reading3270, Basic \/ Extended, Followed(Extended, rx, up, taken, Expected)
      PROVE  Followed(Extended', rx', up', taken', Expected')
  BY <1>1, <1>2, <1>3
<1>4. IsPrefix(taken, Expected) => IsPrefix(taken', Expected')
  BY <1>2
<1> QED
  BY <1>1, <1>3, <1>4 DEF RecordInv

\* What is expected is records, and what is sent goes with it.
LEMMA ExpectedIs ==
  ASSUME StreamTyped
  PROVE  /\ Expected \in Records
         /\ \A record \in Seq(Byte) :
              sent' = Append(sent, record) /\ client' = client =>
                Expected' = Append(Expected, ReadAs(Extended, record))
<1>1. Extended \in BOOLEAN /\ sent \in Records
  BY DEF Extended, StreamTyped
<1>2. Expected \in Records
  BY <1>1, AllReadIs DEF Expected
<1>3. ASSUME NEW record \in Seq(Byte), sent' = Append(sent, record), client' = client
      PROVE  Expected' = Append(Expected, ReadAs(Extended, record))
  <2>1. Extended' = Extended
    BY <1>3 DEF Extended
  <2>2. Expected' = AllRead(Extended, Append(sent, record))
    BY <1>3, <2>1 DEF Expected
  <2> QED
    BY <1>1, <2>2, AllReadGrows DEF Expected
<1> QED
  BY <1>2, <1>3

\* One turn of read_record.
LEMMA ReadRecordFollows ==
  ASSUME StreamTyped, RecordInv, Basic, at \in Reading3270, ReadRecord, ~torn'
  PROVE  ~torn /\ Followed(FALSE, rx', up', taken', Expected)
<1>1. PICK c \in Cuts(up) :
        LET f == Frame(FALSE, rx \o c[1])
        IN /\ up' = c[2]
           /\ IF f.kind = "record"
                THEN /\ rx' = <<>>
                     /\ torn' = (torn \/ f.rest # <<>>)
                     /\ taken' = Append(taken, f.out)
                ELSE /\ rx' = rx \o c[1]
                     /\ UNCHANGED <<taken, torn>>
  BY DEF ReadRecord
<1> DEFINE f == Framed(FALSE)[rx \o c[1]][Fresh]
<1>2. /\ c[1] \in Seq(Byte) /\ c[2] \in Seq(Byte) /\ up = c[1] \o c[2] /\ rx \o c[1] \in Seq(Byte)
      /\ rx \in Seq(Byte) /\ taken \in Records /\ Expected \in Records
  BY CutsJoin, ConcatProperties, ExpectedIs DEF StreamTyped
<1>3. Frame(FALSE, rx \o c[1]) = f
  BY FramedIs
<1>4. f.kind # "cmd" /\ f.kind \in {"more", "record", "cmd"}
  <2>1. UnitsSaid(FALSE, rx \o c[1])
    BY <1>2, UnitsFrame
  <2>2. f \in Frames /\ f.kind # "cmd"
    BY <2>1 DEF UnitsSaid
  <2> HIDE DEF f
  <2> QED
    BY <2>2 DEF Frames
<1>5. ~torn
  BY <1>1
<1>6. Followed(FALSE, rx, c[1] \o c[2], taken, Expected)
  BY <1>2, <1>5 DEF RecordInv, Basic, Extended
<1>7. Follows3270(FALSE, rx, c[1], c[2], taken, Expected)
  BY <1>2, <1>6, Onward
<1>8. CASE f.kind = "record"
  <2>1. /\ rx' = <<>> /\ f.rest = <<>> /\ up' = c[2]
        /\ taken' = Append(taken, f.out)
    BY <1>1, <1>3, <1>8
  <2>2. Followed(FALSE, f.rest, c[2], Returned(FALSE, taken, f.out), Expected)
    BY <1>7, <1>8 DEF Follows3270
  <2>3. Returned(FALSE, taken, f.out) = Append(taken, f.out)
    BY DEF Returned
  <2> QED
    BY <1>5, <2>1, <2>2, <2>3
<1>9. CASE f.kind = "more"
  <2>1. rx' = rx \o c[1] /\ up' = c[2] /\ taken' = taken
    BY <1>1, <1>3, <1>9
  <2>2. Followed(FALSE, rx \o c[1], c[2], taken, Expected)
    BY <1>2, <1>7, <1>9 DEF Follows3270
  <2> QED
    BY <1>5, <2>1, <2>2
<1> QED
  BY <1>4, <1>8, <1>9

\* One turn of read_client_input on TN3270E.
LEMMA ReadUnitFollows ==
  ASSUME StreamTyped, RecordInv, Extended, at \in Reading3270, ReadUnit, ~torn'
  PROVE  ~torn /\ Followed(TRUE, rx', up', taken', Expected)
<1>1. PICK a, b, f : UnitRead(a, b, f)
  BY ReadUnitIs
<1>2. /\ a \in Seq(Byte) /\ b \in Seq(Byte) /\ up = a \o b /\ rx \o a \in Seq(Byte)
      /\ f = Framed(TRUE)[rx \o a][Fresh] /\ f \in Frames /\ up' = b
      /\ rx \in Seq(Byte) /\ taken \in Records /\ Expected \in Records
  BY <1>1, ExpectedIs DEF UnitRead, StreamTyped
<1>3. /\ ~torn /\ (f.kind = "more" => KeptIncomplete(f) = f.out \o f.pend)
      /\ rx' = IF f.kind = "more" THEN KeptIncomplete(f) ELSE f.rest
      /\ taken' = IF f.kind = "record" /\ f.out # <<>> THEN Append(taken, Tail(f.out)) ELSE taken
  BY <1>1 DEF UnitRead
<1>4. Followed(TRUE, rx, a \o b, taken, Expected)
  BY <1>2, <1>3 DEF RecordInv, Extended
<1>5. Follows3270(TRUE, rx, a, b, taken, Expected)
  BY <1>2, <1>4, Onward
<1>6. CASE f.kind = "more"
  <2>1. Frame(TRUE, rx \o a) = f
    BY <1>2, FramedIs
  <2>2. f.out \o f.pend \in Seq(Byte) /\ Frame(TRUE, f.out \o f.pend) = f
    BY <1>2, <1>6, <2>1, Reframed
  <2>3. Framed(TRUE)[f.out \o f.pend][Fresh] = f
    BY <2>2, FramedIs
  <2>4. Followed(TRUE, f.out \o f.pend, b, taken, Expected)
    BY <1>2, <1>5, <1>6, <2>2, <2>3 DEF Follows3270
  <2> QED
    BY <1>2, <1>3, <1>6, <2>4
<1>7. CASE f.kind # "more"
  <2>1. Followed(TRUE, f.rest, b, IF f.kind = "record" THEN Returned(TRUE, taken, f.out) ELSE taken,
                 Expected)
    BY <1>2, <1>5, <1>7 DEF Follows3270
  <2>2. taken' = IF f.kind = "record" THEN Returned(TRUE, taken, f.out) ELSE taken
    BY <1>3 DEF Returned
  <2> QED
    BY <1>2, <1>3, <1>7, <2>1, <2>2
<1> QED
  BY <1>6, <1>7

\* A reader has a whole record or waits; the other terminal's is idle.
LEMMA RecordRead ==
  ASSUME IInv, StreamTyped, QuietInv, RecordInv, ReadQueryReply \/ ReadReply \/ ReadUnit
  PROVE  RecordInv'
<1>1. StreamTyped'
  BY StreamStep DEF Next, Server
<1>2. /\ at \in Reading3270 /\ UNCHANGED <<client, sent>>
      /\ (Basic /\ ReadRecord) \/ (Extended /\ ReadUnit)
  BY DEF ReadQueryReply, ReadReply, ReadUnit, QuietInv, clientVars, Basic, Extended, Reading3270
<1>3. (Basic' <=> Basic) /\ (Extended' <=> Extended) /\ ~(Basic /\ Extended)
      /\ Expected' = Expected
  BY <1>2 DEF Basic, Extended, Expected
<1>4. ASSUME ~torn'
      PROVE  Followed(Extended, rx', up', taken', Expected')
  <2>1. CASE Basic /\ ReadRecord
    <3>1. Followed(FALSE, rx', up', taken', Expected)
      BY <1>2, <1>4, <2>1, ReadRecordFollows
    <3>2. Extended = FALSE
      BY <2>1 DEF Basic, Extended
    <3> QED
      BY <1>2, <1>3, <3>1, <3>2
  <2>2. CASE Extended /\ ReadUnit
    <3>1. Followed(TRUE, rx', up', taken', Expected)
      BY <1>2, <1>4, <2>2, ReadUnitFollows
    <3>2. Extended = TRUE
      BY <2>2 DEF Extended
    <3> QED
      BY <1>2, <1>3, <3>1, <3>2
  <2> QED
    BY <1>2, <2>1, <2>2
<1>5. ASSUME ~torn'
      PROVE  IsPrefix(taken', Expected')
  <2>1. Expected' \in Records /\ taken' \in Records /\ rx' \in Seq(Byte) /\ up' \in Seq(Byte)
    BY <1>1, <1>3, ExpectedIs DEF StreamTyped
  <2>2. Extended \in BOOLEAN
    BY DEF Extended
  <2> QED
    BY <1>4, <1>5, <2>1, <2>2, FollowedPrefix
<1>6. Extended' = Extended
  BY <1>2 DEF Extended
<1> QED
  BY <1>4, <1>5, <1>6 DEF RecordInv

\* A record more is sent behind those under way.
LEMMA RecordSpoken ==
  ASSUME IInv, StreamTyped, RecordInv, NEW record \in Seq(Byte),
         UNCHANGED <<at, client, taken, torn, rx>>, Basic \/ Extended,
         Say(Wire(client, Extended, record)),
         sent' = Append(sent, record)
  PROVE  RecordInv'
<1> DEFINE said == ReadAs(Extended, record)
<1>1. /\ Basic' = Basic /\ Extended' = Extended /\ Extended \in BOOLEAN
      /\ Units(Extended)[client.noise][From(Expected)] = From(Expected)
      /\ client.noise \in Seq(Byte)
  <2>1. NoiseSaid(client) /\ Expected \in Records
    BY ClientBytes, ExpectedIs DEF ClientSays
  <2>2. CASE Basic
    BY <2>1, <2>2 DEF NoiseSaid, Basic, Extended
  <2>3. CASE Extended
    BY <2>1, <2>3 DEF NoiseSaid, Basic, Extended
  <2> QED
    BY <2>2, <2>3
<1>2. /\ rx \in Seq(Byte) /\ up \in Seq(Byte) /\ taken \in Records /\ Expected \in Records
      /\ said \in Seq(Byte) /\ Expected' = Append(Expected, said)
  BY EscapedIs, ExpectedIs DEF StreamTyped, ReadAs
<1>3. IsPrefix(taken, Expected) => IsPrefix(taken, Append(Expected, said))
  <2>1. taken \in Seq(Seq(Byte)) /\ Expected \in Seq(Seq(Byte))
    BY <1>2 DEF Records
  <2> HIDE DEF said
  <2> QED
    BY <1>2, <2>1, PrefixGrows
<1>4. ASSUME Followed(Extended, rx, up, taken, Expected)
      PROVE  Followed(Extended, rx', up', taken', Expected')
  <2>1. Followed(Extended, rx,
                 up \o (client.noise \o Header(Extended) \o Escaped(record) \o <<"IAC", "EOR">>),
                 taken, Append(Expected, said))
    <3> HIDE DEF Extended
    <3> QED
      BY <1>1, <1>2, <1>4, FollowedSent DEF ReadAs
  <2> QED
    BY <1>1, <1>2, <2>1 DEF Say, Wire
<1> QED
  BY <1>1, <1>2, <1>3, <1>4 DEF RecordInv

\* No step of either side loses, repeats or reorders a record.
LEMMA RecordStep ==
  ASSUME IInv, StreamTyped, QuietInv, RecordInv, [Next]_vars
  PROVE  RecordInv'
<1>1. CASE ReadQueryReply \/ ReadReply \/ ReadUnit
  BY <1>1, RecordRead
<1>2. CASE Start \/ Connects \/ Handshake
  <2>1. /\ at' \notin Reading3270 /\ UNCHANGED <<client, taken, sent, torn>>
    BY <1>2 DEF Start, Connects, Handshake, histVars, clientVars, Reading3270
  <2> QED
    BY <2>1, RecordKept
<1>3. CASE RequestReplyMode \/ Show \/ HangUp \/ UNCHANGED vars
  <2>1. /\ at' \in Reading3270 => at \in Reading3270
        /\ UNCHANGED <<client, taken, sent, torn, rx, up>>
    BY <1>3 DEF RequestReplyMode, Show, HangUp, vars, histVars, clientVars, Reading3270
  <2> QED
    BY <2>1, RecordKept
<1>4. CASE ServeLine \/ ReceiveLine
  <2>1. at' \notin Reading3270 /\ UNCHANGED <<client, taken, sent, torn>>
    BY <1>4 DEF ServeLine, ReceiveLine, histVars, clientVars, Reading3270
  <2> QED
    BY <2>1, RecordKept
<1>5. CASE ScanStarttls
  <2>1. /\ at' \in {"handshake", "negotiate", "offered"} /\ UNCHANGED <<client, taken, sent>>
        /\ torn' = (torn \/ (tel = "text" /\ Head(up) # "IAC")
                         \/ (tel' = "text" /\ drained' = 0 /\ drained > 0))
    BY <1>5 DEF ScanStarttls, clientVars
  <2>2. ~torn' => ~torn
    BY <2>1
  <2>3. Expected' = Expected /\ taken' = taken /\ at' \notin Reading3270
    BY <2>1 DEF Expected, Extended, Reading3270
  <2> QED
    BY <2>2, <2>3 DEF RecordInv
<1>6. CASE Negotiate \/ NegotiationCut
  <2>1. at = "negotiate" /\ UNCHANGED <<client, taken, sent>> /\ (~torn' => ~torn)
    <3>1. at = "negotiate" /\ UNCHANGED <<client, taken, sent>>
      BY <1>6 DEF Negotiate, NegotiationCut, histVars, clientVars
    <3>2. CASE Negotiate
      <4>1. \E c : torn' = (torn \/ Scanned(c[1]).mark \notin {"text", "data"})
        BY <3>2 DEF Negotiate
      <4> QED
        BY <3>1, <4>1
    <3>3. CASE NegotiationCut
      BY <3>1, <3>3 DEF NegotiationCut, histVars
    <3> QED
      BY <1>6, <3>1, <3>2, <3>3
  <2>2. taken = <<>> /\ sent = <<>> /\ rx = <<>>
    BY <2>1 DEF QuietInv, Beginning
  <2>3. at' # "nvt" => up' = <<>> /\ rx' = <<>>
    BY <1>6, <2>2 DEF Negotiate, NegotiationCut
  <2>4. Expected' = Expected /\ Extended' = Extended
    BY <2>1 DEF Expected, Extended
  <2>5. Followed(Extended, <<>>, <<>>, taken, Expected)
    <3>1. Extended \in BOOLEAN /\ taken \in Records
      BY DEF Extended, StreamTyped
    <3>2. Expected = taken
      BY <2>2 DEF Expected, AllRead
    <3> QED
      BY <3>1, <3>2, FollowedNothing
  <2>6. at' \in Reading3270 => Followed(Extended', rx', up', taken', Expected')
    BY <2>1, <2>3, <2>4, <2>5 DEF Reading3270
  <2>7. IsPrefix(taken, Expected) => IsPrefix(taken', Expected')
    BY <2>1, <2>4
  <2> QED
    BY <2>1, <2>6, <2>7 DEF RecordInv
<1>7. CASE Timeout \/ Disconnected
  <2>1. /\ at \notin {"start", "closed", "replymode"}
        /\ at' = CASE at = "offered" -> "negotiate" [] at = "query" -> "replymode"
                   [] OTHER -> "closed"
        /\ torn' = (torn \/ (at = "query" /\ rx # <<>>) \/ (at = "offered" /\ tel # "text"))
        /\ UNCHANGED <<client, up, taken, sent>> /\ rx' = <<>>
    BY <1>7 DEF Timeout, Timed, Disconnected, Failed, clientVars
  <2>4. Expected' = Expected /\ taken' = taken
    BY <2>1 DEF Expected, Extended
  <2>2. CASE at = "query" /\ ~torn'
    <3>1. ~torn /\ rx = <<>>
      BY <2>1, <2>2
    <3>2. (Basic' <=> Basic) /\ Extended' = Extended
      BY <2>1 DEF Basic, Extended
    <3> QED
      BY <2>1, <2>2, <2>4, <3>1, <3>2 DEF RecordInv, Reading3270
  <2>3. CASE at # "query"
    <3>1. at' \notin Reading3270 /\ (~torn' => ~torn)
      BY <2>1, <2>3 DEF Reading3270
    <3> QED
      BY <2>4, <3>1 DEF RecordInv
  <2> QED
    BY <2>2, <2>3 DEF RecordInv
<1>8. CASE Press
  <2>1. PICK record \in Seq(Byte) :
          Say(Wire(client, Extended, record)) /\ sent' = Append(sent, record)
    BY <1>8, Pressed
  <2>2. UNCHANGED <<at, client, taken, torn, rx>>
    BY <1>8 DEF Press, histVars
  <2>3. CASE Basic \/ Extended
    BY <2>1, <2>2, <2>3, RecordSpoken
  <2>4. CASE ~(Basic \/ Extended)
    <3>1. IsPrefix(taken, Expected) => IsPrefix(taken', Expected')
      <4>1. taken \in Seq(Seq(Byte)) /\ Expected \in Seq(Seq(Byte)) /\ record \in Seq(Byte)
        BY <2>1, ExpectedIs DEF StreamTyped, Records
      <4>2. Expected' = Append(Expected, record)
        <5>1. ReadAs(Extended, record) = record
          BY <2>4 DEF ReadAs
        <5> QED
          BY <2>1, <2>2, <5>1, ExpectedIs
      <4>3. IsPrefix(taken, Expected) => IsPrefix(taken, Append(Expected, record))
        BY <4>1, PrefixGrows
      <4> QED
        BY <2>2, <4>2, <4>3
    <3>2. ~(Basic' \/ Extended')
      BY <2>2, <2>4 DEF Basic, Extended
    <3> QED
      BY <2>2, <3>1, <3>2 DEF RecordInv
  <2> QED
    BY <2>3, <2>4
<1>9. CASE TypeLine
  <2>1. /\ ~Basic /\ ~Extended /\ UNCHANGED <<client, taken, sent, torn>>
    BY <1>9 DEF TypeLine, histVars, Basic, Extended
  <2> QED
    BY <2>1, RecordKept
<1>10. CASE Receive
  <2>1. /\ open /\ down # <<>> /\ UNCHANGED <<at, client, taken, torn, rx>>
    BY <1>10 DEF Receive, histVars
  <2>2. down \in Seq(Messages) /\ Head(down) \in ToSet(down) /\ Head(down) \in Messages
    <3>1. down \in Seq(Messages)
      BY DEF IInv, TypeInv
    <3> QED
      BY <2>1, <3>1, Taken, HeadTailProperties
  <2>3. CASE Head(down) = "QUERY"
    <3>1. Basic
      BY <2>2, <2>3 DEF QuietInv
    <3>2. Extended = FALSE
      BY <3>1 DEF Basic, Extended
    <3>3. CASE UNCHANGED <<up, sent>>
      BY <2>1, <3>3, RecordKept
    <3>4. CASE Say(Wire(client, FALSE, QueryReply)) /\ QueryReply \in Seq(Byte) /\ sent' = Append(sent, QueryReply)
      BY <2>1, <3>1, <3>2, <3>4, RecordSpoken
    <3> QED
      BY <1>10, <2>3, <3>3, <3>4, Replied
  <2>4. CASE Head(down) = "DO STARTTLS"
    <3>1. at \notin Reading3270
      BY <2>1, <2>2, <2>4 DEF QuietInv
    <3>2. sent' = sent
      BY <1>10, <2>4, SaysBytes
    <3> QED
      BY <2>1, <3>1, <3>2, RecordKept
  <2>5. CASE Head(down) = "FOLLOWS"
    <3>1. at \notin Reading3270
      BY <2>2, <2>5 DEF IInv, TlsInv, Reading3270
    <3>2. sent' = sent
      BY <1>10, <2>5, SaysBytes
    <3> QED
      BY <2>1, <3>1, <3>2, RecordKept
  <2>6. CASE Head(down) \in {"SET MODE", "SCREEN"}
    <3>1. UNCHANGED <<up, sent>>
      BY <1>10, <2>6 DEF Receive
    <3> QED
      BY <2>1, <3>1, RecordKept
  <2> QED
    BY <2>2, <2>3, <2>4, <2>5, <2>6 DEF Messages
<1> QED
  BY <1>1, <1>2, <1>3, <1>4, <1>5, <1>6, <1>7, <1>8, <1>9, <1>10 DEF Next, Server

\* Nothing is sent or taken at first.
LEMMA RecordsBegin == Init => RecInv
<1> SUFFICES ASSUME Init
             PROVE  RecInv
  OBVIOUS
<1>1. /\ taken = <<>> /\ sent = <<>> /\ rx = <<>> /\ up = <<>> /\ down = <<>> /\ at = "start"
  BY DEF Init
<1>2. ToSet(down) = {}
  <2>1. DOMAIN down = {}
    BY <1>1
  <2> QED
    BY <2>1 DEF ToSet
<1>3. <<>> \in Records /\ <<>> \in Seq(Byte)
  BY DEF Records
<1>4. IsPrefix(taken, Expected)
  <2>1. taken \in Seq(Seq(Byte)) /\ Expected = taken
    BY <1>1 DEF Expected, AllRead
  <2>2. IsPrefix(taken, taken)
    BY <2>1, PrefixGrows, EmptySeq
  <2> QED
    BY <2>1, <2>2
<1> QED
  BY <1>1, <1>2, <1>3, <1>4 DEF RecInv, StreamTyped, QuietInv, RecordInv, Reading3270

\* The records' invariant, always.
LEMMA RecordsInvariant == Spec => []RecInv
<1>1. IInv /\ RecInv /\ [Next]_vars => RecInv'
  BY StreamStep, QuietStep, RecordStep DEF RecInv
<1> QED
  BY RecordsBegin, Invariant, <1>1, PTL DEF Spec

\* Whatever the client interleaves and wherever TCP cuts, the readers return
\* the records the client sent, whole, once and in order, as long as none of
\* them dropped bytes, and byte for byte but for one thing: on TN3270E each FF
\* within a record comes out doubled (server.py:371-411, 800-905, 1180-1290).
THEOREM RecordsAlwaysWhole == Spec => []RecordsWhole
<1>1. RecInv => RecordsWhole
  <2> SUFFICES ASSUME RecInv, ~torn
               PROVE  /\ Len(taken) <= Len(sent)
                      /\ \A n \in DOMAIN taken :
                           taken[n] = sent[n] \/ (Extended /\ taken[n] = Escaped(sent[n]))
    BY DEF RecordsWhole, Extended
  <2>1. /\ taken \in Records /\ sent \in Records /\ Extended \in BOOLEAN
        /\ IsPrefix(taken, Expected)
    BY DEF RecInv, StreamTyped, RecordInv, Extended
  <2>2. /\ Expected \in Records /\ Len(Expected) = Len(sent)
        /\ \A n \in 1 .. Len(sent) : Expected[n] = ReadAs(Extended, sent[n])
    BY <2>1, AllReadIs DEF Expected
  <2>3. Len(taken) <= Len(sent) /\ \A n \in 1 .. Len(taken) : taken[n] = Expected[n]
    BY <2>1, <2>2, PrefixIs DEF Records
  <2>4. ASSUME NEW n \in DOMAIN taken
        PROVE  taken[n] = sent[n] \/ (Extended /\ taken[n] = Escaped(sent[n]))
    <3>1. n \in 1 .. Len(taken) /\ n \in 1 .. Len(sent)
      BY <2>1, <2>3, LenProperties DEF Records
    <3>2. taken[n] = ReadAs(Extended, sent[n])
      BY <2>2, <2>3, <3>1
    <3> QED
      BY <3>2 DEF ReadAs
  <2> QED
    BY <2>3, <2>4
<1> QED
  BY RecordsInvariant, <1>1, PTL

-----------------------------------------------------------------------------
(* Lines read from a stream.                                               *)

\* Where _strip_nvt is in a line, and the commands of the lines before.
NvtStates == [out : Seq(Byte), skip : 0 .. 2, iac : BOOLEAN]
Typing == [line : NvtStates, got : Records]

NvtSteps == [s \in NvtStates |-> [b \in Byte |-> NvtByte(s, b)]]
Stripped == Reader(NvtStates, NvtSteps)

\* A blank line is no command.
Answered(got, cmd) == IF cmd = <<>> THEN got ELSE Append(got, cmd)

LineByte(u, b) ==
  IF b = "LF" THEN [line |-> Unread, got |-> Answered(u.got, u.line.out)]
  ELSE [line |-> NvtByte(u.line, b), got |-> u.got]

Lining == [u \in Typing |-> [b \in Byte |-> LineByte(u, b)]]
Lines == Reader(Typing, Lining)

\* At the beginning of a line.
Idle(got) == [line |-> Unread, got |-> got]

\* A byte of a line makes a line.
LEMMA NvtByteTyped ==
  ASSUME NEW s \in NvtStates, NEW b \in Byte
  PROVE  NvtByte(s, b) \in NvtStates
<1> DEFINE t == NvtByte(s, b)
<1> SUFFICES t \in NvtStates
  OBVIOUS
<1>1. s.out \in Seq(Byte) /\ s.skip \in 0 .. 2 /\ s.iac \in BOOLEAN
  BY DEF NvtStates
<1>2. Append(s.out, b) \in Seq(Byte)
  BY <1>1, AppendProperties
<1>3. \/ s.skip > 0 /\ t = [s EXCEPT !.skip = IF s.iac /\ b \in Verbs THEN 1 ELSE s.skip - 1,
                                     !.iac = FALSE]
      \/ t = [s EXCEPT !.skip = 1, !.iac = TRUE]
      \/ t = s
      \/ t = [s EXCEPT !.out = Append(s.out, b)]
  BY DEF NvtByte
<1> HIDE DEF t
<1>4. CASE s.skip > 0 /\ t = [s EXCEPT !.skip = IF s.iac /\ b \in Verbs THEN 1 ELSE s.skip - 1,
                                       !.iac = FALSE]
  <2> DEFINE n == IF s.iac /\ b \in Verbs THEN 1 ELSE s.skip - 1
  <2>1. n \in 0 .. 2
    BY <1>1, <1>4
  <2> HIDE DEF n
  <2>2. t = [s EXCEPT !.skip = n, !.iac = FALSE]
    BY <1>4 DEF n
  <2> QED
    BY <1>1, <2>1, <2>2 DEF NvtStates
<1>5. CASE t = [s EXCEPT !.skip = 1, !.iac = TRUE]
  <2> DEFINE n == 1
  <2>1. n \in 0 .. 2
    OBVIOUS
  <2> HIDE DEF n
  <2>2. t = [s EXCEPT !.skip = n, !.iac = TRUE]
    BY <1>5 DEF n
  <2> QED
    BY <1>1, <2>1, <2>2 DEF NvtStates
<1>6. CASE t = [s EXCEPT !.out = Append(s.out, b)]
  BY <1>1, <1>2, <1>6 DEF NvtStates
<1> QED
  BY <1>3, <1>4, <1>5, <1>6

\* StripNvt reads a line to its end.
LEMMA StripIs ==
  /\ NvtSteps \in [NvtStates -> [Byte -> NvtStates]]
  /\ \A s \in NvtStates, b \in Byte : NvtSteps[s][b] = NvtByte(s, b)
  /\ Reads(NvtStates, NvtSteps, Stripped) /\ Composes(NvtStates, NvtSteps, Stripped)
  /\ Unread \in NvtStates
  /\ \A bytes : StripNvt(bytes) = Stripped[bytes][Unread].out
<1> DEFINE U(r) == r = [more \in Seq(Byte) |->
                          [s \in NvtStates |-> IF more = <<>> THEN s
                                               ELSE r[Tail(more)][NvtByte(s, Head(more))]]]
           f == CHOOSE r : U(r)
<1>1. \A bytes : StripNvt(bytes) = f[bytes][Unread].out
  BY DEF StripNvt, Read, NvtStates
<1>3. /\ NvtSteps \in [NvtStates -> [Byte -> NvtStates]]
      /\ \A s \in NvtStates, b \in Byte : NvtSteps[s][b] = NvtByte(s, b)
  BY NvtByteTyped DEF NvtSteps
<1>4. \A r : U(r) <=> Unrolls(NvtStates, NvtSteps, r)
  <2> TAKE r
  <2>1. \A more \in Seq(Byte), s \in NvtStates : more # <<>> =>
          NvtByte(s, Head(more)) = NvtSteps[s][Head(more)]
    BY <1>3, HeadTailProperties
  <2>2. \A more \in Seq(Byte) :
          [s \in NvtStates |-> IF more = <<>> THEN s ELSE r[Tail(more)][NvtByte(s, Head(more))]] =
          [s \in NvtStates |-> IF more = <<>> THEN s ELSE r[Tail(more)][NvtSteps[s][Head(more)]]]
    BY <2>1
  <2>3. [more \in Seq(Byte) |->
          [s \in NvtStates |-> IF more = <<>> THEN s ELSE r[Tail(more)][NvtByte(s, Head(more))]]] =
        [more \in Seq(Byte) |->
          [s \in NvtStates |-> IF more = <<>> THEN s ELSE r[Tail(more)][NvtSteps[s][Head(more)]]]]
    BY <2>2
  <2> QED
    BY <2>3 DEF Unrolls
<1> HIDE DEF U
<1>5. U(f)
  <2>1. \E r : U(r)
    BY <1>3, <1>4, Reading
  <2> QED
    BY <2>1
<1> HIDE DEF f
<1>6. f = Stripped
  BY <1>3, <1>4, <1>5, Reading DEF Stripped
<1>7. Reads(NvtStates, NvtSteps, Stripped) /\ Composes(NvtStates, NvtSteps, Stripped)
  BY <1>3, Reading DEF Stripped
<1>8. Unread \in NvtStates
  BY EmptySeq DEF Unread, NvtStates
<1> QED
  BY <1>1, <1>3, <1>6, <1>7, <1>8

\* The facts of the lines' reader.
LEMMA LinesRead ==
  /\ \A u \in Typing, b \in Byte : Lining[u][b] = LineByte(u, b) /\ LineByte(u, b) \in Typing
  /\ \A bytes \in Seq(Byte), u \in Typing : Lines[bytes][u] \in Typing
  /\ \A u \in Typing : Lines[<<>>][u] = u
  /\ \A a \in Seq(Byte), b \in Seq(Byte), u \in Typing :
       Lines[a \o b][u] = Lines[b][Lines[a][u]]
  /\ \A b \in Byte, u \in Typing : Lines[<<b>>][u] = LineByte(u, b)
  /\ \A a \in Seq(Byte), b \in Byte, u \in Typing : Lines[Append(a, b)][u] = LineByte(Lines[a][u], b)
  /\ \A a \in Seq(Byte), u \in Typing : a # <<>> =>
       Lines[a][u] = Lines[Tail(a)][LineByte(u, Head(a))]
  /\ \A got \in Records : Idle(got) \in Typing
<1>1. \A got \in Records, out \in Seq(Byte) : Answered(got, out) \in Records
  BY AppendProperties DEF Answered, Records
<1>2. ASSUME NEW u \in Typing, NEW b \in Byte
      PROVE  LineByte(u, b) \in Typing
  <2>1. u.line \in NvtStates /\ u.got \in Records /\ u.line.out \in Seq(Byte)
    BY DEF Typing, NvtStates
  <2>2. NvtByte(u.line, b) \in NvtStates /\ Unread \in NvtStates
    BY <2>1, NvtByteTyped, StripIs
  <2> QED
    BY <1>1, <2>1, <2>2 DEF LineByte, Typing
<1>3. /\ Lining \in [Typing -> [Byte -> Typing]]
      /\ \A u \in Typing, b \in Byte : Lining[u][b] = LineByte(u, b)
  BY <1>2 DEF Lining
<1>4. Reads(Typing, Lining, Lines) /\ Composes(Typing, Lining, Lines)
  BY <1>3, Reading DEF Lines
<1>5. /\ \A bytes \in Seq(Byte), u \in Typing : Lines[bytes][u] \in Typing
      /\ \A u \in Typing : Lines[<<>>][u] = u
  BY <1>4 DEF Reads
<1>6. /\ \A a \in Seq(Byte), b \in Seq(Byte), u \in Typing :
           Lines[a \o b][u] = Lines[b][Lines[a][u]]
      /\ \A b \in Byte, u \in Typing : Lines[<<b>>][u] = LineByte(u, b)
  BY <1>3, <1>4 DEF Composes
<1>7. \A a \in Seq(Byte), b \in Byte, u \in Typing : Lines[Append(a, b)][u] = LineByte(Lines[a][u], b)
  BY <1>3, <1>4, <1>5 DEF Composes
<1>8. ASSUME NEW a \in Seq(Byte), NEW u \in Typing, a # <<>>
      PROVE  Lines[a][u] = Lines[Tail(a)][LineByte(u, Head(a))]
  <2>1. Head(a) \in Byte
    BY <1>8, HeadTailProperties
  <2>2. Lines[a][u] = Lines[Tail(a)][Lining[u][Head(a)]]
    BY <1>4, <1>8 DEF Reads
  <2> QED
    BY <1>3, <2>1, <2>2
<1>9. \A got \in Records : Idle(got) \in Typing
  BY StripIs DEF Idle, Typing
<1> QED
  BY <1>2, <1>3, <1>5, <1>6, <1>7, <1>8, <1>9

\* More bytes, more commands.
LEMMA LinesGrow ==
  ASSUME NEW bytes \in Seq(Byte), NEW u \in Typing
  PROVE  IsPrefix(u.got, Lines[bytes][u].got)
<1> DEFINE T == {a \in Seq(Byte) : IsPrefix(u.got, Lines[a][u].got)}
<1>1. u.got \in Records
  BY DEF Typing
<1>2. <<>> \in T
  <2>1. IsPrefix(u.got, u.got)
    BY <1>1, PrefixGrows, EmptySeq DEF Records
  <2> QED
    BY <2>1, LinesRead, EmptySeq
<1>3. ASSUME NEW a \in Seq(Byte), NEW b \in Byte, a \in T
      PROVE  Append(a, b) \in T
  <2> DEFINE v == Lines[a][u]
  <2>1. v \in Typing /\ Lines[Append(a, b)][u] = LineByte(v, b)
    BY LinesRead
  <2>2. IsPrefix(u.got, v.got)
    BY <1>3
  <2> HIDE DEF v
  <2>3. v.got \in Records /\ v.line.out \in Seq(Byte)
    BY <2>1 DEF Typing, NvtStates
  <2>4. LineByte(v, b).got = v.got \/ LineByte(v, b).got = Append(v.got, v.line.out)
    BY DEF LineByte, Answered
  <2>5. IsPrefix(u.got, Append(v.got, v.line.out))
    BY <1>1, <2>2, <2>3, PrefixGrows DEF Records
  <2> QED
    BY <2>1, <2>2, <2>4, <2>5, AppendProperties
<1> HIDE DEF T
<1>4. \A a \in Seq(Byte), b \in Byte : a \in T => Append(a, b) \in T
  BY <1>3
<1>5. Seq(Byte) \subseteq T
  BY <1>2, <1>4, InductAppend
<1> QED
  BY <1>5 DEF T

\* A line that has not ended is stripped as it comes in.
LEMMA LineUncut ==
  ASSUME NEW x \in Seq(Byte), ~Contains(x, "LF"), NEW got \in Records
  PROVE  Lines[x][Idle(got)] = [line |-> Stripped[x][Unread], got |-> got]
<1> DEFINE P(a) == (\A i \in 1 .. Len(a) : a[i] # "LF") =>
                     Lines[a][Idle(got)] = [line |-> Stripped[a][Unread], got |-> got]
           T == {a \in Seq(Byte) : P(a)}
<1>1. Idle(got) \in Typing /\ Unread \in NvtStates
  BY LinesRead, StripIs
<1>2. /\ Stripped[<<>>][Unread] = Unread
      /\ \A a \in Seq(Byte) : Stripped[a][Unread] \in NvtStates
      /\ \A a \in Seq(Byte), b \in Byte :
           Stripped[Append(a, b)][Unread] = NvtByte(Stripped[a][Unread], b)
  <2>1. /\ Reads(NvtStates, NvtSteps, Stripped) /\ Composes(NvtStates, NvtSteps, Stripped)
        /\ \A s \in NvtStates, b \in Byte : NvtSteps[s][b] = NvtByte(s, b)
    BY StripIs
  <2>2. /\ Stripped[<<>>][Unread] = Unread
        /\ \A a \in Seq(Byte) : Stripped[a][Unread] \in NvtStates
    BY <1>1, <2>1 DEF Reads
  <2>3. \A a \in Seq(Byte), b \in Byte :
          Stripped[Append(a, b)][Unread] = NvtSteps[Stripped[a][Unread]][b]
    BY <1>1, <2>1 DEF Composes
  <2> QED
    BY <2>1, <2>2, <2>3
<1>3. <<>> \in T
  BY <1>1, <1>2, LinesRead, EmptySeq DEF Idle
<1>4. ASSUME NEW a \in Seq(Byte), NEW b \in Byte, P(a)
      PROVE  P(Append(a, b))
  <2> DEFINE s == Stripped[a][Unread]
             c == Append(a, b)
  <2>1. /\ c \in Seq(Byte) /\ Len(c) = Len(a) + 1 /\ Len(a) \in Nat /\ c[Len(a) + 1] = b
        /\ \A i \in 1 .. Len(a) : c[i] = a[i]
    BY AppendProperties, LenProperties
  <2> HIDE DEF c
  <2> SUFFICES ASSUME \A i \in 1 .. Len(c) : c[i] # "LF"
               PROVE  Lines[c][Idle(got)] = [line |-> Stripped[c][Unread], got |-> got]
    BY DEF c
  <2>2. b # "LF" /\ \A i \in 1 .. Len(a) : a[i] # "LF"
    BY <2>1
  <2>3. Lines[a][Idle(got)] = [line |-> s, got |-> got]
    BY <1>4, <2>2
  <2>4. Lines[c][Idle(got)] = LineByte(Lines[a][Idle(got)], b)
    BY <1>1, LinesRead DEF c
  <2>5. Stripped[c][Unread] = NvtByte(s, b)
    BY <1>2 DEF c
  <2> HIDE DEF s
  <2> QED
    BY <2>2, <2>3, <2>4, <2>5 DEF LineByte
<1>5. \A a \in Seq(Byte), b \in Byte : a \in T => Append(a, b) \in T
  BY <1>4, AppendProperties
<1>6. x \in T
  <2> HIDE DEF T
  <2> QED
    BY <1>3, <1>5, InductAppend
<1>7. \A i \in 1 .. Len(x) : x[i] # "LF"
  BY DEF Contains
<1> QED
  BY <1>6, <1>7

\* A line that ends answers what it strips to.
LEMMA LineCut ==
  ASSUME NEW x \in Seq(Byte), ~Contains(x, "LF"), NEW got \in Records
  PROVE  /\ StripNvt(x) \in Seq(Byte) /\ Answered(got, StripNvt(x)) \in Records
         /\ Lines[x \o <<"LF">>][Idle(got)] = Idle(Answered(got, StripNvt(x)))
<1> DEFINE s == Stripped[x][Unread]
           u == [line |-> s, got |-> got]
<1>1. Lines[x][Idle(got)] = u
  BY LineUncut
<1>2. StripNvt(x) = s.out
  BY StripIs
<1>3. Idle(got) \in Typing /\ "LF" \in Byte /\ <<"LF">> \in Seq(Byte)
  BY LinesRead, ByteAssumption
<1>4. u \in Typing
  BY <1>1, <1>3, LinesRead
<1>5. s.out \in Seq(Byte)
  BY <1>4 DEF Typing, NvtStates
<1>6. Lines[x \o <<"LF">>][Idle(got)] = LineByte(u, "LF")
  <2>1. Lines[x \o <<"LF">>][Idle(got)] = Lines[<<"LF">>][Lines[x][Idle(got)]]
    BY <1>3, LinesRead
  <2> QED
    BY <1>1, <1>3, <1>4, <2>1, LinesRead
<1>7. LineByte(u, "LF") = Idle(Answered(got, s.out))
  BY DEF LineByte, Idle
<1>8. Answered(got, s.out) \in Records
  BY <1>5, AppendProperties DEF Answered, Records
<1> QED
  BY <1>2, <1>5, <1>6, <1>7, <1>8

\* A line as it is typed: CR is no part of it.
LEMMA TypedLine ==
  ASSUME NEW x \in Seq(Byte), ~Contains(x, "LF"), NEW got \in Records
  PROVE  Lines[x \o <<"CR", "LF">>][Idle(got)] = Idle(Answered(got, StripNvt(x)))
<1> DEFINE s == Stripped[x][Unread]
           u == [line |-> s, got |-> got]
           v == LineByte(u, "CR")
<1>1. Lines[x][Idle(got)] = u /\ StripNvt(x) = s.out
  BY LineUncut, StripIs
<1>2. /\ Idle(got) \in Typing /\ "LF" \in Byte /\ "CR" \in Byte /\ <<"CR">> \in Seq(Byte)
      /\ <<"CR", "LF">> \in Seq(Byte)
  BY LinesRead, ByteAssumption
<1>3. u \in Typing
  BY <1>1, <1>2, LinesRead
<1>4. Lines[x \o <<"CR", "LF">>][Idle(got)] = LineByte(v, "LF")
  <2>1. Lines[x \o <<"CR", "LF">>][Idle(got)] = Lines[<<"CR", "LF">>][u]
    <3>1. \A b \in Seq(Byte) : Lines[x \o b][Idle(got)] = Lines[b][Lines[x][Idle(got)]]
      BY <1>2, LinesRead
    <3> HIDE DEF u
    <3> QED
      BY <1>1, <1>2, <3>1, Zenon
  <2>2. <<"CR", "LF">> = Append(<<"CR">>, "LF")
    OBVIOUS
  <2>3. Lines[<<"CR">>][u] = v
    BY <1>2, <1>3, LinesRead
  <2>4. Lines[Append(<<"CR">>, "LF")][u] = LineByte(Lines[<<"CR">>][u], "LF")
    BY <1>2, <1>3, LinesRead
  <2> QED
    BY <2>1, <2>2, <2>3, <2>4
<1>5. v.got = got /\ v.line.out = s.out
  <2>1. v = [line |-> NvtByte(s, "CR"), got |-> got]
    BY DEF LineByte
  <2>2. s \in NvtStates
    BY <1>3 DEF Typing
  <2>3. NvtByte(s, "CR").out = s.out
    <3>1. s.skip \in 0 .. 2
      BY <2>2 DEF NvtStates
    <3> DEFINE t == NvtByte(s, "CR")
    <3>2. \/ t = [s EXCEPT !.skip = IF s.iac /\ "CR" \in Verbs THEN 1 ELSE s.skip - 1, !.iac = FALSE]
          \/ t = s
      BY <3>1 DEF NvtByte
    <3> HIDE DEF t, s
    <3> QED
      BY <2>2, <3>2 DEF NvtStates, t
  <2> QED
    BY <2>1, <2>3
<1> HIDE DEF v
<1>6. LineByte(v, "LF") = Idle(Answered(got, s.out))
  BY <1>5 DEF LineByte, Idle
<1> QED
  BY <1>1, <1>4, <1>6

-----------------------------------------------------------------------------
(* Where the bytes of a conversation in commands stand.                    *)

Marking == [m \in Marks |-> [b \in Byte |-> MarkByte(m, b)]]
Marked == Reader(Marks, Marking)

\* The facts of their reader.
LEMMA MarksRead ==
  /\ \A m \in Marks, b \in Byte : MarkByte(m, b) \in Marks
  /\ \A bytes \in Seq(Byte), m \in Marks : Marked[bytes][m] \in Marks
  /\ \A m \in Marks : Marked[<<>>][m] = m
  /\ \A a \in Seq(Byte), b \in Seq(Byte), m \in Marks : Marked[a \o b][m] = Marked[b][Marked[a][m]]
  /\ \A b \in Byte, m \in Marks : Marked[<<b>>][m] = MarkByte(m, b)
  /\ \A a \in Seq(Byte), b \in Byte, m \in Marks : Marked[Append(a, b)][m] = MarkByte(Marked[a][m], b)
  /\ \A a \in Seq(Byte), m \in Marks : a # <<>> =>
       Marked[a][m] = Marked[Tail(a)][MarkByte(m, Head(a))]
<1>1. \A m \in Marks, b \in Byte : MarkByte(m, b) \in Marks
  BY DEF MarkByte, Marks
<1>2. /\ Marking \in [Marks -> [Byte -> Marks]]
      /\ \A m \in Marks, b \in Byte : Marking[m][b] = MarkByte(m, b)
  BY <1>1 DEF Marking
<1>3. Reads(Marks, Marking, Marked) /\ Composes(Marks, Marking, Marked)
  BY <1>2, Reading DEF Marked
<1>4. /\ \A bytes \in Seq(Byte), m \in Marks : Marked[bytes][m] \in Marks
      /\ \A m \in Marks : Marked[<<>>][m] = m
  BY <1>3 DEF Reads
<1>5. /\ \A a \in Seq(Byte), b \in Seq(Byte), m \in Marks :
           Marked[a \o b][m] = Marked[b][Marked[a][m]]
      /\ \A b \in Byte, m \in Marks : Marked[<<b>>][m] = MarkByte(m, b)
  BY <1>2, <1>3 DEF Composes
<1>6. \A a \in Seq(Byte), b \in Byte, m \in Marks : Marked[Append(a, b)][m] = MarkByte(Marked[a][m], b)
  BY <1>2, <1>3, <1>4 DEF Composes
<1>7. ASSUME NEW a \in Seq(Byte), NEW m \in Marks, a # <<>>
      PROVE  Marked[a][m] = Marked[Tail(a)][MarkByte(m, Head(a))]
  <2>1. Head(a) \in Byte
    BY <1>7, HeadTailProperties
  <2>2. Marked[a][m] = Marked[Tail(a)][Marking[m][Head(a)]]
    BY <1>3, <1>7 DEF Reads
  <2> QED
    BY <1>2, <2>1, <2>2
<1> QED
  BY <1>1, <1>4, <1>5, <1>6, <1>7

\* What is no command stays none.
LEMMA MarkedData ==
  ASSUME NEW x \in Seq(Byte)
  PROVE  Marked[x]["data"] = "data"
<1> DEFINE T == {a \in Seq(Byte) : Marked[a]["data"] = "data"}
<1>1. "data" \in Marks /\ \A b : MarkByte("data", b) = "data"
  BY DEF Marks, MarkByte
<1>2. <<>> \in T
  BY <1>1, MarksRead, EmptySeq
<1>3. \A a \in Seq(Byte), b \in Byte : a \in T => Append(a, b) \in T
  <2> TAKE a \in Seq(Byte), b \in Byte
  <2>1. Marked[Append(a, b)]["data"] = MarkByte(Marked[a]["data"], b)
    BY <1>1, MarksRead
  <2> QED
    BY <1>1, <2>1, AppendProperties
<1>4. Seq(Byte) \subseteq T
  <2> HIDE DEF T
  <2> QED
    BY <1>2, <1>3, InductAppend
<1> QED
  BY <1>4

\* A place in commands without sub-negotiations is one in a line with nothing
\* typed.
Between == {"text", "cmd", "verb"}
LineOf(m) == [out |-> <<>>, skip |-> IF m = "text" THEN 0 ELSE 1, iac |-> m = "cmd"]
Resting(m, got) == [line |-> LineOf(m), got |-> got]

LineMark(m, b) ==
  IF m = "text" THEN "cmd" ELSE IF m = "cmd" /\ b \in Verbs THEN "verb" ELSE "text"

\* Between two lines the reader of lines moves as the marks do.
LEMMA MarkLine ==
  ASSUME NEW m \in Between, NEW got \in Records
  PROVE  /\ Resting(m, got) \in Typing /\ Resting("text", got) = Idle(got)
         /\ \A b \in Byte : (m = "text" => b = "IAC") =>
              /\ LineMark(m, b) \in Between
              /\ LineByte(Resting(m, got), b) = Resting(LineMark(m, b), got)
         /\ \A b \in Byte : b # "SB" /\ MarkByte(m, b) # "data" =>
              MarkByte(m, b) = LineMark(m, b) /\ (m = "text" => b = "IAC")
<1> DEFINE s == LineOf(m)
<1>1. s \in NvtStates /\ s.out = <<>> /\ s.skip = (IF m = "text" THEN 0 ELSE 1) /\ s.iac = (m = "cmd")
  <2> DEFINE n == IF m = "text" THEN 0 ELSE 1
  <2>1. n \in 0 .. 2
    OBVIOUS
  <2>2. s = [out |-> <<>>, skip |-> n, iac |-> (m = "cmd")]
    BY DEF LineOf
  <2> HIDE DEF n, s
  <2> QED
    BY <2>1, <2>2, EmptySeq DEF NvtStates, n
<1>2. LineOf("text") = Unread
  BY DEF LineOf, Unread
<1>3. Resting(m, got) \in Typing /\ Resting("text", got) = Idle(got)
  BY <1>1, <1>2 DEF Resting, Idle, Typing
<1>5. ASSUME NEW b \in Byte, b # "SB", MarkByte(m, b) # "data"
      PROVE  MarkByte(m, b) = LineMark(m, b) /\ (m = "text" => b = "IAC")
  BY <1>5 DEF Between, MarkByte, LineMark
<1>4. ASSUME NEW b \in Byte, m = "text" => b = "IAC"
      PROVE  /\ LineMark(m, b) \in Between
             /\ LineByte(Resting(m, got), b) = Resting(LineMark(m, b), got)
  <2> DEFINE k == LineMark(m, b)
  <2>1. k \in Between
    BY DEF Between, LineMark
  <2>2. CASE b = "LF"
    <3>1. k = "text"
      BY <1>4, <2>2 DEF Between, LineMark, Verbs
    <3>2. LineByte(Resting(m, got), b) = [line |-> Unread, got |-> Answered(got, s.out)]
      BY <2>2 DEF LineByte, Resting
    <3>3. Answered(got, s.out) = got
      BY <1>1 DEF Answered
    <3> QED
      BY <1>2, <2>1, <3>1, <3>2, <3>3 DEF Resting
  <2>3. CASE b # "LF"
    <3>1. LineByte(Resting(m, got), b) = [line |-> NvtByte(s, b), got |-> got]
      BY <2>3 DEF LineByte, Resting
    <3>2. NvtByte(s, b) = LineOf(k)
      <4>1. CASE m = "text"
        <5>1. b = "IAC" /\ k = "cmd"
          BY <1>4, <4>1 DEF LineMark
        <5>2. NvtByte(s, b) = [s EXCEPT !.skip = 1, !.iac = TRUE]
          BY <1>1, <4>1, <5>1 DEF NvtByte
        <5>3. NvtByte(s, b) = [out |-> <<>>, skip |-> 1, iac |-> TRUE]
          BY <5>2 DEF LineOf
        <5> HIDE DEF k, s
        <5> QED
          BY <5>1, <5>3 DEF LineOf
      <4>0. ASSUME m # "text"
            PROVE  NvtByte(s, b) = [out |-> <<>>, iac |-> FALSE,
                                    skip |-> IF m = "cmd" /\ b \in Verbs THEN 1 ELSE 0]
        <5> DEFINE n == IF s.iac /\ b \in Verbs THEN 1 ELSE s.skip - 1
                   l == IF m = "cmd" /\ b \in Verbs THEN 1 ELSE 0
        <5>1. s.skip = 1 /\ s.iac = (m = "cmd") /\ s.skip > 0
          BY <1>1, <4>0
        <5>2. n = l
          <6>1. s.iac <=> m = "cmd"
            BY DEF LineOf
          <6>2. s.skip - 1 = 0
            BY <5>1
          <6> HIDE DEF s
          <6> QED
            BY <6>1, <6>2
        <5>3. NvtByte(s, b) = [s EXCEPT !.skip = n, !.iac = FALSE]
          <6> HIDE DEF s
          <6> QED
            BY <5>1 DEF NvtByte
        <5>4. s \in [out : {<<>>}, skip : {1}, iac : BOOLEAN]
          BY <4>0 DEF LineOf
        <5> HIDE DEF n, s
        <5>5. NvtByte(s, b) = [out |-> <<>>, iac |-> FALSE, skip |-> n]
          BY <5>3, <5>4
        <5> QED
          BY <5>2, <5>5
      <4>2. CASE m = "cmd"
        <5>1. k = IF b \in Verbs THEN "verb" ELSE "text"
          BY <1>4, <4>2 DEF LineMark
        <5> HIDE DEF k, s
        <5> QED
          BY <4>0, <4>2, <5>1 DEF LineOf
      <4>3. CASE m = "verb"
        <5>1. k = "text"
          BY <4>3 DEF LineMark
        <5> HIDE DEF k, s
        <5> QED
          BY <4>0, <4>3, <5>1 DEF LineOf
      <4> QED
        BY <4>1, <4>2, <4>3 DEF Between
    <3> QED
      BY <2>1, <3>1, <3>2 DEF Resting
  <2> QED
    BY <2>2, <2>3
<1> QED
  BY <1>3, <1>4, <1>5

\* The scan stands where the marks do.
LEMMA ScannedMark ==
  ASSUME NEW x \in Seq(Byte)
  PROVE  Scanned(x).mark = Marked[x]["text"]
<1> DEFINE T == {a \in Seq(Byte) : Scanned(a).mark = Marked[a]["text"]}
<1>1. "text" \in Marks /\ Marked[<<>>]["text"] = "text" /\ Scanned(<<>>).mark = "text"
  BY MarksRead, ScannedIs DEF Marks, Unscanned
<1>2. <<>> \in T
  BY <1>1, EmptySeq
<1>3. ASSUME NEW a \in Seq(Byte), NEW b \in Byte, a \in T
      PROVE  Append(a, b) \in T
  <2>1. Scanned(Append(a, b)).mark = MarkByte(Scanned(a).mark, b)
    BY ScannedIs DEF NegotiationByte
  <2>2. Marked[Append(a, b)]["text"] = MarkByte(Marked[a]["text"], b)
    BY <1>1, MarksRead
  <2> QED
    BY <1>3, <2>1, <2>2, AppendProperties
<1>4. Seq(Byte) \subseteq T
  <2> HIDE DEF T
  <2> QED
    BY <1>2, <1>3, InductAppend
<1> QED
  BY <1>4

\* The negotiation takes away commands only, and those answer no line.
LEMMA ScannedLines ==
  ASSUME NEW x \in Seq(Byte), ~Contains(x, "SB"), NEW got \in Records
  PROVE  /\ Lines[Scanned(x).kept][Idle(got)] = Lines[x][Idle(got)]
         /\ Scanned(x).mark = "text" => Lines[x][Idle(got)] = Idle(got)
<1> DEFINE P(a) == (\A i \in 1 .. Len(a) : a[i] # "SB") =>
                     /\ Lines[Scanned(a).kept][Idle(got)] = Lines[a][Idle(got)]
                     /\ Scanned(a).mark # "data" =>
                          /\ Scanned(a).mark \in Between
                          /\ Lines[a][Idle(got)] = Resting(Scanned(a).mark, got)
           T == {a \in Seq(Byte) : P(a)}
<1>1. /\ Idle(got) \in Typing /\ Resting("text", got) = Idle(got) /\ "text" \in Between
      /\ Lines[<<>>][Idle(got)] = Idle(got)
  BY LinesRead, MarkLine DEF Between
<1>2. <<>> \in T
  <2>1. Scanned(<<>>).mark = "text" /\ Scanned(<<>>).kept = <<>>
    BY ScannedIs DEF Unscanned
  <2> QED
    BY <1>1, <2>1, EmptySeq
<1>3. ASSUME NEW a \in Seq(Byte), NEW b \in Byte, P(a)
      PROVE  P(Append(a, b))
  <2> DEFINE p == Scanned(a)
             c == Append(a, b)
             q == Scanned(c)
  <2>1. /\ c \in Seq(Byte) /\ Len(c) = Len(a) + 1 /\ Len(a) \in Nat /\ c[Len(a) + 1] = b
        /\ \A i \in 1 .. Len(a) : c[i] = a[i]
    BY AppendProperties, LenProperties
  <2>2. /\ p.mark \in Marks /\ p.kept \in Seq(Byte)
        /\ q.mark = MarkByte(p.mark, b)
        /\ q.kept = IF q.mark = "text" THEN <<>> ELSE Append(p.kept, b)
    <3>1. p \in Scans /\ q = NegotiationByte(p, b)
      BY ScannedIs
    <3> HIDE DEF p, q
    <3> QED
      BY <3>1 DEF NegotiationByte, Scans
  <2>3. /\ Lines[c][Idle(got)] = LineByte(Lines[a][Idle(got)], b)
        /\ Lines[Append(p.kept, b)][Idle(got)] = LineByte(Lines[p.kept][Idle(got)], b)
    BY <1>1, <2>2, LinesRead
  <2>4. q.mark # "data" => p.mark # "data"
    BY <2>2 DEF MarkByte
  <2> HIDE DEF p, q, c
  <2> SUFFICES ASSUME \A i \in 1 .. Len(c) : c[i] # "SB"
               PROVE  /\ Lines[q.kept][Idle(got)] = Lines[c][Idle(got)]
                      /\ q.mark # "data" =>
                           q.mark \in Between /\ Lines[c][Idle(got)] = Resting(q.mark, got)
    BY DEF c, q
  <2>5. b # "SB" /\ \A i \in 1 .. Len(a) : a[i] # "SB"
    BY <2>1
  <2>6. /\ Lines[p.kept][Idle(got)] = Lines[a][Idle(got)]
        /\ p.mark # "data" => p.mark \in Between /\ Lines[a][Idle(got)] = Resting(p.mark, got)
    BY <1>3, <2>5 DEF p
  <2>7. q.mark # "data" => q.mark \in Between /\ Lines[c][Idle(got)] = Resting(q.mark, got)
    BY <2>2, <2>3, <2>4, <2>5, <2>6, MarkLine
  <2>8. Lines[q.kept][Idle(got)] = Lines[c][Idle(got)]
    <3>1. CASE q.mark = "text"
      BY <1>1, <2>2, <2>7, <3>1
    <3>2. CASE q.mark # "text"
      BY <2>2, <2>3, <2>6, <3>2
    <3> QED
      BY <3>1, <3>2
  <2> QED
    BY <2>7, <2>8
<1>4. \A a \in Seq(Byte), b \in Byte : a \in T => Append(a, b) \in T
  <2> HIDE DEF P
  <2> QED
    BY <1>3, AppendProperties
<1>5. x \in T
  <2> HIDE DEF T
  <2> QED
    BY <1>2, <1>4, InductAppend
<1>6. \A i \in 1 .. Len(x) : x[i] # "SB"
  BY DEF Contains
<1> QED
  BY <1>1, <1>5, <1>6

-----------------------------------------------------------------------------
(* The commands of the lines typed.                                        *)

\* f counts the commands of a client's first k lines, line by line.
CommandsOf(c, k, f) ==
  f = [n \in 0 .. k |-> IF n = 0 THEN <<>>
                        ELSE IF c.lines[n].command = <<>> THEN f[n - 1]
                        ELSE Append(f[n - 1], c.lines[n].command)]

Commands(c, k) == (CHOOSE f : CommandsOf(c, k, f))[k]

\* What counts them, line by line.
LEMMA CommandsAre ==
  ASSUME NEW c, NEW k \in Nat, NEW f
  PROVE  CommandsOf(c, k, f) <=>
           /\ f = [n \in 0 .. k |-> f[n]] /\ f[0] = <<>>
           /\ \A n \in 1 .. k : f[n] = Answered(f[n - 1], c.lines[n].command)
<1> DEFINE g == [n \in 0 .. k |-> IF n = 0 THEN <<>>
                                  ELSE IF c.lines[n].command = <<>> THEN f[n - 1]
                                  ELSE Append(f[n - 1], c.lines[n].command)]
<1>1. /\ 0 \in 0 .. k /\ g[0] = <<>> /\ g = [n \in 0 .. k |-> g[n]]
      /\ \A n \in 1 .. k : n \in 0 .. k /\ g[n] = Answered(f[n - 1], c.lines[n].command)
  BY DEF Answered
<1>2. CommandsOf(c, k, f) <=> f = g
  BY DEF CommandsOf
<1>3. \A n \in 0 .. k : n = 0 \/ n \in 1 .. k
  OBVIOUS
<1> HIDE DEF g
<1>4. ASSUME f = [n \in 0 .. k |-> f[n]], f[0] = <<>>,
             \A n \in 1 .. k : f[n] = Answered(f[n - 1], c.lines[n].command)
      PROVE  f = g
  <2>1. \A n \in 0 .. k : f[n] = g[n]
    BY <1>1, <1>3, <1>4
  <2>2. [n \in 0 .. k |-> f[n]] = [n \in 0 .. k |-> g[n]]
    BY <2>1
  <2> QED
    BY <1>1, <1>4, <2>2
<1> QED
  BY <1>1, <1>2, <1>4

\* They are counted in one way,
LEMMA CommandsOnce ==
  ASSUME NEW c, NEW k \in Nat, NEW f, NEW g, CommandsOf(c, k, f), CommandsOf(c, k, g)
  PROVE  f = g
<1> DEFINE T == {n \in 0 .. k : f[n] # g[n]}
<1>1. /\ f = [n \in 0 .. k |-> f[n]] /\ f[0] = <<>>
      /\ \A n \in 1 .. k : f[n] = Answered(f[n - 1], c.lines[n].command)
  BY CommandsAre
<1>2. /\ g = [n \in 0 .. k |-> g[n]] /\ g[0] = <<>>
      /\ \A n \in 1 .. k : g[n] = Answered(g[n - 1], c.lines[n].command)
  BY CommandsAre
<1>3. ASSUME T # {}
      PROVE  FALSE
  <2>1. PICK t \in T : \A u \in T : t <= u
    <3>1. T \subseteq Nat
      OBVIOUS
    <3> HIDE DEF T
    <3> QED
      BY <1>3, <3>1, LeastNumber
  <2>2. t \in 1 .. k /\ t - 1 \in 0 .. k
    BY <1>1, <1>2
  <2>3. f[t - 1] = g[t - 1]
    <3>1. t - 1 \notin T
      BY <2>1, <2>2
    <3> QED
      BY <2>2, <3>1
  <2>4. f[t] = g[t]
    BY <1>1, <1>2, <2>2, <2>3
  <2> QED
    BY <2>4
<1>4. \A n \in 0 .. k : f[n] = g[n]
  BY <1>3
<1>5. [n \in 0 .. k |-> f[n]] = [n \in 0 .. k |-> g[n]]
  BY <1>4
<1> QED
  BY <1>1, <1>2, <1>5

\* of which there is one.
LEMMA CommandsCounted ==
  ASSUME NEW c
  PROVE  \A k \in Nat : \E f : CommandsOf(c, k, f)
<1> DEFINE T == {k \in Nat : ~\E f : CommandsOf(c, k, f)}
<1> SUFFICES ASSUME T # {}
             PROVE  FALSE
  OBVIOUS
<1>1. PICK t \in T : \A u \in T : t <= u
  <2>1. T \subseteq Nat
    OBVIOUS
  <2> HIDE DEF T
  <2> QED
    BY <2>1, LeastNumber
<1>2. CASE t = 0
  <2> DEFINE f == [n \in 0 .. 0 |-> <<>>]
  <2>1. f[0] = <<>> /\ f = [n \in 0 .. 0 |-> f[n]] /\ 1 .. 0 = {}
    OBVIOUS
  <2> HIDE DEF f
  <2>2. CommandsOf(c, 0, f)
    <3>1. \A n \in 1 .. 0 : f[n] = Answered(f[n - 1], c.lines[n].command)
      BY <2>1
    <3>2. 0 \in Nat
      OBVIOUS
    <3> QED
      BY <2>1, <3>1, <3>2, CommandsAre, Zenon
  <2> QED
    BY <1>2, <2>2
<1>3. CASE t # 0
  <2>1. t \in Nat /\ t - 1 \in Nat /\ t - 1 \notin T
    BY <1>1, <1>3
  <2>2. PICK f : CommandsOf(c, t - 1, f)
    BY <2>1
  <2>3. /\ f = [n \in 0 .. t - 1 |-> f[n]] /\ f[0] = <<>>
        /\ \A n \in 1 .. t - 1 : f[n] = Answered(f[n - 1], c.lines[n].command)
    <3> DEFINE k == t - 1
    <3>1. k \in Nat /\ CommandsOf(c, k, f)
      BY <2>1, <2>2
    <3> HIDE DEF k
    <3>2. /\ f = [n \in 0 .. k |-> f[n]] /\ f[0] = <<>>
          /\ \A n \in 1 .. k : f[n] = Answered(f[n - 1], c.lines[n].command)
      BY <3>1, CommandsAre
    <3> QED
      BY <3>2 DEF k
  <2> DEFINE g == [n \in 0 .. t |-> IF n = t THEN Answered(f[t - 1], c.lines[t].command) ELSE f[n]]
  <2>4. /\ g = [n \in 0 .. t |-> g[n]] /\ g[t] = Answered(f[t - 1], c.lines[t].command)
        /\ \A n \in 0 .. t - 1 : g[n] = f[n]
    BY <2>1
  <2> HIDE DEF g
  <2>5. g[0] = <<>>
    <3>1. 0 \in 0 .. t - 1
      BY <2>1
    <3> QED
      BY <2>3, <2>4, <3>1
  <2>6. ASSUME NEW n \in 1 .. t
        PROVE  g[n] = Answered(g[n - 1], c.lines[n].command)
    <3>1. n - 1 \in 0 .. t - 1
      BY <2>1
    <3>2. CASE n = t
      BY <2>4, <3>1, <3>2
    <3>3. CASE n # t
      <4>1. n \in 1 .. t - 1 /\ n \in 0 .. t - 1
        BY <2>1, <3>3
      <4> QED
        BY <2>3, <2>4, <3>1, <4>1
    <3> QED
      BY <3>2, <3>3
  <2>7. CommandsOf(c, t, g)
    BY <2>1, <2>4, <2>5, <2>6, CommandsAre
  <2> QED
    BY <2>7
<1> QED
  BY <1>2, <1>3

\* A line more is a command more, unless it is blank.
LEMMA CommandsGrow ==
  ASSUME NEW c, NEW k \in Nat
  PROVE  /\ Commands(c, 0) = <<>>
         /\ Commands(c, k + 1) = Answered(Commands(c, k), c.lines[k + 1].command)
<1>1. ASSUME NEW m \in Nat
      PROVE  CommandsOf(c, m, CHOOSE f : CommandsOf(c, m, f))
  BY CommandsCounted
<1> DEFINE z == CHOOSE x : CommandsOf(c, 0, x)
           f == CHOOSE x : CommandsOf(c, k, x)
           g == CHOOSE x : CommandsOf(c, k + 1, x)
           h == [n \in 0 .. k |-> g[n]]
<1>2. k + 1 \in Nat /\ 0 \in Nat
  OBVIOUS
<1>3. CommandsOf(c, 0, z) /\ CommandsOf(c, k, f) /\ CommandsOf(c, k + 1, g)
  BY <1>1, <1>2
<1>4. Commands(c, 0) = z[0] /\ Commands(c, k) = f[k] /\ Commands(c, k + 1) = g[k + 1]
  BY DEF Commands
<1>5. h = [n \in 0 .. k |-> h[n]] /\ \A n \in 0 .. k : h[n] = g[n]
  OBVIOUS
<1> HIDE DEF z, f, g, h
<1>6. z[0] = <<>>
  BY <1>2, <1>3, CommandsAre
<1>7. /\ g[0] = <<>>
      /\ \A n \in 1 .. k + 1 : g[n] = Answered(g[n - 1], c.lines[n].command)
  BY <1>2, <1>3, CommandsAre
<1>8. CommandsOf(c, k, h)
  <2>1. h[0] = <<>>
    BY <1>5, <1>7
  <2>2. \A n \in 1 .. k : h[n] = Answered(h[n - 1], c.lines[n].command)
    <3> TAKE n \in 1 .. k
    <3>1. n \in 0 .. k /\ n - 1 \in 0 .. k /\ n \in 1 .. k + 1
      OBVIOUS
    <3> QED
      BY <1>5, <1>7, <3>1
  <2> QED
    BY <1>5, <2>1, <2>2, CommandsAre
<1>9. h = f
  BY <1>3, <1>8, CommandsOnce
<1>10. g[k + 1] = Answered(g[k], c.lines[k + 1].command) /\ g[k] = f[k]
  <2>1. k + 1 \in 1 .. k + 1 /\ (k + 1) - 1 = k /\ k \in 0 .. k
    OBVIOUS
  <2> QED
    BY <1>5, <1>7, <1>9, <2>1
<1> QED
  BY <1>4, <1>6, <1>10

\* The commands typed so far are those of the lines typed so far.
LEMMA TypedIs == Typed = Commands(client, keys)
BY DEF Typed, Commands, CommandsOf

-----------------------------------------------------------------------------
(* The commands of a line-mode client.                                     *)

Nvt == client.link = "nvt"

\* Where the START-TLS scan stands in the client's commands.
TelMark(t) ==
  IF t \in Verbs THEN "verb" ELSE IF t \in {"text", "cmd", "skip", "skipIac"} THEN t ELSE "data"

Here == IF at = "offered" THEN TelMark(tel) ELSE "text"

\* The session is not served yet and START-TLS not accepted.
Apart == (at = "offered" /\ tls = "no") \/ (at = "negotiate" /\ tls # "offered")

\* From the mark m on, the bytes x answer the typed commands.
TypedIn(m, x, typed) ==
  m \in Between /\ ~Contains(x, "SB") /\ Lines[x][Resting(m, <<>>)] = Idle(typed)

\* They do so ahead of the acceptance of START-TLS.
TypedAhead(m, x, typed) ==
  \E old, rest : /\ old \in Seq(Byte) /\ rest \in Seq(Byte) /\ x = old \o rest
                 /\ old # <<>> /\ Len(rest) >= 9 /\ TypedIn(m, old, typed)

\* Nothing is answered before the session, and nothing typed before the thread
\* has started; START-TLS is not offered in a line-mode session.
SpokenInv ==
  /\ answers \in Records /\ (Nvt => Typed \in Records)
  /\ at \in Beginning => answers = <<>>
  /\ at = "start" => keys = 0
  /\ at = "nvt" => "DO STARTTLS" \notin ToSet(down)

\* As long as no byte was dropped, a terminal has sent whole commands before
\* its session, and a line-mode client what it typed, with commands in it.
ApartInv ==
  ~torn /\ Apart => IF Nvt THEN TypedIn(Here, up, Typed) ELSE Marked[up][Here] = "text"

\* What was typed before START-TLS was accepted would be dropped before the
\* drain comes to FOLLOWS.
AcceptInv ==
  ~torn /\ Nvt /\ at = "offered" /\ tls = "offered" =>
    Typed = <<>> \/ TypedAhead(TelMark(tel), up, Typed)

\* So the handshake of a client that accepted comes before its first line.
HandInv ==
  at = "handshake" /\ client.tls = "will" =>
    /\ ~torn /\ Nvt => Typed = <<>>
    /\ secure # "starttls" => up = IF tls = "hello" THEN Hello ELSE <<>>

\* What was received and what is under way are the lines not answered yet.
ServeInv ==
  ~torn /\ at = "nvt" =>
    /\ Nvt /\ Lines[rx \o up][Idle(answers)] = Idle(Typed)
    /\ <<"logoff">> \notin ToSet(answers)


\* Where the scan's state leaves the mark.
Reached(s) == IF s.tel = "refused" THEN "text" ELSE TelMark(s.tel)

\* A step of the scan that drops nothing and accepts nothing takes the mark on
\* as the bytes do.
LEMMA ScanMarks ==
  ASSUME NEW t \in {"text", "cmd", "skip", "skipIac"} \cup Verbs, NEW n, NEW d \in 0 .. ScanLimit,
         NEW b, t \in {"skip", "skipIac"} => d # 0,
         ~(t = "WILL" /\ b = "STARTTLS"), ~(t = "text" /\ b # "IAC"),
         LET s == Decided(ScanByte([tel |-> t, left |-> n, drained |-> d], b))
         IN ~(s.tel = "text" /\ s.drained = 0 /\ d > 0)
  PROVE  LET s == Decided(ScanByte([tel |-> t, left |-> n, drained |-> d], b))
         IN /\ s.tel \notin {"accepted", "drain", "drainIac"}
            /\ Reached(s) \in Marks
            /\ MarkByte(TelMark(t), b) # "data" => Reached(s) = MarkByte(TelMark(t), b)
            /\ TelMark(t) \in Between /\ b # "SB" => Reached(s) = LineMark(TelMark(t), b)
<1> USE LimitAssumption
<1> DEFINE r == [tel |-> t, left |-> n, drained |-> d]
           u == ScanByte(r, b)
           s == Decided(u)
<1> SUFFICES /\ s.tel \notin {"accepted", "drain", "drainIac"}
             /\ Reached(s) \in Marks
             /\ MarkByte(TelMark(t), b) # "data" => Reached(s) = MarkByte(TelMark(t), b)
             /\ TelMark(t) \in Between /\ b # "SB" => Reached(s) = LineMark(TelMark(t), b)
  OBVIOUS
<1>0. ~(s.tel = "text" /\ s.drained = 0 /\ d > 0)
  OBVIOUS
<1>1. r.tel = t /\ r.left = n /\ r.drained = d
  OBVIOUS
<1>2. CASE t = "text"
  <2>1. b = "IAC"
    BY <1>2
  <2>2. u = [r EXCEPT !.tel = "cmd", !.left = n - 1]
    BY <1>1, <1>2, <2>1 DEF ScanByte, Verbs
  <2>3. u.tel = "cmd"
    BY <2>2
  <2> HIDE DEF u
  <2>4. s.tel = "cmd"
    BY <2>3 DEF Decided
  <2> HIDE DEF s
  <2> QED
    BY <1>2, <2>1, <2>4 DEF Reached, TelMark, Marks, MarkByte, LineMark, Between, Verbs
<1>3. CASE t = "cmd"
  <2>1. u = [r EXCEPT !.tel = IF b \in Verbs THEN b ELSE IF b = "SB" THEN "skip" ELSE "text",
                      !.drained = ScanLimit]
    BY <1>1, <1>3 DEF ScanByte, Verbs
  <2>2. /\ u.tel = IF b \in Verbs THEN b ELSE IF b = "SB" THEN "skip" ELSE "text"
        /\ u.drained = ScanLimit
    BY <2>1
  <2> HIDE DEF u
  <2>3. s = u
    BY <2>2 DEF Decided, Verbs
  <2> HIDE DEF s
  <2> QED
    BY <1>3, <2>2, <2>3 DEF Reached, TelMark, Marks, MarkByte, LineMark, Between, Verbs
<1>4. CASE t \in Verbs
  <2>1. u = [r EXCEPT !.tel = IF b # "STARTTLS" THEN "text" ELSE "refused"]
    BY <1>1, <1>4 DEF ScanByte, Verbs
  <2>2. u.tel = IF b # "STARTTLS" THEN "text" ELSE "refused"
    BY <2>1
  <2> HIDE DEF u
  <2>3. s = u
    BY <2>2 DEF Decided
  <2> HIDE DEF s
  <2> QED
    BY <1>4, <2>2, <2>3 DEF Reached, TelMark, Marks, MarkByte, LineMark, Between, Verbs
<1>5. CASE t = "skipIac" /\ b = "SE"
  <2>1. u = [r EXCEPT !.tel = "text"]
    BY <1>1, <1>5 DEF ScanByte, Verbs
  <2>2. u.tel = "text"
    BY <2>1
  <2> HIDE DEF u
  <2>3. s = u
    BY <2>2 DEF Decided
  <2> HIDE DEF s
  <2> QED
    BY <1>5, <2>2, <2>3 DEF Reached, TelMark, Marks, MarkByte, LineMark, Between, Verbs
<1>6. CASE t \in {"skip", "skipIac"} /\ ~(t = "skipIac" /\ b = "SE")
  <2>1. u = [r EXCEPT !.tel = IF b = "IAC" THEN "skipIac" ELSE "skip", !.drained = d - 1]
    BY <1>1, <1>6 DEF ScanByte, Verbs
  <2>2. u.tel = (IF b = "IAC" THEN "skipIac" ELSE "skip") /\ u.drained = d - 1
    BY <2>1
  <2>3. (s.tel = "text" /\ s.drained = 0) \/ s = u
    <3>1. (s = [u EXCEPT !.tel = "text"] /\ u.drained = 0) \/ s = u
      <4> HIDE DEF u
      <4> QED
        BY <2>2 DEF Decided
    <3>2. [u EXCEPT !.tel = "text"].tel = "text" /\ [u EXCEPT !.tel = "text"].drained = u.drained
      BY <2>1
    <3> HIDE DEF u, s
    <3> QED
      BY <3>1, <3>2
  <2> HIDE DEF u, s
  <2>4. s = u
    BY <1>0, <1>6, <2>3
  <2>5. TelMark(t) = t
    BY <1>6 DEF TelMark, Verbs
  <2> QED
    BY <1>6, <2>2, <2>4, <2>5 DEF Reached, TelMark, Marks, MarkByte, Between, Verbs
<1> QED
  BY <1>2, <1>3, <1>4, <1>5, <1>6

-----------------------------------------------------------------------------
(* What is said and scanned of a client's commands and lines.              *)

\* A byte that is in neither of two sequences.
LEMMA NowhereIn ==
  ASSUME NEW s \in Seq(Byte), NEW t \in Seq(Byte), NEW b, ~Contains(s, b), ~Contains(t, b)
  PROVE  s \o t \in Seq(Byte) /\ ~Contains(s \o t, b)
<1> DEFINE u == s \o t
<1>1. /\ u \in Seq(Byte) /\ Len(s) \in Nat /\ Len(t) \in Nat /\ Len(u) = Len(s) + Len(t)
      /\ \A k \in 1 .. Len(s) : u[k] = s[k]
      /\ \A i \in 1 .. Len(t) : u[Len(s) + i] = t[i]
  BY Joined
<1>2. /\ \A k \in 1 .. Len(s) : s[k] # b
      /\ \A i \in 1 .. Len(t) : t[i] # b
  BY DEF Contains
<1> HIDE DEF u
<1>3. ASSUME NEW k \in 1 .. Len(u)
      PROVE  u[k] # b
  <2>1. CASE k \in 1 .. Len(s)
    BY <1>1, <1>2, <2>1
  <2>2. CASE k \notin 1 .. Len(s)
    <3>1. k - Len(s) \in 1 .. Len(t) /\ Len(s) + (k - Len(s)) = k
      BY <1>1, <2>2
    <3> QED
      BY <1>1, <1>2, <3>1
  <2> QED
    BY <2>1, <2>2
<1>4. u \in Seq(Byte) /\ ~Contains(u, b)
  BY <1>1, <1>3 DEF Contains
<1> QED
  BY <1>4 DEF u

\* A byte that is nowhere in two strings is nowhere in the first.
LEMMA NowhereInPart ==
  ASSUME NEW s \in Seq(Byte), NEW t \in Seq(Byte), NEW b, ~Contains(s \o t, b)
  PROVE  ~Contains(s, b)
<1> DEFINE u == s \o t
<1>1. /\ Len(s) \in Nat /\ Len(t) \in Nat /\ Len(u) = Len(s) + Len(t)
      /\ \A k \in 1 .. Len(s) : u[k] = s[k]
  BY Joined
<1>2. \A k \in 1 .. Len(u) : u[k] # b
  BY DEF Contains
<1> HIDE DEF u
<1>3. \A k \in 1 .. Len(s) : k \in 1 .. Len(u)
  BY <1>1
<1> QED
  BY <1>1, <1>2, <1>3 DEF Contains

\* With nothing under way, nothing has been typed.
LEMMA NothingTyped ==
  /\ TypedIn("text", <<>>, <<>>)
  /\ \A m, typed : TypedIn(m, <<>>, typed) => typed = <<>>
<1>1. <<>> \in Records /\ <<>> \in Seq(Byte) /\ ~Contains(<<>>, "SB") /\ "text" \in Between
  BY EmptySeq DEF Contains, Records, Between
<1>2. \A m \in Between : Resting(m, <<>>) \in Typing
  BY <1>1, MarkLine
<1>3. \A m \in Between : Lines[<<>>][Resting(m, <<>>)] = Resting(m, <<>>)
  BY <1>2, LinesRead
<1>4. Resting("text", <<>>) = Idle(<<>>)
  BY <1>1, MarkLine
<1>5. ASSUME NEW m, NEW typed, TypedIn(m, <<>>, typed)
      PROVE  typed = <<>>
  <2>1. Resting(m, <<>>) = Idle(typed)
    BY <1>3, <1>5 DEF TypedIn
  <2>2. Resting(m, <<>>).got = <<>> /\ Idle(typed).got = typed
    BY DEF Resting, Idle
  <2> QED
    BY <2>1, <2>2
<1>6. TypedIn("text", <<>>, <<>>)
  BY <1>1, <1>3, <1>4 DEF TypedIn
<1> QED
  BY <1>5, <1>6

\* Whole commands say nothing of what is typed.
LEMMA CommandsSaid ==
  ASSUME NEW m, NEW x \in Seq(Byte), NEW typed \in Records, TypedIn(m, x, typed),
         NEW bytes \in Seq(Byte), ~Contains(bytes, "SB"), Marked[bytes]["text"] = "text"
  PROVE  TypedIn(m, x \o bytes, typed)
<1>1. m \in Between /\ ~Contains(x, "SB") /\ Lines[x][Resting(m, <<>>)] = Idle(typed)
  BY DEF TypedIn
<1>2. Resting(m, <<>>) \in Typing
  <2>1. <<>> \in Records
    BY EmptySeq DEF Records
  <2> QED
    BY <1>1, <2>1, MarkLine
<1>3. Lines[x \o bytes][Resting(m, <<>>)] = Lines[bytes][Lines[x][Resting(m, <<>>)]]
  BY <1>2, LinesRead
<1>4. Lines[bytes][Idle(typed)] = Idle(typed)
  <2>1. Scanned(bytes).mark = "text"
    BY ScannedMark
  <2> QED
    BY <2>1, ScannedLines
<1>5. ~Contains(x \o bytes, "SB")
  BY <1>1, NowhereIn
<1> QED
  BY <1>1, <1>3, <1>4, <1>5 DEF TypedIn

\* A line typed is a command more, wherever the reader of the lines is.
LEMMA LineEntered ==
  ASSUME NEW x \in Seq(Byte), NEW u \in Typing, NEW typed \in Records, Lines[x][u] = Idle(typed),
         NEW bytes \in Seq(Byte), ~Contains(bytes, "LF")
  PROVE  /\ bytes \o <<"CR", "LF">> \in Seq(Byte)
         /\ Lines[x \o (bytes \o <<"CR", "LF">>)][u] = Idle(Answered(typed, StripNvt(bytes)))
<1> DEFINE said == bytes \o <<"CR", "LF">>
<1>1. said \in Seq(Byte)
  BY ByteAssumption, ConcatProperties
<1>2. Lines[said][Idle(typed)] = Idle(Answered(typed, StripNvt(bytes)))
  BY TypedLine
<1> HIDE DEF said
<1>3. Lines[x \o said][u] = Lines[said][Lines[x][u]]
  BY <1>1, LinesRead
<1> QED
  BY <1>1, <1>2, <1>3 DEF said

\* In the clear.
LEMMA LineSaid ==
  ASSUME NEW m, NEW x \in Seq(Byte), NEW typed \in Records, TypedIn(m, x, typed),
         NEW bytes \in Seq(Byte), ~Contains(bytes, "LF"), ~Contains(bytes, "SB")
  PROVE  TypedIn(m, x \o (bytes \o <<"CR", "LF">>), Answered(typed, StripNvt(bytes)))
<1>1. m \in Between /\ ~Contains(x, "SB") /\ Lines[x][Resting(m, <<>>)] = Idle(typed)
  BY DEF TypedIn
<1>2. Resting(m, <<>>) \in Typing
  <2>1. <<>> \in Records
    BY EmptySeq DEF Records
  <2> QED
    BY <1>1, <2>1, MarkLine
<1>3. Lines[x \o (bytes \o <<"CR", "LF">>)][Resting(m, <<>>)] = Idle(Answered(typed, StripNvt(bytes)))
  BY <1>1, <1>2, LineEntered
<1>4. ~Contains(x \o (bytes \o <<"CR", "LF">>), "SB")
  <2>1. <<"CR", "LF">> \in Seq(Byte) /\ ~Contains(<<"CR", "LF">>, "SB")
    BY ByteAssumption DEF Contains
  <2> DEFINE end == <<"CR", "LF">>
  <2> HIDE DEF end
  <2>2. bytes \o end \in Seq(Byte) /\ ~Contains(bytes \o end, "SB")
    BY <2>1, NowhereIn DEF end
  <2>3. ~Contains(x \o (bytes \o end), "SB")
    BY <1>1, <2>2, NowhereIn
  <2> QED
    BY <2>3 DEF end
<1> QED
  BY <1>1, <1>3, <1>4 DEF TypedIn

\* A byte of a command scanned.
LEMMA TypedScan ==
  ASSUME NEW m, NEW x \in Seq(Byte), x # <<>>, NEW typed, TypedIn(m, x, typed),
         m = "text" => Head(x) = "IAC"
  PROVE  Head(x) # "SB" /\ m \in Between /\ TypedIn(LineMark(m, Head(x)), Tail(x), typed)
<1> DEFINE b == Head(x)
           k == LineMark(m, b)
           t == Tail(x)
<1>1. m \in Between /\ ~Contains(x, "SB") /\ Lines[x][Resting(m, <<>>)] = Idle(typed)
  BY DEF TypedIn
<1>2. /\ Len(x) \in Nat \ {0} /\ b = x[1] /\ b \in Byte /\ t \in Seq(Byte) /\ Len(t) = Len(x) - 1
      /\ \A i \in 1 .. Len(t) : t[i] = x[i + 1]
  BY HeadTailProperties, EmptySeq
<1>3. <<>> \in Records
  BY EmptySeq DEF Records
<1>4. k \in Between /\ LineByte(Resting(m, <<>>), b) = Resting(k, <<>>)
  BY <1>1, <1>2, <1>3, MarkLine
<1>5. Resting(m, <<>>) \in Typing
  BY <1>1, <1>3, MarkLine
<1>6. Lines[x][Resting(m, <<>>)] = Lines[t][LineByte(Resting(m, <<>>), b)]
  BY <1>5, LinesRead
<1> HIDE DEF b, k, t
<1>7. b # "SB" /\ ~Contains(t, "SB")
  <2>1. \A i \in 1 .. Len(x) : x[i] # "SB"
    BY <1>1 DEF Contains
  <2>2. \A i \in 1 .. Len(t) : i + 1 \in 1 .. Len(x)
    BY <1>2
  <2>3. 1 \in 1 .. Len(x)
    BY <1>2
  <2> QED
    BY <1>2, <2>1, <2>2, <2>3 DEF Contains
<1>8. TypedIn(k, t, typed)
  BY <1>1, <1>4, <1>6, <1>7 DEF TypedIn
<1> QED
  BY <1>1, <1>7, <1>8 DEF b, k, t

-----------------------------------------------------------------------------
(* Every line-mode command is answered.                                    *)

\* What has been typed, and who types it, unless a line is typed.
LEMMA TypedKept ==
  /\ UNCHANGED client => (Nvt' <=> Nvt)
  /\ UNCHANGED <<client, keys>> => Typed' = Typed
<1>1. Typed' = Commands(client', keys')
  BY DEF Typed, Commands, CommandsOf
<1> QED
  BY <1>1, TypedIs DEF Nvt

\* What a line adds to the commands.
LineAdds(line) ==
  /\ Typed' = Answered(Typed, line.command) /\ line.command \in Seq(Byte)
  /\ line.bytes \in Seq(Byte) /\ ~Contains(line.bytes, "LF") /\ ~Contains(line.bytes, "SB")
  /\ StripNvt(line.bytes) = line.command

\* A line is typed.
LEMMA LineTyped ==
  ASSUME IInv, TypeLine
  PROVE  Nvt /\ LineAdds(client.lines[keys + 1]) /\ Say(client.lines[keys + 1].bytes \o <<"CR", "LF">>)
<1> DEFINE arrival == <<secure, client>>
           n == keys + 1
           line == client.lines[n]
<1>1. arrival \in Arrivals /\ arrival[2] = client /\ keys \in Nat
  BY DEF IInv, TypeInv, TypeOK
<1>2. /\ client.lines \in Seq([bytes : Seq(Byte \ {"hello1"}), command : Seq(Byte)])
      /\ \A k \in DOMAIN client.lines :
           /\ {"LF", "SB", "STARTTLS"} \cap ToSet(client.lines[k].bytes) = {}
           /\ StripNvt(client.lines[k].bytes) = client.lines[k].command
  BY <1>1, ArrivalAssumption, TalkAssumption
<1>3. Len(client.lines) \in Nat /\ DOMAIN client.lines = 1 .. Len(client.lines)
  BY <1>2, LenProperties
<1>4. n \in 1 .. Len(client.lines)
  BY <1>1, <1>3 DEF TypeLine
<1>5. line \in [bytes : Seq(Byte \ {"hello1"}), command : Seq(Byte)]
  <2> DEFINE S == [bytes : Seq(Byte \ {"hello1"}), command : Seq(Byte)]
             lines == client.lines
  <2>1. lines \in Seq(S) /\ n \in 1 .. Len(lines)
    BY <1>2, <1>4
  <2> HIDE DEF S, lines, n
  <2>2. lines[n] \in S
    BY <2>1, ElementOfSeq
  <2> QED
    BY <2>2 DEF S, lines
<1>6. line.bytes \in Seq(Byte)
  BY <1>4, ClientBytes DEF ClientSays
<1>7. ~Contains(line.bytes, "LF") /\ ~Contains(line.bytes, "SB")
  <2>1. {"LF", "SB", "STARTTLS"} \cap ToSet(line.bytes) = {}
    BY <1>2, <1>3, <1>4
  <2> DEFINE bytes == line.bytes
  <2>2. DOMAIN bytes = 1 .. Len(bytes)
    BY <1>6, LenProperties
  <2>3. {"LF", "SB", "STARTTLS"} \cap ToSet(bytes) = {}
    BY <2>1
  <2> HIDE DEF bytes, line
  <2>4. \A i \in 1 .. Len(bytes) : bytes[i] \in ToSet(bytes)
    BY <2>2 DEF ToSet
  <2>5. ~Contains(bytes, "LF") /\ ~Contains(bytes, "SB")
    BY <2>3, <2>4 DEF Contains
  <2> QED
    BY <2>5 DEF bytes
<1>8. StripNvt(line.bytes) = line.command
  BY <1>2, <1>3, <1>4
<1>9. Typed' = Answered(Typed, line.command)
  <2>1. Typed' = Commands(client', keys')
    BY DEF Typed, Commands, CommandsOf
  <2>2. client' = client /\ keys' = keys + 1
    BY DEF TypeLine
  <2>3. Commands(client, keys + 1) = Answered(Commands(client, keys), client.lines[keys + 1].command)
    BY <1>1, CommandsGrow
  <2> QED
    BY <2>1, <2>2, <2>3, TypedIs
<1>10. LineAdds(line)
  BY <1>5, <1>6, <1>7, <1>8, <1>9 DEF LineAdds
<1> QED
  BY <1>10 DEF TypeLine, Nvt

\* A step that neither types nor answers a line, and serves none but who was
\* served before or has nothing to read.
LEMMA SpokenOn ==
  ASSUME SpokenInv, UNCHANGED <<client, answers>>, Nvt => Typed' \in Records,
         at' \in Beginning => at \in Beginning,
         at' = "start" => at = "start" /\ keys' = keys,
         at' = "nvt" => ToSet(down') = {} \/ (at = "nvt" /\ ToSet(down') \subseteq ToSet(down))
  PROVE  SpokenInv'
BY TypedKept DEF SpokenInv

\* The line that ends first, answered.
LEMMA LineServed ==
  ASSUME StreamTyped, answers \in Records, ServeLine
  PROVE  /\ answers' \in Records /\ rx' \in Seq(Byte)
         /\ \A x \in Seq(Byte) : Lines[rx \o x][Idle(answers)] = Lines[rx' \o x][Idle(answers')]
         /\ at' \in {"nvt", "closed"}
         /\ at' = "nvt" /\ <<"logoff">> \notin ToSet(answers) => <<"logoff">> \notin ToSet(answers')
<1> DEFINE end == LineEnd(rx)
           raw == SubSeq(rx, 1, end - 1)
           cmd == StripNvt(raw)
           more == SubSeq(rx, end + 1, Len(rx))
<1>1. /\ rx' = more /\ answers' = Answered(answers, cmd) /\ Contains(rx, "LF")
      /\ at' = IF cmd = <<"logoff">> THEN "closed" ELSE at
      /\ at = "nvt"
  BY DEF ServeLine, LineEnd, Answered
<1>2. /\ end \in 1 .. Len(rx) /\ rx[end] = "LF" /\ \A i \in 1 .. end - 1 : rx[i] # "LF"
      /\ raw \in Seq(Byte) /\ more \in Seq(Byte) /\ rx \in Seq(Byte)
  BY <1>1, FirstLine DEF StreamTyped
<1>3. ~Contains(raw, "LF")
  <2>1. /\ Len(raw) = end - 1 /\ \A i \in 1 .. end - 1 : raw[i] = rx[i]
    <3>1. end - 1 \in Nat /\ end \in Nat
      BY <1>2
    <3>2. Len(rx) \in Nat /\ \A i \in 1 .. end - 1 : rx[i] \in Byte
      BY <1>2, LenProperties, ElementOfSeq
    <3> QED
      BY <1>2, <3>1, <3>2, SubSeqProperties
  <2> HIDE DEF end, raw
  <2> QED
    BY <1>2, <2>1 DEF Contains
<1>4. rx = (raw \o <<"LF">>) \o more
  <2> HIDE DEF end
  <2>0. end \in Nat /\ end - 1 \in Nat /\ Len(rx) \in Nat
    BY <1>2, LenProperties
  <2>1. raw \o SubSeq(rx, end, end) = SubSeq(rx, 1, end)
    <3>1. 1 \in 1 .. Len(rx) + 1 /\ end - 1 \in 1 - 1 .. Len(rx) /\ end \in end - 1 .. Len(rx)
          /\ (end - 1) + 1 = end
      BY <1>2, <2>0
    <3>2. SubSeq(rx, 1, end - 1) \o SubSeq(rx, (end - 1) + 1, end) = SubSeq(rx, 1, end)
      BY <1>2, <3>1, ConcatAdjacentSubSeq
    <3> QED
      BY <3>1, <3>2
  <2>2. SubSeq(rx, 1, end) \o more = SubSeq(rx, 1, Len(rx))
    <3>1. 1 \in 1 .. Len(rx) + 1 /\ end \in 1 - 1 .. Len(rx) /\ Len(rx) \in end .. Len(rx)
      BY <1>2, <2>0
    <3> QED
      BY <1>2, <3>1, ConcatAdjacentSubSeq
  <2>3. SubSeq(rx, end, end) = <<"LF">>
    <3>1. rx[end] \in Byte
      BY <1>2, ElementOfSeq
    <3>2. SubSeq(rx, end, end) = <<rx[end]>>
      <4>1. /\ SubSeq(rx, end, end) \in Seq(Byte) /\ Len(SubSeq(rx, end, end)) = 1
            /\ SubSeq(rx, end, end)[1] = rx[end]
        <5>1. \A i \in end .. end : rx[i] \in Byte
          BY <2>0, <3>1
        <5>2. /\ SubSeq(rx, end, end) \in Seq(Byte)
              /\ Len(SubSeq(rx, end, end)) = IF end <= end THEN end - end + 1 ELSE 0
              /\ \A i \in 1 .. end - end + 1 : SubSeq(rx, end, end)[i] = rx[end + i - 1]
          BY <1>2, <2>0, <5>1, SubSeqProperties
        <5>3. 1 \in 1 .. end - end + 1 /\ end + 1 - 1 = end /\ end - end + 1 = 1
          BY <2>0
        <5> QED
          BY <2>0, <5>2, <5>3
      <4> DEFINE s == SubSeq(rx, end, end)
                 t == <<rx[end]>>
      <4>2. t \in Seq(Byte) /\ Len(t) = 1 /\ t[1] = rx[end]
        BY <3>1
      <4>3. s \in Seq(Byte) /\ Len(s) = 1 /\ s[1] = rx[end]
        BY <4>1
      <4> HIDE DEF s, t
      <4>4. \A i \in 1 .. Len(s) : s[i] = t[i]
        BY <4>2, <4>3
      <4>5. s = t
        BY <4>2, <4>3, <4>4, SeqEqual
      <4> QED
        BY <4>5 DEF s, t
    <3> QED
      BY <1>2, <3>2
  <2>4. SubSeq(rx, 1, Len(rx)) = rx
    BY <1>2, SubSeqFull
  <2> QED
    BY <2>1, <2>2, <2>3, <2>4
<1>5. cmd \in Seq(Byte) /\ Answered(answers, cmd) \in Records
      /\ Lines[raw \o <<"LF">>][Idle(answers)] = Idle(Answered(answers, cmd))
  BY <1>2, <1>3, LineCut
<1> HIDE DEF end, raw, cmd, more
<1>6. ASSUME NEW x \in Seq(Byte)
      PROVE  Lines[rx \o x][Idle(answers)] = Lines[rx' \o x][Idle(answers')]
  <2> DEFINE line == raw \o <<"LF">>
             rest == more \o x
  <2>1. line \in Seq(Byte) /\ rest \in Seq(Byte) /\ Idle(answers) \in Typing
    BY <1>2, ByteAssumption, ConcatProperties, LinesRead
  <2>2. rx \o x = line \o rest
    <3>1. rx \o x = (line \o more) \o x
      BY <1>4
    <3>2. (line \o more) \o x = line \o rest
      <4> HIDE DEF line
      <4> QED
        BY <1>2, <2>1, Associative
    <3> QED
      BY <3>1, <3>2
  <2>3. Lines[line][Idle(answers)] = Idle(answers')
    BY <1>1, <1>5
  <2> HIDE DEF line, rest
  <2>4. Lines[line \o rest][Idle(answers)] = Lines[rest][Lines[line][Idle(answers)]]
    BY <2>1, LinesRead
  <2> QED
    BY <1>1, <2>2, <2>3, <2>4 DEF rest
<1>7. ASSUME at' = "nvt", <<"logoff">> \notin ToSet(answers)
      PROVE  <<"logoff">> \notin ToSet(answers')
  <2>1. cmd # <<"logoff">>
    BY <1>1, <1>7
  <2>2. CASE cmd = <<>>
    BY <1>1, <1>7, <2>2 DEF Answered
  <2>3. CASE cmd # <<>>
    <3>1. answers' = Append(answers, cmd)
      BY <1>1, <2>3 DEF Answered
    <3>2. ToSet(answers') = ToSet(answers) \cup {cmd}
      BY <1>5, <3>1, Appended DEF Records
    <3> QED
      BY <1>7, <2>1, <3>2
  <2> QED
    BY <2>2, <2>3
<1> QED
  BY <1>1, <1>2, <1>5, <1>6, <1>7

\* Every step keeps what is known of the answers before and in the session.
LEMMA SpokenStep ==
  ASSUME IInv, StreamTyped, QuietInv, SpokenInv, [Next]_vars
  PROVE  SpokenInv'
<1> USE DEF Beginning, Early
<1>0. Nvt => Typed \in Records
  BY DEF SpokenInv
<1>1. CASE TypeLine
  <2>1. Nvt /\ LineAdds(client.lines[keys + 1])
    BY <1>1, LineTyped
  <2>2. Typed' \in Records
    BY <1>0, <2>1, AppendProperties DEF LineAdds, Answered, Records
  <2>3. UNCHANGED <<client, answers, at, down>> /\ at # "start"
    BY <1>1 DEF TypeLine, histVars
  <2> QED
    BY <2>2, <2>3, SpokenOn DEF SpokenInv
<1>2. CASE ServeLine
  <2>1. /\ at = "nvt" /\ at' \in {"nvt", "closed"} /\ answers' \in Records
    BY <1>2, LineServed DEF ServeLine, SpokenInv
  <2>2. UNCHANGED <<client, keys, down>>
    BY <1>2 DEF ServeLine, clientVars
  <2> QED
    BY <1>0, <2>1, <2>2, TypedKept DEF SpokenInv
<1>3. CASE Start
  <2>1. at = "start" /\ at' \in {"negotiate", "handshake", "offered"}
    BY <1>3 DEF Start
  <2>2. UNCHANGED <<client, keys, answers>>
    BY <1>3 DEF Start, histVars, clientVars
  <2> QED
    BY <1>0, <2>1, <2>2, TypedKept, SpokenOn
<1>4. CASE ScanStarttls \/ Handshake
  <2>1. at \in Beginning /\ at' \in {"offered", "handshake", "negotiate", "closed"}
    BY <1>4 DEF ScanStarttls, Handshake
  <2>2. UNCHANGED <<client, keys, answers>>
    BY <1>4 DEF ScanStarttls, Handshake, histVars, clientVars
  <2> QED
    BY <1>0, <2>1, <2>2, TypedKept, SpokenOn
<1>5. CASE Negotiate
  <2>1. /\ down = <<>> /\ at' \in {"nvt", "query", "show"}
        /\ down' = IF at' = "query" THEN Append(down, "QUERY") ELSE down
    BY <1>5 DEF Negotiate
  <2>2. UNCHANGED <<client, keys, answers>>
    BY <1>5 DEF Negotiate, histVars, clientVars
  <2>3. ToSet(<<>>) = {}
    <3>1. DOMAIN <<>> = {}
      OBVIOUS
    <3> QED
      BY <3>1 DEF ToSet
  <2>4. at' = "nvt" => ToSet(down') = {}
    BY <2>1, <2>3
  <2> QED
    BY <1>0, <2>1, <2>2, <2>4, TypedKept, SpokenOn
<1>6. CASE ReadQueryReply \/ RequestReplyMode \/ Show \/ ReadReply \/ ReadUnit \/ NegotiationCut
  <2>1. at' \in {"query", "replymode", "show", "read"}
    BY <1>6 DEF ReadQueryReply, Settle, RequestReplyMode, Show, ReadReply, ReadUnit, NegotiationCut
  <2>2. UNCHANGED <<client, keys, answers>>
    BY <1>6 DEF ReadQueryReply, Settle, ReadRecord, RequestReplyMode, Show, ReadReply, ReadUnit,
                NegotiationCut, histVars, clientVars
  <2> QED
    BY <1>0, <2>1, <2>2, TypedKept, SpokenOn
<1>7. CASE Timeout \/ Disconnected
  <2>1. /\ at # "start" /\ UNCHANGED <<client, keys, answers>>
        /\ at' = CASE at = "offered" -> "negotiate" [] at = "query" -> "replymode"
                   [] OTHER -> "closed"
    BY <1>7 DEF Timeout, Timed, Disconnected, Failed, clientVars
  <2>2. at' \in {"negotiate", "replymode", "closed"} /\ (at' = "negotiate" => at = "offered")
    BY <2>1
  <2> QED
    BY <1>0, <2>1, <2>2, TypedKept, SpokenOn
<1>8. CASE Receive
  <2>1. UNCHANGED <<client, keys, answers, at>> /\ down' = Tail(down) /\ down # <<>>
    BY <1>8 DEF Receive, histVars
  <2>2. ToSet(down') \subseteq ToSet(down)
    BY <2>1, Taken DEF IInv, TypeInv
  <2> QED
    BY <1>0, <2>1, <2>2, TypedKept, SpokenOn
<1>9. CASE ReceiveLine \/ Connects \/ Press \/ HangUp \/ UNCHANGED vars
  <2>1. UNCHANGED <<client, answers, at, down>> /\ (at = "start" => keys' = keys)
    BY <1>9 DEF ReceiveLine, Connects, Press, Serving, HangUp, vars, histVars, clientVars
  <2>2. Nvt => keys' = keys
    BY <1>9 DEF ReceiveLine, Connects, Press, HangUp, vars, clientVars, Nvt
  <2>3. Nvt => Typed' = Typed
    BY <2>1, <2>2, TypedKept
  <2> QED
    BY <1>0, <2>1, <2>3, SpokenOn
<1> QED
  BY <1>1, <1>2, <1>3, <1>4, <1>5, <1>6, <1>7, <1>8, <1>9 DEF Next, Server

\* Of a client's lines and commands.
HeardInv == ApartInv /\ AcceptInv /\ HandInv /\ ServeInv

\* In a 3270 session, and when the thread has ended, nothing is known of them.
LEMMA HeardPast ==
  ASSUME at' \notin {"offered", "handshake", "negotiate", "nvt"}
  PROVE  HeardInv'
BY DEF HeardInv, ApartInv, AcceptInv, HandInv, ServeInv, Apart

\* A step that neither says nor reads anything, and goes nowhere.
LEMMA HeardKept ==
  ASSUME HeardInv, UNCHANGED <<client, keys, secure, at, tel, tls, up, rx, answers, torn>>
  PROVE  HeardInv'
<1>1. Typed' = Typed /\ (Nvt' <=> Nvt) /\ Here' = Here /\ (Apart' <=> Apart)
  BY TypedKept DEF Here, Apart
<1>2. ApartInv' /\ AcceptInv'
  BY <1>1 DEF HeardInv, ApartInv, AcceptInv
<1>3. HandInv' /\ ServeInv'
  BY <1>1 DEF HeardInv, HandInv, ServeInv
<1> QED
  BY <1>2, <1>3 DEF HeardInv

\* The thread starts before anything is said.
LEMMA HeardStart ==
  ASSUME IInv, OfferInv, SpokenInv, Start
  PROVE  HeardInv'
<1>1. /\ at = "start" /\ at' \in {"negotiate", "handshake", "offered"}
      /\ UNCHANGED <<client, keys, tel, tls, up>>
  BY DEF Start, scanVars, clientVars
<1>2. /\ up = <<>> /\ tls = "no" /\ tel = "text" /\ keys = 0
  BY <1>1 DEF OfferInv, SpokenInv
<1>3. Typed' = <<>>
  <2>1. Typed = Commands(client, 0)
    BY <1>2, TypedIs
  <2>2. Commands(client, 0) = <<>>
    <3>1. 0 \in Nat
      OBVIOUS
    <3> QED
      BY <3>1, CommandsGrow
  <2> QED
    BY <1>1, <2>1, <2>2, TypedKept
<1>4. Here' = "text"
  BY <1>1, <1>2 DEF Here, TelMark, Verbs
<1>5. TypedIn("text", <<>>, <<>>) /\ Marked[<<>>]["text"] = "text"
  BY NothingTyped, MarksRead DEF Marks
<1>6. ApartInv'
  BY <1>1, <1>2, <1>3, <1>4, <1>5 DEF ApartInv
<1> QED
  BY <1>1, <1>2, <1>3, <1>6 DEF HeardInv, AcceptInv, HandInv, ServeInv

\* The scan takes its byte before the client has answered the offer;
LEMMA HeardScanned ==
  ASSUME IInv, OfferInv, HeardInv, StreamTyped, ScanStarttls, tls = "no"
  PROVE  HeardInv'
<1> DEFINE b == Head(up)
           s == Decided(ScanByte([tel |-> tel, left |-> left, drained |-> drained], b))
           m == TelMark(tel)
<1>1. /\ at = "offered" /\ up # <<>> /\ tel' = s.tel /\ drained' = s.drained
      /\ at' = CASE s.tel = "accepted" -> "handshake"
                 [] s.tel = "refused" \/ (s.tel = "text" /\ s.left = 0) -> "negotiate"
                 [] OTHER -> at
      /\ up' = Tail(up) /\ UNCHANGED <<secure, client, tls, keys>>
      /\ torn' = (torn \/ (tel = "text" /\ b # "IAC") \/ (tel' = "text" /\ drained' = 0 /\ drained > 0))
  BY DEF ScanStarttls, clientVars
<1>2. /\ secure = "starttls" /\ drained \in 0 .. ScanLimit
      /\ tel \in {"text", "cmd"} \cup Verbs \cup Draining
      /\ tel \in Draining => drained # 0
  BY <1>1 DEF IInv, TypeInv, TypeOK, TlsInv, ScanInv
<1>3. OffersUnderWay /\ tel \notin {"drain", "drainIac"}
  BY <1>1 DEF OfferInv, Drains
<1>4. up \in Seq(Byte) /\ b \in Byte /\ b = up[1] /\ Len(up) # 0 /\ Tail(up) \in Seq(Byte)
  BY <1>1, HeadTailProperties, EmptySeq DEF StreamTyped
<1>5. ~(tel = "WILL" /\ b = "STARTTLS")
  BY <1>3, <1>4 DEF OffersUnderWay, FollowsFrom
<1>6. Typed' = Typed /\ (Nvt' <=> Nvt)
  BY <1>1, TypedKept
<1>7. at' \in {"handshake", "negotiate", "offered"}
  BY <1>1
<1>8. CASE torn'
  <2>1. at' # "nvt" /\ secure' = "starttls"
    BY <1>1, <1>2, <1>7
  <2>2. ApartInv' /\ AcceptInv' /\ ServeInv'
    BY <1>8 DEF ApartInv, AcceptInv, ServeInv
  <2>3. HandInv'
    BY <1>8, <2>1 DEF HandInv
  <2> QED
    BY <2>2, <2>3 DEF HeardInv
<1>9. CASE ~torn'
  <2>1. ~torn /\ ~(tel = "text" /\ b # "IAC") /\ ~(s.tel = "text" /\ s.drained = 0 /\ drained > 0)
    BY <1>1, <1>9
  <2>2. tel \in {"text", "cmd", "skip", "skipIac"} \cup Verbs
    <3> HIDE DEF s, b, m
    <3> QED
      BY <1>2, <1>3 DEF Draining
  <2>3. /\ s.tel \notin {"accepted", "drain", "drainIac"}
        /\ Reached(s) \in Marks
        /\ MarkByte(m, b) # "data" => Reached(s) = MarkByte(m, b)
        /\ m \in Between /\ b # "SB" => Reached(s) = LineMark(m, b)
    <3> DEFINE n == left
               d == drained
    <3>1. d \in 0 .. ScanLimit /\ (tel \in {"skip", "skipIac"} => d # 0)
      <4> HIDE DEF s, b, m
      <4> QED
        BY <1>2 DEF Draining
    <3>2. s = Decided(ScanByte([tel |-> tel, left |-> n, drained |-> d], b))
      OBVIOUS
    <3> HIDE DEF n, d, b, s
    <3> QED
      BY <1>5, <2>1, <2>2, <3>1, <3>2, ScanMarks DEF d
  <2>4. m = "text" => b = "IAC"
    BY <2>1, <2>2 DEF TelMark, Verbs
  <2>5. m \in Marks
    BY <2>2 DEF TelMark, Marks, Verbs
  <2> HIDE DEF s, b, m
  <2>6. at' \in {"offered", "negotiate"}
    BY <1>1, <2>3
  <2>7. Here' = Reached(s)
    <3>1. CASE at' = "offered"
      <4>1. s.tel # "refused"
        BY <1>1, <3>1
      <4> QED
        BY <1>1, <3>1, <4>1 DEF Here, Reached
    <3>2. CASE at' = "negotiate"
      <4>1. s.tel \in {"refused", "text"}
        BY <1>1, <3>2
      <4> QED
        BY <3>2, <4>1 DEF Here, Reached, TelMark, Verbs
    <3> QED
      BY <2>6, <3>1, <3>2
  <2>8. Apart /\ Here = m
    BY <1>1 DEF Apart, Here, m
  <2>9. CASE Nvt
    <3>1. TypedIn(m, up, Typed)
      BY <2>1, <2>8, <2>9 DEF HeardInv, ApartInv
    <3>2. b # "SB" /\ m \in Between /\ TypedIn(LineMark(m, b), Tail(up), Typed)
      BY <1>1, <1>4, <2>4, <3>1, TypedScan DEF b
    <3>3. TypedIn(Here', up', Typed')
      BY <1>1, <1>6, <2>3, <2>7, <3>2
    <3> QED
      BY <1>1, <1>2, <1>6, <2>6, <2>9, <3>3 DEF HeardInv, ApartInv, AcceptInv, HandInv, ServeInv
  <2>10. CASE ~Nvt
    <3>1. Marked[up][m] = "text"
      BY <2>1, <2>8, <2>10 DEF HeardInv, ApartInv
    <3>2. Marked[up][m] = Marked[Tail(up)][MarkByte(m, b)]
      BY <1>1, <1>4, <2>5, MarksRead DEF b
    <3>3. MarkByte(m, b) # "data"
      BY <1>4, <3>1, <3>2, MarkedData
    <3>4. Marked[up'][Here'] = "text"
      BY <1>1, <2>3, <2>7, <3>1, <3>2, <3>3
    <3> QED
      BY <1>1, <1>2, <1>6, <2>6, <2>10, <3>4 DEF HeardInv, ApartInv, AcceptInv, HandInv, ServeInv
  <2> QED
    BY <2>9, <2>10
<1> QED
  BY <1>8, <1>9

\* Ahead of the acceptance, a byte of what was typed before it.
LEMMA AheadScan ==
  ASSUME NEW m, NEW x \in Seq(Byte), NEW typed, TypedAhead(m, x, typed),
         m = "text" => Head(x) = "IAC"
  PROVE  /\ Head(x) # "SB" /\ m \in Between
         /\ typed = <<>> \/ TypedAhead(LineMark(m, Head(x)), Tail(x), typed)
<1>1. PICK old \in Seq(Byte), rest \in Seq(Byte) :
        x = old \o rest /\ old # <<>> /\ Len(rest) >= 9 /\ TypedIn(m, old, typed)
  BY DEF TypedAhead
<1>2. Head(x) = Head(old) /\ Tail(x) = Tail(old) \o rest /\ Tail(old) \in Seq(Byte)
  <2>1. /\ Tail(old) \in Seq(Byte)
        /\ \A t \in Seq(Byte) : Head(old \o t) = Head(old) /\ Tail(old \o t) = Tail(old) \o t
    BY <1>1, HeadAndTail
  <2> QED
    BY <1>1, <2>1
<1>3. Head(old) # "SB" /\ m \in Between /\ TypedIn(LineMark(m, Head(old)), Tail(old), typed)
  BY <1>1, <1>2, TypedScan
<1>4. CASE Tail(old) = <<>>
  BY <1>2, <1>3, <1>4, NothingTyped
<1>5. CASE Tail(old) # <<>>
  BY <1>1, <1>2, <1>3, <1>5 DEF TypedAhead
<1> QED
  BY <1>2, <1>3, <1>4, <1>5

\* and after it.
LEMMA HeardAccepted ==
  ASSUME IInv, OfferInv, HeardInv, StreamTyped, ScanStarttls, tls # "no"
  PROVE  HeardInv'
<1> USE LimitAssumption
<1> DEFINE b == Head(up)
           s == Decided(ScanByte([tel |-> tel, left |-> left, drained |-> drained], b))
           m == TelMark(tel)
<1>1. /\ at = "offered" /\ up # <<>> /\ tel' = s.tel /\ drained' = s.drained
      /\ at' = CASE s.tel = "accepted" -> "handshake"
                 [] s.tel = "refused" \/ (s.tel = "text" /\ s.left = 0) -> "negotiate"
                 [] OTHER -> at
      /\ up' = Tail(up) /\ UNCHANGED <<secure, client, tls, keys>>
      /\ torn' = (torn \/ (tel = "text" /\ b # "IAC") \/ (tel' = "text" /\ drained' = 0 /\ drained > 0))
  BY DEF ScanStarttls, clientVars
<1>2. /\ secure = "starttls" /\ drained \in 0 .. ScanLimit
      /\ tel \in {"text", "cmd"} \cup Verbs \cup Draining
      /\ tel \in Draining => drained # 0
      /\ tel \in Verbs => drained = ScanLimit
      /\ tls = "offered"
  BY <1>1 DEF IInv, TypeInv, TypeOK, TlsInv, ScanInv, Early
<1>3. OffersUnderWay /\ (tel \in {"drain", "drainIac"} => Len(up) \in 1 .. 6)
  BY <1>1 DEF OfferInv, Drains
<1>4. up \in Seq(Byte) /\ b \in Byte /\ b = up[1] /\ Len(up) # 0 /\ Tail(up) \in Seq(Byte)
  BY <1>1, HeadTailProperties, EmptySeq DEF StreamTyped
<1>5. tel = "WILL" /\ b = "STARTTLS" => Len(up) = 7
  BY <1>3, <1>4 DEF OffersUnderWay, FollowsFrom
<1>6. Typed' = Typed /\ (Nvt' <=> Nvt)
  BY <1>1, TypedKept
<1>7. at' \in {"handshake", "negotiate", "offered"}
  BY <1>1
<1>8. secure' = "starttls" /\ tls' = "offered" /\ at' # "nvt"
  BY <1>1, <1>2, <1>7
<1>9. ApartInv' /\ ServeInv'
  BY <1>8 DEF ApartInv, Apart, ServeInv
<1>10. ASSUME ~torn', Nvt, Typed # <<>>
       PROVE  at' # "handshake" /\ (at' = "offered" => TypedAhead(TelMark(tel'), up', Typed))
  <2>1. ~torn /\ ~(tel = "text" /\ b # "IAC") /\ ~(s.tel = "text" /\ s.drained = 0 /\ drained > 0)
    BY <1>1, <1>10
  <2>2. TypedAhead(m, up, Typed)
    BY <1>1, <1>2, <1>10, <2>1 DEF HeardInv, AcceptInv
  <2>3. ~(Len(up) \in 1 .. 7)
    <3>1. PICK old \in Seq(Byte), rest \in Seq(Byte) : up = old \o rest /\ Len(rest) >= 9
      BY <2>2 DEF TypedAhead
    <3>2. Len(up) = Len(old) + Len(rest) /\ Len(old) \in Nat /\ Len(rest) \in Nat
      BY <3>1, ConcatProperties, LenProperties
    <3> QED
      BY <3>1, <3>2
  <2>4. tel \notin {"drain", "drainIac"} /\ ~(tel = "WILL" /\ b = "STARTTLS")
    <3>1. 7 \in 1 .. 7 /\ \A n \in 1 .. 6 : n \in 1 .. 7
      OBVIOUS
    <3> QED
      BY <1>3, <1>5, <2>3, <3>1
  <2>5. tel \in {"text", "cmd", "skip", "skipIac"} \cup Verbs
    <3> HIDE DEF s, b, m
    <3> QED
      BY <1>2, <2>4 DEF Draining
  <2>6. /\ s.tel \notin {"accepted", "drain", "drainIac"}
        /\ m \in Between /\ b # "SB" => Reached(s) = LineMark(m, b)
    <3> DEFINE n == left
               d == drained
    <3>1. d \in 0 .. ScanLimit /\ (tel \in {"skip", "skipIac"} => d # 0)
      <4> HIDE DEF s, b, m
      <4> QED
        BY <1>2 DEF Draining
    <3>2. s = Decided(ScanByte([tel |-> tel, left |-> n, drained |-> d], b))
      OBVIOUS
    <3> HIDE DEF n, d, b, s
    <3> QED
      BY <2>1, <2>4, <2>5, <3>1, <3>2, ScanMarks DEF d
  <2>7. m = "text" => b = "IAC"
    BY <2>1, <2>5 DEF TelMark, Verbs
  <2> HIDE DEF s, b, m
  <2>8. b # "SB" /\ m \in Between /\ TypedAhead(LineMark(m, b), Tail(up), Typed)
    BY <1>4, <1>10, <2>2, <2>7, AheadScan DEF b
  <2>9. at' # "handshake"
    BY <1>1, <2>6
  <2>10. ASSUME at' = "offered"
         PROVE  TypedAhead(TelMark(tel'), up', Typed)
    <3>1. s.tel # "refused"
      BY <1>1, <2>10
    <3>2. TelMark(tel') = LineMark(m, b)
      BY <1>1, <2>6, <2>8, <3>1 DEF Reached
    <3> QED
      BY <1>1, <2>8, <3>2
  <2> QED
    BY <2>9, <2>10
<1> HIDE DEF s, b, m
<1>11. AcceptInv'
  BY <1>6, <1>10 DEF AcceptInv
<1>12. HandInv'
  BY <1>6, <1>8, <1>10 DEF HandInv
<1> QED
  BY <1>9, <1>11, <1>12 DEF HeardInv

\* The offer may be given up in the middle of a command; then bytes are lost.
LEMMA HeardFailed ==
  ASSUME IInv, HeardInv, Timeout \/ Disconnected
  PROVE  HeardInv'
<1>1. /\ at' = CASE at = "offered" -> "negotiate" [] at = "query" -> "replymode"
                 [] OTHER -> "closed"
      /\ torn' = (torn \/ (at = "query" /\ rx # <<>>) \/ (at = "offered" /\ tel # "text"))
      /\ UNCHANGED <<client, keys, tls, up>>
  BY DEF Timeout, Disconnected, Failed, clientVars
<1>2. CASE at # "offered"
  <2>1. at' \in {"replymode", "closed"}
    BY <1>1, <1>2
  <2> QED
    BY <2>1, HeardPast
<1>3. CASE at = "offered"
  <2>1. at' = "negotiate"
    BY <1>1, <1>3
  <2>2. Typed' = Typed /\ (Nvt' <=> Nvt) /\ Here' = "text"
    BY <1>1, <2>1, TypedKept DEF Here
  <2>3. tls \in {"no", "offered"}
    BY <1>3 DEF IInv, TypeInv, TypeOK, TlsInv, Early
  <2>4. ASSUME ~torn', tls' # "offered"
        PROVE  IF Nvt THEN TypedIn("text", up', Typed) ELSE Marked[up']["text"] = "text"
    <3>1. ~torn /\ tel = "text"
      BY <1>1, <1>3, <2>4
    <3>2. Apart /\ Here = "text"
      BY <1>1, <1>3, <2>3, <2>4, <3>1 DEF Apart, Here, TelMark, Verbs
    <3> QED
      BY <1>1, <3>1, <3>2 DEF HeardInv, ApartInv
  <2>5. ApartInv'
    BY <2>1, <2>2, <2>4 DEF ApartInv, Apart
  <2> QED
    BY <2>1, <2>5 DEF HeardInv, AcceptInv, HandInv, ServeInv
<1> QED
  BY <1>2, <1>3

\* The handshake takes the hello and nothing else is under way.
LEMMA HeardHandshake ==
  ASSUME IInv, OfferInv, HeardInv, Handshake
  PROVE  HeardInv'
<1>1. /\ at = "handshake" /\ UNCHANGED <<client, keys, tls, torn>>
      /\ \/ at' = "closed"
         \/ IsPrefix(Hello, up) /\ at' = "negotiate" /\ up' = SubSeq(up, Len(Hello) + 1, Len(up))
  BY DEF Handshake, histVars, clientVars
<1>2. CASE at' = "closed"
  BY <1>2, HeardPast
<1>3. CASE at' # "closed"
  <2>1. IsPrefix(Hello, up) /\ at' = "negotiate" /\ up' = SubSeq(up, Len(Hello) + 1, Len(up))
    BY <1>1, <1>3
  <2>2. ~IsPrefix(Hello, <<>>)
    BY DEF IsPrefix, Hello
  <2>3. client.tls = "will"
    <3>1. ASSUME client.tls # "will"
          PROVE  FALSE
      <4>1. tls = "no"
        BY <1>1, <3>1 DEF OfferInv, Early
      <4>2. up \in Seq(ClearBytes)
        BY <1>1, <4>1 DEF IInv, TlsInv, Early
      <4> QED
        BY <2>1, <4>2, NoHello
    <3> QED
      BY <3>1
  <2>4. up = Hello
    <3>1. CASE secure = "starttls"
      BY <1>1, <2>1, <2>2, <3>1 DEF OfferInv
    <3>2. CASE secure # "starttls"
      BY <1>1, <2>1, <2>2, <2>3, <3>2 DEF HeardInv, HandInv
    <3> QED
      BY <3>1, <3>2
  <2>5. up' = <<>>
    <3>1. SubSeq(Hello, Len(Hello) + 1, Len(Hello)) = <<>>
      BY DEF Hello
    <3> QED
      BY <2>1, <2>4, <3>1
  <2>6. Typed' = Typed /\ (Nvt' <=> Nvt) /\ Here' = "text"
    BY <1>1, <2>1, TypedKept DEF Here
  <2>7. ~torn /\ Nvt => Typed = <<>>
    BY <1>1, <2>3 DEF HeardInv, HandInv
  <2>8. TypedIn("text", <<>>, <<>>) /\ Marked[<<>>]["text"] = "text"
    BY NothingTyped, MarksRead DEF Marks
  <2>9. ApartInv'
    BY <1>1, <2>5, <2>6, <2>7, <2>8 DEF ApartInv
  <2> QED
    BY <2>1, <2>9 DEF HeardInv, AcceptInv, HandInv, ServeInv
<1> QED
  BY <1>2, <1>3

\* The negotiation leaves to the session what it is to answer, and a terminal
\* that said nothing but commands no line.
LEMMA HeardNegotiated ==
  ASSUME HeardInv, StreamTyped, SpokenInv, Negotiate
  PROVE  HeardInv'
<1>1. /\ at = "negotiate" /\ tls # "offered" /\ UNCHANGED <<client, keys, answers>>
      /\ \E c \in Cuts(up) \cup {<<<<>>, up>>} :
           LET m == Scanned(c[1])
           IN /\ up' = c[2] /\ torn' = (torn \/ m.mark \notin {"text", "data"})
              /\ \/ at' = "nvt" /\ rx' = (IF m.mark = "data" THEN m.kept ELSE <<>>)
                   /\ (client.link = "nvt" \/ m.mark = "data")
                 \/ at' \in {"query", "show"}
  BY DEF Negotiate, clientVars
<1>2. CASE at' \in {"query", "show"}
  BY <1>2, HeardPast
<1>3. CASE at' \notin {"query", "show"}
  <2>1. PICK c \in Cuts(up) \cup {<<<<>>, up>>} :
          LET m == Scanned(c[1])
          IN /\ up' = c[2] /\ torn' = (torn \/ m.mark \notin {"text", "data"})
             /\ at' = "nvt" /\ rx' = (IF m.mark = "data" THEN m.kept ELSE <<>>)
             /\ (client.link = "nvt" \/ m.mark = "data")
    BY <1>1, <1>3
  <2>2. c[1] \in Seq(Byte) /\ c[2] \in Seq(Byte) /\ c[1] \o c[2] = up
    BY HandedOver DEF StreamTyped
  <2> DEFINE m == Scanned(c[1])
  <2>3. /\ m \in Scans /\ m.kept \in Seq(Byte) /\ m.mark = Marked[c[1]]["text"]
        /\ "text" \in Marks
    BY <2>2, ScannedIs, ScannedMark DEF Scans, Marks
  <2>4. /\ up' = c[2] /\ torn' = (torn \/ m.mark \notin {"text", "data"})
        /\ at' = "nvt" /\ rx' = (IF m.mark = "data" THEN m.kept ELSE <<>>)
        /\ (client.link = "nvt" \/ m.mark = "data")
    BY <2>1
  <2>5. Apart /\ Here = "text" /\ answers = <<>>
    BY <1>1 DEF Apart, Here, SpokenInv, Beginning
  <2>6. Typed' = Typed /\ (Nvt' <=> Nvt)
    BY <1>1, TypedKept
  <2> HIDE DEF m
  <2>7. ASSUME ~torn'
        PROVE  Nvt /\ Lines[rx' \o up'][Idle(answers')] = Idle(Typed)
    <3>0. ~torn /\ m.mark \in {"text", "data"}
      BY <2>4, <2>7
    <3>1. Nvt
      <4>1. ASSUME ~Nvt
            PROVE  FALSE
        <5>1. Marked[up]["text"] = "text" /\ m.mark = "data"
          BY <2>4, <2>5, <3>0, <4>1 DEF HeardInv, ApartInv, Nvt
        <5>2. Marked[up]["text"] = Marked[c[2]][Marked[c[1]]["text"]]
          BY <2>2, <2>3, MarksRead
        <5>3. Marked[c[2]]["data"] = "data"
          BY <2>2, MarkedData
        <5> QED
          BY <2>3, <5>1, <5>2, <5>3
      <4> QED
        BY <4>1
    <3>2. ~Contains(up, "SB") /\ Lines[up][Resting("text", <<>>)] = Idle(Typed)
      BY <2>5, <3>0, <3>1 DEF HeardInv, ApartInv, TypedIn
    <3>3. /\ <<>> \in Records /\ Resting("text", <<>>) = Idle(<<>>) /\ Idle(<<>>) \in Typing
          /\ Lines[<<>>][Idle(<<>>)] = Idle(<<>>)
      <4>1. <<>> \in Records /\ "text" \in Between
        BY EmptySeq DEF Records, Between
      <4> QED
        BY <4>1, MarkLine, LinesRead
    <3>4. ~Contains(c[1], "SB")
      <4>1. ~Contains(c[1] \o c[2], "SB")
        BY <2>2, <3>2
      <4> QED
        BY <2>2, <4>1, NowhereInPart
    <3>5. /\ Lines[m.kept][Idle(<<>>)] = Lines[c[1]][Idle(<<>>)]
          /\ m.mark = "text" => Lines[c[1]][Idle(<<>>)] = Idle(<<>>)
      BY <2>2, <3>3, <3>4, ScannedLines DEF m
    <3>6. rx' \in Seq(Byte) /\ Lines[rx'][Idle(<<>>)] = Lines[c[1]][Idle(<<>>)]
      BY <2>3, <2>4, <3>0, <3>3, <3>5, EmptySeq
    <3>7. Lines[rx' \o c[2]][Idle(<<>>)] = Lines[c[1] \o c[2]][Idle(<<>>)]
      <4>1. /\ Lines[rx' \o c[2]][Idle(<<>>)] = Lines[c[2]][Lines[rx'][Idle(<<>>)]]
            /\ Lines[c[1] \o c[2]][Idle(<<>>)] = Lines[c[2]][Lines[c[1]][Idle(<<>>)]]
        BY <2>2, <3>3, <3>6, LinesRead
      <4> QED
        BY <3>6, <4>1
    <3>8. answers' = <<>> /\ up' = c[2]
      BY <1>1, <2>4, <2>5
    <3> QED
      BY <2>2, <3>1, <3>2, <3>3, <3>7, <3>8
  <2>8. <<"logoff">> \notin ToSet(answers')
    <3>1. DOMAIN <<>> = {}
      OBVIOUS
    <3>2. answers' = <<>>
      BY <1>1, <2>5
    <3> QED
      BY <3>1, <3>2 DEF ToSet
  <2>9. ServeInv'
    BY <1>1, <2>6, <2>7, <2>8 DEF ServeInv
  <2> QED
    BY <2>4, <2>9 DEF HeardInv, ApartInv, AcceptInv, HandInv, Apart
<1> QED
  BY <1>2, <1>3

\* A client's own negotiation is whole commands.
LEMMA BeforeSaid ==
  ASSUME IInv
  PROVE  /\ client.before \in Seq(Byte) /\ Marked[client.before]["text"] = "text"
         /\ Nvt => ~Contains(client.before, "SB")
<1> DEFINE arrival == <<secure, client>>
           bytes == client.before
<1>1. arrival \in Arrivals /\ arrival[2] = client
  BY DEF IInv, TypeInv, TypeOK
<1>2. Scanned(bytes).mark = "text" /\ (Nvt => "SB" \notin ToSet(bytes))
  BY <1>1, TalkAssumption DEF Nvt
<1>3. bytes \in Seq(Byte)
  BY ClientBytes DEF ClientSays
<1> HIDE DEF bytes
<1>4. Marked[bytes]["text"] = "text"
  BY <1>2, <1>3, ScannedMark
<1>5. DOMAIN bytes = 1 .. Len(bytes)
  BY <1>3, LenProperties
<1>6. \A i \in 1 .. Len(bytes) : bytes[i] \in ToSet(bytes)
  BY <1>5 DEF ToSet
<1>7. Nvt => ~Contains(bytes, "SB")
  BY <1>2, <1>6 DEF Contains
<1> QED
  BY <1>3, <1>4, <1>7 DEF bytes

\* What refuses the offer, or does not answer it, is whole commands too.
LEMMA RefusalSaid ==
  ASSUME IInv, NEW answer \in {<<"IAC", "WONT", "STARTTLS">>, <<>>}
  PROVE  /\ client.before \o answer \in Seq(Byte) /\ Marked[client.before \o answer]["text"] = "text"
         /\ Nvt => ~Contains(client.before \o answer, "SB")
<1> DEFINE bytes == client.before
<1>1. /\ bytes \in Seq(Byte) /\ Marked[bytes]["text"] = "text"
      /\ Nvt => ~Contains(bytes, "SB")
  BY BeforeSaid
<1>2. answer \in Seq(Byte) /\ ~Contains(answer, "SB") /\ Marked[answer]["text"] = "text"
  <2>1. CASE answer = <<>>
    BY <2>1, EmptySeq, MarksRead DEF Contains, Marks
  <2>2. CASE answer = <<"IAC", "WONT", "STARTTLS">>
    <3>1. "IAC" \in Byte /\ "WONT" \in Byte /\ "STARTTLS" \in Byte
      BY ByteAssumption DEF Verbs
    <3>2. answer \in Seq(Byte) /\ ~Contains(answer, "SB")
      BY <2>2, <3>1 DEF Contains
    <3>3. /\ MarkByte("text", "IAC") = "cmd" /\ MarkByte("cmd", "WONT") = "verb"
          /\ MarkByte("verb", "STARTTLS") = "text"
      BY DEF MarkByte, Verbs
    <3>4. "text" \in Marks /\ "cmd" \in Marks /\ "verb" \in Marks
      BY DEF Marks
    <3>5. Marked[<<"IAC">>]["text"] = "cmd" /\ <<"IAC">> \in Seq(Byte)
      BY <3>1, <3>3, <3>4, MarksRead
    <3>6. Marked[Append(<<"IAC">>, "WONT")]["text"] = "verb" /\ Append(<<"IAC">>, "WONT") \in Seq(Byte)
      <4>1. Marked[Append(<<"IAC">>, "WONT")]["text"] = MarkByte(Marked[<<"IAC">>]["text"], "WONT")
        BY <3>1, <3>4, <3>5, MarksRead
      <4> QED
        BY <3>1, <3>3, <3>5, <4>1, AppendProperties
    <3> DEFINE said == Append(<<"IAC">>, "WONT")
    <3>7. Marked[Append(said, "STARTTLS")]["text"] = "text"
      <4> HIDE DEF said
      <4>1. said \in Seq(Byte) /\ Marked[said]["text"] = "verb"
        BY <3>6 DEF said
      <4>2. Marked[Append(said, "STARTTLS")]["text"] = MarkByte(Marked[said]["text"], "STARTTLS")
        BY <3>1, <3>4, <4>1, MarksRead
      <4> QED
        BY <3>3, <4>1, <4>2
    <3>8. answer = Append(said, "STARTTLS")
      BY <2>2
    <3> QED
      BY <3>2, <3>7, <3>8
  <2> QED
    BY <2>1, <2>2
<1> HIDE DEF bytes
<1>3. bytes \o answer \in Seq(Byte)
  BY <1>1, <1>2, ConcatProperties
<1>4. Marked[bytes \o answer]["text"] = "text"
  <2>1. Marked[bytes \o answer]["text"] = Marked[answer][Marked[bytes]["text"]]
    BY <1>1, <1>2, MarksRead DEF Marks
  <2> QED
    BY <1>1, <1>2, <2>1
<1>5. Nvt => ~Contains(bytes \o answer, "SB")
  BY <1>1, <1>2, NowhereIn
<1> QED
  BY <1>3, <1>4, <1>5 DEF bytes

\* FOLLOWS is the last message of the offer.
LEMMA LastMessage == Head(<<"FOLLOWS">>) = "FOLLOWS"
OBVIOUS

\* The nine bytes of the acceptance.
LEMMA AcceptanceBytes ==
  /\ <<"IAC", "WILL", "STARTTLS">> \o Follows \in Seq(Byte)
  /\ Len(<<"IAC", "WILL", "STARTTLS">> \o Follows) >= 9
<1> DEFINE will == <<"IAC", "WILL", "STARTTLS">>
<1>1. {"IAC", "WILL", "STARTTLS", "SB", "FOLLOWS", "SE"} \subseteq Byte
  BY ByteAssumption DEF Verbs
<1>2. will \in Seq(Byte) /\ Len(will) = 3
  BY <1>1
<1>3. Follows \in Seq(Byte) /\ Len(Follows) = 6
  <2>1. Follows \in Seq({"IAC", "SB", "STARTTLS", "FOLLOWS", "SE"}) /\ Len(Follows) = 6
    BY DEF Follows
  <2>2. \A i \in 1 .. 6 : Follows[i] \in Byte
    BY <1>1, <2>1, ElementOfSeq
  <2> QED
    BY <1>1, <2>1, <2>2
<1> HIDE DEF will
<1> DEFINE follows == Follows
<1>4. follows \in Seq(Byte) /\ Len(follows) = 6
  BY <1>3
<1> HIDE DEF follows
<1>5. will \o follows \in Seq(Byte) /\ Len(will \o follows) = Len(will) + Len(follows)
  BY <1>2, <1>4, ConcatProperties
<1>6. will \o follows \in Seq(Byte) /\ Len(will \o follows) >= 9
  BY <1>2, <1>4, <1>5
<1> QED
  BY <1>6 DEF will, follows

\* The client hears the offer.
LEMMA HeardOffer ==
  ASSUME IInv, OfferInv, StreamTyped, SpokenInv, HeardInv, Receive, Head(down) = "DO STARTTLS"
  PROVE  HeardInv'
<1> DEFINE accept == <<"IAC", "WILL", "STARTTLS">> \o Follows
           answer == CASE client.tls = "will" -> accept
                       [] client.tls = "wont" -> <<"IAC", "WONT", "STARTTLS">>
                       [] OTHER -> <<>>
<1>1. /\ UNCHANGED <<client, keys, secure, at, tel, rx, answers, torn>>
      /\ Say(client.before \o answer)
      /\ tls' = IF client.tls = "will" THEN "offered" ELSE tls
  BY DEF Receive, scanVars, histVars
<1>2. "DO STARTTLS" \in ToSet(down) /\ down # <<>>
  BY Taken DEF Receive, IInv, TypeInv
<1>3. /\ secure = "starttls" /\ tls \in {"no", "offered"}
      /\ at # "nvt"
  BY <1>2 DEF IInv, TlsInv, TypeInv, TypeOK, SpokenInv
<1>4. at # "handshake"
  <2> HIDE DEF answer, accept
  <2> QED
    BY <1>2, <1>3, LastMessage DEF OfferInv
<1>5. at = "offered" => tls = "no"
  BY <1>2 DEF OfferInv
<1>6. Typed' = Typed /\ (Nvt' <=> Nvt) /\ Here' = Here
  BY <1>1, TypedKept DEF Here
<1>7. ServeInv' /\ HandInv'
  BY <1>1, <1>3, <1>4 DEF ServeInv, HandInv
<1>8. up \in Seq(Byte)
  BY DEF StreamTyped
<1>9. CASE at \notin {"offered", "negotiate"}
  BY <1>1, <1>3, <1>4, <1>9, HeardPast
<1>10. CASE at \in {"offered", "negotiate"} /\ tls = "offered"
  BY <1>1, <1>5, <1>7, <1>10 DEF HeardInv, ApartInv, AcceptInv, Apart
<1>11. CASE at \in {"offered", "negotiate"} /\ tls = "no" /\ client.tls # "will"
  <2>1. answer \in {<<"IAC", "WONT", "STARTTLS">>, <<>>}
    BY <1>11
  <2> DEFINE bytes == client.before \o answer
  <2>2. /\ bytes \in Seq(Byte) /\ Marked[bytes]["text"] = "text"
        /\ Nvt => ~Contains(bytes, "SB")
    <3> HIDE DEF answer
    <3> QED
      BY <2>1, RefusalSaid
  <2> HIDE DEF bytes
  <2>3. up' = up \o bytes /\ tls' = "no"
    BY <1>1, <1>11 DEF Say, bytes
  <2>4. ASSUME ~torn, Nvt
        PROVE  TypedIn(Here, up', Typed)
    <3>1. TypedIn(Here, up, Typed) /\ Typed \in Records
      BY <1>11, <2>4 DEF HeardInv, ApartInv, Apart, SpokenInv
    <3> QED
      BY <1>8, <2>2, <2>3, <2>4, <3>1, CommandsSaid
  <2>5. ASSUME ~torn, ~Nvt
        PROVE  Marked[up'][Here] = "text"
    <3>1. Marked[up][Here] = "text"
      BY <1>11, <2>5 DEF HeardInv, ApartInv, Apart
    <3>2. Here \in Marks
      <4>1. TelMark(tel) \in Marks
        BY DEF TelMark, Marks
      <4> QED
        BY <4>1 DEF Here, Marks
    <3>3. Marked[up \o bytes][Here] = Marked[bytes][Marked[up][Here]]
      BY <1>8, <2>2, <3>2, MarksRead
    <3> QED
      BY <2>2, <2>3, <3>1, <3>3
  <2>6. ApartInv'
    BY <1>1, <1>6, <2>4, <2>5 DEF ApartInv
  <2>7. AcceptInv'
    BY <2>3 DEF AcceptInv
  <2> QED
    BY <1>7, <2>6, <2>7 DEF HeardInv
<1>12. CASE at \in {"offered", "negotiate"} /\ tls = "no" /\ client.tls = "will"
  <2>1. tls' = "offered"
    BY <1>1, <1>12
  <2>2. ApartInv'
    BY <1>1, <2>1 DEF ApartInv, Apart
  <2>3. ASSUME ~torn, Nvt, at = "offered"
        PROVE  Typed = <<>> \/ TypedAhead(TelMark(tel), up', Typed)
    <3>1. TypedIn(TelMark(tel), up, Typed) /\ Typed \in Records
      BY <1>12, <2>3 DEF HeardInv, ApartInv, Apart, SpokenInv, Here
    <3> DEFINE before == client.before
               old == up \o before
    <3>2. /\ before \in Seq(Byte) /\ Marked[before]["text"] = "text"
          /\ ~Contains(before, "SB")
      BY <2>3, BeforeSaid
    <3>3. accept \in Seq(Byte) /\ Len(accept) >= 9
      BY AcceptanceBytes
    <3>4. up' = up \o (before \o accept)
      BY <1>1, <1>12 DEF Say
    <3> HIDE DEF accept, before
    <3>5. up' = old \o accept /\ old \in Seq(Byte)
      <4>1. (up \o before) \o accept = up \o (before \o accept)
        BY <1>8, <3>2, <3>3, Associative
      <4> QED
        BY <1>8, <3>2, <3>4, <4>1, ConcatProperties
    <3>6. TypedIn(TelMark(tel), old, Typed)
      BY <1>8, <3>1, <3>2, CommandsSaid
    <3> HIDE DEF old
    <3>7. CASE old = <<>>
      BY <3>6, <3>7, NothingTyped
    <3>8. CASE old # <<>>
      BY <3>3, <3>5, <3>6, <3>8 DEF TypedAhead
    <3> QED
      BY <3>7, <3>8
  <2>4. AcceptInv'
    BY <1>1, <1>6, <2>3 DEF AcceptInv
  <2> QED
    BY <1>7, <2>2, <2>4 DEF HeardInv
<1> QED
  BY <1>3, <1>9, <1>10, <1>11, <1>12

\* Any other message, too.
LEMMA HeardReceived ==
  ASSUME IInv, OfferInv, StreamTyped, QuietInv, SpokenInv, HeardInv, Receive
  PROVE  HeardInv'
<1> DEFINE m == Head(down)
<1>1. UNCHANGED <<client, keys, secure, at, tel, rx, answers, torn>> /\ down # <<>>
  BY DEF Receive, scanVars, histVars
<1>2. m \in ToSet(down) /\ m \in Messages
  BY <1>1, Taken DEF IInv, TypeInv
<1>3. Typed' = Typed /\ (Nvt' <=> Nvt)
  BY <1>1, TypedKept
<1>4. CASE m = "DO STARTTLS"
  BY <1>4, HeardOffer
<1>5. CASE m = "FOLLOWS"
  <2>1. at \in {"handshake", "closed"} /\ secure = "starttls"
    BY <1>2, <1>5 DEF IInv, TlsInv
  <2>2. HandInv'
    BY <1>1, <1>3, <2>1 DEF HeardInv, HandInv
  <2> QED
    BY <1>1, <2>1, <2>2 DEF HeardInv, ApartInv, AcceptInv, ServeInv, Apart
<1>6. CASE m = "QUERY"
  <2>1. at \notin Beginning /\ Basic
    BY <1>2, <1>6 DEF QuietInv
  <2>2. at = "nvt" => torn
    BY <2>1 DEF HeardInv, ServeInv, Nvt, Basic
  <2> QED
    BY <1>1, <2>1, <2>2 DEF HeardInv, ApartInv, AcceptInv, HandInv, ServeInv, Apart, Beginning, Early
<1>7. CASE m \in {"SET MODE", "SCREEN"}
  <2>1. UNCHANGED <<up, tls>>
    BY <1>7 DEF Receive
  <2> QED
    BY <1>1, <2>1, HeardKept
<1> QED
  BY <1>2, <1>4, <1>5, <1>6, <1>7 DEF Messages

\* A line is typed: one more to answer.
LEMMA HeardTyped ==
  ASSUME IInv, StreamTyped, SpokenInv, HeardInv, TypeLine
  PROVE  HeardInv'
<1> DEFINE line == client.lines[keys + 1]
           bytes == line.bytes
           end == <<"CR", "LF">>
<1>1. /\ UNCHANGED <<client, secure, at, tel, tls, rx, answers, torn>>
      /\ at # "start" /\ tls # "offered" /\ (at = "handshake" => client.tls # "will")
  BY DEF TypeLine, scanVars, histVars
<1>2. Nvt /\ LineAdds(line) /\ up' = up \o (bytes \o end)
  BY LineTyped DEF Say
<1>3. /\ Typed' = Answered(Typed, line.command) /\ line.command \in Seq(Byte)
      /\ bytes \in Seq(Byte) /\ ~Contains(bytes, "LF") /\ ~Contains(bytes, "SB")
      /\ StripNvt(bytes) = line.command
  BY <1>2 DEF LineAdds
<1>4. up \in Seq(Byte) /\ rx \in Seq(Byte) /\ Typed \in Records /\ answers \in Records
  BY <1>2 DEF StreamTyped, SpokenInv
<1> HIDE DEF line, bytes
<1>5. Nvt' /\ Here' = Here /\ (Apart' <=> Apart)
  BY <1>1, <1>2, TypedKept DEF Here, Apart
<1>6. ASSUME ~torn, Apart
      PROVE  TypedIn(Here, up', Typed')
  <2>1. TypedIn(Here, up, Typed)
    BY <1>2, <1>6 DEF HeardInv, ApartInv
  <2> QED
    BY <1>2, <1>3, <1>4, <2>1, LineSaid
<1>7. ASSUME ~torn, at = "nvt"
      PROVE  Lines[rx \o up'][Idle(answers)] = Idle(Typed')
  <2>1. Lines[rx \o up][Idle(answers)] = Idle(Typed)
    BY <1>7 DEF HeardInv, ServeInv
  <2>2. bytes \o end \in Seq(Byte) /\ rx \o up \in Seq(Byte) /\ Idle(answers) \in Typing
    BY <1>3, <1>4, ByteAssumption, ConcatProperties, LinesRead
  <2>3. Lines[(rx \o up) \o (bytes \o end)][Idle(answers)] = Idle(Answered(Typed, StripNvt(bytes)))
    <3> DEFINE x == rx \o up
               u == Idle(answers)
    <3>1. x \in Seq(Byte) /\ u \in Typing /\ Lines[x][u] = Idle(Typed)
      BY <2>1, <2>2
    <3> HIDE DEF x, u
    <3>2. Lines[x \o (bytes \o <<"CR", "LF">>)][u] = Idle(Answered(Typed, StripNvt(bytes)))
      BY <1>3, <1>4, <3>1, LineEntered
    <3> QED
      BY <3>2 DEF x, u
  <2> HIDE DEF end
  <2>4. (rx \o up) \o (bytes \o end) = rx \o (up \o (bytes \o end))
    BY <1>4, <2>2, Associative
  <2> QED
    BY <1>2, <1>3, <2>3, <2>4
<1>8. ApartInv'
  BY <1>1, <1>5, <1>6 DEF ApartInv
<1>9. ServeInv'
  BY <1>1, <1>5, <1>7 DEF HeardInv, ServeInv
<1>10. AcceptInv' /\ HandInv'
  <2>1. AcceptInv'
    BY <1>1 DEF AcceptInv
  <2>2. HandInv'
    BY <1>1 DEF HandInv
  <2> QED
    BY <2>1, <2>2
<1> QED
  BY <1>8, <1>9, <1>10 DEF HeardInv

\* In the session, reading on.
LEMMA HeardRead ==
  ASSUME StreamTyped, SpokenInv, HeardInv, ServeLine \/ ReceiveLine
  PROVE  HeardInv'
<1>1. UNCHANGED <<client, keys, torn>> /\ at = "nvt"
  BY DEF ServeLine, ReceiveLine, histVars, clientVars
<1>2. Typed' = Typed /\ (Nvt' <=> Nvt)
  BY <1>1, TypedKept
<1>3. rx \in Seq(Byte) /\ up \in Seq(Byte) /\ answers \in Records
  BY DEF StreamTyped, SpokenInv
<1>4. CASE ServeLine
  <2>1. /\ Lines[rx \o up][Idle(answers)] = Lines[rx' \o up][Idle(answers')]
        /\ at' \in {"nvt", "closed"}
        /\ at' = "nvt" /\ <<"logoff">> \notin ToSet(answers) => <<"logoff">> \notin ToSet(answers')
    BY <1>3, <1>4, LineServed
  <2>2. up' = up
    BY <1>4 DEF ServeLine
  <2>3. CASE at' = "closed"
    BY <2>3, HeardPast
  <2>4. CASE at' = "nvt"
    <3>1. ServeInv'
      BY <1>1, <1>2, <2>1, <2>2, <2>4 DEF HeardInv, ServeInv
    <3> QED
      BY <2>4, <3>1 DEF HeardInv, ApartInv, AcceptInv, HandInv, Apart
  <2> QED
    BY <2>1, <2>3, <2>4
<1>5. CASE ReceiveLine
  <2>1. PICK c \in Cuts(up) : rx' = rx \o c[1] /\ up' = c[2]
    BY <1>5 DEF ReceiveLine
  <2>2. at' = "nvt" /\ answers' = answers
    BY <1>5 DEF ReceiveLine, histVars
  <2>3. c[1] \in Seq(Byte) /\ c[2] \in Seq(Byte) /\ c[1] \o c[2] = up
    BY <1>3, CutsJoin
  <2>4. rx' \o up' = rx \o up
    BY <1>3, <2>1, <2>3, Associative
  <2>5. ServeInv'
    BY <1>1, <1>2, <2>2, <2>4 DEF HeardInv, ServeInv
  <2> QED
    BY <2>2, <2>5 DEF HeardInv, ApartInv, AcceptInv, HandInv, Apart
<1> QED
  BY <1>4, <1>5

\* Every step keeps what is known of the lines.
LEMMA HeardStep ==
  ASSUME IInv, OfferInv, StreamTyped, QuietInv, SpokenInv, HeardInv, [Next]_vars
  PROVE  HeardInv'
<1>1. CASE Start
  BY <1>1, HeardStart
<1>2. CASE ScanStarttls
  BY <1>2, HeardScanned, HeardAccepted
<1>3. CASE Handshake
  BY <1>3, HeardHandshake
<1>4. CASE Negotiate
  BY <1>4, HeardNegotiated
<1>5. CASE ReadQueryReply \/ RequestReplyMode \/ Show \/ ReadReply \/ ReadUnit \/ NegotiationCut
  <2>1. at' \in {"query", "replymode", "show", "read"}
    BY <1>5 DEF ReadQueryReply, Settle, RequestReplyMode, Show, ReadReply, ReadUnit, NegotiationCut
  <2> QED
    BY <2>1, HeardPast
<1>6. CASE ServeLine \/ ReceiveLine
  BY <1>6, HeardRead
<1>7. CASE Timeout \/ Disconnected
  BY <1>7, HeardFailed
<1>8. CASE Receive
  BY <1>8, HeardReceived
<1>9. CASE Connects
  <2>1. /\ at = "handshake" /\ secure = "implicit" /\ tls = "no" /\ client.tls = "will"
        /\ up' = up \o Hello /\ tls' = "hello"
        /\ UNCHANGED <<client, keys, secure, at, torn>>
    BY <1>9 DEF Connects, Say, histVars
  <2>2. up = <<>>
    BY <2>1 DEF HeardInv, HandInv
  <2>3. up' = Hello
    BY <2>1, <2>2, Alphabets, ConcatEmptySeq
  <2>4. Typed' = Typed /\ (Nvt' <=> Nvt)
    BY <2>1, TypedKept
  <2>5. HandInv'
    BY <2>1, <2>3, <2>4 DEF HeardInv, HandInv
  <2> QED
    BY <2>1, <2>5 DEF HeardInv, ApartInv, AcceptInv, ServeInv, Apart
<1>10. CASE Press
  <2>1. at \in Serving \cup {"closed"} /\ ~Nvt /\ UNCHANGED <<at, torn>>
    BY <1>10 DEF Press, Nvt, histVars
  <2>2. at = "nvt" => torn
    BY <2>1 DEF HeardInv, ServeInv
  <2> QED
    BY <2>1, <2>2 DEF Serving, HeardInv, ApartInv, AcceptInv, HandInv, ServeInv, Apart
<1>11. CASE TypeLine
  BY <1>11, HeardTyped
<1>12. CASE HangUp \/ UNCHANGED vars
  <2>1. UNCHANGED <<client, keys, secure, at, tel, tls, up, rx, answers, torn>>
    BY <1>12 DEF HangUp, vars, scanVars, histVars, clientVars
  <2> QED
    BY <2>1, HeardKept
<1> QED
  BY <1>1, <1>2, <1>3, <1>4, <1>5, <1>6, <1>7, <1>8, <1>9, <1>10, <1>11, <1>12 DEF Next, Server

\* Before the thread starts.
LEMMA HeardBegins == Init => SpokenInv /\ HeardInv
<1> SUFFICES ASSUME Init
             PROVE  SpokenInv /\ HeardInv
  OBVIOUS
<1>1. at = "start" /\ answers = <<>> /\ keys = 0
  BY DEF Init
<1>2. Typed \in Records /\ answers \in Records
  <2>1. Commands(client, 0) = <<>>
    <3>1. 0 \in Nat
      OBVIOUS
    <3> QED
      BY <3>1, CommandsGrow
  <2> QED
    BY <1>1, <2>1, TypedIs, EmptySeq DEF Records
<1>3. SpokenInv
  BY <1>1, <1>2 DEF SpokenInv
<1>4. HeardInv
  BY <1>1 DEF HeardInv, ApartInv, AcceptInv, HandInv, ServeInv, Apart
<1> QED
  BY <1>3, <1>4

\* What has been answered and what is to be answered is what was typed, always.
LEMMA HeardAlways ==
  ScanLimit >= 6 => (Spec => [](SpokenInv /\ HeardInv /\ StreamTyped))
<1> SUFFICES ASSUME ScanLimit >= 6
             PROVE  Spec => [](SpokenInv /\ HeardInv /\ StreamTyped)
  OBVIOUS
<1>1. Init => SpokenInv /\ HeardInv
  BY HeardBegins
<1>2. ASSUME IInv, RecInv, OfferInv, SpokenInv, HeardInv, [Next]_vars
      PROVE  SpokenInv' /\ HeardInv'
  BY <1>2, SpokenStep, HeardStep DEF RecInv
<1>3. RecInv => StreamTyped
  BY DEF RecInv
<1>4. Spec => []OfferInv
  BY OfferAlways
<1> QED
  BY Invariant, RecordsInvariant, <1>1, <1>2, <1>3, <1>4, PTL DEF Spec

\* However TCP cuts or joins what a line-mode client says, and whether or not
\* it is offered START-TLS in the middle of it, each line is answered once and
\* in order, none is left over and none answered after LOGOFF
\* (server.py:1302-1352), if the drain may read a whole FOLLOWS and as long as
\* no part of a Telnet command was dropped when line mode began
\* (server.py:1108-1114, 1182-1184).
THEOREM CommandsAlwaysAnswered ==
  ScanLimit >= 6 => (Spec => []CommandsAnswered)
<1> SUFFICES ASSUME ScanLimit >= 6
             PROVE  Spec => []CommandsAnswered
  OBVIOUS
<1>1. SpokenInv /\ HeardInv /\ StreamTyped => CommandsAnswered
  <2> SUFFICES ASSUME SpokenInv, HeardInv, StreamTyped, at = "nvt", ~torn
               PROVE  /\ client.link = "nvt"
                      /\ IsPrefix(answers, Typed)
                      /\ up = <<>> /\ ~Contains(rx, "LF") => answers = Typed
                      /\ <<"logoff">> \notin ToSet(answers)
    BY DEF CommandsAnswered
  <2>1. /\ Nvt /\ Lines[rx \o up][Idle(answers)] = Idle(Typed)
        /\ <<"logoff">> \notin ToSet(answers)
    BY DEF HeardInv, ServeInv
  <2>2. rx \in Seq(Byte) /\ up \in Seq(Byte) /\ answers \in Records
    BY DEF StreamTyped, SpokenInv
  <2>3. rx \o up \in Seq(Byte) /\ Idle(answers) \in Typing
    BY <2>2, ConcatProperties, LinesRead
  <2>4. Idle(answers).got = answers /\ Idle(Typed).got = Typed
    BY DEF Idle
  <2>5. IsPrefix(answers, Typed)
    BY <2>1, <2>3, <2>4, LinesGrow
  <2>6. ASSUME up = <<>>, ~Contains(rx, "LF")
        PROVE  answers = Typed
    <3>1. rx \o up = rx
      BY <2>2, <2>6, ConcatEmptySeq
    <3>2. Lines[rx][Idle(answers)] = [line |-> Stripped[rx][Unread], got |-> answers]
      BY <2>2, <2>6, LineUncut
    <3>3. [line |-> Stripped[rx][Unread], got |-> answers].got = answers
      OBVIOUS
    <3> QED
      BY <2>1, <2>4, <3>1, <3>2, <3>3
  <2> QED
    BY <2>1, <2>5, <2>6 DEF Nvt
<1>2. Spec => [](SpokenInv /\ HeardInv /\ StreamTyped)
  BY HeardAlways
<1> QED
  BY <1>1, <1>2, PTL
=============================================================================
