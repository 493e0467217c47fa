--------------------------- MODULE PanelIOProofs ---------------------------
(***************************************************************************)
(* Of every panel on every terminal, whatever the size of the screen: the  *)
(* buffer addresses of src/ds3270.py are read back as they were written,   *)
(* and what the orders of a write leave in the terminal's buffer.          *)
(*                                                                         *)
(* A recursive definition is unrolled once: a function with its equations  *)
(* is constructed, and what holds of it follows by induction on a set of   *)
(* numbers that has 0 and is closed under successor (Induct).              *)
(***************************************************************************)
EXTENDS PanelIO, SequenceTheorems, WellFoundedInduction, TLAPS

-----------------------------------------------------------------------------
(* Numbers.                                                                *)

\* Size and the address space are numbers.
LEMMA Sizes == Size \in Nat \ {0} /\ Addressable \in Nat /\ Cells \subseteq 0 .. Addressable - 1
<1>1. Size \in Nat \ {0}
  BY SizeAssumption DEF Size
<1>2. Addressable \in Nat
  BY SizeAssumption DEF Addressable
<1> QED
  BY <1>1, <1>2, SizeAssumption DEF Cells

\* A non-empty set of numbers has a least one.
LEMMA Lowest ==
  ASSUME NEW T, T \subseteq Nat, T # {}
  PROVE  \E t \in T : \A u \in T : t <= u
<1>1. PICK t \in T : \A u \in T : ~ (<<u, t>> \in OpToRel(<, Nat))
  BY NatLessThanWellFounded, WFMin, Zenon
<1>2. ASSUME NEW u \in T
      PROVE  t <= u
  <2>1. SUFFICES ASSUME ~ (t <= u)
                 PROVE  FALSE
    OBVIOUS
  <2>2. u \in Nat /\ t \in Nat /\ u < t
    BY <2>1
  <2>3. <<u, t>> \in OpToRel(<, Nat)
    BY <2>2 DEF OpToRel
  <2> QED
    BY <1>1, <2>3
<1> QED
  BY <1>2

\* A set of numbers up to N that has 0 and every successor has all of them.
LEMMA Induct ==
  ASSUME NEW N \in Nat, NEW T, 0 \in T, \A n \in 1 .. N : n - 1 \in T => n \in T
  PROVE  0 .. N \subseteq T
<1> DEFINE out == {n \in 0 .. N : n \notin T}
<1> SUFFICES ASSUME out # {}
             PROVE  FALSE
  OBVIOUS
<1>1. PICK n \in out : \A m \in out : n <= m
  <2>1. out \subseteq Nat
    OBVIOUS
  <2> HIDE DEF out
  <2> QED
    BY <2>1, Lowest
<1>2. n \in 1 .. N /\ n \notin T /\ n - 1 \in 0 .. N
  OBVIOUS
<1>3. n - 1 \in T
  BY <1>1, <1>2
<1> QED
  BY <1>2, <1>3

\* From the state s, h[n] is what the n-th of N steps makes of h[n - 1].
IsHistory(h, N, s, step) ==
  /\ h = [n \in 0 .. N |-> h[n]]
  /\ h[0] = s /\ \A n \in 1 .. N : h[n] = step[n][h[n - 1]]

\* A machine that takes N steps has a history, in S[n] after the n-th.
LEMMA History ==
  ASSUME NEW S, NEW N \in Nat, NEW s \in S[0], NEW step,
         \A n \in 1 .. N : \A t \in S[n - 1] : step[n][t] \in S[n]
  PROVE  \E h : IsHistory(h, N, s, step) /\ \A n \in 0 .. N : h[n] \in S[n]
<1> DEFINE Run(h, m) == /\ h[0] = s /\ \A n \in 1 .. m : h[n] = step[n][h[n - 1]]
                        /\ \A n \in 0 .. m : h[n] \in S[n]
           T == {m \in 0 .. N : \E h : Run(h, m)}
<1>1. 0 \in T
  <2> DEFINE h == [i \in 0 .. 0 |-> s]
  <2>1. Run(h, 0)
    OBVIOUS
  <2> HIDE DEF h
  <2> QED
    BY <2>1
<1>2. ASSUME NEW n \in 1 .. N, n - 1 \in T
      PROVE  n \in T
  <2>1. PICK f : Run(f, n - 1)
    BY <1>2
  <2> DEFINE h == [i \in 0 .. n |-> IF i = n THEN step[n][f[n - 1]] ELSE f[i]]
  <2>2. n - 1 \in 0 .. n - 1 /\ f[n - 1] \in S[n - 1] /\ step[n][f[n - 1]] \in S[n]
    <3>1. n - 1 \in 0 .. n - 1
      OBVIOUS
    <3>2. f[n - 1] \in S[n - 1]
      BY <2>1, <3>1
    <3> QED
      BY <3>1, <3>2
  <2>3. \A i \in 0 .. n : h[i] = IF i = n THEN step[n][f[n - 1]] ELSE f[i]
    OBVIOUS
  <2> HIDE DEF h
  <2>4. h[0] = s
    BY <2>1, <2>3
  <2>5. ASSUME NEW i \in 0 .. n
        PROVE  h[i] \in S[i]
    <3>1. CASE i = n
      BY <2>2, <2>3, <3>1
    <3>2. CASE i # n
      <4>1. i \in 0 .. n - 1
        BY <3>2
      <4> QED
        BY <2>1, <2>3, <3>2, <4>1
    <3> QED
      BY <3>1, <3>2
  <2>6. ASSUME NEW i \in 1 .. n
        PROVE  h[i] = step[i][h[i - 1]]
    <3>1. i \in 0 .. n /\ i - 1 \in 0 .. n /\ i - 1 # n
      OBVIOUS
    <3>2. CASE i = n
      BY <2>3, <3>1, <3>2
    <3>3. CASE i # n
      <4>1. i \in 1 .. n - 1
        BY <3>3
      <4>2. f[i] = step[i][f[i - 1]]
        BY <2>1, <4>1
      <4> QED
        BY <2>3, <3>1, <3>3, <4>2
    <3> QED
      BY <3>2, <3>3
  <2>7. Run(h, n) /\ n \in 0 .. N
    BY <2>4, <2>5, <2>6
  <2> HIDE DEF Run
  <2> QED
    BY <2>7
<1> HIDE DEF T
<1>3. 0 .. N \subseteq T
  BY <1>1, <1>2, Induct
<1>4. N \in T
  BY <1>3
<1>5. PICK f : Run(f, N)
  BY <1>4 DEF T
<1> DEFINE h == [n \in 0 .. N |-> f[n]]
<1>6. \A n \in 0 .. N : h[n] = f[n]
  OBVIOUS
<1>7. h = [n \in 0 .. N |-> h[n]]
  OBVIOUS
<1> HIDE DEF h
<1>8. Run(h, N)
  <2>1. 0 \in 0 .. N /\ \A n \in 1 .. N : n \in 0 .. N /\ n - 1 \in 0 .. N
    OBVIOUS
  <2> QED
    BY <1>5, <1>6, <2>1
<1>9. IsHistory(h, N, s, step)
  BY <1>7, <1>8 DEF IsHistory
<1> QED
  BY <1>8, <1>9

\* What a quotient and a remainder are.
LEMMA Quotient ==
  ASSUME NEW c \in Nat, c > 0, NEW a \in Int
  PROVE  \E q \in Int, r \in 0 .. c - 1 : a = c * q + r /\ q = a \div c /\ r = a % c
OBVIOUS

\* They are the only ones.
LEMMA QuotientIs ==
  ASSUME NEW c \in Nat, c > 0, NEW q \in Int, NEW r \in 0 .. c - 1
  PROVE  (c * q + r) \div c = q /\ (c * q + r) % c = r
<1> DEFINE a == c * q + r
<1>1. a \in Int
  OBVIOUS
<1>2. PICK p \in Int, s \in 0 .. c - 1 : a = c * p + s /\ p = a \div c /\ s = a % c
  <2> HIDE DEF a
  <2> QED
    BY <1>1, Quotient
<1>3. c * p + s = c * q + r
  BY <1>2
<1>4. p = q
  <2>1. ASSUME NEW u \in Int, NEW v \in Int, NEW x \in 0 .. c - 1, NEW y \in 0 .. c - 1,
               c * u + x = c * v + y
        PROVE  ~ (u < v)
    <3>1. SUFFICES ASSUME u < v
                   PROVE  FALSE
      OBVIOUS
    <3>2. c * (v - u) >= c
      BY <3>1
    <3>3. c * (v - u) = c * v - c * u
      OBVIOUS
    <3>4. c * u \in Int /\ c * v \in Int
      OBVIOUS
    <3> DEFINE cu == c * u
               cv == c * v
    <3>5. cu \in Int /\ cv \in Int /\ cv - cu >= c /\ cu + x = cv + y
      BY <2>1, <3>2, <3>3, <3>4
    <3> HIDE DEF cu, cv
    <3> QED
      BY <3>5
  <2>2. ~ (p < q) /\ ~ (q < p)
    BY <1>3, <2>1
  <2> QED
    BY <2>2
<1>5. s = r
  <2> DEFINE cq == c * q
  <2>1. cq \in Int /\ cq + s = cq + r
    BY <1>3, <1>4
  <2> HIDE DEF cq
  <2> QED
    BY <2>1
<1> QED
  BY <1>2, <1>4, <1>5

\* Around the screen: what the remainder of an address by its size is.
LEMMA Wrapped ==
  ASSUME NEW a \in Nat
  PROVE  /\ a % Size \in Cells
         /\ a < Size => a % Size = a
         /\ Size <= a /\ a < 2 * Size => a % Size = a - Size
<1>1. Size \in Nat /\ Size > 0
  BY Sizes
<1> DEFINE S == Size
<1>2. S \in Nat /\ S > 0
  BY <1>1
<1> HIDE DEF S
<1>3. a % S \in 0 .. S - 1
  BY <1>2, Quotient
<1>4. ASSUME a < S
      PROVE  a % S = a
  <2>1. (S * 0 + a) % S = a
    BY <1>2, <1>4, QuotientIs
  <2> QED
    BY <1>2, <2>1
<1>5. ASSUME S <= a, a < 2 * S
      PROVE  a % S = a - S
  <2>1. a - S \in 0 .. S - 1
    BY <1>2, <1>5
  <2>2. (S * 1 + (a - S)) % S = a - S
    BY <1>2, <2>1, QuotientIs
  <2> QED
    BY <1>2, <2>2
<1> QED
  BY <1>3, <1>4, <1>5 DEF Cells, S

-----------------------------------------------------------------------------
(* Addresses.                                                              *)

\* A coded address is read back as it was written, and none of its bytes is
\* an IAC, nor a flag of a binary address: MAX_ADDRESSABLE_CELLS is where the
\* high byte would be one (ds3270.py:98-121, server.py:868-876).
THEOREM CodedAddressRead ==
  ASSUME NEW a \in 0 .. Addressable - 1
  PROVE  LET b == EncodePackAddr(a)
         IN /\ b[1] \in Chunk .. IAC - 1 /\ b[2] \in Chunk .. IAC - 1
            /\ DecodeBufferAddr(b[1], b[2]) = a
<1> USE SizeAssumption
<1> DEFINE hi == a \div Chunk
           lo == a % Chunk
<1>1. a \in Nat /\ a < Chunk * (Chunk - 1)
  BY Sizes DEF Addressable
<1>2. hi \in Nat /\ lo \in 0 .. Chunk - 1 /\ a = Chunk * hi + lo
  <2>1. PICK q \in Int, r \in 0 .. Chunk - 1 :
          a = Chunk * q + r /\ q = a \div Chunk /\ r = a % Chunk
    BY <1>1, Quotient
  <2>2. q \in Nat
    BY <1>1, <2>1
  <2> QED
    BY <2>1, <2>2
<1> HIDE DEF hi, lo
<1>3. hi < Chunk - 1
  BY <1>1, <1>2
<1>4. (3 * Chunk + hi) % Chunk = hi /\ (Chunk + lo) % Chunk = lo
  <2>1. hi \in 0 .. Chunk - 1
    BY <1>2, <1>3
  <2>2. (Chunk * 3 + hi) % Chunk = hi /\ (Chunk * 1 + lo) % Chunk = lo
    BY <1>2, <2>1, QuotientIs
  <2> QED
    BY <2>2
<1>5. EncodePackAddr(a) = <<3 * Chunk + hi, Chunk + lo>>
  BY Sizes DEF EncodePackAddr, hi, lo
<1>6. DecodeBufferAddr(3 * Chunk + hi, Chunk + lo) = a
  <2>1. DecodeBufferAddr(3 * Chunk + hi, Chunk + lo)
          = ((3 * Chunk + hi) % Chunk) * Chunk + ((Chunk + lo) % Chunk)
    BY <1>2 DEF DecodeBufferAddr
  <2>2. hi * Chunk = Chunk * hi
    BY <1>2
  <2> QED
    BY <1>2, <1>4, <2>1, <2>2
<1>7. 3 * Chunk + hi \in Chunk .. IAC - 1 /\ Chunk + lo \in Chunk .. IAC - 1
  BY <1>2, <1>3 DEF IAC
<1> QED
  BY <1>5, <1>6, <1>7

\* So are the addresses a terminal sends, coded or binary; only a binary one
\* may have the code of an IAC.
THEOREM SentAddressRead ==
  ASSUME NEW a \in Cells
  PROVE  LET b == SentAddr(a)
         IN /\ b[1] \in 0 .. IAC /\ b[2] \in 0 .. IAC
            /\ b[1] = IAC \/ b[2] = IAC => terminal.oversize
            /\ DecodeBufferAddr(b[1], b[2]) = a
<1> USE SizeAssumption
<1>1. CASE ~terminal.oversize
  <2>1. SentAddr(a) = EncodePackAddr(a)
    BY <1>1 DEF SentAddr
  <2>2. a \in 0 .. Addressable - 1 /\ IAC \in Nat
    BY Sizes DEF IAC
  <2>3. /\ EncodePackAddr(a)[1] \in Chunk .. IAC - 1 /\ EncodePackAddr(a)[2] \in Chunk .. IAC - 1
        /\ DecodeBufferAddr(EncodePackAddr(a)[1], EncodePackAddr(a)[2]) = a
    BY <2>2, CodedAddressRead
  <2> HIDE DEF SentAddr, EncodePackAddr
  <2> QED
    BY <2>1, <2>2, <2>3
<1>2. CASE terminal.oversize
  <2> DEFINE c == 4 * Chunk
             hi == a \div c
             lo == a % c
  <2>1. SentAddr(a) = <<hi, lo>>
    BY <1>2 DEF SentAddr
  <2>2. c \in Nat \ {0} /\ a \in Nat
    BY Sizes
  <2>3. hi \in Nat /\ lo \in 0 .. c - 1 /\ a = c * hi + lo
    <3> HIDE DEF c
    <3>1. PICK q \in Int, r \in 0 .. c - 1 : a = c * q + r /\ q = a \div c /\ r = a % c
      BY <2>2, Quotient
    <3>2. q \in Nat
      BY <2>2, <3>1
    <3> QED
      BY <3>1, <3>2
  <2>4. hi < Chunk
    <3>1. a < Chunk * (Chunk - 1)
      BY Sizes DEF Addressable
    <3> HIDE DEF hi, lo
    <3>2. c * hi < Chunk * (Chunk - 1)
      BY <2>3, <3>1
    <3> SUFFICES ASSUME hi >= Chunk
                 PROVE  FALSE
      BY <2>3
    <3>3. c * hi >= c * Chunk
      BY <2>2, <2>3
    <3>4. c * Chunk >= Chunk * (Chunk - 1)
      OBVIOUS
    <3> QED
      BY <2>2, <2>3, <3>2, <3>3, <3>4
  <2> HIDE DEF hi, lo
  <2>5. DecodeBufferAddr(hi, lo) = a
    <3>1. DecodeBufferAddr(hi, lo) = (hi * 4 * Chunk) + lo
      BY <2>3, <2>4 DEF DecodeBufferAddr
    <3>2. hi * 4 * Chunk = c * hi
      BY <2>3
    <3> QED
      BY <2>3, <3>1, <3>2
  <2>6. hi \in 0 .. IAC /\ lo \in 0 .. IAC
    BY <2>3, <2>4 DEF IAC
  <2> QED
    BY <1>2, <2>1, <2>5, <2>6
<1> QED
  BY <1>1, <1>2
-----------------------------------------------------------------------------
(* The data of a field.                                                    *)

\* A sequence with one more in front.
LEMMA Cons ==
  ASSUME NEW f, NEW n \in Nat, NEW d \in Nat
  PROVE  <<f[n]>> \o [k \in 1 .. d |-> f[n + k]] = [k \in 1 .. d + 1 |-> f[n + k - 1]]
<1> DEFINE S == {f[i] : i \in Nat}
           t == [k \in 1 .. d |-> f[n + k]]
           u == <<f[n]>> \o t
           v == [k \in 1 .. d + 1 |-> f[n + k - 1]]
<1>1. t \in Seq(S) /\ Len(t) = d /\ <<f[n]>> \in Seq(S) /\ Len(<<f[n]>>) = 1
  OBVIOUS
<1>2. v \in Seq(S) /\ Len(v) = d + 1
  OBVIOUS
<1>3. /\ u \in Seq(S) /\ Len(u) = 1 + d
      /\ \A i \in 1 .. 1 + d : u[i] = IF i <= 1 THEN <<f[n]>>[i] ELSE t[i - 1]
  <2> HIDE DEF t, S
  <2> QED
    BY <1>1, ConcatProperties
<1>4. ASSUME NEW i \in 1 .. d + 1
      PROVE  u[i] = v[i]
  <2>1. v[i] = f[n + i - 1]
    OBVIOUS
  <2>2. CASE i = 1
    <3>1. n + 1 - 1 = n
      OBVIOUS
    <3> QED
      BY <1>3, <2>1, <2>2, <3>1
  <2>3. CASE i # 1
    <3>1. i - 1 \in 1 .. d /\ n + (i - 1) = n + i - 1 /\ ~ (i <= 1)
      BY <2>3
    <3>2. t[i - 1] = f[n + (i - 1)]
      BY <3>1
    <3>3. u[i] = t[i - 1]
      BY <1>3, <3>1
    <3> QED
      BY <2>1, <3>1, <3>2, <3>3
  <2> QED
    BY <2>2, <2>3
<1> HIDE DEF u, v, S
<1>5. u = v
  BY <1>2, <1>3, <1>4, SeqEqual
<1> QED
  BY <1>5 DEF u, v

\* The cells of a field are those behind its attribute, around the end of the
\* buffer, up to the next attribute, which may be its own.
LEMMA DataIs ==
  ASSUME NEW buf, NEW x \in Cells, buf[x].attr
  PROVE  \E m \in 1 .. Size :
           /\ buf[(x + m) % Size].attr
           /\ \A n \in 1 .. m - 1 : ~buf[(x + n) % Size].attr
           /\ Data(buf, x) = [k \in 1 .. m - 1 |-> (x + k) % Size]
<1> DEFINE cell == [n \in Nat |-> (x + n) % Size]
           stop(n) == buf[cell[n]].attr
           Extent(g) == g = [n \in 1 .. Size |->
                               IF buf[(x + n) % Size].attr THEN <<>> ELSE <<(x + n) % Size>> \o g[n + 1]]
           Ends(n, j) == j \in n .. Size /\ stop(j) /\ \A i \in n .. j - 1 : ~stop(i)
           part(n, j) == [k \in 1 .. j - n |-> cell[n + k - 1]]
<1>1. Size \in Nat \ {0} /\ x \in 0 .. Size - 1
  BY Sizes DEF Cells
<1>2. stop(Size)
  <2>1. x + Size \in Nat /\ Size <= x + Size /\ x + Size < 2 * Size
    BY <1>1
  <2>2. (x + Size) % Size = (x + Size) - Size
    BY <2>1, Wrapped
  <2>3. (x + Size) % Size = x
    BY <1>1, <2>2
  <2> QED
    BY <1>1, <2>3
<1>3. \A n \in Nat : cell[n] = (x + n) % Size
  OBVIOUS
<1>4. ASSUME NEW n \in 1 .. Size
      PROVE  \E j \in 1 .. Size : Ends(n, j)
  <2> DEFINE stops == {j \in n .. Size : stop(j)}
  <2> HIDE DEF cell
  <2>1. Size \in stops /\ stops \subseteq Nat
    BY <1>1, <1>2
  <2>2. PICK j \in stops : \A u \in stops : j <= u
    <3> HIDE DEF stops
    <3> QED
      BY <2>1, Lowest
  <2>3. j \in 1 .. Size /\ j \in n .. Size /\ stop(j)
    BY <1>1
  <2>4. \A i \in n .. j - 1 : ~stop(i)
    BY <1>1, <2>2, <2>3
  <2> QED
    BY <2>3, <2>4
<1> DEFINE end(n) == CHOOSE j \in 1 .. Size : Ends(n, j)
<1>5. \A n \in 1 .. Size : end(n) \in 1 .. Size /\ Ends(n, end(n))
  <2> HIDE DEF Ends
  <2> QED
    BY <1>4
<1>6. \A n \in 1 .. Size : \A i, j \in 1 .. Size : Ends(n, i) /\ Ends(n, j) => i = j
  <2> HIDE DEF cell
  <2> QED
    BY <1>1
<1> HIDE DEF cell, end
<1>7. \A n \in Nat, j \in Nat : n < j =>
        part(n, j) = <<cell[n]>> \o part(n + 1, j)
  <2> SUFFICES ASSUME NEW n \in Nat, NEW j \in Nat, n < j
               PROVE  part(n, j) = <<cell[n]>> \o part(n + 1, j)
    OBVIOUS
  <2> DEFINE d == j - n - 1
  <2>1. d \in Nat /\ j - n = d + 1 /\ j - (n + 1) = d
    OBVIOUS
  <2>2. \A k \in 1 .. d : (n + 1) + k - 1 = n + k
    OBVIOUS
  <2>3. part(n + 1, j) = [k \in 1 .. d |-> cell[n + k]]
    <3> HIDE DEF d
    <3> QED
      BY <2>1, <2>2
  <2>4. part(n, j) = [k \in 1 .. d + 1 |-> cell[n + k - 1]]
    <3> HIDE DEF d
    <3> QED
      BY <2>1
  <2> HIDE DEF part, d
  <2> QED
    BY <2>1, <2>3, <2>4, Cons
<1>8. \A n \in Nat : part(n, n) = <<>>
  OBVIOUS
<1> HIDE DEF part
<1>9. \E g : Extent(g)
  <2> DEFINE w == [n \in 1 .. Size |-> part(n, end(n))]
  <2>1. ASSUME NEW n \in 1 .. Size
        PROVE  w[n] = IF buf[(x + n) % Size].attr THEN <<>> ELSE <<(x + n) % Size>> \o w[n + 1]
    <3>1. n \in Nat /\ cell[n] = (x + n) % Size /\ w[n] = part(n, end(n))
      BY <1>1, <1>3
    <3>2. CASE stop(n)
      <4>1. Ends(n, n)
        BY <1>1, <3>2
      <4>2. end(n) = n
        BY <1>5, <1>6, <4>1
      <4> QED
        BY <1>8, <3>1, <3>2, <4>2
    <3>3. CASE ~stop(n)
      <4>1. end(n) \in n .. Size /\ end(n) # n
        BY <1>5, <3>3
      <4>2. n + 1 \in 1 .. Size /\ n < end(n) /\ end(n) \in Nat
        BY <1>1, <4>1
      <4>3. Ends(n + 1, end(n))
        BY <1>1, <1>5, <4>2
      <4>4. end(n + 1) = end(n)
        <5> HIDE DEF Ends
        <5> QED
          BY <1>5, <1>6, <4>2, <4>3
      <4>5. w[n + 1] = part(n + 1, end(n))
        BY <4>2, <4>4
      <4>6. part(n, end(n)) = <<cell[n]>> \o part(n + 1, end(n))
        BY <1>7, <3>1, <4>2
      <4> HIDE DEF w
      <4> QED
        BY <3>1, <3>3, <4>5, <4>6
    <3> HIDE DEF w
    <3> QED
      BY <3>2, <3>3
  <2>2. w = [n \in 1 .. Size |-> w[n]]
    OBVIOUS
  <2> HIDE DEF w
  <2>3. Extent(w)
    BY <2>1, <2>2
  <2> QED
    BY <2>3
<1> DEFINE extent == CHOOSE g : Extent(g)
<1>10. Extent(extent)
  <2> HIDE DEF Extent
  <2> QED
    BY <1>9
<1>11. Data(buf, x) = extent[1]
  BY DEF Data
<1> HIDE DEF extent
<1>12. \A n \in 1 .. Size :
         extent[n] = IF stop(n) THEN <<>> ELSE <<cell[n]>> \o extent[n + 1]
  <2> SUFFICES ASSUME NEW n \in 1 .. Size
               PROVE  extent[n] = IF stop(n) THEN <<>> ELSE <<cell[n]>> \o extent[n + 1]
    OBVIOUS
  <2>1. cell[n] = (x + n) % Size
    BY <1>1, <1>3
  <2>2. extent[n] = IF buf[(x + n) % Size].attr THEN <<>> ELSE <<(x + n) % Size>> \o extent[n + 1]
    BY <1>10
  <2> QED
    BY <2>1, <2>2
<1> HIDE DEF Extent
<1> DEFINE m == end(1)
           T == {d \in 0 .. m - 1 : extent[m - d] = part(m - d, m)}
<1>13. m \in 1 .. Size /\ Ends(1, m)
  BY <1>1, <1>5
<1> HIDE DEF m
<1>14. 0 \in T
  <2>1. extent[m] = <<>>
    BY <1>12, <1>13
  <2>2. m - 0 = m /\ m \in Nat
    BY <1>1, <1>13
  <2> QED
    BY <1>1, <1>8, <1>13, <2>1, <2>2
<1>15. ASSUME NEW d \in 1 .. m - 1, d - 1 \in T
       PROVE  d \in T
  <2> DEFINE n == m - d
  <2>1. n \in 1 .. Size /\ n \in 1 .. m - 1 /\ n \in Nat /\ m \in Nat /\ n < m
        /\ m - (d - 1) = n + 1
    BY <1>1, <1>13
  <2> HIDE DEF n
  <2>2. extent[n + 1] = part(n + 1, m)
    BY <1>15, <2>1
  <2>3. extent[n] = <<cell[n]>> \o extent[n + 1]
    BY <1>12, <1>13, <2>1
  <2>4. extent[n] = part(n, m)
    BY <1>7, <2>1, <2>2, <2>3
  <2> QED
    BY <1>1, <1>13, <2>4 DEF n
<1>16. m - 1 \in T
  <2>1. m - 1 \in Nat
    BY <1>1, <1>13
  <2> HIDE DEF T
  <2>2. 0 .. m - 1 \subseteq T
    BY <1>14, <1>15, <2>1, Induct
  <2> QED
    BY <2>1, <2>2
<1>17. extent[1] = part(1, m)
  <2>1. m - (m - 1) = 1
    BY <1>1, <1>13
  <2> QED
    BY <1>16, <2>1
<1>18. part(1, m) = [k \in 1 .. m - 1 |-> (x + k) % Size]
  <2>1. \A k \in 1 .. m - 1 : 1 + k - 1 = k /\ k \in Nat
    BY <1>1, <1>13
  <2>2. \A k \in 1 .. m - 1 : cell[1 + k - 1] = (x + k) % Size
    BY <1>3, <2>1
  <2> QED
    BY <2>2 DEF part
<1>19. /\ buf[(x + m) % Size].attr
       /\ \A n \in 1 .. m - 1 : ~buf[(x + n) % Size].attr
  <2>1. m \in Nat /\ \A n \in 1 .. m - 1 : n \in Nat
    BY <1>1, <1>13
  <2> QED
    BY <1>3, <1>13, <2>1
<1> QED
  BY <1>11, <1>13, <1>17, <1>18, <1>19

\* The cells of a field are on the screen, and none is an attribute.
LEMMA DataCells ==
  ASSUME NEW buf, NEW x \in Cells, buf[x].attr
  PROVE  Members(Data(buf, x)) \subseteq {a \in Cells : ~buf[a].attr}
<1>1. PICK m \in 1 .. Size :
        /\ \A n \in 1 .. m - 1 : ~buf[(x + n) % Size].attr
        /\ Data(buf, x) = [k \in 1 .. m - 1 |-> (x + k) % Size]
  BY DataIs
<1>2. ASSUME NEW n \in 1 .. m - 1
      PROVE  (x + n) % Size \in Cells
  <2>1. x + n \in Nat
    BY Sizes DEF Cells
  <2> QED
    BY <2>1, Wrapped
<1> QED
  BY <1>1, <1>2 DEF Members

\* Which cells are input cells depends on the attributes alone, and no
\* attribute is one on a formatted screen.
LEMMA InputCellsSame ==
  ASSUME NEW buf, NEW other,
         \A a \in Cells : other[a].attr = buf[a].attr /\ other[a].prot = buf[a].prot
  PROVE  InputCells(other) = InputCells(buf)
<1>1. ASSUME NEW x \in Cells, buf[x].attr
      PROVE  Data(other, x) = Data(buf, x)
  <2>1. \A n \in 1 .. Size : (x + n) % Size \in Cells
    <3> SUFFICES ASSUME NEW n \in 1 .. Size
                 PROVE  (x + n) % Size \in Cells
      OBVIOUS
    <3>1. x + n \in Nat
      BY Sizes DEF Cells
    <3> QED
      BY <3>1, Wrapped
  <2>2. \A n \in 1 .. Size : other[(x + n) % Size].attr = buf[(x + n) % Size].attr
    BY <2>1
  <2>3. PICK m \in 1 .. Size :
          /\ buf[(x + m) % Size].attr
          /\ \A n \in 1 .. m - 1 : ~buf[(x + n) % Size].attr
          /\ Data(buf, x) = [k \in 1 .. m - 1 |-> (x + k) % Size]
    BY <1>1, DataIs
  <2>4. PICK p \in 1 .. Size :
          /\ other[(x + p) % Size].attr
          /\ \A n \in 1 .. p - 1 : ~other[(x + n) % Size].attr
          /\ Data(other, x) = [k \in 1 .. p - 1 |-> (x + k) % Size]
    BY <1>1, DataIs
  <2>5. ~ (p < m)
    <3>1. SUFFICES ASSUME p < m
                   PROVE  FALSE
      OBVIOUS
    <3>2. p \in 1 .. m - 1
      BY <3>1, Sizes
    <3> QED
      BY <2>2, <2>3, <2>4, <3>2
  <2>6. ~ (m < p)
    <3>1. SUFFICES ASSUME m < p
                   PROVE  FALSE
      OBVIOUS
    <3>2. m \in 1 .. p - 1
      BY <3>1, Sizes
    <3> QED
      BY <2>2, <2>3, <2>4, <3>2
  <2>7. m = p
    BY <2>5, <2>6, Sizes
  <2> QED
    BY <2>3, <2>4, <2>7
<1>2. Attributes(other) = Attributes(buf)
  BY DEF Attributes
<1>3. {y \in Attributes(other) : ~other[y].prot} = {y \in Attributes(buf) : ~buf[y].prot}
  BY <1>2 DEF Attributes
<1> DEFINE open == {y \in Attributes(buf) : ~buf[y].prot}
<1>4. \A x \in open : Data(other, x) = Data(buf, x)
  BY <1>1 DEF Attributes
<1> HIDE DEF open
<1>5. UNION {Members(Data(other, x)) : x \in open} = UNION {Members(Data(buf, x)) : x \in open}
  BY <1>4
<1> QED
  BY <1>2, <1>3, <1>5 DEF InputCells, open

-----------------------------------------------------------------------------
(* Writes.                                                                 *)

\* The terminal before the first order of a write.
Before(buf, cur, write) ==
  [buf |-> IF write.erase THEN Erased
           ELSE [a \in Cells |-> [buf[a] EXCEPT !.mdt = @ /\ ~write.reset]],
   at |-> IF write.erase THEN 0 ELSE cur, cursor |-> IF write.erase THEN 0 ELSE cur,
   fg |-> NoColour, rejected |-> FALSE]

\* A write leaves what its orders leave, obeyed one after the other; S[n] is
\* where the n-th of them leaves the terminal.
LEMMA Interpreted ==
  ASSUME NEW S, NEW buf, NEW cur, NEW write, Len(write.orders) \in Nat,
         Before(buf, cur, write) \in S[0],
         \A n \in 1 .. Len(write.orders) : \A t \in S[n - 1] : Obey(t, write.orders[n]) \in S[n]
  PROVE  Interpret(buf, cur, write) \in S[Len(write.orders)]
<1> DEFINE N == Len(write.orders)
           first == Before(buf, cur, write)
           Runs(f) == f = [n \in 0 .. N |-> IF n = 0 THEN first ELSE Obey(f[n - 1], write.orders[n])]
           states == UNION {S[n] : n \in 0 .. N}
           step == [n \in 1 .. N |-> [t \in states |-> Obey(t, write.orders[n])]]
<1>1. N \in Nat /\ first \in S[0]
  OBVIOUS
<1> HIDE DEF first
<1>2. ASSUME NEW n \in 1 .. N, NEW t \in S[n - 1]
      PROVE  step[n][t] = Obey(t, write.orders[n])
  <2>1. n - 1 \in 0 .. N
    OBVIOUS
  <2>2. t \in states
    BY <2>1
  <2> HIDE DEF states
  <2> QED
    BY <2>2
<1>3. \A n \in 1 .. N : \A t \in S[n - 1] : step[n][t] \in S[n]
  <2> HIDE DEF step
  <2> QED
    BY <1>2
<1> HIDE DEF step
<1>4. PICK h : IsHistory(h, N, first, step) /\ \A n \in 0 .. N : h[n] \in S[n]
  <2> HIDE DEF N
  <2> QED
    BY <1>1, <1>3, History
<1>5. /\ h = [n \in 0 .. N |-> h[n]]
      /\ h[0] = first /\ \A n \in 1 .. N : h[n] = step[n][h[n - 1]]
  BY <1>4 DEF IsHistory
<1>6. \E f : Runs(f)
  <2>1. ASSUME NEW n \in 0 .. N
        PROVE  h[n] = IF n = 0 THEN first ELSE Obey(h[n - 1], write.orders[n])
    <3>1. CASE n = 0
      BY <1>5, <3>1
    <3>2. CASE n # 0
      <4>1. n \in 1 .. N /\ n - 1 \in 0 .. N
        BY <3>2
      <4>2. step[n][h[n - 1]] = Obey(h[n - 1], write.orders[n])
        BY <1>2, <1>4, <4>1
      <4> QED
        BY <1>5, <3>2, <4>1, <4>2
    <3> QED
      BY <3>1, <3>2
  <2>2. Runs(h)
    BY <1>5, <2>1
  <2> QED
    BY <2>2
<1> DEFINE after == CHOOSE f : Runs(f)
<1>7. Runs(after)
  <2> HIDE DEF Runs
  <2> QED
    BY <1>6
<1>8. Interpret(buf, cur, write) = after[N]
  BY DEF Interpret, Before, first
<1> HIDE DEF after
<1> DEFINE T == {n \in 0 .. N : after[n] \in S[n]}
<1>9. 0 \in T
  <2>1. 0 \in 0 .. N
    BY <1>1
  <2>2. after[0] = first
    BY <1>7, <2>1
  <2> QED
    BY <1>1, <2>1, <2>2
<1>10. ASSUME NEW n \in 1 .. N, n - 1 \in T
       PROVE  n \in T
  <2>1. n \in 0 .. N /\ n # 0
    OBVIOUS
  <2>2. after[n] = Obey(after[n - 1], write.orders[n])
    BY <1>7, <2>1
  <2> QED
    BY <1>10, <2>1, <2>2
<1>11. 0 .. N \subseteq T
  <2> HIDE DEF T, N
  <2> QED
    BY <1>1, <1>9, <1>10, Induct
<1> QED
  BY <1>1, <1>8, <1>11

-----------------------------------------------------------------------------
(* Orders.                                                                 *)

\* Down to the state h[0], h[n] is what the n-th step makes of h[n + 1].
IsBackward(h, N, s, step) ==
  /\ h = [n \in 0 .. N |-> h[n]]
  /\ h[N] = s /\ \A n \in 0 .. N - 1 : h[n] = step[n][h[n + 1]]

\* A machine that counts N steps down has a history.
LEMMA Backwards ==
  ASSUME NEW S, NEW N \in Nat, NEW s \in S[N], NEW step,
         \A n \in 0 .. N - 1 : \A t \in S[n + 1] : step[n][t] \in S[n]
  PROVE  \E h : IsBackward(h, N, s, step) /\ \A n \in 0 .. N : h[n] \in S[n]
<1> DEFINE R == [m \in 0 .. N |-> S[N - m]]
           back == [m \in 1 .. N |-> step[N - m]]
<1>1. R[0] = S[N]
  <2>1. N - 0 = N /\ 0 \in 0 .. N
    OBVIOUS
  <2> QED
    BY <2>1
<1>2. ASSUME NEW m \in 1 .. N, NEW t \in R[m - 1]
      PROVE  back[m][t] \in R[m]
  <2>1. N - m \in 0 .. N - 1 /\ N - (m - 1) = (N - m) + 1 /\ m - 1 \in 0 .. N /\ m \in 0 .. N
    OBVIOUS
  <2>2. R[m - 1] = S[(N - m) + 1] /\ R[m] = S[N - m] /\ back[m] = step[N - m]
    BY <2>1
  <2> HIDE DEF R, back
  <2> QED
    BY <1>2, <2>1, <2>2
<1>3. \A m \in 0 .. N : R[m] = S[N - m]
  OBVIOUS
<1>4. \A m \in 1 .. N : back[m] = step[N - m]
  OBVIOUS
<1> HIDE DEF R, back
<1>5. PICK g : IsHistory(g, N, s, back) /\ \A m \in 0 .. N : g[m] \in R[m]
  BY <1>1, <1>2, History
<1>6. g[0] = s /\ \A m \in 1 .. N : g[m] = back[m][g[m - 1]]
  BY <1>5 DEF IsHistory
<1> DEFINE h == [n \in 0 .. N |-> g[N - n]]
<1>7. \A n \in 0 .. N : h[n] = g[N - n]
  OBVIOUS
<1>8. h = [n \in 0 .. N |-> h[n]]
  OBVIOUS
<1> HIDE DEF h
<1>9. h[N] = s
  <2>1. N - N = 0 /\ N \in 0 .. N
    OBVIOUS
  <2> QED
    BY <1>6, <1>7, <2>1
<1>10. ASSUME NEW n \in 0 .. N - 1
       PROVE  h[n] = step[n][h[n + 1]]
  <2>1. n \in 0 .. N /\ n + 1 \in 0 .. N /\ N - n \in 1 .. N /\ N - (N - n) = n
        /\ (N - n) - 1 = N - (n + 1)
    OBVIOUS
  <2>2. g[N - n] = back[N - n][g[(N - n) - 1]]
    BY <1>6, <2>1
  <2>3. back[N - n] = step[n]
    BY <1>4, <2>1
  <2>4. h[n] = g[N - n] /\ h[n + 1] = g[N - (n + 1)]
    BY <1>7, <2>1
  <2> QED
    BY <2>1, <2>2, <2>3, <2>4
<1>11. ASSUME NEW n \in 0 .. N
       PROVE  h[n] \in S[n]
  <2>1. N - n \in 0 .. N /\ N - (N - n) = n
    OBVIOUS
  <2>2. g[N - n] \in R[N - n] /\ R[N - n] = S[n]
    BY <1>3, <1>5, <2>1
  <2> QED
    BY <1>7, <2>2
<1>12. IsBackward(h, N, s, step)
  BY <1>8, <1>9, <1>10 DEF IsBackward
<1> QED
  BY <1>11, <1>12

\* The sequences behind the i-th, concatenated.
LEMMA ConcatUnrolled ==
  ASSUME NEW A, NEW seqs \in Seq(Seq(A))
  PROVE  \E from :
           /\ Concat(seqs) = from[1]
           /\ from[Len(seqs) + 1] = <<>>
           /\ \A i \in 1 .. Len(seqs) : from[i] = seqs[i] \o from[i + 1]
           /\ \A i \in 1 .. Len(seqs) + 1 : from[i] \in Seq(A)
<1> DEFINE N == Len(seqs)
           Unrolled(f) == f = [i \in 1 .. N + 1 |-> IF i > N THEN <<>> ELSE seqs[i] \o f[i + 1]]
           step == [n \in 0 .. N - 1 |-> [t \in Seq(A) |-> seqs[n + 1] \o t]]
           S == [n \in 0 .. N |-> Seq(A)]
<1>1. N \in Nat /\ \A i \in 1 .. N : seqs[i] \in Seq(A)
  OBVIOUS
<1> HIDE DEF N
<1>2. ASSUME NEW n \in 0 .. N - 1, NEW t \in Seq(A)
      PROVE  step[n][t] = seqs[n + 1] \o t /\ step[n][t] \in Seq(A)
  <2>1. n + 1 \in 1 .. N
    BY <1>1
  <2>2. seqs[n + 1] \in Seq(A)
    BY <1>1, <2>1
  <2>3. seqs[n + 1] \o t \in Seq(A)
    BY <2>2
  <2>4. step[n] = [u \in Seq(A) |-> seqs[n + 1] \o u]
    OBVIOUS
  <2> HIDE DEF step
  <2>5. step[n][t] = seqs[n + 1] \o t
    BY <2>4
  <2> QED
    BY <2>3, <2>5
<1>3. \A n \in 0 .. N : S[n] = Seq(A)
  OBVIOUS
<1> HIDE DEF S, step
<1>4. PICK h : IsBackward(h, N, <<>>, step) /\ \A n \in 0 .. N : h[n] \in S[n]
  <2>1. \A n \in 0 .. N - 1 : n + 1 \in 0 .. N /\ n \in 0 .. N
    BY <1>1
  <2>2. \A n \in 0 .. N - 1 : S[n + 1] = Seq(A) /\ S[n] = Seq(A)
    BY <1>3, <2>1
  <2>3. \A n \in 0 .. N - 1 : \A t \in S[n + 1] : step[n][t] \in S[n]
    BY <1>2, <2>2
  <2>4. <<>> \in S[N]
    <3>1. N \in 0 .. N
      BY <1>1
    <3>2. <<>> \in Seq(A)
      OBVIOUS
    <3> QED
      BY <1>3, <3>1, <3>2
  <2> QED
    BY <1>1, <2>3, <2>4, Backwards
<1>5. h[N] = <<>> /\ \A n \in 0 .. N - 1 : h[n] = step[n][h[n + 1]]
  BY <1>4 DEF IsBackward
<1>6. \A n \in 0 .. N : h[n] \in Seq(A)
  BY <1>3, <1>4
<1> DEFINE w == [i \in 1 .. N + 1 |-> h[i - 1]]
<1>7. \A i \in 1 .. N + 1 : w[i] = h[i - 1]
  OBVIOUS
<1>8. w = [i \in 1 .. N + 1 |-> w[i]]
  OBVIOUS
<1> HIDE DEF w
<1>9. ASSUME NEW i \in 1 .. N + 1
      PROVE  w[i] = IF i > N THEN <<>> ELSE seqs[i] \o w[i + 1]
  <2>1. CASE i > N
    <3>1. i - 1 = N
      BY <1>1, <2>1
    <3> QED
      BY <1>5, <1>7, <2>1, <3>1
  <2>2. CASE ~ (i > N)
    <3>1. /\ i - 1 \in 0 .. N - 1 /\ (i - 1) + 1 = i /\ i + 1 \in 1 .. N + 1 /\ (i + 1) - 1 = i
          /\ i \in 0 .. N
      BY <1>1, <2>2
    <3>2. h[i - 1] = step[i - 1][h[i]]
      BY <1>5, <3>1
    <3>3. step[i - 1][h[i]] = seqs[i] \o h[i]
      BY <1>2, <1>6, <3>1
    <3>4. w[i] = h[i - 1] /\ w[i + 1] = h[i]
      BY <1>7, <3>1
    <3> QED
      BY <2>2, <3>2, <3>3, <3>4
  <2> QED
    BY <2>1, <2>2
<1>10. Unrolled(w)
  BY <1>8, <1>9
<1> DEFINE from == CHOOSE f : Unrolled(f)
<1>11. Unrolled(from)
  <2> HIDE DEF Unrolled
  <2> QED
    BY <1>10
<1>12. Concat(seqs) = from[1]
  BY DEF Concat, N
<1> HIDE DEF from
<1>13. \A i \in 1 .. N + 1 : from[i] = IF i > N THEN <<>> ELSE seqs[i] \o from[i + 1]
  BY <1>11
<1>14. from[N + 1] = <<>> /\ \A i \in 1 .. N : from[i] = seqs[i] \o from[i + 1]
  <2>1. N + 1 \in 1 .. N + 1 /\ N + 1 > N
    BY <1>1
  <2>2. \A i \in 1 .. N : i \in 1 .. N + 1 /\ ~ (i > N)
    BY <1>1
  <2> QED
    BY <1>13, <2>1, <2>2
<1> HIDE DEF Unrolled
<1> DEFINE T == {d \in 0 .. N : from[N + 1 - d] \in Seq(A)}
<1>15. 0 \in T
  <2>1. N + 1 - 0 = N + 1 /\ 0 \in 0 .. N
    BY <1>1
  <2>2. <<>> \in Seq(A)
    OBVIOUS
  <2> QED
    BY <1>14, <2>1, <2>2
<1>16. ASSUME NEW d \in 1 .. N, d - 1 \in T
       PROVE  d \in T
  <2>1. N + 1 - d \in 1 .. N /\ (N + 1 - d) + 1 = N + 1 - (d - 1) /\ d \in 0 .. N
    BY <1>1
  <2>2. from[N + 1 - (d - 1)] \in Seq(A)
    BY <1>16
  <2>3. from[N + 1 - d] = seqs[N + 1 - d] \o from[N + 1 - (d - 1)]
    BY <1>14, <2>1
  <2>4. seqs[N + 1 - d] \in Seq(A)
    BY <1>1, <2>1
  <2>5. from[N + 1 - d] \in Seq(A)
    BY <2>2, <2>3, <2>4
  <2> QED
    BY <2>1, <2>5
<1>17. \A d \in 0 .. N : from[N + 1 - d] \in Seq(A)
  <2>1. 0 .. N \subseteq T
    <3> HIDE DEF T
    <3> QED
      BY <1>1, <1>15, <1>16, Induct
  <2> QED
    BY <2>1
<1>18. ASSUME NEW i \in 1 .. N + 1
       PROVE  from[i] \in Seq(A)
  <2>1. N + 1 - i \in 0 .. N /\ N + 1 - (N + 1 - i) = i
    BY <1>1
  <2> QED
    BY <1>17, <2>1
<1> QED
  BY <1>12, <1>14, <1>18 DEF N

\* A concatenation has the elements of its parts.
LEMMA ConcatTyped ==
  ASSUME NEW A, NEW seqs \in Seq(Seq(A))
  PROVE  Concat(seqs) \in Seq(A)
<1>1. PICK from : Concat(seqs) = from[1] /\ \A i \in 1 .. Len(seqs) + 1 : from[i] \in Seq(A)
  BY ConcatUnrolled
<1>2. 1 \in 1 .. Len(seqs) + 1
  OBVIOUS
<1> QED
  BY <1>1, <1>2

\* The orders of a write, whatever they address.
Orders(B) ==
  [op : {"put", "SF", "SA", "IC", "SBA", "RA", "EUA"}, bytes : Seq(Int), c : B, fg : Char,
   prot : BOOLEAN, mdt : BOOLEAN]

\* Bytes that are characters.
LEMMA Bytes ==
  /\ {Null, SBA, SF, SA, Blank, NoColour, Enter, Clear, Selectable, Selected, Detectable} \subseteq Char
  /\ Char \subseteq Nat /\ Char = 0 .. IAC - 1 /\ IAC \in Nat
BY SizeAssumption
   DEF Char, IAC, Null, SBA, SF, SA, Blank, NoColour, Enter, Clear, Selectable, Selected, Detectable

\* The single orders.
LEMMA OrdersTyped ==
  ASSUME NEW B, Char \subseteq B
  PROVE
  /\ \A op \in {"SBA", "RA", "EUA"}, a \in Int, c \in B : At(op, a, c) \in Orders(B)
  /\ \A c \in B : Put(c) \in Orders(B)
  /\ \A fg \in Char : SetColour(fg) \in Orders(B)
  /\ \A it \in Item(B), prot \in BOOLEAN, mdt \in BOOLEAN, fg \in Char :
       StartField(it, prot, mdt, fg) \in Orders(B)
  /\ Terminator \in Orders(B) /\ InsertCursor \in Orders(B)
<1> USE Bytes
<1> HIDE DEF Char
<1>1. ASSUME NEW op \in {"SBA", "RA", "EUA"}, NEW a \in Int, NEW c \in B
      PROVE  At(op, a, c) \in Orders(B)
  <2>1. Chunk \in Nat /\ Chunk > 0
    BY SizeAssumption
  <2>2. PICK q \in Int, r \in 0 .. Chunk - 1 : q = a \div Chunk /\ r = a % Chunk
    BY <2>1, Quotient
  <2>3. EncodePackAddr(a) \in {<<>>, <<3 * Chunk + q, Chunk + r>>}
    BY <2>2 DEF EncodePackAddr
  <2>4. 3 * Chunk + q \in Int /\ Chunk + r \in Int
    BY <2>1
  <2>5. EncodePackAddr(a) \in Seq(Int)
    <3>1. <<>> \in Seq(Int) /\ <<3 * Chunk + q, Chunk + r>> \in Seq(Int)
      BY <2>4
    <3> QED
      BY <2>3, <3>1
  <2> HIDE DEF EncodePackAddr
  <2> QED
    BY <2>5 DEF At, Order, Orders
<1>2. <<>> \in Seq(Int)
  OBVIOUS
<1>3. \A c \in B : Put(c) \in Orders(B)
  BY <1>2 DEF Put, Order, Orders
<1>4. \A fg \in Char : SetColour(fg) \in Orders(B)
  BY <1>2 DEF SetColour, Order, Orders
<1>5. ASSUME NEW it \in Item(B), NEW prot \in BOOLEAN, NEW mdt \in BOOLEAN, NEW fg \in Char
      PROVE  StartField(it, prot, mdt, fg) \in Orders(B)
  <2> DEFINE c == IF it.designator = <<>> THEN Null ELSE Detectable
  <2>1. c \in B
    OBVIOUS
  <2>2. StartField(it, prot, mdt, fg) = Order("SF", <<>>, c, fg, prot, mdt)
    BY DEF StartField
  <2> HIDE DEF c
  <2> QED
    BY <1>2, <2>1, <2>2 DEF Order, Orders
<1>6. Terminator \in Orders(B) /\ InsertCursor \in Orders(B)
  BY <1>2 DEF Terminator, InsertCursor, Order, Orders
<1> QED
  BY <1>1, <1>3, <1>4, <1>5, <1>6

\* A set has the orders without an address, and those for the addresses S.
Has(A, B, S) ==
  /\ \A op \in {"SBA", "RA", "EUA"}, a \in S, c \in B : At(op, a, c) \in A
  /\ \A c \in B : Put(c) \in A
  /\ \A fg \in Char : SetColour(fg) \in A
  /\ \A it \in Item(B), prot \in BOOLEAN, mdt \in BOOLEAN, fg \in Char :
       StartField(it, prot, mdt, fg) \in A
  /\ Terminator \in A /\ InsertCursor \in A

\* The orders that do not raise: those for addresses that can be coded.
Coded(B) == {o \in Orders(B) : o.op \in {"SBA", "RA", "EUA"} => o.bytes # <<>>}

\* An order for an address raises exactly when the address cannot be coded.
LEMMA AddressCoded ==
  ASSUME NEW a \in Nat
  PROVE  EncodePackAddr(a) = <<>> <=> a >= Addressable
<1>1. a \in 0 .. Addressable - 1 <=> ~ (a >= Addressable)
  BY Sizes
<1>2. \A x, y : <<x, y>> # <<>>
  OBVIOUS
<1> QED
  BY <1>1, <1>2 DEF EncodePackAddr

\* Both sets have them.
LEMMA OrdersHad ==
  ASSUME NEW B, Char \subseteq B
  PROVE  Has(Orders(B), B, Int) /\ Has(Coded(B), B, 0 .. Addressable - 1)
<1> HIDE DEF Char, Orders, Item
<1>1. Has(Orders(B), B, Int)
  BY OrdersTyped, Zenon DEF Has
<1>2. ASSUME NEW op \in {"SBA", "RA", "EUA"}, NEW a \in 0 .. Addressable - 1, NEW c \in B
      PROVE  At(op, a, c) \in Coded(B)
  <2>1. At(op, a, c) \in Orders(B)
    BY <1>1 DEF Has
  <2>2. a \in Nat /\ ~ (a >= Addressable)
    BY Sizes
  <2>3. At(op, a, c).bytes # <<>>
    BY <2>2, AddressCoded DEF At, Order
  <2> QED
    BY <2>1, <2>3 DEF Coded
<1>3. /\ \A c \in B : Put(c) \in Coded(B)
      /\ \A fg \in Char : SetColour(fg) \in Coded(B)
      /\ \A it \in Item(B), prot \in BOOLEAN, mdt \in BOOLEAN, fg \in Char :
           StartField(it, prot, mdt, fg) \in Coded(B)
      /\ Terminator \in Coded(B) /\ InsertCursor \in Coded(B)
  <2>1. \A o \in Orders(B) : o.op \notin {"SBA", "RA", "EUA"} => o \in Coded(B)
    BY DEF Coded
  <2>2. \A c \in B : Put(c) \in Coded(B)
    BY <1>1, <2>1 DEF Has, Put, Order
  <2>3. \A fg \in Char : SetColour(fg) \in Coded(B)
    BY <1>1, <2>1 DEF Has, SetColour, Order
  <2>4. \A it \in Item(B), prot \in BOOLEAN, mdt \in BOOLEAN, fg \in Char :
          StartField(it, prot, mdt, fg) \in Coded(B)
    BY <1>1, <2>1 DEF Has, StartField, Order
  <2>5. Terminator \in Coded(B) /\ InsertCursor \in Coded(B)
    BY <1>1, <2>1 DEF Has, Terminator, InsertCursor, Order
  <2> QED
    BY <2>2, <2>3, <2>4, <2>5
<1>4. Has(Coded(B), B, 0 .. Addressable - 1)
  BY <1>2, <1>3, Zenon DEF Has
<1> QED
  BY <1>1, <1>4

\* Two orders.
LEMMA Pair ==
  ASSUME NEW A, NEW a \in A, NEW b \in A
  PROVE  <<a, b>> \in Seq(A)
OBVIOUS

\* Characters put one after the other.
LEMMA PutsIn ==
  ASSUME NEW B, NEW A, NEW S, Has(A, B, S), NEW s \in Seq(B)
  PROVE  Puts(s) \in Seq(A)
<1>1. \A i \in DOMAIN s : s[i] \in B
  OBVIOUS
<1>2. \A i \in DOMAIN s : Put(s[i]) \in A
  BY <1>1 DEF Has
<1>3. DOMAIN s = 1 .. Len(s) /\ Len(s) \in Nat
  OBVIOUS
<1> QED
  BY <1>2, <1>3 DEF Puts

LEMMA PutsTyped ==
  ASSUME NEW B, Char \subseteq B, NEW s \in Seq(B)
  PROVE  Puts(s) \in Seq(Orders(B))
BY PutsIn, OrdersHad, Zenon

\* A value and its pad characters are as long as the field.
LEMMA FilledTyped ==
  ASSUME NEW B, Char \subseteq B, NEW s \in Seq(B), NEW length \in Nat, NEW fill \in B
  PROVE  Filled(s, length, fill) \in Seq(B) /\ Len(Filled(s, length, fill)) = length
<1>1. \A i \in 1 .. length : (IF i <= Len(s) THEN s[i] ELSE fill) \in B
  OBVIOUS
<1> QED
  BY <1>1 DEF Filled

\* The facts about an item that the orders depend on.
LEMMA ItemFacts ==
  ASSUME NEW B, Char \subseteq B, NEW it \in Item(B)
  PROVE  /\ it.row \in Nat /\ it.col \in Nat /\ it.length \in Nat /\ it.index \in Nat
         /\ it.text \in Seq(B) /\ it.designator \in Seq(B)
         /\ it.pad \in B /\ it.fg \in Char
         /\ it.runs \in Seq([text : Seq(B), fg : Char])
         /\ it.mdt \in BOOLEAN /\ it.cursor \in BOOLEAN
         /\ Addr(it) \in Nat /\ DataAddr(it) \in Nat
<1>1. /\ it.row \in Nat /\ it.col \in Nat /\ it.length \in Nat /\ it.index \in Nat
      /\ it.text \in Seq(B) /\ it.designator \in Seq(B)
      /\ it.pad \in B /\ it.fg \in Char
      /\ it.runs \in Seq([text : Seq(B), fg : Char])
      /\ it.mdt \in BOOLEAN /\ it.cursor \in BOOLEAN
  BY DEF Item
<1>2. Width \in Nat
  BY SizeAssumption
<1>3. \A m, n, k \in Nat : m * n + k \in Nat
  OBVIOUS
<1>4. Addr(it) \in Nat
  BY <1>1, <1>2, <1>3 DEF Addr
<1> QED
  BY <1>1, <1>4 DEF DataAddr

\* Runs of characters in their colours.
LEMMA EmitAttrRunsIn ==
  ASSUME NEW B, Char \subseteq B, NEW A, NEW S, Has(A, B, S),
         NEW runs \in Seq([text : Seq(B), fg : Char]), runs # <<>>, NEW base \in Char
  PROVE  EmitAttrRuns(runs, base) \in Seq(A)
<1> DEFINE part(i) == <<SetColour(RunColour(runs[i], base))>> \o Puts(runs[i].text)
           parts == [i \in DOMAIN runs |-> part(i)]
           last == RunColour(runs[Len(runs)], base)
           reset == IF last # NoColour THEN <<SetColour(NoColour)>> ELSE <<>>
<1>1. \A i \in DOMAIN runs : RunColour(runs[i], base) \in Char /\ runs[i].text \in Seq(B)
  <2>1. \A i \in DOMAIN runs : runs[i] \in [text : Seq(B), fg : Char]
    <3> DEFINE R == [text : Seq(B), fg : Char]
    <3>1. runs \in Seq(R)
      OBVIOUS
    <3> HIDE DEF R
    <3>2. \A i \in DOMAIN runs : runs[i] \in R
      BY <3>1
    <3> QED
      BY <3>2 DEF R
  <2>2. \A i \in DOMAIN runs : runs[i].text \in Seq(B) /\ runs[i].fg \in Char
    BY <2>1
  <2> QED
    BY <2>2 DEF RunColour
<1>2. ASSUME NEW i \in DOMAIN runs
      PROVE  part(i) \in Seq(A)
  <2>1. SetColour(RunColour(runs[i], base)) \in A
    BY <1>1 DEF Has
  <2>2. Puts(runs[i].text) \in Seq(A)
    BY <1>1, PutsIn
  <2> QED
    BY <2>1, <2>2
<1>3. parts \in Seq(Seq(A))
  <2>1. DOMAIN runs = 1 .. Len(runs) /\ Len(runs) \in Nat
    OBVIOUS
  <2> HIDE DEF part
  <2> QED
    BY <1>2, <2>1
<1>4. Concat(parts) \in Seq(A)
  BY <1>3, ConcatTyped
<1>5. reset \in Seq(A)
  <2>1. SetColour(NoColour) \in A
    BY Bytes DEF Has
  <2> QED
    BY <2>1
<1>6. EmitAttrRuns(runs, base) = Concat(parts) \o reset
  BY DEF EmitAttrRuns
<1> HIDE DEF parts, reset
<1> QED
  BY <1>4, <1>5, <1>6

\* Text.
LEMMA EmitTextIn ==
  ASSUME NEW B, Char \subseteq B, NEW A, NEW S, Has(A, B, S), NEW it \in Item(B), NEW colour \in BOOLEAN,
         Addr(it) \in S, Cells \subseteq S
  PROVE  EmitText(it, colour) \in Seq(A)
<1> HIDE DEF Item
<1>1. /\ it.length \in Nat
      /\ it.text \in Seq(B) /\ it.designator \in Seq(B)
      /\ it.pad \in B /\ it.fg \in Char
      /\ it.runs \in Seq([text : Seq(B), fg : Char])
      /\ it.mdt \in BOOLEAN /\ it.cursor \in BOOLEAN
      /\ Addr(it) \in Nat /\ DataAddr(it) \in Nat
  BY ItemFacts, Zenon
<1>2. Null \in B /\ \A a \in S : At("SBA", a, Null) \in A
  <2>1. Null \in B
    BY Bytes
  <2>2. \A op \in {"SBA", "RA", "EUA"}, a \in S, c \in B : At(op, a, c) \in A
    BY DEF Has
  <2> QED
    BY <2>1, <2>2
<1> DEFINE base == IF colour THEN it.fg ELSE NoColour
           text == it.designator \o it.text
           start == <<At("SBA", Addr(it), Null), StartField(it, TRUE, FALSE, base)>>
           body == IF it.runs # <<>> /\ colour THEN EmitAttrRuns(it.runs, base)
                   ELSE IF Len(text) >= RunMin /\ OneChar(text)
                        THEN <<RepeatTo(Addr(it) + 1 + Len(text), text[1])>>
                   ELSE Puts(text)
<1>3. base \in Char /\ text \in Seq(B)
  <2>1. NoColour \in Char
    BY Bytes
  <2>2. base \in Char
    BY <1>1, <2>1
  <2>3. text \in Seq(B)
    BY <1>1
  <2> QED
    BY <2>2, <2>3
<1>4. start \in Seq(A)
  <2>1. At("SBA", Addr(it), Null) \in A
    BY <1>1, <1>2
  <2>2. StartField(it, TRUE, FALSE, base) \in A
    BY <1>1, <1>3 DEF Has
  <2> QED
    BY <2>1, <2>2, Pair
<1>5. body \in Seq(A)
  <2>1. CASE it.runs # <<>> /\ colour
    <3>1. EmitAttrRuns(it.runs, base) \in Seq(A)
      BY <1>3, <2>1, <1>1, EmitAttrRunsIn
    <3> QED
      BY <2>1, <3>1
  <2>2. CASE ~ (it.runs # <<>> /\ colour) /\ Len(text) >= RunMin /\ OneChar(text)
    <3> DEFINE stop == Addr(it) + 1 + Len(text)
    <3> HIDE DEF text
    <3>1. stop % Size \in S
      <4>1. stop \in Nat
        <5>1. Len(text) \in Nat /\ Addr(it) \in Nat
          BY <1>3, <1>1
        <5> QED
          BY <5>1
      <4> HIDE DEF stop
      <4> QED
        BY <4>1, Wrapped
    <3>2. text[1] \in B
      <4>1. Len(text) \in Nat \ {0}
        BY <1>3, <2>2, SizeAssumption
      <4>2. 1 \in DOMAIN text
        BY <1>3, <4>1
      <4> QED
        BY <1>3, <4>2
    <3>3. RepeatTo(stop, text[1]) \in A
      BY <3>1, <3>2 DEF RepeatTo, Has
    <3>4. body = <<RepeatTo(stop, text[1])>>
      BY <2>2
    <3> HIDE DEF body, stop
    <3> QED
      BY <3>3, <3>4
  <2>3. CASE ~ (it.runs # <<>> /\ colour) /\ ~ (Len(text) >= RunMin /\ OneChar(text))
    <3>1. Puts(text) \in Seq(A)
      BY <1>3, PutsIn
    <3> QED
      BY <2>3, <3>1
  <2> QED
    BY <2>1, <2>2, <2>3
<1>6. EmitText(it, colour) = start \o body
  BY DEF EmitText
<1> HIDE DEF start, body
<1> QED
  BY <1>4, <1>5, <1>6

\* A field.
LEMMA EmitFieldIn ==
  ASSUME NEW B, Char \subseteq B, NEW A, NEW S, Has(A, B, S), NEW it \in Item(B), NEW colour \in BOOLEAN,
         {Addr(it), DataAddr(it), Ending(it)} \subseteq S
  PROVE  EmitField(it, colour) \in Seq(A)
<1> HIDE DEF Item
<1>1. /\ it.length \in Nat
      /\ it.text \in Seq(B) /\ it.designator \in Seq(B)
      /\ it.pad \in B /\ it.fg \in Char
      /\ it.runs \in Seq([text : Seq(B), fg : Char])
      /\ it.mdt \in BOOLEAN /\ it.cursor \in BOOLEAN
      /\ Addr(it) \in Nat /\ DataAddr(it) \in Nat
  BY ItemFacts, Zenon
<1>2. Null \in B /\ \A a \in S : At("SBA", a, Null) \in A
  <2>1. Null \in B
    BY Bytes
  <2>2. \A op \in {"SBA", "RA", "EUA"}, a \in S, c \in B : At(op, a, c) \in A
    BY DEF Has
  <2> QED
    BY <2>1, <2>2
<1> DEFINE base == IF colour THEN it.fg ELSE NoColour
           start == <<At("SBA", Addr(it), Null), StartField(it, FALSE, it.mdt, base)>>
           data == Puts(Filled(it.designator \o it.text, it.length, it.pad))
           end == <<At("SBA", DataAddr(it) + it.length, Null), Terminator>>
           place == IF it.cursor THEN <<At("SBA", DataAddr(it), Null), InsertCursor>> ELSE <<>>
<1>3. base \in Char /\ it.mdt \in BOOLEAN
  BY <1>1, Bytes
<1>4. start \in Seq(A)
  <2>1. At("SBA", Addr(it), Null) \in A
    BY <1>1, <1>2
  <2>2. StartField(it, FALSE, it.mdt, base) \in A
    BY <1>1, <1>3 DEF Has
  <2> QED
    BY <2>1, <2>2, Pair
<1>5. data \in Seq(A)
  <2>1. it.designator \o it.text \in Seq(B)
    BY <1>1
  <2>2. Filled(it.designator \o it.text, it.length, it.pad) \in Seq(B)
    BY <2>1, <1>1, FilledTyped
  <2> QED
    BY <2>2, PutsIn
<1>6. end \in Seq(A)
  <2>1. DataAddr(it) + it.length \in S
    BY DEF Ending
  <2>2. At("SBA", DataAddr(it) + it.length, Null) \in A
    BY <2>1, <1>2
  <2> QED
    BY <2>2, Pair DEF Has
<1>7. place \in Seq(A)
  <2>1. At("SBA", DataAddr(it), Null) \in A
    BY <1>1, <1>2
  <2>2. <<At("SBA", DataAddr(it), Null), InsertCursor>> \in Seq(A)
    BY <2>1, Pair DEF Has
  <2> QED
    BY <2>2
<1>8. EmitField(it, colour) = start \o data \o end \o place
  BY DEF EmitField
<1> HIDE DEF start, data, end, place
<1>9. start \o data \in Seq(A)
  BY <1>4, <1>5
<1>10. start \o data \o end \in Seq(A)
  BY <1>6, <1>9
<1> QED
  BY <1>7, <1>8, <1>10

\* An item.
LEMMA EmitTyped ==
  ASSUME NEW B, Char \subseteq B, NEW it \in Item(B), NEW colour \in BOOLEAN
  PROVE  Emit(it, colour) \in Seq(Orders(B))
<1> HIDE DEF Orders, Item
<1>1. Has(Orders(B), B, Int)
  BY OrdersHad, Zenon
<1>2. it.length \in Nat /\ Addr(it) \in Nat /\ DataAddr(it) \in Nat
  BY ItemFacts, Zenon
<1>3. {Addr(it), DataAddr(it), Ending(it)} \subseteq Int /\ Cells \subseteq Int
  BY <1>2, Sizes DEF Ending, Cells
<1>4. EmitField(it, colour) \in Seq(Orders(B)) /\ EmitText(it, colour) \in Seq(Orders(B))
  BY <1>1, <1>3, EmitFieldIn, EmitTextIn, Zenon
<1> QED
  BY <1>4 DEF Emit

\* The three writes.
LEMMA WritesTyped ==
  ASSUME NEW B, Char \subseteq B
  PROVE
  /\ \A p \in Screen(B), colour \in BOOLEAN :
       /\ Render(p, colour).erase = TRUE /\ Render(p, colour).reset = TRUE
       /\ Render(p, colour).orders \in Seq(Orders(B))
  /\ \A items \in Seq(Item(B)), colour \in BOOLEAN, a \in Nat :
       /\ RenderPartial(items, colour, a).erase = FALSE
       /\ RenderPartial(items, colour, a).reset = FALSE
       /\ RenderPartial(items, colour, a).orders \in Seq(Orders(B))
<1> HIDE DEF Orders, Item
<1>1. ASSUME NEW p \in Screen(B), NEW colour \in BOOLEAN
      PROVE  Render(p, colour).orders \in Seq(Orders(B))
  <2> DEFINE part(i) == IF OnPanel(p.items[i]) THEN Emit(p.items[i], colour) ELSE <<>>
             parts == [i \in DOMAIN p.items |-> part(i)]
  <2>1. p.items \in Seq(Item(B))
    BY DEF Screen
  <2>2. ASSUME NEW i \in DOMAIN p.items
        PROVE  part(i) \in Seq(Orders(B))
    <3>1. p.items[i] \in Item(B)
      BY <2>1
    <3>2. Emit(p.items[i], colour) \in Seq(Orders(B))
      BY <3>1, EmitTyped
    <3> QED
      BY <3>2
  <2>3. parts \in Seq(Seq(Orders(B)))
    <3>1. DOMAIN p.items = 1 .. Len(p.items) /\ Len(p.items) \in Nat
      BY <2>1
    <3> HIDE DEF part
    <3> QED
      BY <2>2, <3>1
  <2>4. Concat(parts) \in Seq(Orders(B))
    BY <2>3, ConcatTyped
  <2> QED
    BY <2>4 DEF Render
<1>2. ASSUME NEW items \in Seq(Item(B)), NEW colour \in BOOLEAN, NEW a \in Nat
      PROVE  RenderPartial(items, colour, a).orders \in Seq(Orders(B))
  <2> DEFINE parts == [i \in DOMAIN items |-> Emit(items[i], colour)]
             end == <<At("SBA", a, Null), InsertCursor>>
  <2>1. \A i \in DOMAIN items : Emit(items[i], colour) \in Seq(Orders(B))
    BY EmitTyped
  <2>2. parts \in Seq(Seq(Orders(B)))
    <3>1. DOMAIN items = 1 .. Len(items) /\ Len(items) \in Nat
      OBVIOUS
    <3> QED
      BY <2>1, <3>1
  <2>3. Concat(parts) \in Seq(Orders(B))
    BY <2>2, ConcatTyped
  <2>4. end \in Seq(Orders(B))
    <3>1. At("SBA", a, Null) \in Orders(B)
      BY Bytes, OrdersTyped
    <3> QED
      BY <3>1, OrdersTyped, Pair
  <2>5. RenderPartial(items, colour, a).orders = Concat(parts) \o end
    BY DEF RenderPartial, EmitItems
  <2> HIDE DEF parts, end
  <2> QED
    BY <2>3, <2>4, <2>5
<1> QED
  BY <1>1, <1>2 DEF Render, RenderPartial

-----------------------------------------------------------------------------
(* The terminal obeys.                                                     *)

Cell(B) == [attr : BOOLEAN, prot : BOOLEAN, mdt : BOOLEAN, c : B, fg : Char]

State(B) == [buf : [Cells -> Cell(B)], at : Cells, cursor : Cells, fg : Char, rejected : BOOLEAN]

\* The cell behind another is on the screen.
LEMMA NextCell ==
  ASSUME NEW a \in Cells
  PROVE  Next1(a) \in Cells
<1>1. a + 1 \in Nat
  BY Sizes DEF Cells
<1> QED
  BY <1>1, Wrapped DEF Next1

\* A cell with other contents.
LEMMA CellsTyped ==
  ASSUME NEW B, Char \subseteq B
  PROVE
  /\ EmptyCell \in Cell(B) /\ Erased \in [Cells -> Cell(B)]
  /\ \A c \in B, fg \in Char : [EmptyCell EXCEPT !.c = c, !.fg = fg] \in Cell(B)
  /\ \A prot \in BOOLEAN, mdt \in BOOLEAN, c \in B, fg \in Char :
       [EmptyCell EXCEPT !.attr = TRUE, !.prot = prot, !.mdt = mdt, !.c = c, !.fg = fg] \in Cell(B)
<1> USE Bytes
<1> HIDE DEF Char
<1>1. EmptyCell \in Cell(B)
  BY DEF EmptyCell, Cell
<1> QED
  BY <1>1 DEF EmptyCell, Cell, Erased

\* Every order leaves a terminal with a buffer, an address and a cursor.
LEMMA ObeyTyped ==
  ASSUME NEW B, Char \subseteq B, NEW t \in State(B), NEW o \in Orders(B)
  PROVE  Obey(t, o) \in State(B)
<1> HIDE DEF Char, Cell
<1> DEFINE a == DecodeBufferAddr(o.bytes[1], o.bytes[2])
           write(S, cell) == [x \in Cells |-> IF x \in S THEN cell ELSE t.buf[x]]
<1>1. /\ t.buf \in [Cells -> Cell(B)] /\ t.at \in Cells /\ t.cursor \in Cells /\ t.fg \in Char
      /\ t.rejected \in BOOLEAN
  BY DEF State
<1>2. o.c \in B /\ o.fg \in Char /\ o.prot \in BOOLEAN /\ o.mdt \in BOOLEAN
      /\ o.op \in {"put", "SF", "SA", "IC", "SBA", "RA", "EUA"}
  BY DEF Orders
<1>3. \A S : \A cell \in Cell(B) : write(S, cell) \in [Cells -> Cell(B)]
  BY <1>1
<1>4. \A cell \in Cell(B) : Stored(t, cell) \in State(B)
  <2> SUFFICES ASSUME NEW cell \in Cell(B)
               PROVE  Stored(t, cell) \in State(B)
    OBVIOUS
  <2>1. [t.buf EXCEPT ![t.at] = cell] \in [Cells -> Cell(B)]
    BY <1>1
  <2>2. Next1(t.at) \in Cells
    BY <1>1, NextCell
  <2>3. Stored(t, cell) = [t EXCEPT !.buf = [t.buf EXCEPT ![t.at] = cell], !.at = Next1(t.at)]
    BY DEF Stored, State
  <2> QED
    BY <2>1, <2>2, <2>3 DEF State
<1>5. CASE t.rejected
  BY <1>5 DEF Obey
<1>6. CASE ~t.rejected /\ o.op = "put"
  <2>1. Obey(t, o) = Stored(t, [EmptyCell EXCEPT !.c = o.c, !.fg = t.fg])
    BY <1>6 DEF Obey
  <2>2. [EmptyCell EXCEPT !.c = o.c, !.fg = t.fg] \in Cell(B)
    BY <1>1, <1>2, CellsTyped
  <2> QED
    BY <1>4, <2>1, <2>2
<1>7. CASE ~t.rejected /\ o.op = "SF"
  <2> DEFINE cell == [EmptyCell EXCEPT !.attr = TRUE, !.prot = o.prot, !.mdt = o.mdt,
                                       !.c = o.c, !.fg = o.fg]
  <2>1. Obey(t, o) = Stored(t, cell)
    BY <1>7 DEF Obey
  <2>2. cell \in Cell(B)
    BY <1>2, CellsTyped
  <2> HIDE DEF cell
  <2> QED
    BY <1>4, <2>1, <2>2
<1>8. CASE ~t.rejected /\ o.op = "SA"
  <2>1. Obey(t, o) = [t EXCEPT !.fg = o.fg]
    BY <1>8 DEF Obey
  <2> QED
    BY <1>2, <2>1 DEF State
<1>9. CASE ~t.rejected /\ o.op = "IC"
  <2>1. Obey(t, o) = [t EXCEPT !.cursor = t.at]
    BY <1>9 DEF Obey
  <2> QED
    BY <1>1, <2>1 DEF State
<1>10. CASE ~t.rejected /\ o.op \in {"SBA", "RA", "EUA"} /\ a \notin Cells
  <2>1. Obey(t, o) = [t EXCEPT !.rejected = TRUE]
    BY <1>10 DEF Obey
  <2> QED
    BY <2>1 DEF State
<1>11. CASE ~t.rejected /\ o.op = "SBA" /\ a \in Cells
  <2>1. Obey(t, o) = [t EXCEPT !.at = a]
    BY <1>11 DEF Obey
  <2> HIDE DEF a
  <2> QED
    BY <1>11, <2>1 DEF State
<1>12. CASE ~t.rejected /\ o.op = "RA" /\ a \in Cells
  <2> DEFINE buf == write(Span(t.at, a), [EmptyCell EXCEPT !.c = o.c, !.fg = t.fg])
  <2>1. Obey(t, o) = [t EXCEPT !.at = a, !.buf = buf]
    BY <1>12 DEF Obey
  <2>2. [EmptyCell EXCEPT !.c = o.c, !.fg = t.fg] \in Cell(B)
    BY <1>1, <1>2, CellsTyped
  <2>3. buf \in [Cells -> Cell(B)]
    <3> HIDE DEF write
    <3> QED
      BY <1>3, <2>2
  <2> HIDE DEF a, buf
  <2> QED
    BY <1>12, <2>1, <2>3 DEF State
<1>13. CASE ~t.rejected /\ o.op = "EUA" /\ a \in Cells
  <2> DEFINE buf == write(Span(t.at, a) \cap InputCells(t.buf), EmptyCell)
  <2>1. Obey(t, o) = [t EXCEPT !.at = a, !.buf = buf]
    BY <1>13 DEF Obey
  <2>2. buf \in [Cells -> Cell(B)]
    <3> HIDE DEF write
    <3> QED
      BY <1>3, CellsTyped
  <2> HIDE DEF a, buf
  <2> QED
    BY <1>13, <2>1, <2>2 DEF State
<1> HIDE DEF a
<1> QED
  BY <1>2, <1>5, <1>6, <1>7, <1>8, <1>9, <1>10, <1>11, <1>12, <1>13

\* So does what is before the first order of a write.
LEMMA BeforeTyped ==
  ASSUME NEW B, Char \subseteq B, NEW buf \in [Cells -> Cell(B)], NEW cur \in Cells, NEW write,
         write.erase \in BOOLEAN
  PROVE  Before(buf, cur, write) \in State(B)
<1> HIDE DEF Orders, Cell
<1>1. 0 \in Cells /\ NoColour \in Char
  BY Sizes, Bytes DEF Cells
<1>2. ASSUME NEW a \in Cells
      PROVE  [buf[a] EXCEPT !.mdt = @ /\ ~write.reset] \in Cell(B)
  <2>1. buf[a] \in Cell(B)
    OBVIOUS
  <2> QED
    BY <2>1 DEF Cell
<1>3. Erased \in [Cells -> Cell(B)]
  BY CellsTyped
<1> HIDE DEF Char, Cells, Erased
<1> DEFINE start == IF write.erase THEN Erased
                    ELSE [a \in Cells |-> [buf[a] EXCEPT !.mdt = @ /\ ~write.reset]]
<1>4. start \in [Cells -> Cell(B)]
  BY <1>2, <1>3
<1>5. Before(buf, cur, write)
        = [buf |-> start, at |-> IF write.erase THEN 0 ELSE cur,
           cursor |-> IF write.erase THEN 0 ELSE cur, fg |-> NoColour, rejected |-> FALSE]
  BY DEF Before
<1> HIDE DEF start
<1> QED
  BY <1>1, <1>4, <1>5 DEF State

\* A write leaves a typed terminal.
LEMMA InterpretTyped ==
  ASSUME NEW B, Char \subseteq B, NEW buf \in [Cells -> Cell(B)], NEW cur \in Cells, NEW write,
         write.erase \in BOOLEAN, write.orders \in Seq(Orders(B))
  PROVE  Interpret(buf, cur, write) \in State(B)
<1> HIDE DEF Orders, Cell
<1> DEFINE N == Len(write.orders)
           S == [n \in 0 .. N |-> State(B)]
<1>1. N \in Nat /\ \A n \in 1 .. N : write.orders[n] \in Orders(B)
  OBVIOUS
<1>2. \A n \in 0 .. N : S[n] = State(B)
  OBVIOUS
<1>3. Before(buf, cur, write) \in State(B)
  BY BeforeTyped
<1>4. ASSUME NEW n \in 1 .. N, NEW t \in S[n - 1]
      PROVE  Obey(t, write.orders[n]) \in S[n]
  <2>1. n - 1 \in 0 .. N /\ n \in 0 .. N
    BY <1>1
  <2>2. t \in State(B)
    BY <1>2, <2>1
  <2>3. Obey(t, write.orders[n]) \in State(B)
    BY <1>1, <2>2, ObeyTyped
  <2> QED
    BY <1>2, <2>1, <2>3
<1>5. 0 \in 0 .. N /\ N \in 0 .. N
  BY <1>1
<1>6. Before(buf, cur, write) \in S[0]
  BY <1>2, <1>3, <1>5
<1> HIDE DEF S
<1>7. Interpret(buf, cur, write) \in S[N]
  BY <1>1, <1>4, <1>6, Interpreted
<1> QED
  BY <1>2, <1>5, <1>7

\* render_erase_input empties the input cells of the buffer, wherever the
\* cursor was and wherever it is put, and unmarks every field.
LEMMA InputErased ==
  ASSUME NEW B, Char \subseteq B, NEW buf \in [Cells -> Cell(B)], NEW cur \in Cells, NEW home \in Nat
  PROVE  \A x \in Cells :
           Interpret(buf, cur, RenderEraseInput(home)).buf[x] =
             IF x \in InputCells(buf) THEN EmptyCell ELSE [buf[x] EXCEPT !.mdt = FALSE]
<1> HIDE DEF Char, Cell
<1> DEFINE w == RenderEraseInput(home)
           kept == [x \in Cells |-> [buf[x] EXCEPT !.mdt = FALSE]]
           gone == [x \in Cells |-> IF x \in InputCells(buf) THEN EmptyCell ELSE kept[x]]
           Left(n, t) == /\ n \in {0, 1} => t.buf = kept /\ ~t.rejected
                         /\ n = 1 => t.at = 0
                         /\ n \in {2, 3, 4} => t.buf = gone
           S == [n \in 0 .. 4 |-> {t \in State(B) : Left(n, t)}]
           first == At("SBA", 0, Null)
           erase == At("EUA", 0, Null)
           place == At("SBA", home, Null)
<1>1. /\ w.orders = <<first, erase, place, InsertCursor>>
      /\ w.erase = FALSE /\ w.reset = TRUE
  BY DEF RenderEraseInput
<1>2. {first, erase, place, InsertCursor} \subseteq Orders(B)
  BY Bytes, OrdersTyped
<1>3. DecodeBufferAddr(first.bytes[1], first.bytes[2]) = 0 /\ first.op = "SBA"
      /\ DecodeBufferAddr(erase.bytes[1], erase.bytes[2]) = 0 /\ erase.op = "EUA"
  <2>1. 0 \in 0 .. Addressable - 1
    BY Sizes, SizeAssumption
  <2>2. DecodeBufferAddr(EncodePackAddr(0)[1], EncodePackAddr(0)[2]) = 0
    BY <2>1, CodedAddressRead
  <2>3. /\ first.bytes = EncodePackAddr(0) /\ first.op = "SBA"
        /\ erase.bytes = EncodePackAddr(0) /\ erase.op = "EUA"
    BY DEF At, Order
  <2> HIDE DEF first, erase, EncodePackAddr
  <2> QED
    BY <2>2, <2>3
<1>4. place.op = "SBA" /\ InsertCursor.op = "IC"
  BY DEF At, Order, InsertCursor
<1> HIDE DEF w, first, erase, place
<1>5. 0 \in Cells /\ Span(0, 0) = Cells
  BY Sizes DEF Cells, Span
<1>6. kept \in [Cells -> Cell(B)] /\ InputCells(kept) = InputCells(buf)
  <2>1. ASSUME NEW x \in Cells
        PROVE  /\ kept[x] \in Cell(B)
               /\ kept[x].attr = buf[x].attr /\ kept[x].prot = buf[x].prot
    <3>1. buf[x] \in Cell(B)
      OBVIOUS
    <3>2. kept[x] = [buf[x] EXCEPT !.mdt = FALSE]
      OBVIOUS
    <3> HIDE DEF kept
    <3> QED
      BY <3>1, <3>2 DEF Cell
  <2>2. kept = [x \in Cells |-> kept[x]]
    OBVIOUS
  <2> HIDE DEF kept
  <2>3. InputCells(kept) = InputCells(buf)
    BY <2>1, InputCellsSame
  <2> QED
    BY <2>1, <2>2, <2>3
<1>7. Before(buf, cur, w) \in S[0]
  <2> DEFINE b == Before(buf, cur, w)
  <2>1. b = [buf |-> kept, at |-> cur, cursor |-> cur, fg |-> NoColour, rejected |-> FALSE]
    <3>1. ASSUME NEW x \in Cells
          PROVE  [buf[x] EXCEPT !.mdt = @ /\ ~w.reset] = [buf[x] EXCEPT !.mdt = FALSE]
      BY <1>1
    <3> HIDE DEF w
    <3> QED
      BY <1>1, <3>1 DEF Before
  <2>2. NoColour \in Char
    BY Bytes
  <2> HIDE DEF kept, gone
  <2>3. b \in State(B)
    BY <1>6, <2>1, <2>2 DEF State
  <2>4. Left(0, b)
    BY <2>1
  <2> HIDE DEF b, Left
  <2>5. 0 \in 0 .. 4
    OBVIOUS
  <2>6. b \in S[0]
    BY <2>3, <2>4, <2>5
  <2> QED
    BY <2>6 DEF b
<1> HIDE DEF kept, gone
<1>8. ASSUME NEW t \in S[0]
      PROVE  Obey(t, first) \in S[1]
  <2>1. t \in State(B) /\ t.buf = kept /\ ~t.rejected
    OBVIOUS
  <2>2. Obey(t, first) = [t EXCEPT !.at = 0]
    BY <1>3, <1>5, <2>1 DEF Obey
  <2>3. Obey(t, first) \in State(B)
    BY <1>2, <2>1, ObeyTyped
  <2>4. Left(1, Obey(t, first))
    BY <2>1, <2>2 DEF State
  <2> HIDE DEF Left
  <2> QED
    BY <2>3, <2>4
<1>9. ASSUME NEW t \in S[1]
      PROVE  Obey(t, erase) \in S[2]
  <2>1. t \in State(B) /\ t.buf = kept /\ ~t.rejected /\ t.at = 0
    OBVIOUS
  <2> DEFINE b == [x \in Cells |-> IF x \in Span(t.at, 0) \cap InputCells(t.buf) THEN EmptyCell
                                   ELSE t.buf[x]]
  <2>2. Obey(t, erase) = [t EXCEPT !.at = 0, !.buf = b]
    BY <1>3, <1>5, <2>1 DEF Obey
  <2>3. b = gone
    BY <1>5, <1>6, <2>1 DEF gone
  <2>4. Obey(t, erase) \in State(B)
    BY <1>2, <2>1, ObeyTyped
  <2> HIDE DEF b
  <2>5. Left(2, Obey(t, erase))
    BY <2>1, <2>2, <2>3 DEF State
  <2> HIDE DEF Left
  <2> QED
    BY <2>4, <2>5
<1>10. ASSUME NEW t \in S[2]
       PROVE  Obey(t, place) \in S[3]
  <2>1. t \in State(B) /\ t.buf = gone
    OBVIOUS
  <2>2. Obey(t, place).buf = t.buf
    <3> DEFINE a == DecodeBufferAddr(place.bytes[1], place.bytes[2])
    <3>1. Obey(t, place) \in {t, [t EXCEPT !.rejected = TRUE], [t EXCEPT !.at = a]}
      BY <1>4 DEF Obey
    <3> HIDE DEF a
    <3> QED
      BY <2>1, <3>1 DEF State
  <2>3. Obey(t, place) \in State(B)
    BY <1>2, <2>1, ObeyTyped
  <2>4. Left(3, Obey(t, place))
    BY <2>1, <2>2
  <2> HIDE DEF Left
  <2> QED
    BY <2>3, <2>4
<1>11. ASSUME NEW t \in S[3]
       PROVE  Obey(t, InsertCursor) \in S[4]
  <2>1. t \in State(B) /\ t.buf = gone
    OBVIOUS
  <2>2. Obey(t, InsertCursor).buf = t.buf
    <3>1. Obey(t, InsertCursor) \in {t, [t EXCEPT !.cursor = t.at]}
      BY <1>4 DEF Obey
    <3> QED
      BY <2>1, <3>1 DEF State
  <2>3. Obey(t, InsertCursor) \in State(B)
    BY <1>2, <2>1, ObeyTyped
  <2>4. Left(4, Obey(t, InsertCursor))
    BY <2>1, <2>2
  <2> HIDE DEF Left
  <2> QED
    BY <2>3, <2>4
<1>12. Len(w.orders) = 4 /\ w.orders[1] = first /\ w.orders[2] = erase /\ w.orders[3] = place
       /\ w.orders[4] = InsertCursor
  BY <1>1
<1>13. ASSUME NEW n \in 1 .. Len(w.orders), NEW t \in S[n - 1]
       PROVE  Obey(t, w.orders[n]) \in S[n]
  <2> HIDE DEF S
  <2>1. n \in {1, 2, 3, 4}
    BY <1>12
  <2>2. CASE n = 1
    BY <1>8, <1>12, <2>2
  <2>3. CASE n = 2
    BY <1>9, <1>12, <2>3
  <2>4. CASE n = 3
    BY <1>10, <1>12, <2>4
  <2>5. CASE n = 4
    BY <1>11, <1>12, <2>5
  <2> QED
    BY <2>1, <2>2, <2>3, <2>4, <2>5
<1>14. Interpret(buf, cur, w) \in S[4]
  <2> HIDE DEF S
  <2>1. Len(w.orders) \in Nat
    BY <1>12
  <2>2. Interpret(buf, cur, w) \in S[Len(w.orders)]
    BY <1>7, <1>13, <2>1, Interpreted
  <2> QED
    BY <1>12, <2>2
<1>15. Interpret(buf, cur, w).buf = gone
  BY <1>14
<1> QED
  BY <1>15 DEF w, gone, kept

-----------------------------------------------------------------------------
(* The reply.                                                              *)

Byte == 0 .. IAC

\* The bytes a terminal sends: an IAC only where addresses are binary.
Sent == IF terminal.oversize THEN Byte ELSE Char

\* They are the characters, and perhaps the IAC.
LEMMA SentBytes ==
  /\ Char \subseteq Sent /\ Sent \subseteq Byte /\ Byte \subseteq Nat
  /\ ~terminal.oversize => Sent = Char
<1>1. Char \subseteq Byte /\ Byte \subseteq Nat
  BY Bytes DEF Byte
<1> HIDE DEF Char, Byte
<1> QED
  BY <1>1 DEF Sent

\* An address a terminal sends is two such bytes.
LEMMA SentAddrTyped ==
  ASSUME NEW a \in Cells
  PROVE  SentAddr(a) \in Seq(Sent)
<1> DEFINE b == SentAddr(a)
<1>1. /\ b[1] \in 0 .. IAC /\ b[2] \in 0 .. IAC
      /\ b[1] = IAC \/ b[2] = IAC => terminal.oversize
  BY SentAddressRead
<1>2. b[1] \in Sent /\ b[2] \in Sent
  <2> HIDE DEF b
  <2>1. CASE terminal.oversize
    BY <1>1, <2>1 DEF Sent, Byte
  <2>2. CASE ~terminal.oversize
    <3>1. IAC \in Nat
      BY Bytes
    <3>2. b[1] \in 0 .. IAC - 1 /\ b[2] \in 0 .. IAC - 1
      BY <1>1, <2>2, <3>1
    <3>3. Sent = 0 .. IAC - 1
      BY <2>2, Bytes, SentBytes
    <3> QED
      BY <3>2, <3>3
  <2> QED
    BY <2>1, <2>2
<1>3. b = <<b[1], b[2]>>
  <2>1. a \in 0 .. Addressable - 1
    BY Sizes
  <2> QED
    BY <2>1 DEF SentAddr, EncodePackAddr
<1> HIDE DEF b, Sent
<1>4. <<b[1], b[2]>> \in Seq(Sent)
  BY <1>2, Pair
<1>5. b \in Seq(Sent)
  BY <1>3, <1>4
<1> QED
  BY <1>5 DEF b

\* The characters of a field, and a modified field in a reply.
LEMMA SentFieldTyped ==
  ASSUME cells \in [Cells -> Cell(Sent)], NEW x \in Cells, cells[x].attr
  PROVE  Characters(x) \in Seq(Sent) /\ SentField(x) \in Seq(Sent)
<1> HIDE DEF Sent, Char
<1> DEFINE field == Data(cells, x)
           part(n) == IF cells[field[n]].c = Null THEN <<>> ELSE <<cells[field[n]].c>>
           parts == [n \in DOMAIN field |-> part(n)]
<1>1. \A a \in Cells : cells[a].c \in Sent /\ cells[a].fg \in Char
  <2> SUFFICES ASSUME NEW a \in Cells
               PROVE  cells[a].c \in Sent /\ cells[a].fg \in Char
    OBVIOUS
  <2>1. cells[a] \in Cell(Sent)
    OBVIOUS
  <2> QED
    BY <2>1 DEF Cell
<1>2. \E m \in 1 .. Size : field = [k \in 1 .. m - 1 |-> (x + k) % Size]
  BY DataIs
<1>3. DOMAIN field = 1 .. Len(field) /\ Len(field) \in Nat
  <2> HIDE DEF field
  <2> QED
    BY <1>2, Sizes
<1>4. \A n \in DOMAIN field : field[n] \in Cells
  BY DataCells DEF Members
<1> HIDE DEF field
<1>5. \A n \in DOMAIN field : part(n) \in Seq(Sent)
  BY <1>1, <1>4
<1>6. parts \in Seq(Seq(Sent))
  <2> HIDE DEF part
  <2> QED
    BY <1>3, <1>5
<1>7. Concat(parts) \in Seq(Sent)
  BY <1>6, ConcatTyped
<1>8. Characters(x) \in Seq(Sent)
  BY <1>7 DEF Characters, field
<1> DEFINE attributes == IF terminal.attributes THEN <<SA, Chunk, cells[x].fg>> ELSE <<>>
<1>9. <<SBA>> \in Seq(Sent) /\ SentAddr(Next1(x)) \in Seq(Sent) /\ attributes \in Seq(Sent)
  <2>1. SBA \in Sent /\ SA \in Sent /\ Chunk \in Sent
    BY Bytes, SentBytes DEF Blank
  <2>2. Next1(x) \in Cells
    BY NextCell
  <2>3. SentAddr(Next1(x)) \in Seq(Sent)
    BY <2>2, SentAddrTyped
  <2>4. cells[x].fg \in Sent
    BY <1>1, SentBytes
  <2>5. <<SA, Chunk, cells[x].fg>> \in Seq(Sent)
    <3> DEFINE fg == cells[x].fg
    <3>1. fg \in Sent
      BY <2>4
    <3> HIDE DEF fg
    <3>2. <<SA, Chunk, fg>> \in Seq(Sent)
      BY <2>1, <3>1
    <3> QED
      BY <3>2 DEF fg
  <2> QED
    BY <2>1, <2>3, <2>5
<1>10. SentField(x) = <<SBA>> \o SentAddr(Next1(x)) \o attributes \o Characters(x)
  BY DEF SentField
<1> HIDE DEF attributes
<1> DEFINE a == SentAddr(Next1(x))
           c == Characters(x)
<1>11. a \in Seq(Sent) /\ c \in Seq(Sent) /\ SentField(x) = <<SBA>> \o a \o attributes \o c
  BY <1>8, <1>9, <1>10
<1> HIDE DEF a, c
<1>12. <<SBA>> \o a \o attributes \o c \in Seq(Sent)
  BY <1>9, <1>11
<1> QED
  BY <1>8, <1>11, <1>12

\* A Read Modified reply.
LEMMA ReadModifiedTyped ==
  ASSUME cells \in [Cells -> Cell(Sent)], cursor \in Cells, NEW aid \in Char
  PROVE  ReadModified(aid) \in Seq(Sent)
<1> HIDE DEF Sent, Char
<1> DEFINE part(a) == IF cells[a].attr /\ cells[a].mdt THEN SentField(a) ELSE <<>>
           Unrolled(f) == f = [a \in 0 .. Size |-> IF a = Size THEN <<>> ELSE part(a) \o f[a + 1]]
           step == [n \in 0 .. Size - 1 |-> [t \in Seq(Sent) |-> part(n) \o t]]
           S == [n \in 0 .. Size |-> Seq(Sent)]
<1>1. Size \in Nat \ {0}
  BY Sizes
<1>2. ASSUME NEW a \in 0 .. Size - 1
      PROVE  part(a) \in Seq(Sent)
  <2>1. a \in Cells
    BY DEF Cells
  <2>2. CASE cells[a].attr /\ cells[a].mdt
    <3>1. SentField(a) \in Seq(Sent)
      BY <2>1, <2>2, SentFieldTyped
    <3> QED
      BY <2>2, <3>1
  <2>3. CASE ~ (cells[a].attr /\ cells[a].mdt)
    BY <2>3
  <2> QED
    BY <2>2, <2>3
<1> HIDE DEF part
<1>3. ASSUME NEW n \in 0 .. Size - 1, NEW t \in Seq(Sent)
      PROVE  step[n][t] = part(n) \o t /\ step[n][t] \in Seq(Sent)
  <2>1. part(n) \o t \in Seq(Sent)
    BY <1>2
  <2>2. step[n] = [u \in Seq(Sent) |-> part(n) \o u]
    OBVIOUS
  <2> HIDE DEF step
  <2> QED
    BY <2>1, <2>2
<1>4. \A n \in 0 .. Size : S[n] = Seq(Sent)
  OBVIOUS
<1> HIDE DEF S, step
<1>5. PICK h : IsBackward(h, Size, <<>>, step) /\ \A n \in 0 .. Size : h[n] \in S[n]
  <2>1. \A n \in 0 .. Size - 1 : S[n + 1] = Seq(Sent) /\ S[n] = Seq(Sent)
    BY <1>1, <1>4
  <2>2. \A n \in 0 .. Size - 1 : \A t \in S[n + 1] : step[n][t] \in S[n]
    BY <1>3, <2>1
  <2>3. <<>> \in S[Size]
    <3>1. <<>> \in Seq(Sent) /\ Size \in 0 .. Size
      BY <1>1
    <3> QED
      BY <1>4, <3>1
  <2> QED
    BY <1>1, <2>2, <2>3, Backwards
<1>6. /\ h = [n \in 0 .. Size |-> h[n]]
      /\ h[Size] = <<>> /\ \A n \in 0 .. Size - 1 : h[n] = step[n][h[n + 1]]
  BY <1>5 DEF IsBackward
<1>7. ASSUME NEW a \in 0 .. Size
      PROVE  h[a] = IF a = Size THEN <<>> ELSE part(a) \o h[a + 1]
  <2>1. CASE a = Size
    BY <1>6, <2>1
  <2>2. CASE a # Size
    <3>1. a \in 0 .. Size - 1 /\ a + 1 \in 0 .. Size
      BY <1>1, <2>2
    <3>2. h[a + 1] \in Seq(Sent)
      BY <1>4, <1>5, <3>1
    <3>3. step[a][h[a + 1]] = part(a) \o h[a + 1]
      BY <1>3, <3>1, <3>2
    <3> QED
      BY <1>6, <2>2, <3>1, <3>3
  <2> QED
    BY <2>1, <2>2
<1>8. Unrolled(h)
  BY <1>6, <1>7
<1> DEFINE from == CHOOSE f : Unrolled(f)
<1>9. Unrolled(from)
  <2> HIDE DEF Unrolled
  <2> QED
    BY <1>8
<1>10. ReadModified(aid) = <<aid>> \o SentAddr(cursor) \o from[0]
  BY DEF ReadModified, part
<1> HIDE DEF from
<1>11. \A a \in 0 .. Size : from[a] = IF a = Size THEN <<>> ELSE part(a) \o from[a + 1]
  BY <1>9
<1> HIDE DEF Unrolled
<1> DEFINE T == {d \in 0 .. Size : from[Size - d] \in Seq(Sent)}
<1>12. 0 \in T
  <2>1. Size - 0 = Size /\ Size \in 0 .. Size /\ 0 \in 0 .. Size
    BY <1>1
  <2>2. from[Size] = <<>> /\ <<>> \in Seq(Sent)
    BY <1>11, <2>1
  <2> QED
    BY <2>1, <2>2
<1>13. ASSUME NEW d \in 1 .. Size, d - 1 \in T
       PROVE  d \in T
  <2>1. /\ Size - d \in 0 .. Size - 1 /\ (Size - d) + 1 = Size - (d - 1) /\ d \in 0 .. Size
        /\ Size - d \in 0 .. Size /\ Size - d # Size
    BY <1>1
  <2>2. from[Size - (d - 1)] \in Seq(Sent)
    BY <1>13
  <2>3. from[Size - d] = part(Size - d) \o from[Size - (d - 1)]
    BY <1>11, <2>1
  <2>4. part(Size - d) \in Seq(Sent)
    BY <1>2, <2>1
  <2>5. from[Size - d] \in Seq(Sent)
    BY <2>2, <2>3, <2>4
  <2> QED
    BY <2>1, <2>5
<1>14. from[0] \in Seq(Sent)
  <2>1. Size \in T
    <3> HIDE DEF T
    <3>1. 0 .. Size \subseteq T
      BY <1>1, <1>12, <1>13, Induct
    <3> QED
      BY <1>1, <3>1
  <2>2. Size - Size = 0
    BY <1>1
  <2> QED
    BY <2>1, <2>2
<1>15. <<aid>> \in Seq(Sent) /\ SentAddr(cursor) \in Seq(Sent)
  <2>1. aid \in Sent
    BY SentBytes
  <2> QED
    BY <2>1, SentAddrTyped
<1> DEFINE c == SentAddr(cursor)
           rest == from[0]
<1>16. <<aid>> \in Seq(Sent) /\ c \in Seq(Sent) /\ rest \in Seq(Sent)
  BY <1>14, <1>15
<1> HIDE DEF c, rest
<1>17. <<aid>> \o c \o rest \in Seq(Sent)
  BY <1>16
<1> QED
  BY <1>10, <1>17 DEF c, rest

-----------------------------------------------------------------------------
(* What is read from a reply.                                              *)

\* A bounded non-empty set of numbers has a greatest one.
LEMMA Highest ==
  ASSUME NEW N \in Nat, NEW R, R \subseteq 0 .. N, R # {}
  PROVE  Most(R) \in R
<1> DEFINE back == {N - r : r \in R}
<1>1. back \subseteq Nat /\ back # {}
  OBVIOUS
<1>2. PICK d \in back : \A u \in back : d <= u
  <2> HIDE DEF back
  <2> QED
    BY <1>1, Lowest
<1>3. PICK r \in R : d = N - r
  OBVIOUS
<1>4. ASSUME NEW s \in R
      PROVE  r >= s
  <2>1. N - s \in back
    OBVIOUS
  <2>2. N - r <= N - s
    BY <1>2, <1>3, <2>1
  <2>3. r \in 0 .. N /\ s \in 0 .. N
    OBVIOUS
  <2> HIDE DEF back
  <2> QED
    BY <2>2, <2>3
<1>5. \E x \in R : \A y \in R : x >= y
  BY <1>4
<1> QED
  BY <1>5 DEF Most

\* A stripped text is part of the text.
LEMMA StripTyped ==
  ASSUME NEW B, NEW s \in Seq(B)
  PROVE  Strip(s) \in Seq(B)
<1> DEFINE solid == {i \in DOMAIN s : s[i] # Blank}
<1>1. CASE solid = {}
  BY <1>1 DEF Strip
<1>2. CASE solid # {}
  <2>1. solid \subseteq 1 .. Len(s) /\ Len(s) \in Nat
    OBVIOUS
  <2> HIDE DEF solid
  <2>2. Most(solid) \in solid
    <3>1. solid \subseteq 0 .. Len(s)
      BY <2>1
    <3> QED
      BY <1>2, <2>1, <3>1, Highest
  <2>3. Least(solid) \in solid
    <3>1. \E x \in solid : \A y \in solid : x <= y
      <4>1. solid \subseteq Nat
        BY <2>1
      <4> QED
        BY <1>2, <4>1, Lowest
    <3> QED
      BY <3>1 DEF Least
  <2>4. SubSeq(s, Least(solid), Most(solid)) \in Seq(B)
    <3> DEFINE i == Least(solid)
               j == Most(solid)
    <3>1. i \in 1 .. Len(s) /\ j \in 1 .. Len(s)
      BY <2>1, <2>2, <2>3
    <3> HIDE DEF i, j
    <3>2. SubSeq(s, i, j) \in Seq(B)
      <4>1. \A k \in i .. j : s[k] \in B
        BY <2>1, <3>1
      <4> QED
        BY <3>1, <2>1, <4>1, SubSeqProperties
    <3> QED
      BY <3>2 DEF i, j
  <2> QED
    BY <1>2, <2>4 DEF Strip, solid
<1> QED
  BY <1>1, <1>2

\* Two bytes make an address.
LEMMA DecodeTyped ==
  ASSUME NEW hi \in Nat, NEW lo \in Nat
  PROVE  DecodeBufferAddr(hi, lo) \in Nat
<1>1. Chunk \in Nat /\ Chunk > 0 /\ 4 * Chunk \in Nat
  BY SizeAssumption
<1>2. hi % Chunk \in Nat /\ lo % Chunk \in Nat
  BY <1>1, Quotient
<1>3. \A m, n, k \in Nat : m * n + k \in Nat
  OBVIOUS
<1>4. (hi % Chunk) * Chunk + (lo % Chunk) \in Nat
  BY <1>1, <1>2, <1>3
<1>5. (hi * 4 * Chunk) + lo \in Nat
  <2>1. hi * 4 \in Nat
    OBVIOUS
  <2> QED
    BY <1>1, <1>3, <2>1
<1> QED
  BY <1>4, <1>5 DEF DecodeBufferAddr

\* The loop over a reply reads fields of the bytes it is made of.
LEMMA ParseFieldsTyped ==
  ASSUME NEW B, B \subseteq Nat, NEW b \in Seq(B)
  PROVE  ParseFields(b) \in Seq([addr : Nat, text : Seq(B)])
<1> DEFINE Field == [addr : Nat, text : Seq(B)]
           R == [text : Seq(B), fields : Seq(Field)]
           F == [BOOLEAN -> R]
           N == Len(b)
           none == [text |-> <<>>, fields |-> <<>>]
           found(i, r) ==
             [text |-> <<>>, fields |->
                <<[addr |-> DecodeBufferAddr(b[i + 1], b[i + 2]), text |-> Strip(r.text)]>> \o r.fields]
           triple(i, order) == i + 2 <= N /\ b[i] = order
           longer(i, r) == [r EXCEPT !.text = <<b[i]>> \o @]
           bare(r) == [r EXCEPT !.text = <<>>]
           Body(i, r0, r1, r3, open) ==
             IF i > N THEN none
             ELSE IF triple(i, SBA) THEN found(i, r3)
             ELSE IF open /\ triple(i, SA) THEN r3
             ELSE IF open /\ b[i] \notin {SBA, SF} THEN longer(i, r1)
             ELSE bare(r0)
           body(i, f) == [open \in BOOLEAN |->
                            Body(i, f[i + 1][FALSE], f[i + 1][TRUE], f[i + 3][TRUE], open)]
           Unrolled(f) == f = [i \in 1 .. N + 3 |-> body(i, f)]
<1>1. N \in Nat /\ \A i \in 1 .. N : b[i] \in B /\ b[i] \in Nat
  <2>1. \A i \in 1 .. N : b[i] \in B
    OBVIOUS
  <2>2. N \in Nat
    OBVIOUS
  <2> HIDE DEF N
  <2>3. \A i \in 1 .. N : b[i] \in Nat
    BY <2>1
  <2> QED
    BY <2>1, <2>2, <2>3
<1>2. none \in R
  <2>1. <<>> \in Seq(B) /\ <<>> \in Seq(Field)
    OBVIOUS
  <2> HIDE DEF Field
  <2> QED
    BY <2>1
<1>3. ASSUME NEW i \in 1 .. N + 3, NEW r \in R, i + 2 <= N
      PROVE  found(i, r) \in R
  <2> DEFINE a == DecodeBufferAddr(b[i + 1], b[i + 2])
             t == Strip(r.text)
  <2>1. i + 1 \in 1 .. N /\ i + 2 \in 1 .. N
    BY <1>1, <1>3
  <2>2. a \in Nat
    BY <1>1, <2>1, DecodeTyped
  <2>3. t \in Seq(B) /\ r.fields \in Seq(Field)
    <3> HIDE DEF Field
    <3>1. r.text \in Seq(B) /\ r.fields \in Seq(Field)
      OBVIOUS
    <3> QED
      BY <3>1, StripTyped
  <2> HIDE DEF a, t
  <2>4. [addr |-> a, text |-> t] \in Field
    BY <2>2, <2>3
  <2> DEFINE g == [addr |-> a, text |-> t]
  <2> HIDE DEF Field, g
  <2>5. <<g>> \o r.fields \in Seq(Field)
    BY <2>3, <2>4 DEF g
  <2>6. found(i, r) = [text |-> <<>>, fields |-> <<g>> \o r.fields]
    BY DEF a, t, g
  <2>7. <<>> \in Seq(B)
    OBVIOUS
  <2> HIDE DEF found
  <2> QED
    BY <2>5, <2>6, <2>7
<1>30. ASSUME NEW r \in R, NEW i \in 1 .. N
       PROVE  longer(i, r) \in R /\ bare(r) \in R
  <2> HIDE DEF Field
  <2>1. r.text \in Seq(B) /\ b[i] \in B
    BY <1>1
  <2> DEFINE t == <<b[i]>> \o r.text
  <2>2. t \in Seq(B) /\ <<>> \in Seq(B)
    BY <2>1
  <2>3. longer(i, r) = [r EXCEPT !.text = t]
    OBVIOUS
  <2> HIDE DEF t, longer
  <2> QED
    BY <2>2, <2>3
<1> HIDE DEF none, found, longer, bare, R, N
<1>4. ASSUME NEW i \in 1 .. N + 3, NEW r0, NEW r1, NEW r3, NEW open \in BOOLEAN,
             i <= N => r0 \in R /\ r1 \in R /\ r3 \in R
      PROVE  Body(i, r0, r1, r3, open) \in R
  <2>1. CASE i > N
    <3>1. Body(i, r0, r1, r3, open) = none
      BY <1>1, <2>1
    <3> HIDE DEF Body
    <3> QED
      BY <1>2, <3>1
  <2>2. CASE ~ (i > N) /\ triple(i, SBA)
    <3>1. found(i, r3) \in R
      BY <1>1, <1>3, <1>4, <2>2
    <3>2. Body(i, r0, r1, r3, open) = found(i, r3)
      BY <2>2
    <3> HIDE DEF Body
    <3> QED
      BY <3>1, <3>2
  <2>3. CASE ~ (i > N) /\ ~triple(i, SBA) /\ open /\ triple(i, SA)
    <3>1. Body(i, r0, r1, r3, open) = r3
      BY <2>3
    <3>2. r3 \in R
      BY <1>1, <1>4, <2>3
    <3> HIDE DEF Body
    <3> QED
      BY <3>1, <3>2
  <2>4. CASE ~ (i > N) /\ ~triple(i, SBA) /\ ~(open /\ triple(i, SA)) /\ open /\ b[i] \notin {SBA, SF}
    <3>1. Body(i, r0, r1, r3, open) = longer(i, r1)
      BY <2>4
    <3>2. r1 \in R /\ i \in 1 .. N
      BY <1>1, <1>4, <2>4
    <3> HIDE DEF Body
    <3> QED
      BY <1>30, <3>1, <3>2
  <2>5. CASE ~ (i > N) /\ ~triple(i, SBA) /\ ~(open /\ triple(i, SA)) /\ ~(open /\ b[i] \notin {SBA, SF})
    <3>1. Body(i, r0, r1, r3, open) = bare(r0)
      BY <2>5
    <3>2. r0 \in R /\ i \in 1 .. N
      BY <1>1, <1>4, <2>5
    <3> HIDE DEF Body
    <3> QED
      BY <1>30, <3>1, <3>2
  <2> HIDE DEF Body
  <2> QED
    BY <2>1, <2>2, <2>3, <2>4, <2>5
<1>5. ASSUME NEW i \in 1 .. N + 3, NEW f, i <= N => f[i + 1] \in F /\ f[i + 3] \in F
      PROVE  body(i, f) \in F
  <2>1. i <= N => f[i + 1][FALSE] \in R /\ f[i + 1][TRUE] \in R /\ f[i + 3][TRUE] \in R
    BY <1>5
  <2>2. \A open \in BOOLEAN :
          Body(i, f[i + 1][FALSE], f[i + 1][TRUE], f[i + 3][TRUE], open) \in R
    <3> HIDE DEF Body
    <3> QED
      BY <1>4, <2>1
  <2> HIDE DEF Body
  <2> QED
    BY <2>2
<1>6. ASSUME NEW i \in 1 .. N + 3, NEW f, NEW g,
             i <= N => f[i + 1] = g[i + 1] /\ f[i + 3] = g[i + 3]
      PROVE  body(i, f) = body(i, g)
  <2>1. CASE i <= N
    BY <1>6, <2>1
  <2>2. CASE i > N
    <3>1. \A r0, r1, r3 : \A open \in BOOLEAN : Body(i, r0, r1, r3, open) = none
      BY <1>1, <2>2
    <3> HIDE DEF Body
    <3> QED
      BY <3>1
  <2>3. i <= N \/ i > N
    BY <1>1
  <2> HIDE DEF body
  <2> QED
    BY <2>1, <2>2, <2>3
<1> HIDE DEF body, F
<1> DEFINE From(f, j) == \A i \in j .. N + 3 : f[i] = body(i, f) /\ f[i] \in F
           T == {d \in 0 .. N + 2 : \E f : From(f, N + 3 - d)}
<1>7. ASSUME NEW j \in 1 .. N + 3, NEW f, \A i \in j + 1 .. N + 3 : f[i] = body(i, f) /\ f[i] \in F
      PROVE  \E g : From(g, j)
  <2> DEFINE g == [i \in 1 .. N + 3 |-> IF i = j THEN body(j, f) ELSE f[i]]
  <2>1. \A i \in 1 .. N + 3 : g[i] = IF i = j THEN body(j, f) ELSE f[i]
    OBVIOUS
  <2> HIDE DEF g
  <2>2. ASSUME NEW i \in j .. N + 3
        PROVE  body(i, f) = body(i, g)
    <3>1. i \in 1 .. N + 3
      BY <1>1
    <3>2. i <= N => i + 1 \in 1 .. N + 3 /\ i + 1 # j /\ i + 3 \in 1 .. N + 3 /\ i + 3 # j
      BY <1>1, <3>1
    <3>3. i <= N => f[i + 1] = g[i + 1] /\ f[i + 3] = g[i + 3]
      BY <2>1, <3>2
    <3> QED
      BY <1>6, <3>1, <3>3
  <2>3. body(j, f) \in F
    <3>1. j <= N => j + 1 \in j + 1 .. N + 3 /\ j + 3 \in j + 1 .. N + 3
      BY <1>1
    <3>2. j <= N => f[j + 1] \in F /\ f[j + 3] \in F
      BY <1>7, <3>1
    <3> QED
      BY <1>5, <3>2
  <2>4. ASSUME NEW i \in j .. N + 3
        PROVE  g[i] = body(i, g) /\ g[i] \in F
    <3>1. i \in 1 .. N + 3
      BY <1>1
    <3>2. CASE i = j
      BY <2>1, <2>2, <2>3, <3>1, <3>2
    <3>3. CASE i # j
      <4>1. i \in j + 1 .. N + 3
        BY <1>1, <3>3
      <4>2. f[i] = body(i, f) /\ f[i] \in F
        BY <1>7, <4>1
      <4> QED
        BY <2>1, <2>2, <3>1, <3>3, <4>2
    <3> QED
      BY <3>2, <3>3
  <2> QED
    BY <2>4
<1>8. 0 \in T
  <2>1. N + 3 - 0 = N + 3 /\ N + 3 \in 1 .. N + 3 /\ 0 \in 0 .. N + 2
    BY <1>1
  <2>2. \A i \in (N + 3) + 1 .. N + 3 : none[i] = body(i, none) /\ none[i] \in F
    BY <1>1
  <2>3. \E g : From(g, N + 3)
    <3> HIDE DEF From
    <3> QED
      BY <1>7, <2>1, <2>2
  <2> HIDE DEF From
  <2> QED
    BY <2>1, <2>3
<1>9. ASSUME NEW d \in 1 .. N + 2, d - 1 \in T
      PROVE  d \in T
  <2> DEFINE j == N + 3 - d
  <2>1. j \in 1 .. N + 3 /\ N + 3 - (d - 1) = j + 1 /\ d \in 0 .. N + 2
    BY <1>1
  <2> HIDE DEF j
  <2>2. PICK f : From(f, j + 1)
    BY <1>9, <2>1
  <2>3. \E g : From(g, j)
    <3>1. \A i \in j + 1 .. N + 3 : f[i] = body(i, f) /\ f[i] \in F
      BY <2>2
    <3> HIDE DEF From
    <3> QED
      BY <1>7, <2>1, <3>1
  <2> HIDE DEF From
  <2> QED
    BY <2>1, <2>3 DEF j
<1>10. PICK f : From(f, 1)
  <2>1. N + 2 \in T
    <3> HIDE DEF T
    <3>1. N + 2 \in Nat
      BY <1>1
    <3>2. 0 .. N + 2 \subseteq T
      BY <1>8, <1>9, <3>1, Induct
    <3> QED
      BY <3>1, <3>2
  <2>2. N + 3 - (N + 2) = 1
    BY <1>1
  <2> HIDE DEF From
  <2> QED
    BY <2>1, <2>2
<1>11. \E g : Unrolled(g)
  <2> DEFINE g == [i \in 1 .. N + 3 |-> f[i]]
  <2>1. \A i \in 1 .. N + 3 : g[i] = f[i]
    OBVIOUS
  <2>2. g = [i \in 1 .. N + 3 |-> g[i]]
    OBVIOUS
  <2> HIDE DEF g
  <2>3. ASSUME NEW i \in 1 .. N + 3
        PROVE  g[i] = body(i, g)
    <3>1. i <= N => i + 1 \in 1 .. N + 3 /\ i + 3 \in 1 .. N + 3
      BY <1>1
    <3>2. i <= N => f[i + 1] = g[i + 1] /\ f[i + 3] = g[i + 3]
      BY <2>1, <3>1
    <3>3. body(i, f) = body(i, g)
      BY <1>6, <3>2
    <3> QED
      BY <1>10, <2>1, <3>3
  <2>4. Unrolled(g)
    BY <2>2, <2>3
  <2> QED
    BY <2>4
<1> DEFINE scan == CHOOSE g : Unrolled(g)
<1>12. Unrolled(scan)
  <2> HIDE DEF Unrolled
  <2> QED
    BY <1>11
<1>13. ParseFields(b) = scan[2][FALSE].fields
  BY DEF ParseFields, N, body, none, found, longer, bare, Field
<1> HIDE DEF scan
<1>14. \A i \in 1 .. N + 3 : scan[i] = body(i, scan)
  BY <1>12
<1> HIDE DEF Unrolled
<1> DEFINE V == {d \in 0 .. N + 2 : \A i \in N + 3 - d .. N + 3 : scan[i] \in F}
<1>15. ASSUME NEW j \in 1 .. N + 3, \A i \in j + 1 .. N + 3 : scan[i] \in F
       PROVE  \A i \in j .. N + 3 : scan[i] \in F
  <2>1. j <= N => j + 1 \in j + 1 .. N + 3 /\ j + 3 \in j + 1 .. N + 3
    BY <1>1
  <2>2. j <= N => scan[j + 1] \in F /\ scan[j + 3] \in F
    BY <1>15, <2>1
  <2>3. body(j, scan) \in F
    BY <1>5, <2>2
  <2>4. scan[j] \in F
    BY <1>14, <2>3
  <2>5. \A i \in j .. N + 3 : i = j \/ i \in j + 1 .. N + 3
    BY <1>1
  <2> QED
    BY <1>15, <2>4, <2>5
<1>16. 0 \in V
  <2>1. N + 3 - 0 = N + 3 /\ N + 3 \in 1 .. N + 3 /\ 0 \in 0 .. N + 2
    BY <1>1
  <2>2. \A i \in (N + 3) + 1 .. N + 3 : scan[i] \in F
    BY <1>1
  <2>3. \A i \in N + 3 .. N + 3 : scan[i] \in F
    BY <1>15, <2>1, <2>2
  <2> QED
    BY <2>1, <2>3
<1>17. ASSUME NEW d \in 1 .. N + 2, d - 1 \in V
       PROVE  d \in V
  <2> DEFINE j == N + 3 - d
  <2>1. j \in 1 .. N + 3 /\ N + 3 - (d - 1) = j + 1 /\ d \in 0 .. N + 2
    BY <1>1
  <2> HIDE DEF j
  <2>2. \A i \in j + 1 .. N + 3 : scan[i] \in F
    BY <1>17, <2>1
  <2>3. \A i \in j .. N + 3 : scan[i] \in F
    BY <1>15, <2>1, <2>2
  <2> QED
    BY <2>1, <2>3 DEF j
<1>18. scan[2] \in F
  <2>1. N + 2 \in V
    <3> HIDE DEF V
    <3>1. N + 2 \in Nat
      BY <1>1
    <3>2. 0 .. N + 2 \subseteq V
      BY <1>16, <1>17, <3>1, Induct
    <3> QED
      BY <3>1, <3>2
  <2>2. 2 \in N + 3 - (N + 2) .. N + 3
    BY <1>1
  <2> QED
    BY <2>1, <2>2
<1>19. scan[2][FALSE] \in R
  BY <1>18 DEF F
<1> QED
  BY <1>13, <1>19 DEF R, Field

-----------------------------------------------------------------------------
(* The invariant.                                                          *)

\* What the application has read is of the bytes B.
ReadOf(B, r) == DOMAIN r.fields \subseteq Nat /\ \A a \in DOMAIN r.fields : r.fields[a] \in Seq(B)

\* The texts read from a reply are of the bytes it is made of.
LEMMA ParseReplyTyped ==
  ASSUME NEW B, B \subseteq Nat, NEW b \in Seq(B)
  PROVE  ReadOf(B, ParseReply(b))
<1> DEFINE found == ParseFields(b)
           last(a) == Most({i \in DOMAIN found : found[i].addr = a})
           fields == [a \in {found[i].addr : i \in DOMAIN found} |-> found[last(a)].text]
           Field == [addr : Nat, text : Seq(B)]
<1>1. found \in Seq(Field)
  BY ParseFieldsTyped
<1>2. ParseReply(b).fields = fields
  BY DEF ParseReply
<1> HIDE DEF found
<1>3. \A i \in DOMAIN found : found[i] \in Field
  <2> HIDE DEF Field
  <2> QED
    BY <1>1
<1>4. \A i \in DOMAIN found : found[i].addr \in Nat /\ found[i].text \in Seq(B)
  BY <1>3
<1>5. DOMAIN found = 1 .. Len(found) /\ Len(found) \in Nat
  <2> HIDE DEF Field
  <2> QED
    BY <1>1
<1>6. ASSUME NEW a \in {found[i].addr : i \in DOMAIN found}
      PROVE  last(a) \in DOMAIN found
  <2> DEFINE same == {i \in DOMAIN found : found[i].addr = a}
  <2>1. same # {} /\ same \subseteq 0 .. Len(found)
    BY <1>5
  <2>2. same \subseteq DOMAIN found
    OBVIOUS
  <2> HIDE DEF same
  <2>3. Most(same) \in same
    BY <1>5, <2>1, Highest
  <2>4. Most(same) \in DOMAIN found
    BY <2>2, <2>3
  <2> QED
    BY <2>4 DEF same
<1>7. DOMAIN fields \subseteq Nat
  BY <1>4
<1>8. ASSUME NEW a \in DOMAIN fields
      PROVE  fields[a] \in Seq(B)
  <2>1. a \in {found[i].addr : i \in DOMAIN found} /\ fields[a] = found[last(a)].text
    OBVIOUS
  <2>2. last(a) \in DOMAIN found
    BY <1>6, <2>1
  <2> HIDE DEF last
  <2> QED
    BY <1>4, <2>1, <2>2
<1> HIDE DEF fields
<1> QED
  BY <1>2, <1>7, <1>8 DEF ReadOf

\* Upper case is of the same bytes.
LEMMA UpperAllTyped ==
  ASSUME NEW s \in Seq(Sent)
  PROVE  UpperAll(s) \in Seq(Sent)
<1>1. \A c \in Sent : Upper(c) \in Sent
  <2>1. CASE terminal.oversize
    BY <2>1, UserAssumption DEF Sent, Byte, IAC
  <2>2. CASE ~terminal.oversize
    <3>1. \A c \in Char : c \in 0 .. 4 * Chunk - 1
      BY SizeAssumption DEF Char
    <3> QED
      BY <2>2, <3>1, UserAssumption DEF Sent
  <2> QED
    BY <2>1, <2>2
<1> HIDE DEF Sent
<1>2. \A i \in DOMAIN s : Upper(s[i]) \in Sent
  <2>1. \A i \in DOMAIN s : s[i] \in Sent
    OBVIOUS
  <2> QED
    BY <1>1, <2>1
<1>3. DOMAIN s = 1 .. Len(s) /\ Len(s) \in Nat
  OBVIOUS
<1> QED
  BY <1>2, <1>3 DEF UpperAll

\* The rows read back fit the panel they were read for.
LEMMA ReseededTyped ==
  ASSUME NEW p \in Screen(Sent), NEW r, ReadOf(Sent, r), p.command \in 0 .. Len(p.items)
  PROVE  LET q == Reseeded(p, ReadTableRows(p, r.fields))
         IN q \in Screen(Sent) /\ q.command \in 0 .. Len(q.items)
<1> DEFINE rows == ReadTableRows(p, r.fields)
           value(i) == IF Returned(r.fields, p.items[i]) THEN r.fields[DataAddr(p.items[i])]
                       ELSE p.items[i].text
           item(i) == IF i \in TableCells(p) THEN [p.items[i] EXCEPT !.text = rows[i]] ELSE p.items[i]
           items == [i \in DOMAIN p.items |-> item(i)]
<1> HIDE DEF Sent, Char
<1>1. p.items \in Seq(Item(Sent))
  BY DEF Screen
<1>2. \A i \in DOMAIN p.items : p.items[i] \in Item(Sent)
  <2> HIDE DEF Item
  <2> QED
    BY <1>1
<1>3. ASSUME NEW i \in TableCells(p)
      PROVE  i \in DOMAIN p.items /\ rows[i] \in Seq(Sent)
  <2>1. i \in DOMAIN p.items
    BY DEF TableCells, Fields
  <2>2. p.items[i].text \in Seq(Sent)
    BY <1>2, <2>1 DEF Item
  <2>3. value(i) \in Seq(Sent)
    <3>1. CASE Returned(r.fields, p.items[i])
      BY <3>1 DEF Returned, ReadOf
    <3>2. CASE ~Returned(r.fields, p.items[i])
      BY <2>2, <3>2
    <3> QED
      BY <3>1, <3>2
  <2>4. rows[i] = IF p.items[i].caps THEN UpperAll(value(i)) ELSE value(i)
    BY DEF ReadTableRows
  <2> HIDE DEF value, rows
  <2>5. UpperAll(value(i)) \in Seq(Sent)
    BY <2>3, UpperAllTyped
  <2> QED
    BY <2>1, <2>3, <2>4, <2>5
<1>4. Reseeded(p, rows) = [p EXCEPT !.items = items]
  BY DEF Reseeded
<1> HIDE DEF rows
<1>5. ASSUME NEW i \in DOMAIN p.items
      PROVE  item(i) \in Item(Sent)
  <2>1. p.items[i] \in Item(Sent)
    BY <1>2
  <2>2. CASE i \in TableCells(p)
    <3>1. rows[i] \in Seq(Sent)
      BY <1>3, <2>2
    <3>2. [p.items[i] EXCEPT !.text = rows[i]] \in Item(Sent)
      <4> DEFINE x == p.items[i]
                 t == rows[i]
      <4>1. x \in Item(Sent) /\ t \in Seq(Sent)
        BY <2>1, <3>1
      <4> HIDE DEF x, t
      <4>2. [x EXCEPT !.text = t] \in Item(Sent)
        BY <4>1 DEF Item
      <4> QED
        BY <4>2 DEF x, t
    <3> QED
      BY <2>2, <3>2
  <2>3. CASE i \notin TableCells(p)
    BY <2>1, <2>3
  <2> QED
    BY <2>2, <2>3
<1>6. DOMAIN p.items = 1 .. Len(p.items) /\ Len(p.items) \in Nat
  BY <1>1
<1>7. items \in Seq(Item(Sent)) /\ Len(items) = Len(p.items)
  <2> HIDE DEF item
  <2> QED
    BY <1>5, <1>6
<1> DEFINE q == Reseeded(p, rows)
<1>8. q = [p EXCEPT !.items = items]
  BY <1>4
<1> HIDE DEF items, Item
<1>9. q \in Screen(Sent) /\ q.items = items /\ q.command = p.command
  BY <1>7, <1>8 DEF Screen
<1>10. q.command \in 0 .. Len(q.items)
  BY <1>7, <1>9
<1> QED
  BY <1>9, <1>10 DEF rows

\* What holds of every state: the panel, the buffer and the reply are of the
\* bytes that the terminal sends.
IOInv ==
  /\ terminal \in [colour : BOOLEAN, oversize : BOOLEAN, attributes : BOOLEAN]
  /\ panel \in Screen(Sent) /\ panel.command \in 0 .. Len(panel.items)
  /\ cells \in [Cells -> Cell(Sent)] /\ cursor \in Cells /\ rejected \in BOOLEAN
  /\ reply \in Seq(Sent)
  /\ ReadOf(Sent, read)
  /\ at \in {"user", "reply", "app", "ended"}
  /\ inputs \in 0 .. MaxInputs /\ turns \in 0 .. MaxTurns
  /\ since \subseteq {"typed", "patched", "erased", "cleared"}

\* A panel of the application is one of the bytes any terminal sends.
LEMMA PanelsTyped ==
  ASSUME NEW p \in Panels
  PROVE  p \in Screen(Sent) /\ p.command \in 0 .. Len(p.items)
<1>1. p \in Screen(Char) /\ p.command \in 0 .. Len(p.items)
  BY PanelsAssumption
<1> HIDE DEF Char, Sent
<1>2. Char \subseteq Sent
  BY SentBytes
<1>3. Seq(Char) \subseteq Seq(Sent)
  BY <1>2
<1>4. [text : Seq(Char), fg : Char] \subseteq [text : Seq(Sent), fg : Char]
  BY <1>3
<1>5. Seq([text : Seq(Char), fg : Char]) \subseteq Seq([text : Seq(Sent), fg : Char])
  <2> DEFINE A == [text : Seq(Char), fg : Char]
             C == [text : Seq(Sent), fg : Char]
  <2>1. A \subseteq C
    BY <1>4
  <2> HIDE DEF A, C
  <2>2. Seq(A) \subseteq Seq(C)
    BY <2>1
  <2> QED
    BY <2>2 DEF A, C
<1>6. Item(Char) \subseteq Item(Sent)
  BY <1>2, <1>3, <1>5 DEF Item
<1> HIDE DEF Item
<1>7. Seq(Item(Char)) \subseteq Seq(Item(Sent))
  BY <1>6
<1>8. Screen(Char) \subseteq Screen(Sent)
  BY <1>7 DEF Screen
<1> QED
  BY <1>1, <1>8

\* A write that the application makes leaves the terminal as it must be.
LEMMA WriteTyped ==
  ASSUME IOInv, NEW write, write.erase \in BOOLEAN, write.orders \in Seq(Orders(Sent)),
         Write(write), panel' \in Screen(Sent), panel'.command \in 0 .. Len(panel'.items),
         since' \subseteq {"typed", "patched", "erased", "cleared"}
  PROVE  IOInv'
<1> HIDE DEF Sent, Char, Orders, Cell, Screen
<1> DEFINE t == Interpret(cells, cursor, write)
<1>1. t \in State(Sent)
  <2>1. Char \subseteq Sent /\ cells \in [Cells -> Cell(Sent)] /\ cursor \in Cells
    BY SentBytes DEF IOInv
  <2> QED
    BY <2>1, InterpretTyped
<1>2. /\ UNCHANGED <<terminal, reply, inputs, turns>>
      /\ \/ at' = "ended" /\ UNCHANGED <<cells, cursor, rejected, read>>
         \/ /\ cells' = t.buf /\ cursor' = t.cursor /\ rejected' = t.rejected
            /\ at' = "user" /\ read' = NothingRead
  BY DEF Write
<1> HIDE DEF t
<1>3. cells' \in [Cells -> Cell(Sent)] /\ cursor' \in Cells /\ rejected' \in BOOLEAN
  BY <1>1, <1>2 DEF State, IOInv
<1>4. Sent' = Sent
  BY <1>2 DEF Sent, Byte, Char
<1>5. ReadOf(Sent, read')
  <2>1. DOMAIN NothingRead.fields = {}
    BY DEF NothingRead
  <2> QED
    BY <1>2, <2>1 DEF ReadOf, IOInv
<1> QED
  BY <1>2, <1>3, <1>4, <1>5 DEF IOInv, ReadOf, Screen, Cell, Item, Char

\* What the user does to the buffer leaves it as it must be.
LEMMA EditTyped ==
  ASSUME IOInv, NEW buf \in [Cells -> Cell(Sent)], NEW cur \in Cells, Edit(buf, cur)
  PROVE  IOInv'
<1> HIDE DEF Sent, Cell, Screen
<1>1. /\ inputs < MaxInputs /\ cells' = buf /\ cursor' = cur
      /\ inputs' = inputs + 1 /\ since' = since \cup {"typed"}
      /\ UNCHANGED <<terminal, panel, rejected, reply, read, at, turns>>
  BY DEF Edit
<1>2. inputs' \in 0 .. MaxInputs
  BY <1>1, UserAssumption DEF IOInv
<1>3. Sent' = Sent
  BY <1>1 DEF Sent, Byte, Char
<1> QED
  BY <1>1, <1>2, <1>3 DEF IOInv, ReadOf, Screen, Cell, Item, Char

\* render_erase_input is a write.
LEMMA EraseInputTyped ==
  ASSUME NEW B, Char \subseteq B, NEW home \in Nat
  PROVE  /\ RenderEraseInput(home).erase = FALSE
         /\ RenderEraseInput(home).orders \in Seq(Orders(B))
<1> HIDE DEF Orders, Char
<1>1. Null \in B
  BY Bytes
<1>2. /\ At("SBA", 0, Null) \in Orders(B) /\ At("EUA", 0, Null) \in Orders(B)
      /\ At("SBA", home, Null) \in Orders(B) /\ InsertCursor \in Orders(B)
  BY <1>1, OrdersTyped
<1>3. RenderEraseInput(home).orders
        = <<At("SBA", 0, Null), At("EUA", 0, Null), At("SBA", home, Null), InsertCursor>>
  BY DEF RenderEraseInput
<1>4. \A a, b, c, d \in Orders(B) : <<a, b, c, d>> \in Seq(Orders(B))
  OBVIOUS
<1>5. RenderEraseInput(home).orders \in Seq(Orders(B))
  <2> HIDE DEF RenderEraseInput
  <2> QED
    BY <1>2, <1>3, <1>4
<1> QED
  BY <1>5 DEF RenderEraseInput

\* The application's command line is an item of its panel.
LEMMA CommandTyped ==
  ASSUME IOInv, panel.command # 0
  PROVE  CommandField \in Item(Sent) /\ DataAddr(CommandField) \in Nat
<1> HIDE DEF Item, Sent
<1>1. panel.items \in Seq(Item(Sent)) /\ panel.command \in 1 .. Len(panel.items)
  BY DEF IOInv, Screen
<1>2. CommandField \in Item(Sent)
  BY <1>1 DEF CommandField
<1> QED
  BY <1>2, ItemFacts, SentBytes

\* What the application does.
LEMMA AppStep ==
  ASSUME IOInv, App
  PROVE  IOInv'
<1> HIDE DEF Sent, Char, Orders, Cell, Screen, Item
<1>0. terminal.colour \in BOOLEAN /\ Char \subseteq Sent
  BY SentBytes DEF IOInv
<1>1. ASSUME NEW p \in Screen(Sent), p.command \in 0 .. Len(p.items), Show(p)
      PROVE  IOInv'
  <2> DEFINE w == Render(p, terminal.colour)
  <2>1. Write(w) /\ panel' = p /\ since' = {}
    BY <1>1 DEF Show
  <2>2. w.erase \in BOOLEAN /\ w.orders \in Seq(Orders(Sent))
    BY <1>0, WritesTyped
  <2> HIDE DEF w
  <2> QED
    BY <1>1, <2>1, <2>2, WriteTyped
<1>2. ASSUME NEW p \in Panels, Show(p)
      PROVE  IOInv'
  BY <1>1, <1>2, PanelsTyped
<1>3. CASE Redisplay
  <2> DEFINE q == Reseeded(panel, ReadTableRows(panel, read.fields))
  <2>1. Show(q)
    BY <1>3 DEF Redisplay
  <2>2. q \in Screen(Sent) /\ q.command \in 0 .. Len(q.items)
    BY ReseededTyped DEF IOInv
  <2> HIDE DEF q
  <2> QED
    BY <1>1, <2>1, <2>2
<1>4. CASE Patch
  <2> DEFINE w == RenderPartial(panel.message, terminal.colour, DataAddr(CommandField))
  <2>1. Write(w) /\ panel' = panel /\ since' = since \cup {"patched"} /\ panel.command # 0
    BY <1>4 DEF Patch
  <2>2. panel.message \in Seq(Item(Sent))
    BY DEF IOInv, Screen
  <2>3. w.erase \in BOOLEAN /\ w.orders \in Seq(Orders(Sent))
    BY <1>0, <2>1, <2>2, CommandTyped, WritesTyped
  <2> HIDE DEF w
  <2>4. panel' \in Screen(Sent) /\ panel'.command \in 0 .. Len(panel'.items)
    BY <2>1 DEF IOInv
  <2>5. since' \subseteq {"typed", "patched", "erased", "cleared"}
    BY <2>1 DEF IOInv
  <2> QED
    BY <2>1, <2>3, <2>4, <2>5, WriteTyped
<1>5. CASE EraseInput
  <2> DEFINE w == RenderEraseInput(DataAddr(CommandField))
  <2>1. Write(w) /\ panel' = panel /\ since' = since \cup {"erased"} /\ panel.command # 0
    BY <1>5 DEF EraseInput
  <2>2. w.erase \in BOOLEAN /\ w.orders \in Seq(Orders(Sent))
    BY <1>0, <2>1, CommandTyped, EraseInputTyped
  <2> HIDE DEF w
  <2>3. panel' \in Screen(Sent) /\ panel'.command \in 0 .. Len(panel'.items)
    BY <2>1 DEF IOInv
  <2>4. since' \subseteq {"typed", "patched", "erased", "cleared"}
    BY <2>1 DEF IOInv
  <2> QED
    BY <2>1, <2>2, <2>3, <2>4, WriteTyped
<1>6. CASE ReadReply
  <2>1. /\ read' = ParseReply(reply) /\ reply' = <<>> /\ at' = "app"
        /\ UNCHANGED <<terminal, panel, cells, cursor, rejected, inputs, turns, since>>
    BY <1>6 DEF ReadReply
  <2>2. Sent \subseteq Nat
    BY SentBytes
  <2>3. ReadOf(Sent, ParseReply(reply))
    BY <2>2, ParseReplyTyped DEF IOInv
  <2>4. Sent' = Sent
    BY <2>1 DEF Sent, Byte, Char
  <2>5. <<>> \in Seq(Sent)
    OBVIOUS
  <2>6. ReadOf(Sent', read')
    BY <2>1, <2>3, <2>4
  <2> QED
    BY <2>1, <2>4, <2>5, <2>6 DEF IOInv, ReadOf, Screen, Cell, Item, Char
<1> QED
  BY <1>2, <1>3, <1>4, <1>5, <1>6 DEF App

\* The first cell.
LEMMA Home == 0 \in Cells
BY Sizes DEF Cells

\* What the user does.
LEMMA UserStep ==
  ASSUME IOInv, User
  PROVE  IOInv'
<1> HIDE DEF Sent, Char, Cell, Screen, Item
<1>0. /\ cells \in [Cells -> Cell(Sent)] /\ cursor \in Cells /\ Null \in Sent
      /\ Typed \subseteq Sent /\ {Selectable, Selected, Enter, Clear} \subseteq Sent
  BY Bytes, SentBytes, UserAssumption DEF IOInv
<1>1. ASSUME NEW x \in Cells
      PROVE  cells[x] \in Cell(Sent) /\ \A c \in Sent : [cells[x] EXCEPT !.c = c] \in Cell(Sent)
  <2>1. cells[x] \in Cell(Sent)
    BY <1>0
  <2> QED
    BY <2>1 DEF Cell
<1>2. ASSUME NEW x \in Cells
      PROVE  \A m \in BOOLEAN : [cells[x] EXCEPT !.mdt = m] \in Cell(Sent)
  BY <1>1 DEF Cell
<1>3. ASSUME NEW x \in Cells, NEW d \in Cells, NEW m \in BOOLEAN, NEW c \in Sent
      PROVE  [cells EXCEPT ![x].mdt = m, ![d].c = c] \in [Cells -> Cell(Sent)]
  <2> DEFINE once == [cells EXCEPT ![x] = [cells[x] EXCEPT !.mdt = m]]
  <2>1. once \in [Cells -> Cell(Sent)]
    BY <1>0, <1>2
  <2>2. [once[d] EXCEPT !.c = c] \in Cell(Sent)
    BY <2>1 DEF Cell
  <2>3. [cells EXCEPT ![x].mdt = m, ![d].c = c] = [once EXCEPT ![d] = [once[d] EXCEPT !.c = c]]
    OBVIOUS
  <2> HIDE DEF once
  <2> QED
    BY <2>1, <2>2, <2>3
<1>4. ASSUME NEW x \in InputFields, NEW n \in DOMAIN Data(cells, x)
      PROVE  x \in Cells /\ cells[x].attr /\ Data(cells, x)[n] \in Cells
  <2>1. x \in Cells /\ cells[x].attr
    BY DEF InputFields, Attributes
  <2>2. Members(Data(cells, x)) \subseteq Cells
    BY <2>1, DataCells
  <2> QED
    BY <2>1, <2>2 DEF Members
<1>5. ASSUME NEW x \in InputFields, NEW n \in DOMAIN Data(cells, x), NEW c \in Typed, Type(x, n, c)
      PROVE  IOInv'
  <2> DEFINE a == Data(cells, x)[n]
             buf == [cells EXCEPT ![x].mdt = TRUE, ![a].c = c]
  <2>1. Edit(buf, Next1(a))
    BY <1>5 DEF Type
  <2>2. a \in Cells /\ x \in Cells
    BY <1>4
  <2>3. Next1(a) \in Cells
    BY <2>2, NextCell
  <2>4. buf \in [Cells -> Cell(Sent)]
    <3> HIDE DEF a
    <3> QED
      BY <1>0, <1>3, <2>2
  <2> HIDE DEF a, buf
  <2> QED
    BY <2>1, <2>3, <2>4, EditTyped
<1>6. ASSUME NEW x \in InputFields, NEW n \in DOMAIN Data(cells, x), EraseEof(x, n)
      PROVE  IOInv'
  <2> DEFINE field == Data(cells, x)
             gone == {field[k] : k \in n .. Len(field)}
             cell(a) == IF a \in gone THEN [cells[a] EXCEPT !.c = Null]
                        ELSE [cells[a] EXCEPT !.mdt = @ \/ a = x]
             buf == [a \in Cells |-> cell(a)]
  <2>1. Edit(buf, field[n])
    BY <1>6 DEF EraseEof
  <2>2. field[n] \in Cells
    BY <1>4
  <2> HIDE DEF gone
  <2>3. ASSUME NEW a \in Cells
        PROVE  cell(a) \in Cell(Sent)
    <3>1. [cells[a] EXCEPT !.c = Null] \in Cell(Sent)
      BY <1>0, <1>1
    <3>2. [cells[a] EXCEPT !.mdt = cells[a].mdt \/ a = x] \in Cell(Sent)
      <4>1. (cells[a].mdt \/ a = x) \in BOOLEAN
        OBVIOUS
      <4> QED
        BY <1>2, <4>1
    <3> QED
      BY <3>1, <3>2
  <2>4. buf \in [Cells -> Cell(Sent)]
    <3> HIDE DEF cell
    <3> QED
      BY <2>3
  <2> HIDE DEF field, buf
  <2> QED
    BY <2>1, <2>2, <2>4, EditTyped
<1>7. ASSUME NEW x \in Cells, CursorSelect(x)
      PROVE  IOInv'
  <2> DEFINE d == Next1(x)
             m == (cells[d].c = Selectable)
             c == IF cells[d].c = Selectable THEN Selected ELSE Selectable
             buf == [cells EXCEPT ![x].mdt = m, ![d].c = c]
  <2>1. Edit(buf, d)
    BY <1>7 DEF CursorSelect
  <2>2. d \in Cells
    BY NextCell
  <2>3. buf \in [Cells -> Cell(Sent)]
    <3>1. m \in BOOLEAN /\ c \in Sent
      BY <1>0
    <3> HIDE DEF d, m, c
    <3> QED
      BY <1>3, <2>2, <3>1
  <2> HIDE DEF d, buf
  <2> QED
    BY <2>1, <2>2, <2>3, EditTyped
<1>8. ASSUME NEW a \in Pointed, MoveCursor(a)
      PROVE  IOInv'
  <2>1. a \in Cells /\ Edit(cells, a)
    BY <1>8, UserAssumption DEF MoveCursor
  <2> QED
    BY <1>0, <2>1, EditTyped
<1>9. CASE PressEnter
  <2>1. /\ turns < MaxTurns /\ reply' = ReadModified(Enter) /\ at' = "reply" /\ turns' = turns + 1
        /\ UNCHANGED <<terminal, panel, cells, cursor, rejected, read, inputs, since>>
    BY <1>9 DEF PressEnter
  <2>2. ReadModified(Enter) \in Seq(Sent)
    BY <1>0, Bytes, ReadModifiedTyped
  <2>3. Sent' = Sent
    BY <2>1 DEF Sent, Byte, Char
  <2>4. turns' \in 0 .. MaxTurns
    BY <2>1, UserAssumption DEF IOInv
  <2>5. reply' \in Seq(Sent')
    BY <2>1, <2>2, <2>3
  <2> QED
    BY <2>1, <2>3, <2>4, <2>5 DEF IOInv, ReadOf, Screen, Cell, Item, Char
<1>10. CASE PressClear
  <2>1. /\ turns < MaxTurns /\ cells' = Erased /\ cursor' = 0 /\ reply' = <<Clear>>
        /\ at' = "reply" /\ turns' = turns + 1 /\ since' = since \cup {"cleared"}
        /\ UNCHANGED <<terminal, panel, rejected, read, inputs>>
    BY <1>10 DEF PressClear
  <2>2. <<Clear>> \in Seq(Sent)
    BY <1>0
  <2>3. Sent' = Sent
    BY <2>1 DEF Sent, Byte, Char
  <2>4. turns' \in 0 .. MaxTurns
    BY <2>1, UserAssumption DEF IOInv
  <2>5. reply' \in Seq(Sent')
    BY <2>1, <2>2, <2>3
  <2>6. cells' \in [Cells -> Cell(Sent)] /\ cursor' \in Cells
    BY <2>1, CellsTyped, SentBytes, Home
  <2>7. since' \subseteq {"typed", "patched", "erased", "cleared"}
    BY <2>1 DEF IOInv
  <2> QED
    BY <2>1, <2>3, <2>4, <2>5, <2>6, <2>7 DEF IOInv, ReadOf, Screen, Cell, Item, Char
<1> QED
  BY <1>5, <1>6, <1>7, <1>8, <1>9, <1>10 DEF User

\* The invariant holds of what the server and the user start from.
LEMMA IOInit == Init => IOInv
<1> SUFFICES ASSUME Init
             PROVE  IOInv
  OBVIOUS
<1> HIDE DEF Sent, Char, Cell, Screen, Item
<1>1. panel \in Screen(Sent) /\ panel.command \in 0 .. Len(panel.items)
  BY PanelsTyped DEF Init
<1>2. Erased \in [Cells -> Cell(Sent)] /\ 0 \in Cells
  BY CellsTyped, SentBytes, Home
<1>3. <<>> \in Seq(Sent)
  OBVIOUS
<1>4. ReadOf(Sent, NothingRead)
  <2>1. DOMAIN NothingRead.fields = {}
    BY DEF NothingRead
  <2> QED
    BY <2>1 DEF ReadOf
<1>5. inputs \in 0 .. MaxInputs /\ turns \in 0 .. MaxTurns
  BY UserAssumption DEF Init
<1> QED
  BY <1>1, <1>2, <1>3, <1>4, <1>5, TerminalsAssumption DEF Init, IOInv

\* Every step keeps it.
LEMMA IONext == IOInv /\ [Next]_vars => IOInv'
<1> SUFFICES ASSUME IOInv, [Next]_vars
             PROVE  IOInv'
  OBVIOUS
<1>1. CASE Next
  BY <1>1, AppStep, UserStep DEF Next
<1>2. CASE UNCHANGED vars
  BY <1>2 DEF vars, IOInv, ReadOf, Screen, Cell, Item, Char, Sent, Byte
<1> QED
  BY <1>1, <1>2

\* So it is an invariant.
LEMMA IOAlways == Spec => []IOInv
BY IOInit, IONext, PTL DEF Spec

-----------------------------------------------------------------------------
(* What the orders of a write leave.                                       *)

\* From the state t the orders lead to u.
Obeyed(t, orders, u) ==
  \E h : /\ h[0] = t /\ h[Len(orders)] = u
         /\ \A n \in 1 .. Len(orders) : h[n] = Obey(h[n - 1], orders[n])

\* No order changes nothing.
LEMMA ObeyedNone ==
  ASSUME NEW t, NEW u, Obeyed(t, <<>>, u)
  PROVE  u = t
BY DEF Obeyed

\* One order is obeyed as it stands.
LEMMA ObeyedOne ==
  ASSUME NEW t, NEW o, NEW u, Obeyed(t, <<o>>, u)
  PROVE  u = Obey(t, o)
<1>1. PICK h : h[0] = t /\ h[1] = u /\ \A n \in 1 .. 1 : h[n] = Obey(h[n - 1], <<o>>[n])
  BY DEF Obeyed
<1>2. 1 \in 1 .. 1 /\ 1 - 1 = 0 /\ <<o>>[1] = o
  OBVIOUS
<1>3. h[1] = Obey(h[0], o)
  BY <1>1, <1>2
<1> QED
  BY <1>1, <1>3

\* Orders behind others are obeyed where those leave the terminal.
LEMMA ObeyedBoth ==
  ASSUME NEW A, NEW p \in Seq(A), NEW q \in Seq(A), NEW t, NEW v, Obeyed(t, p \o q, v)
  PROVE  \E u : Obeyed(t, p, u) /\ Obeyed(u, q, v)
<1> DEFINE r == p \o q
           m == Len(p)
           n == Len(q)
<1>1. /\ m \in Nat /\ n \in Nat /\ Len(r) = m + n
      /\ \A i \in 1 .. m : r[i] = p[i]
      /\ \A i \in 1 .. n : r[m + i] = q[i]
  OBVIOUS
<1> HIDE DEF r
<1>2. PICK h : h[0] = t /\ h[m + n] = v /\ \A i \in 1 .. m + n : h[i] = Obey(h[i - 1], r[i])
  BY <1>1 DEF Obeyed, r
<1> HIDE DEF m, n
<1>3. Obeyed(t, p, h[m])
  <2>1. \A i \in 1 .. m : i \in 1 .. m + n
    BY <1>1
  <2>2. \A i \in 1 .. m : h[i] = Obey(h[i - 1], p[i])
    BY <1>1, <1>2, <2>1
  <2> QED
    BY <1>2, <2>2 DEF Obeyed, m
<1>4. Obeyed(h[m], q, v)
  <2> DEFINE g == [i \in 0 .. n |-> h[m + i]]
  <2>1. \A i \in 0 .. n : g[i] = h[m + i]
    OBVIOUS
  <2> HIDE DEF g
  <2>2. g[0] = h[m] /\ g[n] = v
    <3>1. 0 \in 0 .. n /\ n \in 0 .. n /\ m + 0 = m
      BY <1>1
    <3> QED
      BY <1>2, <2>1, <3>1
  <2>3. ASSUME NEW i \in 1 .. n
        PROVE  g[i] = Obey(g[i - 1], q[i])
    <3>1. i \in 0 .. n /\ i - 1 \in 0 .. n /\ m + i \in 1 .. m + n /\ (m + i) - 1 = m + (i - 1)
      BY <1>1
    <3>2. h[m + i] = Obey(h[(m + i) - 1], r[m + i])
      BY <1>2, <3>1
    <3>3. r[m + i] = q[i]
      BY <1>1
    <3> QED
      BY <2>1, <3>1, <3>2, <3>3
  <2> QED
    BY <2>2, <2>3 DEF Obeyed, n
<1> QED
  BY <1>3, <1>4

\* A write leaves what its orders lead to.
LEMMA WriteObeyed ==
  ASSUME NEW B, Char \subseteq B, NEW buf \in [Cells -> Cell(B)], NEW cur \in Cells, NEW write,
         write.erase \in BOOLEAN, write.orders \in Seq(Orders(B))
  PROVE  Obeyed(Before(buf, cur, write), write.orders, Interpret(buf, cur, write))
<1> HIDE DEF Orders, Cell
<1> DEFINE N == Len(write.orders)
           first == Before(buf, cur, write)
           Led(n, u) == \E h : /\ h[0] = first /\ h[n] = u
                               /\ \A i \in 1 .. n : h[i] = Obey(h[i - 1], write.orders[i])
           S == [n \in 0 .. N |-> {u \in State(B) : Led(n, u)}]
<1>1. N \in Nat /\ \A n \in 1 .. N : write.orders[n] \in Orders(B)
  OBVIOUS
<1>2. first \in State(B)
  BY BeforeTyped
<1> HIDE DEF first, N
<1>3. first \in S[0]
  <2> DEFINE h == [i \in 0 .. 0 |-> first]
  <2>1. h[0] = first
    OBVIOUS
  <2> HIDE DEF h
  <2>2. Led(0, first)
    BY <2>1
  <2>3. 0 \in 0 .. N
    BY <1>1
  <2> QED
    BY <1>2, <2>2, <2>3
<1>4. ASSUME NEW n \in 1 .. N, NEW t \in S[n - 1]
      PROVE  Obey(t, write.orders[n]) \in S[n]
  <2> DEFINE u == Obey(t, write.orders[n])
  <2>1. n - 1 \in 0 .. N /\ n \in 0 .. N
    BY <1>1
  <2>2. t \in State(B) /\ Led(n - 1, t)
    BY <2>1
  <2>3. u \in State(B)
    BY <1>1, <2>2, ObeyTyped
  <2> HIDE DEF u
  <2>4. PICK h : /\ h[0] = first /\ h[n - 1] = t
                 /\ \A i \in 1 .. n - 1 : h[i] = Obey(h[i - 1], write.orders[i])
    BY <2>2
  <2> DEFINE g == [i \in 0 .. n |-> IF i = n THEN u ELSE h[i]]
  <2>5. \A i \in 0 .. n : g[i] = IF i = n THEN u ELSE h[i]
    OBVIOUS
  <2> HIDE DEF g
  <2>6. g[0] = first /\ g[n] = u /\ g[n - 1] = t
    <3>1. 0 \in 0 .. n /\ 0 # n /\ n \in 0 .. n /\ n - 1 \in 0 .. n /\ n - 1 # n
      BY <1>1
    <3> QED
      BY <2>4, <2>5, <3>1
  <2>7. ASSUME NEW i \in 1 .. n
        PROVE  g[i] = Obey(g[i - 1], write.orders[i])
    <3>1. CASE i = n
      BY <2>6, <3>1 DEF u
    <3>2. CASE i # n
      <4>1. i \in 1 .. n - 1 /\ i \in 0 .. n /\ i - 1 \in 0 .. n /\ i - 1 # n
        BY <1>1, <3>2
      <4> QED
        BY <2>4, <2>5, <3>2, <4>1
    <3> QED
      BY <3>1, <3>2
  <2>8. Led(n, u)
    BY <2>6, <2>7
  <2>9. u \in S[n]
    BY <2>1, <2>3, <2>8
  <2> HIDE DEF S
  <2> QED
    BY <2>9 DEF u
<1> HIDE DEF S
<1>5. Interpret(buf, cur, write) \in S[N]
  BY <1>1, <1>3, <1>4, Interpreted DEF N, first
<1>6. Led(N, Interpret(buf, cur, write))
  <2>1. N \in 0 .. N
    BY <1>1
  <2> QED
    BY <1>5, <2>1 DEF S
<1> QED
  BY <1>6 DEF Obeyed, N, first

\* A character in a cell.
Character(c, fg) == [EmptyCell EXCEPT !.c = c, !.fg = fg]

\* An attribute in a cell.
Attribute(prot, mdt, c, fg) ==
  [EmptyCell EXCEPT !.attr = TRUE, !.prot = prot, !.mdt = mdt, !.c = c, !.fg = fg]

\* What each order does to a terminal that has rejected none.
LEMMA SetAddress ==
  ASSUME NEW t, ~t.rejected, NEW a \in 0 .. Size, a < Addressable, NEW c
  PROVE  Obey(t, At("SBA", a, c)) = IF a \in Cells THEN [t EXCEPT !.at = a]
                                    ELSE [t EXCEPT !.rejected = TRUE]
<1>1. a \in 0 .. Addressable - 1
  BY Sizes
<1>2. DecodeBufferAddr(EncodePackAddr(a)[1], EncodePackAddr(a)[2]) = a
  BY <1>1, CodedAddressRead
<1>3. At("SBA", a, c).op = "SBA" /\ At("SBA", a, c).bytes = EncodePackAddr(a)
  BY DEF At, Order
<1> QED
  BY <1>2, <1>3 DEF Obey

\* An RA fills the cells up to its stop.
LEMMA Repeated ==
  ASSUME NEW B, NEW t \in State(B), ~t.rejected, NEW a \in Cells, NEW c
  PROVE  LET u == Obey(t, At("RA", a, c))
         IN /\ u.at = a /\ u.fg = t.fg /\ ~u.rejected
            /\ \A x \in Cells : u.buf[x] = IF x \in Span(t.at, a) THEN Character(c, t.fg) ELSE t.buf[x]
<1>1. a \in 0 .. Addressable - 1
  BY Sizes
<1>2. DecodeBufferAddr(EncodePackAddr(a)[1], EncodePackAddr(a)[2]) = a
  BY <1>1, CodedAddressRead
<1>3. /\ At("RA", a, c).op = "RA" /\ At("RA", a, c).bytes = EncodePackAddr(a)
      /\ At("RA", a, c).c = c
  BY DEF At, Order
<1> DEFINE w == [x \in Cells |-> IF x \in Span(t.at, a) THEN Character(c, t.fg) ELSE t.buf[x]]
<1>4. Obey(t, At("RA", a, c)) = [t EXCEPT !.at = a, !.buf = w]
  BY <1>2, <1>3 DEF Obey, Character
<1>5. \A x \in Cells : w[x] = IF x \in Span(t.at, a) THEN Character(c, t.fg) ELSE t.buf[x]
  OBVIOUS
<1> HIDE DEF w
<1>6. LET u == [t EXCEPT !.at = a, !.buf = w]
      IN u.at = a /\ u.fg = t.fg /\ ~u.rejected /\ u.buf = w
  BY DEF State
<1> QED
  BY <1>4, <1>5, <1>6, Zenon

\* The orders without an address are always obeyed.
LEMMA OthersObeyed ==
  ASSUME NEW t, ~t.rejected
  PROVE  /\ \A c : Obey(t, Put(c)) = Stored(t, Character(c, t.fg))
         /\ \A fg : Obey(t, SetColour(fg)) = [t EXCEPT !.fg = fg]
         /\ Obey(t, InsertCursor) = [t EXCEPT !.cursor = t.at]
<1>1. \A c : Obey(t, Put(c)) = Stored(t, Character(c, t.fg))
  BY DEF Obey, Put, Order, Character
<1>2. \A fg : Obey(t, SetColour(fg)) = [t EXCEPT !.fg = fg]
  BY DEF Obey, SetColour, Order
<1>3. Obey(t, InsertCursor) = [t EXCEPT !.cursor = t.at]
  BY DEF Obey, InsertCursor, Order
<1> QED
  BY <1>1, <1>2, <1>3

\* From the cell a on the characters s were written, in the colours q.
Wrote(B, t, u, a, s, q) ==
  /\ u \in State(B) /\ ~u.rejected
  /\ u.at = (a + Len(s)) % Size
  /\ \A x \in Cells : u.buf[x] = IF x \in a .. a + Len(s) - 1
                                 THEN Character(s[x - a + 1], q[x - a + 1]) ELSE t.buf[x]

\* n characters in one colour.
Tinted(q, n, fg) == \A i \in 1 .. n : q[i] = fg

\* Characters behind characters.
LEMMA WroteOn ==
  ASSUME NEW B, NEW t, NEW u, NEW v, NEW a \in Nat, NEW s \in Seq(B), NEW r \in Seq(B),
         NEW q \in Seq(Int), NEW p \in Seq(Int), Len(q) = Len(s), Len(p) = Len(r),
         Wrote(B, t, u, a, s, q), Wrote(B, u, v, a + Len(s), r, p)
  PROVE  Wrote(B, t, v, a, s \o r, q \o p)
<1> DEFINE m == Len(s)
           n == Len(r)
           w == s \o r
           z == q \o p
<1>1. /\ m \in Nat /\ n \in Nat /\ Len(w) = m + n
      /\ \A i \in 1 .. m : w[i] = s[i] /\ z[i] = q[i]
      /\ \A i \in 1 .. n : w[m + i] = r[i] /\ z[m + i] = p[i]
  OBVIOUS
<1> HIDE DEF m, n, w, z
<1>2. /\ v \in State(B) /\ ~v.rejected
      /\ v.at = (a + m + n) % Size
  BY DEF Wrote, m, n
<1>3. a + m + n = a + Len(w)
  BY <1>1
<1>4. ASSUME NEW x \in Cells
      PROVE  v.buf[x] = IF x \in a .. a + Len(w) - 1
                        THEN Character(w[x - a + 1], z[x - a + 1]) ELSE t.buf[x]
  <2>0. x \in Nat
    BY Sizes DEF Cells
  <2>1. u.buf[x] = IF x \in a .. a + m - 1 THEN Character(s[x - a + 1], q[x - a + 1]) ELSE t.buf[x]
    BY DEF Wrote, m
  <2>2. v.buf[x] = IF x \in a + m .. a + m + n - 1
                   THEN Character(r[x - (a + m) + 1], p[x - (a + m) + 1]) ELSE u.buf[x]
    BY DEF Wrote, m, n
  <2>3. CASE x \in a .. a + m - 1
    <3>1. x \notin a + m .. a + m + n - 1 /\ x \in a .. a + Len(w) - 1 /\ x - a + 1 \in 1 .. m
      BY <1>1, <2>0, <2>3
    <3> QED
      BY <1>1, <2>1, <2>2, <2>3, <3>1
  <2>4. CASE x \in a + m .. a + m + n - 1
    <3>1. /\ x \in a .. a + Len(w) - 1 /\ x - (a + m) + 1 \in 1 .. n
          /\ m + (x - (a + m) + 1) = x - a + 1
      BY <1>1, <2>0, <2>4
    <3>2. w[x - a + 1] = r[x - (a + m) + 1] /\ z[x - a + 1] = p[x - (a + m) + 1]
      BY <1>1, <3>1
    <3> QED
      BY <2>2, <2>4, <3>1, <3>2
  <2>5. CASE x \notin a .. a + m - 1 /\ x \notin a + m .. a + m + n - 1
    <3>1. x \notin a .. a + Len(w) - 1
      BY <1>1, <2>0, <2>5
    <3> QED
      BY <2>1, <2>2, <2>5, <3>1
  <2> QED
    BY <2>3, <2>4, <2>5
<1> QED
  BY <1>2, <1>3, <1>4 DEF Wrote, w, z

\* A cell is stored, and the next one is written next.
LEMMA StoredTyped ==
  ASSUME NEW B, NEW t \in State(B), NEW cell \in Cell(B)
  PROVE  LET u == Stored(t, cell)
         IN /\ u \in State(B) /\ u.at = Next1(t.at) /\ u.fg = t.fg /\ u.rejected = t.rejected
            /\ \A x \in Cells : u.buf[x] = IF x = t.at THEN cell ELSE t.buf[x]
<1> HIDE DEF Cell, Cells
<1>1. t.buf \in [Cells -> Cell(B)] /\ t.at \in Cells
  BY DEF State
<1>2. [t.buf EXCEPT ![t.at] = cell] \in [Cells -> Cell(B)]
  BY <1>1
<1>3. Next1(t.at) \in Cells
  BY <1>1, NextCell
<1> DEFINE b == [t.buf EXCEPT ![t.at] = cell]
           n == Next1(t.at)
           u == [t EXCEPT !.buf = b, !.at = n]
<1>4. Stored(t, cell) = u
  BY DEF Stored, State
<1>5. \A x \in Cells : b[x] = IF x = t.at THEN cell ELSE t.buf[x]
  BY <1>1
<1>6. b \in [Cells -> Cell(B)] /\ n \in Cells
  BY <1>2, <1>3
<1> HIDE DEF b, n
<1>7. u \in State(B) /\ u.buf = b /\ u.at = n /\ u.fg = t.fg /\ u.rejected = t.rejected
  BY <1>6 DEF State
<1> HIDE DEF u
<1> QED
  BY <1>4, <1>5, <1>7 DEF n

\* A character is a cell.
LEMMA CharacterTyped ==
  ASSUME NEW B, Char \subseteq B, NEW c \in B, NEW fg \in Char
  PROVE  Character(c, fg) \in Cell(B)
BY CellsTyped, Zenon DEF Character

\* Characters put one after the other.
LEMMA PutsWrote ==
  ASSUME NEW B, Char \subseteq B, NEW t \in State(B), ~t.rejected, NEW a \in Nat, NEW s \in Seq(B),
         a + Len(s) <= Size, t.at = a % Size, NEW u, Obeyed(t, Puts(s), u),
         NEW q, Tinted(q, Len(s), t.fg)
  PROVE  Wrote(B, t, u, a, s, q) /\ u.fg = t.fg
<1> DEFINE N == Len(s)
<1>1. N \in Nat /\ DOMAIN s = 1 .. N /\ \A n \in 1 .. N : s[n] \in B
  OBVIOUS
<1>2. Len(Puts(s)) = N /\ \A n \in 1 .. N : Puts(s)[n] = Put(s[n])
  BY <1>1 DEF Puts
<1> HIDE DEF N
<1>3. PICK h : h[0] = t /\ h[N] = u /\ \A n \in 1 .. N : h[n] = Obey(h[n - 1], Put(s[n]))
  BY <1>2 DEF Obeyed
<1> DEFINE Upto(n) ==
             /\ h[n] \in State(B) /\ ~h[n].rejected /\ h[n].fg = t.fg /\ h[n].at = (a + n) % Size
             /\ \A x \in Cells : h[n].buf[x] = IF x \in a .. a + n - 1
                                               THEN Character(s[x - a + 1], t.fg) ELSE t.buf[x]
           T == {n \in 0 .. N : Upto(n)}
<1>4. 0 \in T
  <2>1. 0 \in 0 .. N /\ a + 0 = a /\ \A x : x \notin a .. a + 0 - 1
    BY <1>1
  <2> QED
    BY <1>3, <2>1
<1>5. ASSUME NEW n \in 1 .. N, n - 1 \in T
      PROVE  n \in T
  <2> DEFINE w == h[n - 1]
             cell == Character(s[n], t.fg)
             v == Stored(w, cell)
  <2>1. /\ w \in State(B) /\ ~w.rejected /\ w.fg = t.fg /\ w.at = (a + (n - 1)) % Size
        /\ \A x \in Cells : w.buf[x] = IF x \in a .. a + (n - 1) - 1
                                       THEN Character(s[x - a + 1], t.fg) ELSE t.buf[x]
    BY <1>5
  <2> HIDE DEF w
  <2>2. h[n] = v
    <3>1. h[n] = Obey(w, Put(s[n]))
      BY <1>3 DEF w
    <3>2. Obey(w, Put(s[n])) = Stored(w, Character(s[n], w.fg))
      BY <2>1, OthersObeyed, Zenon
    <3> QED
      BY <2>1, <3>1, <3>2
  <2>3. t.fg \in Char
    BY DEF State
  <2>4. cell \in Cell(B)
    BY <1>1, <2>3, CharacterTyped
  <2> HIDE DEF cell, v
  <2>5. /\ v \in State(B) /\ v.at = Next1(w.at) /\ v.fg = w.fg /\ v.rejected = w.rejected
        /\ \A x \in Cells : v.buf[x] = IF x = w.at THEN cell ELSE w.buf[x]
    BY <2>1, <2>4, StoredTyped DEF v
  <2>6. a + (n - 1) \in Nat /\ a + (n - 1) < Size /\ (a + (n - 1)) + 1 = a + n /\ Size \in Nat
    BY <1>1, Sizes DEF N
  <2>7. w.at = a + (n - 1)
    BY <2>1, <2>6, Wrapped
  <2>8. v.at = (a + n) % Size
    BY <2>5, <2>6, <2>7 DEF Next1
  <2>9. ASSUME NEW x \in Cells
        PROVE  v.buf[x] = IF x \in a .. a + n - 1 THEN Character(s[x - a + 1], t.fg) ELSE t.buf[x]
    <3>0. x \in Nat
      BY Sizes DEF Cells
    <3>1. CASE x = a + (n - 1)
      <4>1. x \in a .. a + n - 1 /\ x - a + 1 = n
        BY <1>1, <3>1
      <4> QED
        BY <2>5, <2>7, <3>1, <4>1 DEF cell
    <3>2. CASE x # a + (n - 1)
      <4>1. x \in a .. a + n - 1 <=> x \in a .. a + (n - 1) - 1
        BY <1>1, <3>0, <3>2
      <4> QED
        BY <2>1, <2>5, <2>7, <3>2, <4>1
    <3> QED
      BY <3>1, <3>2
  <2>10. Upto(n)
    BY <2>1, <2>2, <2>5, <2>8, <2>9
  <2>11. n \in 0 .. N
    BY <1>1
  <2> HIDE DEF Upto
  <2> QED
    BY <2>10, <2>11
<1>6. 0 .. N \subseteq T
  <2> HIDE DEF T
  <2> QED
    BY <1>1, <1>4, <1>5, Induct
<1>7. Upto(N)
  <2>1. N \in 0 .. N
    BY <1>1
  <2> HIDE DEF Upto
  <2> QED
    BY <1>6, <2>1
<1>8. \A x \in Cells : x \in a .. a + N - 1 => x - a + 1 \in 1 .. N
  BY <1>1, Sizes DEF Cells
<1>9. \A n \in 1 .. N : q[n] = t.fg
  BY DEF N, Tinted
<1>10. \A x \in Cells : u.buf[x] = IF x \in a .. a + N - 1
                                   THEN Character(s[x - a + 1], q[x - a + 1]) ELSE t.buf[x]
  BY <1>3, <1>7, <1>8, <1>9
<1> QED
  BY <1>3, <1>7, <1>10 DEF Wrote, N

\* The orders of one run.
InColour(s, fg) == <<SetColour(fg)>> \o Puts(s)

\* A colour is set before characters are written.
LEMMA ColouredWrote ==
  ASSUME NEW B, Char \subseteq B, NEW t \in State(B), ~t.rejected, NEW a \in Nat, NEW s \in Seq(B),
         a + Len(s) <= Size, t.at = a % Size, NEW fg \in Char,
         NEW u, Obeyed(t, InColour(s, fg), u),
         NEW q, Tinted(q, Len(s), fg)
  PROVE  Wrote(B, t, u, a, s, q) /\ u.fg = fg
<1> HIDE DEF Orders, Char
<1>1. <<SetColour(fg)>> \in Seq(Orders(B)) /\ Puts(s) \in Seq(Orders(B))
  <2>1. SetColour(fg) \in Orders(B)
    BY OrdersTyped, Zenon
  <2>2. Puts(s) \in Seq(Orders(B))
    BY PutsTyped
  <2> QED
    BY <2>1, <2>2
<1>2. PICK v : Obeyed(t, <<SetColour(fg)>>, v) /\ Obeyed(v, Puts(s), u)
  BY <1>1, ObeyedBoth DEF InColour
<1>3. v = [t EXCEPT !.fg = fg]
  <2>1. v = Obey(t, SetColour(fg))
    BY <1>2, ObeyedOne, Zenon
  <2> QED
    BY <2>1, OthersObeyed, Zenon
<1>4. /\ v \in State(B) /\ ~v.rejected /\ v.at = a % Size /\ v.fg = fg
      /\ \A x \in Cells : v.buf[x] = t.buf[x]
  BY <1>3 DEF State
<1>5. Tinted(q, Len(s), v.fg)
  BY <1>4
<1>6. Wrote(B, v, u, a, s, q) /\ u.fg = v.fg
  BY <1>2, <1>4, <1>5, PutsWrote
<1>7. Wrote(B, t, u, a, s, q)
  BY <1>4, <1>6 DEF Wrote
<1> QED
  BY <1>4, <1>6, <1>7

\* The orders write the characters s in the colours q, and leave fg on.
Writes(B, orders, s, q, fg) ==
  /\ orders \in Seq(Orders(B)) /\ s \in Seq(B) /\ q \in Seq(Int) /\ Len(q) = Len(s)
  /\ \A t, u, a :
       /\ t \in State(B) /\ ~t.rejected /\ a \in Nat /\ a + Len(s) <= Size /\ t.at = a % Size
       /\ Obeyed(t, orders, u)
       => Wrote(B, t, u, a, s, q) /\ u.fg = fg

\* One run.
LEMMA RunWrites ==
  ASSUME NEW B, Char \subseteq B, NEW s \in Seq(B), NEW fg \in Char,
         NEW q \in Seq(Int), Len(q) = Len(s), Tinted(q, Len(s), fg)
  PROVE  Writes(B, InColour(s, fg), s, q, fg)
<1> HIDE DEF Orders, Char
<1>1. InColour(s, fg) \in Seq(Orders(B))
  <2>1. SetColour(fg) \in Orders(B)
    BY OrdersTyped, Zenon
  <2>2. Puts(s) \in Seq(Orders(B))
    BY PutsTyped
  <2> QED
    BY <2>1, <2>2 DEF InColour
<1>2. ASSUME NEW t, NEW u, NEW a, t \in State(B), ~t.rejected, a \in Nat, a + Len(s) <= Size,
             t.at = a % Size, Obeyed(t, InColour(s, fg), u)
      PROVE  Wrote(B, t, u, a, s, q) /\ u.fg = fg
  BY <1>2, ColouredWrote
<1> QED
  BY <1>1, <1>2, Zenon DEF Writes

\* Two sequences, one behind the other.
LEMMA Joined ==
  ASSUME NEW A, NEW p \in Seq(A), NEW q \in Seq(A)
  PROVE  p \o q \in Seq(A) /\ Len(p) \in Nat /\ Len(q) \in Nat /\ Len(p \o q) = Len(p) + Len(q)
OBVIOUS

\* Orders behind orders.
LEMMA BothWrite ==
  ASSUME NEW B, NEW o, NEW s, NEW q, NEW fg, Writes(B, o, s, q, fg),
         NEW p, NEW r, NEW z, NEW hue, Writes(B, p, r, z, hue)
  PROVE  Writes(B, o \o p, s \o r, q \o z, hue)
<1> HIDE DEF Orders
<1>1. /\ o \in Seq(Orders(B)) /\ s \in Seq(B) /\ q \in Seq(Int) /\ Len(q) = Len(s)
      /\ p \in Seq(Orders(B)) /\ r \in Seq(B) /\ z \in Seq(Int) /\ Len(z) = Len(r)
  BY DEF Writes
<1>2. o \o p \in Seq(Orders(B)) /\ Len(s) \in Nat /\ Len(r) \in Nat
  BY <1>1, Joined
<1>4. s \o r \in Seq(B) /\ Len(s \o r) = Len(s) + Len(r)
  BY <1>1, Joined
<1>5. q \o z \in Seq(Int) /\ Len(q \o z) = Len(s \o r)
  <2>1. q \o z \in Seq(Int) /\ Len(q \o z) = Len(q) + Len(z)
    BY <1>1, Joined
  <2>2. Len(q) + Len(z) = Len(s) + Len(r)
    BY <1>1
  <2> QED
    BY <1>4, <2>1, <2>2, Zenon
<1>3. ASSUME NEW t, NEW u, NEW a, t \in State(B), ~t.rejected, a \in Nat,
             a + Len(s \o r) <= Size, t.at = a % Size, Obeyed(t, o \o p, u)
      PROVE  Wrote(B, t, u, a, s \o r, q \o z) /\ u.fg = hue
  <2>1. PICK v : Obeyed(t, o, v) /\ Obeyed(v, p, u)
    BY <1>1, <1>3, ObeyedBoth
  <2>2. a + Len(s) <= Size /\ a + Len(s) \in Nat /\ (a + Len(s)) + Len(r) <= Size
    BY <1>2, <1>3, <1>4, Sizes
  <2>3. Wrote(B, t, v, a, s, q)
    BY <1>3, <2>1, <2>2, Zenon DEF Writes
  <2>4. v \in State(B) /\ ~v.rejected /\ v.at = (a + Len(s)) % Size
    BY <2>3 DEF Wrote
  <2>5. Wrote(B, v, u, a + Len(s), r, z) /\ u.fg = hue
    BY <2>1, <2>2, <2>4, Zenon DEF Writes
  <2> QED
    BY <1>1, <1>3, <2>3, <2>5, WroteOn
<1> QED
  BY <1>2, <1>3, <1>4, <1>5, Zenon DEF Writes

\* The colours of the characters of runs.
RunColours(runs, base) ==
  Concat([i \in DOMAIN runs |-> [n \in DOMAIN runs[i].text |-> RunColour(runs[i], base)]])

\* from[i] is what is concatenated from the i-th sequence on.
Behind(A, seqs, from) ==
  /\ Concat(seqs) = from[1]
  /\ from[Len(seqs) + 1] = <<>>
  /\ \A i \in 1 .. Len(seqs) : from[i] = seqs[i] \o from[i + 1]
  /\ \A i \in 1 .. Len(seqs) + 1 : from[i] \in Seq(A)

\* A concatenation has such a function.
LEMMA ConcatBehind ==
  ASSUME NEW A, NEW seqs \in Seq(Seq(A))
  PROVE  \E from : Behind(A, seqs, from)
<1>1. PICK from :
        /\ Concat(seqs) = from[1]
        /\ from[Len(seqs) + 1] = <<>>
        /\ \A i \in 1 .. Len(seqs) : from[i] = seqs[i] \o from[i + 1]
        /\ \A i \in 1 .. Len(seqs) + 1 : from[i] \in Seq(A)
  BY ConcatUnrolled, Zenon
<1>2. Behind(A, seqs, from)
  BY <1>1, Zenon DEF Behind
<1> QED
  BY <1>2

\* A sequence with nothing behind it.
LEMMA NothingBehind ==
  ASSUME NEW A, NEW s \in Seq(A)
  PROVE  s \o <<>> = s
OBVIOUS

\* Concatenations of orders, characters and colours that belong together.
LEMMA AllWrite ==
  ASSUME NEW B, Char \subseteq B, NEW N \in Nat \ {0},
         NEW O \in Seq(Seq(Orders(B))), NEW X \in Seq(Seq(B)), NEW Q \in Seq(Seq(Int)), NEW fg,
         Len(O) = N, Len(X) = N, Len(Q) = N,
         \A i \in 1 .. N : Writes(B, O[i], X[i], Q[i], fg[i])
  PROVE  Writes(B, Concat(O), Concat(X), Concat(Q), fg[N])
<1> HIDE DEF Orders, Char
<1>1. PICK o : Behind(Orders(B), O, o)
  BY ConcatBehind, Zenon
<1>2. PICK x : Behind(B, X, x)
  BY ConcatBehind, Zenon
<1>3. PICK y : Behind(Int, Q, y)
  BY ConcatBehind, Zenon
<1>7. /\ Concat(O) = o[1] /\ o[N + 1] = <<>> /\ \A i \in 1 .. N : o[i] = O[i] \o o[i + 1]
  BY <1>1, Zenon DEF Behind
<1>8. /\ Concat(X) = x[1] /\ x[N + 1] = <<>> /\ \A i \in 1 .. N : x[i] = X[i] \o x[i + 1]
  BY <1>2, Zenon DEF Behind
<1>9. /\ Concat(Q) = y[1] /\ y[N + 1] = <<>> /\ \A i \in 1 .. N : y[i] = Q[i] \o y[i + 1]
  BY <1>3, Zenon DEF Behind
<1> DEFINE T == {d \in 0 .. N - 1 : Writes(B, o[N - d], x[N - d], y[N - d], fg[N])}
<1>4. 0 \in T
  <2>1. 0 \in 0 .. N - 1 /\ N - 0 = N /\ N \in 1 .. N
    OBVIOUS
  <2>2. O[N] \in Seq(Orders(B)) /\ X[N] \in Seq(B) /\ Q[N] \in Seq(Int)
    BY <2>1
  <2>3. o[N] = O[N] \o <<>> /\ x[N] = X[N] \o <<>> /\ y[N] = Q[N] \o <<>>
    BY <1>7, <1>8, <1>9, <2>1, Zenon
  <2>4. O[N] \o <<>> = O[N] /\ X[N] \o <<>> = X[N] /\ Q[N] \o <<>> = Q[N]
    BY <2>2, NothingBehind, Zenon
  <2>5. Writes(B, O[N], X[N], Q[N], fg[N])
    BY <2>1
  <2>6. Writes(B, o[N - 0], x[N - 0], y[N - 0], fg[N])
    BY <2>1, <2>3, <2>4, <2>5
  <2> QED
    BY <2>1, <2>6
<1>5. ASSUME NEW d \in 1 .. N - 1, d - 1 \in T
      PROVE  d \in T
  <2> DEFINE i == N - d
  <2>1. i \in 1 .. N /\ N - (d - 1) = i + 1 /\ d \in 0 .. N - 1
    OBVIOUS
  <2>2. Writes(B, o[i + 1], x[i + 1], y[i + 1], fg[N])
    BY <1>5, <2>1
  <2> HIDE DEF i
  <2>3. Writes(B, O[i], X[i], Q[i], fg[i])
    BY <2>1
  <2>4. Writes(B, O[i] \o o[i + 1], X[i] \o x[i + 1], Q[i] \o y[i + 1], fg[N])
    BY <2>2, <2>3, BothWrite, Zenon
  <2>5. Writes(B, o[i], x[i], y[i], fg[N])
    BY <1>7, <1>8, <1>9, <2>1, <2>4, Zenon
  <2> QED
    BY <2>1, <2>5 DEF i
<1>6. 0 .. N - 1 \subseteq T
  <2>1. N - 1 \in Nat
    OBVIOUS
  <2> HIDE DEF T
  <2> QED
    BY <1>4, <1>5, <2>1, Induct
<1> QED
  <2>1. N - 1 \in 0 .. N - 1 /\ N - (N - 1) = 1
    OBVIOUS
  <2>2. Writes(B, o[1], x[1], y[1], fg[N])
    BY <1>6, <2>1
  <2> QED
    BY <1>7, <1>8, <1>9, <2>2

\* The colour that is set back after the last run.
LEMMA ResetWrites ==
  ASSUME NEW B, Char \subseteq B
  PROVE  Writes(B, <<SetColour(NoColour)>>, <<>>, <<>>, NoColour)
<1> HIDE DEF Orders, Char
<1>1. <<>> \in Seq(B) /\ <<>> \in Seq(Int) /\ Len(<<>>) = 0
  OBVIOUS
<1>2. Puts(<<>>) = <<>>
  BY DEF Puts
<1>3. SetColour(NoColour) \in Orders(B) /\ NoColour \in Char
  BY OrdersTyped, Bytes
<1>4. <<SetColour(NoColour)>> \in Seq(Orders(B))
  BY <1>3
<1>5. InColour(<<>>, NoColour) = <<SetColour(NoColour)>>
  BY <1>2, <1>4, NothingBehind, Zenon DEF InColour
<1>6. Tinted(<<>>, 0, NoColour)
  BY DEF Tinted
<1>7. Writes(B, InColour(<<>>, NoColour), <<>>, <<>>, NoColour)
  BY <1>1, <1>3, <1>6, RunWrites, Zenon
<1> QED
  BY <1>5, <1>7

\* Runs of characters are written each in its colour, and none stays on.
LEMMA RunsWrite ==
  ASSUME NEW B, Char \subseteq B, NEW runs \in Seq([text : Seq(B), fg : Char]), runs # <<>>,
         NEW base \in Char
  PROVE  Writes(B, EmitAttrRuns(runs, base), RunTexts(runs), RunColours(runs, base), NoColour)
<1> HIDE DEF Orders, Char
<1> DEFINE N == Len(runs)
           hue(i) == RunColour(runs[i], base)
           tint(i) == [n \in DOMAIN runs[i].text |-> hue(i)]
           fg == [i \in 1 .. N |-> hue(i)]
           O == [i \in DOMAIN runs |-> InColour(runs[i].text, hue(i))]
           X == [i \in DOMAIN runs |-> runs[i].text]
           Q == [i \in DOMAIN runs |-> tint(i)]
<1>1. N \in Nat \ {0} /\ DOMAIN runs = 1 .. N
  OBVIOUS
<1>2. \A i \in 1 .. N : runs[i].text \in Seq(B) /\ runs[i].fg \in Char
  <2> DEFINE R == [text : Seq(B), fg : Char]
  <2>1. runs \in Seq(R)
    OBVIOUS
  <2> HIDE DEF R
  <2>2. \A i \in 1 .. N : runs[i] \in R
    BY <2>1
  <2> QED
    BY <2>2 DEF R
<1>3. \A i \in 1 .. N : hue(i) \in Char
  BY <1>2 DEF RunColour
<1>4. ASSUME NEW i \in 1 .. N
      PROVE  tint(i) \in Seq(Int) /\ Len(tint(i)) = Len(runs[i].text)
             /\ Tinted(tint(i), Len(runs[i].text), hue(i))
  <2> DEFINE s == runs[i].text
             h == hue(i)
  <2>1. s \in Seq(B) /\ h \in Int
    BY <1>2, <1>3, Bytes
  <2> HIDE DEF s, h
  <2>2. DOMAIN s = 1 .. Len(s) /\ Len(s) \in Nat
    BY <2>1
  <2>3. /\ [n \in DOMAIN s |-> h] \in Seq(Int) /\ Len([n \in DOMAIN s |-> h]) = Len(s)
        /\ \A n \in 1 .. Len(s) : [m \in DOMAIN s |-> h][n] = h
    BY <2>1, <2>2
  <2> QED
    BY <2>3 DEF s, h, Tinted
<1> HIDE DEF N, tint, hue
<1>5. ASSUME NEW i \in 1 .. N
      PROVE  Writes(B, InColour(runs[i].text, hue(i)), runs[i].text, tint(i), hue(i))
  BY <1>2, <1>3, <1>4, RunWrites, Zenon
<1>6. /\ O \in Seq(Seq(Orders(B))) /\ X \in Seq(Seq(B)) /\ Q \in Seq(Seq(Int))
      /\ Len(O) = N /\ Len(X) = N /\ Len(Q) = N
  <2>1. \A i \in 1 .. N : InColour(runs[i].text, hue(i)) \in Seq(Orders(B))
    BY <1>5, Zenon DEF Writes
  <2>2. O \in Seq(Seq(Orders(B))) /\ Len(O) = N
    BY <1>1, <2>1
  <2>3. X \in Seq(Seq(B)) /\ Len(X) = N
    BY <1>1, <1>2
  <2>4. Q \in Seq(Seq(Int)) /\ Len(Q) = N
    BY <1>1, <1>4
  <2> QED
    BY <2>2, <2>3, <2>4
<1>7. \A i \in 1 .. N : Writes(B, O[i], X[i], Q[i], fg[i])
  <2>1. \A i \in 1 .. N : O[i] = InColour(runs[i].text, hue(i)) /\ X[i] = runs[i].text /\ Q[i] = tint(i)
                          /\ fg[i] = hue(i)
    BY <1>1
  <2> HIDE DEF O, X, Q, fg
  <2> QED
    BY <1>5, <2>1, Zenon
<1>8. fg[N] = hue(N)
  BY <1>1
<1>9. Concat(X) = RunTexts(runs) /\ Concat(Q) = RunColours(runs, base)
  BY DEF RunTexts, RunColours, tint, hue
<1>10. EmitAttrRuns(runs, base)
         = Concat(O) \o (IF hue(N) # NoColour THEN <<SetColour(NoColour)>> ELSE <<>>)
  BY DEF EmitAttrRuns, InColour, N, hue
<1> HIDE DEF O, X, Q, fg
<1>11. Writes(B, Concat(O), Concat(X), Concat(Q), fg[N])
  BY <1>1, <1>6, <1>7, AllWrite, Zenon
<1> DEFINE s == RunTexts(runs)
           q == RunColours(runs, base)
<1>12. Writes(B, Concat(O), s, q, hue(N))
  BY <1>8, <1>9, <1>11
<1>13. Concat(O) \in Seq(Orders(B)) /\ s \in Seq(B) /\ q \in Seq(Int)
  BY <1>12, Zenon DEF Writes
<1> HIDE DEF s, q
<1>14. s \o <<>> = s /\ q \o <<>> = q /\ Concat(O) \o <<>> = Concat(O)
  BY <1>13, NothingBehind, Zenon
<1>15. CASE hue(N) # NoColour
  <2>1. Writes(B, Concat(O) \o <<SetColour(NoColour)>>, s \o <<>>, q \o <<>>, NoColour)
    BY <1>12, ResetWrites, BothWrite, Zenon
  <2>2. EmitAttrRuns(runs, base) = Concat(O) \o <<SetColour(NoColour)>>
    BY <1>10, <1>15, Zenon
  <2> QED
    BY <1>14, <2>1, <2>2, Zenon DEF s, q
<1>16. CASE hue(N) = NoColour
  <2>1. EmitAttrRuns(runs, base) = Concat(O) \o <<>>
    BY <1>10, <1>16, Zenon
  <2> QED
    BY <1>12, <1>14, <1>16, <2>1, Zenon DEF s, q
<1> QED
  BY <1>15, <1>16

\* From the cell a on the orders write the characters s in the colours q when
\* no colour is on, and leave none on.
Fills(B, orders, a, s, q) ==
  /\ orders \in Seq(Orders(B))
  /\ \A t, u : t \in State(B) /\ ~t.rejected /\ t.fg = NoColour /\ t.at = a % Size /\ Obeyed(t, orders, u)
               => Wrote(B, t, u, a, s, q) /\ u.fg = NoColour

\* Orders that write from anywhere fill the cells from a on.
LEMMA RunsFill ==
  ASSUME NEW B, NEW o, NEW s, NEW q, Writes(B, o, s, q, NoColour), NEW a \in Nat, a + Len(s) <= Size
  PROVE  Fills(B, o, a, s, q)
BY Zenon DEF Writes, Fills

\* So do characters in the default colour.
LEMMA PutsFill ==
  ASSUME NEW B, Char \subseteq B, NEW a \in Nat, NEW s \in Seq(B), a + Len(s) <= Size,
         NEW q, Tinted(q, Len(s), NoColour)
  PROVE  Fills(B, Puts(s), a, s, q)
<1>1. Puts(s) \in Seq(Orders(B))
  BY PutsTyped
<1>2. ASSUME NEW t \in State(B), NEW u, ~t.rejected, t.fg = NoColour, t.at = a % Size,
             Obeyed(t, Puts(s), u)
      PROVE  Wrote(B, t, u, a, s, q) /\ u.fg = NoColour
  <2>1. Tinted(q, Len(s), t.fg)
    BY <1>2
  <2>2. Wrote(B, t, u, a, s, q) /\ u.fg = t.fg
    BY <1>2, <2>1, PutsWrote
  <2> QED
    BY <1>2, <2>2
<1> QED
  BY <1>1, <1>2, Zenon DEF Fills

\* One repeated character, to the end of the buffer at the furthest.
LEMMA RepeatFills ==
  ASSUME NEW B, Char \subseteq B, NEW a \in Nat, NEW s \in Seq(B), Len(s) > 0, a + Len(s) <= Size,
         OneChar(s), NEW q, Tinted(q, Len(s), NoColour)
  PROVE  Fills(B, <<RepeatTo(a + Len(s), s[1])>>, a, s, q)
<1> HIDE DEF Orders, Char
<1> DEFINE N == Len(s)
           stop == (a + N) % Size
           o == RepeatTo(a + N, s[1])
<1>1. N \in Nat \ {0} /\ 1 \in 1 .. N /\ DOMAIN s = 1 .. N /\ \A n \in 1 .. N : s[n] \in B
  OBVIOUS
<1>2. \A n \in 1 .. N : s[n] = s[1] /\ q[n] = NoColour
  BY <1>1 DEF OneChar, Tinted
<1> HIDE DEF N
<1>3. a \in Cells /\ a % Size = a /\ stop = (IF a + N < Size THEN a + N ELSE 0) /\ stop \in Cells
  <2>1. a + N \in Nat /\ a + N <= Size /\ a < Size /\ Size \in Nat \ {0}
    BY <1>1, Sizes DEF N
  <2>2. a % Size = a
    BY <2>1, Wrapped
  <2>3. CASE a + N < Size
    <3>1. stop = a + N
      BY <2>1, <2>3, Wrapped
    <3> QED
      BY <2>1, <2>2, <2>3, <3>1 DEF Cells
  <2>4. CASE a + N = Size
    <3>1. stop = 0
      <4>1. Size \in Nat /\ Size <= Size /\ Size < 2 * Size
        BY <2>1
      <4>2. Size % Size = 0
        BY <4>1, Wrapped
      <4> QED
        BY <2>4, <4>2
    <3> QED
      BY <2>1, <2>2, <2>4, <3>1 DEF Cells
  <2> QED
    BY <2>1, <2>3, <2>4
<1>4. o = At("RA", stop, s[1])
  BY DEF RepeatTo
<1>5. o \in Orders(B)
  <2>1. stop \in Int
    BY <1>3 DEF Cells
  <2> HIDE DEF stop, o
  <2> QED
    BY <1>1, <1>4, <2>1, OrdersTyped
<1>6. \A x \in Cells : x \in Span(a, stop) <=> x \in a .. a + N - 1
  <2> HIDE DEF stop
  <2> QED
    BY <1>1, <1>3, Sizes DEF Span, Cells, N
<1> HIDE DEF stop, o
<1>7. ASSUME NEW t, NEW u, t \in State(B), ~t.rejected, t.fg = NoColour, t.at = a % Size,
             Obeyed(t, <<o>>, u)
      PROVE  Wrote(B, t, u, a, s, q) /\ u.fg = NoColour
  <2>1. u = Obey(t, o)
    BY <1>7, ObeyedOne, Zenon
  <2>2. u \in State(B)
    BY <1>5, <1>7, <2>1, ObeyTyped
  <2>3. u = Obey(t, At("RA", stop, s[1]))
    BY <1>4, <2>1
  <2>4. stop \in Cells /\ t \in State(B) /\ ~t.rejected
    BY <1>3, <1>7
  <2>5. /\ u.at = stop /\ u.fg = NoColour /\ ~u.rejected
        /\ \A x \in Cells : u.buf[x] = IF x \in Span(t.at, stop)
                                       THEN Character(s[1], NoColour) ELSE t.buf[x]
    BY <1>7, <2>3, <2>4, Repeated
  <2>6. ASSUME NEW x \in Cells
        PROVE  u.buf[x] = IF x \in a .. a + N - 1
                          THEN Character(s[x - a + 1], q[x - a + 1]) ELSE t.buf[x]
    <3>1. u.buf[x] = IF x \in a .. a + N - 1 THEN Character(s[1], NoColour) ELSE t.buf[x]
      BY <1>3, <1>6, <1>7, <2>5
    <3>2. x \in a .. a + N - 1 => x - a + 1 \in 1 .. N
      BY <1>1, Sizes DEF Cells
    <3> QED
      BY <1>2, <3>1, <3>2
  <2>7. u.at = (a + Len(s)) % Size
    BY <2>5 DEF stop, N
  <2> QED
    BY <2>2, <2>5, <2>6, <2>7 DEF Wrote, N
<1>8. <<o>> \in Seq(Orders(B))
  BY <1>5
<1>9. Fills(B, <<o>>, a, s, q)
  BY <1>7, <1>8, Zenon DEF Fills
<1> QED
  BY <1>9 DEF o, N

\* Two orders, and orders behind a write that was rejected.
LEMMA ObeyedTwo ==
  ASSUME NEW t, NEW o, NEW p, NEW u, Obeyed(t, <<o, p>>, u)
  PROVE  u = Obey(Obey(t, o), p)
<1>1. PICK h : h[0] = t /\ h[2] = u /\ \A n \in 1 .. 2 : h[n] = Obey(h[n - 1], <<o, p>>[n])
  BY DEF Obeyed
<1>2. /\ 1 \in 1 .. 2 /\ 1 - 1 = 0 /\ <<o, p>>[1] = o
      /\ 2 \in 1 .. 2 /\ 2 - 1 = 1 /\ <<o, p>>[2] = p
  OBVIOUS
<1>3. h[1] = Obey(h[0], o)
  BY <1>1, <1>2
<1>4. h[2] = Obey(h[1], p)
  BY <1>1, <1>2
<1> QED
  BY <1>1, <1>3, <1>4

\* A terminal that rejected an order obeys none behind it.
LEMMA ObeyedRejected ==
  ASSUME NEW A, NEW orders \in Seq(A), NEW t, t.rejected, NEW u, Obeyed(t, orders, u)
  PROVE  u = t
<1> DEFINE N == Len(orders)
<1>1. N \in Nat
  OBVIOUS
<1>2. PICK h : h[0] = t /\ h[N] = u /\ \A n \in 1 .. N : h[n] = Obey(h[n - 1], orders[n])
  BY DEF Obeyed
<1> HIDE DEF N
<1> DEFINE T == {n \in 0 .. N : h[n] = t}
<1>3. 0 \in T
  BY <1>1, <1>2
<1>4. ASSUME NEW n \in 1 .. N, n - 1 \in T
      PROVE  n \in T
  <2>1. h[n - 1] = t /\ n \in 0 .. N
    BY <1>1, <1>4
  <2>2. h[n] = Obey(t, orders[n])
    BY <1>2, <2>1
  <2>3. Obey(t, orders[n]) = t
    BY DEF Obey
  <2> QED
    BY <2>1, <2>2, <2>3
<1>5. 0 .. N \subseteq T
  <2> HIDE DEF T
  <2> QED
    BY <1>1, <1>3, <1>4, Induct
<1>6. N \in T
  BY <1>1, <1>5
<1> QED
  BY <1>2, <1>6

\* The order stores the cell.
Stores(o, cell) == \A w : ~w.rejected => Obey(w, o) = Stored(w, cell)

\* From t to u the cell was stored at the address a.
StoredIn(B, t, a, cell, u) ==
  /\ u \in State(B) /\ ~u.rejected /\ u.at = (a + 1) % Size /\ u.fg = t.fg
  /\ \A x \in Cells : u.buf[x] = IF x = a THEN cell ELSE t.buf[x]

\* A cell is stored at the address that is set.
LEMMA StoredAt ==
  ASSUME NEW B, Char \subseteq B, NEW t \in State(B), ~t.rejected, NEW a \in Cells,
         NEW o \in Orders(B), NEW cell \in Cell(B),
         Stores(o, cell),
         NEW u, Obeyed(t, <<At("SBA", a, Null), o>>, u)
  PROVE  StoredIn(B, t, a, cell, u)
<1> HIDE DEF Orders, Cell, Char
<1>1. At("SBA", a, Null) \in Orders(B)
  <2>1. a \in Int /\ Null \in B
    BY Bytes, Sizes DEF Cells
  <2> QED
    BY <2>1, OrdersTyped
<1>2. u = Obey(Obey(t, At("SBA", a, Null)), o)
  BY ObeyedTwo, Zenon
<1> DEFINE v == [t EXCEPT !.at = a]
<1>3. Obey(t, At("SBA", a, Null)) = v
  <2>1. a \in 0 .. Size /\ a < Addressable
    BY Sizes DEF Cells
  <2> QED
    BY <2>1, SetAddress
<1>4. v \in State(B) /\ ~v.rejected /\ v.at = a /\ v.fg = t.fg /\ v.buf = t.buf
  BY DEF State
<1> HIDE DEF v
<1>5. u = Stored(v, cell)
  BY <1>2, <1>3, <1>4, Zenon DEF Stores
<1>6. /\ u \in State(B) /\ u.at = Next1(v.at) /\ u.fg = v.fg /\ u.rejected = v.rejected
      /\ \A x \in Cells : u.buf[x] = IF x = v.at THEN cell ELSE v.buf[x]
  BY <1>4, <1>5, StoredTyped
<1> QED
  BY <1>4, <1>6 DEF Next1, StoredIn

\* The cursor is put at the address that is set.
LEMMA CursorPut ==
  ASSUME NEW B, Char \subseteq B, NEW t \in State(B), ~t.rejected, NEW a \in Cells,
         NEW u, Obeyed(t, <<At("SBA", a, Null), InsertCursor>>, u)
  PROVE  u \in State(B) /\ ~u.rejected /\ u.fg = t.fg /\ u.buf = t.buf /\ u.cursor = a
<1> HIDE DEF Orders, Cell, Char
<1>1. At("SBA", a, Null) \in Orders(B) /\ InsertCursor \in Orders(B)
  <2>1. a \in Int /\ Null \in B
    BY Bytes, Sizes DEF Cells
  <2> QED
    BY <2>1, OrdersTyped
<1>2. u = Obey(Obey(t, At("SBA", a, Null)), InsertCursor)
  BY ObeyedTwo, Zenon
<1> DEFINE v == [t EXCEPT !.at = a]
<1>3. Obey(t, At("SBA", a, Null)) = v
  <2>1. a \in 0 .. Size /\ a < Addressable
    BY Sizes DEF Cells
  <2> QED
    BY <2>1, SetAddress
<1>4. v \in State(B) /\ ~v.rejected /\ v.at = a /\ v.fg = t.fg /\ v.buf = t.buf
  BY DEF State
<1> HIDE DEF v
<1>5. u = [v EXCEPT !.cursor = v.at]
  <2>1. Obey(v, InsertCursor) = [v EXCEPT !.cursor = v.at]
    BY <1>4, OthersObeyed, Zenon
  <2> QED
    BY <1>2, <1>3, <2>1, Zenon
<1> QED
  BY <1>4, <1>5 DEF State

\* The attribute of an item, and a field's terminator, are cells.
LEMMA AttributeTyped ==
  ASSUME NEW B, Char \subseteq B, NEW prot \in BOOLEAN, NEW mdt \in BOOLEAN, NEW c \in B,
         NEW fg \in Char
  PROVE  /\ Attribute(prot, mdt, c, fg) \in Cell(B)
         /\ Attribute(prot, mdt, c, fg).attr /\ Attribute(prot, mdt, c, fg).prot = prot
<1>1. EmptyCell \in Cell(B)
  BY CellsTyped, Zenon
<1> QED
  BY <1>1 DEF Attribute, Cell

\* Started and ended fields.
LEMMA FieldsStored ==
  ASSUME NEW it, NEW prot, NEW mdt, NEW fg
  PROVE  /\ Stores(StartField(it, prot, mdt, fg),
                   Attribute(prot, mdt, IF it.designator = <<>> THEN Null ELSE Detectable, fg))
         /\ Stores(Terminator, Attribute(TRUE, FALSE, Null, NoColour))
<1>1. ASSUME NEW c, NEW fore, NEW p, NEW m
      PROVE  Stores(Order("SF", <<>>, c, fore, p, m), Attribute(p, m, c, fore))
  <2>1. ASSUME NEW w, ~w.rejected
        PROVE  Obey(w, Order("SF", <<>>, c, fore, p, m)) = Stored(w, Attribute(p, m, c, fore))
    BY <2>1 DEF Obey, Order, Attribute
  <2> QED
    BY <2>1, Zenon DEF Stores
<1> DEFINE c == IF it.designator = <<>> THEN Null ELSE Detectable
<1>2. StartField(it, prot, mdt, fg) = Order("SF", <<>>, c, fg, prot, mdt)
  BY DEF StartField
<1> HIDE DEF c
<1>3. Stores(StartField(it, prot, mdt, fg), Attribute(prot, mdt, c, fg))
  BY <1>1, <1>2, Zenon
<1>4. Stores(Terminator, Attribute(TRUE, FALSE, Null, NoColour))
  BY <1>1, Zenon DEF Terminator
<1> QED
  BY <1>3, <1>4 DEF c

\* The colours of an item's characters on a terminal with or without colours.
ColoursOf(it, colour) ==
  IF it.runs = <<>> \/ ~colour \/ it.kind = "field"
  THEN [n \in DOMAIN Declared(it) |-> NoColour]
  ELSE RunColours(it.runs, it.fg)

\* They are the colours the panel declares.
LEMMA ColoursDeclared ==
  ASSUME NEW it
  PROVE  DeclaredColours(it) = ColoursOf(it, terminal.colour)
BY DEF DeclaredColours, ColoursOf, RunColours

\* The characters of an item, as many as its declaration says.
LEMMA DeclaredTyped ==
  ASSUME NEW B, Char \subseteq B, NEW it \in Item(B)
  PROVE  /\ Declared(it) \in Seq(B)
         /\ it.kind = "field" => Len(Declared(it)) = it.length
         /\ it.kind # "field" => Declared(it) = it.designator \o it.text
         /\ it.kind # "field" => Len(Declared(it)) = Len(it.designator) + Len(it.text)
<1> HIDE DEF Char, Item
<1>1. it.length \in Nat /\ it.text \in Seq(B) /\ it.designator \in Seq(B) /\ it.pad \in B
  BY ItemFacts, Zenon
<1>2. /\ it.designator \o it.text \in Seq(B)
      /\ Len(it.designator \o it.text) = Len(it.designator) + Len(it.text)
  BY <1>1, Joined
<1>3. /\ Filled(it.designator \o it.text, it.length, it.pad) \in Seq(B)
      /\ Len(Filled(it.designator \o it.text, it.length, it.pad)) = it.length
  BY <1>1, <1>2, FilledTyped
<1> QED
  BY <1>2, <1>3, Zenon DEF Declared

\* Every character of an item that has no runs is in the field's own colour.
LEMMA NotTinted ==
  ASSUME NEW it, NEW colour, it.runs = <<>> \/ ~colour \/ it.kind = "field", NEW B, Declared(it) \in Seq(B)
  PROVE  Tinted(ColoursOf(it, colour), Len(Declared(it)), NoColour)
<1> DEFINE s == Declared(it)
<1>1. DOMAIN s = 1 .. Len(s)
  OBVIOUS
<1>2. ColoursOf(it, colour) = [n \in DOMAIN s |-> NoColour]
  BY DEF ColoursOf
<1> HIDE DEF s
<1> QED
  BY <1>1, <1>2 DEF Tinted, s

\* The characters of a text fill the cells behind its attribute.
LEMMA TextFills ==
  ASSUME NEW B, Char \subseteq B, NEW it \in Item(B), NEW colour \in BOOLEAN,
         it.kind # "field", Rich(it), Fits(it)
  PROVE  \E body :
           /\ Fills(B, body, DataAddr(it), Declared(it), ColoursOf(it, colour))
           /\ EmitText(it, colour)
                = <<At("SBA", Addr(it), Null),
                    StartField(it, TRUE, FALSE, IF colour THEN it.fg ELSE NoColour)>> \o body
<1> HIDE DEF Orders, Char, Item
<1> DEFINE base == IF colour THEN it.fg ELSE NoColour
           text == it.designator \o it.text
           start == <<At("SBA", Addr(it), Null), StartField(it, TRUE, FALSE, base)>>
           body == IF it.runs # <<>> /\ colour THEN EmitAttrRuns(it.runs, base)
                   ELSE IF Len(text) >= RunMin /\ OneChar(text)
                        THEN <<RepeatTo(Addr(it) + 1 + Len(text), text[1])>>
                   ELSE Puts(text)
           a == DataAddr(it)
           q == ColoursOf(it, colour)
<1>1. /\ it.text \in Seq(B) /\ it.designator \in Seq(B) /\ it.fg \in Char
      /\ it.runs \in Seq([text : Seq(B), fg : Char])
      /\ Addr(it) \in Nat
  BY ItemFacts, Zenon
<1>2. EmitText(it, colour) = start \o body
  BY DEF EmitText
<1>3. Declared(it) = text /\ text \in Seq(B)
  BY DeclaredTyped, Zenon
<1>4. a \in Nat /\ a = Addr(it) + 1 /\ a + Len(text) <= Size /\ Len(text) \in Nat
  <2>1. Len(text) \in Nat
    BY <1>3, Joined
  <2>2. Addr(it) + Len(text) < Size
    BY <1>3 DEF Fits
  <2>3. a = Addr(it) + 1
    BY DEF DataAddr
  <2> HIDE DEF a, text
  <2> QED
    BY <1>1, <2>1, <2>2, <2>3, Sizes
<1> HIDE DEF start, a
<1>5. CASE it.runs # <<>> /\ colour
  <2>1. body = EmitAttrRuns(it.runs, it.fg)
    BY <1>5
  <2>2. Writes(B, EmitAttrRuns(it.runs, it.fg), RunTexts(it.runs), RunColours(it.runs, it.fg), NoColour)
    BY <1>1, <1>5, RunsWrite, Zenon
  <2>3. text = RunTexts(it.runs)
    <3>1. it.designator = <<>> /\ it.text = RunTexts(it.runs)
      BY <1>5 DEF Rich
    <3>2. <<>> \o it.text = it.text
      BY <1>1
    <3> QED
      BY <3>1, <3>2
  <2>4. q = RunColours(it.runs, it.fg)
    BY <1>5 DEF ColoursOf
  <2> HIDE DEF body, text, q
  <2>5. Writes(B, body, text, q, NoColour)
    BY <2>1, <2>2, <2>3, <2>4
  <2>6. Fills(B, body, a, text, q)
    BY <1>4, <2>5, RunsFill, Zenon
  <2> QED
    BY <1>2, <1>3, <2>6 DEF a, q, start
<1>6. CASE ~ (it.runs # <<>> /\ colour)
  <2>1. Tinted(q, Len(text), NoColour)
    <3>1. Tinted(ColoursOf(it, colour), Len(Declared(it)), NoColour)
      BY <1>3, <1>6, NotTinted, Zenon
    <3> QED
      BY <1>3, <3>1
  <2> HIDE DEF q
  <2>2. Fills(B, body, a, text, q)
    <3>1. CASE Len(text) >= RunMin /\ OneChar(text)
      <4>1. body = <<RepeatTo(a + Len(text), text[1])>>
        BY <1>4, <1>6, <3>1
      <4> HIDE DEF body, text
      <4>2. Len(text) > 0
        BY <1>4, <3>1, SizeAssumption
      <4>3. Fills(B, <<RepeatTo(a + Len(text), text[1])>>, a, text, q)
        BY <1>3, <1>4, <2>1, <3>1, <4>2, RepeatFills, Zenon
      <4> QED
        BY <4>1, <4>3
    <3>2. CASE ~ (Len(text) >= RunMin /\ OneChar(text))
      <4>1. body = Puts(text)
        BY <1>6, <3>2
      <4> HIDE DEF body, text
      <4>2. Fills(B, Puts(text), a, text, q)
        BY <1>3, <1>4, <2>1, PutsFill, Zenon
      <4> QED
        BY <4>1, <4>2
    <3> QED
      BY <3>1, <3>2
  <2> HIDE DEF body, text
  <2> QED
    BY <1>2, <1>3, <2>2 DEF a, q, start
<1> QED
  BY <1>5, <1>6

\* From t to u an attribute was stored at the address a.
Opened(B, t, a, prot, u) ==
  /\ u \in State(B) /\ ~u.rejected /\ u.at = (a + 1) % Size /\ u.fg = t.fg
  /\ u.buf[a].attr /\ u.buf[a].prot = prot
  /\ \A x \in Cells : x # a => u.buf[x] = t.buf[x]

\* An item starts with its attribute.
LEMMA Started ==
  ASSUME NEW B, Char \subseteq B, NEW t \in State(B), ~t.rejected, NEW it \in Item(B),
         Addr(it) \in Cells, NEW prot \in BOOLEAN, NEW mdt \in BOOLEAN, NEW fg \in Char,
         NEW u, Obeyed(t, <<At("SBA", Addr(it), Null), StartField(it, prot, mdt, fg)>>, u)
  PROVE  Opened(B, t, Addr(it), prot, u)
<1> HIDE DEF Orders, Char, Item, Cell
<1> DEFINE c == IF it.designator = <<>> THEN Null ELSE Detectable
           cell == Attribute(prot, mdt, c, fg)
           o == StartField(it, prot, mdt, fg)
<1>1. c \in B
  BY Bytes
<1>2. o \in Orders(B)
  BY OrdersTyped
<1>3. Stores(o, cell)
  BY FieldsStored, Zenon
<1> HIDE DEF c, o
<1>4. cell \in Cell(B) /\ cell.attr /\ cell.prot = prot
  BY <1>1, AttributeTyped
<1> HIDE DEF cell
<1>5. Obeyed(t, <<At("SBA", Addr(it), Null), o>>, u)
  BY DEF o
<1>6. StoredIn(B, t, Addr(it), cell, u)
  BY <1>2, <1>3, <1>4, <1>5, StoredAt, Zenon
<1> QED
  BY <1>4, <1>6 DEF DataAddr, StoredIn, Opened

\* The cells an item is written to.
Touches(it) ==
  Addr(it) .. Addr(it) + Len(Declared(it)) \cup (IF it.kind = "field" THEN {Ending(it)} ELSE {})

\* An item is in the buffer.
Placed(it, colour, buf) ==
  /\ buf[Addr(it)].attr /\ buf[Addr(it)].prot = (it.kind # "field")
  /\ \A n \in 1 .. Len(Declared(it)) :
       buf[Addr(it) + n] = Character(Declared(it)[n], ColoursOf(it, colour)[n])
  /\ it.kind = "field" => buf[Ending(it)].attr

\* The terminal obeyed the orders of an item.
Drew(B, it, colour, t, u) ==
  /\ u \in State(B) /\ u.fg = NoColour
  /\ u.rejected <=> Overruns(it)
  /\ ~u.rejected =>
       /\ Placed(it, colour, u.buf)
       /\ it.kind = "field" => u.buf[Ending(it)].prot
       /\ \A x \in Cells : x \notin Touches(it) => u.buf[x] = t.buf[x]

\* From t to u the characters were written behind the attribute at a.
Follows(t, u, a, s, q) ==
  /\ \A n \in 1 .. Len(s) : u.buf[a + n] = Character(s[n], q[n])
  /\ \A x \in Cells : x = a \/ x \notin a .. a + Len(s) => u.buf[x] = t.buf[x]

\* What an item writes behind its attribute leaves the rest as it is.
LEMMA Followed ==
  ASSUME NEW B, NEW t, NEW u, NEW a \in Nat, NEW s \in Seq(B), NEW q, a + Len(s) < Size,
         Wrote(B, t, u, a + 1, s, q)
  PROVE  Follows(t, u, a, s, q)
<1> DEFINE N == Len(s)
<1>1. N \in Nat
  OBVIOUS
<1>2. \A x \in Cells : u.buf[x] = IF x \in a + 1 .. a + 1 + N - 1
                                  THEN Character(s[x - (a + 1) + 1], q[x - (a + 1) + 1]) ELSE t.buf[x]
  BY DEF Wrote
<1>3. a + N < Size
  OBVIOUS
<1> HIDE DEF N
<1>4. ASSUME NEW n \in 1 .. N
      PROVE  u.buf[a + n] = Character(s[n], q[n])
  <2>1. a + n \in Cells /\ a + n \in a + 1 .. a + 1 + N - 1 /\ (a + n) - (a + 1) + 1 = n
    BY <1>1, <1>3, Sizes DEF Cells
  <2> QED
    BY <1>2, <2>1
<1>5. ASSUME NEW x \in Cells, x = a \/ x \notin a .. a + N
      PROVE  u.buf[x] = t.buf[x]
  <2>1. x \notin a + 1 .. a + 1 + N - 1
    BY <1>1, <1>5, Sizes DEF Cells
  <2> QED
    BY <1>2, <2>1
<1> QED
  BY <1>4, <1>5 DEF N, Follows

\* A text.
LEMMA TextDrew ==
  ASSUME NEW B, Char \subseteq B, NEW t \in State(B), ~t.rejected, t.fg = NoColour,
         NEW it \in Item(B), NEW colour \in BOOLEAN, it.kind # "field", Rich(it), Fits(it),
         NEW u, Obeyed(t, EmitText(it, colour), u)
  PROVE  Drew(B, it, colour, t, u)
<1> HIDE DEF Orders, Char, Item
<1> DEFINE base == IF colour THEN it.fg ELSE NoColour
           start == <<At("SBA", Addr(it), Null), StartField(it, TRUE, FALSE, base)>>
           a == Addr(it)
           s == Declared(it)
           q == ColoursOf(it, colour)
<1>1. PICK body : Fills(B, body, DataAddr(it), s, q) /\ EmitText(it, colour) = start \o body
  BY TextFills, Zenon
<1>2. a \in Nat /\ it.fg \in Char
  BY ItemFacts, Zenon
<1>3. s \in Seq(B) /\ Len(s) \in Nat
  <2>1. s \in Seq(B)
    BY DeclaredTyped, Zenon
  <2> HIDE DEF s
  <2> QED
    BY <2>1
<1>4. a + Len(s) < Size
  BY DEF Fits
<1>5. a \in Cells /\ base \in Char
  <2>1. a \in Cells
    <3> HIDE DEF a, s
    <3> QED
      BY <1>2, <1>3, <1>4, Sizes DEF Cells
  <2> QED
    BY <1>2, <2>1, Bytes
<1>6. start \in Seq(Orders(B)) /\ body \in Seq(Orders(B))
  <2>1. At("SBA", a, Null) \in Orders(B)
    <3>1. Null \in B
      BY Bytes
    <3> HIDE DEF a
    <3> QED
      BY <1>2, <3>1, OrdersTyped
  <2>2. StartField(it, TRUE, FALSE, base) \in Orders(B)
    <3> HIDE DEF base
    <3> QED
      BY <1>5, OrdersTyped
  <2>3. start \in Seq(Orders(B))
    BY <2>1, <2>2, Pair, Zenon
  <2> QED
    BY <1>1, <2>3, Zenon DEF Fills
<1>7. PICK v : Obeyed(t, start, v) /\ Obeyed(v, body, u)
  <2> HIDE DEF start
  <2> QED
    BY <1>1, <1>6, ObeyedBoth
<1>8. /\ v \in State(B) /\ ~v.rejected /\ v.at = DataAddr(it) % Size /\ v.fg = NoColour
      /\ v.buf[a].attr /\ v.buf[a].prot = TRUE
      /\ \A x \in Cells : x # a => v.buf[x] = t.buf[x]
  <2>1. Opened(B, t, a, TRUE, v)
    <3> HIDE DEF base
    <3>1. Obeyed(t, <<At("SBA", Addr(it), Null), StartField(it, TRUE, FALSE, base)>>, v)
      BY <1>7
    <3> QED
      BY <1>5, <3>1, Started, Zenon
  <2> HIDE DEF a
  <2> QED
    BY <2>1 DEF Opened, DataAddr, a
<1>9. Wrote(B, v, u, DataAddr(it), s, q) /\ u.fg = NoColour
  BY <1>1, <1>7, <1>8, Zenon DEF Fills
<1> HIDE DEF a, s, q, start, base
<1>10. Wrote(B, v, u, a + 1, s, q)
  BY <1>9 DEF DataAddr, a
<1>11. /\ \A n \in 1 .. Len(s) : u.buf[a + n] = Character(s[n], q[n])
       /\ \A x \in Cells : x = a \/ x \notin a .. a + Len(s) => u.buf[x] = v.buf[x]
  <2>1. Follows(v, u, a, s, q)
    BY <1>2, <1>3, <1>4, <1>10, Followed, Zenon
  <2> QED
    BY <2>1, Zenon DEF Follows
<1>12. u \in State(B) /\ ~u.rejected
  BY <1>9 DEF Wrote
<1>13. u.buf[a] = v.buf[a]
  BY <1>5, <1>11
<1>14. Placed(it, colour, u.buf)
  BY <1>8, <1>11, <1>13 DEF Placed, a, s, q
<1>15. ASSUME NEW x \in Cells, x \notin Touches(it)
       PROVE  u.buf[x] = t.buf[x]
  <2>1. x \notin a .. a + Len(s)
    BY <1>15 DEF Touches, a, s
  <2>2. x # a
    BY <1>2, <1>3, <2>1
  <2> QED
    BY <1>8, <1>11, <2>1, <2>2
<1> QED
  BY <1>9, <1>12, <1>14, <1>15, Zenon DEF Drew, Overruns

\* The terminator of a field that ends on the screen.
LEMMA Ended ==
  ASSUME NEW B, Char \subseteq B, NEW t \in State(B), ~t.rejected, NEW a \in Cells,
         NEW u, Obeyed(t, <<At("SBA", a, Null), Terminator>>, u)
  PROVE  Opened(B, t, a, TRUE, u)
<1> HIDE DEF Orders, Char, Cell
<1> DEFINE cell == Attribute(TRUE, FALSE, Null, NoColour)
<1>1. Stores(Terminator, cell)
  BY FieldsStored, Zenon
<1>2. cell \in Cell(B) /\ cell.attr /\ cell.prot = TRUE
  <2>1. Null \in B /\ NoColour \in Char
    BY Bytes
  <2> QED
    BY <2>1, AttributeTyped
<1>3. Terminator \in Orders(B)
  BY OrdersTyped, Zenon
<1> HIDE DEF cell
<1>4. StoredIn(B, t, a, cell, u)
  BY <1>1, <1>2, <1>3, StoredAt, Zenon
<1> QED
  BY <1>2, <1>4 DEF StoredIn, Opened

\* The terminator of a field that ends in the very last cell is rejected, where
\* its address can be coded.
LEMMA EndRejected ==
  ASSUME Size < Addressable, NEW B, NEW t \in State(B), ~t.rejected,
         NEW u, Obeyed(t, <<At("SBA", Size, Null), Terminator>>, u)
  PROVE  u \in State(B) /\ u.rejected /\ u.fg = t.fg
<1> DEFINE v == [t EXCEPT !.rejected = TRUE]
<1>1. Obey(t, At("SBA", Size, Null)) = v
  <2>1. Size \in 0 .. Size /\ Size \notin Cells
    BY Sizes DEF Cells
  <2> QED
    BY <2>1, SetAddress
<1>2. v \in State(B) /\ v.rejected /\ v.fg = t.fg
  BY DEF State
<1>3. u = Obey(Obey(t, At("SBA", Size, Null)), Terminator)
  BY ObeyedTwo, Zenon
<1> HIDE DEF v
<1>4. Obey(v, Terminator) = v
  BY <1>2 DEF Obey
<1> QED
  BY <1>1, <1>2, <1>3, <1>4

\* A field.
LEMMA FieldDrew ==
  ASSUME NEW B, Char \subseteq B, NEW t \in State(B), ~t.rejected, t.fg = NoColour,
         NEW it \in Item(B), NEW colour \in BOOLEAN, it.kind = "field", Fits(it),
         Overruns(it) => Size < Addressable,
         NEW u, Obeyed(t, EmitField(it, colour), u)
  PROVE  Drew(B, it, colour, t, u)
<1> HIDE DEF Orders, Char, Item
<1> DEFINE base == IF colour THEN it.fg ELSE NoColour
           start == <<At("SBA", Addr(it), Null), StartField(it, FALSE, it.mdt, base)>>
           end == <<At("SBA", Ending(it), Null), Terminator>>
           place == IF it.cursor THEN <<At("SBA", DataAddr(it), Null), InsertCursor>> ELSE <<>>
           a == Addr(it)
           s == Declared(it)
           q == ColoursOf(it, colour)
           N == Len(s)
<1>1. a \in Nat /\ it.fg \in Char /\ it.mdt \in BOOLEAN /\ it.cursor \in BOOLEAN
  BY ItemFacts, Zenon
<1>2. s \in Seq(B) /\ N = it.length /\ N \in Nat
  <2>1. s \in Seq(B) /\ N = it.length
    BY DeclaredTyped, Zenon
  <2> HIDE DEF s
  <2> QED
    BY <2>1
<1>3. a + N < Size /\ Ending(it) = a + N + 1 /\ DataAddr(it) = a + 1
  <2>1. Ending(it) = a + 1 + it.length
    BY DEF Ending, DataAddr
  <2>2. a + N < Size
    BY DEF Fits
  <2> HIDE DEF a, s
  <2> QED
    BY <1>1, <1>2, <2>1, <2>2 DEF DataAddr, a
<1>4. a \in Cells /\ base \in Char
  <2>1. a \in Cells
    <3> HIDE DEF a, N
    <3> QED
      BY <1>1, <1>2, <1>3, Sizes DEF Cells
  <2> QED
    BY <1>1, <2>1, Bytes
<1>5. EmitField(it, colour) = ((start \o Puts(s)) \o end) \o place
  BY DEF EmitField, Declared, Ending
<1>6. /\ start \in Seq(Orders(B)) /\ Puts(s) \in Seq(Orders(B)) /\ end \in Seq(Orders(B))
      /\ place \in Seq(Orders(B))
  <2>1. \A x \in Int : At("SBA", x, Null) \in Orders(B)
    BY Bytes, OrdersTyped
  <2>2. At("SBA", Addr(it), Null) \in Orders(B)
    BY <1>1, <2>1
  <2>3. At("SBA", DataAddr(it), Null) \in Orders(B) /\ At("SBA", Ending(it), Null) \in Orders(B)
    <3> HIDE DEF a, N
    <3>1. DataAddr(it) \in Int /\ Ending(it) \in Int
      BY <1>1, <1>2, <1>3
    <3> QED
      BY <2>1, <3>1, Zenon
  <2>4. StartField(it, FALSE, it.mdt, base) \in Orders(B) /\ Terminator \in Orders(B)
        /\ InsertCursor \in Orders(B)
    <3> HIDE DEF base
    <3> QED
      BY <1>1, <1>4, OrdersTyped
  <2>5. Puts(s) \in Seq(Orders(B))
    <3> HIDE DEF s
    <3> QED
      BY <1>2, PutsTyped
  <2>6. start \in Seq(Orders(B)) /\ end \in Seq(Orders(B))
    BY <2>2, <2>3, <2>4, Pair, Zenon
  <2>7. <<At("SBA", DataAddr(it), Null), InsertCursor>> \in Seq(Orders(B))
    BY <2>3, <2>4, Pair, Zenon
  <2>8. place \in Seq(Orders(B))
    <3> DEFINE two == <<At("SBA", DataAddr(it), Null), InsertCursor>>
    <3>1. two \in Seq(Orders(B))
      BY <2>7
    <3> HIDE DEF two
    <3>2. (IF it.cursor THEN two ELSE <<>>) \in Seq(Orders(B))
      BY <3>1
    <3> QED
      BY <3>2 DEF two
  <2> QED
    BY <2>5, <2>6, <2>8
<1> HIDE DEF start, end, place
<1>7. PICK w : Obeyed(t, (start \o Puts(s)) \o end, w) /\ Obeyed(w, place, u)
  <2>1. (start \o Puts(s)) \o end \in Seq(Orders(B))
    BY <1>6, Joined, Zenon
  <2>2. Obeyed(t, ((start \o Puts(s)) \o end) \o place, u)
    BY <1>5
  <2> QED
    BY <1>6, <2>1, <2>2, ObeyedBoth, Zenon
<1>8. PICK y : Obeyed(t, start \o Puts(s), y) /\ Obeyed(y, end, w)
  <2>1. start \o Puts(s) \in Seq(Orders(B))
    BY <1>6, Joined, Zenon
  <2> QED
    BY <1>6, <1>7, <2>1, ObeyedBoth, Zenon
<1>9. PICK v : Obeyed(t, start, v) /\ Obeyed(v, Puts(s), y)
  BY <1>6, <1>8, ObeyedBoth, Zenon
<1>10. /\ v \in State(B) /\ ~v.rejected /\ v.at = (a + 1) % Size /\ v.fg = NoColour
       /\ v.buf[a].attr /\ v.buf[a].prot = FALSE
       /\ \A x \in Cells : x # a => v.buf[x] = t.buf[x]
  <2>1. Opened(B, t, a, FALSE, v)
    <3> HIDE DEF base
    <3>1. Obeyed(t, <<At("SBA", Addr(it), Null), StartField(it, FALSE, it.mdt, base)>>, v)
      BY <1>9 DEF start
    <3> QED
      BY <1>1, <1>4, <3>1, Started, Zenon
  <2> HIDE DEF a
  <2> QED
    BY <2>1 DEF Opened
<1>11. Wrote(B, v, y, a + 1, s, q) /\ y.fg = NoColour
  <2>1. Tinted(q, Len(s), NoColour)
    BY <1>2, NotTinted, Zenon
  <2> HIDE DEF a, q, N
  <2>2. a + 1 \in Nat /\ (a + 1) + Len(s) <= Size
    <3> HIDE DEF s
    <3> QED
      BY <1>1, <1>2, <1>3, Sizes DEF N
  <2> HIDE DEF s
  <2>3. Fills(B, Puts(s), a + 1, s, q)
    BY <1>2, <2>1, <2>2, PutsFill, Zenon
  <2> QED
    BY <1>9, <1>10, <2>3, Zenon DEF Fills
<1>12. /\ \A n \in 1 .. N : y.buf[a + n] = Character(s[n], q[n])
       /\ \A x \in Cells : x = a \/ x \notin a .. a + N => y.buf[x] = v.buf[x]
  <2> HIDE DEF a, q, s
  <2>1. Follows(v, y, a, s, q)
    BY <1>1, <1>2, <1>3, <1>11, Followed, Zenon
  <2> QED
    BY <2>1, Zenon DEF Follows
<1>13. y \in State(B) /\ ~y.rejected
  BY <1>11 DEF Wrote
<1> HIDE DEF a, s, q, N
<1>14. CASE Ending(it) >= Size
  <2>1. Ending(it) = Size
    BY <1>1, <1>2, <1>3, <1>14, Sizes
  <2>2. w \in State(B) /\ w.rejected /\ w.fg = y.fg
    <3>1. Obeyed(y, <<At("SBA", Size, Null), Terminator>>, w)
      BY <1>8, <2>1 DEF end
    <3>2. Size < Addressable
      BY <1>14 DEF Overruns
    <3> QED
      BY <1>13, <3>1, <3>2, EndRejected, Zenon
  <2>3. u = w
    BY <1>6, <1>7, <2>2, ObeyedRejected, Zenon
  <2> QED
    BY <1>11, <1>14, <2>2, <2>3 DEF Drew, Overruns
<1>15. CASE ~ (Ending(it) >= Size)
  <2>1. Ending(it) \in Cells
    BY <1>1, <1>2, <1>3, <1>15, Sizes DEF Cells
  <2>2. Opened(B, y, Ending(it), TRUE, w)
    BY <1>8, <1>13, <2>1, Ended, Zenon DEF end
  <2>3. /\ w \in State(B) /\ ~w.rejected /\ w.fg = NoColour
        /\ w.buf[Ending(it)].attr /\ w.buf[Ending(it)].prot
        /\ \A x \in Cells : x # Ending(it) => w.buf[x] = y.buf[x]
    BY <1>11, <2>2, Zenon DEF Opened
  <2>4. u \in State(B) /\ ~u.rejected /\ u.fg = NoColour /\ u.buf = w.buf
    <3>1. CASE it.cursor
      <4>1. DataAddr(it) \in Cells
        BY <1>1, <1>2, <1>3, <2>1, Sizes DEF Cells
      <4>2. Obeyed(w, <<At("SBA", DataAddr(it), Null), InsertCursor>>, u)
        BY <1>7, <3>1 DEF place
      <4>3. u \in State(B) /\ ~u.rejected /\ u.fg = w.fg /\ u.buf = w.buf /\ u.cursor = DataAddr(it)
        <5> DEFINE d == DataAddr(it)
        <5>1. d \in Cells /\ Obeyed(w, <<At("SBA", d, Null), InsertCursor>>, u)
          BY <4>1, <4>2
        <5> HIDE DEF d
        <5>2. w \in State(B) /\ ~w.rejected
          BY <2>3
        <5>3. u \in State(B) /\ ~u.rejected /\ u.fg = w.fg /\ u.buf = w.buf /\ u.cursor = d
          BY <5>1, <5>2, CursorPut
        <5> QED
          BY <5>3 DEF d
      <4> QED
        BY <2>3, <4>3
    <3>2. CASE ~it.cursor
      <4>1. Obeyed(w, <<>>, u)
        BY <1>7, <3>2 DEF place
      <4> QED
        BY <2>3, <4>1, ObeyedNone
    <3> QED
      BY <3>1, <3>2
  <2>5. \A n \in 0 .. N : a + n \in Cells /\ a + n # Ending(it)
    BY <1>1, <1>2, <1>3, Sizes DEF Cells
  <2>6. \A n \in 1 .. N : u.buf[a + n] = Character(s[n], q[n])
    <3>1. \A n \in 1 .. N : a + n \in Cells /\ a + n # Ending(it)
      BY <1>2, <2>5
    <3> QED
      BY <1>12, <2>3, <2>4, <3>1
  <2>7. u.buf[a].attr /\ u.buf[a].prot = FALSE
    <3>1. a # Ending(it)
      BY <1>1, <1>2, <1>3
    <3>2. u.buf[a] = v.buf[a]
      BY <1>4, <1>12, <2>3, <2>4, <3>1
    <3> QED
      BY <1>10, <3>2
  <2>8. Placed(it, colour, u.buf)
    <3>1. u.buf[Addr(it)].attr /\ u.buf[Addr(it)].prot = (it.kind # "field")
      BY <2>7 DEF a
    <3>2. \A n \in 1 .. Len(Declared(it)) :
            u.buf[Addr(it) + n] = Character(Declared(it)[n], ColoursOf(it, colour)[n])
      BY <2>6, Zenon DEF a, s, q, N
    <3>3. u.buf[Ending(it)].attr
      BY <2>3, <2>4
    <3> QED
      BY <3>1, <3>2, <3>3, Zenon DEF Placed
  <2>9. ASSUME NEW x \in Cells, x \notin Touches(it)
        PROVE  u.buf[x] = t.buf[x]
    <3>1. x \notin a .. a + N /\ x # Ending(it)
      BY <2>9 DEF Touches, a, s, N
    <3>2. x # a
      BY <1>1, <1>2, <3>1
    <3> QED
      BY <1>10, <1>12, <2>3, <2>4, <3>1, <3>2
  <2> QED
    BY <1>15, <2>3, <2>4, <2>8, <2>9, Zenon DEF Drew, Overruns
<1> QED
  BY <1>14, <1>15

\* An item.
LEMMA ItemDrew ==
  ASSUME NEW B, Char \subseteq B, NEW t \in State(B), ~t.rejected, t.fg = NoColour,
         NEW it \in Item(B), NEW colour \in BOOLEAN, Rich(it), Fits(it),
         Overruns(it) => Size < Addressable,
         NEW u, Obeyed(t, Emit(it, colour), u)
  PROVE  Drew(B, it, colour, t, u)
<1>1. CASE it.kind = "field"
  BY <1>1, FieldDrew DEF Emit
<1>2. CASE it.kind # "field"
  BY <1>2, TextDrew DEF Emit
<1> QED
  BY <1>1, <1>2

-----------------------------------------------------------------------------
(* A full screen.                                                          *)

\* The first k items of a panel are in the buffer.
Seen(items, colour, k, buf) ==
  \A j \in 1 .. k : OnPanel(items[j]) => Placed(items[j], colour, buf)

\* The user can type behind the attributes of their fields at most.
Guarded(items, k, buf) ==
  \A x \in Cells : buf[x].attr =>
    buf[x].prot \/ \E j \in 1 .. k : OnPanel(items[j]) /\ items[j].kind = "field" /\ x = Addr(items[j])

\* One of them runs over the end.
Overran(items, k) == \E j \in 1 .. k : OnPanel(items[j]) /\ Overruns(items[j])

\* The cells of an item that fits.
LEMMA ItemCells ==
  ASSUME NEW B, Char \subseteq B, NEW it \in Item(B), Fits(it)
  PROVE  /\ Addr(it) \in Cells /\ Len(Declared(it)) \in Nat
         /\ \A n \in 1 .. Len(Declared(it)) : Addr(it) + n \in Cells
         /\ it.kind = "field" =>
              /\ Ending(it) = Addr(it) + Len(Declared(it)) + 1
              /\ ~Overruns(it) => Ending(it) \in Cells
<1> HIDE DEF Char, Item
<1> DEFINE a == Addr(it)
           s == Declared(it)
           N == Len(s)
<1>1. a \in Nat
  BY ItemFacts, Zenon
<1>2. s \in Seq(B) /\ (it.kind = "field" => N = it.length)
  BY DeclaredTyped, Zenon
<1>3. a + N < Size
  BY DEF Fits
<1>4. N \in Nat
  <2> HIDE DEF s
  <2> QED
    BY <1>2
<1>5. it.kind = "field" => Ending(it) = a + N + 1
  <2> HIDE DEF N
  <2>1. Ending(it) = a + 1 + it.length
    BY DEF Ending, DataAddr
  <2> HIDE DEF a
  <2> QED
    BY <1>1, <1>2, <1>4, <2>1
<1> HIDE DEF a, N
<1>6. a \in Cells /\ \A n \in 1 .. N : a + n \in Cells
  BY <1>1, <1>3, <1>4, Sizes DEF Cells
<1>7. it.kind = "field" /\ ~Overruns(it) => Ending(it) \in Cells
  BY <1>1, <1>4, <1>5, Sizes DEF Cells, Overruns
<1> QED
  BY <1>4, <1>5, <1>6, <1>7 DEF a, N

\* What is placed stays when the next item is.
LEMMA PlacedStays ==
  ASSUME NEW B, Char \subseteq B, NEW it \in Item(B), Fits(it), ~Overruns(it),
         NEW next \in Item(B), Fits(next), Apart(it, next),
         NEW colour, NEW t, NEW u, Placed(it, colour, t.buf), Drew(B, next, colour, t, u), ~u.rejected
  PROVE  Placed(it, colour, u.buf)
<1> HIDE DEF Char, Item
<1> DEFINE a == Addr(it)
           s == Declared(it)
           N == Len(s)
           q == ColoursOf(it, colour)
           b == Addr(next)
           M == Len(Declared(next))
<1>1. /\ a \in Cells /\ N \in Nat /\ \A n \in 1 .. N : a + n \in Cells
      /\ it.kind = "field" => Ending(it) = a + N + 1 /\ Ending(it) \in Cells
  BY ItemCells, Zenon
<1>2. /\ b \in Cells /\ M \in Nat
      /\ next.kind = "field" => Ending(next) = b + M + 1
  BY ItemCells, Zenon
<1>3. /\ \A x \in a .. a + N : x \notin b .. b + M
      /\ it.kind = "field" => Ending(it) \notin b .. b + M \/ Ending(it) = b
      /\ next.kind = "field" =>
           Ending(next) \notin a .. a + N \/ (it.kind # "field" /\ Ending(next) = a)
  BY DEF Apart, Occupied
<1>4. /\ t.buf[a].attr /\ t.buf[a].prot = (it.kind # "field")
      /\ \A n \in 1 .. N : t.buf[a + n] = Character(s[n], q[n])
      /\ it.kind = "field" => t.buf[Ending(it)].attr
  BY Zenon DEF Placed
<1>5. /\ u.buf[b].attr
      /\ next.kind = "field" => u.buf[Ending(next)].attr /\ u.buf[Ending(next)].prot
      /\ \A x \in Cells : x \notin Touches(next) => u.buf[x] = t.buf[x]
  BY Zenon DEF Drew, Placed
<1> HIDE DEF a, s, N, q, b, M
<1>6. \A x : x \in Touches(next) <=> x \in b .. b + M \/ (next.kind = "field" /\ x = Ending(next))
  BY DEF Touches, b, M
<1>7. ASSUME NEW x \in Cells, x \notin b .. b + M, next.kind = "field" => x # Ending(next)
      PROVE  u.buf[x] = t.buf[x]
  BY <1>5, <1>6, <1>7
<1>8. a \in Nat /\ b \in Nat /\ a \in a .. a + N
  BY <1>1, <1>2, Sizes DEF Cells
<1>9. u.buf[a].attr /\ u.buf[a].prot = (it.kind # "field")
  <2>1. a \notin b .. b + M
    BY <1>3, <1>8
  <2>2. CASE next.kind = "field" /\ a = Ending(next)
    <3>1. it.kind # "field"
      BY <1>3, <1>8, <2>2
    <3>2. u.buf[a].prot = TRUE
      <4>1. u.buf[a] \in Cell(B)
        BY <1>1 DEF Drew, State
      <4> QED
        BY <1>5, <2>2, <4>1 DEF Cell
    <3> QED
      BY <1>5, <2>2, <3>1, <3>2
  <2>3. CASE next.kind = "field" => a # Ending(next)
    BY <1>1, <1>4, <1>7, <2>1, <2>3
  <2> QED
    BY <2>2, <2>3
<1>10. ASSUME NEW n \in 1 .. N
       PROVE  u.buf[a + n] = Character(s[n], q[n])
  <2>1. a + n \in a .. a + N /\ a + n # a /\ a + n \in Cells
    BY <1>1, <1>8
  <2>2. a + n \notin b .. b + M
    BY <1>3, <2>1
  <2>3. next.kind = "field" => a + n # Ending(next)
    BY <1>3, <2>1
  <2> QED
    BY <1>4, <1>7, <2>1, <2>2, <2>3
<1>11. ASSUME it.kind = "field"
       PROVE  u.buf[Ending(it)].attr
  <2>1. Ending(it) \in Cells
    BY <1>1, <1>11
  <2>2. CASE Ending(it) = b
    BY <1>5, <2>2
  <2>3. CASE next.kind = "field" /\ Ending(it) = Ending(next)
    BY <1>5, <2>3
  <2>4. CASE Ending(it) # b /\ (next.kind = "field" => Ending(it) # Ending(next))
    <3>1. Ending(it) \notin b .. b + M
      BY <1>3, <1>11, <2>4
    <3> QED
      BY <1>4, <1>7, <1>11, <2>1, <2>4, <3>1
  <2> QED
    BY <2>2, <2>3, <2>4
<1> QED
  BY <1>9, <1>10, <1>11, Zenon DEF Placed, a, s, N, q

\* No attribute becomes one the user can type behind but that of a field.
LEMMA GuardedStays ==
  ASSUME NEW B, Char \subseteq B, NEW items, NEW k \in Nat, items[k + 1] \in Item(B),
         OnPanel(items[k + 1]), Fits(items[k + 1]), NEW colour, NEW t, NEW u,
         Guarded(items, k, t.buf), Drew(B, items[k + 1], colour, t, u), ~u.rejected
  PROVE  Guarded(items, k + 1, u.buf)
<1> HIDE DEF Char, Item
<1> DEFINE it == items[k + 1]
           a == Addr(it)
           s == Declared(it)
           N == Len(s)
           q == ColoursOf(it, colour)
<1>1. a \in Cells /\ N \in Nat
  BY ItemCells, Zenon
<1>2. /\ u.buf[a].prot = (it.kind # "field")
      /\ \A n \in 1 .. N : u.buf[a + n] = Character(s[n], q[n])
      /\ it.kind = "field" => u.buf[Ending(it)].prot
      /\ \A x \in Cells : x \notin Touches(it) => u.buf[x] = t.buf[x]
  BY Zenon DEF Drew, Placed
<1>3. \A x : x \in Touches(it) <=> x \in a .. a + N \/ (it.kind = "field" /\ x = Ending(it))
  BY DEF Touches
<1>4. OnPanel(it)
  OBVIOUS
<1>5. \A x \in Cells : t.buf[x].attr =>
        t.buf[x].prot \/ \E j \in 1 .. k : OnPanel(items[j]) /\ items[j].kind = "field" /\ x = Addr(items[j])
  BY Zenon DEF Guarded
<1>6. k + 1 \in 1 .. k + 1 /\ \A j \in 1 .. k : j \in 1 .. k + 1
  OBVIOUS
<1> HIDE DEF it, s, N, q
<1>7. \A c, fg : Character(c, fg).attr = FALSE
  BY DEF Character, EmptyCell
<1>8. ASSUME NEW x \in Cells, u.buf[x].attr, ~u.buf[x].prot
      PROVE  \E j \in 1 .. k + 1 : OnPanel(items[j]) /\ items[j].kind = "field" /\ x = Addr(items[j])
  <2>1. CASE x = a
    <3>1. it.kind = "field"
      BY <1>2, <1>8, <2>1
    <3> QED
      BY <1>4, <1>6, <2>1, <3>1 DEF it
  <2>2. CASE x \in a .. a + N /\ x # a
    <3> HIDE DEF a
    <3>1. x - a \in 1 .. N /\ a + (x - a) = x
      BY <1>1, <2>2, Sizes DEF Cells
    <3>2. u.buf[x] = Character(s[x - a], q[x - a])
      BY <1>2, <3>1
    <3> QED
      BY <1>7, <1>8, <3>2
  <2>3. CASE it.kind = "field" /\ x = Ending(it)
    BY <1>2, <1>8, <2>3
  <2>4. CASE x \notin Touches(it)
    <3>1. u.buf[x] = t.buf[x]
      BY <1>2, <2>4
    <3>2. \E j \in 1 .. k : OnPanel(items[j]) /\ items[j].kind = "field" /\ x = Addr(items[j])
      BY <1>5, <1>8, <3>1
    <3> QED
      BY <1>6, <3>2
  <2> QED
    BY <1>3, <2>1, <2>2, <2>3, <2>4
<1> QED
  BY <1>8, Zenon DEF Guarded

\* The orders of the first k items led to u.
Panelled(B, items, colour, k, u) ==
  /\ u \in State(B) /\ u.fg = NoColour
  /\ u.rejected <=> Overran(items, k)
  /\ ~u.rejected => Seen(items, colour, k, u.buf) /\ Guarded(items, k, u.buf)

\* The orders of an item, if it is on the panel.
Part(it, colour) == IF OnPanel(it) THEN Emit(it, colour) ELSE <<>>

\* Items on the panel are laid out, and no address of theirs raises.
Laid(items) ==
  /\ \A i \in DOMAIN items : OnPanel(items[i]) /\ Overruns(items[i]) => Size < Addressable
  /\ \A i \in DOMAIN items : OnPanel(items[i]) => Rich(items[i]) /\ Fits(items[i])
  /\ \A i, j \in DOMAIN items :
       i < j /\ OnPanel(items[i]) /\ OnPanel(items[j]) => Apart(items[i], items[j])

\* One more item.
LEMMA PanelledOn ==
  ASSUME NEW B, Char \subseteq B, NEW items \in Seq(Item(B)), Laid(items), NEW colour \in BOOLEAN,
         NEW k \in Nat, k + 1 <= Len(items), NEW t, Panelled(B, items, colour, k, t),
         NEW u, Obeyed(t, Part(items[k + 1], colour), u)
  PROVE  Panelled(B, items, colour, k + 1, u)
<1> HIDE DEF Char, Item, Orders
<1> DEFINE it == items[k + 1]
           N == Len(items)
<1>1. N \in Nat /\ DOMAIN items = 1 .. N /\ k + 1 \in 1 .. N /\ it \in Item(B)
  OBVIOUS
<1>2. /\ t \in State(B) /\ t.fg = NoColour
      /\ t.rejected <=> Overran(items, k)
      /\ ~t.rejected => Seen(items, colour, k, t.buf) /\ Guarded(items, k, t.buf)
  BY Zenon DEF Panelled
<1>3. \A j : j \in 1 .. k + 1 <=> j \in 1 .. k \/ j = k + 1
  OBVIOUS
<1>4. \A j \in 1 .. k : j \in 1 .. N /\ j < k + 1
  BY <1>1
<1>5. Overran(items, k + 1) <=> Overran(items, k) \/ (OnPanel(it) /\ Overruns(it))
  BY <1>3 DEF Overran
<1>6. OnPanel(it) => Rich(it) /\ Fits(it) /\ (Overruns(it) => Size < Addressable)
  BY <1>1 DEF Laid
<1> HIDE DEF it, N
<1>7. CASE t.rejected
  <2>1. Part(it, colour) \in Seq(Orders(B))
    <3>1. Emit(it, colour) \in Seq(Orders(B))
      BY <1>1, EmitTyped, Zenon
    <3> QED
      BY <3>1 DEF Part
  <2>2. u = t
    BY <1>7, <2>1, ObeyedRejected, Zenon DEF it
  <2> QED
    BY <1>2, <1>5, <1>7, <2>2, Zenon DEF Panelled
<1>8. CASE ~t.rejected /\ ~OnPanel(it)
  <2>1. Obeyed(t, <<>>, u)
    BY <1>8 DEF Part, it
  <2>2. u = t
    BY <2>1, ObeyedNone, Zenon
  <2>3. Seen(items, colour, k + 1, u.buf)
    BY <1>2, <1>3, <1>8, <2>2 DEF Seen, it
  <2>4. Guarded(items, k + 1, u.buf)
    BY <1>2, <1>3, <1>8, <2>2 DEF Guarded
  <2> QED
    BY <1>2, <1>5, <1>8, <2>2, <2>3, <2>4, Zenon DEF Panelled
<1>9. CASE ~t.rejected /\ OnPanel(it)
  <2>1. Obeyed(t, Emit(it, colour), u)
    BY <1>9 DEF Part, it
  <2>2. Drew(B, it, colour, t, u)
    BY <1>1, <1>2, <1>6, <1>9, <2>1, ItemDrew, Zenon
  <2>3. u \in State(B) /\ u.fg = NoColour /\ (u.rejected <=> Overruns(it))
    BY <2>2, Zenon DEF Drew
  <2>4. u.rejected <=> Overran(items, k + 1)
    BY <1>2, <1>5, <1>9, <2>3, Zenon
  <2>5. ASSUME ~u.rejected
        PROVE  Seen(items, colour, k + 1, u.buf) /\ Guarded(items, k + 1, u.buf)
    <3>1. Guarded(items, k + 1, u.buf)
      <4>1. items[k + 1] \in Item(B) /\ OnPanel(items[k + 1]) /\ Fits(items[k + 1])
            /\ Drew(B, items[k + 1], colour, t, u)
        BY <1>1, <1>6, <1>9, <2>2 DEF it
      <4> QED
        BY <1>2, <1>9, <2>5, <4>1, GuardedStays, Zenon
    <3>2. ASSUME NEW j \in 1 .. k, OnPanel(items[j])
          PROVE  Placed(items[j], colour, u.buf)
      <4>1. items[j] \in Item(B)
        BY <1>1, <1>4 DEF N
      <4>2. Fits(items[j]) /\ Apart(items[j], it)
        BY <1>1, <1>4, <1>9, <3>2 DEF Laid, it
      <4>3. Placed(items[j], colour, t.buf)
        BY <1>2, <1>9, <3>2, Zenon DEF Seen
      <4>4. ~Overruns(items[j])
        BY <1>2, <1>9, <3>2, Zenon DEF Overran
      <4> QED
        BY <1>1, <1>6, <1>9, <2>2, <2>5, <4>1, <4>2, <4>3, <4>4, PlacedStays, Zenon
    <3>3. Placed(it, colour, u.buf)
      BY <2>2, <2>5, Zenon DEF Drew
    <3>4. Seen(items, colour, k + 1, u.buf)
      BY <1>3, <3>2, <3>3 DEF Seen, it
    <3> QED
      BY <3>1, <3>4
  <2> QED
    BY <2>3, <2>4, <2>5, Zenon DEF Panelled
<1> QED
  BY <1>7, <1>8, <1>9

\* All items.
LEMMA RenderDrew ==
  ASSUME NEW B, Char \subseteq B, NEW p \in Screen(B), Laid(p.items), NEW colour \in BOOLEAN,
         NEW t \in State(B), ~t.rejected, t.fg = NoColour, \A x \in Cells : ~t.buf[x].attr,
         NEW u, Obeyed(t, Render(p, colour).orders, u)
  PROVE  Panelled(B, p.items, colour, Len(p.items), u)
<1> HIDE DEF Char, Item, Orders
<1> DEFINE items == p.items
           N == Len(items)
           O == [i \in DOMAIN items |-> Part(items[i], colour)]
<1>1. Render(p, colour).orders = Concat(O)
  BY DEF Render, Part
<1>2. items \in Seq(Item(B))
  BY DEF Screen
<1> HIDE DEF items
<1>3. N \in Nat /\ DOMAIN items = 1 .. N /\ \A i \in 1 .. N : items[i] \in Item(B)
  BY <1>2
<1>4. O \in Seq(Seq(Orders(B))) /\ Len(O) = N /\ \A i \in 1 .. N : O[i] = Part(items[i], colour)
  <2>1. ASSUME NEW i \in 1 .. N
        PROVE  Part(items[i], colour) \in Seq(Orders(B))
    <3>1. Emit(items[i], colour) \in Seq(Orders(B))
      BY <1>3, EmitTyped
    <3> QED
      BY <3>1 DEF Part
  <2> QED
    BY <1>3, <2>1
<1> HIDE DEF O, N
<1>5. PICK from : Behind(Orders(B), O, from)
  BY <1>4, ConcatBehind, Zenon
<1>6. /\ Concat(O) = from[1] /\ from[N + 1] = <<>>
      /\ \A i \in 1 .. N : from[i] = O[i] \o from[i + 1]
      /\ \A i \in 1 .. N + 1 : from[i] \in Seq(Orders(B))
  BY <1>4, <1>5, Zenon DEF Behind
<1> DEFINE T == {k \in 0 .. N : \E w : Panelled(B, items, colour, k, w) /\ Obeyed(w, from[k + 1], u)}
<1>7. 0 \in T
  <2>1. 0 \in 0 .. N /\ 0 + 1 = 1 /\ \A j : j \notin 1 .. 0
    BY <1>3
  <2>2. Obeyed(t, from[0 + 1], u)
    BY <1>1, <1>6, <2>1
  <2>3. Panelled(B, items, colour, 0, t)
    BY <2>1 DEF Panelled, Overran, Seen, Guarded
  <2> QED
    BY <2>1, <2>2, <2>3
<1>8. ASSUME NEW k \in 1 .. N, k - 1 \in T
      PROVE  k \in T
  <2>1. k \in 0 .. N /\ k - 1 \in Nat /\ (k - 1) + 1 = k /\ k + 1 \in 1 .. N + 1
    BY <1>3
  <2>2. PICK w : Panelled(B, items, colour, k - 1, w) /\ Obeyed(w, from[k], u)
    BY <1>8, <2>1
  <2>3. from[k] = Part(items[k], colour) \o from[k + 1]
    BY <1>4, <1>6
  <2>4. Part(items[k], colour) \in Seq(Orders(B)) /\ from[k + 1] \in Seq(Orders(B))
    <3>1. O[k] \in Seq(Orders(B))
      BY <1>4
    <3> QED
      BY <1>4, <1>6, <2>1, <3>1
  <2>5. PICK v : Obeyed(w, Part(items[k], colour), v) /\ Obeyed(v, from[k + 1], u)
    BY <2>2, <2>3, <2>4, ObeyedBoth, Zenon
  <2>6. Panelled(B, items, colour, k, v)
    <3> DEFINE m == k - 1
    <3>1. m \in Nat /\ m + 1 = k /\ m + 1 <= Len(items) /\ Panelled(B, items, colour, m, w)
      BY <1>3, <2>1, <2>2 DEF N
    <3> HIDE DEF m
    <3>2. Obeyed(w, Part(items[m + 1], colour), v)
      BY <2>5, <3>1
    <3>3. Laid(items)
      BY DEF items
    <3>4. Panelled(B, items, colour, m + 1, v)
      BY <1>2, <3>1, <3>2, <3>3, PanelledOn, Zenon
    <3> QED
      BY <3>1, <3>4
  <2> QED
    BY <2>1, <2>5, <2>6
<1>9. N \in T
  <2>1. 0 .. N \subseteq T
    <3> HIDE DEF T
    <3> QED
      BY <1>3, <1>7, <1>8, Induct
  <2> QED
    BY <1>3, <2>1
<1>10. PICK w : Panelled(B, items, colour, N, w) /\ Obeyed(w, <<>>, u)
  BY <1>6, <1>9
<1>11. u = w
  BY <1>10, ObeyedNone, Zenon
<1> QED
  BY <1>10, <1>11 DEF N, items

\* The user can type into the length of a field.
LEMMA FieldData ==
  ASSUME NEW B, Char \subseteq B, NEW it \in Item(B), Fits(it), it.kind = "field", ~Overruns(it),
         NEW colour, NEW buf, Placed(it, colour, buf)
  PROVE  Members(Data(buf, Addr(it))) = DataAddr(it) .. Addr(it) + it.length
<1> HIDE DEF Char, Item
<1> DEFINE a == Addr(it)
           s == Declared(it)
           N == Len(s)
           q == ColoursOf(it, colour)
<1>1. /\ a \in Cells /\ N \in Nat /\ \A n \in 1 .. N : a + n \in Cells
      /\ Ending(it) = a + N + 1 /\ Ending(it) \in Cells
  BY ItemCells, Zenon
<1>2. it.length = N
  BY DeclaredTyped, Zenon
<1>3. /\ buf[a].attr /\ buf[a + N + 1].attr
      /\ \A n \in 1 .. N : buf[a + n] = Character(s[n], q[n])
  BY <1>1 DEF Placed
<1> HIDE DEF a, s, N, q
<1>4. \A n \in 1 .. N : ~buf[a + n].attr
  BY <1>3 DEF Character, EmptyCell
<1>5. a \in Nat /\ a + N + 1 < Size /\ Size \in Nat
  BY <1>1, Sizes DEF Cells
<1>6. \A n \in 1 .. N + 1 : a + n \in Nat /\ a + n < Size
  BY <1>1, <1>5
<1>7. \A n \in 1 .. N + 1 : (a + n) % Size = a + n
  BY <1>6, Wrapped
<1>8. PICK m \in 1 .. Size :
        /\ buf[(a + m) % Size].attr
        /\ \A n \in 1 .. m - 1 : ~buf[(a + n) % Size].attr
        /\ Data(buf, a) = [k \in 1 .. m - 1 |-> (a + k) % Size]
  BY <1>1, <1>3, DataIs
<1>9. m = N + 1
  <2>1. ~ (m < N + 1)
    <3>1. SUFFICES ASSUME m < N + 1
                   PROVE  FALSE
      OBVIOUS
    <3>2. m \in 1 .. N /\ m \in 1 .. N + 1
      BY <1>1, <3>1
    <3>3. (a + m) % Size = a + m
      BY <1>7, <3>2
    <3>4. buf[(a + m) % Size].attr
      BY <1>8
    <3>5. ~buf[a + m].attr
      BY <1>4, <3>2
    <3> QED
      BY <3>3, <3>4, <3>5
  <2>2. ~ (N + 1 < m)
    <3>1. SUFFICES ASSUME N + 1 < m
                   PROVE  FALSE
      OBVIOUS
    <3>2. N + 1 \in 1 .. m - 1 /\ N + 1 \in 1 .. N + 1 /\ a + (N + 1) = a + N + 1
      BY <1>1, <1>5, <3>1
    <3> QED
      BY <1>3, <1>7, <1>8, <3>2
  <2> QED
    BY <1>1, <2>1, <2>2
<1> DEFINE d == Data(buf, a)
<1>10. DOMAIN d = 1 .. N /\ \A k \in 1 .. N : d[k] = a + k
  <2>1. m - 1 = N
    BY <1>1, <1>9
  <2>2. d = [k \in 1 .. N |-> (a + k) % Size]
    BY <1>8, <2>1
  <2> QED
    BY <1>1, <1>7, <2>2
<1> HIDE DEF d
<1>11. Members(d) = {a + k : k \in 1 .. N}
  BY <1>10 DEF Members
<1>12. {a + k : k \in 1 .. N} = a + 1 .. a + N
  <2>1. ASSUME NEW x \in a + 1 .. a + N
        PROVE  \E k \in 1 .. N : x = a + k
    <3>1. x - a \in 1 .. N /\ x = a + (x - a)
      BY <1>1, <1>5
    <3> QED
      BY <3>1
  <2>2. \A k \in 1 .. N : a + k \in a + 1 .. a + N
    BY <1>1, <1>5
  <2> QED
    BY <2>1, <2>2
<1>13. DataAddr(it) = a + 1 /\ Addr(it) + it.length = a + N
  BY <1>2 DEF DataAddr, a
<1> QED
  BY <1>11, <1>12, <1>13 DEF d, a

\* The user can type into the fields and nothing else.
LEMMA InputsAre ==
  ASSUME NEW B, Char \subseteq B, NEW items \in Seq(Item(B)), Laid(items), NEW colour,
         NEW k, k = Len(items), ~Overran(items, k), NEW buf,
         Seen(items, colour, k, buf), Guarded(items, k, buf),
         \E i \in DOMAIN items : OnPanel(items[i])
  PROVE  InputCells(buf) =
           UNION {DataAddr(items[i]) .. Addr(items[i]) + items[i].length :
                    i \in {j \in DOMAIN items : items[j].kind = "field" /\ OnPanel(items[j])}}
<1> HIDE DEF Char, Item
<1>1. k \in Nat /\ DOMAIN items = 1 .. k /\ \A i \in 1 .. k : items[i] \in Item(B)
  OBVIOUS
<1> DEFINE F == {j \in DOMAIN items : items[j].kind = "field" /\ OnPanel(items[j])}
           open == {y \in Attributes(buf) : ~buf[y].prot}
<1>2. ASSUME NEW i \in 1 .. k, OnPanel(items[i])
      PROVE  /\ items[i] \in Item(B) /\ Fits(items[i]) /\ ~Overruns(items[i])
             /\ Placed(items[i], colour, buf)
  <2>1. items[i] \in Item(B) /\ Fits(items[i])
    BY <1>1, <1>2 DEF Laid
  <2>2. ~Overruns(items[i])
    BY <1>2, Zenon DEF Overran
  <2>3. Placed(items[i], colour, buf)
    BY <1>2, Zenon DEF Seen
  <2> QED
    BY <2>1, <2>2, <2>3
<1>3. ASSUME NEW i \in 1 .. k, OnPanel(items[i])
      PROVE  /\ Addr(items[i]) \in Attributes(buf)
             /\ buf[Addr(items[i])].prot = (items[i].kind # "field")
  <2>1. Addr(items[i]) \in Cells
    BY <1>2, <1>3, ItemCells, Zenon
  <2>2. buf[Addr(items[i])].attr /\ buf[Addr(items[i])].prot = (items[i].kind # "field")
    BY <1>2, <1>3, Zenon DEF Placed
  <2> QED
    BY <2>1, <2>2 DEF Attributes
<1>4. Attributes(buf) # {}
  BY <1>1, <1>3
<1>5. ASSUME NEW i \in F
      PROVE  /\ Addr(items[i]) \in open
             /\ Members(Data(buf, Addr(items[i]))) = DataAddr(items[i]) .. Addr(items[i]) + items[i].length
  <2>1. i \in 1 .. k /\ OnPanel(items[i]) /\ items[i].kind = "field"
    BY <1>1
  <2>2. Addr(items[i]) \in open
    BY <1>3, <2>1
  <2>3. Members(Data(buf, Addr(items[i]))) = DataAddr(items[i]) .. Addr(items[i]) + items[i].length
    BY <1>2, <2>1, FieldData, Zenon
  <2> QED
    BY <2>2, <2>3
<1>6. ASSUME NEW y \in open
      PROVE  \E i \in F : y = Addr(items[i])
  <2>1. y \in Cells /\ buf[y].attr /\ ~buf[y].prot
    BY DEF Attributes
  <2>2. PICK j \in 1 .. k : OnPanel(items[j]) /\ items[j].kind = "field" /\ y = Addr(items[j])
    BY <2>1, Zenon DEF Guarded
  <2> QED
    BY <1>1, <2>2
<1>7. InputCells(buf) = UNION {Members(Data(buf, x)) : x \in open}
  BY <1>4 DEF InputCells
<1> HIDE DEF open, F
<1>8. UNION {Members(Data(buf, x)) : x \in open}
        = UNION {DataAddr(items[i]) .. Addr(items[i]) + items[i].length : i \in F}
  <2> DEFINE in(i) == DataAddr(items[i]) .. Addr(items[i]) + items[i].length
             of(x) == Members(Data(buf, x))
  <2>1. \A i \in F : Addr(items[i]) \in open /\ of(Addr(items[i])) = in(i)
    BY <1>5
  <2> HIDE DEF in, of
  <2>2. ASSUME NEW c, c \in UNION {of(x) : x \in open}
        PROVE  c \in UNION {in(i) : i \in F}
    BY <1>6, <2>1, <2>2
  <2>3. ASSUME NEW c, c \in UNION {in(i) : i \in F}
        PROVE  c \in UNION {of(x) : x \in open}
    BY <2>1, <2>3
  <2>4. UNION {of(x) : x \in open} = UNION {in(i) : i \in F}
    BY <2>2, <2>3
  <2> QED
    BY <2>4 DEF in, of
<1> QED
  BY <1>7, <1>8 DEF F

-----------------------------------------------------------------------------
(* A full screen stays until something is typed or written.                *)

\* The panel's items are in the terminal's buffer, or one ran over its end.
Displayed ==
  /\ rejected <=> Overran(panel.items, Len(panel.items))
  /\ ~rejected => /\ Seen(panel.items, terminal.colour, Len(panel.items), cells)
                  /\ Guarded(panel.items, Len(panel.items), cells)

DrawnInv ==
  since = {} /\ LaidOut(panel) =>
    /\ at = "ended" => RunsOff(panel) /\ Size = Addressable
    /\ at = "user" => (RunsOff(panel) => Size < Addressable) /\ Displayed

\* An element of a part is one of the concatenation.
LEMMA Concatenated ==
  ASSUME NEW A, NEW seqs \in Seq(Seq(A)), NEW j \in DOMAIN seqs, NEW n \in DOMAIN seqs[j]
  PROVE  \E m \in DOMAIN Concat(seqs) : Concat(seqs)[m] = seqs[j][n]
<1> DEFINE N == Len(seqs)
           o == seqs[j][n]
           In(s) == \E m \in DOMAIN s : s[m] = o
<1>1. PICK from : Behind(A, seqs, from)
  BY ConcatBehind, Zenon
<1>2. /\ Concat(seqs) = from[1]
      /\ \A i \in 1 .. N : from[i] = seqs[i] \o from[i + 1]
      /\ \A i \in 1 .. N + 1 : from[i] \in Seq(A)
  BY <1>1, Zenon DEF Behind
<1>3. N \in Nat /\ j \in 1 .. N /\ \A i \in 1 .. N : seqs[i] \in Seq(A)
  OBVIOUS
<1>4. In(seqs[j])
  OBVIOUS
<1> HIDE DEF N, o
<1>5. \A s, t \in Seq(A) : In(s) \/ In(t) => In(s \o t)
  <2>1. ASSUME NEW s \in Seq(A), NEW t \in Seq(A), NEW m \in DOMAIN s, s[m] = o
        PROVE  In(s \o t)
    <3>1. m \in DOMAIN (s \o t) /\ (s \o t)[m] = o
      BY <2>1
    <3> QED
      BY <3>1
  <2>2. ASSUME NEW s \in Seq(A), NEW t \in Seq(A), NEW m \in DOMAIN t, t[m] = o
        PROVE  In(s \o t)
    <3> DEFINE n1 == Len(s) + m
    <3>1. n1 \in DOMAIN (s \o t) /\ (s \o t)[n1] = o
      BY <2>2
    <3> HIDE DEF n1
    <3> QED
      BY <3>1
  <2> QED
    BY <2>1, <2>2
<1> HIDE DEF In
<1> DEFINE T == {k \in 0 .. j - 1 : In(from[j - k])}
<1>6. 0 \in T
  <2>1. from[j] = seqs[j] \o from[j + 1] /\ seqs[j] \in Seq(A) /\ from[j + 1] \in Seq(A)
    <3>1. j \in 1 .. N /\ j + 1 \in 1 .. N + 1
      BY <1>3
    <3> QED
      BY <1>2, <1>3, <3>1
  <2>2. In(from[j]) /\ j - 0 = j /\ 0 \in 0 .. j - 1
    BY <1>3, <1>4, <1>5, <2>1
  <2> QED
    BY <2>2
<1>7. ASSUME NEW k \in 1 .. j - 1, k - 1 \in T
      PROVE  k \in T
  <2>1. /\ j - k \in 1 .. N /\ j - (k - 1) = (j - k) + 1 /\ (j - k) + 1 \in 1 .. N + 1
        /\ k \in 0 .. j - 1
    BY <1>3
  <2>2. In(from[(j - k) + 1])
    BY <1>7, <2>1
  <2>3. /\ from[j - k] = seqs[j - k] \o from[(j - k) + 1]
        /\ seqs[j - k] \in Seq(A) /\ from[(j - k) + 1] \in Seq(A)
    BY <1>2, <1>3, <2>1
  <2>4. In(from[j - k])
    BY <1>5, <2>2, <2>3
  <2> QED
    BY <2>1, <2>4
<1>8. j - 1 \in T
  <2>1. j - 1 \in Nat /\ j - 1 \in 0 .. j - 1
    BY <1>3
  <2>2. 0 .. j - 1 \subseteq T
    <3> DEFINE M == j - 1
    <3>1. M \in Nat /\ 0 \in T /\ \A k \in 1 .. M : k - 1 \in T => k \in T
      BY <1>6, <1>7, <2>1
    <3> HIDE DEF T, M
    <3>2. 0 .. M \subseteq T
      BY <3>1, Induct
    <3> QED
      BY <3>2 DEF M
  <2> QED
    BY <2>1, <2>2
<1>9. In(Concat(seqs))
  <2>1. In(from[j - (j - 1)]) /\ j - (j - 1) = 1
    BY <1>3, <1>8
  <2> QED
    BY <1>2, <2>1
<1> QED
  BY <1>9 DEF In, o

\* An item that fits raises only when it is a field that ends in the last cell
\* of the largest screen.
LEMMA ItemCoded ==
  ASSUME NEW B, Char \subseteq B, NEW it \in Item(B), NEW colour \in BOOLEAN, Fits(it),
         ~ (Overruns(it) /\ Size = Addressable)
  PROVE  Emit(it, colour) \in Seq(Coded(B))
<1> HIDE DEF Char, Item, Coded
<1> DEFINE S == 0 .. Addressable - 1
<1>1. Has(Coded(B), B, S)
  BY OrdersHad
<1>2. /\ Addr(it) \in Cells /\ Len(Declared(it)) \in Nat
      /\ it.kind = "field" => Ending(it) = Addr(it) + Len(Declared(it)) + 1
  BY ItemCells, Zenon
<1>3. Cells \subseteq S /\ Addr(it) \in S
  BY <1>2, Sizes
<1>4. CASE it.kind = "field"
  <2>1. Addr(it) + Len(Declared(it)) < Size
    BY DEF Fits
  <2>2. DataAddr(it) = Addr(it) + 1
    BY DEF DataAddr
  <2>3. Ending(it) <= Size /\ DataAddr(it) <= Ending(it) /\ Ending(it) \in Nat /\ DataAddr(it) \in Nat
    <3> HIDE DEF Ending, DataAddr, Addr
    <3> QED
      BY <1>2, <1>4, <2>1, <2>2, Sizes DEF Cells
  <2>4. Ending(it) < Addressable
    <3>1. Ending(it) >= Size => Size # Addressable
      BY <1>4 DEF Overruns
    <3> HIDE DEF Ending, Size, Addressable
    <3>2. Size <= Addressable /\ Size \in Nat /\ Addressable \in Nat
      BY Sizes, SizeAssumption
    <3> QED
      BY <2>3, <3>1, <3>2
  <2>5. {Addr(it), DataAddr(it), Ending(it)} \subseteq S
    <3> HIDE DEF Ending, DataAddr, Addressable
    <3> QED
      BY <1>3, <2>3, <2>4, Sizes
  <2>6. EmitField(it, colour) \in Seq(Coded(B))
    <3> HIDE DEF S
    <3> QED
      BY <1>1, <2>5, EmitFieldIn, Zenon
  <2> QED
    BY <1>4, <2>6 DEF Emit
<1>5. CASE it.kind # "field"
  <2>1. EmitText(it, colour) \in Seq(Coded(B))
    <3> HIDE DEF S
    <3> QED
      BY <1>1, <1>3, EmitTextIn, Zenon
  <2> QED
    BY <1>5, <2>1 DEF Emit
<1> QED
  BY <1>4, <1>5

\* Rendering a panel that is laid out raises exactly when a field of it ends in
\* the last cell of the largest screen.
LEMMA RenderRaises ==
  ASSUME NEW B, Char \subseteq B, NEW p \in Screen(B), LaidOut(p), NEW colour \in BOOLEAN
  PROVE  Raises(Render(p, colour)) <=> RunsOff(p) /\ Size = Addressable
<1> HIDE DEF Char, Item, Orders, Coded
<1> DEFINE items == p.items
           N == Len(items)
           O == [i \in DOMAIN items |-> Part(items[i], colour)]
<1>1. Render(p, colour).orders = Concat(O)
  BY DEF Render, Part
<1>2. items \in Seq(Item(B))
  BY DEF Screen
<1>3. \A i \in DOMAIN items : OnPanel(items[i]) => Fits(items[i])
  BY DEF LaidOut
<1>4. RunsOff(p) <=> \E i \in DOMAIN items : OnPanel(items[i]) /\ Overruns(items[i])
  BY DEF RunsOff
<1> HIDE DEF items
<1>5. N \in Nat /\ DOMAIN items = 1 .. N /\ \A i \in 1 .. N : items[i] \in Item(B)
  BY <1>2
<1>6. ASSUME ~ (RunsOff(p) /\ Size = Addressable)
      PROVE  ~Raises(Render(p, colour))
  <2>1. ASSUME NEW i \in 1 .. N
        PROVE  Part(items[i], colour) \in Seq(Coded(B))
    <3>1. CASE OnPanel(items[i])
      <4>1. items[i] \in Item(B) /\ Fits(items[i]) /\ ~ (Overruns(items[i]) /\ Size = Addressable)
        BY <1>3, <1>4, <1>5, <1>6, <3>1
      <4>2. Emit(items[i], colour) \in Seq(Coded(B))
        BY <4>1, ItemCoded, Zenon
      <4> QED
        BY <3>1, <4>2 DEF Part
    <3>2. CASE ~OnPanel(items[i])
      BY <3>2 DEF Part
    <3> QED
      BY <3>1, <3>2
  <2>2. O \in Seq(Seq(Coded(B)))
    BY <1>5, <2>1
  <2>3. Concat(O) \in Seq(Coded(B))
    <3> HIDE DEF O
    <3> QED
      BY <2>2, ConcatTyped
  <2> HIDE DEF O
  <2>4. \A n \in DOMAIN Concat(O) : Concat(O)[n] \in Coded(B)
    BY <2>3
  <2> QED
    BY <1>1, <2>4 DEF Raises, Coded
<1>7. ASSUME RunsOff(p), Size = Addressable
      PROVE  Raises(Render(p, colour))
  <2>1. PICK i \in 1 .. N : OnPanel(items[i]) /\ Overruns(items[i])
    BY <1>4, <1>5, <1>7
  <2> DEFINE it == items[i]
             base == IF colour THEN it.fg ELSE NoColour
             start == <<At("SBA", Addr(it), Null), StartField(it, FALSE, it.mdt, base)>>
             data == Puts(Declared(it))
             o == At("SBA", Ending(it), Null)
             end == <<o, Terminator>>
             place == IF it.cursor THEN <<At("SBA", DataAddr(it), Null), InsertCursor>> ELSE <<>>
  <2>2. it \in Item(B) /\ it.kind = "field" /\ Ending(it) >= Size
    BY <1>5, <2>1 DEF Overruns
  <2>3. O \in Seq(Seq(Orders(B))) /\ i \in DOMAIN O /\ O[i] = Emit(it, colour)
    <3>1. \A k \in 1 .. N : Emit(items[k], colour) \in Seq(Orders(B))
      BY <1>5, EmitTyped
    <3>2. \A k \in 1 .. N : Part(items[k], colour) \in Seq(Orders(B))
      BY <3>1 DEF Part
    <3> QED
      BY <1>5, <2>1, <3>2 DEF Part
  <2>4. O[i] = ((start \o data) \o end) \o place
    <3>1. Emit(it, colour) = EmitField(it, colour)
      BY <2>2 DEF Emit
    <3>2. EmitField(it, colour) = ((start \o data) \o end) \o place
      BY <2>2 DEF EmitField, Declared, Ending
    <3> HIDE DEF start, data, end, place, it
    <3> QED
      BY <2>3, <3>1, <3>2
  <2>5. o.op = "SBA" /\ o.bytes = <<>>
    <3>1. Ending(it) \in Nat
      <4>1. it.length \in Nat /\ DataAddr(it) \in Nat
        BY <2>2, ItemFacts, Zenon
      <4> QED
        BY <4>1 DEF Ending
    <3>2. EncodePackAddr(Ending(it)) = <<>>
      <4> HIDE DEF Ending, it, Size, Addressable
      <4> QED
        BY <1>7, <2>2, <3>1, AddressCoded
    <3> HIDE DEF it
    <3> QED
      BY <3>2 DEF At, Order
  <2>6. start \in Seq(Orders(B)) /\ data \in Seq(Orders(B)) /\ place \in Seq(Orders(B))
        /\ o \in Orders(B) /\ Terminator \in Orders(B)
    <3>1. Has(Orders(B), B, Int) /\ Null \in B
      BY OrdersHad, Bytes
    <3>2. /\ it.length \in Nat /\ it.fg \in Char /\ it.mdt \in BOOLEAN
          /\ Addr(it) \in Int /\ DataAddr(it) \in Int
      <4>1. /\ it.length \in Nat /\ it.fg \in Char /\ it.mdt \in BOOLEAN
            /\ Addr(it) \in Nat /\ DataAddr(it) \in Nat
        BY <2>2, ItemFacts, Zenon
      <4> HIDE DEF it
      <4> QED
        BY <4>1
    <3>3. Ending(it) \in Int
      BY <3>2 DEF Ending
    <3>4. base \in Char
      BY <3>2, Bytes
    <3>5. Declared(it) \in Seq(B)
      BY <2>2, DeclaredTyped, Zenon
    <3> HIDE DEF it, base
    <3>6. /\ At("SBA", Addr(it), Null) \in Orders(B) /\ At("SBA", DataAddr(it), Null) \in Orders(B)
          /\ At("SBA", Ending(it), Null) \in Orders(B) /\ Terminator \in Orders(B)
          /\ InsertCursor \in Orders(B)
      BY <3>1, <3>2, <3>3 DEF Has
    <3>7. start \in Seq(Orders(B))
      <4>1. StartField(it, FALSE, it.mdt, base) \in Orders(B)
        <5>1. it \in Item(B)
          BY <2>2
        <5> QED
          BY <3>1, <3>2, <3>4, <5>1 DEF Has
      <4> QED
        BY <3>6, <4>1, Pair, Zenon
    <3>8. data \in Seq(Orders(B))
      BY <3>1, <3>5, PutsIn, Zenon
    <3>9. place \in Seq(Orders(B))
      <4> DEFINE two == <<At("SBA", DataAddr(it), Null), InsertCursor>>
      <4>1. two \in Seq(Orders(B))
        BY <3>6, Pair, Zenon
      <4> HIDE DEF two
      <4>2. (IF it.cursor THEN two ELSE <<>>) \in Seq(Orders(B))
        BY <4>1
      <4> QED
        BY <4>2 DEF two
    <3> QED
      BY <3>6, <3>7, <3>8, <3>9
  <2> HIDE DEF start, data, place, o, it
  <2>7. \E n \in DOMAIN O[i] : O[i][n] = o
    <3> DEFINE s == start \o data
    <3>1. s \in Seq(Orders(B))
      BY <2>6
    <3>2. O[i] = (s \o <<o, Terminator>>) \o place
      BY <2>4
    <3> HIDE DEF s, O
    <3>3. /\ Len(s) + 1 \in DOMAIN ((s \o <<o, Terminator>>) \o place)
          /\ ((s \o <<o, Terminator>>) \o place)[Len(s) + 1] = o
      <4> DEFINE u == s \o <<o, Terminator>>
      <4>1. u \in Seq(Orders(B)) /\ Len(u) = Len(s) + 2 /\ u[Len(s) + 1] = o
        BY <2>6, <3>1
      <4>2. Len(s) \in Nat
        BY <3>1
      <4> HIDE DEF u
      <4>3. Len(s) + 1 \in DOMAIN (u \o place) /\ (u \o place)[Len(s) + 1] = u[Len(s) + 1]
        BY <2>6, <4>1, <4>2
      <4> QED
        BY <4>1, <4>3 DEF u
    <3> QED
      BY <3>2, <3>3
  <2> HIDE DEF O
  <2>8. PICK m \in DOMAIN Concat(O) : Concat(O)[m] = o
    BY <2>3, <2>7, Concatenated
  <2> QED
    BY <1>1, <2>5, <2>8 DEF Raises
<1> QED
  BY <1>6, <1>7

\* Displaying a panel draws it.
LEMMA ShowDraws ==
  ASSUME IOInv, NEW p \in Screen(Sent), Show(p)
  PROVE  DrawnInv'
<1> HIDE DEF Sent, Char, Orders, Cell, Screen, Item
<1> DEFINE w == Render(p, terminal.colour)
           t == Interpret(cells, cursor, w)
           first == Before(cells, cursor, w)
<1>0. /\ Char \subseteq Sent /\ terminal.colour \in BOOLEAN
      /\ cells \in [Cells -> Cell(Sent)] /\ cursor \in Cells
  BY SentBytes DEF IOInv
<1>1. /\ panel' = p /\ terminal' = terminal
      /\ at' = "ended" => Raises(w)
      /\ at' = "user" => ~Raises(w) /\ cells' = t.buf /\ rejected' = t.rejected
  <2> HIDE DEF w, t
  <2> QED
    BY DEF Show, Write, w, t
<1>2. SUFFICES ASSUME LaidOut(p), at' = "user", RunsOff(p) => Size < Addressable
               PROVE  Displayed'
  <2>1. LaidOut(p) => (Raises(w) <=> RunsOff(p) /\ Size = Addressable)
    BY <1>0, RenderRaises
  <2>2. Size \in Nat /\ Addressable \in Nat /\ Size <= Addressable
    BY Sizes, SizeAssumption
  <2> HIDE DEF w, Displayed, Size, Addressable
  <2>3. LaidOut(p) /\ at' = "user" => (RunsOff(p) => Size < Addressable)
    BY <1>1, <2>1, <2>2
  <2> QED
    BY <1>1, <2>1, <2>3 DEF DrawnInv
<1>3. Laid(p.items)
  BY <1>2 DEF LaidOut, Laid, RunsOff
<1>4. /\ Char \subseteq Sent /\ terminal.colour \in BOOLEAN
      /\ cells \in [Cells -> Cell(Sent)] /\ cursor \in Cells
  BY <1>0
<1>5. w.erase = TRUE /\ w.orders \in Seq(Orders(Sent))
  BY <1>4, WritesTyped
<1>6. first \in State(Sent) /\ Obeyed(first, w.orders, t)
  <2> HIDE DEF w
  <2>1. w.erase \in BOOLEAN
    BY <1>5
  <2> QED
    BY <1>4, <1>5, <2>1, BeforeTyped, WriteObeyed
<1>7. ~first.rejected /\ first.fg = NoColour /\ \A x \in Cells : ~first.buf[x].attr
  <2> HIDE DEF w
  <2>1. first.buf = Erased /\ first.fg = NoColour /\ ~first.rejected
    BY <1>5 DEF Before
  <2> QED
    BY <2>1 DEF Erased, EmptyCell
<1> DEFINE k == Len(p.items)
<1>8. Panelled(Sent, p.items, terminal.colour, k, t)
  <2> HIDE DEF first, t
  <2> QED
    BY <1>3, <1>4, <1>6, <1>7, RenderDrew, Zenon
<1> HIDE DEF t
<1>9. /\ t.rejected <=> Overran(p.items, k)
      /\ ~t.rejected => Seen(p.items, terminal.colour, k, t.buf) /\ Guarded(p.items, k, t.buf)
  BY <1>8 DEF Panelled
<1> QED
  BY <1>1, <1>2, <1>9 DEF Displayed

\* It is as the panel declares it.
AsDeclared ==
  /\ rejected <=> RunsOff(panel)
  /\ rejected => Size < Addressable
  /\ ~rejected =>
       /\ \A i \in DOMAIN panel.items :
            LET it == panel.items[i]
            IN OnPanel(it) =>
                 /\ cells[Addr(it)].attr /\ cells[Addr(it)].prot = (it.kind = "text")
                 /\ \A n \in DOMAIN Declared(it) :
                      LET cell == cells[(Addr(it) + n) % Size]
                      IN ~cell.attr /\ cell.c = Declared(it)[n]
                         /\ cell.fg = DeclaredColours(it)[n]
       /\ InputCells(cells) =
            UNION {DataAddr(panel.items[i]) .. Addr(panel.items[i]) + panel.items[i].length :
                     i \in {j \in Fields(panel) : OnPanel(panel.items[j])}}

\* What is displayed is what the panel declares.
LEMMA DisplayedDrawn ==
  ASSUME IOInv, LaidOut(panel), RunsOff(panel) => Size < Addressable, Displayed
  PROVE  AsDeclared
<1> HIDE DEF Sent, Char, Cell, Item
<1> DEFINE items == panel.items
           k == Len(items)
           colour == terminal.colour
<1>1. items \in Seq(Item(Sent)) /\ Char \subseteq Sent
  BY SentBytes DEF IOInv, Screen
<1>2. Laid(items) /\ \E i \in DOMAIN items : OnPanel(items[i])
  BY DEF LaidOut, Laid, RunsOff
<1>3. /\ rejected <=> Overran(items, k)
      /\ ~rejected => Seen(items, colour, k, cells) /\ Guarded(items, k, cells)
  BY DEF Displayed
<1>4. Fields(panel) = {j \in DOMAIN items : items[j].kind = "field"}
  BY DEF Fields
<1>5. RunsOff(panel) <=> \E i \in DOMAIN items : OnPanel(items[i]) /\ Overruns(items[i])
  BY DEF RunsOff
<1> HIDE DEF items, colour
<1>6. DOMAIN items = 1 .. k
  BY <1>1
<1>7. rejected <=> RunsOff(panel)
  BY <1>3, <1>5, <1>6 DEF Overran
<1>8. ASSUME ~rejected, NEW i \in DOMAIN items, OnPanel(items[i])
      PROVE  /\ cells[Addr(items[i])].attr
             /\ cells[Addr(items[i])].prot = (items[i].kind = "text")
             /\ \A n \in DOMAIN Declared(items[i]) :
                  LET cell == cells[(Addr(items[i]) + n) % Size]
                  IN /\ ~cell.attr /\ cell.c = Declared(items[i])[n]
                     /\ cell.fg = DeclaredColours(items[i])[n]
  <2> DEFINE it == items[i]
             s == Declared(it)
  <2>1. it \in Item(Sent) /\ Fits(it)
    BY <1>1, <1>2, <1>8 DEF Laid
  <2>2. it.kind \in {"text", "field"}
    BY <2>1 DEF Item
  <2>3. Placed(it, colour, cells)
    BY <1>3, <1>6, <1>8 DEF Seen
  <2> HIDE DEF it
  <2>4. /\ Addr(it) \in Cells /\ Len(s) \in Nat
        /\ \A n \in 1 .. Len(s) : Addr(it) + n \in Cells
    BY <1>1, <2>1, ItemCells, Zenon
  <2>5. s \in Seq(Sent)
    BY <1>1, <2>1, DeclaredTyped, Zenon
  <2>6. DOMAIN s = 1 .. Len(s)
    <3> HIDE DEF s
    <3> QED
      BY <2>5
  <2>7. DeclaredColours(it) = ColoursOf(it, colour)
    BY ColoursDeclared DEF colour
  <2>8. ASSUME NEW n \in DOMAIN s
        PROVE  /\ ~cells[(Addr(it) + n) % Size].attr
               /\ cells[(Addr(it) + n) % Size].c = s[n]
               /\ cells[(Addr(it) + n) % Size].fg = DeclaredColours(it)[n]
    <3>1. n \in 1 .. Len(s)
      BY <2>6
    <3>2. Addr(it) + n \in Cells
      BY <2>4, <3>1
    <3>3. (Addr(it) + n) % Size = Addr(it) + n
      <4>1. Addr(it) + n \in Nat /\ Addr(it) + n < Size
        BY <3>2, Sizes DEF Cells
      <4> QED
        BY <4>1, Wrapped
    <3>4. cells[Addr(it) + n] = Character(s[n], ColoursOf(it, colour)[n])
      BY <2>3, <3>1 DEF Placed
    <3>5. cells[(Addr(it) + n) % Size] = Character(s[n], DeclaredColours(it)[n])
      BY <2>7, <3>3, <3>4
    <3> HIDE DEF s
    <3> QED
      BY <3>5 DEF Character, EmptyCell
  <2>9. cells[Addr(it)].attr /\ cells[Addr(it)].prot = (it.kind = "text")
    BY <2>2, <2>3 DEF Placed
  <2> QED
    BY <2>8, <2>9 DEF it
<1>9. ASSUME ~rejected
      PROVE  InputCells(cells) =
               UNION {DataAddr(items[i]) .. Addr(items[i]) + items[i].length :
                        i \in {j \in Fields(panel) : OnPanel(items[j])}}
  <2>1. ~Overran(items, k) /\ Seen(items, colour, k, cells) /\ Guarded(items, k, cells)
    BY <1>3, <1>9
  <2>2. InputCells(cells) =
          UNION {DataAddr(items[i]) .. Addr(items[i]) + items[i].length :
                   i \in {j \in DOMAIN items : items[j].kind = "field" /\ OnPanel(items[j])}}
    BY <1>1, <1>2, <2>1, InputsAre, Zenon
  <2>3. {j \in DOMAIN items : items[j].kind = "field" /\ OnPanel(items[j])}
          = {j \in Fields(panel) : OnPanel(items[j])}
    BY <1>4
  <2> QED
    BY <2>2, <2>3
<1> QED
  BY <1>7, <1>8, <1>9 DEF items, AsDeclared

\* Every step keeps what is displayed.
LEMMA DrawnNext == IOInv /\ DrawnInv /\ [Next]_vars => DrawnInv'
<1> SUFFICES ASSUME IOInv, DrawnInv, [Next]_vars
             PROVE  DrawnInv'
  OBVIOUS
<1> HIDE DEF Sent, Char, Screen
<1>1. ASSUME NEW p \in Panels, Show(p)
      PROVE  DrawnInv'
  BY <1>1, PanelsTyped, ShowDraws
<1>2. CASE Redisplay
  <2> DEFINE q == Reseeded(panel, ReadTableRows(panel, read.fields))
  <2>1. Show(q)
    BY <1>2 DEF Redisplay
  <2>2. q \in Screen(Sent)
    BY ReseededTyped DEF IOInv
  <2> HIDE DEF q
  <2> QED
    BY <2>1, <2>2, ShowDraws
<1>3. CASE Patch
  <2>1. since' # {}
    BY <1>3 DEF Patch
  <2> QED
    BY <2>1 DEF DrawnInv
<1>4. CASE EraseInput
  <2>1. since' # {}
    BY <1>4 DEF EraseInput
  <2> QED
    BY <2>1 DEF DrawnInv
<1>5. CASE ReadReply
  <2>1. at' = "app"
    BY <1>5 DEF ReadReply
  <2> QED
    BY <2>1 DEF DrawnInv
<1>6. CASE User
  <2>1. ASSUME NEW buf, NEW cur, Edit(buf, cur)
        PROVE  DrawnInv'
    <3>1. since' # {}
      BY <2>1 DEF Edit
    <3> QED
      BY <3>1 DEF DrawnInv
  <2>2. CASE PressEnter
    <3>1. at' = "reply"
      BY <2>2 DEF PressEnter
    <3> QED
      BY <3>1 DEF DrawnInv
  <2>3. CASE PressClear
    <3>1. at' = "reply"
      BY <2>3 DEF PressClear
    <3> QED
      BY <3>1 DEF DrawnInv
  <2>4. ASSUME NEW x, NEW n, NEW c, Type(x, n, c)
        PROVE  DrawnInv'
    BY <2>1, <2>4 DEF Type
  <2>5. ASSUME NEW x, NEW n, EraseEof(x, n)
        PROVE  DrawnInv'
    BY <2>1, <2>5 DEF EraseEof
  <2>6. ASSUME NEW x, CursorSelect(x)
        PROVE  DrawnInv'
    BY <2>1, <2>6 DEF CursorSelect
  <2>7. ASSUME NEW a, MoveCursor(a)
        PROVE  DrawnInv'
    BY <2>1, <2>7 DEF MoveCursor
  <2> QED
    BY <1>6, <2>2, <2>3, <2>4, <2>5, <2>6, <2>7 DEF User
<1>7. CASE UNCHANGED vars
  <2>1. panel' = panel /\ cells' = cells /\ rejected' = rejected /\ terminal' = terminal
        /\ at' = at /\ since' = since
    BY <1>7 DEF vars
  <2> QED
    BY <2>1 DEF DrawnInv, Displayed, LaidOut, RunsOff
<1> QED
  BY <1>1, <1>2, <1>3, <1>4, <1>5, <1>6, <1>7 DEF Next, App

-----------------------------------------------------------------------------
(* A message that is patched in place.                                     *)

\* The items are texts that end before the screen does.
Texts(B, items) ==
  /\ items \in Seq(Item(B))
  /\ \A j \in 1 .. Len(items) : items[j].kind = "text" /\ Rich(items[j]) /\ Fits(items[j])

\* The first k of the items were drawn over buf, and w is where they led.
Patched(B, items, k, buf, w) ==
  /\ w \in State(B) /\ w.fg = NoColour /\ ~w.rejected
  /\ \A x \in Cells : (\A j \in 1 .. k : x \notin Occupied(items[j])) => w.buf[x] = buf[x]
  /\ \A x \in Cells : w.buf[x].attr => w.buf[x].prot \/ w.buf[x] = buf[x]
  /\ \A x \in Cells :
       buf[x].attr /\ (\A j \in 1 .. k : x \notin Occupied(items[j]) \ {Addr(items[j])}) => w.buf[x].attr
  /\ k > 0 => \E x \in Cells : w.buf[x].attr

\* One more item.
LEMMA PatchedOn ==
  ASSUME NEW B, Char \subseteq B, NEW items, Texts(B, items), NEW colour \in BOOLEAN, NEW buf,
         NEW k \in Nat, k + 1 <= Len(items), NEW t, Patched(B, items, k, buf, t),
         NEW u, Obeyed(t, Emit(items[k + 1], colour), u)
  PROVE  Patched(B, items, k + 1, buf, u)
<1> HIDE DEF Char, Item
<1> DEFINE it == items[k + 1]
           a == Addr(it)
           N == Len(Declared(it))
           O == Occupied(it)
<1>1. it \in Item(B) /\ it.kind = "text" /\ Rich(it) /\ Fits(it)
  BY DEF Texts
<1>2. /\ t \in State(B) /\ t.fg = NoColour /\ ~t.rejected
      /\ \A x \in Cells : (\A j \in 1 .. k : x \notin Occupied(items[j])) => t.buf[x] = buf[x]
      /\ \A x \in Cells : t.buf[x].attr => t.buf[x].prot \/ t.buf[x] = buf[x]
      /\ \A x \in Cells :
           buf[x].attr /\ (\A j \in 1 .. k : x \notin Occupied(items[j]) \ {Addr(items[j])})
             => t.buf[x].attr
  BY DEF Patched
<1>3. \A j : j \in 1 .. k + 1 <=> j \in 1 .. k \/ j = k + 1
  OBVIOUS
<1>4. Drew(B, it, colour, t, u)
  <2> HIDE DEF it
  <2>1. Obeyed(t, Emit(it, colour), u)
    BY DEF it
  <2>2. ~Overruns(it)
    BY <1>1 DEF Overruns
  <2> QED
    BY <1>1, <1>2, <2>1, <2>2, ItemDrew, Zenon
<1> HIDE DEF it
<1>5. u \in State(B) /\ u.fg = NoColour /\ ~u.rejected
  BY <1>1, <1>4 DEF Drew, Overruns
<1>6. /\ a \in Cells /\ N \in Nat /\ \A n \in 1 .. N : a + n \in Cells
  BY <1>1, ItemCells, Zenon
<1>7. /\ u.buf[a].attr /\ u.buf[a].prot
      /\ \A n \in 1 .. N : ~u.buf[a + n].attr
  <2>1. Placed(it, colour, u.buf)
    BY <1>4, <1>5, Zenon DEF Drew
  <2> QED
    BY <1>1, <2>1 DEF Placed, Character, EmptyCell
<1>8. \A x \in Cells : x \notin O => u.buf[x] = t.buf[x]
  <2>1. Touches(it) = O
    BY <1>1 DEF Touches, Occupied
  <2> QED
    BY <1>4, <1>5, <2>1 DEF Drew
<1>9. ASSUME NEW x \in O
      PROVE  x = a \/ ~u.buf[x].attr
  <2>1. a \in Nat
    BY <1>6, Sizes DEF Cells
  <2>2. x = a \/ (x - a \in 1 .. N /\ x = a + (x - a))
    BY <1>6, <2>1 DEF Occupied
  <2> QED
    BY <1>7, <2>2
<1>10. a \in O
  <2>1. a \in Nat
    BY <1>6, Sizes DEF Cells
  <2> QED
    BY <1>6, <2>1 DEF Occupied
<1>11. O = Occupied(items[k + 1]) /\ a = Addr(items[k + 1])
  BY DEF it
<1> HIDE DEF O, a, N
<1>12. ASSUME NEW x \in Cells, \A j \in 1 .. k + 1 : x \notin Occupied(items[j])
       PROVE  u.buf[x] = buf[x]
  BY <1>2, <1>3, <1>8, <1>11, <1>12
<1>13. ASSUME NEW x \in Cells, u.buf[x].attr
       PROVE  u.buf[x].prot \/ u.buf[x] = buf[x]
  BY <1>2, <1>7, <1>8, <1>9, <1>13
<1>14. ASSUME NEW x \in Cells, buf[x].attr,
              \A j \in 1 .. k + 1 : x \notin Occupied(items[j]) \ {Addr(items[j])}
       PROVE  u.buf[x].attr
  <2>1. t.buf[x].attr
    BY <1>2, <1>3, <1>14
  <2>2. x \notin O \ {a}
    BY <1>3, <1>11, <1>14
  <2> QED
    BY <1>7, <1>8, <2>1, <2>2
<1>15. \E x \in Cells : u.buf[x].attr
  BY <1>6, <1>7 DEF a
<1> QED
  BY <1>5, <1>12, <1>13, <1>14, <1>15 DEF Patched

\* What render_partial leaves of a buffer.
LEMMA PartialPatched ==
  ASSUME NEW B, Char \subseteq B, NEW buf \in [Cells -> Cell(B)], NEW cur \in Cells,
         NEW items, Texts(B, items), NEW colour \in BOOLEAN, NEW home \in Nat
  PROVE  \E w : /\ Patched(B, items, Len(items), buf, w)
                /\ Interpret(buf, cur, RenderPartial(items, colour, home)).buf = w.buf
<1> HIDE DEF Char, Item, Orders, Cell
<1> DEFINE write == RenderPartial(items, colour, home)
           u == Interpret(buf, cur, write)
           t == Before(buf, cur, write)
           N == Len(items)
           O == [i \in DOMAIN items |-> Emit(items[i], colour)]
           tail == <<At("SBA", home, Null), InsertCursor>>
<1>1. items \in Seq(Item(B))
  BY DEF Texts
<1>2. write.erase = FALSE /\ write.reset = FALSE /\ write.orders \in Seq(Orders(B))
  BY <1>1, WritesTyped
<1>3. write.orders = Concat(O) \o tail
  BY DEF RenderPartial, EmitItems
<1>4. t \in State(B) /\ Obeyed(t, write.orders, u)
  <2> HIDE DEF write
  <2>1. write.erase \in BOOLEAN
    BY <1>2
  <2> QED
    BY <1>2, <2>1, BeforeTyped, WriteObeyed
<1>5. t.buf = buf /\ t.fg = NoColour /\ ~t.rejected
  <2>1. ASSUME NEW x \in Cells
        PROVE  [buf[x] EXCEPT !.mdt = @ /\ ~write.reset] = buf[x]
    <3>1. buf[x] \in Cell(B)
      OBVIOUS
    <3> HIDE DEF write
    <3> QED
      BY <1>2, <3>1 DEF Cell
  <2> HIDE DEF write
  <2>2. t = [buf |-> [x \in Cells |-> [buf[x] EXCEPT !.mdt = @ /\ ~write.reset]],
             at |-> cur, cursor |-> cur, fg |-> NoColour, rejected |-> FALSE]
    BY <1>2 DEF Before
  <2>3. [x \in Cells |-> [buf[x] EXCEPT !.mdt = @ /\ ~write.reset]] = buf
    BY <2>1
  <2> QED
    BY <2>2, <2>3
<1>6. N \in Nat /\ DOMAIN items = 1 .. N /\ \A i \in 1 .. N : items[i] \in Item(B)
  BY <1>1
<1>7. O \in Seq(Seq(Orders(B))) /\ Len(O) = N /\ \A i \in 1 .. N : O[i] = Emit(items[i], colour)
  <2>1. ASSUME NEW i \in 1 .. N
        PROVE  Emit(items[i], colour) \in Seq(Orders(B))
    BY <1>6, EmitTyped
  <2> QED
    BY <1>6, <2>1
<1>8. tail \in Seq(Orders(B))
  <2>1. {At("SBA", home, Null), InsertCursor} \subseteq Orders(B)
    BY Bytes, OrdersTyped
  <2> HIDE DEF At, InsertCursor
  <2> QED
    BY <2>1
<1> HIDE DEF O, N, u, t, write, tail
<1>9. PICK from : Behind(Orders(B), O, from)
  BY <1>7, ConcatBehind, Zenon
<1>10. /\ Concat(O) = from[1] /\ from[N + 1] = <<>>
       /\ \A i \in 1 .. N : from[i] = O[i] \o from[i + 1]
       /\ \A i \in 1 .. N + 1 : from[i] \in Seq(Orders(B))
  BY <1>7, <1>9, Zenon DEF Behind
<1>11. PICK v : Obeyed(t, Concat(O), v) /\ Obeyed(v, tail, u)
  <2>1. Concat(O) \in Seq(Orders(B))
    <3>1. 1 \in 1 .. N + 1
      BY <1>6
    <3> QED
      BY <1>10, <3>1
  <2> QED
    BY <1>3, <1>4, <1>8, <2>1, ObeyedBoth, Zenon
<1> DEFINE T == {k \in 0 .. N : \E w : Patched(B, items, k, buf, w) /\ Obeyed(w, from[k + 1], v)}
<1>12. 0 \in T
  <2>1. 0 \in 0 .. N /\ 0 + 1 = 1 /\ \A j : j \notin 1 .. 0
    BY <1>6
  <2>2. Obeyed(t, from[0 + 1], v)
    BY <1>10, <1>11, <2>1
  <2>3. Patched(B, items, 0, buf, t)
    BY <1>4, <1>5 DEF Patched
  <2> QED
    BY <2>1, <2>2, <2>3
<1>13. ASSUME NEW k \in 1 .. N, k - 1 \in T
       PROVE  k \in T
  <2>1. k \in 0 .. N /\ k - 1 \in Nat /\ (k - 1) + 1 = k /\ k + 1 \in 1 .. N + 1
    BY <1>6
  <2>2. PICK w : Patched(B, items, k - 1, buf, w) /\ Obeyed(w, from[k], v)
    BY <1>13, <2>1
  <2>3. from[k] = Emit(items[k], colour) \o from[k + 1]
    BY <1>7, <1>10
  <2>4. Emit(items[k], colour) \in Seq(Orders(B)) /\ from[k + 1] \in Seq(Orders(B))
    <3>1. O[k] \in Seq(Orders(B))
      BY <1>7
    <3> QED
      BY <1>7, <1>10, <2>1, <3>1
  <2>5. PICK x : Obeyed(w, Emit(items[k], colour), x) /\ Obeyed(x, from[k + 1], v)
    BY <2>2, <2>3, <2>4, ObeyedBoth, Zenon
  <2>6. Patched(B, items, k, buf, x)
    <3> DEFINE m == k - 1
    <3>1. m \in Nat /\ m + 1 = k /\ m + 1 <= Len(items) /\ Patched(B, items, m, buf, w)
      BY <1>6, <2>1, <2>2 DEF N
    <3> HIDE DEF m
    <3>2. Obeyed(w, Emit(items[m + 1], colour), x)
      BY <2>5, <3>1
    <3>3. Patched(B, items, m + 1, buf, x)
      BY <3>1, <3>2, PatchedOn, Zenon
    <3> QED
      BY <3>1, <3>3
  <2> QED
    BY <2>1, <2>5, <2>6
<1>14. N \in T
  <2>1. 0 .. N \subseteq T
    <3> HIDE DEF T
    <3> QED
      BY <1>6, <1>12, <1>13, Induct
  <2> QED
    BY <1>6, <2>1
<1>15. PICK w : Patched(B, items, N, buf, w) /\ Obeyed(w, <<>>, v)
  BY <1>10, <1>14
<1>16. v = w
  BY <1>15, ObeyedNone, Zenon
<1>17. v \in State(B)
  BY <1>15, <1>16, Zenon DEF Patched
<1>18. u.buf = v.buf
  <2> DEFINE place == At("SBA", home, Null)
             y == Obey(v, place)
  <2>1. u = Obey(y, InsertCursor)
    BY <1>11, ObeyedTwo, Zenon DEF tail
  <2>2. y.buf = v.buf /\ y \in State(B)
    <3> DEFINE a == DecodeBufferAddr(place.bytes[1], place.bytes[2])
    <3>1. place.op = "SBA"
      BY DEF At, Order
    <3>2. place \in Orders(B)
      BY Bytes, OrdersTyped
    <3> HIDE DEF place
    <3>3. y \in {v, [v EXCEPT !.rejected = TRUE], [v EXCEPT !.at = a]}
      BY <3>1 DEF Obey
    <3>4. y \in State(B)
      BY <1>17, <3>2, ObeyTyped
    <3> HIDE DEF a, y
    <3> QED
      BY <1>17, <3>3, <3>4 DEF State
  <2> HIDE DEF y
  <2>3. u \in {y, [y EXCEPT !.cursor = y.at]}
    BY <2>1 DEF Obey, InsertCursor, Order
  <2> QED
    BY <2>2, <2>3 DEF State
<1> QED
  BY <1>15, <1>16, <1>18 DEF N, u, write

-----------------------------------------------------------------------------
(* What the user types lies in the fields.                                 *)

\* Each field ends before the screen does, and nothing else is unprotected.
Fielded(items, buf) ==
  /\ Attributes(buf) # {}
  /\ \A j \in 1 .. Len(items) :
       OnPanel(items[j]) /\ items[j].kind = "field" => buf[Ending(items[j])].attr
  /\ Guarded(items, Len(items), buf)

\* Data of a field that has an end behind its length are within its length.
LEMMA FieldWithin ==
  ASSUME NEW B, Char \subseteq B, NEW it \in Item(B), Fits(it), it.kind = "field", ~Overruns(it),
         NEW buf, buf[Addr(it)].attr, buf[Ending(it)].attr
  PROVE  Members(Data(buf, Addr(it))) \subseteq Occupied(it)
<1> HIDE DEF Char, Item
<1> DEFINE a == Addr(it)
           N == Len(Declared(it))
<1>1. a \in Cells /\ N \in Nat /\ Ending(it) = a + N + 1 /\ Ending(it) \in Cells
  BY ItemCells, Zenon
<1>2. buf[a].attr /\ buf[a + N + 1].attr
  BY <1>1
<1>3. Occupied(it) = a .. a + N
  BY DEF Occupied
<1> HIDE DEF a, N
<1>4. a \in Nat /\ a + N + 1 < Size /\ Size \in Nat
  BY <1>1, Sizes DEF Cells
<1>5. \A n \in 1 .. N + 1 : (a + n) % Size = a + n
  <2>1. \A n \in 1 .. N + 1 : a + n \in Nat /\ a + n < Size
    BY <1>1, <1>4
  <2> QED
    BY <2>1, Wrapped
<1>6. PICK m \in 1 .. Size :
        /\ \A n \in 1 .. m - 1 : ~buf[(a + n) % Size].attr
        /\ Data(buf, a) = [k \in 1 .. m - 1 |-> (a + k) % Size]
  BY <1>1, <1>2, DataIs
<1>7. ~ (N + 1 < m)
  <2>1. SUFFICES ASSUME N + 1 < m
                 PROVE  FALSE
    OBVIOUS
  <2>2. N + 1 \in 1 .. m - 1 /\ N + 1 \in 1 .. N + 1 /\ a + (N + 1) = a + N + 1
    BY <1>1, <1>4, <2>1
  <2> QED
    BY <1>2, <1>5, <1>6, <2>2
<1>8. m - 1 \in Nat /\ m - 1 <= N
  BY <1>1, <1>4, <1>6, <1>7
<1>9. ASSUME NEW n \in 1 .. m - 1
      PROVE  (a + n) % Size \in a .. a + N
  <2>1. n \in 1 .. N + 1 /\ a + n \in a .. a + N
    BY <1>1, <1>4, <1>8
  <2> QED
    BY <1>5, <2>1
<1>10. Members(Data(buf, a)) \subseteq a .. a + N
  BY <1>6, <1>9 DEF Members
<1> QED
  BY <1>3, <1>10 DEF a

\* Where the user can type, and what holds the modified tags, is in a field.
LEMMA TypedWithin ==
  ASSUME NEW B, Char \subseteq B, NEW items \in Seq(Item(B)), Laid(items),
         ~Overran(items, Len(items)), NEW buf, Fielded(items, buf),
         NEW x \in InputCells(buf) \cup {y \in Attributes(buf) : ~buf[y].prot}
  PROVE  \E j \in 1 .. Len(items) :
           OnPanel(items[j]) /\ items[j].kind = "field" /\ x \in Occupied(items[j])
<1> HIDE DEF Char, Item
<1> DEFINE N == Len(items)
           open == {y \in Attributes(buf) : ~buf[y].prot}
<1>1. N \in Nat /\ DOMAIN items = 1 .. N /\ \A j \in 1 .. N : items[j] \in Item(B)
  OBVIOUS
<1>2. ASSUME NEW y \in open
      PROVE  \E j \in 1 .. N : OnPanel(items[j]) /\ items[j].kind = "field" /\ y = Addr(items[j])
  <2>1. y \in Cells /\ buf[y].attr /\ ~buf[y].prot
    BY DEF Attributes
  <2>2. Guarded(items, N, buf)
    BY DEF Fielded
  <2> QED
    BY <2>1, <2>2 DEF Guarded
<1>3. ASSUME NEW j \in 1 .. N, OnPanel(items[j]), items[j].kind = "field"
      PROVE  /\ items[j] \in Item(B) /\ Fits(items[j]) /\ ~Overruns(items[j])
             /\ buf[Ending(items[j])].attr /\ Addr(items[j]) \in Occupied(items[j])
  <2>1. items[j] \in Item(B) /\ Fits(items[j]) /\ ~Overruns(items[j])
    BY <1>1, <1>3 DEF Laid, Overran
  <2>2. Addr(items[j]) \in Cells /\ Len(Declared(items[j])) \in Nat
    BY <2>1, ItemCells, Zenon
  <2>3. Addr(items[j]) \in Occupied(items[j])
    BY <2>2, Sizes DEF Cells, Occupied
  <2>4. buf[Ending(items[j])].attr
    BY <1>3 DEF Fielded
  <2> QED
    BY <2>1, <2>3, <2>4
<1>4. PICK y \in open : x = y \/ x \in Members(Data(buf, y))
  <2>1. Attributes(buf) # {}
    BY DEF Fielded
  <2>2. InputCells(buf) = UNION {Members(Data(buf, y)) : y \in open}
    BY <2>1 DEF InputCells
  <2> HIDE DEF open
  <2> QED
    BY <2>2 DEF open
<1>5. PICK j \in 1 .. N : OnPanel(items[j]) /\ items[j].kind = "field" /\ y = Addr(items[j])
  BY <1>2
<1>6. /\ items[j] \in Item(B) /\ Fits(items[j]) /\ ~Overruns(items[j])
      /\ buf[Ending(items[j])].attr /\ Addr(items[j]) \in Occupied(items[j])
  BY <1>3, <1>5
<1>7. buf[Addr(items[j])].attr
  BY <1>4, <1>5 DEF Attributes
<1>8. Members(Data(buf, Addr(items[j]))) \subseteq Occupied(items[j])
  BY <1>5, <1>6, <1>7, FieldWithin, Zenon
<1> QED
  BY <1>4, <1>5, <1>6, <1>8

\* A change to cells that are no attributes leaves the fields.
LEMMA FieldedSame ==
  ASSUME NEW items, NEW buf, NEW other, Fielded(items, buf),
         \A j \in 1 .. Len(items) :
           OnPanel(items[j]) /\ items[j].kind = "field" => Ending(items[j]) \in Cells,
         \A x \in Cells : other[x].attr = buf[x].attr /\ (buf[x].attr => other[x].prot = buf[x].prot)
  PROVE  Fielded(items, other)
<1>1. Attributes(other) = Attributes(buf)
  BY DEF Attributes
<1>2. Guarded(items, Len(items), other)
  BY DEF Fielded, Guarded
<1> QED
  BY <1>1, <1>2 DEF Fielded

\* The items of a panel that can be patched, and its message.
LEMMA PatchableFacts ==
  ASSUME IOInv, Patchable(panel)
  PROVE  /\ panel.items \in Seq(Item(Sent)) /\ Laid(panel.items)
         /\ ~Overran(panel.items, Len(panel.items)) /\ Texts(Sent, panel.message)
         /\ \A j \in 1 .. Len(panel.items) :
              OnPanel(panel.items[j]) /\ panel.items[j].kind = "field" =>
                /\ Ending(panel.items[j]) \in Cells
                /\ \A m \in 1 .. Len(panel.message) : Apart(panel.items[j], panel.message[m])
<1> HIDE DEF Sent, Char, Item
<1> DEFINE items == panel.items
           message == panel.message
<1>1. items \in Seq(Item(Sent)) /\ message \in Seq(Item(Sent)) /\ Char \subseteq Sent
  BY SentBytes DEF IOInv, Screen
<1>2. /\ Laid(items)
      /\ \A i \in DOMAIN items : ~ (OnPanel(items[i]) /\ Overruns(items[i]))
  BY DEF Patchable, LaidOut, Laid, RunsOff
<1>3. \A m \in DOMAIN message :
        /\ message[m].kind = "text" /\ Rich(message[m]) /\ Fits(message[m])
        /\ \A i \in DOMAIN items :
             items[i].kind = "field" /\ OnPanel(items[i]) => Apart(items[i], message[m])
  BY DEF Patchable, Fields
<1> HIDE DEF items, message
<1>4. DOMAIN items = 1 .. Len(items) /\ DOMAIN message = 1 .. Len(message)
  BY <1>1
<1>5. ASSUME NEW j \in 1 .. Len(items), OnPanel(items[j]), items[j].kind = "field"
      PROVE  Ending(items[j]) \in Cells
  <2>1. items[j] \in Item(Sent) /\ Fits(items[j]) /\ ~Overruns(items[j])
    BY <1>1, <1>2, <1>4, <1>5 DEF Laid
  <2> QED
    BY <1>1, <1>5, <2>1, ItemCells, Zenon
<1>6. ~Overran(items, Len(items))
  BY <1>2, <1>4 DEF Overran
<1>7. Texts(Sent, message)
  BY <1>1, <1>3, <1>4 DEF Texts
<1> QED
  BY <1>1, <1>2, <1>3, <1>4, <1>5, <1>6, <1>7 DEF items, message

\* While the panel is on the terminal, its fields are.
FieldsInv == "cleared" \notin since /\ Patchable(panel) => Fielded(panel.items, cells)

\* Displaying a panel puts its fields on the terminal.
LEMMA ShowFields ==
  ASSUME IOInv, NEW p \in Screen(Sent), Show(p), IOInv'
  PROVE  FieldsInv'
<1> HIDE DEF Sent, Char, Screen, Item
<1>1. panel' = p /\ since' = {} /\ at' \in {"user", "ended"} /\ terminal' = terminal
  BY DEF Show, Write
<1>2. SUFFICES ASSUME Patchable(panel')
               PROVE  Fielded(panel'.items, cells')
  BY DEF FieldsInv
<1> DEFINE items == panel'.items
           k == Len(items)
<1>3. LaidOut(panel') /\ ~RunsOff(panel')
  BY <1>2 DEF Patchable
<1>4. Displayed'
  <2>1. DrawnInv'
    BY ShowDraws
  <2>2. at' = "ended" => RunsOff(panel')
    BY <1>1, <1>3, <2>1 DEF DrawnInv
  <2> QED
    BY <1>1, <1>3, <2>1, <2>2 DEF DrawnInv
<1>5. /\ rejected' <=> Overran(items, k)
      /\ ~rejected' => Seen(items, terminal'.colour, k, cells') /\ Guarded(items, k, cells')
  BY <1>4 DEF Displayed
<1>6. items \in Seq(Item(Sent)) /\ Char \subseteq Sent
  BY <1>1, SentBytes DEF Screen
<1>7. /\ \A i \in DOMAIN items : ~ (OnPanel(items[i]) /\ Overruns(items[i]))
      /\ Laid(items) /\ \E i \in DOMAIN items : OnPanel(items[i])
  BY <1>3 DEF RunsOff, LaidOut, Laid
<1> HIDE DEF items
<1>8. DOMAIN items = 1 .. k
  BY <1>6
<1>9. Seen(items, terminal'.colour, k, cells') /\ Guarded(items, k, cells')
  <2>1. ~Overran(items, k)
    BY <1>7, <1>8 DEF Overran
  <2> QED
    BY <1>5, <2>1
<1>10. Attributes(cells') # {}
  <2>1. PICK i \in 1 .. k : OnPanel(items[i])
    BY <1>7, <1>8
  <2>2. items[i] \in Item(Sent) /\ Fits(items[i])
    BY <1>6, <1>7, <1>8, <2>1 DEF Laid
  <2>3. Addr(items[i]) \in Cells
    BY <1>6, <2>2, ItemCells, Zenon
  <2>4. cells'[Addr(items[i])].attr
    BY <1>9, <2>1 DEF Seen, Placed
  <2> QED
    BY <2>3, <2>4 DEF Attributes
<1>11. \A j \in 1 .. k : OnPanel(items[j]) /\ items[j].kind = "field" => cells'[Ending(items[j])].attr
  BY <1>9 DEF Seen, Placed
<1> QED
  BY <1>9, <1>10, <1>11 DEF Fielded, items

\* What the message leaves of a buffer with the fields: the fields, and all
\* that lies in them.
LEMMA PatchLeaves ==
  ASSUME NEW B, Char \subseteq B, NEW items \in Seq(Item(B)),
         NEW message, Texts(B, message), message # <<>>, NEW buf, Fielded(items, buf),
         \A j \in 1 .. Len(items) :
           OnPanel(items[j]) /\ items[j].kind = "field" =>
             /\ Ending(items[j]) \in Cells
             /\ \A m \in 1 .. Len(message) : Apart(items[j], message[m]),
         NEW w, Patched(B, message, Len(message), buf, w)
  PROVE  /\ Fielded(items, w.buf)
         /\ \A j \in 1 .. Len(items), x \in Cells :
              OnPanel(items[j]) /\ items[j].kind = "field" /\ x \in Occupied(items[j])
                => w.buf[x] = buf[x]
<1> HIDE DEF Char, Item
<1> DEFINE N == Len(items)
           M == Len(message)
<1>1. N \in Nat /\ M \in Nat /\ M > 0
  <2>1. message \in Seq(Item(B))
    BY DEF Texts
  <2> QED
    BY <2>1
<1>2. /\ \A x \in Cells : (\A m \in 1 .. M : x \notin Occupied(message[m])) => w.buf[x] = buf[x]
      /\ \A x \in Cells : w.buf[x].attr => w.buf[x].prot \/ w.buf[x] = buf[x]
      /\ \A x \in Cells :
           buf[x].attr /\ (\A m \in 1 .. M : x \notin Occupied(message[m]) \ {Addr(message[m])})
             => w.buf[x].attr
      /\ \E x \in Cells : w.buf[x].attr
  BY <1>1 DEF Patched
<1>3. ASSUME NEW j \in 1 .. N, OnPanel(items[j]), items[j].kind = "field"
      PROVE  /\ Ending(items[j]) \in Cells
             /\ \A m \in 1 .. M : /\ Occupied(items[j]) \cap Occupied(message[m]) = {}
                                  /\ Ending(items[j]) \notin Occupied(message[m]) \ {Addr(message[m])}
  BY <1>3 DEF Apart
<1> HIDE DEF N, M
<1>4. ASSUME NEW j \in 1 .. N, NEW x \in Cells,
             OnPanel(items[j]), items[j].kind = "field", x \in Occupied(items[j])
      PROVE  w.buf[x] = buf[x]
  BY <1>2, <1>3, <1>4
<1>5. ASSUME NEW j \in 1 .. N, OnPanel(items[j]), items[j].kind = "field"
      PROVE  w.buf[Ending(items[j])].attr
  <2>1. buf[Ending(items[j])].attr
    BY <1>5 DEF Fielded, N
  <2> QED
    BY <1>2, <1>3, <1>5, <2>1
<1>6. Guarded(items, N, w.buf)
  <2>1. Guarded(items, N, buf)
    BY DEF Fielded, N
  <2> QED
    BY <1>2, <2>1 DEF Guarded
<1>7. Attributes(w.buf) # {}
  BY <1>2 DEF Attributes
<1> QED
  BY <1>4, <1>5, <1>6, <1>7 DEF Fielded, N

\* Patching keeps the fields and what was typed.
LEMMA PatchFields ==
  ASSUME IOInv, FieldsInv, Patch, "cleared" \notin since, Patchable(panel)
  PROVE  /\ Fielded(panel.items, cells')
         /\ \A a \in InputCells(cells) \cup {x \in Attributes(cells) : ~cells[x].prot} :
              cells'[a] = cells[a]
<1> HIDE DEF Sent, Char, Screen, Item, Cell
<1> DEFINE items == panel.items
           message == panel.message
           home == DataAddr(CommandField)
<1>1. panel.command # 0 /\ message # <<>> /\ Write(RenderPartial(message, terminal.colour, home))
  BY DEF Patch
<1>2. \/ cells' = cells
      \/ cells' = Interpret(cells, cursor, RenderPartial(message, terminal.colour, home)).buf
  BY <1>1 DEF Write
<1>3. /\ Char \subseteq Sent /\ cells \in [Cells -> Cell(Sent)] /\ cursor \in Cells
      /\ terminal.colour \in BOOLEAN
  BY SentBytes DEF IOInv
<1>4. home \in Nat
  BY <1>1, CommandTyped
<1>5. /\ items \in Seq(Item(Sent)) /\ Laid(items) /\ ~Overran(items, Len(items))
      /\ Texts(Sent, message)
      /\ \A j \in 1 .. Len(items) :
           OnPanel(items[j]) /\ items[j].kind = "field" =>
             /\ Ending(items[j]) \in Cells
             /\ \A m \in 1 .. Len(message) : Apart(items[j], message[m])
  BY PatchableFacts
<1>6. Fielded(items, cells)
  BY DEF FieldsInv
<1> HIDE DEF items, message, home
<1>7. PICK w : /\ Patched(Sent, message, Len(message), cells, w)
               /\ Interpret(cells, cursor, RenderPartial(message, terminal.colour, home)).buf = w.buf
  <2>1. Texts(Sent, message)
    BY <1>5
  <2> DEFINE B == Sent
             colour == terminal.colour
  <2>2. Char \subseteq B /\ cells \in [Cells -> Cell(B)] /\ colour \in BOOLEAN /\ Texts(B, message)
    BY <1>3, <2>1
  <2> HIDE DEF B, colour
  <2>3. \E w : /\ Patched(B, message, Len(message), cells, w)
               /\ Interpret(cells, cursor, RenderPartial(message, colour, home)).buf = w.buf
    BY <1>3, <1>4, <2>2, PartialPatched
  <2> QED
    BY <2>3 DEF B, colour
<1>8. /\ Fielded(items, cells')
      /\ \A j \in 1 .. Len(items), x \in Cells :
           OnPanel(items[j]) /\ items[j].kind = "field" /\ x \in Occupied(items[j])
             => cells'[x] = cells[x]
  <2>1. CASE cells' = cells
    BY <1>6, <2>1
  <2>2. CASE cells' = w.buf
    BY <1>1, <1>3, <1>5, <1>6, <1>7, <2>2, PatchLeaves
  <2> QED
    BY <1>2, <1>7, <2>1, <2>2
<1>9. ASSUME NEW a \in InputCells(cells) \cup {x \in Attributes(cells) : ~cells[x].prot}
      PROVE  cells'[a] = cells[a]
  <2>1. PICK j \in 1 .. Len(items) :
          OnPanel(items[j]) /\ items[j].kind = "field" /\ a \in Occupied(items[j])
    BY <1>3, <1>5, <1>6, TypedWithin
  <2>2. a \in Cells
    <3>1. Attributes(cells) \subseteq Cells
      BY DEF Attributes
    <3>2. \A y \in Attributes(cells) : Members(Data(cells, y)) \subseteq Cells
      BY DataCells DEF Attributes
    <3> QED
      BY <3>1, <3>2 DEF InputCells
  <2> QED
    BY <1>8, <2>1, <2>2
<1> QED
  BY <1>8, <1>9 DEF items

\* What leaves all attributes leaves the fields.
LEMMA FieldsStay ==
  ASSUME IOInv, FieldsInv, panel' = panel, "cleared" \notin since' => "cleared" \notin since,
         Attributes(cells) # {} =>
           \A x \in Cells : /\ cells'[x].attr = cells[x].attr
                            /\ cells[x].attr => cells'[x].prot = cells[x].prot
  PROVE  FieldsInv'
<1> HIDE DEF Sent, Char, Screen, Item
<1>1. SUFFICES ASSUME "cleared" \notin since', Patchable(panel)
               PROVE  Fielded(panel.items, cells')
  BY DEF FieldsInv
<1> DEFINE items == panel.items
<1>2. \A j \in 1 .. Len(items) :
        OnPanel(items[j]) /\ items[j].kind = "field" => Ending(items[j]) \in Cells
  BY <1>1, PatchableFacts
<1>3. Fielded(items, cells)
  BY <1>1 DEF FieldsInv
<1> HIDE DEF items
<1>4. Attributes(cells) # {}
  BY <1>3 DEF Fielded
<1>5. Fielded(items, cells')
  BY <1>2, <1>3, <1>4, FieldedSame
<1> QED
  BY <1>5 DEF items

\* Every step keeps the fields.
LEMMA FieldsNext == IOInv /\ FieldsInv /\ [Next]_vars => FieldsInv'
<1> SUFFICES ASSUME IOInv, FieldsInv, [Next]_vars
             PROVE  FieldsInv'
  OBVIOUS
<1>0. IOInv' /\ cells \in [Cells -> Cell(Sent)] /\ Char \subseteq Sent /\ cursor \in Cells
  BY IONext, SentBytes DEF IOInv
<1> HIDE DEF Sent, Char, Screen, Cell
<1> DEFINE Leaves(buf) == \A x \in Cells : buf[x].attr = cells[x].attr /\ buf[x].prot = cells[x].prot
           Tagged(x, m, d, c) == [cells EXCEPT ![x].mdt = m, ![d].c = c]
<1>1. ASSUME NEW p \in Panels, Show(p)
      PROVE  FieldsInv'
  BY <1>0, <1>1, PanelsTyped, ShowFields
<1>2. CASE Redisplay
  <2> DEFINE q == Reseeded(panel, ReadTableRows(panel, read.fields))
  <2>1. Show(q)
    BY <1>2 DEF Redisplay
  <2>2. q \in Screen(Sent)
    BY ReseededTyped DEF IOInv
  <2> HIDE DEF q
  <2> QED
    BY <1>0, <2>1, <2>2, ShowFields
<1>3. CASE Patch
  <2>1. panel' = panel /\ ("cleared" \notin since' => "cleared" \notin since)
    BY <1>3 DEF Patch
  <2>2. SUFFICES ASSUME "cleared" \notin since, Patchable(panel)
                 PROVE  Fielded(panel.items, cells')
    BY <2>1 DEF FieldsInv
  <2> QED
    BY <1>3, <2>2, PatchFields
<1>4. CASE EraseInput
  <2> DEFINE home == DataAddr(CommandField)
  <2>1. /\ panel' = panel /\ ("cleared" \notin since' => "cleared" \notin since)
        /\ panel.command # 0 /\ Write(RenderEraseInput(home))
    BY <1>4 DEF EraseInput
  <2>2. cells' = cells \/ cells' = Interpret(cells, cursor, RenderEraseInput(home)).buf
    BY <2>1 DEF Write
  <2>3. home \in Nat
    BY <2>1, CommandTyped
  <2> HIDE DEF home
  <2>4. cells' # cells => \A x \in Cells : cells'[x] = IF x \in InputCells(cells) THEN EmptyCell
                                     ELSE [cells[x] EXCEPT !.mdt = FALSE]
    BY <1>0, <2>2, <2>3, InputErased
  <2>5. ASSUME cells' # cells, Attributes(cells) # {}, NEW x \in Cells
        PROVE  cells'[x].attr = cells[x].attr /\ (cells[x].attr => cells'[x].prot = cells[x].prot)
    <3>1. CASE x \in InputCells(cells)
      <4>1. PICK y \in Attributes(cells) : x \in Members(Data(cells, y))
        BY <2>5, <3>1 DEF InputCells
      <4>2. ~cells[x].attr
        BY <4>1, DataCells DEF Attributes
      <4>3. cells[x].attr \in BOOLEAN
        BY <1>0 DEF Cell
      <4>4. cells'[x] = EmptyCell
        BY <2>4, <2>5, <3>1
      <4>5. cells'[x].attr = FALSE
        BY <4>4 DEF EmptyCell
      <4>6. cells[x].attr = FALSE
        BY <4>2, <4>3
      <4> QED
        BY <4>2, <4>5, <4>6
    <3>2. CASE x \notin InputCells(cells)
      <4>1. cells'[x] = [cells[x] EXCEPT !.mdt = FALSE]
        BY <2>4, <2>5, <3>2
      <4>2. cells[x] \in Cell(Sent)
        BY <1>0
      <4> QED
        BY <4>1, <4>2 DEF Cell
    <3> QED
      BY <3>1, <3>2
  <2> QED
    BY <2>1, <2>5, FieldsStay
<1>5. CASE ReadReply
  <2>1. panel' = panel /\ cells' = cells /\ since' = since
    BY <1>5 DEF ReadReply
  <2> QED
    BY <2>1, FieldsStay
<1>6. ASSUME NEW buf, NEW cur, Edit(buf, cur), Leaves(buf)
      PROVE  FieldsInv'
  <2>1. panel' = panel /\ cells' = buf /\ since' = since \cup {"typed"}
    BY <1>6 DEF Edit
  <2>2. \A x \in Cells : cells'[x].attr = cells[x].attr
                         /\ (cells[x].attr => cells'[x].prot = cells[x].prot)
    BY <1>6, <2>1
  <2>3. "cleared" \notin since' => "cleared" \notin since
    BY <2>1
  <2> QED
    BY <2>1, <2>2, <2>3, FieldsStay
<1>7. ASSUME NEW x, NEW d, NEW m, NEW c
      PROVE  Leaves(Tagged(x, m, d, c))
  <2>1. ASSUME NEW y \in Cells
        PROVE  /\ [cells EXCEPT ![x].mdt = m, ![d].c = c][y].attr = cells[y].attr
               /\ [cells EXCEPT ![x].mdt = m, ![d].c = c][y].prot = cells[y].prot
    <3>1. cells[y] \in Cell(Sent)
      BY <1>0
    <3> QED
      BY <1>0, <3>1 DEF Cell
  <2> QED
    BY <2>1
<1> HIDE DEF Tagged
<1>8. CASE User
  <2>1. ASSUME NEW x, NEW n, NEW c, Type(x, n, c)
        PROVE  FieldsInv'
    <3> DEFINE a == Data(cells, x)[n]
    <3>1. Edit(Tagged(x, TRUE, a, c), Next1(a))
      BY <2>1 DEF Type, Tagged
    <3> HIDE DEF a, Leaves
    <3>2. Leaves(Tagged(x, TRUE, a, c))
      BY <1>7
    <3> QED
      BY <1>6, <3>1, <3>2
  <2>2. ASSUME NEW x, NEW n, EraseEof(x, n)
        PROVE  FieldsInv'
    <3> DEFINE field == Data(cells, x)
               gone == {field[k] : k \in n .. Len(field)}
               buf == [a \in Cells |-> IF a \in gone THEN [cells[a] EXCEPT !.c = Null]
                                       ELSE [cells[a] EXCEPT !.mdt = @ \/ a = x]]
    <3>1. Edit(buf, field[n])
      BY <2>2 DEF EraseEof
    <3> HIDE DEF gone, field
    <3>2. ASSUME NEW a \in Cells
          PROVE  buf[a].attr = cells[a].attr /\ buf[a].prot = cells[a].prot
      <4>1. cells[a] \in Cell(Sent)
        BY <1>0
      <4>2. buf[a] = IF a \in gone THEN [cells[a] EXCEPT !.c = Null]
                     ELSE [cells[a] EXCEPT !.mdt = @ \/ a = x]
        OBVIOUS
      <4> HIDE DEF buf
      <4> QED
        BY <4>1, <4>2 DEF Cell
    <3> HIDE DEF buf
    <3> QED
      BY <1>6, <3>1, <3>2
  <2>3. ASSUME NEW x, CursorSelect(x)
        PROVE  FieldsInv'
    <3> DEFINE d == Next1(x)
               m == (cells[d].c = Selectable)
               c == IF cells[d].c = Selectable THEN Selected ELSE Selectable
    <3>1. Edit(Tagged(x, m, d, c), d)
      BY <2>3 DEF CursorSelect, Tagged
    <3> HIDE DEF d, m, c, Leaves
    <3>2. Leaves(Tagged(x, m, d, c))
      BY <1>7
    <3> QED
      BY <1>6, <3>1, <3>2
  <2>4. ASSUME NEW a, MoveCursor(a)
        PROVE  FieldsInv'
    BY <1>6, <2>4 DEF MoveCursor
  <2>5. CASE PressEnter
    <3>1. panel' = panel /\ cells' = cells /\ since' = since
      BY <2>5 DEF PressEnter
    <3> QED
      BY <3>1, FieldsStay
  <2>6. CASE PressClear
    BY <2>6 DEF PressClear, FieldsInv
  <2> QED
    BY <1>8, <2>1, <2>2, <2>3, <2>4, <2>5, <2>6 DEF User
<1>9. CASE UNCHANGED vars
  <2>1. panel' = panel /\ cells' = cells /\ since' = since
    BY <1>9 DEF vars
  <2> QED
    BY <2>1, FieldsStay
<1> QED
  BY <1>1, <1>2, <1>3, <1>4, <1>5, <1>8, <1>9 DEF Next, App

-----------------------------------------------------------------------------
(* Theorems.                                                               *)

\* Whatever is displayed, typed, erased or selected, on any size of screen: the
\* buffer, the panel and what is read are of bytes, the cursor is on the screen,
\* and no reply of a terminal with coded addresses has an IAC.
THEOREM TypeCorrect == Spec => []TypeOK
<1>1. IOInv => TypeOK
  <2> SUFFICES ASSUME IOInv
               PROVE  TypeOK
    OBVIOUS
  <2>1. ASSUME NEW i \in DOMAIN panel.items
        PROVE  panel.items[i].text \in Seq(0 .. IAC)
    <3> HIDE DEF Sent, Char, Item
    <3>1. panel.items[i] \in Item(Sent)
      BY DEF IOInv, Screen
    <3>2. panel.items[i].text \in Seq(Sent)
      BY <3>1 DEF Item
    <3>3. Sent \subseteq Byte
      BY SentBytes
    <3> HIDE DEF Byte
    <3>4. Seq(Sent) \subseteq Seq(Byte)
      BY <3>3
    <3>5. panel.items[i].text \in Seq(Byte)
      BY <3>2, <3>4
    <3> QED
      BY <3>5 DEF Byte
  <2>2. ASSUME NEW a \in Cells
        PROVE  cells[a] \in [attr : BOOLEAN, prot : BOOLEAN, mdt : BOOLEAN, c : 0 .. IAC, fg : Char]
    <3> HIDE DEF Sent, Char
    <3>1. cells[a] \in Cell(Sent)
      BY DEF IOInv
    <3>2. Sent \subseteq 0 .. IAC
      BY SentBytes DEF Byte
    <3> QED
      BY <3>1, <3>2 DEF Cell
  <2>3. ASSUME NEW i \in DOMAIN reply
        PROVE  reply[i] \in 0 .. IAC /\ (reply[i] = IAC => terminal.oversize)
    <3>1. reply[i] \in Sent
      <4> HIDE DEF Sent
      <4> QED
        BY DEF IOInv
    <3>2. CASE terminal.oversize
      BY <3>1, <3>2 DEF Sent, Byte
    <3>3. CASE ~terminal.oversize
      <4>1. reply[i] \in 0 .. IAC - 1 /\ IAC \in Nat
        BY <3>1, <3>3, Bytes DEF Sent
      <4> QED
        BY <4>1
    <3> QED
      BY <3>2, <3>3
  <2>4. DOMAIN read.fields \subseteq Nat
    BY DEF IOInv, ReadOf
  <2> HIDE DEF Char
  <2> QED
    BY <2>1, <2>2, <2>3, <2>4 DEF IOInv, TypeOK
<1> QED
  BY <1>1, IOAlways, PTL

\* On every screen, with any layout of fields and wherever the cursor is left,
\* render_erase_input empties the fields, all of them, and nothing else
\* (screen.py:1111-1137).
THEOREM ErasesAllInput == Spec => EraseEmpties
<1>1. IOInv /\ [Next]_vars =>
        [EraseInput /\ at' = "user" =>
           \A a \in Cells :
             cells'[a] = IF a \in InputCells(cells) THEN EmptyCell
                         ELSE [cells[a] EXCEPT !.mdt = FALSE]]_vars
  <2> SUFFICES ASSUME IOInv, EraseInput, at' = "user"
               PROVE  \A a \in Cells :
                        cells'[a] = IF a \in InputCells(cells) THEN EmptyCell
                                    ELSE [cells[a] EXCEPT !.mdt = FALSE]
    OBVIOUS
  <2>1. panel.command # 0 /\ Write(RenderEraseInput(DataAddr(CommandField)))
    BY DEF EraseInput
  <2>2. cells' = Interpret(cells, cursor, RenderEraseInput(DataAddr(CommandField))).buf
    BY <2>1 DEF Write
  <2>3. DataAddr(CommandField) \in Nat
    BY <2>1, CommandTyped
  <2> DEFINE home == DataAddr(CommandField)
  <2>4. /\ home \in Nat /\ cells' = Interpret(cells, cursor, RenderEraseInput(home)).buf
        /\ cells \in [Cells -> Cell(Sent)] /\ cursor \in Cells /\ Char \subseteq Sent
    BY <2>2, <2>3, SentBytes DEF IOInv
  <2> HIDE DEF home, Char, Sent
  <2> QED
    BY <2>4, InputErased
<1> QED
  BY <1>1, IOAlways, PTL DEF Spec, EraseEmpties

\* Whatever panels are laid out on the screen, in whatever order they are
\* displayed and on whatever terminal: a full screen shows each of their items
\* with its characters in its colours at its place, and the user can type into
\* their fields and nothing else; and rendering it raises exactly when a field
\* ends in the last cell of the largest screen (screen.py:1016-1066,
\* ds3270.py:107-121).
THEOREM DrawnAsDeclared == Spec => []Drawn
<1>1. Init => DrawnInv
  BY DEF Init, DrawnInv
<1>2. IOInv /\ DrawnInv => Drawn
  <2> SUFFICES ASSUME IOInv, DrawnInv, at = "user", since = {}, LaidOut(panel)
               PROVE  AsDeclared
    BY DEF Drawn, DrawnInv, AsDeclared
  <2>1. (RunsOff(panel) => Size < Addressable) /\ Displayed
    BY DEF DrawnInv
  <2> QED
    BY <2>1, DisplayedDrawn, Zenon
<1> QED
  BY <1>1, <1>2, IOAlways, DrawnNext, PTL DEF Spec

\* On every screen, whatever has been typed, erased or patched since a panel
\* was displayed: a message that lies apart from the fields is patched without
\* a change to what was typed or to its modified tags (screen.py:1097).
THEOREM PatchKeepsTyped == Spec => PatchKeeps
<1>1. Init => FieldsInv
  BY DEF Init, FieldsInv
<1>2. IOInv /\ FieldsInv /\ [Next]_vars =>
        [Patch /\ "cleared" \notin since /\ Patchable(panel) =>
           \A a \in InputCells(cells) \cup {x \in Attributes(cells) : ~cells[x].prot} :
             cells'[a] = cells[a]]_vars
  <2> SUFFICES ASSUME IOInv, FieldsInv, Patch, "cleared" \notin since, Patchable(panel)
               PROVE  \A a \in InputCells(cells) \cup {x \in Attributes(cells) : ~cells[x].prot} :
                        cells'[a] = cells[a]
    OBVIOUS
  <2> QED
    BY PatchFields
<1> QED
  BY <1>1, <1>2, IOAlways, FieldsNext, PTL DEF Spec, PatchKeeps

=============================================================================
