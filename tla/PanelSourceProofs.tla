------------------------- MODULE PanelSourceProofs -------------------------
(***************************************************************************)
(* What dtl.py does with the words of a document, for every document: no   *)
(* word is drawn twice or forgotten, whichever end tags are left out.      *)
(*                                                                         *)
(* Between two events a word is in one of seven places (Kept): drawn, gone *)
(* (dropped by the layout or lost by a phrase), in the title, in a prompt  *)
(* that waits, or captured as the text, the entry's text or the            *)
(* description of the open element. The lemmas go from the items up: what  *)
(* one item and the lines of a text draw, what each _emit_* method draws,  *)
(* what is left of the captured words when an element is closed, and what  *)
(* a start tag, a text, an end tag and close() make of the seven places.   *)
(***************************************************************************)
EXTENDS PanelSource, WellFoundedInduction, FiniteSetTheorems, TLAPS

-----------------------------------------------------------------------------
(* Words and items.                                                        *)

Word == [id : Nat \X Nat, size : Nat]

\* A text that was written: no word of it comes twice.
Written(words) ==
  words \in Seq(Word) /\ \A i, j \in DOMAIN words : words[i].id = words[j].id => i = j

IsSeq(a) == \E X : a \in Seq(X)

Drawn(items) == UNION {items[i].words : i \in DOMAIN items}
Once(items) == \A i, j \in DOMAIN items : items[i].words \cap items[j].words # {} => i = j

\* Behind the items a the items b have others, which show the words V once.
Extended(a, b, V) ==
  /\ IsSeq(b) /\ Len(a) <= Len(b) /\ \A i \in 1 .. Len(a) : b[i] = a[i]
  /\ \A w : w \in V <=> \E i \in Len(a) + 1 .. Len(b) : w \in b[i].words
  /\ \A w : \A i, j \in Len(a) + 1 .. Len(b) : w \in b[i].words /\ w \in b[j].words => i = j

-----------------------------------------------------------------------------
(* The parser's record.                                                    *)

Chooser(sf) ==
  /\ DOMAIN sf = {"tag", "row", "origin", "numcol", "textcol", "start", "multi", "single",
       "auto", "count", "fchoice", "pmtbefore", "pmtwidth", "prompt", "prompted", "beside",
       "row0", "depth", "extend"}
  /\ sf.tag = "selfld"

Fields ==
  {"boxes", "items", "tag", "chars", "phrased", "phrase", "marks", "describing", "described", "description",
   "title", "titling", "sf", "pointed", "psRows", "entry", "entryText", "skip", "lists", "hang",
   "infoIndent", "selections", "selectionRows", "choices", "dropped", "lost", "led", "strained"}

Shape(s) ==
  /\ DOMAIN s = Fields
  /\ IsSeq(s.items)
  /\ s.sf = NoTag \/ Chooser(s.sf)

\* What a step that draws leaves alone.
Alike(s, t) ==
  /\ t.tag = s.tag /\ t.chars = s.chars /\ t.phrased = s.phrased
  /\ t.describing = s.describing /\ t.described = s.described /\ t.description = s.description
  /\ t.title = s.title /\ t.titling = s.titling
  /\ t.entry = s.entry /\ t.entryText = s.entryText /\ t.lost = s.lost

\* The prompt of a selection field, and whether it was drawn.
SamePrompt(s, t) ==
  /\ t.sf = NoTag <=> s.sf = NoTag
  /\ s.sf # NoTag => t.sf.prompt = s.sf.prompt /\ t.sf.prompted = s.sf.prompted

\* A step shows the words V behind the items, drops G, and captures nothing.
Draws(s, t, V, G) ==
  /\ Shape(t) /\ Alike(s, t) /\ SamePrompt(s, t)
  /\ t.dropped = s.dropped \cup G
  /\ Extended(s.items, t.items, V)

Layout ==
  {"boxes", "strained", "hang", "infoIndent", "lists", "pointed", "psRows", "selections",
   "selectionRows", "choices", "led", "skip", "phrase", "marks"}

\* Nothing is shown behind the items a by a.
LEMMA NothingMore ==
  ASSUME NEW a, IsSeq(a)
  PROVE  Extended(a, a, {}) /\ Len(a) \in Nat /\ DOMAIN a = 1 .. Len(a)
<1>1. Len(a) \in Nat /\ DOMAIN a = 1 .. Len(a)
  BY DEF IsSeq
<1> QED
  BY <1>1 DEF Extended

\* What is shown behind what is shown.
LEMMA Further ==
  ASSUME NEW a, IsSeq(a), NEW b, NEW c, NEW V, NEW W, Extended(a, b, V), Extended(b, c, W),
         V \cap W = {}
  PROVE  Extended(a, c, V \cup W)
<1>1. Len(a) \in Nat /\ Len(b) \in Nat /\ Len(c) \in Nat /\ Len(a) <= Len(b) /\ Len(b) <= Len(c)
  BY DEF IsSeq, Extended
<1>2. /\ \A i \in 1 .. Len(b) : c[i] = b[i]
      /\ \A i \in 1 .. Len(a) : b[i] = a[i]
  BY DEF Extended
<1>3. \A i \in 1 .. Len(a) : c[i] = a[i]
  BY <1>1, <1>2
<1>4. \A i : i \in Len(a) + 1 .. Len(c) <=> (i \in Len(a) + 1 .. Len(b) \/ i \in Len(b) + 1 .. Len(c))
  BY <1>1
<1>5. \A i \in Len(a) + 1 .. Len(b) : c[i] = b[i]
  BY <1>1, <1>2
<1>6. ASSUME NEW w
      PROVE  w \in V \cup W <=> \E i \in Len(a) + 1 .. Len(c) : w \in c[i].words
  <2>1. w \in V <=> \E i \in Len(a) + 1 .. Len(b) : w \in b[i].words
    BY DEF Extended
  <2>2. w \in W <=> \E i \in Len(b) + 1 .. Len(c) : w \in c[i].words
    BY DEF Extended
  <2> QED
    BY <1>4, <1>5, <2>1, <2>2
<1>7. ASSUME NEW w, NEW i \in Len(a) + 1 .. Len(c), NEW j \in Len(a) + 1 .. Len(c),
             w \in c[i].words, w \in c[j].words
      PROVE  i = j
  <2>1. ~(w \in V /\ w \in W)
    OBVIOUS
  <2>2. CASE w \notin W
    <3>1. i \in Len(a) + 1 .. Len(b) /\ j \in Len(a) + 1 .. Len(b)
      BY <1>4, <1>7, <2>2 DEF Extended
    <3> QED
      BY <1>5, <1>7, <3>1 DEF Extended
  <2>3. CASE w \notin V
    <3>1. i \in Len(b) + 1 .. Len(c) /\ j \in Len(b) + 1 .. Len(c)
      BY <1>4, <1>5, <1>7, <2>3 DEF Extended
    <3> QED
      BY <1>7, <3>1 DEF Extended
  <2> QED
    BY <2>1, <2>2, <2>3
<1>8. IsSeq(c) /\ Len(a) <= Len(c)
  BY <1>1 DEF Extended
<1> QED
  BY <1>3, <1>6, <1>7, <1>8 DEF Extended

\* A step that changes the layout alone draws nothing.
LEMMA LayoutDraws ==
  ASSUME NEW s, Shape(s), NEW t, DOMAIN t = DOMAIN s, \A x \in DOMAIN s \ Layout : t[x] = s[x]
  PROVE  Draws(s, t, {}, {})
<1>1. /\ t.tag = s.tag /\ t.chars = s.chars /\ t.phrased = s.phrased
      /\ t.describing = s.describing /\ t.described = s.described /\ t.description = s.description
      /\ t.title = s.title /\ t.titling = s.titling /\ t.dropped = s.dropped
      /\ t.entry = s.entry /\ t.entryText = s.entryText /\ t.lost = s.lost
      /\ t.items = s.items /\ t.sf = s.sf
  BY DEF Shape, Layout, Fields
<1>2. Extended(s.items, t.items, {})
  BY <1>1, NothingMore DEF Shape
<1> HIDE DEF Layout
<1> QED
  BY <1>1, <1>2 DEF Draws, Shape, Alike, SamePrompt

\* One step that draws, and another.
LEMMA DrawsOn ==
  ASSUME NEW s, Shape(s), NEW t, NEW u, NEW V, NEW W, NEW G, NEW H,
         Draws(s, t, V, G), Draws(t, u, W, H), V \cap W = {}
  PROVE  Draws(s, u, V \cup W, G \cup H)
<1>1. Extended(s.items, u.items, V \cup W)
  BY Further DEF Draws, Shape
<1>2. u.dropped = s.dropped \cup (G \cup H)
  BY DEF Draws
<1>3. Shape(u) /\ Alike(s, u) /\ SamePrompt(s, u)
  BY DEF Draws, Alike, SamePrompt
<1> QED
  BY <1>1, <1>2, <1>3 DEF Draws

-----------------------------------------------------------------------------
(* Induction up to a number.                                               *)

\* A non-empty set of numbers has a least one.
LEMMA Lowest ==
  ASSUME NEW T, T \subseteq Nat, T # {}
  PROVE  \E t \in T : \A u \in T : t <= u
<1>1. PICK t \in T : \A u \in T : ~ (<<u, t>> \in OpToRel(<, Nat))
  BY NatLessThanWellFounded, WFMin, Zenon
<1>2. ASSUME NEW u \in T
      PROVE  t <= u
  <2>1. SUFFICES ASSUME ~ (t <= u)
                 PROVE  FALSE
    OBVIOUS
  <2>2. u \in Nat /\ t \in Nat /\ u < t
    BY <2>1
  <2>3. <<u, t>> \in OpToRel(<, Nat)
    BY <2>2 DEF OpToRel
  <2> QED
    BY <1>1, <2>3
<1> QED
  BY <1>2

\* A set of numbers up to N that has 0 and every successor has all of them.
LEMMA Induct ==
  ASSUME NEW N \in Nat, NEW T, 0 \in T, \A n \in 1 .. N : n - 1 \in T => n \in T
  PROVE  0 .. N \subseteq T
<1> DEFINE out == {n \in 0 .. N : n \notin T}
<1> SUFFICES ASSUME out # {}
             PROVE  FALSE
  OBVIOUS
<1>1. PICK n \in out : \A m \in out : n <= m
  <2>1. out \subseteq Nat
    OBVIOUS
  <2> HIDE DEF out
  <2> QED
    BY <2>1, Lowest
<1>2. n \in 1 .. N /\ n \notin T /\ n - 1 \in 0 .. N
  OBVIOUS
<1>3. n - 1 \in T
  BY <1>1, <1>2
<1> QED
  BY <1>2, <1>3

\* From the state s, h[n] is what the n-th of N steps makes of h[n - 1].
IsHistory(h, N, s, step) ==
  /\ h = [n \in 0 .. N |-> h[n]]
  /\ h[0] = s /\ \A n \in 1 .. N : h[n] = step[n][h[n - 1]]

\* A machine that takes N steps has a history, in S[n] after the n-th.
LEMMA History ==
  ASSUME NEW S, NEW N \in Nat, NEW s \in S[0], NEW step,
         \A n \in 1 .. N : \A t \in S[n - 1] : step[n][t] \in S[n]
  PROVE  \E h : IsHistory(h, N, s, step) /\ \A n \in 0 .. N : h[n] \in S[n]
<1> DEFINE Run(h, m) == /\ h[0] = s /\ \A n \in 1 .. m : h[n] = step[n][h[n - 1]]
                        /\ \A n \in 0 .. m : h[n] \in S[n]
           T == {m \in 0 .. N : \E h : Run(h, m)}
<1>1. 0 \in T
  <2> DEFINE h == [i \in 0 .. 0 |-> s]
  <2>1. Run(h, 0)
    OBVIOUS
  <2> HIDE DEF h
  <2> QED
    BY <2>1
<1>2. ASSUME NEW n \in 1 .. N, n - 1 \in T
      PROVE  n \in T
  <2>1. PICK f : Run(f, n - 1)
    BY <1>2
  <2> DEFINE h == [i \in 0 .. n |-> IF i = n THEN step[n][f[n - 1]] ELSE f[i]]
  <2>2. n - 1 \in 0 .. n - 1 /\ f[n - 1] \in S[n - 1] /\ step[n][f[n - 1]] \in S[n]
    <3>1. n - 1 \in 0 .. n - 1
      OBVIOUS
    <3>2. f[n - 1] \in S[n - 1]
      BY <2>1, <3>1
    <3> QED
      BY <3>1, <3>2
  <2>3. \A i \in 0 .. n : h[i] = IF i = n THEN step[n][f[n - 1]] ELSE f[i]
    OBVIOUS
  <2> HIDE DEF h
  <2>4. h[0] = s
    BY <2>1, <2>3
  <2>5. ASSUME NEW i \in 0 .. n
        PROVE  h[i] \in S[i]
    <3>1. CASE i = n
      BY <2>2, <2>3, <3>1
    <3>2. CASE i # n
      <4>1. i \in 0 .. n - 1
        BY <3>2
      <4> QED
        BY <2>1, <2>3, <3>2, <4>1
    <3> QED
      BY <3>1, <3>2
  <2>6. ASSUME NEW i \in 1 .. n
        PROVE  h[i] = step[i][h[i - 1]]
    <3>1. i \in 0 .. n /\ i - 1 \in 0 .. n /\ i - 1 # n
      OBVIOUS
    <3>2. CASE i = n
      BY <2>3, <3>1, <3>2
    <3>3. CASE i # n
      <4>1. i \in 1 .. n - 1
        BY <3>3
      <4>2. f[i] = step[i][f[i - 1]]
        BY <2>1, <4>1
      <4> QED
        BY <2>3, <3>1, <3>3, <4>2
    <3> QED
      BY <3>2, <3>3
  <2>7. Run(h, n) /\ n \in 0 .. N
    BY <2>4, <2>5, <2>6
  <2> HIDE DEF Run
  <2> QED
    BY <2>7
<1> HIDE DEF T
<1>3. 0 .. N \subseteq T
  BY <1>1, <1>2, Induct
<1>4. N \in T
  BY <1>3
<1>5. PICK f : Run(f, N)
  BY <1>4 DEF T
<1> DEFINE h == [n \in 0 .. N |-> f[n]]
<1>6. \A n \in 0 .. N : h[n] = f[n]
  OBVIOUS
<1>7. h = [n \in 0 .. N |-> h[n]]
  OBVIOUS
<1> HIDE DEF h
<1>8. Run(h, N)
  <2>1. 0 \in 0 .. N /\ \A n \in 1 .. N : n \in 0 .. N /\ n - 1 \in 0 .. N
    OBVIOUS
  <2> QED
    BY <1>5, <1>6, <2>1
<1>9. IsHistory(h, N, s, step)
  BY <1>7, <1>8 DEF IsHistory
<1> QED
  BY <1>8, <1>9

-----------------------------------------------------------------------------
(* Wrapping.                                                               *)

\* The lines hold the first n words, each once.
Holds(lines, words, n) ==
  /\ lines \in Seq(Seq(Word)) /\ lines # <<>>
  /\ \A w : (\E i \in 1 .. n : words[i].id = w) <=> \E k \in 1 .. Len(lines) : w \in Ids(lines[k])
  /\ \A w : \A k, m \in 1 .. Len(lines) : w \in Ids(lines[k]) /\ w \in Ids(lines[m]) => k = m

\* A word more is in the last line, or in one behind it.
LEMMA TakenHolds ==
  ASSUME NEW words, Written(words), NEW n \in 1 .. Len(words), NEW width,
         NEW lines, Holds(lines, words, n - 1)
  PROVE  Holds(Taken(lines, words[n], width), words, n)
<1> DEFINE v == words[n]
           L == Len(lines)
           line == Last(lines)
           next == Taken(lines, v, width)
<1>1. /\ v \in Word /\ L \in Nat /\ L >= 1 /\ line = lines[L] /\ line \in Seq(Word)
      /\ \A k \in 1 .. L : lines[k] \in Seq(Word)
      /\ n \in Nat /\ n >= 1
  BY DEF Written, Holds, Last
<1>2. \A i : i \in 1 .. n <=> i \in 1 .. n - 1 \/ i = n
  BY <1>1
<1>3. \A k \in 1 .. L : v.id \notin Ids(lines[k])
  <2>1. \A i \in 1 .. n - 1 : words[i].id # v.id
    BY <1>1 DEF Written
  <2> QED
    BY <2>1 DEF Holds
<1>4. /\ Append(line, v) \in Seq(Word) /\ <<v>> \in Seq(Word)
      /\ \A w : w \in Ids(Append(line, v)) <=> w \in Ids(line) \/ w = v.id
      /\ \A w : w \in Ids(<<v>>) <=> w = v.id
  <2>1. Append(line, v) \in Seq(Word) /\ <<v>> \in Seq(Word)
    BY <1>1
  <2>2. /\ DOMAIN line = 1 .. Len(line) /\ Len(line) \in Nat
        /\ DOMAIN Append(line, v) = 1 .. Len(line) + 1
        /\ \A i \in 1 .. Len(line) : Append(line, v)[i] = line[i]
        /\ Append(line, v)[Len(line) + 1] = v
    BY <1>1
  <2>3. \A i : i \in 1 .. Len(line) + 1 <=> i \in 1 .. Len(line) \/ i = Len(line) + 1
    BY <2>2
  <2>4. DOMAIN <<v>> = {1} /\ <<v>>[1] = v
    OBVIOUS
  <2> HIDE DEF v, line
  <2> QED
    BY <2>1, <2>2, <2>3, <2>4 DEF Ids
<1>5. \A w : \A k, m \in 1 .. L : w \in Ids(lines[k]) /\ w \in Ids(lines[m]) => k = m
  BY DEF Holds
<1>6. CASE next = [lines EXCEPT ![L] = Append(line, v)]
  <2>1. /\ next \in Seq(Seq(Word)) /\ Len(next) = L /\ next # <<>>
        /\ \A k \in 1 .. L : next[k] = IF k = L THEN Append(line, v) ELSE lines[k]
    <3> HIDE DEF next, v, line, L
    <3>1. lines \in Seq(Seq(Word)) /\ L = Len(lines)
      BY DEF Holds, L
    <3>2. /\ next \in Seq(Seq(Word)) /\ Len(next) = L
          /\ \A k \in 1 .. L : next[k] = IF k = L THEN Append(line, v) ELSE lines[k]
      BY <1>1, <1>4, <1>6, <3>1
    <3> QED
      BY <1>1, <3>2
  <2>2. \A w : \A k \in 1 .. L : w \in Ids(next[k]) <=> w \in Ids(lines[k]) \/ (k = L /\ w = v.id)
    <3> HIDE DEF next, v, line, L
    <3> QED
      BY <1>1, <1>4, <2>1
  <2> HIDE DEF next, v, line
  <2>3. L \in 1 .. L
    BY <1>1
  <2>4. ASSUME NEW w
        PROVE  (\E i \in 1 .. n : words[i].id = w) <=> \E k \in 1 .. L : w \in Ids(next[k])
    BY <1>2, <2>2, <2>3 DEF Holds, v
  <2>5. ASSUME NEW w, NEW k \in 1 .. L, NEW m \in 1 .. L, w \in Ids(next[k]), w \in Ids(next[m])
        PROVE  k = m
    <3>1. CASE w = v.id
      BY <1>3, <2>2, <2>5, <3>1
    <3>2. CASE w # v.id
      <4>1. w \in Ids(lines[k]) /\ w \in Ids(lines[m])
        BY <2>2, <2>5, <3>2
      <4> QED
        BY <1>5, <4>1
    <3> QED
      BY <3>1, <3>2
  <2>6. Holds(next, words, n)
    BY <2>1, <2>4, <2>5 DEF Holds
  <2> QED
    BY <2>6 DEF next, v
<1>7. CASE next = Append(lines, <<v>>)
  <2>1. /\ next \in Seq(Seq(Word)) /\ Len(next) = L + 1 /\ next # <<>>
        /\ \A k \in 1 .. L : next[k] = lines[k]
        /\ next[L + 1] = <<v>>
    <3> HIDE DEF next, v, line, L
    <3>1. lines \in Seq(Seq(Word)) /\ L = Len(lines)
      BY DEF Holds, L
    <3>2. /\ next \in Seq(Seq(Word)) /\ Len(next) = L + 1
          /\ \A k \in 1 .. L : next[k] = lines[k]
          /\ next[L + 1] = <<v>>
      BY <1>1, <1>4, <1>7, <3>1
    <3> QED
      BY <1>1, <3>2
  <2>2. /\ \A k : k \in 1 .. L + 1 <=> k \in 1 .. L \/ k = L + 1
        /\ L + 1 \notin 1 .. L
    BY <1>1
  <2>3. \A w : w \in Ids(next[L + 1]) <=> w = v.id
    BY <1>4, <2>1
  <2> HIDE DEF next, v, line
  <2>4. ASSUME NEW w
        PROVE  (\E i \in 1 .. n : words[i].id = w) <=> \E k \in 1 .. L + 1 : w \in Ids(next[k])
    BY <1>2, <2>1, <2>2, <2>3 DEF Holds, v
  <2>5. ASSUME NEW w, NEW k \in 1 .. L + 1, NEW m \in 1 .. L + 1, w \in Ids(next[k]), w \in Ids(next[m])
        PROVE  k = m
    <3>1. CASE w = v.id
      <4>1. k = L + 1 /\ m = L + 1
        BY <1>3, <2>1, <2>2, <2>5, <3>1
      <4> QED
        BY <4>1
    <3>2. CASE w # v.id
      <4>1. k \in 1 .. L /\ m \in 1 .. L
        BY <2>2, <2>3, <2>5, <3>2
      <4>2. w \in Ids(lines[k]) /\ w \in Ids(lines[m])
        BY <2>1, <2>5, <4>1
      <4> QED
        BY <1>5, <4>1, <4>2
    <3> QED
      BY <3>1, <3>2
  <2>6. Holds(next, words, n)
    BY <2>1, <2>4, <2>5 DEF Holds
  <2> QED
    BY <2>6 DEF next, v
<1> QED
  BY <1>6, <1>7 DEF Taken

\* The lines of a text hold its words, each once.
LEMMA WrapHolds ==
  ASSUME NEW words, Written(words), NEW width
  PROVE  Holds(Wrap(words, width), words, Len(words))
<1> DEFINE N == Len(words)
           U(f) == f = [n \in 0 .. N |-> IF n = 0 THEN << <<>> >> ELSE Taken(f[n - 1], words[n], width)]
           S == [n \in 0 .. N |-> {t \in Seq(Seq(Word)) : Holds(t, words, n)}]
           step == [n \in 1 .. N |-> [t \in Seq(Seq(Word)) |-> Taken(t, words[n], width)]]
<1>1. N \in Nat
  BY DEF Written
<1>2. \A n \in 0 .. N : \A t : t \in S[n] <=> Holds(t, words, n)
  BY DEF Holds
<1>3. \A n \in 1 .. N : \A t \in Seq(Seq(Word)) : step[n][t] = Taken(t, words[n], width)
  OBVIOUS
<1>4. << <<>> >> \in S[0]
  <2>1. << <<>> >> \in Seq(Seq(Word)) /\ Len(<< <<>> >>) = 1 /\ << <<>> >>[1] = <<>> /\ << <<>> >> # <<>>
    OBVIOUS
  <2>2. \A w : w \notin Ids(<<>>)
    BY DEF Ids
  <2>3. \A k \in 1 .. 1 : << <<>> >>[k] = <<>> /\ k = 1
    OBVIOUS
  <2>4. Holds(<< <<>> >>, words, 0)
    BY <2>1, <2>2, <2>3 DEF Holds
  <2> QED
    BY <1>1, <1>2, <2>4
<1> HIDE DEF S, step
<1>5. \A n \in 1 .. N : \A t \in S[n - 1] : step[n][t] \in S[n]
  <2> TAKE n \in 1 .. N
  <2> TAKE t \in S[n - 1]
  <2>1. n - 1 \in 0 .. N /\ n \in 0 .. N
    BY <1>1
  <2>2. Holds(t, words, n - 1) /\ t \in Seq(Seq(Word))
    BY <1>2, <2>1 DEF Holds
  <2>3. Holds(Taken(t, words[n], width), words, n)
    BY <2>2, TakenHolds
  <2> QED
    BY <1>2, <1>3, <2>1, <2>2, <2>3
<1>6. PICK h : IsHistory(h, N, << <<>> >>, step) /\ \A n \in 0 .. N : h[n] \in S[n]
  <2> HIDE DEF N
  <2> QED
    BY <1>1, <1>4, <1>5, History
<1>7. \A n \in 1 .. N : h[n] = Taken(h[n - 1], words[n], width)
  <2> TAKE n \in 1 .. N
  <2>1. h[n - 1] \in Seq(Seq(Word))
    BY <1>1, <1>2, <1>6 DEF Holds
  <2> QED
    BY <1>3, <1>6, <2>1 DEF IsHistory
<1>8. U(h)
  BY <1>1, <1>6, <1>7 DEF IsHistory
<1> DEFINE lines == CHOOSE f : U(f)
<1>9. U(lines)
  <2> HIDE DEF U
  <2> QED
    BY <1>8
<1>10. Wrap(words, width) = lines[N]
  BY DEF Wrap
<1> HIDE DEF lines
<1>11. \A n \in 0 .. N : lines[n] = IF n = 0 THEN << <<>> >> ELSE Taken(lines[n - 1], words[n], width)
  BY <1>9
<1> DEFINE T == {n \in 0 .. N : Holds(lines[n], words, n)}
<1>12. 0 \in T
  BY <1>1, <1>2, <1>4, <1>11
<1>13. ASSUME NEW n \in 1 .. N, n - 1 \in T
       PROVE  n \in T
  <2>1. n \in 0 .. N /\ n # 0
    BY <1>1
  <2>2. lines[n] = Taken(lines[n - 1], words[n], width)
    BY <1>11, <2>1
  <2>3. Holds(lines[n - 1], words, n - 1)
    BY <1>13
  <2> QED
    BY <2>1, <2>2, <2>3, TakenHolds
<1>14. N \in T
  <2> HIDE DEF T
  <2>1. 0 .. N \subseteq T
    BY <1>1, <1>12, <1>13, Induct
  <2> QED
    BY <1>1, <2>1
<1> QED
  BY <1>10, <1>14

-----------------------------------------------------------------------------
(* Drawing.                                                                *)

\* An item shows its words.
LEMMA ItemWords ==
  ASSUME NEW kind, NEW row, NEW col, NEW length, NEW words, NEW room, NEW n
  PROVE  /\ Item(kind, row, col, length, words).words = Ids(words)
         /\ TextAt(row, col, words).words = Ids(words)
         /\ CutAt(row, col, words, room).words = Inside(words, room)
         /\ [Item(kind, row, col, length, words) EXCEPT !.num = n].words = Ids(words)
<1>1. Item(kind, row, col, length, words).words = Ids(words)
  BY DEF Item
<1>2. \A m : Item("text", row, col, m, words).words = Ids(words)
  BY DEF Item
<1>3. \A m, X : [Item("text", row, col, m, <<>>) EXCEPT !.words = X].words = X
  BY DEF Item
<1>4. [Item(kind, row, col, length, words) EXCEPT !.num = n].words = Ids(words)
  BY DEF Item
<1> QED
  BY <1>1, <1>2, <1>3, <1>4, Zenon DEF TextAt, CutAt

\* An item more.
LEMMA AddDraws ==
  ASSUME NEW s, Shape(s), NEW item
  PROVE  Draws(s, Add(s, item), item.words, {})
<1> DEFINE t == Add(s, item)
           N == Len(s.items)
<1>1. PICK X : s.items \in Seq(X)
  BY DEF Shape, IsSeq
<1>2. /\ Append(s.items, item) \in Seq(X \cup {item}) /\ N \in Nat
      /\ Len(Append(s.items, item)) = N + 1
      /\ \A i \in 1 .. N : Append(s.items, item)[i] = s.items[i]
      /\ Append(s.items, item)[N + 1] = item
  <2>1. s.items \in Seq(X \cup {item}) /\ item \in X \cup {item}
    BY <1>1
  <2> HIDE DEF N
  <2>2. N = Len(s.items)
    BY DEF N
  <2> QED
    BY <2>1, <2>2
<1>3. \A i : i \in N + 1 .. N + 1 <=> i = N + 1
  BY <1>2
<1>4. Extended(s.items, Append(s.items, item), item.words)
  <2>1. IsSeq(Append(s.items, item)) /\ N <= N + 1
    BY <1>2 DEF IsSeq
  <2> HIDE DEF N
  <2>2. N = Len(s.items)
    BY DEF N
  <2> QED
    BY <1>2, <1>3, <2>1, <2>2 DEF Extended
<1>5. /\ DOMAIN t = DOMAIN s /\ t.items = Append(s.items, item) /\ t.dropped = s.dropped
      /\ t.sf = s.sf /\ Alike(s, t)
  BY DEF Add, Shape, Fields, Alike
<1> HIDE DEF t
<1>6. Shape(t)
  BY <1>4, <1>5 DEF Shape, Extended
<1>7. Draws(s, t, item.words, {})
  BY <1>4, <1>5, <1>6 DEF Draws, SamePrompt
<1> QED
  BY <1>7 DEF t

\* The lines of a text more.
LEMMA AddLinesDraws ==
  ASSUME NEW s, Shape(s), NEW row, NEW col, NEW words, Written(words), NEW width
  PROVE  Draws(s, AddLines(s, row, col, Wrap(words, width)), Ids(words), {})
<1> DEFINE lines == Wrap(words, width)
           more == [i \in DOMAIN lines |-> TextAt(row + i - 1, col, lines[i])]
           t == AddLines(s, row, col, lines)
           N == Len(s.items)
           L == Len(lines)
<1>1. Holds(lines, words, Len(words))
  BY WrapHolds
<1>2. L \in Nat /\ DOMAIN lines = 1 .. L
  BY <1>1 DEF Holds
<1>3. /\ DOMAIN more = 1 .. L /\ \A i \in 1 .. L : more[i].words = Ids(lines[i])
  <2>1. \A i \in 1 .. L : more[i] = TextAt(row + i - 1, col, lines[i])
    BY <1>2
  <2> HIDE DEF more
  <2>2. \A i \in 1 .. L : more[i].words = Ids(lines[i])
    <3> TAKE i \in 1 .. L
    <3> DEFINE line == lines[i]
    <3>1. more[i] = TextAt(row + i - 1, col, line)
      BY <2>1
    <3> HIDE DEF line
    <3>2. more[i].words = Ids(line)
      BY <3>1, ItemWords
    <3> QED
      BY <3>2 DEF line
  <2>3. DOMAIN more = 1 .. L
    BY <1>2 DEF more
  <2> QED
    BY <2>2, <2>3
<1>4. PICK Y : more \in Seq(Y) /\ Len(more) = L
  <2> DEFINE Y == {more[i] : i \in 1 .. L}
  <2>1. more = [i \in 1 .. L |-> more[i]]
    BY <1>2
  <2> HIDE DEF more, lines
  <2>2. more \in [1 .. L -> Y]
    BY <2>1
  <2> HIDE DEF Y
  <2> QED
    BY <1>2, <2>2
<1>5. PICK X : s.items \in Seq(X)
  BY DEF Shape, IsSeq
<1> DEFINE b == s.items \o more
<1>6. /\ b \in Seq(X \cup Y) /\ N \in Nat /\ Len(b) = N + L
      /\ \A i \in 1 .. N : b[i] = s.items[i]
      /\ \A i \in N + 1 .. N + L : b[i] = more[i - N] /\ i - N \in 1 .. L
  <2>1. s.items \in Seq(X \cup Y) /\ more \in Seq(X \cup Y)
    BY <1>4, <1>5
  <2>2. N = Len(s.items) /\ L = Len(more)
    BY <1>4
  <2> HIDE DEF N, L, more
  <2> QED
    BY <2>1, <2>2
<1>7. \A w : w \in Ids(words) <=> \E k \in 1 .. L : w \in Ids(lines[k])
  <2>1. \A w : w \in Ids(words) <=> \E i \in 1 .. Len(words) : words[i].id = w
    BY DEF Ids, Written
  <2> QED
    BY <1>1, <2>1 DEF Holds
<1>8. \A w : \A k, m \in 1 .. L : w \in Ids(lines[k]) /\ w \in Ids(lines[m]) => k = m
  BY <1>1 DEF Holds
<1>9. /\ \A k \in 1 .. L : k + N \in N + 1 .. N + L /\ (k + N) - N = k
      /\ \A i, j \in N + 1 .. N + L : i - N = j - N => i = j
  BY <1>2, <1>6
<1>10. \A i \in N + 1 .. N + L : b[i].words = Ids(lines[i - N])
  BY <1>3, <1>6
<1>11. Extended(s.items, b, Ids(words))
  <2> HIDE DEF lines, more, b, N, L
  <2>1. \A w : w \in Ids(words) <=> \E i \in N + 1 .. N + L : w \in b[i].words
    <3> TAKE w
    <3>1. ASSUME NEW k \in 1 .. L, w \in Ids(lines[k])
          PROVE  \E i \in N + 1 .. N + L : w \in b[i].words
      <4>1. k + N \in N + 1 .. N + L /\ b[k + N].words = Ids(lines[k])
        BY <1>9, <1>10
      <4> QED
        BY <3>1, <4>1
    <3>2. ASSUME NEW i \in N + 1 .. N + L, w \in b[i].words
          PROVE  \E k \in 1 .. L : w \in Ids(lines[k])
      BY <1>6, <1>10, <3>2
    <3> QED
      BY <1>7, <3>1, <3>2
  <2>2. \A w : \A i, j \in N + 1 .. N + L : w \in b[i].words /\ w \in b[j].words => i = j
    <3> TAKE w
    <3> TAKE i, j \in N + 1 .. N + L
    <3> HAVE w \in b[i].words /\ w \in b[j].words
    <3>1. w \in Ids(lines[i - N]) /\ w \in Ids(lines[j - N]) /\ i - N \in 1 .. L /\ j - N \in 1 .. L
      BY <1>6, <1>10
    <3>2. i - N = j - N
      BY <1>8, <3>1
    <3> QED
      BY <1>9, <3>2
  <2>3. IsSeq(b) /\ N <= Len(b)
    BY <1>2, <1>6 DEF IsSeq
  <2>4. Len(s.items) = N
    BY DEF N
  <2> QED
    BY <1>6, <2>1, <2>2, <2>3, <2>4 DEF Extended
<1>12. /\ DOMAIN t = DOMAIN s /\ t.items = b /\ t.dropped = s.dropped
       /\ t.sf = s.sf /\ Alike(s, t)
  <2> HIDE DEF lines
  <2>1. t = [s EXCEPT !.items = b]
    BY DEF AddLines
  <2> HIDE DEF b, t
  <2> QED
    BY <2>1 DEF Shape, Fields, Alike
<1> HIDE DEF t, b
<1>13. Shape(t)
  BY <1>11, <1>12 DEF Shape, Extended
<1>14. Draws(s, t, Ids(words), {})
  BY <1>11, <1>12, <1>13 DEF Draws, SamePrompt
<1> QED
  BY <1>14 DEF t

\* A step that draws, and a step before or after it that does not.
LEMMA DrawsAlone ==
  ASSUME NEW s, Shape(s), NEW t, NEW u, NEW V, NEW G
  PROVE  /\ Draws(s, s, {}, {})
         /\ Draws(s, t, V, G) /\ Draws(t, u, {}, {}) => Draws(s, u, V, G)
         /\ Draws(s, t, {}, {}) /\ Draws(t, u, V, G) => Draws(s, u, V, G)
<1>1. Draws(s, s, {}, {})
  BY LayoutDraws
<1>2. V \cup {} = V /\ G \cup {} = G /\ {} \cup V = V /\ {} \cup G = G /\ V \cap {} = {} /\ {} \cap V = {}
  OBVIOUS
<1>3. ASSUME Draws(s, t, V, G), Draws(t, u, {}, {})
      PROVE  Draws(s, u, V, G)
  <2>1. Draws(s, u, V \cup {}, G \cup {})
    BY <1>2, <1>3, DrawsOn
  <2> QED
    BY <1>2, <2>1
<1>4. ASSUME Draws(s, t, {}, {}), Draws(t, u, V, G)
      PROVE  Draws(s, u, V, G)
  <2>1. Draws(s, u, {} \cup V, {} \cup G)
    BY <1>2, <1>4, DrawsOn
  <2> QED
    BY <1>2, <2>1
<1> QED
  BY <1>1, <1>3, <1>4

\* The flow moves on.
LEMMA FlowDraws ==
  ASSUME NEW s, Shape(s), NEW box, NEW row, NEW e, NEW start
  PROVE  /\ Draws(s, SetBox(s, box), {}, {})
         /\ Draws(s, SetRow(s, row), {}, {})
         /\ Draws(s, Placed(s), {}, {})
         /\ Draws(s, SkipBlankBefore(s, e), {}, {})
         /\ Draws(s, FlowHoriz(s, start), {}, {})
         /\ Draws(s, BlankAfter(s), {}, {})
<1>1. ASSUME NEW b
      PROVE  /\ DOMAIN SetBox(s, b) = DOMAIN s
             /\ \A x \in DOMAIN s \ Layout : SetBox(s, b)[x] = s[x]
  BY DEF SetBox, Layout
<1>2. \A b : Draws(s, SetBox(s, b), {}, {})
  <2> TAKE b
  <2> DEFINE t == SetBox(s, b)
  <2>1. DOMAIN t = DOMAIN s /\ \A x \in DOMAIN s \ Layout : t[x] = s[x]
    BY <1>1
  <2> HIDE DEF t
  <2>2. Draws(s, t, {}, {})
    BY <2>1, LayoutDraws
  <2> QED
    BY <2>2 DEF t
<1>3. \A r : Draws(s, SetRow(s, r), {}, {})
  <2> TAKE r
  <2> DEFINE b == [Box(s) EXCEPT !.row = r]
  <2> HIDE DEF b
  <2>1. Draws(s, SetBox(s, b), {}, {})
    BY <1>2
  <2> QED
    BY <2>1 DEF SetRow, b
<1>4. Draws(s, Placed(s), {}, {})
  <2> DEFINE t == Placed(s)
             b == [Box(s) EXCEPT !.row = @ + 1, !.had = TRUE]
             u == SetBox(s, b)
  <2> HIDE DEF b
  <2>1. DOMAIN u = DOMAIN s /\ \A x \in DOMAIN s \ Layout : u[x] = s[x]
    BY <1>1
  <2> HIDE DEF u
  <2>2. \E x : t = [u EXCEPT !.strained = x]
    BY DEF Placed, u, b
  <2>3. DOMAIN t = DOMAIN s /\ \A x \in DOMAIN s \ Layout : t[x] = s[x]
    <3> HIDE DEF t
    <3> QED
      BY <2>1, <2>2 DEF Layout
  <2> HIDE DEF t
  <2>4. Draws(s, t, {}, {})
    BY <2>3, LayoutDraws
  <2> QED
    BY <2>4 DEF t
<1>5. Draws(s, SkipBlankBefore(s, e), {}, {})
  <2>1. Draws(s, SetRow(s, Box(s).row + 1), {}, {}) /\ Draws(s, s, {}, {})
    BY <1>3, DrawsAlone
  <2> QED
    BY <2>1, Zenon DEF SkipBlankBefore
<1>6. Draws(s, FlowHoriz(s, start), {}, {})
  BY <1>2, Zenon DEF FlowHoriz
<1> QED
  BY <1>2, <1>3, <1>4, <1>5, <1>6, Zenon DEF BlankAfter

\* Lines of text, and the flow goes on below.
LEMMA LinesDraw ==
  ASSUME NEW s, Shape(s), NEW words, Written(words), NEW row, NEW col, NEW width, NEW below
  PROVE  /\ Draws(s, SetRow(AddLines(s, row, col, Wrap(words, width)), below), Ids(words), {})
         /\ Draws(s, FlowLines(s, words, row, col), Ids(words), {})
<1>1. ASSUME NEW w, NEW b
      PROVE  Draws(s, SetRow(AddLines(s, row, col, Wrap(words, w)), b), Ids(words), {})
  <2> DEFINE t == AddLines(s, row, col, Wrap(words, w))
             u == SetRow(t, b)
  <2>1. Draws(s, t, Ids(words), {})
    BY AddLinesDraws
  <2> HIDE DEF t
  <2>2. Draws(t, u, {}, {})
    BY <2>1, FlowDraws DEF Draws
  <2> HIDE DEF u
  <2>3. Draws(s, u, Ids(words), {})
    BY <2>1, <2>2, DrawsAlone
  <2> QED
    BY <2>3 DEF u, t
<1> QED
  BY <1>1, Zenon DEF FlowLines

-----------------------------------------------------------------------------
(* Emitting.                                                               *)

\* _emit_info.
LEMMA InfoDraws ==
  ASSUME NEW s, Shape(s), NEW e, NEW words, Written(words)
  PROVE  Draws(s, EmitInfo(s, e, words), Ids(words), {})
<1>1. ASSUME NEW t, Shape(t), NEW row, NEW col
      PROVE  Draws(t, InfoAt(t, row, col, e, words), Ids(words), {})
  <2>1. Draws(t, FlowLines(t, words, row, col), Ids(words), {})
    BY <1>1, LinesDraw
  <2>2. Draws(t, BlankAfter(FlowLines(t, words, row, col)), Ids(words), {})
    <3>1. Draws(FlowLines(t, words, row, col), BlankAfter(FlowLines(t, words, row, col)), {}, {})
      BY <2>1, FlowDraws, Zenon DEF Draws
    <3> QED
      BY <1>1, <2>1, <3>1, DrawsAlone, Zenon
  <2>3. \A foot, width, below :
          Draws(t, SetRow(AddLines(t, foot, col, Wrap(words, width)), below), Ids(words), {})
    BY <1>1, LinesDraw, Zenon
  <2>4. CASE e.tag = "botinst"
    BY <2>3, <2>4, Zenon DEF InfoAt
  <2>5. CASE e.tag = "topinst" /\ ~e.compact /\ ~Mixed(t)
    <3>1. e.tag # "botinst"
      BY <2>5
    <3> QED
      BY <2>2, <2>5, <3>1, Zenon DEF InfoAt
  <2>6. CASE e.tag # "botinst" /\ ~(e.tag = "topinst" /\ ~e.compact /\ ~Mixed(t))
    BY <2>1, <2>6, Zenon DEF InfoAt
  <2> QED
    BY <2>4, <2>5, <2>6
<1>2. ASSUME NEW t, Shape(t)
      PROVE  Draws(t, SpacedInfo(t, e, words), Ids(words), {})
  <2> DEFINE u == Placed(t)
             v == SpacedInfo(t, e, words)
  <2>1. Draws(t, u, {}, {})
    BY <1>2, FlowDraws
  <2> HIDE DEF u
  <2>2. Draws(u, v, Ids(words), {})
    <3>1. \A row, col : Draws(u, InfoAt(u, row, col, e, words), Ids(words), {})
      BY <1>1, <2>1 DEF Draws
    <3> QED
      BY <3>1, Zenon DEF SpacedInfo, u
  <2> HIDE DEF v
  <2>3. Draws(t, v, Ids(words), {})
    BY <1>2, <2>1, <2>2, DrawsAlone
  <2> QED
    BY <2>3 DEF v
<1>3. CASE words = <<>>
  <2>1. Ids(words) = {}
    BY <1>3 DEF Ids
  <2>2. EmitInfo(s, e, words) = s
    BY <1>3 DEF EmitInfo
  <2> QED
    BY <2>1, <2>2, DrawsAlone
<1>4. CASE words # <<>>
  <2> DEFINE t == IF e.tag \in {"p", "pnlinst"} THEN SkipBlankBefore(s, e) ELSE s
             u == SpacedInfo(t, e, words)
  <2>1. Draws(s, t, {}, {})
    <3>1. Draws(s, SkipBlankBefore(s, e), {}, {}) /\ Draws(s, s, {}, {})
      BY FlowDraws, DrawsAlone
    <3> QED
      BY <3>1
  <2> HIDE DEF t
  <2>2. Draws(t, u, Ids(words), {})
    BY <1>2, <2>1 DEF Draws
  <2>3. EmitInfo(s, e, words) = u
    BY <1>4 DEF EmitInfo, t
  <2> HIDE DEF u
  <2> QED
    BY <2>1, <2>2, <2>3, DrawsAlone
<1> QED
  BY <1>3, <1>4

\* Fields that the layout or the selections are in, and words that are dropped.
LEMMA SettingDraws ==
  ASSUME NEW s, Shape(s), NEW x, NEW G
  PROVE  /\ Draws(s, [s EXCEPT !.strained = x], {}, {})
         /\ Draws(s, [s EXCEPT !.hang = x], {}, {})
         /\ Draws(s, [s EXCEPT !.infoIndent = x], {}, {})
         /\ Draws(s, [s EXCEPT !.lists = x], {}, {})
         /\ Draws(s, [s EXCEPT !.skip = x], {}, {})
         /\ Draws(s, [s EXCEPT !.pointed = x], {}, {})
         /\ Draws(s, [s EXCEPT !.phrase = x], {}, {})
         /\ Draws(s, [s EXCEPT !.boxes = x], {}, {})
         /\ Draws(s, [s EXCEPT !.dropped = @ \cup G], {}, G)
<1>1. Draws(s, [s EXCEPT !.strained = x], {}, {})
  <2> DEFINE t == [s EXCEPT !.strained = x]
  <2>1. DOMAIN t = DOMAIN s /\ \A y \in DOMAIN s \ Layout : t[y] = s[y]
    BY DEF Layout
  <2> HIDE DEF t
  <2>2. Draws(s, t, {}, {})
    BY <2>1, LayoutDraws
  <2> QED
    BY <2>2 DEF t
<1>2. Draws(s, [s EXCEPT !.hang = x], {}, {})
  <2> DEFINE t == [s EXCEPT !.hang = x]
  <2>1. DOMAIN t = DOMAIN s /\ \A y \in DOMAIN s \ Layout : t[y] = s[y]
    BY DEF Layout
  <2> HIDE DEF t
  <2>2. Draws(s, t, {}, {})
    BY <2>1, LayoutDraws
  <2> QED
    BY <2>2 DEF t
<1>3. Draws(s, [s EXCEPT !.infoIndent = x], {}, {})
  <2> DEFINE t == [s EXCEPT !.infoIndent = x]
  <2>1. DOMAIN t = DOMAIN s /\ \A y \in DOMAIN s \ Layout : t[y] = s[y]
    BY DEF Layout
  <2> HIDE DEF t
  <2>2. Draws(s, t, {}, {})
    BY <2>1, LayoutDraws
  <2> QED
    BY <2>2 DEF t
<1>4. Draws(s, [s EXCEPT !.lists = x], {}, {})
  <2> DEFINE t == [s EXCEPT !.lists = x]
  <2>1. DOMAIN t = DOMAIN s /\ \A y \in DOMAIN s \ Layout : t[y] = s[y]
    BY DEF Layout
  <2> HIDE DEF t
  <2>2. Draws(s, t, {}, {})
    BY <2>1, LayoutDraws
  <2> QED
    BY <2>2 DEF t
<1>5. Draws(s, [s EXCEPT !.skip = x], {}, {})
  <2> DEFINE t == [s EXCEPT !.skip = x]
  <2>1. DOMAIN t = DOMAIN s /\ \A y \in DOMAIN s \ Layout : t[y] = s[y]
    BY DEF Layout
  <2> HIDE DEF t
  <2>2. Draws(s, t, {}, {})
    BY <2>1, LayoutDraws
  <2> QED
    BY <2>2 DEF t
<1>6. Draws(s, [s EXCEPT !.pointed = x], {}, {})
  <2> DEFINE t == [s EXCEPT !.pointed = x]
  <2>1. DOMAIN t = DOMAIN s /\ \A y \in DOMAIN s \ Layout : t[y] = s[y]
    BY DEF Layout
  <2> HIDE DEF t
  <2>2. Draws(s, t, {}, {})
    BY <2>1, LayoutDraws
  <2> QED
    BY <2>2 DEF t
<1>7. Draws(s, [s EXCEPT !.phrase = x], {}, {})
  <2> DEFINE t == [s EXCEPT !.phrase = x]
  <2>1. DOMAIN t = DOMAIN s /\ \A y \in DOMAIN s \ Layout : t[y] = s[y]
    BY DEF Layout
  <2> HIDE DEF t
  <2>2. Draws(s, t, {}, {})
    BY <2>1, LayoutDraws
  <2> QED
    BY <2>2 DEF t
<1>8. Draws(s, [s EXCEPT !.boxes = x], {}, {})
  <2> DEFINE t == [s EXCEPT !.boxes = x]
  <2>1. DOMAIN t = DOMAIN s /\ \A y \in DOMAIN s \ Layout : t[y] = s[y]
    BY DEF Layout
  <2> HIDE DEF t
  <2>2. Draws(s, t, {}, {})
    BY <2>1, LayoutDraws
  <2> QED
    BY <2>2 DEF t
<1>9. Draws(s, [s EXCEPT !.dropped = @ \cup G], {}, G)
  <2> DEFINE t == [s EXCEPT !.dropped = s.dropped \cup G]
  <2>1. /\ DOMAIN t = DOMAIN s /\ t.items = s.items /\ t.sf = s.sf /\ Alike(s, t)
        /\ t.dropped = s.dropped \cup G
    BY DEF Shape, Fields, Alike
  <2> HIDE DEF t
  <2>2. Extended(s.items, t.items, {})
    BY <2>1, NothingMore DEF Shape
  <2>3. Draws(s, t, {}, G)
    BY <2>1, <2>2 DEF Draws, Shape, SamePrompt
  <2> QED
    BY <2>3 DEF t
<1> QED
  BY <1>1, <1>2, <1>3, <1>4, <1>5, <1>6, <1>7, <1>8, <1>9

\* What draws, with a setting behind it.
LEMMA DrawsAndSets ==
  ASSUME NEW s, Shape(s), NEW t, NEW V, NEW G, Draws(s, t, V, G), NEW x, NEW H
  PROVE  /\ Draws(s, [t EXCEPT !.strained = x], V, G)
         /\ Draws(s, [t EXCEPT !.hang = x], V, G)
         /\ Draws(s, [t EXCEPT !.infoIndent = x], V, G)
         /\ Draws(s, [t EXCEPT !.dropped = @ \cup H], V, G \cup H)
<1>1. Shape(t)
  BY DEF Draws
<1>2. /\ Draws(t, [t EXCEPT !.strained = x], {}, {})
      /\ Draws(t, [t EXCEPT !.hang = x], {}, {})
      /\ Draws(t, [t EXCEPT !.infoIndent = x], {}, {})
      /\ Draws(t, [t EXCEPT !.dropped = @ \cup H], {}, H)
  BY <1>1, SettingDraws
<1>3. Draws(s, [t EXCEPT !.dropped = @ \cup H], V \cup {}, G \cup H)
  <2>1. V \cap {} = {}
    OBVIOUS
  <2> QED
    BY <1>2, <2>1, DrawsOn, Zenon
<1>4. V \cup {} = V
  OBVIOUS
<1> QED
  BY <1>2, <1>3, <1>4, DrawsAlone, Zenon

\* What draws, with an item or lines behind it.
LEMMA DrawsAndAdds ==
  ASSUME NEW s, Shape(s), NEW t, NEW V, NEW G, Draws(s, t, V, G),
         NEW words, Written(words), V \cap Ids(words) = {},
         NEW kind, NEW row, NEW col, NEW length, NEW width
  PROVE  /\ Draws(s, Add(t, Item(kind, row, col, length, words)), V \cup Ids(words), G)
         /\ Draws(s, Add(t, TextAt(row, col, words)), V \cup Ids(words), G)
         /\ Draws(s, AddLines(t, row, col, Wrap(words, width)), V \cup Ids(words), G)
<1>1. Shape(t)
  BY DEF Draws
<1>2. ASSUME NEW item, item.words = Ids(words)
      PROVE  Draws(s, Add(t, item), V \cup Ids(words), G)
  <2>1. Draws(t, Add(t, item), Ids(words), {})
    BY <1>1, <1>2, AddDraws, Zenon
  <2>2. Draws(s, Add(t, item), V \cup Ids(words), G \cup {})
    BY <2>1, DrawsOn, Zenon
  <2>3. G \cup {} = G
    OBVIOUS
  <2> QED
    BY <2>2, <2>3, Zenon
<1>3. Draws(s, AddLines(t, row, col, Wrap(words, width)), V \cup Ids(words), G)
  <2>1. Draws(t, AddLines(t, row, col, Wrap(words, width)), Ids(words), {})
    BY <1>1, AddLinesDraws, Zenon
  <2>2. Draws(s, AddLines(t, row, col, Wrap(words, width)), V \cup Ids(words), G \cup {})
    BY <2>1, DrawsOn, Zenon
  <2>3. G \cup {} = G
    OBVIOUS
  <2> QED
    BY <2>2, <2>3, Zenon
<1>4. Draws(s, Add(t, Item(kind, row, col, length, words)), V \cup Ids(words), G)
  <2>1. Item(kind, row, col, length, words).words = Ids(words)
    BY ItemWords
  <2> QED
    BY <1>2, <2>1, Zenon
<1>5. Draws(s, Add(t, TextAt(row, col, words)), V \cup Ids(words), G)
  BY <1>2, ItemWords, Zenon
<1> QED
  BY <1>3, <1>4, <1>5

\* A mark has no words.
LEMMA MarkDraws ==
  ASSUME NEW s, Shape(s), NEW t, NEW V, NEW G, Draws(s, t, V, G),
         NEW kind, NEW row, NEW col, NEW length
  PROVE  Draws(s, Add(t, Item(kind, row, col, length, <<>>)), V, G)
<1>1. Ids(<<>>) = {} /\ Written(<<>>)
  BY DEF Ids, Written
<1>2. V \cap {} = {} /\ V \cup {} = V
  OBVIOUS
<1>3. Draws(s, Add(t, Item(kind, row, col, length, <<>>)), V \cup Ids(<<>>), G)
  BY <1>1, <1>2, DrawsAndAdds, Zenon
<1> QED
  BY <1>1, <1>2, <1>3, Zenon

\* _emit_listitem.
LEMMA ListItemDraws ==
  ASSUME NEW s, Shape(s), NEW words, Written(words)
  PROVE  Draws(s, EmitListItem(s, words), Ids(words), {})
<1>1. CASE words = <<>>
  <2>1. Ids(words) = {}
    BY <1>1 DEF Ids
  <2>2. EmitListItem(s, words) = s
    BY <1>1 DEF EmitListItem
  <2> QED
    BY <2>1, <2>2, DrawsAlone
<1>2. CASE words # <<>>
  <2>1. \A x : Draws(s, [s EXCEPT !.strained = x], {}, {})
    BY SettingDraws, Zenon
  <2>2. \A x, row, col, length :
          Draws(s, Add([s EXCEPT !.strained = x], Item("mark", row, col, length, <<>>)), {}, {})
    BY <2>1, MarkDraws, Zenon
  <2>3. ASSUME NEW t, Draws(s, t, {}, {}), NEW row, NEW col
        PROVE  Draws(s, FlowLines(t, words, row, col), Ids(words), {})
    <3>1. Draws(t, FlowLines(t, words, row, col), Ids(words), {})
      BY <2>3, LinesDraw, Zenon DEF Draws
    <3> QED
      BY <2>3, <3>1, DrawsAlone, Zenon
  <2> DEFINE x == s.strained \/ HangsAcross(s)
             crossed == [s EXCEPT !.strained = x]
             bullet == FlowCol(s) + (Most(Len(s.lists), 1) - 1) * ListIndent + Last(s.lists).indent
             marked == IF Last(s.lists).tag = "sl" THEN crossed
                       ELSE Add(crossed, Item("mark", Box(s).row, bullet, Least(Most(1, Len(s.lists) - 1), 3), <<>>))
  <2>4. Draws(s, marked, {}, {})
    BY <2>1, <2>2, Zenon
  <2>5. EmitListItem(s, words) = FlowLines(marked, words, Box(s).row, bullet + ListIndent)
    BY <1>2, Zenon DEF EmitListItem
  <2> HIDE DEF marked, bullet
  <2> QED
    BY <2>3, <2>4, <2>5, Zenon
<1> QED
  BY <1>1, <1>2

\* _emit_note of an <nt>.
LEMMA NoteDraws ==
  ASSUME NEW s, Shape(s), NEW e, NEW words, Written(words)
  PROVE  Draws(s, EmitNote(s, e, words), Ids(words), {})
<1>1. ASSUME NEW t, Shape(t), NEW row, NEW col
      PROVE  Draws(t, NoteAt(t, row, col, words), Ids(words), {})
  <2> DEFINE body == col + NoteHead + 1
             lines == IF words = <<>> THEN <<>> ELSE Wrap(words, Most(1, Width - body - 1))
             head == Add(t, Item("mark", row, col, NoteHead, <<>>))
             noted == AddLines(head, row, body, lines)
             below == SetRow(noted, row + Most(Len(lines), 1))
  <2>1. Draws(t, head, {}, {})
    BY <1>1, DrawsAlone, MarkDraws, Zenon
  <2>2. Draws(t, noted, Ids(words), {})
    <3>1. CASE words = <<>>
      <4>1. Ids(words) = {}
        BY <3>1 DEF Ids
      <4>2. lines = <<>>
        BY <3>1
      <4> HIDE DEF lines, head
      <4>3. noted = head
        <5>1. [i \in DOMAIN lines |-> TextAt(row + i - 1, body, lines[i])] = <<>>
          <6>1. DOMAIN lines = {}
            BY <4>2
          <6> QED
            BY <6>1
        <5>2. head.items \o <<>> = head.items /\ "items" \in DOMAIN head
          BY <2>1 DEF Draws, Shape, IsSeq, Fields
        <5>3. DOMAIN head = Fields /\ head = [x \in DOMAIN head |-> head[x]]
          BY <2>1 DEF Draws, Shape, head, Add
        <5> HIDE DEF body
        <5> QED
          BY <5>1, <5>2, <5>3 DEF AddLines
      <4> QED
        BY <2>1, <4>1, <4>3
    <3>2. CASE words # <<>>
      <4>1. {} \cap Ids(words) = {} /\ {} \cup Ids(words) = Ids(words)
        OBVIOUS
      <4>2. lines = Wrap(words, Most(1, Width - body - 1))
        BY <3>2
      <4> HIDE DEF lines, head
      <4>3. Draws(t, noted, {} \cup Ids(words), {})
        BY <1>1, <2>1, <4>1, <4>2, DrawsAndAdds, Zenon
      <4> QED
        BY <4>1, <4>3, Zenon
    <3> QED
      BY <3>1, <3>2
  <2> HIDE DEF noted, lines
  <2>3. Draws(noted, below, {}, {})
    BY <2>2, FlowDraws, Zenon DEF Draws
  <2> HIDE DEF below
  <2>4. Draws(t, below, Ids(words), {})
    BY <1>1, <2>2, <2>3, DrawsAlone, Zenon
  <2>5. NoteAt(t, row, col, words) = [below EXCEPT !.hang = body]
    BY Zenon DEF NoteAt, below, noted, lines
  <2> HIDE DEF body
  <2>6. Draws(t, [below EXCEPT !.hang = body], Ids(words), {})
    BY <1>1, <2>4, DrawsAndSets, Zenon
  <2> QED
    BY <2>5, <2>6, Zenon
<1>2. ASSUME NEW t, Shape(t)
      PROVE  Draws(t, SpacedNote(t, e, words), Ids(words), {})
  <2>1. Draws(t, Placed(t), {}, {})
    BY <1>2, FlowDraws
  <2>2. \A row, col : Draws(Placed(t), NoteAt(Placed(t), row, col, words), Ids(words), {})
    BY <1>1, <2>1, Zenon DEF Draws
  <2>3. Draws(Placed(t), SpacedNote(t, e, words), Ids(words), {})
    BY <2>2, Zenon DEF SpacedNote
  <2> QED
    BY <1>2, <2>1, <2>3, DrawsAlone, Zenon
<1>3. Draws(s, SkipBlankBefore(s, e), {}, {})
  BY FlowDraws
<1>4. Draws(SkipBlankBefore(s, e), SpacedNote(SkipBlankBefore(s, e), e, words), Ids(words), {})
  BY <1>2, <1>3, Zenon DEF Draws
<1> QED
  BY <1>3, <1>4, DrawsAlone, Zenon DEF EmitNote

\* A step that spends the words W: each is shown once or dropped.
Spends(s, t, W) == \E V, G : Draws(s, t, V, G) /\ V \cup G = W /\ V \cap G = {}

\* What draws spends its words, and so does it with a setting behind it.
LEMMA DrawsSpends ==
  ASSUME NEW s, Shape(s), NEW t, NEW W
  PROVE  /\ Draws(s, t, W, {}) => Spends(s, t, W)
         /\ Draws(s, t, {}, W) => Spends(s, t, W)
         /\ Spends(s, t, W) => Shape(t)
         /\ \A x : Spends(s, t, W) => Spends(s, [t EXCEPT !.strained = x], W)
         /\ \A kind, row, col, length :
              Spends(s, t, W) => Spends(s, Add(t, Item(kind, row, col, length, <<>>)), W)
         /\ \A u : Draws(s, t, {}, {}) /\ Spends(t, u, W) => Spends(s, u, W)
         /\ \A u : Spends(s, t, W) /\ Draws(t, u, {}, {}) => Spends(s, u, W)
<1>1. W \cup {} = W /\ {} \cup W = W /\ W \cap {} = {} /\ {} \cap W = {}
  OBVIOUS
<1>2. Draws(s, t, W, {}) => Spends(s, t, W)
  BY <1>1, Zenon DEF Spends
<1>3. Draws(s, t, {}, W) => Spends(s, t, W)
  BY <1>1, Zenon DEF Spends
<1>4. Spends(s, t, W) => Shape(t)
  BY Zenon DEF Spends, Draws
<1>5. \A x : Spends(s, t, W) => Spends(s, [t EXCEPT !.strained = x], W)
  BY DrawsAndSets, Zenon DEF Spends
<1>6. \A kind, row, col, length :
        Spends(s, t, W) => Spends(s, Add(t, Item(kind, row, col, length, <<>>)), W)
  BY MarkDraws, Zenon DEF Spends
<1>7. \A u : Draws(s, t, {}, {}) /\ Spends(t, u, W) => Spends(s, u, W)
  BY DrawsAlone, Zenon DEF Spends
<1>8. \A u : Spends(s, t, W) /\ Draws(t, u, {}, {}) => Spends(s, u, W)
  BY DrawsAlone, Zenon DEF Spends
<1> QED
  BY <1>2, <1>3, <1>4, <1>5, <1>6, <1>7, <1>8

\* A text cut to its room: the words inside are shown, the others dropped.
LEMMA AddCutSpends ==
  ASSUME NEW s, Shape(s), NEW t, NEW V, Draws(s, t, V, {}), NEW words, V \cap Ids(words) = {},
         NEW row, NEW col, NEW room
  PROVE  Spends(s, AddCut(t, row, col, words, room), V \cup Ids(words))
<1> DEFINE I == Inside(words, room)
           C == Ids(words) \ I
           u == Add(t, CutAt(row, col, words, room))
<1>1. I \subseteq Ids(words)
  BY DEF Inside, Ids
<1>2. CutAt(row, col, words, room).words = I
  BY ItemWords
<1>3. AddCut(t, row, col, words, room) = [u EXCEPT !.dropped = @ \cup C]
  BY DEF AddCut
<1> HIDE DEF I
<1>4. Draws(t, u, I, {})
  BY <1>2, AddDraws DEF Draws
<1> HIDE DEF u
<1>5. V \cap I = {}
  BY <1>1
<1> HIDE DEF C
<1>6. Draws(s, u, V \cup I, {})
  <2>1. Draws(s, u, V \cup I, {} \cup {})
    BY <1>4, <1>5, DrawsOn, Zenon
  <2>2. {} \cup {} = {}
    OBVIOUS
  <2> QED
    BY <2>1, <2>2, Zenon
<1>7. Draws(s, [u EXCEPT !.dropped = @ \cup C], V \cup I, C)
  <2>1. Draws(s, [u EXCEPT !.dropped = @ \cup C], V \cup I, {} \cup C)
    BY <1>6, DrawsAndSets, Zenon
  <2>2. {} \cup C = C
    OBVIOUS
  <2> QED
    BY <2>1, <2>2
<1>8. (V \cup I) \cup C = V \cup Ids(words) /\ (V \cup I) \cap C = {}
  BY <1>1 DEF C
<1> QED
  BY <1>3, <1>7, <1>8, Zenon DEF Spends

\* _emit_divider.
LEMMA DividerSpends ==
  ASSUME NEW s, Shape(s), NEW e, NEW words, Written(words)
  PROVE  Spends(s, EmitDivider(s, e, words), Ids(words))
<1>1. Draws(s, s, {}, {}) /\ {} \cap Ids(words) = {} /\ {} \cup Ids(words) = Ids(words)
  BY DrawsAlone
<1>2. CASE e.type = "text" /\ words # <<>>
  <2>1. Spends(s, AddCut(s, e.row, e.col, words, e.span), {} \cup Ids(words))
    BY <1>1, AddCutSpends, Zenon
  <2>2. EmitDivider(s, e, words) = AddCut(s, e.row, e.col, words, e.span)
    BY <1>2, Zenon DEF EmitDivider
  <2> QED
    BY <1>1, <2>1, <2>2, Zenon
<1>3. CASE e.type = "text" /\ words = <<>>
  <2>1. Ids(words) = {}
    BY <1>3 DEF Ids
  <2>2. EmitDivider(s, e, words) = s
    BY <1>3 DEF EmitDivider
  <2> QED
    BY <1>1, <2>1, <2>2, DrawsSpends, Zenon
<1>4. CASE e.type # "text"
  <2> DEFINE ruled == Add(s, Item("rule", e.row, e.col, e.span, <<>>))
  <2>1. Draws(s, ruled, {}, {})
    BY <1>1, MarkDraws, Zenon
  <2>2. EmitDivider(s, e, words) = [ruled EXCEPT !.dropped = @ \cup Ids(words)]
    BY <1>4 DEF EmitDivider
  <2> HIDE DEF ruled
  <2>3. Draws(s, [ruled EXCEPT !.dropped = @ \cup Ids(words)], {}, {} \cup Ids(words))
    BY <2>1, DrawsAndSets, Zenon
  <2> QED
    BY <1>1, <2>2, <2>3, DrawsSpends, Zenon
<1> QED
  BY <1>2, <1>3, <1>4

\* _add_field.
LEMMA FieldSpends ==
  ASSUME NEW s, Shape(s), NEW e, NEW prompt, Written(prompt), NEW description, Written(description),
         Ids(prompt) \cap Ids(description) = {}
  PROVE  Spends(s, EmitField(s, e, prompt, description), Ids(prompt) \cup Ids(description))
<1> DEFINE at == Place(s)
           above == e.above \/ (~e.above /\ Box(s).above)
           padded == IF ~above /\ prompt # <<>> /\ Box(s).pmtwidth > LineLen(prompt)
                     THEN Box(s).pmtwidth ELSE LineLen(prompt)
           row == IF above /\ prompt # <<>> THEN at.row + 1 ELSE at.row
           col == CASE above -> at.col
                    [] ~above /\ Box(s).pmtwidth > 0 -> at.col + Box(s).pmtwidth + 1
                    [] OTHER -> at.col + LineLen(prompt) + FieldGap
           wide == col + e.entwidth > Width
           length == IF wide THEN (IF col >= Width THEN 1 ELSE Most(1, Width - col - 1)) ELSE e.entwidth
           fldcol == IF wide /\ col >= Width THEN Most(at.col, Width - 2) ELSE col
           placed == LET q == Placed(s) IN IF row > at.row THEN SetRow(q, Box(q).row + 1) ELSE q
           prompted == IF prompt = <<>> THEN placed
                       ELSE Add(placed, Item("text", at.row, at.col, padded, prompt))
           room == Width - (fldcol + length + 2)
           told == CASE description = <<>> -> prompted
                     [] description # <<>> /\ room <= 0 -> [prompted EXCEPT !.dropped = @ \cup Ids(description)]
                     [] OTHER -> AddCut(prompted, row, fldcol + length + 2, description, room)
           full == Add(told, Item("field", row, fldcol, length, <<>>))
           x == full.strained \/ wide \/ (~above /\ padded > Box(s).pmtwidth /\ Box(s).pmtwidth > 0)
<1>1. EmitField(s, e, prompt, description) = [full EXCEPT !.strained = x]
  BY Zenon DEF EmitField, FieldAt
<1> HIDE DEF x, full, room, fldcol, length, wide, col, row, padded, above, at
<1>2. Draws(s, placed, {}, {})
  <2> DEFINE q == Placed(s)
  <2>1. Draws(s, q, {}, {})
    BY FlowDraws
  <2> HIDE DEF q
  <2>2. Draws(q, SetRow(q, Box(q).row + 1), {}, {})
    BY <2>1, FlowDraws DEF Draws
  <2>3. Draws(s, SetRow(q, Box(q).row + 1), {}, {})
    BY <2>1, <2>2, DrawsAlone, Zenon
  <2>4. placed = IF row > at.row THEN SetRow(q, Box(q).row + 1) ELSE q
    BY DEF q
  <2> QED
    BY <2>1, <2>3, <2>4, Zenon
<1> HIDE DEF placed
<1>3. Draws(s, prompted, Ids(prompt), {})
  <2>1. {} \cap Ids(prompt) = {} /\ {} \cup Ids(prompt) = Ids(prompt)
    OBVIOUS
  <2>2. CASE prompt = <<>>
    <3>1. Ids(prompt) = {}
      BY <2>2 DEF Ids
    <3> QED
      BY <1>2, <2>2, <3>1
  <2>3. CASE prompt # <<>>
    <3>1. Draws(s, Add(placed, Item("text", at.row, at.col, padded, prompt)), {} \cup Ids(prompt), {})
      BY <1>2, <2>1, DrawsAndAdds, Zenon
    <3> QED
      BY <2>1, <2>3, <3>1, Zenon
  <2> QED
    BY <2>2, <2>3
<1> HIDE DEF prompted
<1>4. Spends(s, told, Ids(prompt) \cup Ids(description))
  <2>1. CASE description = <<>>
    <3>1. Ids(prompt) \cup Ids(description) = Ids(prompt)
      BY <2>1 DEF Ids
    <3>2. told = prompted
      BY <2>1
    <3> QED
      BY <1>3, <3>1, <3>2, DrawsSpends, Zenon
  <2>2. CASE description # <<>> /\ room <= 0
    <3>1. Draws(s, [prompted EXCEPT !.dropped = @ \cup Ids(description)], Ids(prompt), {} \cup Ids(description))
      BY <1>3, DrawsAndSets, Zenon
    <3>2. told = [prompted EXCEPT !.dropped = @ \cup Ids(description)]
      BY <2>2
    <3>3. {} \cup Ids(description) = Ids(description)
      OBVIOUS
    <3> QED
      BY <3>1, <3>2, <3>3, Zenon DEF Spends
  <2>3. CASE description # <<>> /\ ~(room <= 0)
    <3>1. Spends(s, AddCut(prompted, row, fldcol + length + 2, description, room),
                 Ids(prompt) \cup Ids(description))
      BY <1>3, AddCutSpends, Zenon
    <3>2. told = AddCut(prompted, row, fldcol + length + 2, description, room)
      BY <2>3
    <3> QED
      BY <3>1, <3>2, Zenon
  <2> QED
    BY <2>1, <2>2, <2>3
<1> HIDE DEF told
<1>5. Spends(s, full, Ids(prompt) \cup Ids(description))
  BY <1>4, DrawsSpends, Zenon DEF full
<1>6. Spends(s, [full EXCEPT !.strained = x], Ids(prompt) \cup Ids(description))
  BY <1>5, DrawsSpends, Zenon
<1> QED
  BY <1>1, <1>6, Zenon

-----------------------------------------------------------------------------
(* Selection fields.                                                       *)

\* A step that changes the layout, and the selection field but for its prompt.
LEMMA ChooserDraws ==
  ASSUME NEW s, Shape(s), s.sf # NoTag, NEW t, DOMAIN t = DOMAIN s,
         \A x \in DOMAIN s \ (Layout \cup {"sf"}) : t[x] = s[x],
         DOMAIN t.sf = DOMAIN s.sf, t.sf.tag = s.sf.tag,
         t.sf.prompt = s.sf.prompt, t.sf.prompted = s.sf.prompted
  PROVE  Draws(s, t, {}, {}) /\ t.sf # NoTag
<1>1. /\ t.tag = s.tag /\ t.chars = s.chars /\ t.phrased = s.phrased
      /\ t.describing = s.describing /\ t.described = s.described /\ t.description = s.description
      /\ t.title = s.title /\ t.titling = s.titling /\ t.dropped = s.dropped
      /\ t.entry = s.entry /\ t.entryText = s.entryText /\ t.lost = s.lost
      /\ t.items = s.items
  BY DEF Shape, Layout, Fields
<1>2. Extended(s.items, t.items, {})
  BY <1>1, NothingMore DEF Shape
<1> HIDE DEF Layout
<1>3. Chooser(t.sf) /\ t.sf # NoTag
  BY DEF Shape, Chooser, NoTag
<1> QED
  BY <1>1, <1>2, <1>3 DEF Draws, Shape, Alike, SamePrompt

\* Items without words.
Wordless(m) == IsSeq(m) /\ \A i \in 1 .. Len(m) : m[i].words = {}

\* One item without words, none, and those of two sequences.
LEMMA WordlessItems ==
  /\ Wordless(<<>>)
  /\ \A x : x.words = {} => Wordless(<<x>>)
  /\ \A a, b : Wordless(a) /\ Wordless(b) => Wordless(a \o b)
<1>1. Wordless(<<>>)
  BY DEF Wordless, IsSeq
<1>2. ASSUME NEW x, x.words = {}
      PROVE  Wordless(<<x>>)
  <2> DEFINE m == <<x>>
  <2>1. m \in Seq({x}) /\ Len(m) = 1 /\ m[1] = x
    OBVIOUS
  <2> HIDE DEF m
  <2>2. \A i \in 1 .. Len(m) : m[i].words = {}
    <3>1. \A i \in 1 .. 1 : i = 1
      OBVIOUS
    <3> QED
      BY <1>2, <2>1, <3>1
  <2>3. IsSeq(m)
    BY <2>1 DEF IsSeq
  <2> QED
    BY <2>2, <2>3 DEF Wordless, m
<1>3. ASSUME NEW a, NEW b, Wordless(a), Wordless(b)
      PROVE  Wordless(a \o b)
  <2>1. PICK X : a \in Seq(X)
    BY <1>3 DEF Wordless, IsSeq
  <2>2. PICK Y : b \in Seq(Y)
    BY <1>3 DEF Wordless, IsSeq
  <2>3. a \in Seq(X \cup Y) /\ b \in Seq(X \cup Y)
    BY <2>1, <2>2
  <2>4. /\ a \o b \in Seq(X \cup Y) /\ Len(a) \in Nat /\ Len(b) \in Nat
        /\ Len(a \o b) = Len(a) + Len(b)
        /\ \A i \in 1 .. Len(a) + Len(b) : (a \o b)[i] = IF i <= Len(a) THEN a[i] ELSE b[i - Len(a)]
    BY <2>3
  <2>5. \A i \in 1 .. Len(a) + Len(b) : IF i <= Len(a) THEN i \in 1 .. Len(a) ELSE i - Len(a) \in 1 .. Len(b)
    BY <2>4
  <2> DEFINE c == a \o b
  <2> HIDE DEF c
  <2>6. IsSeq(c)
    BY <2>4 DEF IsSeq, c
  <2>7. \A i \in 1 .. Len(c) : c[i].words = {}
    BY <1>3, <2>4, <2>5 DEF Wordless, c
  <2> QED
    BY <2>6, <2>7 DEF Wordless, c
<1> QED
  BY <1>1, <1>2, <1>3

\* Items without words, behind the others.
LEMMA WordlessDraws ==
  ASSUME NEW s, Shape(s), NEW more, Wordless(more)
  PROVE  Draws(s, [s EXCEPT !.items = @ \o more], {}, {})
<1> DEFINE a == s.items
           b == a \o more
           t == [s EXCEPT !.items = b]
           N == Len(a)
           L == Len(more)
<1>1. PICK X : a \in Seq(X)
  BY DEF Shape, IsSeq
<1>2. PICK Y : more \in Seq(Y)
  BY DEF Wordless, IsSeq
<1>3. a \in Seq(X \cup Y) /\ more \in Seq(X \cup Y)
  BY <1>1, <1>2
<1> HIDE DEF a
<1>4. /\ b \in Seq(X \cup Y) /\ N \in Nat /\ L \in Nat /\ Len(b) = N + L
      /\ \A i \in 1 .. N : b[i] = a[i]
      /\ \A i \in N + 1 .. N + L : b[i] = more[i - N] /\ i - N \in 1 .. L
  BY <1>3
<1> HIDE DEF b, N, L
<1>5. \A i \in N + 1 .. N + L : b[i].words = {}
  BY <1>4 DEF Wordless, L
<1>6. IsSeq(b) /\ N <= Len(b)
  BY <1>4 DEF IsSeq
<1>7. Extended(a, b, {})
  BY <1>4, <1>5, <1>6 DEF Extended, N
<1>8. /\ DOMAIN t = DOMAIN s /\ t.items = b /\ t.dropped = s.dropped
      /\ t.sf = s.sf /\ Alike(s, t)
  BY DEF Shape, Fields, Alike
<1> HIDE DEF t
<1>9. Draws(s, t, {}, {})
  BY <1>6, <1>7, <1>8 DEF Draws, SamePrompt, Shape, a
<1> QED
  BY <1>9 DEF t, b, a

\* The marks of a choice have no words.
LEMMA MarksWordless ==
  ASSUME NEW sf, NEW e
  PROVE  Wordless(Marks(sf, e))
<1>1. \A kind, row, col, length, n :
        /\ Item(kind, row, col, length, <<>>).words = {}
        /\ [Item(kind, row, col, length, <<>>) EXCEPT !.num = n].words = {}
  <2> TAKE kind, row, col, length, n
  <2>1. /\ Item(kind, row, col, length, <<>>).words = Ids(<<>>)
        /\ [Item(kind, row, col, length, <<>>) EXCEPT !.num = n].words = Ids(<<>>)
    BY ItemWords
  <2> QED
    BY <2>1 DEF Ids
<1>2. \A kind, row, col, length, n :
        /\ Wordless(<<Item(kind, row, col, length, <<>>)>>)
        /\ Wordless(<<[Item(kind, row, col, length, <<>>) EXCEPT !.num = n]>>)
  BY <1>1, WordlessItems, Zenon
<1> DEFINE field == <<[Item("field", sf.row, sf.numcol, 1, <<>>) EXCEPT !.num = Number(sf, e)]>>
           entry == IF sf.auto /\ sf.count = 0 THEN <<Item("field", sf.row, sf.origin - 1, 2, <<>>)>> ELSE <<>>
           mark == <<[Item("mark", sf.row, sf.numcol,
                           IF sf.auto THEN Digits(Number(sf, e)) + 1 ELSE 2, <<>>)
                      EXCEPT !.num = Number(sf, e)]>>
<1>3. Wordless(field) /\ Wordless(mark)
  BY <1>2, Zenon
<1>4. Wordless(entry)
  BY <1>2, WordlessItems, Zenon
<1>5. Marks(sf, e) = IF sf.multi /\ ~e.unavail THEN field ELSE entry \o mark
  BY Zenon DEF Marks
<1> HIDE DEF field, entry, mark
<1> QED
  BY <1>3, <1>4, <1>5, WordlessItems, Zenon

\* _emit_chofld: the description below the entry.
LEMMA WithEntryDraws ==
  ASSUME NEW s, Shape(s), NEW t, NEW V, Draws(s, t, V, {}), NEW e, NEW row, NEW col,
         NEW description, Written(description), V \cap Ids(description) = {}
  PROVE  Draws(s, WithEntry(t, e, row, col, description), V \cup Ids(description), {})
<1> DEFINE wide == col + e.entwidth + 1 >= Width
           length == IF wide THEN Most(1, Width - col - 2) ELSE e.entwidth
           field == Add(t, Item("field", row, col, length, <<>>))
           x == field.strained \/ wide
           added == [field EXCEPT !.strained = x]
<1>1. WithEntry(t, e, row, col, description)
      = IF description = <<>> THEN added ELSE Add(added, TextAt(row + 1, t.sf.textcol, description))
  BY DEF WithEntry
<1> HIDE DEF x, length
<1>2. Draws(s, field, V, {})
  BY MarkDraws, Zenon
<1> HIDE DEF field
<1>3. Draws(s, added, V, {})
  BY <1>2, DrawsAndSets, Zenon
<1> HIDE DEF added
<1>4. CASE description = <<>>
  <2>1. V \cup Ids(description) = V
    BY <1>4 DEF Ids
  <2> QED
    BY <1>1, <1>3, <1>4, <2>1, Zenon
<1>5. CASE description # <<>>
  <2>1. Draws(s, Add(added, TextAt(row + 1, t.sf.textcol, description)), V \cup Ids(description), {})
    BY <1>3, DrawsAndAdds, Zenon
  <2> QED
    BY <1>1, <1>5, <2>1, Zenon
<1> QED
  BY <1>4, <1>5

\* A choice is counted and offered without a word drawn.
LEMMA OffersDraws ==
  ASSUME NEW s, Shape(s), s.sf # NoTag, NEW e, NEW words, NEW extra, NEW num, NEW row
  PROVE  /\ Draws(s, Counted(s, e, words, extra), {}, {})
         /\ Draws(s, Offers(s, e, num, row), {}, {})
         /\ Draws(s, [s EXCEPT !.sf = Arranged(@, e)], {}, {})
         /\ [s EXCEPT !.sf = Arranged(@, e)].sf # NoTag
<1>1. Draws(s, Counted(s, e, words, extra), {}, {})
  <2> DEFINE sf == [s.sf EXCEPT !.row = @ + 1 + extra, !.count = @ + 1,
                                !.row0 = IF @ = None THEN s.sf.row ELSE @]
             x == s.strained \/ s.sf.textcol + LineLen(words) >= Width \/ (s.sf.auto /\ s.sf.beside > 0)
             c == s.choices \cup {[num |-> Number(s.sf, e), row |-> s.sf.row, words |-> Ids(words),
                                   unavail |-> e.unavail, multi |-> s.sf.multi]}
             t == [s EXCEPT !.sf = sf, !.strained = x, !.choices = c]
  <2>1. Counted(s, e, words, extra) = t
    BY Zenon DEF Counted
  <2>2. DOMAIN sf = DOMAIN s.sf /\ sf.tag = s.sf.tag /\ sf.prompt = s.sf.prompt /\ sf.prompted = s.sf.prompted
    BY DEF Shape, Chooser
  <2> HIDE DEF sf, x, c
  <2>3. /\ DOMAIN t = DOMAIN s /\ t.sf = sf
        /\ \A y \in DOMAIN s \ (Layout \cup {"sf"}) : t[y] = s[y]
    BY DEF Shape, Fields, Layout
  <2> HIDE DEF t
  <2>4. Draws(s, t, {}, {})
    BY <2>2, <2>3, ChooserDraws
  <2> QED
    BY <2>1, <2>4
<1>2. Draws(s, Offers(s, e, num, row), {}, {})
  <2> DEFINE c == s.selections \cup {num}
             r == IF s.sf.multi THEN s.selectionRows
                  ELSE {x \in s.selectionRows : x[1] # row} \cup {<<row, num>>}
             t == [s EXCEPT !.selections = c, !.selectionRows = r]
  <2>1. Offers(s, e, num, row) = IF num = None \/ e.unavail THEN s ELSE t
    BY DEF Offers
  <2> HIDE DEF c, r
  <2>2. DOMAIN t = DOMAIN s /\ \A y \in DOMAIN s \ Layout : t[y] = s[y]
    BY DEF Layout
  <2> HIDE DEF t
  <2>3. Draws(s, t, {}, {}) /\ Draws(s, s, {}, {})
    BY <2>2, LayoutDraws
  <2> QED
    BY <2>1, <2>3, Zenon
<1> DEFINE sf == Arranged(s.sf, e)
           t == [s EXCEPT !.sf = sf]
<1>3. DOMAIN sf = DOMAIN s.sf /\ sf.tag = s.sf.tag /\ sf.prompt = s.sf.prompt /\ sf.prompted = s.sf.prompted
  BY DEF Shape, Chooser, Arranged
<1> HIDE DEF sf
<1>4. /\ DOMAIN t = DOMAIN s /\ t.sf = sf
      /\ \A y \in DOMAIN s \ (Layout \cup {"sf"}) : t[y] = s[y]
  BY DEF Shape, Fields
<1> HIDE DEF t
<1>5. Draws(s, t, {}, {}) /\ t.sf # NoTag
  BY <1>3, <1>4, ChooserDraws
<1>6. t = [s EXCEPT !.sf = Arranged(@, e)]
  BY DEF t, sf
<1> QED
  BY <1>1, <1>2, <1>5, <1>6

\* What _emit_choice draws of a choice that is not hidden.
LEMMA DrawChoiceDraws ==
  ASSUME NEW s, Shape(s), s.sf # NoTag, NEW e, NEW entry, NEW words, Written(words),
         NEW description, Written(description), Ids(words) \cap Ids(description) = {},
         entry = NoTag => description = <<>>
  PROVE  Draws(s, DrawChoice(s, e, entry, words, description), Ids(words) \cup Ids(description), {})
<1> DEFINE sf == s.sf
           text == TextAt(sf.row, sf.textcol, words)
           marked == [s EXCEPT !.items = @ \o Marks(sf, e)]
           shown == [s EXCEPT !.items = @ \o Marks(sf, e) \o <<text>>]
           full == IF entry = NoTag THEN shown
                   ELSE WithEntry(shown, entry, sf.row, sf.textcol + LineLen(words) + 1, description)
           counted == Counted(full, e, words, IF description = <<>> THEN 0 ELSE 1)
           t == Offers(counted, e, Number(sf, e), sf.row)
<1>1. DrawChoice(s, e, entry, words, description) = t
  BY Zenon DEF DrawChoice
<1>2. Draws(s, marked, {}, {})
  BY MarksWordless, WordlessDraws
<1>3. shown = Add(marked, text)
  <2> DEFINE m == Marks(sf, e)
             a == s.items
  <2>1. Wordless(m)
    BY MarksWordless
  <2> HIDE DEF m, text
  <2>2. PICK X : a \in Seq(X)
    BY DEF Shape, IsSeq
  <2>3. PICK Y : m \in Seq(Y)
    BY <2>1 DEF Wordless, IsSeq
  <2>4. a \in Seq(X \cup Y) /\ m \in Seq(X \cup Y)
    BY <2>2, <2>3
  <2> DEFINE b == a \o m
  <2> HIDE DEF a
  <2>5. b \in Seq(X \cup Y)
    BY <2>4
  <2> HIDE DEF b
  <2>6. b \o <<text>> = Append(b, text)
    BY <2>5
  <2>7. marked = [s EXCEPT !.items = b] /\ shown = [s EXCEPT !.items = b \o <<text>>]
    BY DEF b, m, a
  <2>8. "items" \in DOMAIN s
    BY DEF Shape, Fields
  <2> HIDE DEF marked, shown
  <2> QED
    BY <2>6, <2>7, <2>8 DEF Add
<1>4. Draws(s, shown, Ids(words), {})
  <2>1. {} \cap Ids(words) = {} /\ {} \cup Ids(words) = Ids(words)
    OBVIOUS
  <2> HIDE DEF marked, shown
  <2>2. Draws(s, Add(marked, TextAt(sf.row, sf.textcol, words)), {} \cup Ids(words), {})
    BY <1>2, <2>1, DrawsAndAdds, Zenon
  <2> QED
    BY <1>3, <2>1, <2>2, Zenon
<1> HIDE DEF shown, marked, text
<1>5. Draws(s, full, Ids(words) \cup Ids(description), {})
  <2>1. CASE entry = NoTag
    <3>1. Ids(words) \cup Ids(description) = Ids(words)
      BY <2>1 DEF Ids
    <3> QED
      BY <1>4, <2>1, <3>1
  <2>2. CASE entry # NoTag
    <3>1. Draws(s, WithEntry(shown, entry, sf.row, sf.textcol + LineLen(words) + 1, description),
                Ids(words) \cup Ids(description), {})
      BY <1>4, WithEntryDraws, Zenon
    <3> QED
      BY <2>2, <3>1, Zenon
  <2> QED
    BY <2>1, <2>2
<1> HIDE DEF full
<1>6. Draws(full, counted, {}, {})
  <2>1. Shape(full) /\ full.sf # NoTag
    BY <1>5 DEF Draws, SamePrompt
  <2> QED
    BY <2>1, OffersDraws, Zenon
<1> HIDE DEF counted
<1>7. Draws(s, counted, Ids(words) \cup Ids(description), {})
  BY <1>5, <1>6, DrawsAlone, Zenon
<1>8. Draws(counted, t, {}, {})
  <2>1. Shape(counted) /\ counted.sf # NoTag
    BY <1>7 DEF Draws, SamePrompt
  <2> QED
    BY <2>1, OffersDraws, Zenon
<1> HIDE DEF t
<1>9. Draws(s, t, Ids(words) \cup Ids(description), {})
  BY <1>7, <1>8, DrawsAlone, Zenon
<1> QED
  BY <1>1, <1>9

\* Two texts that share no word make one.
LEMMA Joined ==
  ASSUME NEW a, Written(a), NEW b, Written(b), Ids(a) \cap Ids(b) = {}
  PROVE  Written(a \o b) /\ Ids(a \o b) = Ids(a) \cup Ids(b)
<1> DEFINE c == a \o b
<1>1. /\ c \in Seq(Word) /\ Len(a) \in Nat /\ Len(b) \in Nat /\ DOMAIN c = 1 .. Len(a) + Len(b)
      /\ DOMAIN a = 1 .. Len(a) /\ DOMAIN b = 1 .. Len(b)
      /\ \A i \in 1 .. Len(a) + Len(b) : c[i] = IF i <= Len(a) THEN a[i] ELSE b[i - Len(a)]
  BY DEF Written
<1>2. /\ \A i \in 1 .. Len(a) : i \in 1 .. Len(a) + Len(b) /\ i <= Len(a)
      /\ \A i \in 1 .. Len(b) : i + Len(a) \in 1 .. Len(a) + Len(b) /\ ~(i + Len(a) <= Len(a))
                                /\ (i + Len(a)) - Len(a) = i
      /\ \A i \in 1 .. Len(a) + Len(b) :
           IF i <= Len(a) THEN i \in 1 .. Len(a) ELSE i - Len(a) \in 1 .. Len(b)
      /\ \A i, j \in 1 .. Len(a) + Len(b) : i - Len(a) = j - Len(a) => i = j
  BY <1>1
<1> HIDE DEF c
<1>3. /\ \A i \in 1 .. Len(a) : a[i].id \in Ids(a)
      /\ \A i \in 1 .. Len(b) : b[i].id \in Ids(b)
  BY <1>1 DEF Ids
<1>4. \A w : w \in Ids(c) <=> w \in Ids(a) \/ w \in Ids(b)
  <2>1. ASSUME NEW i \in DOMAIN a
        PROVE  a[i].id \in Ids(c)
    BY <1>1, <1>2, <2>1 DEF Ids
  <2>2. ASSUME NEW i \in DOMAIN b
        PROVE  b[i].id \in Ids(c)
    <3>1. i + Len(a) \in DOMAIN c /\ c[i + Len(a)] = b[i]
      BY <1>1, <1>2
    <3> QED
      BY <3>1 DEF Ids
  <2>3. ASSUME NEW i \in DOMAIN c
        PROVE  c[i].id \in Ids(a) \/ c[i].id \in Ids(b)
    BY <1>1, <1>2, <1>3
  <2> QED
    BY <2>1, <2>2, <2>3 DEF Ids
<1>5. ASSUME NEW i \in DOMAIN c, NEW j \in DOMAIN c, c[i].id = c[j].id
      PROVE  i = j
  <2>1. CASE i <= Len(a) /\ j <= Len(a)
    <3>1. i \in DOMAIN a /\ j \in DOMAIN a /\ a[i].id = a[j].id
      BY <1>1, <1>2, <1>5, <2>1
    <3> QED
      BY <3>1 DEF Written
  <2>2. CASE ~(i <= Len(a)) /\ ~(j <= Len(a))
    <3>1. i - Len(a) \in DOMAIN b /\ j - Len(a) \in DOMAIN b /\ b[i - Len(a)].id = b[j - Len(a)].id
      BY <1>1, <1>2, <1>5, <2>2
    <3>2. i - Len(a) = j - Len(a)
      BY <3>1 DEF Written
    <3> QED
      BY <1>1, <1>2, <3>2
  <2>3. CASE i <= Len(a) /\ ~(j <= Len(a))
    BY <1>1, <1>2, <1>3, <1>5, <2>3
  <2>4. CASE ~(i <= Len(a)) /\ j <= Len(a)
    BY <1>1, <1>2, <1>3, <1>5, <2>4
  <2> QED
    BY <2>1, <2>2, <2>3, <2>4
<1>6. Written(c)
  BY <1>1, <1>5 DEF Written
<1> QED
  BY <1>4, <1>6 DEF c

\* _emit_choice without the prompt.
LEMMA ChoiceSpends ==
  ASSUME NEW s, Shape(s), s.sf # NoTag, NEW e, NEW entry, NEW words, Written(words),
         NEW description, Written(description), Ids(words) \cap Ids(description) = {},
         entry = NoTag => description = <<>>
  PROVE  Spends(s, ChoiceOf(s, e, entry, words, description), Ids(words) \cup Ids(description))
<1> DEFINE W == Ids(words) \cup Ids(description)
<1>1. Ids(words \o description) = W
  BY Joined
<1>2. CASE Hidden(e)
  <2>1. Draws(s, [s EXCEPT !.dropped = @ \cup W], {}, W)
    BY SettingDraws, Zenon
  <2>2. ChoiceOf(s, e, entry, words, description) = [s EXCEPT !.dropped = @ \cup W]
    BY <1>1, <1>2, Zenon DEF ChoiceOf
  <2> QED
    BY <2>1, <2>2, DrawsSpends, Zenon
<1>3. CASE ~Hidden(e)
  <2> DEFINE t == [s EXCEPT !.sf = Arranged(@, e)]
             u == DrawChoice(t, e, entry, words, description)
  <2>1. Draws(s, t, {}, {}) /\ t.sf # NoTag
    BY OffersDraws, Zenon
  <2>2. ChoiceOf(s, e, entry, words, description) = u
    BY <1>3 DEF ChoiceOf
  <2> HIDE DEF t
  <2>3. Draws(t, u, W, {})
    BY <2>1, DrawChoiceDraws, Zenon DEF Draws
  <2> HIDE DEF u, W
  <2>4. Draws(s, u, W, {})
    BY <2>1, <2>3, DrawsAlone, Zenon
  <2>5. Spends(s, u, W)
    BY <2>4, DrawsSpends, Zenon
  <2> QED
    BY <2>2, <2>5 DEF W
<1> QED
  BY <1>2, <1>3

\* The words of a prompt that was not drawn yet.
Asked(s) == IF s.sf # NoTag /\ ~s.sf.prompted THEN Ids(s.sf.prompt) ELSE {}

\* _emit_selfld_prompt: afterwards the prompt is drawn.
LEMMA PromptDraws ==
  ASSUME NEW s, Shape(s), s.sf # NoTag, Written(s.sf.prompt)
  PROVE  LET t == EmitPrompt(s)
         IN /\ Shape(t) /\ Alike(s, t) /\ t.dropped = s.dropped
            /\ t.sf # NoTag /\ t.sf.prompted /\ t.sf.prompt = s.sf.prompt
            /\ Extended(s.items, t.items, Asked(s))
<1> DEFINE sf == s.sf
           before == sf.pmtbefore
           width == IF before THEN (IF sf.pmtwidth > 0 THEN sf.pmtwidth ELSE LineLen(sf.prompt) + 1)
                    ELSE IF sf.pmtwidth > 0 THEN sf.pmtwidth ELSE Width - sf.origin - 1
           lines == Wrap(sf.prompt, Most(1, width))
           shift == Most(0, sf.origin + width - sf.numcol)
           x == [sf EXCEPT !.prompted = TRUE]
           y == IF before
                THEN [sf EXCEPT !.prompted = TRUE, !.beside = sf.row + Len(lines), !.numcol = @ + shift, !.textcol = @ + shift]
                ELSE [sf EXCEPT !.prompted = TRUE, !.row = @ + Len(lines)]
           t == EmitPrompt(s)
<1>1. EmitPrompt(s) = CASE sf.prompted -> s
                        [] ~sf.prompted /\ sf.prompt = <<>> -> [s EXCEPT !.sf = x]
                        [] OTHER -> [AddLines(s, sf.row, sf.origin, lines) EXCEPT !.sf = y]
  BY Zenon DEF EmitPrompt
<1>2. /\ Chooser(x) /\ x # NoTag /\ x.prompted /\ x.prompt = sf.prompt
      /\ Chooser(y) /\ y # NoTag /\ y.prompted /\ y.prompt = sf.prompt
  BY DEF Shape, Chooser, NoTag
<1>3. CASE sf.prompted
  <2>1. EmitPrompt(s) = s
    BY <1>1, <1>3
  <2>2. Asked(s) = {}
    BY <1>3 DEF Asked
  <2>3. Extended(s.items, s.items, {})
    BY NothingMore DEF Shape
  <2> QED
    BY <1>3, <2>1, <2>2, <2>3 DEF Alike
<1> HIDE DEF x, y
<1>4. CASE ~sf.prompted /\ sf.prompt = <<>>
  <2> DEFINE u == [s EXCEPT !.sf = x]
  <2>1. EmitPrompt(s) = u
    BY <1>1, <1>4
  <2>2. Asked(s) = {}
    BY <1>4 DEF Asked, Ids
  <2>3. Extended(s.items, s.items, {})
    BY NothingMore DEF Shape
  <2>4. DOMAIN u = DOMAIN s /\ u.items = s.items /\ u.sf = x /\ u.dropped = s.dropped /\ Alike(s, u)
    BY DEF Shape, Fields, Alike
  <2> HIDE DEF u
  <2> QED
    BY <1>2, <2>1, <2>2, <2>3, <2>4 DEF Shape
<1>5. CASE ~sf.prompted /\ sf.prompt # <<>>
  <2> DEFINE added == AddLines(s, sf.row, sf.origin, lines)
             u == [added EXCEPT !.sf = y]
  <2>1. EmitPrompt(s) = u
    BY <1>1, <1>5, Zenon
  <2>2. Asked(s) = Ids(sf.prompt)
    BY <1>5 DEF Asked
  <2>3. Draws(s, added, Ids(sf.prompt), {})
    BY AddLinesDraws, Zenon
  <2> HIDE DEF added
  <2>4. DOMAIN u = DOMAIN s /\ u.items = added.items /\ u.sf = y /\ u.dropped = s.dropped /\ Alike(s, u)
    BY <2>3 DEF Shape, Fields, Alike, Draws
  <2> HIDE DEF u
  <2>5. Shape(u)
    BY <1>2, <2>3, <2>4 DEF Shape, Draws
  <2> QED
    BY <1>2, <2>1, <2>2, <2>3, <2>4, <2>5 DEF Draws
<1> QED
  BY <1>3, <1>4, <1>5

-----------------------------------------------------------------------------
(* The open element is emitted.                                            *)

\* What is captured but for the entry of a choice.
AlikeButEntry(s, t) ==
  /\ t.tag = s.tag /\ t.chars = s.chars /\ t.phrased = s.phrased
  /\ t.describing = s.describing /\ t.described = s.described /\ t.description = s.description
  /\ t.title = s.title /\ t.titling = s.titling /\ t.lost = s.lost

\* A step that spends the words W, and may be those of the prompt.
Emits(s, t, W) ==
  /\ Shape(t) /\ AlikeButEntry(s, t) /\ t.entry = NoTag /\ t.entryText = <<>>
  /\ t.sf = NoTag <=> s.sf = NoTag
  /\ s.sf # NoTag => t.sf.prompt = s.sf.prompt
  /\ \E V, G :
       /\ Extended(s.items, t.items, V) /\ t.dropped = s.dropped \cup G
       /\ V \cap G = {} /\ (V \cup G) \cap Asked(t) = {}
       /\ V \cup G \cup Asked(t) = W \cup Asked(s)

\* What spends its words emits them, where there is no entry.
LEMMA SpendsEmits ==
  ASSUME NEW s, s.entry = NoTag, s.entryText = <<>>, NEW t, NEW W, Spends(s, t, W),
         W \cap Asked(s) = {}
  PROVE  Emits(s, t, W)
<1>1. PICK V, G : Draws(s, t, V, G) /\ V \cup G = W /\ V \cap G = {}
  BY DEF Spends
<1>2. Asked(t) = Asked(s)
  BY <1>1 DEF Draws, SamePrompt, Asked
<1>3. /\ Extended(s.items, t.items, V) /\ t.dropped = s.dropped \cup G
      /\ V \cap G = {} /\ (V \cup G) \cap Asked(t) = {}
      /\ V \cup G \cup Asked(t) = W \cup Asked(s)
  BY <1>1, <1>2 DEF Draws
<1>4. Shape(t) /\ AlikeButEntry(s, t) /\ t.entry = NoTag /\ t.entryText = <<>>
  BY <1>1 DEF Draws, Alike, AlikeButEntry
<1>5. (t.sf = NoTag <=> s.sf = NoTag) /\ (s.sf # NoTag => t.sf.prompt = s.sf.prompt)
  BY <1>1 DEF Draws, SamePrompt
<1> QED
  BY <1>3, <1>4, <1>5 DEF Emits

\* What spends its words behind the prompt.
LEMMA PromptEmits ==
  ASSUME NEW s, Shape(s), s.sf # NoTag, NEW u, Shape(u), AlikeButEntry(s, u), u.entry = NoTag,
         u.entryText = <<>>, u.sf # NoTag, u.sf.prompted, u.sf.prompt = s.sf.prompt,
         u.dropped = s.dropped, Extended(s.items, u.items, Asked(s)),
         NEW t, NEW W, Spends(u, t, W), W \cap Asked(s) = {}
  PROVE  Emits(s, t, W)
<1>1. PICK V, G : Draws(u, t, V, G) /\ V \cup G = W /\ V \cap G = {}
  BY DEF Spends
<1>2. Asked(t) = {} /\ t.sf # NoTag /\ t.sf.prompt = s.sf.prompt
  BY <1>1 DEF Draws, SamePrompt, Asked
<1> DEFINE all == Asked(s) \cup V
<1>3. Extended(s.items, t.items, all)
  <2>1. Asked(s) \cap V = {} /\ IsSeq(s.items) /\ Extended(u.items, t.items, V)
    BY <1>1 DEF Shape, Draws
  <2> QED
    BY <2>1, Further, Zenon
<1>4. /\ t.dropped = s.dropped \cup G
      /\ all \cap G = {} /\ (all \cup G) \cap Asked(t) = {}
      /\ all \cup G \cup Asked(t) = W \cup Asked(s)
  BY <1>1, <1>2 DEF Draws
<1> HIDE DEF all
<1>5. Shape(t) /\ AlikeButEntry(s, t) /\ t.entry = NoTag /\ t.entryText = <<>>
  BY <1>1 DEF Draws, Alike, AlikeButEntry
<1> QED
  BY <1>2, <1>3, <1>4, <1>5 DEF Emits

\* _emit_choice.
LEMMA ChoiceEmits ==
  ASSUME NEW s, Shape(s), s.sf # NoTag, Written(s.sf.prompt), NEW e, NEW after, Written(after),
         Written(s.entryText), Ids(after) \cap Ids(s.entryText) = {},
         s.entry = NoTag => s.entryText = <<>>,
         (Ids(after) \cup Ids(s.entryText)) \cap Asked(s) = {}
  PROVE  Emits(s, EmitChoice(s, e, after), Ids(after) \cup Ids(s.entryText))
<1> DEFINE words == IF s.entry = NoTag THEN after ELSE s.entryText
           description == IF s.entry = NoTag THEN <<>> ELSE after
           led == IF ~s.sf.prompted /\ s.sf.prompt # <<>> THEN Ids(words) ELSE {}
           t == EmitPrompt(s)
           u == [t EXCEPT !.entry = NoTag, !.entryText = <<>>, !.led = t.led \cup led]
           v == ChoiceOf(u, e, s.entry, words, description)
           W == Ids(after) \cup Ids(s.entryText)
<1>1. EmitChoice(s, e, after) = v
  BY Zenon DEF EmitChoice
<1>2. /\ Shape(t) /\ Alike(s, t) /\ t.dropped = s.dropped
      /\ t.sf # NoTag /\ t.sf.prompted /\ t.sf.prompt = s.sf.prompt
      /\ Extended(s.items, t.items, Asked(s))
  BY PromptDraws
<1> HIDE DEF t, led
<1>3. /\ DOMAIN u = DOMAIN t /\ u.items = t.items /\ u.sf = t.sf /\ u.dropped = t.dropped
      /\ AlikeButEntry(s, u) /\ u.entry = NoTag /\ u.entryText = <<>>
  BY <1>2 DEF Shape, Fields, Alike, AlikeButEntry
<1> HIDE DEF u
<1>4. /\ Written(words) /\ Written(description) /\ Ids(words) \cap Ids(description) = {}
      /\ Ids(words) \cup Ids(description) = W
  <2>1. Written(<<>>) /\ Ids(<<>>) = {}
    BY DEF Written, Ids
  <2> QED
    BY <2>1
<1>5. Shape(u)
  BY <1>2, <1>3 DEF Shape
<1>6. s.entry = NoTag => description = <<>>
  OBVIOUS
<1> HIDE DEF words, description
<1>7. Spends(u, v, W)
  <2>1. u.sf # NoTag
    BY <1>2, <1>3
  <2>2. Spends(u, v, Ids(words) \cup Ids(description))
    BY <1>4, <1>5, <1>6, <2>1, ChoiceSpends, Zenon
  <2> QED
    BY <1>4, <2>2
<1> HIDE DEF v, W
<1>8. W \cap Asked(s) = {}
  BY DEF W
<1>9. Emits(s, v, W)
  BY <1>2, <1>3, <1>5, <1>7, <1>8, PromptEmits
<1> QED
  BY <1>1, <1>9 DEF W

\* _emit_chdiv.
LEMMA ChdivEmits ==
  ASSUME NEW s, Shape(s), s.sf # NoTag, Written(s.sf.prompt), NEW e, NEW words, Written(words),
         s.entry = NoTag, s.entryText = <<>>, Ids(words) \cap Asked(s) = {}
  PROVE  Emits(s, EmitChdiv(s, e, words), Ids(words))
<1> DEFINE t == EmitPrompt(s)
           start == IF t.sf.auto THEN t.sf.origin - 1 ELSE t.sf.numcol
           rule == Add(t, Item("rule", t.sf.row, start, Most(1, Width - start - 1), <<>>))
           drawn == CASE e.type = "dash" -> [rule EXCEPT !.dropped = @ \cup Ids(words)]
                      [] e.type # "dash" /\ words # <<>> ->
                           AddCut(t, t.sf.row, start, words, Most(1, Width - start - 1))
                      [] OTHER -> t
           u == [drawn EXCEPT !.sf.row = t.sf.row + 1]
<1>1. EmitChdiv(s, e, words) = u
  BY Zenon DEF EmitChdiv, ChdivOf
<1>2. /\ Shape(t) /\ Alike(s, t) /\ t.dropped = s.dropped
      /\ t.sf # NoTag /\ t.sf.prompted /\ t.sf.prompt = s.sf.prompt
      /\ Extended(s.items, t.items, Asked(s))
  BY PromptDraws
<1> HIDE DEF t, start
<1>3. Draws(t, t, {}, {}) /\ {} \cap Ids(words) = {} /\ {} \cup Ids(words) = Ids(words)
  BY <1>2, DrawsAlone
<1>4. Spends(t, drawn, Ids(words))
  <2>1. CASE e.type = "dash"
    <3>1. Draws(t, rule, {}, {})
      BY <1>2, <1>3, MarkDraws, Zenon
    <3>2. drawn = [rule EXCEPT !.dropped = @ \cup Ids(words)]
      BY <2>1
    <3> HIDE DEF rule, drawn
    <3>3. Draws(t, [rule EXCEPT !.dropped = @ \cup Ids(words)], {}, {} \cup Ids(words))
      BY <1>2, <3>1, DrawsAndSets, Zenon
    <3> QED
      BY <1>2, <1>3, <3>2, <3>3, DrawsSpends, Zenon
  <2>2. CASE e.type # "dash" /\ words # <<>>
    <3>1. Spends(t, AddCut(t, t.sf.row, start, words, Most(1, Width - start - 1)), {} \cup Ids(words))
      BY <1>2, <1>3, AddCutSpends, Zenon
    <3>2. drawn = AddCut(t, t.sf.row, start, words, Most(1, Width - start - 1))
      BY <2>2, Zenon
    <3> HIDE DEF drawn
    <3> QED
      BY <1>3, <3>1, <3>2, Zenon
  <2>3. CASE e.type # "dash" /\ words = <<>>
    <3>1. Ids(words) = {}
      BY <2>3 DEF Ids
    <3>2. drawn = t
      BY <2>3
    <3> HIDE DEF drawn
    <3> QED
      BY <1>2, <1>3, <3>1, <3>2, DrawsSpends, Zenon
  <2> QED
    BY <2>1, <2>2, <2>3
<1> HIDE DEF drawn
<1>5. Draws(drawn, u, {}, {})
  <2>1. Shape(drawn) /\ drawn.sf # NoTag
    BY <1>2, <1>4 DEF Spends, Draws, SamePrompt
  <2> DEFINE x == t.sf.row + 1
             sf == [drawn.sf EXCEPT !.row = x]
  <2>2. /\ DOMAIN sf = DOMAIN drawn.sf /\ sf.tag = drawn.sf.tag /\ sf.prompt = drawn.sf.prompt
        /\ sf.prompted = drawn.sf.prompted
    BY <2>1 DEF Shape, Chooser
  <2> HIDE DEF x, sf
  <2>3. u = [drawn EXCEPT !.sf = sf]
    BY DEF sf, x
  <2> HIDE DEF u
  <2>4. /\ DOMAIN u = DOMAIN drawn /\ u.sf = sf
        /\ \A y \in DOMAIN drawn \ (Layout \cup {"sf"}) : u[y] = drawn[y]
    BY <2>1, <2>3 DEF Shape, Fields
  <2> QED
    BY <2>1, <2>2, <2>4, ChooserDraws
<1> HIDE DEF u
<1>6. Spends(t, u, Ids(words))
  BY <1>2, <1>4, <1>5, DrawsSpends, Zenon
<1>7. AlikeButEntry(s, t) /\ t.entry = NoTag /\ t.entryText = <<>>
  BY <1>2 DEF Alike, AlikeButEntry
<1> DEFINE W == Ids(words)
<1> HIDE DEF W
<1>8. Spends(t, u, W) /\ W \cap Asked(s) = {}
  BY <1>6 DEF W
<1>9. Emits(s, u, W)
  BY <1>2, <1>7, <1>8, PromptEmits
<1> QED
  BY <1>1, <1>9 DEF W

\* What is captured belongs to the element that is open.
Control(s) ==
  /\ s.titling => s.items = <<>> /\ s.tag = NoTag
  /\ s.tag = NoTag => s.chars = <<>> /\ ~s.phrased /\ ~s.described /\ s.entry = NoTag
  /\ s.tag # NoTag => s.tag.tag \in Content \cup {"divider"}
  /\ s.described => s.tag.tag \in FieldTags
  /\ ~s.described => s.description = <<>> /\ ~s.describing
  /\ s.phrased => s.tag.tag \in TextTags \cup {"divider"}
  /\ s.entry # NoTag => s.tag.tag = "choice"
  /\ s.entry = NoTag => s.entryText = <<>>
  /\ s.tag.tag \in {"choice", "chdiv"} => s.sf # NoTag

Texts(s) ==
  /\ Written(s.chars) /\ Written(s.entryText) /\ Written(s.description) /\ Written(s.title)
  /\ s.sf # NoTag => Written(s.sf.prompt)

\* The words of the open element, but for those an inline phrase lost.
Spoken(s) == Ids(Captured(s)) \cup Ids(s.entryText) \cup Ids(s.description)

\* What is captured at the same time has no word twice.
Separate(s) ==
  /\ Ids(s.chars) \cap Ids(s.entryText) = {}
  /\ Ids(s.chars) \cap Ids(s.description) = {}
  /\ (Ids(s.chars) \cup Ids(s.entryText) \cup Ids(s.description)) \cap Asked(s) = {}

\* Whatever the element, its words are emitted.
LEMMA ElementEmits ==
  ASSUME NEW s, Shape(s), Control(s), Texts(s), Separate(s), s.tag # NoTag
  PROVE  Emits(s, Emitted(s), Spoken(s))
<1> DEFINE e == s.tag
           words == IF s.described THEN s.description ELSE Captured(s)
           t == Emitted(s)
<1> SUFFICES Emits(s, t, Spoken(s))
  OBVIOUS
<1>1. /\ Written(<<>>) /\ Ids(<<>>) = {}
      /\ Captured(s) = s.chars \/ Captured(s) = <<>>
  BY DEF Written, Ids, Captured
<1>2. /\ Written(words) /\ Written(s.chars) /\ Written(s.description) /\ Written(s.entryText)
      /\ Ids(s.chars) \cap Ids(s.description) = {} /\ Ids(s.description) \cap Ids(s.chars) = {}
      /\ Spoken(s) \cap Asked(s) = {}
  BY <1>1 DEF Texts, Separate, Spoken
<1>3. e.tag \in Content \cup {"divider"}
  BY DEF Control
<1>4. e.tag # "choice" => s.entry = NoTag /\ s.entryText = <<>>
  BY DEF Control
<1>5. e.tag \notin FieldTags => ~s.described /\ s.description = <<>> /\ words = Captured(s)
  BY DEF Control
<1>6. ASSUME e.tag \notin FieldTags \cup {"choice"}
      PROVE  Spoken(s) = Ids(words)
  BY <1>1, <1>4, <1>5, <1>6 DEF Spoken
<1>7. ASSUME NEW W, Spends(s, t, W), W = Spoken(s), e.tag # "choice"
      PROVE  Emits(s, t, Spoken(s))
  BY <1>2, <1>4, <1>7, SpendsEmits
<1> DEFINE field == EmitField(SkipBlankBefore(s, e), e, words, <<>>)
           chars == IF s.described THEN Ids(s.chars) ELSE {}
<1>8. /\ e.tag \in Infos => t = EmitInfo(s, e, words)
      /\ e.tag = "li" => t = EmitListItem(s, words)
      /\ e.tag = "nt" => t = EmitNote(s, e, words)
      /\ e.tag = "divider" => t = EmitDivider(s, e, words)
      /\ e.tag = "dtafld" =>
           t = IF s.described /\ s.chars # <<>> THEN EmitField(s, e, s.chars, s.description)
               ELSE EmitField(s, e, words, <<>>)
      /\ e.tag = "cmdarea" => t = [field EXCEPT !.dropped = @ \cup chars]
      /\ e.tag = "choice" => t = EmitChoice(s, e, words)
      /\ e.tag = "chdiv" => t = EmitChdiv(s, e, words)
  BY DEF Emitted, Infos, Instructions
<1> HIDE DEF t
<1>9. CASE e.tag \in Infos \cup {"li", "nt", "divider"}
  <2>1. e.tag \notin FieldTags \cup {"choice"}
    BY <1>9 DEF Infos, Instructions, FieldTags
  <2>2. Spends(s, t, Ids(words))
    <3>1. CASE e.tag \in Infos
      BY <1>2, <1>8, <3>1, InfoDraws, DrawsSpends, Zenon
    <3>2. CASE e.tag = "li"
      BY <1>2, <1>8, <3>2, ListItemDraws, DrawsSpends, Zenon
    <3>3. CASE e.tag = "nt"
      BY <1>2, <1>8, <3>3, NoteDraws, DrawsSpends, Zenon
    <3>4. CASE e.tag = "divider"
      <4>1. Spends(s, EmitDivider(s, e, words), Ids(words))
        BY <1>2, DividerSpends, Zenon
      <4> QED
        BY <1>8, <3>4, <4>1
    <3> QED
      BY <1>9, <3>1, <3>2, <3>3, <3>4
  <2> QED
    BY <1>6, <1>7, <2>1, <2>2
<1>10. CASE e.tag \in FieldTags
  <2>1. Captured(s) = s.chars /\ e.tag # "choice"
    BY <1>10 DEF Captured, Control, FieldTags, TextTags, Infos, Instructions
  <2>2. Spoken(s) = Ids(s.chars) \cup Ids(s.description)
    BY <1>1, <1>4, <2>1 DEF Spoken
  <2>3. ~s.described => s.description = <<>>
    BY DEF Control
  <2>4. \A r : Shape(r) => Spends(r, EmitField(r, e, words, <<>>), Ids(words))
    <3>1. Ids(words) \cap Ids(<<>>) = {} /\ Ids(words) \cup Ids(<<>>) = Ids(words)
      BY <1>1
    <3> HIDE DEF words
    <3>2. \A r : Shape(r) => Spends(r, EmitField(r, e, words, <<>>), Ids(words) \cup Ids(<<>>))
      BY <1>1, <1>2, <3>1, FieldSpends, Zenon
    <3> QED
      BY <3>1, <3>2
  <2>5. CASE e.tag = "dtafld"
    <3>1. CASE s.described /\ s.chars # <<>>
      <4>1. Spends(s, EmitField(s, e, s.chars, s.description), Ids(s.chars) \cup Ids(s.description))
        BY <1>2, FieldSpends, Zenon
      <4>2. t = EmitField(s, e, s.chars, s.description)
        BY <1>8, <2>5, <3>1
      <4> QED
        BY <1>7, <2>1, <2>2, <4>1, <4>2
    <3>2. CASE ~(s.described /\ s.chars # <<>>)
      <4>1. Ids(words) = Spoken(s)
        BY <1>1, <2>1, <2>2, <2>3, <3>2
      <4>2. t = EmitField(s, e, words, <<>>)
        BY <1>8, <2>5, <3>2
      <4>3. Spends(s, EmitField(s, e, words, <<>>), Ids(words))
        BY <2>4
      <4> QED
        BY <1>7, <2>1, <4>1, <4>2, <4>3
    <3> QED
      BY <3>1, <3>2
  <2>6. CASE e.tag = "cmdarea"
    <3> DEFINE r == SkipBlankBefore(s, e)
    <3>1. Draws(s, r, {}, {})
      BY FlowDraws
    <3>2. Spends(r, field, Ids(words))
      BY <2>4, <3>1 DEF Draws
    <3> HIDE DEF r, field
    <3>3. Spends(s, field, Ids(words))
      BY <3>1, <3>2, DrawsSpends, Zenon
    <3>4. PICK V, G : Draws(s, field, V, G) /\ V \cup G = Ids(words) /\ V \cap G = {}
      BY <3>3 DEF Spends
    <3>5. Draws(s, [field EXCEPT !.dropped = @ \cup chars], V, G \cup chars)
      BY <3>4, DrawsAndSets, Zenon
    <3>6. V \cup (G \cup chars) = Spoken(s) /\ V \cap (G \cup chars) = {}
      BY <1>1, <1>2, <2>1, <2>2, <2>3, <3>4
    <3> HIDE DEF chars
    <3>7. Spends(s, t, Spoken(s))
      BY <1>8, <2>6, <3>5, <3>6, Zenon DEF Spends
    <3> QED
      BY <1>7, <2>1, <3>7
  <2> QED
    BY <1>10, <2>5, <2>6 DEF FieldTags
<1>11. CASE e.tag = "choice"
  <2>1. s.sf # NoTag /\ Written(s.sf.prompt)
    BY <1>11 DEF Control, Texts
  <2>2. words = Captured(s) /\ s.description = <<>>
    BY <1>5, <1>11 DEF FieldTags
  <2>3. Ids(words) \cup Ids(s.entryText) = Spoken(s)
    BY <1>1, <2>2 DEF Spoken
  <2>4. Ids(words) \cap Ids(s.entryText) = {} /\ (s.entry = NoTag => s.entryText = <<>>)
    BY <1>1, <2>2 DEF Separate, Control
  <2> HIDE DEF words
  <2>5. Emits(s, EmitChoice(s, e, words), Ids(words) \cup Ids(s.entryText))
    BY <1>2, <2>1, <2>3, <2>4, ChoiceEmits
  <2> QED
    BY <1>8, <1>11, <2>3, <2>5
<1>12. CASE e.tag = "chdiv"
  <2>1. s.sf # NoTag /\ Written(s.sf.prompt) /\ s.entry = NoTag /\ s.entryText = <<>>
    BY <1>4, <1>12 DEF Control, Texts
  <2>2. Ids(words) = Spoken(s)
    BY <1>6, <1>12 DEF FieldTags
  <2> HIDE DEF words
  <2>3. Emits(s, EmitChdiv(s, e, words), Ids(words))
    BY <1>2, <2>1, <2>2, ChdivEmits
  <2> QED
    BY <1>8, <1>12, <2>2, <2>3
<1> QED
  BY <1>3, <1>9, <1>10, <1>11, <1>12 DEF Content, TextTags

-----------------------------------------------------------------------------
(* Where the words are.                                                    *)

Gone(s) == s.dropped \cup s.lost
TitleWords(s) == IF s.titling THEN Ids(s.title) ELSE {}

\* The title is the first item, if it was drawn.
TitleFirst(s) ==
  ~s.titling /\ s.title # <<>> =>
    \/ Ids(s.title) \subseteq Gone(s)
    \/ s.items # <<>> /\ s.items[1].words = Ids(s.title)

\* The words W are shared out: each is in one of seven places.
Shares(W, A, B, C, D, E, F, G) ==
  /\ W = A \cup B \cup C \cup D \cup E \cup F \cup G
  /\ A \cap (B \cup C \cup D \cup E \cup F \cup G) = {}
  /\ B \cap (C \cup D \cup E \cup F \cup G) = {}
  /\ C \cap (D \cup E \cup F \cup G) = {}
  /\ D \cap (E \cup F \cup G) = {}
  /\ E \cap (F \cup G) = {}
  /\ F \cap G = {}

\* Each of the words W is drawn once, gone, or captured at one place.
Kept(s, W) ==
  /\ Shape(s) /\ Control(s) /\ Texts(s) /\ TitleFirst(s) /\ Once(s.items)
  /\ Shares(W, Drawn(s.items), Gone(s), TitleWords(s), Asked(s),
            Ids(s.chars), Ids(s.entryText), Ids(s.description))

\* What is shown behind items that show each word once.
LEMMA ExtendedOnce ==
  ASSUME NEW a, IsSeq(a), Once(a), NEW b, NEW V, Extended(a, b, V), Drawn(a) \cap V = {}
  PROVE  /\ Once(b) /\ Drawn(b) = Drawn(a) \cup V
         /\ a # <<>> => b # <<>> /\ b[1] = a[1]
<1>1. /\ Len(a) \in Nat /\ Len(b) \in Nat /\ Len(a) <= Len(b)
      /\ DOMAIN a = 1 .. Len(a) /\ DOMAIN b = 1 .. Len(b)
      /\ \A i \in 1 .. Len(a) : b[i] = a[i]
  BY DEF IsSeq, Extended
<1>2. \A i : i \in 1 .. Len(b) <=> (i \in 1 .. Len(a) \/ i \in Len(a) + 1 .. Len(b))
  BY <1>1
<1>3. \A w : w \in V <=> \E i \in Len(a) + 1 .. Len(b) : w \in b[i].words
  BY DEF Extended
<1>4. \A w : w \in Drawn(a) <=> \E i \in 1 .. Len(a) : w \in a[i].words
  BY <1>1 DEF Drawn
<1>5. \A w : w \in Drawn(b) <=> \E i \in 1 .. Len(b) : w \in b[i].words
  BY <1>1 DEF Drawn
<1>6. Drawn(b) = Drawn(a) \cup V
  <2>1. \A w : w \in Drawn(b) <=> w \in Drawn(a) \/ w \in V
    BY <1>1, <1>2, <1>3, <1>4, <1>5
  <2> QED
    BY <2>1
<1>7. ASSUME NEW i \in DOMAIN b, NEW j \in DOMAIN b, NEW w, w \in b[i].words, w \in b[j].words
      PROVE  i = j
  <2>1. CASE i \in 1 .. Len(a) /\ j \in 1 .. Len(a)
    <3>1. i \in DOMAIN a /\ j \in DOMAIN a /\ w \in a[i].words \cap a[j].words
      BY <1>1, <1>7, <2>1
    <3> QED
      BY <3>1 DEF Once
  <2>2. CASE i \in Len(a) + 1 .. Len(b) /\ j \in Len(a) + 1 .. Len(b)
    BY <1>7, <2>2 DEF Extended
  <2>3. CASE i \in 1 .. Len(a) /\ j \in Len(a) + 1 .. Len(b)
    <3>1. w \in Drawn(a) /\ w \in V
      BY <1>1, <1>3, <1>4, <1>7, <2>3
    <3> QED
      BY <3>1
  <2>4. CASE i \in Len(a) + 1 .. Len(b) /\ j \in 1 .. Len(a)
    <3>1. w \in Drawn(a) /\ w \in V
      BY <1>1, <1>3, <1>4, <1>7, <2>4
    <3> QED
      BY <3>1
  <2> QED
    BY <1>1, <1>2, <2>1, <2>2, <2>3, <2>4
<1>8. Once(b)
  BY <1>7 DEF Once
<1>9. a # <<>> => b # <<>> /\ b[1] = a[1]
  <2>1. a # <<>> => Len(a) >= 1
    BY DEF IsSeq
  <2> QED
    BY <1>1, <2>1
<1> QED
  BY <1>6, <1>8, <1>9

\* A step that draws nothing, or shows items without words behind the title.
LEMMA KeptDraws ==
  ASSUME NEW W, NEW s, Kept(s, W), NEW t, Draws(s, t, {}, {}), s.titling => t.items = s.items
  PROVE  Kept(t, W)
<1>1. Once(t.items) /\ Drawn(t.items) = Drawn(s.items) /\ (s.items # <<>> => t.items # <<>> /\ t.items[1] = s.items[1])
  <2>1. IsSeq(s.items) /\ Once(s.items) /\ Extended(s.items, t.items, {})
    BY DEF Kept, Draws, Shape
  <2>2. Drawn(s.items) \cap {} = {} /\ Drawn(s.items) \cup {} = Drawn(s.items)
    OBVIOUS
  <2> QED
    BY <2>1, <2>2, ExtendedOnce, Zenon
<1>2. Gone(t) = Gone(s) /\ TitleWords(t) = TitleWords(s) /\ Asked(t) = Asked(s)
  BY DEF Draws, Alike, SamePrompt, Gone, TitleWords, Asked
<1>3. t.chars = s.chars /\ t.entryText = s.entryText /\ t.description = s.description
  BY DEF Draws, Alike
<1>4. Control(t)
  BY DEF Kept, Control, Draws, Alike, SamePrompt
<1>5. Texts(t)
  BY DEF Kept, Texts, Draws, Alike, SamePrompt
<1>6. TitleFirst(t)
  BY <1>1, <1>2 DEF Kept, TitleFirst, Draws, Alike
<1> QED
  BY <1>1, <1>2, <1>3, <1>4, <1>5, <1>6, Zenon DEF Kept, Draws

\* What is emitted, and the flow goes on.
LEMMA EmitsOn ==
  ASSUME NEW s, Shape(s), NEW t, NEW u, NEW W, Emits(s, t, W), Draws(t, u, {}, {})
  PROVE  Emits(s, u, W)
<1>1. PICK V, G :
         /\ Extended(s.items, t.items, V) /\ t.dropped = s.dropped \cup G
         /\ V \cap G = {} /\ (V \cup G) \cap Asked(t) = {}
         /\ V \cup G \cup Asked(t) = W \cup Asked(s)
  BY DEF Emits
<1>2. Extended(s.items, u.items, V)
  <2>1. IsSeq(s.items) /\ Extended(t.items, u.items, {}) /\ V \cap {} = {} /\ V \cup {} = V
    BY DEF Shape, Draws
  <2>2. Extended(s.items, u.items, V \cup {})
    BY <1>1, <2>1, Further, Zenon
  <2> QED
    BY <2>1, <2>2, Zenon
<1>3. Asked(u) = Asked(t) /\ u.dropped = s.dropped \cup G
  BY <1>1 DEF Draws, SamePrompt, Asked
<1>4. Shape(u) /\ AlikeButEntry(s, u) /\ u.entry = NoTag /\ u.entryText = <<>>
  BY DEF Emits, Draws, Alike, AlikeButEntry
<1>5. (u.sf = NoTag <=> s.sf = NoTag) /\ (s.sf # NoTag => u.sf.prompt = s.sf.prompt)
  BY DEF Emits, Draws, SamePrompt
<1> QED
  BY <1>1, <1>2, <1>3, <1>4, <1>5, Zenon DEF Emits

\* The flow after an element, and its point-and-shoot row.
LEMMA PointedDraws ==
  ASSUME NEW s, Shape(s), NEW horiz, NEW start, NEW phrase
  PROVE  Draws(s, Flowed(s, horiz, start), {}, {}) /\ Draws(s, Pointed(s, start, phrase), {}, {})
<1>1. Draws(s, s, {}, {}) /\ Draws(s, FlowHoriz(s, start), {}, {})
  BY DrawsAlone, FlowDraws
<1>2. Draws(s, Flowed(s, horiz, start), {}, {})
  BY <1>1, Zenon DEF Flowed
<1> DEFINE rows == {s.items[i].row : i \in {j \in DOMAIN s.items : j > start}}
           first == CHOOSE r \in rows : \A q \in rows : r <= q
           x == IF rows = {} THEN s.psRows ELSE {y \in s.psRows : y[1] # first} \cup {<<first, phrase>>}
           t == [s EXCEPT !.pointed = FALSE, !.psRows = x]
<1>3. Pointed(s, start, phrase) = IF ~s.pointed THEN s ELSE t
  BY DEF Pointed
<1> HIDE DEF x
<1>4. DOMAIN t = DOMAIN s /\ \A y \in DOMAIN s \ Layout : t[y] = s[y]
  BY DEF Layout
<1> HIDE DEF t
<1>5. Draws(s, t, {}, {})
  BY <1>4, LayoutDraws
<1> QED
  BY <1>1, <1>2, <1>3, <1>5, Zenon

\* No element is open.
Idle(s) == s.tag = NoTag /\ ~s.titling

\* The capture state is reset.
LEMMA ReleasedKept ==
  ASSUME NEW W, NEW s, Kept(s, W), ~s.titling, NEW t, Emits(s, t, Spoken(s))
  PROVE  Kept(Released(t), W) /\ Idle(Released(t)) /\ (Released(t).sf = NoTag <=> s.sf = NoTag)
<1> DEFINE lost == IF Captured(t) = t.chars THEN {} ELSE Ids(t.chars)
           r == Released(t)
<1>1. /\ DOMAIN r = DOMAIN t /\ r.items = t.items /\ r.sf = t.sf /\ r.dropped = t.dropped
      /\ r.lost = t.lost \cup lost /\ r.tag = NoTag /\ r.chars = <<>> /\ r.phrased = FALSE
      /\ r.described = FALSE /\ r.describing = FALSE /\ r.description = <<>>
      /\ r.entry = t.entry /\ r.entryText = t.entryText /\ r.title = t.title /\ r.titling = t.titling
  BY DEF Released, Emits, Shape, Fields
<1> HIDE DEF r
<1>2. PICK V, G :
         /\ Extended(s.items, t.items, V) /\ t.dropped = s.dropped \cup G
         /\ V \cap G = {} /\ (V \cup G) \cap Asked(t) = {}
         /\ V \cup G \cup Asked(t) = Spoken(s) \cup Asked(s)
  BY DEF Emits
<1>3. /\ Captured(t) = Captured(s) /\ t.chars = s.chars /\ t.titling = s.titling /\ t.title = s.title
      /\ t.lost = s.lost
  BY DEF Emits, AlikeButEntry, Captured
<1>4. /\ Ids(Captured(s)) \cup lost = Ids(s.chars)
      /\ Ids(Captured(s)) \cap lost = {} /\ Ids(<<>>) = {}
  <2>1. Ids(<<>>) = {} /\ (Captured(s) = s.chars \/ Captured(s) = <<>>)
    BY DEF Ids, Captured
  <2>2. CASE Captured(s) = s.chars
    BY <1>3, <2>1, <2>2
  <2>3. CASE Captured(s) # s.chars
    BY <1>3, <2>1, <2>3
  <2> QED
    BY <2>2, <2>3
<1>5. Asked(r) = Asked(t) /\ TitleWords(s) = {} /\ TitleWords(r) = {}
  BY <1>1, <1>3 DEF Asked, TitleWords
<1>6. Gone(r) = Gone(s) \cup G \cup lost
  BY <1>1, <1>2, <1>3 DEF Gone
<1>7. Shares(W, Drawn(s.items), Gone(s), {}, Asked(s), Ids(s.chars), Ids(s.entryText), Ids(s.description))
  BY <1>5 DEF Kept
<1> HIDE DEF lost
<1>8. V \subseteq Spoken(s) \cup Asked(s) /\ Drawn(s.items) \cap V = {}
  <2>1. V \subseteq Spoken(s) \cup Asked(s)
    BY <1>2
  <2>2. Drawn(s.items) \cap (Spoken(s) \cup Asked(s)) = {}
    BY <1>4, <1>7 DEF Shares, Spoken
  <2> QED
    BY <2>1, <2>2
<1>9. Once(t.items) /\ Drawn(t.items) = Drawn(s.items) \cup V
      /\ (s.items # <<>> => t.items # <<>> /\ t.items[1] = s.items[1])
  <2>1. IsSeq(s.items) /\ Once(s.items)
    BY DEF Kept, Shape
  <2> QED
    BY <1>2, <1>8, <2>1, ExtendedOnce, Zenon
<1>10. Shares(W, Drawn(r.items), Gone(r), TitleWords(r), Asked(r),
              Ids(r.chars), Ids(r.entryText), Ids(r.description))
  <2> DEFINE A == Drawn(s.items)
             B == Gone(s)
             D == Asked(s)
             E == Ids(s.chars)
             F == Ids(s.entryText)
             H == Ids(s.description)
             K == Ids(Captured(s))
             D1 == Asked(t)
  <2>1. /\ K \cup lost = E /\ K \cap lost = {} /\ V \cap G = {} /\ (V \cup G) \cap D1 = {}
        /\ V \cup G \cup D1 = K \cup F \cup H \cup D
    BY <1>2, <1>4 DEF Spoken
  <2>2. /\ Drawn(r.items) = A \cup V /\ Gone(r) = B \cup G \cup lost /\ TitleWords(r) = {}
        /\ Asked(r) = D1 /\ Ids(r.chars) = {} /\ Ids(r.entryText) = {} /\ Ids(r.description) = {}
    <3>1. r.entryText = <<>>
      BY <1>1 DEF Emits
    <3> QED
      BY <1>1, <1>4, <1>5, <1>6, <1>9, <3>1
  <2>3. Shares(W, A, B, {}, D, E, F, H)
    BY <1>7
  <2> HIDE DEF A, B, D, E, F, H, K, D1
  <2>4. Shares(W, A \cup V, B \cup G \cup lost, {}, D1, {}, {}, {})
    BY <2>1, <2>3 DEF Shares
  <2> QED
    BY <2>2, <2>4
<1>11. Shape(r)
  BY <1>1 DEF Emits, Shape
<1>12. Control(r)
  BY <1>1, <1>3 DEF Control, Emits, NoTag
<1>13. Texts(r)
  <2>1. Written(<<>>)
    BY DEF Written
  <2> QED
    BY <1>1, <1>3, <2>1 DEF Kept, Texts, Emits
<1>14. TitleFirst(r)
  BY <1>1, <1>3, <1>6, <1>9 DEF Kept, TitleFirst
<1>15. Once(r.items)
  BY <1>1, <1>9
<1>16. Idle(r) /\ (r.sf = NoTag <=> s.sf = NoTag)
  BY <1>1, <1>3 DEF Emits, Idle
<1>17. Kept(r, W)
  BY <1>10, <1>11, <1>12, <1>13, <1>14, <1>15 DEF Kept
<1> QED
  BY <1>16, <1>17 DEF r

\* _emit_current: every captured word is drawn, gone, or still waits in a prompt.
LEMMA CurrentKept ==
  ASSUME NEW W, NEW s, Kept(s, W), ~s.titling
  PROVE  /\ Kept(EmitCurrent(s), W) /\ Idle(EmitCurrent(s))
         /\ EmitCurrent(s).sf = NoTag <=> s.sf = NoTag
<1>1. CASE s.tag = NoTag
  BY <1>1 DEF EmitCurrent, Idle
<1>2. CASE s.tag # NoTag
  <2> DEFINE horiz == Box(s).dir = "horiz" /\ s.sf = NoTag
             start == Len(s.items)
             phrase == Ids(IF s.entry = NoTag THEN s.chars ELSE s.entryText)
             t == Emitted(s)
             u == Flowed(t, horiz, start)
             v == Pointed(u, start, phrase)
  <2>1. EmitCurrent(s) = Released(v)
    BY <1>2, Zenon DEF EmitCurrent
  <2>2. Shape(s) /\ Control(s) /\ Texts(s)
    BY DEF Kept
  <2>3. Separate(s)
    BY DEF Kept, Shares, Separate
  <2>4. Emits(s, t, Spoken(s))
    BY <1>2, <2>2, <2>3, ElementEmits
  <2> HIDE DEF t, horiz, start, phrase
  <2>5. Draws(t, u, {}, {})
    BY <2>4, PointedDraws, Zenon DEF Emits
  <2> HIDE DEF u
  <2>6. Emits(s, u, Spoken(s))
    BY <2>2, <2>4, <2>5, EmitsOn, Zenon
  <2>7. Draws(u, v, {}, {})
    BY <2>6, PointedDraws, Zenon DEF Emits
  <2> HIDE DEF v
  <2>8. Emits(s, v, Spoken(s))
    BY <2>2, <2>6, <2>7, EmitsOn, Zenon
  <2>9. Kept(Released(v), W) /\ Idle(Released(v)) /\ (Released(v).sf = NoTag <=> s.sf = NoTag)
    BY <2>8, ReleasedKept, Zenon
  <2> QED
    BY <2>1, <2>9
<1> QED
  BY <1>1, <1>2

-----------------------------------------------------------------------------
(* Start tags, text and end tags.                                          *)

\* What the title's end leaves alone.
AlikeButTitle(s, t) ==
  /\ t.tag = s.tag /\ t.phrased = s.phrased /\ t.phrase = s.phrase /\ t.described = s.described
  /\ t.describing = s.describing /\ t.entry = s.entry /\ t.sf = s.sf /\ t.skip = s.skip

\* _finalize_panel_title.
LEMMA TitleKept ==
  ASSUME NEW W, NEW s, Kept(s, W)
  PROVE  Kept(FinishTitle(s), W) /\ ~FinishTitle(s).titling /\ AlikeButTitle(s, FinishTitle(s))
<1> DEFINE row == panel.tmargin
           col == Most(0, (Width - LineLen(s.title)) \div 2)
           titled == Add(s, TextAt(row, col, s.title))
           box == [Box(s) EXCEPT !.row = Most(@, row + 1), !.had = TRUE]
           t == FinishTitle(s)
<1>1. CASE ~s.titling
  BY <1>1 DEF FinishTitle, AlikeButTitle
<1>2. CASE s.titling /\ (s.title = <<>> \/ ~panel.titline)
  <2> DEFINE G == Ids(s.title)
  <2>1. /\ DOMAIN t = DOMAIN s /\ t.items = s.items /\ t.sf = s.sf /\ t.lost = s.lost
        /\ t.chars = s.chars /\ t.entryText = s.entryText /\ t.description = s.description
        /\ t.title = s.title /\ t.titling = FALSE /\ AlikeButTitle(s, t)
        /\ t.dropped = s.dropped \cup G
    <3>1. Ids(<<>>) = {}
      BY DEF Ids
    <3> QED
      BY <1>2, <3>1 DEF FinishTitle, AlikeButTitle, Kept, Shape, Fields
  <2> HIDE DEF t
  <2>2. /\ Drawn(t.items) = Drawn(s.items) /\ Gone(t) = Gone(s) \cup G /\ TitleWords(s) = G
        /\ TitleWords(t) = {} /\ Asked(t) = Asked(s)
    BY <1>2, <2>1 DEF Gone, TitleWords, Asked
  <2>3. Shares(W, Drawn(t.items), Gone(t), TitleWords(t), Asked(t),
               Ids(t.chars), Ids(t.entryText), Ids(t.description))
    BY <2>1, <2>2 DEF Kept, Shares
  <2>4. Shape(t) /\ Control(t) /\ Texts(t) /\ Once(t.items)
    BY <2>1 DEF Kept, Shape, Control, Texts, AlikeButTitle
  <2>5. TitleFirst(t)
    BY <2>1, <2>2 DEF TitleFirst
  <2>6. Kept(t, W) /\ ~t.titling /\ AlikeButTitle(s, t)
    BY <2>1, <2>3, <2>4, <2>5 DEF Kept
  <2> QED
    BY <2>6 DEF t
<1>3. CASE s.titling /\ s.title # <<>> /\ panel.titline
  <2> DEFINE V == Ids(s.title)
             u == SetBox(titled, box)
  <2>1. t = [u EXCEPT !.titling = FALSE]
    BY <1>3, Zenon DEF FinishTitle
  <2>2. Shape(s) /\ s.items = <<>> /\ Once(s.items) /\ Written(s.title)
    BY <1>3 DEF Kept, Control, Texts
  <2>3. Draws(s, titled, V, {})
    <3>1. Draws(s, s, {}, {}) /\ {} \cap V = {} /\ {} \cup V = V
      BY <2>2, DrawsAlone
    <3>2. Draws(s, titled, {} \cup V, {})
      BY <2>2, <3>1, DrawsAndAdds, Zenon
    <3> QED
      BY <3>1, <3>2
  <2>4. titled.items = Append(s.items, TextAt(row, col, s.title)) /\ TextAt(row, col, s.title).words = V
    BY <2>2, ItemWords DEF Add, Shape, Fields
  <2>5. u.items = titled.items /\ DOMAIN u = DOMAIN titled /\ AlikeButTitle(titled, u)
        /\ AlikeButTitle(s, titled)
    BY DEF SetBox, Add, AlikeButTitle
  <2> HIDE DEF titled, box, col, row
  <2>6. Draws(titled, u, {}, {})
    BY <2>3, FlowDraws DEF Draws
  <2> HIDE DEF u
  <2>7. Draws(s, u, V, {})
    BY <2>2, <2>3, <2>6, DrawsAlone, Zenon
  <2>8. /\ DOMAIN t = DOMAIN u /\ t.items = u.items /\ t.sf = s.sf /\ t.dropped = s.dropped
        /\ t.lost = s.lost /\ t.chars = s.chars /\ t.entryText = s.entryText
        /\ t.description = s.description /\ t.title = s.title /\ t.titling = FALSE
        /\ AlikeButTitle(s, t)
    BY <2>1, <2>5, <2>7 DEF Draws, Alike, Shape, Fields, AlikeButTitle
  <2> HIDE DEF t
  <2>9. TitleWords(s) = V /\ TitleWords(t) = {} /\ Gone(t) = Gone(s) /\ Asked(t) = Asked(s)
    BY <1>3, <2>8 DEF TitleWords, Gone, Asked
  <2>10. Once(t.items) /\ Drawn(t.items) = Drawn(s.items) \cup V
    <3>1. Drawn(s.items) \cap V = {}
      BY <2>9 DEF Kept, Shares
    <3>2. IsSeq(s.items) /\ Extended(s.items, u.items, V)
      BY <2>2, <2>7 DEF Shape, Draws
    <3>3. Once(u.items) /\ Drawn(u.items) = Drawn(s.items) \cup V
      BY <2>2, <3>1, <3>2, ExtendedOnce, Zenon
    <3> QED
      BY <2>8, <3>3
  <2>11. t.items # <<>> /\ t.items[1].words = V
    <3> DEFINE item == TextAt(row, col, s.title)
    <3>1. t.items = Append(<<>>, item) /\ item.words = V
      BY <2>2, <2>4, <2>5, <2>8
    <3> HIDE DEF item, V
    <3> QED
      BY <3>1
  <2>12. Shares(W, Drawn(t.items), Gone(t), TitleWords(t), Asked(t),
                Ids(t.chars), Ids(t.entryText), Ids(t.description))
    BY <2>8, <2>9, <2>10 DEF Kept, Shares
  <2>13. Shape(t)
    BY <2>2, <2>7, <2>8 DEF Draws, Shape
  <2>14. Control(t) /\ Texts(t)
    BY <2>8 DEF Kept, Control, Texts, AlikeButTitle
  <2>15. TitleFirst(t)
    BY <2>8, <2>11 DEF TitleFirst
  <2>16. Kept(t, W) /\ ~t.titling /\ AlikeButTitle(s, t)
    BY <2>8, <2>10, <2>12, <2>13, <2>14, <2>15 DEF Kept
  <2> QED
    BY <2>16 DEF t
<1> QED
  BY <1>1, <1>2, <1>3

\* Boxes are opened and closed without a word drawn.
LEMMA BoxesDraw ==
  ASSUME NEW s, Shape(s), NEW e
  PROVE  Draws(s, OpenBox(s, e), {}, {}) /\ Draws(s, CloseBox(s), {}, {})
<1>1. Draws(s, OpenBox(s, e), {}, {})
  <2>1. PICK x : OpenBox(s, e) = [s EXCEPT !.boxes = x]
    BY DEF OpenBox
  <2>2. Draws(s, [s EXCEPT !.boxes = x], {}, {})
    BY SettingDraws, Zenon
  <2> QED
    BY <2>1, <2>2
<1>2. Draws(s, CloseBox(s), {}, {})
  <2> DEFINE box0 == Box(s)
             row1 == box0.row + box0.margind
             row2 == Most(row1, Most(IF box0.depth > 0 THEN box0.row0 + box0.depth ELSE 0,
                                     IF box0.extend THEN UsableRows ELSE 0))
             ruled == IF box0.div
                      THEN Add(s, Item("rule", row2, box0.col,
                                 IF box0.width > 0 THEN box0.width ELSE Most(1, Width - box0.col - 1), <<>>))
                      ELSE s
             row == IF box0.div THEN row2 + 1 ELSE row2
             maxbottom == IF box0.depth > 0 \/ box0.extend \/ box0.div THEN Most(box0.maxbottom, row) ELSE box0.maxbottom
             bottom == IF box0.dir = "horiz" THEN maxbottom ELSE row
             front == [ruled EXCEPT !.boxes = Front(@)]
             t == [ruled EXCEPT !.boxes = Front(@), !.infoIndent = 0]
             parent == Box(t)
             right == Extent(t, box0.start)[2]
             box == [parent EXCEPT
                       !.col = IF box0.width > 0 THEN box0.col + box0.width + HGap
                               ELSE IF right = None THEN @ ELSE right + HGap,
                       !.maxbottom = Most(@, bottom), !.row = parent.row0]
             u == SetBox(t, box)
             v == [u EXCEPT !.strained = @ \/ (box0.width > 0 /\ right > box0.col + box0.width)]
  <2>1. CloseBox(s) = IF parent.dir = "horiz" THEN v ELSE SetRow(t, bottom)
    BY Zenon DEF CloseBox
  <2>2. Draws(s, s, {}, {})
    BY DrawsAlone
  <2>3. Draws(s, ruled, {}, {})
    <3>1. \A r, c, n : Draws(s, Add(s, Item("rule", r, c, n, <<>>)), {}, {})
      BY <2>2, MarkDraws, Zenon
    <3> QED
      BY <2>2, <3>1, Zenon
  <2>4. t = [front EXCEPT !.infoIndent = 0]
    OBVIOUS
  <2> HIDE DEF ruled, row2, row1, maxbottom, bottom, box, parent, right, t
  <2>5. Draws(s, front, {}, {})
    <3>1. Draws(ruled, front, {}, {})
      BY <2>3, SettingDraws, Zenon DEF Draws
    <3> HIDE DEF front
    <3> QED
      BY <2>3, <3>1, DrawsAlone, Zenon
  <2> HIDE DEF front
  <2>6. Draws(s, t, {}, {})
    BY <2>4, <2>5, DrawsAndSets, Zenon
  <2>7. Draws(s, u, {}, {}) /\ Draws(s, SetRow(t, bottom), {}, {})
    <3>1. Draws(t, u, {}, {}) /\ Draws(t, SetRow(t, bottom), {}, {})
      BY <2>6, FlowDraws DEF Draws
    <3> HIDE DEF u
    <3> QED
      BY <2>6, <3>1, DrawsAlone, Zenon
  <2> HIDE DEF u
  <2>8. Draws(s, v, {}, {})
    BY <2>7, DrawsAndSets, Zenon
  <2> QED
    BY <2>1, <2>7, <2>8, Zenon
<1> QED
  BY <1>1, <1>2

\* An element opens, and captures a text.
LEMMA OpenedKept ==
  ASSUME NEW W, NEW s, Kept(s, W), Idle(s), NEW e, e.tag \in Content \cup {"divider"},
         e.tag \in {"choice", "chdiv"} => s.sf # NoTag
  PROVE  Kept([s EXCEPT !.tag = e, !.chars = <<>>], W)
<1> DEFINE t == [s EXCEPT !.tag = e, !.chars = <<>>]
<1>1. /\ s.chars = <<>> /\ ~s.phrased /\ ~s.described /\ s.entry = NoTag /\ ~s.titling
      /\ DOMAIN s = Fields
  BY DEF Kept, Control, Idle, Shape
<1>2. /\ DOMAIN t = DOMAIN s /\ t.items = s.items /\ t.sf = s.sf /\ t.dropped = s.dropped
      /\ t.lost = s.lost /\ t.chars = s.chars /\ t.entry = s.entry /\ t.entryText = s.entryText
      /\ t.description = s.description /\ t.title = s.title /\ t.titling = s.titling
      /\ t.phrased = s.phrased /\ t.described = s.described /\ t.describing = s.describing
      /\ t.tag = e
  BY <1>1 DEF Fields
<1> HIDE DEF t
<1>3. e # NoTag
  BY DEF NoTag, Content, TextTags, Infos, Instructions, FieldTags
<1>4. Control(t)
  BY <1>1, <1>2, <1>3 DEF Kept, Control
<1>5. Shape(t) /\ Texts(t) /\ TitleFirst(t) /\ Once(t.items)
  BY <1>2 DEF Kept, Shape, Texts, TitleFirst, Gone
<1>6. Gone(t) = Gone(s) /\ TitleWords(t) = TitleWords(s) /\ Asked(t) = Asked(s)
  BY <1>2 DEF Gone, TitleWords, Asked
<1>7. Kept(t, W)
  BY <1>2, <1>4, <1>5, <1>6 DEF Kept
<1> QED
  BY <1>7 DEF t

\* A selection field opens, and waits for a prompt.
LEMMA SelfldKept ==
  ASSUME NEW W, NEW s, Kept(s, W), s.sf = NoTag, ~s.titling, NEW e, NEW origin
  PROVE  Kept(SelfldAt(s, e, origin), W)
<1> DEFINE sf ==
             [tag |-> "selfld", row |-> Box(s).row, origin |-> origin, numcol |-> origin,
              textcol |-> origin + 3, start |-> Len(s.items), multi |-> e.type = "multi",
              single |-> e.type = "single", auto |-> FALSE, count |-> 0, fchoice |-> e.fchoice,
              pmtbefore |-> e.pmtbefore, pmtwidth |-> e.pmtwidth, prompt |-> <<>>, prompted |-> FALSE,
              beside |-> 0, row0 |-> None, depth |-> e.depth, extend |-> e.extend]
           box == [Box(s) EXCEPT !.had = TRUE]
           u == SetBox(s, box)
           t == [u EXCEPT !.sf = sf]
<1>1. SelfldAt(s, e, origin) = t
  BY Zenon DEF SelfldAt
<1>2. Chooser(sf) /\ sf # NoTag /\ sf.prompt = <<>>
  BY DEF Chooser, NoTag
<1> HIDE DEF sf, box
<1>3. Draws(s, u, {}, {})
  BY FlowDraws DEF Kept
<1> HIDE DEF u
<1>4. Kept(u, W) /\ u.sf = NoTag
  <2>1. Kept(u, W)
    BY <1>3, KeptDraws, Zenon
  <2> QED
    BY <1>3, <2>1 DEF Draws, SamePrompt
<1>5. /\ DOMAIN t = DOMAIN u /\ t.sf = sf /\ \A x \in DOMAIN u \ {"sf"} : t[x] = u[x]
  BY <1>4 DEF Kept, Shape, Fields
<1>6. /\ t.items = u.items /\ t.dropped = u.dropped
      /\ t.lost = u.lost /\ t.chars = u.chars /\ t.entry = u.entry /\ t.entryText = u.entryText
      /\ t.description = u.description /\ t.title = u.title /\ t.titling = u.titling
      /\ t.phrased = u.phrased /\ t.described = u.described /\ t.describing = u.describing
      /\ t.tag = u.tag
  BY <1>4 DEF Kept, Shape, Fields
<1> HIDE DEF t
<1>7. Asked(u) = {} /\ Asked(t) = {} /\ Written(<<>>)
  BY <1>2, <1>4, <1>5 DEF Asked, Ids, Written
<1>8. Gone(t) = Gone(u) /\ TitleWords(t) = TitleWords(u)
  BY <1>6 DEF Gone, TitleWords
<1>9. Shape(t) /\ Control(t) /\ Texts(t) /\ TitleFirst(t) /\ Once(t.items)
  BY <1>2, <1>4, <1>5, <1>6, <1>7, <1>8 DEF Kept, Shape, Control, Texts, TitleFirst
<1>10. Kept(t, W)
  BY <1>4, <1>6, <1>7, <1>8, <1>9 DEF Kept
<1> QED
  BY <1>1, <1>10

\* What may start: a choice in a selection field, and none inside another.
Fits(s, e) ==
  /\ e.tag \in Elements
  /\ e.tag \in {"choice", "chdiv"} => s.sf # NoTag
  /\ e.tag = "selfld" => s.sf = NoTag

\* A block tag, once no element is open.
LEMMA BlockKept ==
  ASSUME NEW W, NEW s, Kept(s, W), Idle(s), NEW e, Fits(s, e)
  PROVE  Kept(StartBlock(s, e), W)
<1> DEFINE t == StartBlock(s, e)
           r == SkipBlankBefore(s, e)
           k == [s EXCEPT !.tag = e, !.chars = <<>>,
                          !.infoIndent = IF e.tag = "info" THEN e.indent ELSE @]
<1>1. Shape(s) /\ ~s.titling /\ s.tag = NoTag
  BY DEF Kept, Idle
<1>2. \A u : Draws(s, u, {}, {}) => Kept(u, W) /\ Idle(u) /\ (u.sf = NoTag <=> s.sf = NoTag)
  <2> TAKE u
  <2> HAVE Draws(s, u, {}, {})
  <2>1. Kept(u, W)
    BY <1>1, KeptDraws, Zenon
  <2> QED
    BY <1>1, <2>1 DEF Draws, Alike, SamePrompt, Idle
<1>3. /\ e.tag \in Containers => e.tag \notin Lists \cup Content \cup {"divider", "selfld"}
      /\ e.tag \in Lists => e.tag \notin Containers \cup Content \cup {"divider", "selfld"}
      /\ e.tag \in {"divider", "selfld"} => e.tag \notin Containers \cup Lists \cup Content
      /\ e.tag \in Content => e.tag \notin Containers \cup Lists \cup {"divider", "selfld"}
  BY DEF Content, TextTags, Infos, Instructions, FieldTags, Containers, Lists
<1>4. t = CASE e.tag \in Containers -> OpenBox(s, e)
            [] e.tag \in Lists -> OpenList(r, e)
            [] e.tag = "divider" -> OpenDivider(s, e)
            [] e.tag = "selfld" -> SelfldAt(r, e, Box(s).col)
            [] e.tag \in Content -> k
            [] OTHER -> s
  BY Zenon DEF StartBlock, OpenSelfld
<1> HIDE DEF t, r, k
<1>5. /\ e.tag \in Containers => t = OpenBox(s, e)
      /\ e.tag \in Lists => t = OpenList(r, e)
      /\ e.tag = "divider" => t = OpenDivider(s, e)
      /\ e.tag = "selfld" => t = SelfldAt(r, e, Box(s).col)
      /\ e.tag \in Content => t = k
      /\ e.tag \notin Containers \cup Lists \cup Content \cup {"divider", "selfld"} => t = s
  BY <1>3, <1>4
<1> SUFFICES Kept(t, W)
  BY DEF t
<1>6. CASE e.tag \in Containers
  <2>1. t = OpenBox(s, e)
    BY <1>6, <1>5
  <2> QED
    BY <1>1, <1>2, <2>1, BoxesDraw
<1>7. Draws(s, r, {}, {})
  BY <1>1, FlowDraws DEF r
<1>8. CASE e.tag \in Lists
  <2>1. \E x : OpenList(r, e) = [r EXCEPT !.lists = x]
    BY DEF OpenList
  <2>2. t = OpenList(r, e)
    BY <1>8, <1>5
  <2>3. PICK x : t = [r EXCEPT !.lists = x]
    BY <2>1, <2>2
  <2>4. Draws(r, [r EXCEPT !.lists = x], {}, {})
    BY <1>7, SettingDraws, Zenon DEF Draws
  <2>5. Draws(s, t, {}, {})
    BY <1>1, <1>7, <2>3, <2>4, DrawsAlone, Zenon
  <2> QED
    BY <1>2, <2>5
<1>9. CASE e.tag = "divider"
  <2>1. t = OpenDivider(s, e)
    BY <1>9, <1>5
  <2> DEFINE box == [Box(s) EXCEPT !.col = @ + HGap]
             row == Box(s).row + 1
             x == [tag |-> "divider", type |-> e.type, row |-> Box(s).row, col |-> Box(s).col,
                   span |-> IF Box(s).width > 0 THEN Box(s).width ELSE Most(1, Width - Box(s).col - 1)]
             u == SetRow(s, row)
  <2>2. OpenDivider(s, e) = CASE Box(s).dir = "horiz" -> SetBox(s, box)
                              [] Box(s).dir # "horiz" /\ e.type = "blank" -> u
                              [] OTHER -> [u EXCEPT !.tag = x, !.chars = <<>>]
    BY Zenon DEF OpenDivider
  <2>3. x.tag = "divider"
    OBVIOUS
  <2> HIDE DEF box, x, row
  <2>4. Draws(s, SetBox(s, box), {}, {}) /\ Draws(s, u, {}, {})
    BY <1>1, FlowDraws
  <2> HIDE DEF u
  <2>5. Kept(SetBox(s, box), W) /\ Kept(u, W) /\ Idle(u)
    BY <1>2, <2>4, Zenon
  <2>6. Kept([u EXCEPT !.tag = x, !.chars = <<>>], W)
    <3>1. x.tag \in Content \cup {"divider"} /\ x.tag \notin {"choice", "chdiv"}
      BY <2>3
    <3> QED
      BY <2>5, <3>1, OpenedKept, Zenon
  <2> QED
    BY <2>1, <2>2, <2>5, <2>6, Zenon
<1>10. CASE e.tag = "selfld"
  <2>1. t = SelfldAt(r, e, Box(s).col)
    BY <1>10, <1>5
  <2>2. Kept(r, W) /\ Idle(r) /\ r.sf = NoTag
    BY <1>2, <1>7, <1>10 DEF Fits
  <2>3. Kept(SelfldAt(r, e, Box(s).col), W)
    BY <2>2, SelfldKept, Zenon DEF Idle
  <2> QED
    BY <2>1, <2>3
<1>11. CASE e.tag \in Content
  <2> DEFINE u == [s EXCEPT !.tag = e, !.chars = <<>>]
             x == IF e.tag = "info" THEN e.indent ELSE s.infoIndent
  <2>1. t = [s EXCEPT !.tag = e, !.chars = <<>>, !.infoIndent = x]
    BY <1>11, <1>5 DEF k
  <2> HIDE DEF x
  <2>2. t = [u EXCEPT !.infoIndent = x]
    BY <2>1
  <2>3. Kept(u, W)
    BY <1>11, OpenedKept DEF Fits
  <2> HIDE DEF u
  <2>4. Draws(u, [u EXCEPT !.infoIndent = x], {}, {})
    BY <2>3, SettingDraws, Zenon DEF Kept
  <2>5. [u EXCEPT !.infoIndent = x].items = u.items
    BY <2>3 DEF Kept, Shape, Fields
  <2>6. Kept([u EXCEPT !.infoIndent = x], W)
    BY <2>3, <2>4, <2>5, KeptDraws, Zenon
  <2> QED
    BY <2>2, <2>6
<1>12. CASE e.tag \notin Containers \cup Lists \cup Content \cup {"divider", "selfld"}
  <2>1. t = s
    BY <1>12, <1>5
  <2> QED
    BY <2>1
<1> QED
  BY <1>6, <1>8, <1>9, <1>10, <1>11, <1>12

\* What may start, inline tags included.
Admits(s, e) ==
  /\ Fits(s, e)
  /\ e.tag = "chofld" => s.entry = NoTag
  /\ e.tag = "dtafldd" => ~s.described

\* An inline tag captures what follows elsewhere.
LEMMA InlineKept ==
  ASSUME NEW W, NEW s, Kept(s, W), ~s.titling, NEW e, Admits(s, e), Inline(s, e)
  PROVE  Kept(StartInline(s, e), W)
<1> DEFINE t == StartInline(s, e)
<1>1. Shape(s) /\ DOMAIN s = Fields
  BY DEF Kept, Shape
<1>2. ASSUME NEW u, DOMAIN u = DOMAIN s, \A x \in DOMAIN s \ Layout : u[x] = s[x]
      PROVE  Kept(u, W)
  <2>1. Draws(s, u, {}, {})
    BY <1>1, <1>2, LayoutDraws
  <2> QED
    BY <2>1, KeptDraws, Zenon
<1>3. CASE e.tag \in Directives
  <2> DEFINE u == [s EXCEPT !.skip = e.tag]
  <2>1. t = u
    BY <1>3 DEF StartInline, Directives
  <2>2. DOMAIN u = DOMAIN s /\ \A x \in DOMAIN s \ Layout : u[x] = s[x]
    BY DEF Layout
  <2> HIDE DEF u
  <2> QED
    BY <1>2, <2>1, <2>2
<1>4. CASE e.tag = "ps"
  <2> DEFINE u == [s EXCEPT !.pointed = TRUE]
  <2>1. t = u
    BY <1>4 DEF StartInline, Directives
  <2>2. DOMAIN u = DOMAIN s /\ \A x \in DOMAIN s \ Layout : u[x] = s[x]
    BY DEF Layout
  <2> HIDE DEF u
  <2> QED
    BY <1>2, <2>1, <2>2
<1>5. CASE e.tag = "hp"
  <2>1. t = [s EXCEPT !.phrased = TRUE, !.phrase = TRUE, !.marks = @ \cup {Len(s.chars)}]
    BY <1>5 DEF StartInline, Directives
  <2>2. /\ DOMAIN t = DOMAIN s /\ t.items = s.items /\ t.sf = s.sf /\ t.dropped = s.dropped
        /\ t.lost = s.lost /\ t.chars = s.chars /\ t.entry = s.entry /\ t.entryText = s.entryText
        /\ t.description = s.description /\ t.title = s.title /\ t.titling = s.titling
        /\ t.phrased = TRUE /\ t.described = s.described /\ t.describing = s.describing
        /\ t.tag = s.tag
    BY <1>1, <2>1 DEF Fields
  <2>3. s.tag.tag \in TextTags \cup {"divider"} /\ s.tag # NoTag
    BY <1>5 DEF Inline, Directives, NoTag, TextTags, Infos, Instructions
  <2> HIDE DEF t
  <2>4. Shape(t) /\ Control(t) /\ Texts(t) /\ TitleFirst(t) /\ Once(t.items)
    BY <2>2, <2>3 DEF Kept, Shape, Control, Texts, TitleFirst, Gone
  <2>5. Gone(t) = Gone(s) /\ TitleWords(t) = TitleWords(s) /\ Asked(t) = Asked(s)
    BY <2>2 DEF Gone, TitleWords, Asked
  <2>6. Kept(t, W)
    BY <2>2, <2>4, <2>5 DEF Kept
  <2> QED
    BY <2>6 DEF t
<1>6. CASE e.tag = "chofld"
  <2>1. t = [s EXCEPT !.entry = e, !.entryText = s.chars, !.chars = <<>>]
    BY <1>6 DEF StartInline, Directives
  <2>2. /\ DOMAIN t = DOMAIN s /\ t.items = s.items /\ t.sf = s.sf /\ t.dropped = s.dropped
        /\ t.lost = s.lost /\ t.chars = <<>> /\ t.entry = e /\ t.entryText = s.chars
        /\ t.description = s.description /\ t.title = s.title /\ t.titling = s.titling
        /\ t.phrased = s.phrased /\ t.described = s.described /\ t.describing = s.describing
        /\ t.tag = s.tag
    BY <1>1, <2>1 DEF Fields
  <2>3. s.tag.tag = "choice" /\ s.tag # NoTag /\ e # NoTag
    BY <1>6 DEF Inline, Directives, NoTag
  <2>4. s.entryText = <<>> /\ Ids(<<>>) = {} /\ Written(<<>>)
    BY <1>6 DEF Admits, Kept, Control, Ids, Written
  <2> HIDE DEF t
  <2>5. Shape(t) /\ Control(t) /\ Texts(t) /\ TitleFirst(t) /\ Once(t.items)
    BY <2>2, <2>3, <2>4 DEF Kept, Shape, Control, Texts, TitleFirst, Gone
  <2>6. Gone(t) = Gone(s) /\ TitleWords(t) = TitleWords(s) /\ Asked(t) = Asked(s)
    BY <2>2 DEF Gone, TitleWords, Asked
  <2>7. Shares(W, Drawn(t.items), Gone(t), TitleWords(t), Asked(t),
               Ids(t.chars), Ids(t.entryText), Ids(t.description))
    BY <2>2, <2>4, <2>6 DEF Kept, Shares
  <2>8. Kept(t, W)
    BY <2>5, <2>7 DEF Kept
  <2> QED
    BY <2>8 DEF t
<1>7. CASE e.tag = "dtafldd"
  <2>1. CASE s.tag.tag \in FieldTags
    <3>1. t = [s EXCEPT !.describing = TRUE, !.described = TRUE, !.description = <<>>]
      BY <1>7, <2>1 DEF StartInline, Directives
    <3>2. s.description = <<>>
      BY <1>7 DEF Admits, Kept, Control
    <3>3. /\ DOMAIN t = DOMAIN s /\ t.items = s.items /\ t.sf = s.sf /\ t.dropped = s.dropped
          /\ t.lost = s.lost /\ t.chars = s.chars /\ t.entry = s.entry /\ t.entryText = s.entryText
          /\ t.description = s.description /\ t.title = s.title /\ t.titling = s.titling
          /\ t.phrased = s.phrased /\ t.described = TRUE /\ t.describing = TRUE
          /\ t.tag = s.tag
      BY <1>1, <3>1, <3>2 DEF Fields
    <3>4. s.tag # NoTag
      BY <2>1 DEF NoTag, FieldTags
    <3> HIDE DEF t
    <3>5. Shape(t) /\ Control(t) /\ Texts(t) /\ TitleFirst(t) /\ Once(t.items)
      BY <2>1, <3>3, <3>4 DEF Kept, Shape, Control, Texts, TitleFirst, Gone
    <3>6. Gone(t) = Gone(s) /\ TitleWords(t) = TitleWords(s) /\ Asked(t) = Asked(s)
      BY <3>3 DEF Gone, TitleWords, Asked
    <3>7. Kept(t, W)
      BY <3>3, <3>5, <3>6 DEF Kept
    <3> QED
      BY <3>7 DEF t
  <2>2. CASE s.tag.tag \notin FieldTags
    <3>1. t = s
      BY <1>7, <2>2 DEF StartInline, Directives
    <3> QED
      BY <3>1
  <2> QED
    BY <2>1, <2>2
<1> QED
  BY <1>3, <1>4, <1>5, <1>6, <1>7 DEF Inline

\* handle_starttag.
LEMMA StartKept ==
  ASSUME NEW W, NEW s, Kept(s, W), NEW e, s.skip = "none" => Admits(s, e)
  PROVE  Kept(StartTag(s, e), W)
<1>1. CASE s.skip # "none"
  BY <1>1 DEF StartTag
<1>2. CASE s.skip = "none"
  <2> DEFINE t == FinishTitle(s)
             u == EmitCurrent(t)
  <2>1. StartTag(s, e) = IF Inline(t, e) THEN StartInline(t, e) ELSE StartBlock(u, e)
    BY <1>2 DEF StartTag, Started
  <2>2. Kept(t, W) /\ ~t.titling /\ AlikeButTitle(s, t)
    BY TitleKept
  <2> HIDE DEF t
  <2>3. Admits(t, e)
    BY <1>2, <2>2 DEF Admits, Fits, AlikeButTitle
  <2>4. Kept(u, W) /\ Idle(u) /\ (u.sf = NoTag <=> t.sf = NoTag)
    BY <2>2, CurrentKept
  <2> HIDE DEF u
  <2>5. Fits(u, e)
    BY <2>3, <2>4 DEF Admits, Fits
  <2>6. CASE Inline(t, e)
    BY <2>1, <2>2, <2>3, <2>6, InlineKept
  <2>7. CASE ~Inline(t, e)
    BY <2>1, <2>4, <2>5, <2>7, BlockKept
  <2> QED
    BY <2>6, <2>7
<1> QED
  BY <1>1, <1>2

\* handle_data: new words are gone, or captured at one place.
LEMMA DataKept ==
  ASSUME NEW W, NEW s, Kept(s, W), NEW words, Written(words), Ids(words) \cap W = {},
         s.skip # "none" \/ s.titling \/ s.tag # NoTag \/ (s.sf # NoTag /\ ~s.sf.prompted)
  PROVE  Kept(Data(s, words), W \cup Ids(words))
<1> DEFINE t == Data(s, words)
           N == Ids(words)
<1>1. Shape(s) /\ DOMAIN s = Fields
  BY DEF Kept, Shape
<1>2. Shares(W, Drawn(s.items), Gone(s), TitleWords(s), Asked(s),
             Ids(s.chars), Ids(s.entryText), Ids(s.description))
  BY DEF Kept
<1>3. \A a : Written(a) /\ Ids(a) \subseteq W => Written(a \o words) /\ Ids(a \o words) = Ids(a) \cup N
  BY Joined
<1>4. CASE s.skip # "none"
  <2>1. t = [s EXCEPT !.dropped = @ \cup N]
    BY <1>4 DEF Data
  <2>2. /\ DOMAIN t = DOMAIN s /\ t.items = s.items /\ t.sf = s.sf /\ t.dropped = s.dropped \cup N
        /\ t.lost = s.lost /\ t.chars = s.chars /\ t.entry = s.entry /\ t.entryText = s.entryText
        /\ t.description = s.description /\ t.title = s.title /\ t.titling = s.titling
        /\ t.phrased = s.phrased /\ t.described = s.described /\ t.describing = s.describing
        /\ t.tag = s.tag
    BY <1>1, <2>1 DEF Fields
  <2> HIDE DEF t, N
  <2>3. Gone(t) = Gone(s) \cup N /\ TitleWords(t) = TitleWords(s) /\ Asked(t) = Asked(s)
    BY <2>2 DEF Gone, TitleWords, Asked
  <2>4. Shape(t) /\ Control(t) /\ Texts(t) /\ TitleFirst(t) /\ Once(t.items)
    BY <2>2, <2>3 DEF Kept, Shape, Control, Texts, TitleFirst
  <2>5. Shares(W \cup N, Drawn(t.items), Gone(t), TitleWords(t), Asked(t),
               Ids(t.chars), Ids(t.entryText), Ids(t.description))
    BY <1>2, <2>2, <2>3 DEF Shares, N
  <2>6. Kept(t, W \cup N)
    BY <2>4, <2>5 DEF Kept
  <2> QED
    BY <2>6 DEF t, N
<1>5. CASE s.skip = "none" /\ s.titling
  <2> DEFINE x == s.title \o words
  <2>1. t = [s EXCEPT !.title = x]
    BY <1>5 DEF Data
  <2>2. Written(x) /\ Ids(x) = Ids(s.title) \cup N
    <3>1. Written(s.title) /\ Ids(s.title) \subseteq W
      BY <1>2, <1>5 DEF Kept, Texts, Shares, TitleWords
    <3> QED
      BY <1>3, <3>1
  <2> HIDE DEF x
  <2>3. /\ DOMAIN t = DOMAIN s /\ t.items = s.items /\ t.sf = s.sf /\ t.dropped = s.dropped
        /\ t.lost = s.lost /\ t.chars = s.chars /\ t.entry = s.entry /\ t.entryText = s.entryText
        /\ t.description = s.description /\ t.title = x /\ t.titling = s.titling
        /\ t.phrased = s.phrased /\ t.described = s.described /\ t.describing = s.describing
        /\ t.tag = s.tag
    BY <1>1, <2>1 DEF Fields
  <2> HIDE DEF t, N
  <2>4. Gone(t) = Gone(s) /\ TitleWords(t) = TitleWords(s) \cup N /\ Asked(t) = Asked(s)
    BY <1>5, <2>2, <2>3 DEF Gone, TitleWords, Asked
  <2>5. Shape(t) /\ Control(t) /\ Texts(t) /\ TitleFirst(t) /\ Once(t.items)
    BY <1>5, <2>2, <2>3 DEF Kept, Shape, Control, Texts, TitleFirst
  <2>6. Shares(W \cup N, Drawn(t.items), Gone(t), TitleWords(t), Asked(t),
               Ids(t.chars), Ids(t.entryText), Ids(t.description))
    BY <1>2, <2>3, <2>4 DEF Shares, N
  <2>7. Kept(t, W \cup N)
    BY <2>5, <2>6 DEF Kept
  <2> QED
    BY <2>7 DEF t, N
<1>6. CASE s.skip = "none" /\ ~s.titling /\ s.describing
  <2> DEFINE x == s.description \o words
  <2>1. t = [s EXCEPT !.description = x]
    BY <1>6 DEF Data
  <2>2. Written(x) /\ Ids(x) = Ids(s.description) \cup N
    <3>1. Written(s.description) /\ Ids(s.description) \subseteq W
      BY <1>2 DEF Kept, Texts, Shares
    <3> QED
      BY <1>3, <3>1
  <2> HIDE DEF x
  <2>3. /\ DOMAIN t = DOMAIN s /\ t.items = s.items /\ t.sf = s.sf /\ t.dropped = s.dropped
        /\ t.lost = s.lost /\ t.chars = s.chars /\ t.entry = s.entry /\ t.entryText = s.entryText
        /\ t.description = x /\ t.title = s.title /\ t.titling = s.titling
        /\ t.phrased = s.phrased /\ t.described = s.described /\ t.describing = s.describing
        /\ t.tag = s.tag
    BY <1>1, <2>1 DEF Fields
  <2> HIDE DEF t, N
  <2>4. Gone(t) = Gone(s) /\ TitleWords(t) = TitleWords(s) /\ Asked(t) = Asked(s)
    BY <2>3 DEF Gone, TitleWords, Asked
  <2>5. Shape(t) /\ Control(t) /\ Texts(t) /\ TitleFirst(t) /\ Once(t.items)
    BY <1>6, <2>2, <2>3, <2>4 DEF Kept, Shape, Control, Texts, TitleFirst
  <2>6. Shares(W \cup N, Drawn(t.items), Gone(t), TitleWords(t), Asked(t),
               Ids(t.chars), Ids(t.entryText), Ids(t.description))
    BY <1>2, <2>2, <2>3, <2>4 DEF Shares, N
  <2>7. Kept(t, W \cup N)
    BY <2>5, <2>6 DEF Kept
  <2> QED
    BY <2>7 DEF t, N
<1>7. CASE s.skip = "none" /\ ~s.titling /\ ~s.describing /\ s.tag # NoTag
  <2> DEFINE x == s.chars \o words
  <2>1. t = [s EXCEPT !.chars = x]
    BY <1>7 DEF Data
  <2>2. Written(x) /\ Ids(x) = Ids(s.chars) \cup N
    <3>1. Written(s.chars) /\ Ids(s.chars) \subseteq W
      BY <1>2 DEF Kept, Texts, Shares
    <3> QED
      BY <1>3, <3>1
  <2> HIDE DEF x
  <2>3. /\ DOMAIN t = DOMAIN s /\ t.items = s.items /\ t.sf = s.sf /\ t.dropped = s.dropped
        /\ t.lost = s.lost /\ t.chars = x /\ t.entry = s.entry /\ t.entryText = s.entryText
        /\ t.description = s.description /\ t.title = s.title /\ t.titling = s.titling
        /\ t.phrased = s.phrased /\ t.described = s.described /\ t.describing = s.describing
        /\ t.tag = s.tag
    BY <1>1, <2>1 DEF Fields
  <2> HIDE DEF t, N
  <2>4. Gone(t) = Gone(s) /\ TitleWords(t) = TitleWords(s) /\ Asked(t) = Asked(s)
    BY <2>3 DEF Gone, TitleWords, Asked
  <2>5. Shape(t) /\ Control(t) /\ Texts(t) /\ TitleFirst(t) /\ Once(t.items)
    BY <1>7, <2>2, <2>3, <2>4 DEF Kept, Shape, Control, Texts, TitleFirst
  <2>6. Shares(W \cup N, Drawn(t.items), Gone(t), TitleWords(t), Asked(t),
               Ids(t.chars), Ids(t.entryText), Ids(t.description))
    BY <1>2, <2>2, <2>3, <2>4 DEF Shares, N
  <2>7. Kept(t, W \cup N)
    BY <2>5, <2>6 DEF Kept
  <2> QED
    BY <2>7 DEF t, N
<1>8. CASE s.skip = "none" /\ ~s.titling /\ ~s.describing /\ s.tag = NoTag
  <2> DEFINE x == s.sf.prompt \o words
             sf == [s.sf EXCEPT !.prompt = x]
  <2>1. s.sf # NoTag /\ ~s.sf.prompted
    BY <1>8
  <2>2. t = [s EXCEPT !.sf = sf]
    BY <1>8, <2>1 DEF Data
  <2>3. Written(x) /\ Ids(x) = Ids(s.sf.prompt) \cup N /\ Asked(s) = Ids(s.sf.prompt)
    <3>1. Written(s.sf.prompt) /\ Ids(s.sf.prompt) \subseteq W /\ Asked(s) = Ids(s.sf.prompt)
      BY <1>2, <2>1 DEF Kept, Texts, Shares, Asked
    <3> QED
      BY <1>3, <3>1
  <2> HIDE DEF x
  <2>4. Chooser(sf) /\ sf # NoTag /\ sf.prompt = x /\ sf.prompted = s.sf.prompted
    BY <1>1, <2>1 DEF Shape, Chooser, NoTag
  <2> HIDE DEF sf
  <2>5. /\ DOMAIN t = DOMAIN s /\ t.items = s.items /\ t.sf = sf /\ t.dropped = s.dropped
        /\ t.lost = s.lost /\ t.chars = s.chars /\ t.entry = s.entry /\ t.entryText = s.entryText
        /\ t.description = s.description /\ t.title = s.title /\ t.titling = s.titling
        /\ t.phrased = s.phrased /\ t.described = s.described /\ t.describing = s.describing
        /\ t.tag = s.tag
    BY <1>1, <2>2 DEF Fields
  <2> HIDE DEF t, N
  <2>6. Gone(t) = Gone(s) /\ TitleWords(t) = TitleWords(s) /\ Asked(t) = Asked(s) \cup N
    BY <2>1, <2>3, <2>4, <2>5 DEF Gone, TitleWords, Asked
  <2>7. Shape(t) /\ Control(t) /\ Texts(t) /\ TitleFirst(t) /\ Once(t.items)
    BY <1>8, <2>3, <2>4, <2>5, <2>6 DEF Kept, Shape, Control, Texts, TitleFirst
  <2>8. Shares(W \cup N, Drawn(t.items), Gone(t), TitleWords(t), Asked(t),
               Ids(t.chars), Ids(t.entryText), Ids(t.description))
    BY <1>2, <2>5, <2>6 DEF Shares, N
  <2>9. Kept(t, W \cup N)
    BY <2>7, <2>8 DEF Kept
  <2> QED
    BY <2>9 DEF t, N
<1> QED
  BY <1>4, <1>5, <1>6, <1>7, <1>8

\* _end_selfld: the prompt is drawn before the field is left.
LEMMA CloseSelfldKept ==
  ASSUME NEW W, NEW s, Kept(s, W), Idle(s), s.sf # NoTag
  PROVE  Kept(CloseSelfld(s), W)
<1> DEFINE t == EmitPrompt(s)
           deep == IF t.sf.row0 = None THEN t.sf.row
                   ELSE Most(Most(t.sf.row, t.sf.row0 + t.sf.depth), IF t.sf.extend THEN UsableRows ELSE 0)
           x == t.strained \/ t.sf.beside > deep
           u == [t EXCEPT !.sf = NoTag, !.strained = x]
           v == CloseSelfld(s)
<1>1. v = IF Box(t).dir = "horiz" THEN FlowHoriz(u, t.sf.start) ELSE SetRow(u, deep)
  BY Zenon DEF CloseSelfld, SelfldEnd
<1>2. Shape(s) /\ ~s.titling /\ Written(s.sf.prompt)
  BY DEF Kept, Idle, Texts
<1>3. /\ Shape(t) /\ Alike(s, t) /\ t.dropped = s.dropped
      /\ t.sf # NoTag /\ t.sf.prompted /\ t.sf.prompt = s.sf.prompt
      /\ Extended(s.items, t.items, Asked(s))
  BY <1>2, PromptDraws
<1> HIDE DEF v, t, x, deep
<1>4. /\ DOMAIN u = DOMAIN t /\ u.items = t.items /\ u.sf = NoTag /\ u.dropped = s.dropped
      /\ u.lost = s.lost /\ u.chars = s.chars /\ u.entry = s.entry /\ u.entryText = s.entryText
      /\ u.description = s.description /\ u.title = s.title /\ u.titling = s.titling
      /\ u.phrased = s.phrased /\ u.described = s.described /\ u.describing = s.describing
      /\ u.tag = s.tag
  BY <1>3 DEF Shape, Fields, Alike
<1> HIDE DEF u
<1>5. Gone(u) = Gone(s) /\ TitleWords(u) = TitleWords(s) /\ Asked(u) = {}
  BY <1>4 DEF Gone, TitleWords, Asked
<1>6. Once(u.items) /\ Drawn(u.items) = Drawn(s.items) \cup Asked(s)
      /\ (s.items # <<>> => u.items # <<>> /\ u.items[1] = s.items[1])
  <2>1. IsSeq(s.items) /\ Once(s.items) /\ Drawn(s.items) \cap Asked(s) = {}
    BY DEF Kept, Shape, Shares
  <2>2. Once(t.items) /\ Drawn(t.items) = Drawn(s.items) \cup Asked(s)
        /\ (s.items # <<>> => t.items # <<>> /\ t.items[1] = s.items[1])
    BY <1>3, <2>1, ExtendedOnce, Zenon
  <2> QED
    BY <1>4, <2>2
<1>7. Shape(u) /\ Texts(u)
  BY <1>3, <1>4 DEF Kept, Shape, Texts
<1>8. Control(u)
  BY <1>2, <1>4 DEF Kept, Control, Idle, NoTag
<1>9. TitleFirst(u)
  BY <1>4, <1>5, <1>6 DEF Kept, TitleFirst
<1>10. Shares(W, Drawn(u.items), Gone(u), TitleWords(u), Asked(u),
              Ids(u.chars), Ids(u.entryText), Ids(u.description))
  BY <1>4, <1>5, <1>6 DEF Kept, Shares
<1>11. Kept(u, W) /\ ~u.titling
  BY <1>2, <1>4, <1>6, <1>7, <1>8, <1>9, <1>10 DEF Kept
<1>12. Draws(u, FlowHoriz(u, t.sf.start), {}, {}) /\ Draws(u, SetRow(u, deep), {}, {})
  BY <1>7, FlowDraws
<1>13. Kept(FlowHoriz(u, t.sf.start), W) /\ Kept(SetRow(u, deep), W)
  BY <1>11, <1>12, KeptDraws, Zenon
<1>14. Kept(v, W)
  BY <1>1, <1>13, Zenon
<1> QED
  BY <1>14 DEF v

\* handle_endtag.
LEMMA EndKept ==
  ASSUME NEW W, NEW s, Kept(s, W), NEW tag, s.skip = "none" /\ tag = "selfld" => s.sf # NoTag
  PROVE  Kept(EndTag(s, tag), W)
<1>1. ASSUME NEW t, Kept(t, W), NEW u, DOMAIN u = DOMAIN t,
             \A x \in DOMAIN t \ Layout : u[x] = t[x]
      PROVE  Kept(u, W)
  <2>1. Draws(t, u, {}, {}) /\ u.items = t.items
    <3>1. u.items = t.items
      BY <1>1 DEF Kept, Shape, Fields, Layout
    <3> QED
      BY <1>1, <3>1, LayoutDraws DEF Kept
  <2> QED
    BY <1>1, <2>1, KeptDraws, Zenon
<1>2. CASE s.skip = tag
  <2> DEFINE u == [s EXCEPT !.skip = "none"]
  <2>1. EndTag(s, tag) = u
    BY <1>2 DEF EndTag
  <2>2. DOMAIN u = DOMAIN s /\ \A x \in DOMAIN s \ Layout : u[x] = s[x]
    BY DEF Layout
  <2> HIDE DEF u
  <2> QED
    BY <1>1, <2>1, <2>2
<1>3. CASE s.skip \notin {tag, "none"}
  BY <1>3 DEF EndTag
<1>4. CASE s.skip = "none" /\ tag # "none"
  <2> DEFINE t == FinishTitle(s)
             u == EmitCurrent(t)
  <2>1. EndTag(s, tag) = Ended(t, tag)
    BY <1>4 DEF EndTag
  <2>2. Kept(t, W) /\ ~t.titling /\ AlikeButTitle(s, t)
    BY TitleKept
  <2> HIDE DEF t
  <2>3. Kept(u, W) /\ Idle(u) /\ (u.sf = NoTag <=> t.sf = NoTag)
    BY <2>2, CurrentKept
  <2>4. CASE tag \in {"ps", "chofld", "dtafldd"} \/ (tag = "hp" /\ t.phrased)
    <3>1. Ended(t, tag) = EndInline(t, tag)
      BY <2>4 DEF Ended
    <3>2. CASE tag = "hp"
      <4> DEFINE r == [t EXCEPT !.phrase = FALSE, !.marks = @ \cup {Len(t.chars)}]
      <4>1. EndInline(t, tag) = r
        BY <3>2 DEF EndInline
      <4>2. DOMAIN r = DOMAIN t /\ \A x \in DOMAIN t \ Layout : r[x] = t[x]
        BY DEF Layout
      <4> HIDE DEF r
      <4> QED
        BY <1>1, <2>1, <2>2, <3>1, <4>1, <4>2
    <3>3. CASE tag \in {"ps", "chofld"}
      <4>1. EndInline(t, tag) = t
        BY <3>3 DEF EndInline
      <4> QED
        BY <2>1, <2>2, <3>1, <4>1
    <3>4. CASE tag = "dtafldd"
      <4> DEFINE r == [t EXCEPT !.describing = FALSE]
      <4>1. EndInline(t, tag) = r
        BY <3>4 DEF EndInline
      <4>2. /\ DOMAIN r = DOMAIN t /\ r.items = t.items /\ r.sf = t.sf /\ r.dropped = t.dropped
            /\ r.lost = t.lost /\ r.chars = t.chars /\ r.entry = t.entry /\ r.entryText = t.entryText
            /\ r.description = t.description /\ r.title = t.title /\ r.titling = t.titling
            /\ r.phrased = t.phrased /\ r.described = t.described /\ r.describing = FALSE
            /\ r.tag = t.tag
        BY <2>2 DEF Kept, Shape, Fields
      <4> HIDE DEF r
      <4>3. Shape(r) /\ Control(r) /\ Texts(r) /\ TitleFirst(r) /\ Once(r.items)
        BY <2>2, <4>2 DEF Kept, Shape, Control, Texts, TitleFirst, Gone
      <4>4. Gone(r) = Gone(t) /\ TitleWords(r) = TitleWords(t) /\ Asked(r) = Asked(t)
        BY <4>2 DEF Gone, TitleWords, Asked
      <4>5. Kept(r, W)
        BY <2>2, <4>2, <4>3, <4>4 DEF Kept
      <4> QED
        BY <2>1, <3>1, <4>1, <4>5
    <3> QED
      BY <2>4, <3>2, <3>3, <3>4
  <2>5. CASE ~(tag \in {"ps", "chofld", "dtafldd"} \/ (tag = "hp" /\ t.phrased))
    <3>1. Ended(t, tag) = EndBlock(u, tag)
      BY <2>5 DEF Ended
    <3> DEFINE lists == [u EXCEPT !.lists = IF @ = <<>> THEN @ ELSE Front(@)]
               hang == [u EXCEPT !.hang = None]
               indent == [u EXCEPT !.infoIndent = 0]
               v == EndBlock(u, tag)
    <3>2. u.sf # NoTag \/ tag # "selfld"
      BY <1>4, <2>2, <2>3 DEF AlikeButTitle
    <3>3. v = CASE tag \in Containers -> CloseBox(u)
                [] tag \in Lists -> lists
                [] tag = "selfld" -> CloseSelfld(u)
                [] tag = "nt" -> hang
                [] tag = "info" -> indent
                [] OTHER -> u
      BY Zenon DEF EndBlock
    <3> HIDE DEF u, v
    <3>4. Kept(lists, W)
      <4>1. DOMAIN lists = DOMAIN u /\ \A x \in DOMAIN u \ Layout : lists[x] = u[x]
        BY DEF Layout
      <4> HIDE DEF lists
      <4> QED
        BY <1>1, <2>3, <4>1
    <3>5. Kept(hang, W)
      <4>1. DOMAIN hang = DOMAIN u /\ \A x \in DOMAIN u \ Layout : hang[x] = u[x]
        BY DEF Layout
      <4> HIDE DEF hang
      <4> QED
        BY <1>1, <2>3, <4>1
    <3>6. Kept(indent, W)
      <4>1. DOMAIN indent = DOMAIN u /\ \A x \in DOMAIN u \ Layout : indent[x] = u[x]
        BY DEF Layout
      <4> HIDE DEF indent
      <4> QED
        BY <1>1, <2>3, <4>1
    <3>7. Kept(CloseBox(u), W)
      <4>1. Draws(u, CloseBox(u), {}, {})
        BY <2>3, BoxesDraw DEF Kept
      <4> QED
        BY <2>3, <4>1, KeptDraws, Zenon DEF Idle
    <3>8. tag = "selfld" => Kept(CloseSelfld(u), W)
      BY <2>3, <3>2, CloseSelfldKept
    <3> HIDE DEF lists, hang, indent
    <3>9. Kept(v, W)
      BY <2>3, <3>3, <3>4, <3>5, <3>6, <3>7, <3>8, Zenon
    <3> QED
      BY <2>1, <3>1, <3>9 DEF v
  <2> QED
    BY <2>4, <2>5
<1> QED
  BY <1>2, <1>3, <1>4

\* _retract_title_if_collision: the title goes, and nothing else.
LEMMA RetractKept ==
  ASSUME NEW W, NEW s, Kept(s, W), Idle(s)
  PROVE  Kept(RetractTitle(s), W) /\ Idle(RetractTitle(s))
<1> DEFINE V == Ids(s.title)
           titled == {i \in DOMAIN s.items : V # {} /\ s.items[i].words = V}
           collides == \E i \in titled : \E j \in DOMAIN s.items \ titled : s.items[j].row = s.items[i].row
           rest == [i \in 1 .. Len(s.items) - 1 |-> s.items[i + 1]]
           t == [s EXCEPT !.items = rest, !.dropped = @ \cup V]
<1>1. RetractTitle(s) = IF collides THEN t ELSE s
  BY DEF RetractTitle
<1>2. CASE ~collides
  BY <1>1, <1>2
<1>3. CASE collides
  <2>1. PICK i \in DOMAIN s.items : V # {} /\ s.items[i].words = V
    BY <1>3
  <2> DEFINE N == Len(s.items)
  <2>2. PICK X : s.items \in Seq(X)
    BY DEF Kept, Shape, IsSeq
  <2>3. N \in Nat /\ DOMAIN s.items = 1 .. N /\ N >= 1 /\ s.items # <<>>
    BY <2>1, <2>2
  <2>4. V \subseteq Drawn(s.items) /\ s.title # <<>>
    BY <2>1 DEF Drawn, Ids
  <2>5. s.items[1].words = V
    <3>1. Drawn(s.items) \cap Gone(s) = {}
      BY DEF Kept, Shares
    <3>2. ~ (V \subseteq Gone(s))
      BY <2>1, <2>4, <3>1
    <3> QED
      BY <2>4, <3>2 DEF Kept, TitleFirst, Idle
  <2>6. /\ rest \in Seq(X) /\ DOMAIN rest = 1 .. N - 1
        /\ \A k \in 1 .. N - 1 : rest[k] = s.items[k + 1] /\ k + 1 \in 1 .. N /\ k + 1 # 1
    <3>1. N - 1 \in Nat /\ \A k \in 1 .. N - 1 : k + 1 \in 1 .. N /\ k + 1 # 1
      BY <2>3
    <3>2. \A k \in 1 .. N : s.items[k] \in X
      BY <2>2
    <3>3. rest \in [1 .. N - 1 -> X]
      BY <3>1, <3>2
    <3>4. rest \in Seq(X)
      <4> DEFINE M == N - 1
      <4>1. M \in Nat /\ rest \in [1 .. M -> X]
        BY <3>1, <3>3
      <4> HIDE DEF rest, M
      <4> QED
        BY <4>1
    <3> QED
      BY <3>1, <3>4
  <2>7. \A k \in 1 .. N : k # 1 => k - 1 \in 1 .. N - 1 /\ (k - 1) + 1 = k
    BY <2>3
  <2> HIDE DEF rest, collides, titled
  <2>8. Once(rest)
    <3>1. \A k, m \in 1 .. N - 1 : k + 1 = m + 1 => k = m
      BY <2>3
    <3>2. Once(s.items)
      BY DEF Kept
    <3> QED
      BY <2>3, <2>6, <3>1, <3>2 DEF Once
  <2>9. Drawn(rest) = Drawn(s.items) \ V
    <3>1. \A w : w \in Drawn(rest) <=> \E k \in 1 .. N - 1 : w \in s.items[k + 1].words
      BY <2>6 DEF Drawn
    <3>2. \A w : w \in Drawn(s.items) <=> \E k \in 1 .. N : w \in s.items[k].words
      BY <2>3 DEF Drawn
    <3>3. \A k \in 1 .. N : k # 1 => s.items[k].words \cap V = {}
      <4>1. \A j, k \in DOMAIN s.items : s.items[j].words \cap s.items[k].words # {} => j = k
        BY DEF Kept, Once
      <4>2. 1 \in DOMAIN s.items
        BY <2>3
      <4> QED
        BY <2>3, <2>5, <4>1, <4>2
    <3>4. ASSUME NEW w, w \in Drawn(rest)
          PROVE  w \in Drawn(s.items) /\ w \notin V
      <4>1. PICK k \in 1 .. N - 1 : w \in s.items[k + 1].words
        BY <3>1, <3>4
      <4>2. k + 1 \in 1 .. N /\ k + 1 # 1
        BY <2>6
      <4>3. s.items[k + 1].words \cap V = {}
        BY <3>3, <4>2
      <4>4. w \in Drawn(s.items)
        BY <3>2, <4>1, <4>2
      <4> QED
        BY <4>1, <4>3, <4>4
    <3>5. ASSUME NEW w, w \in Drawn(s.items), w \notin V
          PROVE  w \in Drawn(rest)
      <4>1. PICK k \in 1 .. N : w \in s.items[k].words
        BY <3>2, <3>5
      <4>2. k # 1
        BY <2>5, <3>5, <4>1
      <4>3. k - 1 \in 1 .. N - 1 /\ (k - 1) + 1 = k
        BY <2>7, <4>2
      <4> QED
        BY <3>1, <4>1, <4>3
    <3> QED
      BY <3>4, <3>5
  <2>10. /\ DOMAIN t = DOMAIN s /\ t.items = rest /\ t.sf = s.sf /\ t.dropped = s.dropped \cup V
         /\ t.lost = s.lost /\ t.chars = s.chars /\ t.entry = s.entry /\ t.entryText = s.entryText
         /\ t.description = s.description /\ t.title = s.title /\ t.titling = s.titling
         /\ t.phrased = s.phrased /\ t.described = s.described /\ t.describing = s.describing
         /\ t.tag = s.tag
    BY DEF Kept, Shape, Fields
  <2> HIDE DEF t
  <2>11. Gone(t) = Gone(s) \cup V /\ TitleWords(t) = TitleWords(s) /\ Asked(t) = Asked(s)
    BY <2>10 DEF Gone, TitleWords, Asked
  <2>12. IsSeq(t.items)
    BY <2>6, <2>10 DEF IsSeq
  <2>13. Shape(t) /\ Control(t) /\ Texts(t) /\ Idle(t)
    BY <2>10, <2>12 DEF Kept, Shape, Control, Texts, Idle
  <2>14. TitleFirst(t)
    BY <2>10, <2>11 DEF TitleFirst
  <2>15. Shares(W, Drawn(t.items), Gone(t), TitleWords(t), Asked(t),
                Ids(t.chars), Ids(t.entryText), Ids(t.description))
    <3> HIDE DEF V
    <3> QED
      BY <2>4, <2>9, <2>10, <2>11 DEF Kept, Shares
  <2>16. Kept(t, W)
    BY <2>8, <2>10, <2>13, <2>14, <2>15 DEF Kept
  <2> QED
    BY <1>1, <1>3, <2>13, <2>16
<1> QED
  BY <1>2, <1>3

\* close: afterwards nothing is captured but for a prompt that waits.
LEMMA CloseKept ==
  ASSUME NEW W, NEW s, Kept(s, W)
  PROVE  Kept(Close(s), W) /\ Idle(Close(s))
<1> DEFINE t == [s EXCEPT !.skip = "none"]
           u == FinishTitle(t)
           v == EmitCurrent(u)
<1>1. Close(s) = RetractTitle(v)
  BY DEF Close
<1>2. Draws(s, t, {}, {}) /\ t.items = s.items
  BY SettingDraws DEF Kept, Shape, Fields
<1> HIDE DEF t
<1>3. Kept(t, W)
  BY <1>2, KeptDraws, Zenon
<1>4. Kept(u, W) /\ ~u.titling
  BY <1>3, TitleKept
<1> HIDE DEF u
<1>5. Kept(v, W) /\ Idle(v)
  BY <1>4, CurrentKept
<1> HIDE DEF v
<1> QED
  BY <1>1, <1>5, RetractKept

-----------------------------------------------------------------------------
(* The invariant.                                                          *)

\* The words fed so far came with tags fed so far.
Known(w) == w \in Nat \X Nat /\ (w[1] < tags \/ (w[1] = tags /\ spoke))

\* Each word fed is at one place, and after the end of the input no element is open.
Conserved ==
  /\ document \in Documents /\ tags \in Nat
  /\ \A w \in said : Known(w)
  /\ Kept(p, said)
  /\ ended => Idle(p)

\* Before the first tag nothing was fed.
LEMMA InitConserved == Init => Conserved
<1> SUFFICES ASSUME Init
             PROVE  Conserved
  OBVIOUS
<1>1. Ids(<<>>) = {} /\ Written(<<>>) /\ IsSeq(<<>>) /\ Drawn(<<>>) = {} /\ Once(<<>>)
  BY DEF Ids, Written, IsSeq, Drawn, Once
<1>2. /\ p.items = <<>> /\ p.sf = NoTag /\ p.dropped = {} /\ p.lost = {} /\ p.chars = <<>>
      /\ p.entry = NoTag /\ p.entryText = <<>> /\ p.description = <<>> /\ p.title = <<>>
      /\ p.titling = TRUE /\ p.phrased = FALSE /\ p.described = FALSE /\ p.describing = FALSE
      /\ p.tag = NoTag /\ DOMAIN p = Fields
  BY DEF Init, Fresh, Fields
<1>3. Gone(p) = {} /\ TitleWords(p) = {} /\ Asked(p) = {}
  BY <1>1, <1>2 DEF Gone, TitleWords, Asked
<1>4. Shape(p) /\ Texts(p) /\ TitleFirst(p)
  BY <1>1, <1>2 DEF Shape, Texts, TitleFirst
<1>5. Control(p)
  BY <1>2 DEF Control, NoTag
<1>6. said = {}
  BY DEF Init
<1>7. Kept(p, said)
  BY <1>1, <1>2, <1>3, <1>4, <1>5, <1>6 DEF Kept, Shares
<1> QED
  BY <1>6, <1>7 DEF Conserved, Init

\* A start tag that may come is one the parser admits.
LEMMA MayStartAdmits ==
  ASSUME NEW e, e.tag \in Elements, MayStart(e), p.skip = "none"
  PROVE  Admits(p, e)
<1>1. e.tag \in {"choice", "chdiv"} => p.sf # NoTag
  BY DEF MayStart, Lists, Directives
<1>2. e.tag = "selfld" => p.sf = NoTag
  BY DEF MayStart, Lists, Directives
<1>3. e.tag = "chofld" => p.entry = NoTag
  BY DEF MayStart, Lists, Directives
<1>4. e.tag = "dtafldd" => ~p.described
  BY DEF MayStart, Lists, Directives
<1> QED
  BY <1>1, <1>2, <1>3, <1>4 DEF Admits, Fits

\* Every tag and text leaves each word at one place.
LEMMA StepConserved == Conserved /\ [Next]_vars => Conserved'
<1> SUFFICES ASSUME Conserved, [Next]_vars
             PROVE  Conserved'
  OBVIOUS
<1>1. ASSUME NEW e \in document.tags, Start(e)
      PROVE  Conserved'
  <2>1. e.tag \in Elements
    BY DocumentAssumption DEF Conserved
  <2>2. Kept(StartTag(p, e), said)
    <3>1. p.skip = "none" => Admits(p, e)
      BY <1>1, <2>1, MayStartAdmits DEF Start
    <3> QED
      BY <3>1, StartKept DEF Conserved
  <2>3. Kept(p, said)'
    BY <1>1, <2>2 DEF Start
  <2>4. \A w \in said : Known(w) => Known(w)'
    BY <1>1 DEF Start, Known, Conserved
  <2> QED
    BY <1>1, <2>3, <2>4 DEF Start, Conserved
<1>2. ASSUME NEW sizes \in document.texts, Text(sizes)
      PROVE  Conserved'
  <2> DEFINE words == [i \in DOMAIN sizes |-> [id |-> <<tags, i>>, size |-> sizes[i]]]
  <2>1. sizes \in Seq(Nat) /\ tags \in Nat
    BY DocumentAssumption DEF Conserved
  <2>2. Written(words)
    <3>1. \A i \in 1 .. Len(sizes) : [id |-> <<tags, i>>, size |-> sizes[i]] \in Word
      <4> TAKE i \in 1 .. Len(sizes)
      <4>1. i \in Nat /\ sizes[i] \in Nat
        BY <2>1
      <4> QED
        BY <2>1, <4>1 DEF Word
    <3>2. words \in [1 .. Len(sizes) -> Word] /\ Len(sizes) \in Nat
      BY <2>1, <3>1
    <3>3. words \in Seq(Word)
      <4> HIDE DEF words
      <4> QED
        BY <3>2
    <3>4. \A i, j \in DOMAIN words : words[i].id = words[j].id => i = j
      BY <2>1
    <3> HIDE DEF words
    <3> QED
      BY <3>3, <3>4 DEF Written
  <2>3. \A w \in Ids(words) : w \in Nat \X Nat /\ w[1] = tags
    <3>1. \A i \in DOMAIN words : words[i].id = <<tags, i>> /\ i \in Nat
      BY <2>1
    <3> HIDE DEF words
    <3>2. \A w \in Ids(words) : \E i \in Nat : w = <<tags, i>>
      BY <3>1 DEF Ids
    <3>3. \A i \in Nat : <<tags, i>> \in Nat \X Nat /\ <<tags, i>>[1] = tags
      BY <2>1
    <3> QED
      BY <3>2, <3>3
  <2>4. Ids(words) \cap said = {}
    <3>1. \A w \in said : w[1] \in Nat /\ w[1] < tags
      BY <1>2 DEF Text, MayText, Known, Conserved
    <3> HIDE DEF words
    <3> QED
      BY <2>1, <2>3, <3>1
  <2>5. p' = Data(p, words) /\ said' = said \cup Ids(words) /\ MayText /\ spoke' = TRUE
        /\ UNCHANGED <<document, tags, ended>> /\ ~ended
    BY <1>2 DEF Text
  <2> HIDE DEF words
  <2>6. Kept(p, said)'
    <3>1. p.skip # "none" \/ p.titling \/ p.tag # NoTag \/ (p.sf # NoTag /\ ~p.sf.prompted)
      BY <2>5 DEF MayText
    <3>2. Kept(Data(p, words), said \cup Ids(words))
      BY <2>2, <2>4, <3>1, DataKept DEF Conserved
    <3> QED
      BY <2>5, <3>2
  <2>7. \A w \in said' : Known(w)'
    <3>1. \A w \in said : Known(w)'
      BY <2>5 DEF Known, Conserved
    <3>2. \A w \in Ids(words) : Known(w)'
      BY <2>3, <2>5 DEF Known
    <3> QED
      BY <2>5, <3>1, <3>2
  <2> QED
    BY <2>5, <2>6, <2>7 DEF Conserved
<1>3. ASSUME NEW e \in document.tags, End(e.tag)
      PROVE  Conserved'
  <2>1. e.tag \in Elements
    BY DocumentAssumption DEF Conserved
  <2>2. Kept(EndTag(p, e.tag), said)
    <3>1. p.skip = "none" /\ e.tag = "selfld" => p.sf # NoTag
      BY <1>3 DEF End, MayEnd, Containers, Lists
    <3> QED
      BY <3>1, EndKept DEF Conserved
  <2>3. Kept(p, said)'
    BY <1>3, <2>2 DEF End
  <2>4. \A w \in said : Known(w) => Known(w)'
    BY <1>3 DEF End, Known, Conserved
  <2> QED
    BY <1>3, <2>3, <2>4 DEF End, Conserved
<1>4. ASSUME EndOfInput
      PROVE  Conserved'
  <2>1. Kept(Close(p), said) /\ Idle(Close(p))
    BY CloseKept DEF Conserved
  <2>2. Kept(p, said)' /\ Idle(p)'
    BY <1>4, <2>1 DEF EndOfInput
  <2>3. \A w \in said : Known(w) => Known(w)'
    BY <1>4 DEF EndOfInput, Known
  <2> QED
    BY <1>4, <2>2, <2>3 DEF EndOfInput, Conserved
<1>5. ASSUME UNCHANGED vars
      PROVE  Conserved'
  BY <1>5 DEF vars, Conserved, Known
<1> QED
  BY <1>1, <1>2, <1>3, <1>4, <1>5 DEF Next

\* What is conserved until the end of the input is shown once.
LEMMA ConservedShown == Conserved => TextShownOnce
<1> SUFFICES ASSUME Conserved, ended, NEW w \in said
             PROVE  LET shown == {i \in DOMAIN p.items : w \in p.items[i].words}
                    IN IF w \in p.dropped \cup p.lost \cup Waiting THEN shown = {}
                       ELSE Cardinality(shown) = 1
  BY DEF TextShownOnce
<1> DEFINE shown == {i \in DOMAIN p.items : w \in p.items[i].words}
<1>1. Kept(p, said) /\ Idle(p)
  BY DEF Conserved
<1>2. Ids(<<>>) = {} /\ p.chars = <<>> /\ p.entryText = <<>> /\ p.description = <<>> /\ ~p.titling
  BY <1>1 DEF Kept, Control, Idle, Ids
<1>3. Waiting = Asked(p)
  BY DEF Waiting, Asked
<1>4. /\ said = Drawn(p.items) \cup Gone(p) \cup Asked(p)
      /\ Drawn(p.items) \cap (Gone(p) \cup Asked(p)) = {}
  BY <1>1, <1>2 DEF Kept, Shares, TitleWords
<1>5. p.dropped \cup p.lost \cup Waiting = Gone(p) \cup Asked(p)
  BY <1>3 DEF Gone
<1>6. w \in Drawn(p.items) <=> shown # {}
  BY DEF Drawn
<1>7. CASE w \in Gone(p) \cup Asked(p)
  <2>1. shown = {}
    BY <1>4, <1>6, <1>7
  <2> QED
    BY <1>5, <1>7, <2>1
<1>8. CASE w \notin Gone(p) \cup Asked(p)
  <2>1. PICK i \in DOMAIN p.items : w \in p.items[i].words
    BY <1>4, <1>6, <1>8
  <2>2. \A j \in shown : j = i
    BY <1>1, <2>1 DEF Kept, Once
  <2>3. shown = {i}
    BY <2>1, <2>2
  <2> HIDE DEF shown
  <2>4. Cardinality(shown) = 1
    BY <2>3, FS_Singleton
  <2> QED
    BY <1>5, <1>8, <2>4 DEF shown
<1> QED
  BY <1>7, <1>8

\* dtl.py: whatever the documents, the variables and the panel's size, every word
\* written inside an element is on the finished panel exactly once, or it is one
\* that its emitter throws away and then it is nowhere.  These are words the author
\* hid, but also those that a description, a divider or a choice divider has no
\* room for, what a dashed divider says, what a description replaces in a command
\* area, a title another element's row retracts, what stands around a phrase in a
\* note, and a prompt no choice was written for (see TextShownOnce).
THEOREM TextAlwaysShownOnce == Spec => []TextShownOnce
<1>1. Spec => []Conserved
  BY InitConserved, StepConserved, PTL DEF Spec
<1> QED
  BY <1>1, ConservedShown, PTL

=============================================================================
