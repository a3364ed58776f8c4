----------------------------- MODULE ConsoleProofs -----------------------------
(*****************************************************************************)
(* The indices of the console's buffer keep their order, for every size of   *)
(* the buffer and of uint, as long as no key comes while the reader of a     *)
(* full buffer is busy.                                                      *)
(*****************************************************************************)
EXTENDS Console, SequenceTheorems, TLAPS

NoRace == ~Race

Uints == 0..(UintSize - 1)

\* The uint after a, the one before it, and how far a is ahead of b, around the wrap.
Succ(a) == IF a + 1 = UintSize THEN 0 ELSE a + 1
Pred(a) == IF a = 0 THEN UintSize - 1 ELSE a - 1
Ahead(a, b) == IF a >= b THEN a - b ELSE a - b + UintSize

\* r, w and e are in order; and the character that a reader works on, one before r,
\* keeps its place in the buffer, so that a ^D can be put back.
Order ==
  /\ Ahead(w, r) + Ahead(e, w) = Ahead(e, r)
  /\ Ahead(e, r) <= INPUT_BUF
  /\ pc \in {"load", "taken"} => i = Pred(r) /\ Ahead(e, r) < INPUT_BUF

\* The inductive invariant.
ConsoleInv ==
  /\ TypeOK /\ Order
  /\ pc # "idle" => Len(dst) < target

------------------------------------------------------------------------------

\* What the uint arithmetic of console.c computes.
LEMMA Wrap ==
  ASSUME NEW a \in Uints, NEW b \in Uints
  PROVE  /\ uint(a - b) = Ahead(a, b)
         /\ uint(a + 1) = Succ(a)
         /\ uint(a - 1) = Pred(a)
<1>1. /\ UintSize \in Nat \ {0} /\ UintSize > 1
      /\ a \in Nat /\ b \in Nat /\ a < UintSize /\ b < UintSize
  BY SizeAssumption DEF Uints
<1>2. ASSUME NEW x \in Int, 0 <= x, x < UintSize PROVE x % UintSize = x
  BY <1>1, <1>2
<1>3. ASSUME NEW x \in Int, -UintSize <= x, x < 0 PROVE x % UintSize = x + UintSize
  BY <1>1, <1>3
<1>4. UintSize % UintSize = 0
  BY <1>1
<1>5. uint(a - b) = Ahead(a, b)
  BY <1>1, <1>2, <1>3 DEF uint, Ahead
<1>6. uint(a + 1) = Succ(a)
  BY <1>1, <1>2, <1>4 DEF uint, Succ
<1>7. uint(a - 1) = Pred(a)
  BY <1>1, <1>2, <1>3 DEF uint, Pred
<1> QED  BY <1>5, <1>6, <1>7

\* The results are uints.
LEMMA UintRange ==
  ASSUME NEW a \in Uints, NEW b \in Uints
  PROVE  Succ(a) \in Uints /\ Pred(a) \in Uints /\ Ahead(a, b) \in Uints
BY SizeAssumption DEF Succ, Pred, Ahead, Uints

\* The indices are uints, and the sizes are as they are.
LEMMA Indices ==
  ASSUME TypeOK
  PROVE  /\ r \in Uints /\ w \in Uints /\ e \in Uints /\ i \in Uints
         /\ UintSize \in Nat /\ INPUT_BUF \in Nat \ {0} /\ INPUT_BUF < UintSize
         /\ uint(e - r) = Ahead(e, r) /\ uint(e - w) = Ahead(e, w) /\ uint(w - r) = Ahead(w, r)
         /\ uint(e - i) = Ahead(e, i)
         /\ uint(e + 1) = Succ(e) /\ uint(e - 1) = Pred(e)
         /\ uint(r + 1) = Succ(r) /\ uint(r - 1) = Pred(r)
<1>1. r \in Uints /\ w \in Uints /\ e \in Uints /\ i \in Uints
  BY DEF TypeOK, Uints
<1>2. /\ uint(e - r) = Ahead(e, r) /\ uint(e - w) = Ahead(e, w) /\ uint(w - r) = Ahead(w, r)
      /\ uint(e - i) = Ahead(e, i)
      /\ uint(e + 1) = Succ(e) /\ uint(e - 1) = Pred(e)
      /\ uint(r + 1) = Succ(r) /\ uint(r - 1) = Pred(r)
  BY <1>1, Wrap, Zenon
<1> QED  BY <1>1, <1>2, SizeAssumption

\* The kernel starts with an empty buffer.
LEMMA InitInv ==
  Init => ConsoleInv
<1> SUFFICES ASSUME Init PROVE ConsoleInv
  OBVIOUS
<1>1. TypeOK
  BY SizeAssumption, CharAssumption DEF Init, TypeOK
<1>2. Order
  BY SizeAssumption DEF Init, Order, Ahead
<1> QED  BY <1>1, <1>2 DEF Init, ConsoleInv

\* A key has room behind e, and leaves the reader's character its place.
LEMMA KeyStep ==
  ASSUME NoRace, ConsoleInv, NEW k \in Char \cup {CR}, Key(k)
  PROVE  ConsoleInv'
<1> DEFINE x == IF k = CR THEN NL ELSE k
<1>1. TypeOK /\ Order
  BY DEF ConsoleInv
<1>2. /\ Ahead(e, r) < INPUT_BUF
      /\ pc \in {"load", "taken"} => Ahead(e, r) < INPUT_BUF - 1
      /\ buf' = [buf EXCEPT ![e % INPUT_BUF] = x]
      /\ e' = Succ(e) /\ w' \in {e', w}
      /\ UNCHANGED <<r, pc, i, c, dst, target>>
  BY <1>1, Indices, Zenon DEF Key, Timely, NoRace
<1>3. TypeOK'
  <2>1. x \in Char
    BY CharAssumption
  <2>2. buf' \in [0..(INPUT_BUF - 1) -> Char]
    BY <1>1, <1>2, <2>1, SizeAssumption DEF TypeOK
  <2>3. e' \in Uints /\ w' \in Uints
    BY <1>1, <1>2, Indices, UintRange
  <2> QED  BY <1>1, <1>2, <2>2, <2>3 DEF TypeOK, Uints
<1>4. Order'
  <2>1. r \in Uints /\ w \in Uints /\ e \in Uints /\ UintSize \in Nat /\ INPUT_BUF < UintSize
    BY <1>1, Indices
  <2>2. Ahead(e', r) = Ahead(e, r) + 1 /\ Ahead(e', w) = Ahead(e, w) + 1 /\ Ahead(e', e') = 0
    BY <1>1, <1>2, <2>1, SizeAssumption DEF Order, Ahead, Succ, Uints
  <2>3. Ahead(w', r) + Ahead(e', w') = Ahead(e', r)
    BY <1>1, <1>2, <2>1, <2>2, SizeAssumption DEF Order, Ahead, Uints
  <2> QED  BY <1>1, <1>2, <2>1, <2>2, <2>3, SizeAssumption DEF Order, Ahead, Uints
<1> QED
  BY <1>2, <1>3, <1>4 DEF ConsoleInv

\* Backspace takes a character of the line being edited.
LEMMA BackspaceStep ==
  ASSUME ConsoleInv, Backspace
  PROVE  ConsoleInv'
<1>1. TypeOK /\ Order
  BY DEF ConsoleInv
<1>2. /\ e # w /\ e' = Pred(e)
      /\ UNCHANGED <<buf, r, w, pc, i, c, dst, target>>
  BY <1>1, Indices, Zenon DEF Backspace
<1>3. r \in Uints /\ w \in Uints /\ e \in Uints /\ UintSize \in Nat /\ INPUT_BUF < UintSize
  BY <1>1, Indices
<1>4. TypeOK'
  BY <1>1, <1>2, <1>3, UintRange DEF TypeOK, Uints
<1>5. Ahead(e', r) = Ahead(e, r) - 1 /\ Ahead(e', w) = Ahead(e, w) - 1
  BY <1>1, <1>2, <1>3, SizeAssumption DEF Order, Ahead, Pred, Uints
<1>6. Order'
  BY <1>1, <1>2, <1>3, <1>5, SizeAssumption DEF Order, Ahead, Uints
<1> QED
  BY <1>2, <1>4, <1>6 DEF ConsoleInv

\* ^U takes characters of the line being edited.
LEMMA KillStep ==
  ASSUME ConsoleInv, KillLine
  PROVE  ConsoleInv'
<1>1. TypeOK /\ Order
  BY DEF ConsoleInv
<1>2. r \in Uints /\ w \in Uints /\ e \in Uints /\ UintSize \in Nat /\ INPUT_BUF < UintSize
  BY <1>1, Indices
<1>3. PICK n \in 0..Ahead(e, w) : e' = uint(e - n)
  BY <1>1, Indices, Zenon DEF KillLine
<1>4. n \in Uints /\ e' = Ahead(e, n)
  <2>1. n \in Uints
    BY <1>2, <1>3, UintRange DEF Uints
  <2> QED  BY <1>2, <1>3, <2>1, Wrap
<1>5. UNCHANGED <<buf, r, w, pc, i, c, dst, target>>
  BY DEF KillLine
<1>6. TypeOK'
  BY <1>1, <1>2, <1>4, <1>5, UintRange DEF TypeOK, Uints
<1>7. Ahead(e', r) = Ahead(e, r) - n /\ Ahead(e', w) = Ahead(e, w) - n
  BY <1>1, <1>2, <1>3, <1>4, SizeAssumption DEF Order, Ahead, Uints
<1>8. Order'
  BY <1>1, <1>2, <1>3, <1>5, <1>7, SizeAssumption DEF Order, Ahead, Uints
<1> QED
  BY <1>5, <1>6, <1>8 DEF ConsoleInv

\* The reader stays between r and w, and gets no more than it asked for.
LEMMA ReaderStep ==
  ASSUME ConsoleInv, Reader \/ \E n \in 1..MaxRead : consoleread(n)
  PROVE  ConsoleInv'
<1>1. TypeOK /\ Order
  BY DEF ConsoleInv
<1>2. /\ r \in Uints /\ w \in Uints /\ e \in Uints /\ UintSize \in Nat
      /\ INPUT_BUF \in Nat \ {0} /\ INPUT_BUF < UintSize
  BY <1>1, Indices
<1>3. ASSUME NEW n \in 1..MaxRead, consoleread(n) PROVE ConsoleInv'
  <2>1. TypeOK' /\ Len(dst') < target'
    BY <1>1, <1>3, SizeAssumption DEF consoleread, TypeOK
  <2>2. Order'
    BY <1>1, <1>3 DEF consoleread, Order
  <2> QED  BY <2>1, <2>2 DEF ConsoleInv
<1>4. CASE Increment
  <2>1. /\ pc = "wait" /\ r # w /\ i' = r /\ r' = Succ(r) /\ pc' = "load"
        /\ UNCHANGED <<buf, w, e, c, dst, target>>
    BY <1>1, <1>4, Indices, Zenon DEF Increment
  <2>2. TypeOK'
    BY <1>1, <1>2, <2>1, UintRange DEF TypeOK, Uints
  <2>3. /\ Ahead(w, r') = Ahead(w, r) - 1 /\ Ahead(e, r') = Ahead(e, r) - 1
        /\ i' = Pred(r')
    BY <1>1, <1>2, <2>1 DEF Order, Ahead, Succ, Pred, Uints
  <2>4. Ahead(w, r) \in Int /\ Ahead(e, w) \in Int /\ Ahead(e, r) \in Int
    <3>1. Ahead(w, r) \in Uints /\ Ahead(e, w) \in Uints /\ Ahead(e, r) \in Uints
      BY <1>2, UintRange, Zenon
    <3> QED  BY <3>1 DEF Uints
  <2>5. Order'
    <3>1. /\ Ahead(w, r)' = Ahead(w, r') /\ Ahead(e, w)' = Ahead(e, w)
          /\ Ahead(e, r)' = Ahead(e, r') /\ Pred(r)' = Pred(r')
      BY <2>1 DEF Ahead, Pred
    <3>2. Ahead(w, r') + Ahead(e, w) = Ahead(e, r') /\ Ahead(e, r') < INPUT_BUF
      BY <1>1, <1>2, <2>3, <2>4 DEF Order
    <3>3. Ahead(e, r') <= INPUT_BUF
      BY <1>2, <2>3, <2>4, <3>2
    <3> QED  BY <2>1, <2>3, <3>1, <3>2, <3>3, Zenon DEF Order
  <2> QED  BY <2>1, <2>2, <2>5 DEF ConsoleInv
<1>5. CASE Load
  <2>1. At(i) \in Char
    <3>1. i % INPUT_BUF \in 0..(INPUT_BUF - 1)
      BY <1>1, <1>2, Indices DEF Uints
    <3> QED  BY <1>1, <3>1 DEF At, TypeOK
  <2>2. TypeOK'
    BY <1>1, <1>5, <2>1 DEF Load, TypeOK
  <2>3. Order'
    BY <1>1, <1>5 DEF Load, Order
  <2> QED  BY <1>5, <2>2, <2>3 DEF Load, ConsoleInv
<1>6. CASE EndOfFile
  <2>1. /\ pc = "taken" /\ pc' = "idle" /\ r' \in {r, Pred(r)}
        /\ UNCHANGED <<buf, w, e, i, c, dst, target>>
    BY <1>1, <1>6, Indices, Zenon DEF EndOfFile
  <2>2. TypeOK'
    BY <1>1, <1>2, <2>1, UintRange, Zenon DEF TypeOK, Uints
  <2>3. /\ Ahead(w, Pred(r)) = Ahead(w, r) + 1
        /\ Ahead(e, Pred(r)) = Ahead(e, r) + 1
    <3>1. Ahead(w, r) < UintSize - 1 /\ Ahead(e, r) < UintSize - 1
      BY <1>1, <1>2, <2>1 DEF Order, Ahead, Uints
    <3> QED  BY <1>2, <3>1 DEF Ahead, Pred, Uints
  <2>4. Ahead(w, r) \in Int /\ Ahead(e, w) \in Int /\ Ahead(e, r) \in Int
    <3>1. Ahead(w, r) \in Uints /\ Ahead(e, w) \in Uints /\ Ahead(e, r) \in Uints
      BY <1>2, UintRange, Zenon
    <3> QED  BY <3>1 DEF Uints
  <2>5. Order'
    <3>1. /\ Ahead(w, r)' = Ahead(w, r') /\ Ahead(e, w)' = Ahead(e, w)
          /\ Ahead(e, r)' = Ahead(e, r') /\ Pred(r)' = Pred(r')
      BY <2>1 DEF Ahead, Pred
    <3> QED  BY <1>1, <1>2, <2>1, <2>3, <2>4, <3>1 DEF Order
  <2> QED  BY <2>1, <2>2, <2>5 DEF ConsoleInv
<1>7. CASE Copy
  <2>1. TypeOK' /\ (pc' # "idle" => Len(dst') < target')
    BY <1>1, <1>7 DEF Copy, TypeOK, ConsoleInv
  <2>2. Order'
    BY <1>1, <1>7 DEF Copy, Order
  <2> QED  BY <2>1, <2>2 DEF ConsoleInv
<1> QED
  BY <1>3, <1>4, <1>5, <1>6, <1>7 DEF Reader

\* The types of input and of consoleread's variables, and the order of the indices,
\* hold for ever.
THEOREM ConsoleCorrect ==
  ASSUME NoRace
  PROVE  Spec => []ConsoleInv
<1>1. ConsoleInv /\ [Next]_vars => ConsoleInv'
  <2> SUFFICES ASSUME ConsoleInv, [Next]_vars PROVE ConsoleInv'
    OBVIOUS
  <2>1. CASE UNCHANGED vars
    BY <2>1 DEF vars, ConsoleInv, TypeOK, Order
  <2> QED
    BY <2>1, KeyStep, BackspaceStep, KillStep, ReaderStep DEF Next
<1> QED  BY <1>1, InitInv, PTL DEF Spec

\* TypeOK for every size of the buffer, of uint and of a read.
THEOREM TypesCorrect ==
  ASSUME NoRace
  PROVE  Spec => []TypeOK
BY ConsoleCorrect, PTL DEF ConsoleInv

\* IndexOrder: r, w and e never overtake each other, around the wrap of uint.
THEOREM IndicesCorrect ==
  ASSUME NoRace
  PROVE  Spec => []IndexOrder
<1>1. ConsoleInv => IndexOrder
  <2> SUFFICES ASSUME ConsoleInv PROVE IndexOrder
    OBVIOUS
  <2>1. TypeOK /\ Order
    BY DEF ConsoleInv
  <2>2. pc = "load" => Ahead(e, i) <= INPUT_BUF
    BY <2>1, Indices DEF Order, Ahead, Pred, Uints
  <2> QED  BY <2>1, <2>2, Indices, Zenon DEF Order, IndexOrder
<1> QED  BY <1>1, ConsoleCorrect, PTL

------------------------------------------------------------------------------
(* The buffer as sequences.                                                *)

\* The index k places after a, and n characters of buffer b from a on.
Pos(a, k) == IF a + k < UintSize THEN a + k ELSE a + k - UintSize
Text(b, a, n) == [k \in 1..n |-> b[Pos(a, k - 1) % INPUT_BUF]]

\* Indices that are less than a buffer apart have different places in the buffer.
LEMMA Places ==
  ASSUME NEW a \in Uints, NEW b \in Uints, Ahead(a, b) > 0, Ahead(a, b) < INPUT_BUF
  PROVE  a % INPUT_BUF # b % INPUT_BUF
<1> DEFINE m == INPUT_BUF
           s == a % m
           q == a \div m
           t == b \div m
           u == UintSize \div m
<1>1. m \in Nat \ {0} /\ UintSize \in Nat /\ m < UintSize /\ UintSize % m = 0
  BY SizeAssumption
<1>2. a \in Nat /\ b \in Nat
  BY <1>1 DEF Uints
<1> SUFFICES ASSUME a % m = b % m PROVE FALSE
  OBVIOUS
<1>3. /\ a = m * q + s /\ b = m * t + s /\ UintSize = m * u
      /\ q \in Int /\ t \in Int /\ u \in Int /\ s \in Int
  BY <1>1, <1>2
<1> HIDE DEF s, q, t, u
<1> DEFINE d == IF a >= b THEN q - t ELSE q - t + u
<1>4. d \in Int /\ Ahead(a, b) = m * d
  <2>1. a - b = m * (q - t)
    BY <1>1, <1>3
  <2>2. a - b + UintSize = m * (q - t + u)
    BY <1>1, <1>3
  <2> QED  BY <1>3, <2>1, <2>2 DEF Ahead
<1> HIDE DEF d
<1>5. CASE d <= 0
  <2>1. m * d <= 0
    BY <1>1, <1>4, <1>5
  <2> QED  BY <1>1, <1>4, <2>1
<1>6. CASE d >= 1
  <2>1. m * d >= m
    BY <1>1, <1>4, <1>6
  <2> QED  BY <1>1, <1>4, <2>1
<1> QED  BY <1>4, <1>5, <1>6

\* Steps from one index to another.
LEMMA Steps ==
  ASSUME NEW a \in Uints, NEW j \in 0..UintSize
  PROVE  /\ uint(a + j) = Pos(a, j) /\ Pos(a, j) \in Uints
         /\ Pos(a, 0) = a /\ Pos(a, 1) = Succ(a)
         /\ \A k \in Nat : j + k < UintSize => Pos(Pos(a, j), k) = Pos(a, j + k)
         /\ \A b \in Uints : j = Ahead(b, a) => Pos(a, j) = b
         /\ \A b \in Uints : j <= Ahead(b, a) => Ahead(b, Pos(a, j)) = Ahead(b, a) - j
<1>1. UintSize \in Nat \ {0} /\ UintSize > 1 /\ a \in Nat /\ a < UintSize /\ j \in Nat /\ j <= UintSize
  BY SizeAssumption DEF Uints
<1>2. ASSUME NEW x \in Int, 0 <= x, x < UintSize PROVE x % UintSize = x
  BY <1>1, <1>2
<1>3. ASSUME NEW x \in Int, UintSize <= x, x < 2 * UintSize PROVE x % UintSize = x - UintSize
  BY <1>1, <1>3
<1>4. uint(a + j) = Pos(a, j)
  BY <1>1, <1>2, <1>3 DEF uint, Pos
<1>5. Pos(a, j) \in Uints /\ Pos(a, 0) = a /\ Pos(a, 1) = Succ(a)
  BY <1>1 DEF Pos, Uints, Succ
<1>6. \A k \in Nat : j + k < UintSize => Pos(Pos(a, j), k) = Pos(a, j + k)
  BY <1>1 DEF Pos
<1>7. \A b \in Uints : j = Ahead(b, a) => Pos(a, j) = b
  BY <1>1 DEF Pos, Ahead, Uints
<1>8. \A b \in Uints : j <= Ahead(b, a) => Ahead(b, Pos(a, j)) = Ahead(b, a) - j
  BY <1>1 DEF Pos, Ahead, Uints
<1> QED  BY <1>4, <1>5, <1>6, <1>7, <1>8

Buffer == [0..(INPUT_BUF - 1) -> Char]

\* Chars, of any buffer.
CharsOf(f, a, b) == [k \in 1..uint(b - a) |-> f[uint(a + k - 1) % INPUT_BUF]]

\* The characters from an index up to another one are a text.
LEMMA CharsText ==
  ASSUME NEW f, NEW a \in Uints, NEW b \in Uints
  PROVE  CharsOf(f, a, b) = Text(f, a, Ahead(b, a))
<1>1. Ahead(b, a) \in Nat /\ Ahead(b, a) < UintSize
  BY SizeAssumption DEF Ahead, Uints
<1>2. uint(b - a) = Ahead(b, a)
  BY Wrap, Zenon
<1>3. ASSUME NEW k \in 1..Ahead(b, a)
      PROVE  f[uint(a + k - 1) % INPUT_BUF] = f[Pos(a, k - 1) % INPUT_BUF]
  <2>1. k - 1 \in 0..UintSize /\ a + k - 1 = a + (k - 1)
    BY <1>1, <1>3, SizeAssumption DEF Uints
  <2> QED  BY <2>1, Steps
<1> QED  BY <1>2, <1>3 DEF CharsOf, Text

\* A text is a sequence of characters.
LEMMA TextType ==
  ASSUME NEW b \in Buffer, NEW a \in Uints, NEW n \in 0..UintSize
  PROVE  /\ Text(b, a, n) \in Seq(Char) /\ Len(Text(b, a, n)) = n
         /\ DOMAIN Text(b, a, n) = 1..n
<1>1. ASSUME NEW k \in 1..n PROVE b[Pos(a, k - 1) % INPUT_BUF] \in Char
  <2>1. k - 1 \in 0..UintSize
    BY <1>1, SizeAssumption
  <2>2. Pos(a, k - 1) \in Nat
    BY <2>1, Steps, SizeAssumption DEF Uints
  <2> QED  BY <2>2, SizeAssumption DEF Buffer
<1>2. n \in Nat
  BY SizeAssumption
<1> QED  BY <1>1, <1>2 DEF Text

\* A text and the character after it; its beginning.
LEMMA TextAppend ==
  ASSUME NEW b \in Buffer, NEW a \in Uints, NEW n \in 0..(UintSize - 1)
  PROVE  /\ Text(b, a, n + 1) = Append(Text(b, a, n), b[Pos(a, n) % INPUT_BUF])
         /\ SubSeq(Text(b, a, n + 1), 1, n) = Text(b, a, n)
<1>1. n \in Nat /\ n \in 0..UintSize /\ n + 1 \in 0..UintSize
  BY SizeAssumption
<1>2. /\ Text(b, a, n) \in Seq(Char) /\ Len(Text(b, a, n)) = n
      /\ Text(b, a, n + 1) \in Seq(Char) /\ Len(Text(b, a, n + 1)) = n + 1
  BY <1>1, TextType, Zenon
<1>3. \A k \in 1..n : Text(b, a, n)[k] = Text(b, a, n + 1)[k]
  BY <1>1 DEF Text
<1>4. Text(b, a, n + 1)[n + 1] = b[Pos(a, n) % INPUT_BUF]
  BY <1>1 DEF Text
<1> DEFINE x == Text(b, a, n)
           y == Text(b, a, n + 1)
           z == b[Pos(a, n) % INPUT_BUF]
<1> HIDE DEF x, y, z
<1>5. z \in Char
  BY <1>1, <1>2, <1>4 DEF y, z
<1>6. y = Append(x, z)
  BY <1>1, <1>2, <1>3, <1>4, <1>5 DEF x, y, z
<1>7. SubSeq(y, 1, n) = x
  BY <1>1, <1>2, <1>3 DEF x, y
<1> QED  BY <1>6, <1>7 DEF x, y, z

\* A text followed by the text behind it.
LEMMA TextConcat ==
  ASSUME NEW b \in Buffer, NEW a \in Uints, NEW m \in Nat, NEW n \in Nat, m + n < UintSize
  PROVE  Text(b, a, m) \o Text(b, Pos(a, m), n) = Text(b, a, m + n)
<1>1. m \in 0..UintSize /\ n \in 0..UintSize /\ m + n \in 0..UintSize /\ UintSize \in Nat
  BY SizeAssumption
<1>2. Pos(a, m) \in Uints
  BY <1>1, Steps
<1> DEFINE x == Text(b, a, m)
           y == Text(b, Pos(a, m), n)
           z == Text(b, a, m + n)
<1>3. /\ x \in Seq(Char) /\ Len(x) = m /\ y \in Seq(Char) /\ Len(y) = n
      /\ z \in Seq(Char) /\ Len(z) = m + n
  BY <1>1, <1>2, TextType, Zenon
<1>4. \A k \in 1..m : z[k] = x[k]
  BY <1>1 DEF Text
<1>5. ASSUME NEW k \in 1..n PROVE z[m + k] = y[k]
  <2>1. k - 1 \in Nat /\ m + (k - 1) < UintSize /\ m + k - 1 = m + (k - 1) /\ m + k \in 1..(m + n)
    BY <1>1, <1>5
  <2>2. Pos(Pos(a, m), k - 1) = Pos(a, m + (k - 1))
    BY <1>1, <2>1, Steps
  <2> QED  BY <1>5, <2>1, <2>2 DEF Text
<1> HIDE DEF x, y, z
<1>6. \A k \in (m + 1)..(m + n) : z[k] = y[k - m]
  <2> SUFFICES ASSUME NEW k \in (m + 1)..(m + n) PROVE z[k] = y[k - m]
    OBVIOUS
  <2>1. k - m \in 1..n /\ m + (k - m) = k
    OBVIOUS
  <2> QED  BY <1>5, <2>1
<1>7. x \o y = z
  <2>1. x \o y \in Seq(Char) /\ Len(x \o y) = m + n
    BY <1>3, ConcatProperties, Zenon
  <2>2. ASSUME NEW k \in 1..(m + n) PROVE (x \o y)[k] = z[k]
    <3>1. (x \o y)[k] = IF k <= m THEN x[k] ELSE y[k - m]
      BY <1>3, ConcatProperties, SMTT(60)
    <3>2. CASE k <= m
      BY <1>4, <3>1, <3>2
    <3>3. CASE ~(k <= m)
      BY <1>6, <3>1, <3>3
    <3> QED  BY <3>2, <3>3, Zenon
  <2>3. Len(x \o y) = Len(z) /\ \A k \in 1..Len(x \o y) : (x \o y)[k] = z[k]
    BY <1>3, <2>1, <2>2
  <2> QED  BY <1>3, <2>1, <2>3, SeqEqual, Zenon
<1> QED  BY <1>7 DEF x, y, z

\* The first character of a text, and what follows it.
LEMMA TextHead ==
  ASSUME NEW b \in Buffer, NEW a \in Uints, NEW n \in Nat, n + 1 < UintSize
  PROVE  /\ Head(Text(b, a, n + 1)) = b[a % INPUT_BUF]
         /\ Tail(Text(b, a, n + 1)) = Text(b, Succ(a), n)
         /\ <<b[a % INPUT_BUF]>> \o Text(b, Succ(a), n) = Text(b, a, n + 1)
<1>1. 1 \in 0..UintSize /\ n \in 0..UintSize /\ n + 1 \in 0..UintSize /\ UintSize \in Nat
  BY SizeAssumption
<1>2. Pos(a, 0) = a /\ Pos(a, 1) = Succ(a) /\ Succ(a) \in Uints
  BY <1>1, SizeAssumption DEF Pos, Succ, Uints
<1> DEFINE x == Text(b, Succ(a), n)
           y == Text(b, a, n + 1)
           z == b[a % INPUT_BUF]
<1>3. x \in Seq(Char) /\ Len(x) = n /\ y \in Seq(Char) /\ Len(y) = n + 1
  BY <1>1, <1>2, TextType, Zenon
<1>4. y[1] = z
  BY <1>1, <1>2 DEF Text
<1>5. ASSUME NEW k \in 1..n PROVE y[k + 1] = x[k]
  <2>1. k - 1 \in Nat /\ 1 + (k - 1) < UintSize /\ 1 + (k - 1) = k /\ k + 1 \in 1..(n + 1)
        /\ k + 1 - 1 = k
    BY <1>1, <1>5
  <2>2. Pos(Succ(a), k - 1) = Pos(a, k)
    BY <1>1, <1>2, <2>1, Steps
  <2> QED  BY <1>5, <2>1, <2>2 DEF Text
<1> HIDE DEF x, y, z
<1>6. z \in Char
  BY <1>3, <1>4
<1>7. Head(y) = z /\ Tail(y) = x
  BY <1>3, <1>4, <1>5
<1>8. <<z>> \o x = y
  BY <1>3, <1>4, <1>5, <1>6
<1> QED  BY <1>7, <1>8 DEF x, y, z

\* A key stored behind a text does not change it.
LEMMA TextFrame ==
  ASSUME NEW b \in Buffer, NEW x \in Char, NEW a \in Uints, NEW d \in Uints,
         NEW n \in Nat, n <= Ahead(d, a), Ahead(d, a) < INPUT_BUF
  PROVE  Text([b EXCEPT ![d % INPUT_BUF] = x], a, n) = Text(b, a, n)
<1>1. UintSize \in Nat /\ INPUT_BUF \in Nat /\ INPUT_BUF < UintSize
  BY SizeAssumption
<1>2. ASSUME NEW k \in 1..n
      PROVE  [b EXCEPT ![d % INPUT_BUF] = x][Pos(a, k - 1) % INPUT_BUF]
               = b[Pos(a, k - 1) % INPUT_BUF]
  <2>1. k - 1 \in 0..UintSize /\ k - 1 < Ahead(d, a) /\ Ahead(d, a) \in Int
    BY <1>1, <1>2, UintRange DEF Uints
  <2>2. Pos(a, k - 1) \in Uints /\ Ahead(d, Pos(a, k - 1)) = Ahead(d, a) - (k - 1)
    BY <2>1, Steps
  <2>3. Pos(a, k - 1) % INPUT_BUF # d % INPUT_BUF
    BY <1>1, <2>1, <2>2, Places
  <2> QED  BY <2>3 DEF Buffer
<1> QED  BY <1>2 DEF Text

------------------------------------------------------------------------------
(* The refinement.                                                         *)

\* The line that is edited has no newline, and a character that was taken is still
\* in its place.
LineInv ==
  /\ \A p \in Uints : Ahead(p, w) < Ahead(e, w) => At(p) # NL
  /\ pc = "taken" => c = At(i)

\* The line and the characters that are ready, as texts.
LEMMA View ==
  ASSUME TypeOK
  PROVE  /\ Chars(w, e) = Text(buf, w, Ahead(e, w))
         /\ Chars(r, w) = Text(buf, r, Ahead(w, r))
         /\ Chars(w, e) \in Seq(Char) /\ Len(Chars(w, e)) = Ahead(e, w)
         /\ Chars(r, w) \in Seq(Char) /\ Len(Chars(r, w)) = Ahead(w, r)
         /\ buf \in Buffer
         /\ Ahead(w, r) \in 0..UintSize /\ Ahead(e, w) \in 0..UintSize /\ Ahead(e, r) \in 0..UintSize
<1>1. r \in Uints /\ w \in Uints /\ e \in Uints
  BY Indices
<1>2. Ahead(w, r) \in 0..UintSize /\ Ahead(e, w) \in 0..UintSize /\ Ahead(e, r) \in 0..UintSize
  BY <1>1, SizeAssumption DEF Ahead, Uints
<1>3. Chars(w, e) = CharsOf(buf, w, e) /\ Chars(r, w) = CharsOf(buf, r, w)
  BY DEF Chars, CharsOf, At
<1>4. buf \in Buffer
  BY DEF TypeOK, Buffer
<1>5. /\ Chars(w, e) = Text(buf, w, Ahead(e, w))
      /\ Chars(r, w) = Text(buf, r, Ahead(w, r))
  BY <1>1, <1>3, CharsText, Zenon
<1>6. /\ Chars(w, e) \in Seq(Char) /\ Len(Chars(w, e)) = Ahead(e, w)
      /\ Chars(r, w) \in Seq(Char) /\ Len(Chars(r, w)) = Ahead(w, r)
  <2>1. \A a \in Uints, n \in 0..UintSize :
          Text(buf, a, n) \in Seq(Char) /\ Len(Text(buf, a, n)) = n
    BY <1>4, TextType, Zenon
  <2> QED  BY <1>1, <1>2, <1>5, <2>1, Zenon
<1> QED  BY <1>2, <1>4, <1>5, <1>6

\* The same after a step.
LEMMA ViewNext ==
  ASSUME TypeOK'
  PROVE  /\ Chars(w, e)' = Text(buf', w', Ahead(e', w'))
         /\ Chars(r, w)' = Text(buf', r', Ahead(w', r'))
<1>1. r' \in Uints /\ w' \in Uints /\ e' \in Uints
  BY DEF TypeOK, Uints
<1>2. Chars(w, e)' = CharsOf(buf', w', e') /\ Chars(r, w)' = CharsOf(buf', r', w')
  BY DEF Chars, CharsOf, At
<1> QED  BY <1>1, <1>2, CharsText, Zenon

\* The buffer is empty at the start.
LEMMA InitRefines ==
  Init => LineInv /\ LD!Init
<1> SUFFICES ASSUME Init PROVE LineInv /\ LD!Init
  OBVIOUS
<1>1. TypeOK
  BY InitInv DEF ConsoleInv
<1>2. Ahead(e, w) = 0 /\ Ahead(w, r) = 0
  BY SizeAssumption DEF Init, Ahead
<1>3. Chars(w, e) = <<>> /\ Chars(r, w) = <<>>
  BY <1>1, <1>2, View
<1>4. LD!Init
  BY <1>3 DEF Init, LD!Init
<1>5. LineInv
  BY <1>2, SizeAssumption DEF Init, LineInv, Ahead, Uints
<1> QED  BY <1>4, <1>5

\* Increment, Load, EndOfFile, Copy and consoleread are Take, a stutter, Eof, Deliver
\* and Read.
LEMMA ReaderRefines ==
  ASSUME ConsoleInv, LineInv, Reader \/ \E n \in 1..MaxRead : consoleread(n), ConsoleInv'
  PROVE  LineInv' /\ [LD!Next]_(LD!vars)
<1>1. TypeOK /\ Order /\ TypeOK'
  BY DEF ConsoleInv
<1>2. /\ r \in Uints /\ w \in Uints /\ e \in Uints /\ UintSize \in Nat
      /\ INPUT_BUF \in Nat \ {0} /\ INPUT_BUF < UintSize
  BY <1>1, Indices
<1>3. ASSUME NEW n \in 1..MaxRead, consoleread(n) PROVE LineInv' /\ LD!Read(n)
  BY <1>3 DEF consoleread, LineInv, LD!Read, Chars, At
<1>4. CASE Load
  BY <1>4 DEF Load, LineInv, LD!vars, Chars, At
<1>5. CASE Copy
  <2>1. LineInv'
    BY <1>5 DEF Copy, LineInv, At
  <2>2. Chars(w, e)' = Chars(w, e) /\ Chars(r, w)' = Chars(r, w)
    BY <1>5 DEF Copy, Chars, At
  <2>3. pc' \in {"idle", "wait"} /\ pc = "taken"
    BY <1>5 DEF Copy
  <2>4. LD!Deliver
    BY <1>5, <2>2, <2>3 DEF Copy, LD!Deliver
  <2> QED  BY <2>1, <2>4 DEF LD!Next
<1>6. CASE Increment
  <2>1. /\ pc = "wait" /\ r # w /\ i' = r /\ r' = Succ(r) /\ pc' = "load"
        /\ UNCHANGED <<buf, w, e, c, dst, target>>
    BY <1>1, <1>6, Indices, Zenon DEF Increment
  <2>2. LineInv'
    BY <2>1 DEF LineInv, At
  <2> DEFINE n == Ahead(w, r) - 1
  <2>3. n \in Nat /\ n + 1 < UintSize /\ Ahead(w, r) = n + 1 /\ Ahead(w, Succ(r)) = n
    BY <1>1, <1>2, <2>1 DEF Order, Ahead, Succ, Uints
  <2>4. Chars(w, e)' = Chars(w, e) /\ Chars(r, w)' = Text(buf, Succ(r), n)
    BY <1>1, <2>1, <2>3, View, ViewNext
  <2>5. Chars(r, w) = Text(buf, r, n + 1) /\ Chars(r, w) # <<>> /\ buf \in Buffer
    BY <1>1, <2>3, View
  <2> HIDE DEF n
  <2>6. Head(Chars(r, w)) = At(r) /\ Tail(Chars(r, w)) = Chars(r, w)'
    <3>1. /\ Head(Text(buf, r, n + 1)) = buf[r % INPUT_BUF]
          /\ Tail(Text(buf, r, n + 1)) = Text(buf, Succ(r), n)
      BY <1>2, <2>3, <2>5, TextHead, Zenon
    <3> QED  BY <2>4, <2>5, <3>1 DEF At
  <2>7. LD!Take
    BY <2>1, <2>4, <2>5, <2>6 DEF LD!Take, At
  <2> QED  BY <2>2, <2>7 DEF LD!Next
<1>7. CASE EndOfFile
  <2>1. /\ pc = "taken" /\ pc' = "idle" /\ c = EOT
        /\ r' = IF dst # <<>> THEN Pred(r) ELSE r
        /\ UNCHANGED <<buf, w, e, i, c, dst, target>>
    BY <1>1, <1>7, Indices, Zenon DEF EndOfFile
  <2>2. LineInv'
    BY <2>1 DEF LineInv, At
  <2>3. Chars(w, e)' = Chars(w, e)
    BY <2>1 DEF Chars, At
  <2>4. CASE dst = <<>>
    <3>1. Chars(r, w)' = Chars(r, w)
      BY <2>1, <2>4 DEF Chars, At
    <3> QED  BY <2>1, <2>2, <2>3, <2>4, <3>1 DEF LD!Eof, LD!Next
  <2>5. CASE dst # <<>>
    <3> DEFINE n == Ahead(w, r)
               a == Pred(r)
    <3>1. n \in Nat /\ n + 1 < UintSize /\ Ahead(w, a) = n + 1
      <4>1. Ahead(w, r) < UintSize - 1
        BY <1>1, <1>2, <2>1 DEF Order, Ahead, Uints
      <4> QED  BY <1>2, <4>1 DEF Ahead, Pred, Uints
    <3>2. a \in Uints /\ Succ(a) = r
      BY <1>2 DEF Pred, Succ, Uints
    <3>3. buf[a % INPUT_BUF] = EOT
      BY <1>1, <2>1 DEF LineInv, Order, At
    <3>4. Chars(r, w) = Text(buf, r, n) /\ Chars(r, w)' = Text(buf, a, n + 1) /\ buf \in Buffer
      BY <1>1, <2>1, <2>5, <3>1, View, ViewNext
    <3>5. Chars(r, w)' = <<EOT>> \o Chars(r, w)
      BY <3>1, <3>2, <3>3, <3>4, TextHead, SMTT(60)
    <3> QED  BY <2>1, <2>2, <2>3, <2>5, <3>5 DEF LD!Eof, LD!Next
  <2> QED  BY <2>4, <2>5
<1> QED
  BY <1>3, <1>4, <1>5, <1>6, <1>7 DEF Reader, LD!Next

\* Backspace is Erase, and ^U is Kill: it stops at w, as no newline is in the line.
LEMMA EditRefines ==
  ASSUME ConsoleInv, LineInv, Backspace \/ KillLine, ConsoleInv'
  PROVE  LineInv' /\ (LD!Erase \/ LD!Kill)
<1>1. TypeOK /\ Order /\ TypeOK' /\ buf \in Buffer
  BY DEF ConsoleInv, TypeOK, Buffer
<1>2. /\ r \in Uints /\ w \in Uints /\ e \in Uints /\ UintSize \in Nat
      /\ INPUT_BUF \in Nat \ {0} /\ INPUT_BUF < UintSize
  BY <1>1, Indices
<1>3. UNCHANGED <<buf, r, w, pc, i, c, dst, target>>
  BY DEF Backspace, KillLine
<1>4. Chars(r, w)' = Chars(r, w) /\ At(i)' = At(i)
  BY <1>3 DEF Chars, At
<1>5. CASE Backspace
  <2>1. e # w /\ e' = Pred(e)
    BY <1>1, <1>5, Indices, Zenon DEF Backspace
  <2> DEFINE n == Ahead(e, w) - 1
  <2>2. n \in 0..(UintSize - 1) /\ Ahead(e, w) = n + 1 /\ Ahead(e', w) = n
    BY <1>2, <2>1 DEF Ahead, Pred, Uints
  <2>3. Chars(w, e) = Text(buf, w, n + 1) /\ Chars(w, e)' = Text(buf, w, n)
    BY <1>1, <1>3, <2>2, View, ViewNext
  <2>4. Len(Chars(w, e)) = n + 1 /\ Chars(w, e) \in Seq(Char)
    BY <1>1, <2>2, View
  <2> HIDE DEF n
  <2>5. SubSeq(Text(buf, w, n + 1), 1, n) = Text(buf, w, n)
    BY <1>1, <1>2, <2>2, TextAppend, Zenon
  <2>6. Chars(w, e) # <<>> /\ Len(Chars(w, e)) - 1 = n
    BY <1>2, <2>2, <2>4
  <2>7. LD!Erase
    BY <1>3, <1>4, <2>3, <2>5, <2>6 DEF LD!Erase
  <2>8. LineInv'
    <3>1. \A p \in Uints : Ahead(p, w) < n => Ahead(p, w) < n + 1
      BY <1>2, <2>2 DEF Ahead, Uints
    <3> QED  BY <1>3, <2>2, <3>1 DEF LineInv, At, Ahead
  <2> QED  BY <2>7, <2>8
<1>6. CASE KillLine
  <2>1. PICK n \in 0..Ahead(e, w) :
          /\ n = Ahead(e, w) \/ At(uint(e - n - 1)) = NL
          /\ e' = uint(e - n)
    BY <1>1, <1>6, Indices, Zenon DEF KillLine
  <2>2. n \in Uints /\ Ahead(e, w) \in Uints /\ Ahead(e, w) \in Nat
    BY <1>2, <2>1 DEF Ahead, Uints
  <2>3. n = Ahead(e, w)
    <3> SUFFICES ASSUME n # Ahead(e, w) PROVE FALSE
      OBVIOUS
    <3>1. n + 1 \in Uints /\ n + 1 <= Ahead(e, w) /\ e - n - 1 = e - (n + 1)
      BY <1>2, <2>1, <2>2 DEF Uints
    <3>2. uint(e - n - 1) = Ahead(e, n + 1)
      BY <1>2, <3>1, Wrap
    <3>3. Ahead(e, n + 1) \in Uints /\ Ahead(Ahead(e, n + 1), w) < Ahead(e, w)
      BY <1>2, <2>2, <3>1 DEF Ahead, Uints
    <3> QED  BY <2>1, <3>2, <3>3 DEF LineInv
  <2>4. e' = w
    <3>1. uint(e - n) = Ahead(e, n)
      BY <1>2, <2>2, Wrap
    <3> QED  BY <1>2, <2>1, <2>3, <3>1 DEF Ahead, Uints
  <2>5. Ahead(e', w) = 0
    BY <1>2, <2>4 DEF Ahead, Uints
  <2>6. Chars(w, e)' = <<>>
    <3>1. Chars(w, e)' = Text(buf, w, 0)
      BY <1>1, <1>3, <2>5, ViewNext
    <3>2. Text(buf, w, 0) \in Seq(Char) /\ Len(Text(buf, w, 0)) = 0
      BY <1>1, <1>2, TextType
    <3> QED  BY <3>1, <3>2
  <2>7. LD!Kill
    BY <1>3, <1>4, <2>6 DEF LD!Kill
  <2>8. LineInv'
    <3>1. \A p \in Uints : ~(Ahead(p, w) < 0)
      BY <1>2 DEF Ahead, Uints
    <3> QED  BY <1>3, <2>5, <3>1 DEF LineInv, At, Ahead
  <2> QED  BY <2>7, <2>8
<1> QED  BY <1>5, <1>6

\* The default case of consoleintr is Type.
LEMMA KeyRefines ==
  ASSUME NoRace, ConsoleInv, LineInv, NEW k \in Char \cup {CR}, Key(k), ConsoleInv'
  PROVE  LineInv' /\ \E x \in Char : LD!Type(x)
<1> DEFINE x == IF k = CR THEN NL ELSE k
           m == Ahead(w, r)
           n == Ahead(e, w)
<1>1. TypeOK /\ Order /\ TypeOK' /\ buf \in Buffer /\ x \in Char
  BY CharAssumption, SMTT(60) DEF ConsoleInv, TypeOK, Buffer
<1>2. /\ r \in Uints /\ w \in Uints /\ e \in Uints /\ i \in Uints /\ UintSize \in Nat
      /\ INPUT_BUF \in Nat \ {0} /\ INPUT_BUF < UintSize
  BY <1>1, Indices
<1>3. /\ Ahead(e, r) < INPUT_BUF
      /\ pc \in {"load", "taken"} => Ahead(e, r) < INPUT_BUF - 1
      /\ buf' = [buf EXCEPT ![e % INPUT_BUF] = x]
      /\ e' = Succ(e) /\ w' = IF Commits(x) THEN e' ELSE w
      /\ UNCHANGED <<r, pc, i, c, dst, target>>
  BY <1>1, Indices, Zenon DEF Key, Timely, NoRace
<1>4. m \in Nat /\ n \in Nat /\ m + n = Ahead(e, r) /\ m + n < INPUT_BUF /\ m + n + 1 < UintSize + 1
  BY <1>1, <1>2, <1>3 DEF Order, Ahead, Uints
<1>5. Commits(x) <=> x \in {NL, EOT} \/ m + n + 1 = INPUT_BUF
  <2>1. uint(e + 1) = Succ(e) /\ uint(r + INPUT_BUF) = Pos(r, INPUT_BUF)
    BY <1>1, <1>2, Indices, Steps
  <2>2. Succ(e) = Pos(r, INPUT_BUF) <=> Ahead(e, r) + 1 = INPUT_BUF
    BY <1>2, <1>3, SMTT(60) DEF Succ, Pos, Ahead, Uints
  <2> QED  BY <1>4, <2>1, <2>2, SMTT(60) DEF Commits
<1>6. /\ buf' \in Buffer /\ buf'[e % INPUT_BUF] = x
      /\ \A p \in Uints : Ahead(e, p) > 0 /\ Ahead(e, p) < INPUT_BUF => At(p)' = At(p)
  <2>1. buf' \in Buffer /\ buf'[e % INPUT_BUF] = x
    <3>1. e % INPUT_BUF \in 0..(INPUT_BUF - 1)
      BY <1>2 DEF Uints
    <3> QED  BY <1>1, <1>3, <3>1 DEF Buffer
  <2>2. ASSUME NEW p \in Uints, Ahead(e, p) > 0, Ahead(e, p) < INPUT_BUF PROVE buf'[p % INPUT_BUF] = buf[p % INPUT_BUF]
    <3>1. e % INPUT_BUF # p % INPUT_BUF
      BY <1>2, <2>2, Places
    <3> QED  BY <1>1, <1>3, <3>1 DEF Buffer
  <2> QED  BY <2>1, <2>2, ZenonT(60) DEF At
<1>7. /\ Text(buf', w, n) = Text(buf, w, n) /\ Text(buf', r, m) = Text(buf, r, m)
      /\ Text(buf', r, m + n) = Text(buf, r, m + n)
  <2>1. n < INPUT_BUF /\ m <= Ahead(e, r) /\ m + n <= Ahead(e, r) /\ m + n \in Nat
    BY <1>2, <1>4
  <2> HIDE DEF x
  <2>2. \A a \in Uints, l \in Nat : l <= Ahead(e, a) /\ Ahead(e, a) < INPUT_BUF
          => Text(buf', a, l) = Text(buf, a, l)
    <3>1. buf \in Buffer /\ x \in Char /\ e \in Uints /\ buf' = [buf EXCEPT ![e % INPUT_BUF] = x]
      BY <1>1, <1>2, <1>3
    <3> QED  BY <3>1, TextFrame, ZenonT(60)
  <2> HIDE DEF m, n
  <2>3. n <= Ahead(e, w) /\ Ahead(e, w) < INPUT_BUF /\ n \in Nat /\ m \in Nat
    BY <1>2, <1>4, <2>1 DEF n
  <2>4. Text(buf', w, n) = Text(buf, w, n)
    BY <1>2, <2>2, <2>3
  <2>5. Text(buf', r, m) = Text(buf, r, m) /\ Text(buf', r, m + n) = Text(buf, r, m + n)
    BY <1>2, <1>3, <2>1, <2>2, <2>3, ZenonT(60)
  <2> QED  BY <2>4, <2>5
<1>8. /\ Chars(w, e) = Text(buf, w, n) /\ Len(Chars(w, e)) = n
      /\ Chars(r, w) = Text(buf, r, m) /\ Len(Chars(r, w)) = m
      /\ Chars(w, e)' = Text(buf', w', Ahead(e', w')) /\ Chars(r, w)' = Text(buf', r, Ahead(w', r))
  BY <1>1, <1>3, View, ViewNext, ZenonT(60)
<1>9. pc \in {"load", "taken"} => At(i)' = At(i)
  <2> SUFFICES ASSUME pc \in {"load", "taken"} PROVE At(i)' = At(i)
    OBVIOUS
  <2>1. Ahead(e, i) > 0 /\ Ahead(e, i) < INPUT_BUF
    BY <1>1, <1>2, <1>3 DEF Order, Ahead, Pred, Uints
  <2> QED  BY <1>2, <1>3, <1>6, <2>1 DEF At
<1>10. (IF pc = "load" THEN At(i) ELSE c)' = (IF pc = "load" THEN At(i) ELSE c)
  BY <1>3, <1>9
<1> HIDE DEF x
<1>11. CASE Commits(x)
  <2>1. w' = e' /\ Ahead(e', w') = 0 /\ Ahead(w', r) = m + n + 1 /\ e' \in Uints
    BY <1>2, <1>3, <1>4, <1>11 DEF Ahead, Succ, Uints
  <2>2. Chars(w, e)' = <<>>
    <3>1. Text(buf', w', 0) \in Seq(Char) /\ Len(Text(buf', w', 0)) = 0
      BY <1>2, <1>6, <2>1, TextType
    <3> QED  BY <1>8, <2>1, <3>1
  <2>3. Pos(r, m) = w /\ Pos(r, m + n) = e
    <3>1. m \in 0..UintSize /\ m + n \in 0..UintSize
      BY <1>2, <1>4
    <3> QED  BY <1>2, <1>4, <3>1, Steps
  <2>4. Text(buf, r, m) \o Text(buf, w, n) = Text(buf, r, m + n)
    <3>1. m + n < UintSize
      BY <1>2, <1>4
    <3>2. Text(buf, r, m) \o Text(buf, Pos(r, m), n) = Text(buf, r, m + n)
      BY <1>1, <1>2, <1>4, <3>1, TextConcat, ZenonT(60)
    <3> QED  BY <2>3, <3>2
  <2>5. Text(buf', r, m + n + 1) = Append(Text(buf', r, m + n), x)
    <3>1. m + n \in 0..(UintSize - 1)
      BY <1>2, <1>4
    <3>2. Text(buf', r, m + n + 1) = Append(Text(buf', r, m + n), buf'[Pos(r, m + n) % INPUT_BUF])
      BY <1>2, <1>6, <3>1, TextAppend, Zenon
    <3> QED  BY <1>6, <2>3, <3>2
  <2>6. Chars(r, w)' = Append(Chars(r, w) \o Chars(w, e), x)
    BY <1>7, <1>8, <2>1, <2>4, <2>5, ZenonT(60)
  <2>7. LineInv'
    <3>1. \A p \in Uints : ~(Ahead(p, w') < 0)
      <4>1. w' \in Uints
        BY <2>1
      <4>2. \A p, q \in Uints : ~(Ahead(p, q) < 0)
        BY <1>2 DEF Ahead, Uints
      <4> QED  BY <4>1, <4>2
    <3>2. pc' = "taken" => c' = At(i)'
      BY <1>3, <1>9 DEF LineInv
    <3>3. Ahead(e, w)' = 0 /\ \A p \in Uints : Ahead(p, w)' = Ahead(p, w')
      BY <2>1, SMTT(60) DEF Ahead
    <3> QED  BY <3>1, <3>2, <3>3 DEF LineInv
  <2>8. LD!Type(x)
    BY <1>3, <1>4, <1>5, <1>8, <1>10, <1>11, <2>2, <2>6, ZenonT(60) DEF LD!Type, LD!Pending
  <2> QED  BY <1>1, <2>7, <2>8
<1>12. CASE ~Commits(x)
  <2>1. w' = w /\ Ahead(e', w') = n + 1
    BY <1>2, <1>3, <1>4, <1>12 DEF Ahead, Succ, Uints
  <2>2. Chars(r, w)' = Chars(r, w)
    BY <1>7, <1>8, <2>1
  <2>3. Text(buf', w, n + 1) = Append(Text(buf', w, n), x)
    <3>1. n \in 0..(UintSize - 1) /\ n \in 0..UintSize
      BY <1>2, <1>4
    <3>2. Text(buf', w, n + 1) = Append(Text(buf', w, n), buf'[Pos(w, n) % INPUT_BUF])
      BY <1>2, <1>6, <3>1, TextAppend, Zenon
    <3>3. Pos(w, n) = e
      BY <1>2, <3>1, Steps
    <3> QED  BY <1>6, <3>2, <3>3
  <2>4. Chars(w, e)' = Append(Chars(w, e), x)
    BY <1>7, <1>8, <2>1, <2>3
  <2>5. LineInv'
    <3>1. ASSUME NEW p \in Uints, Ahead(p, w) < n + 1 PROVE At(p)' # NL
      <4>1. CASE Ahead(p, w) = n
        <5>1. p = e
          BY <1>2, <4>1 DEF Ahead, Uints
        <5> QED  BY <1>5, <1>6, <1>12, <5>1 DEF At
      <4>2. CASE Ahead(p, w) # n
        <5>1. Ahead(p, w) < n
          BY <1>2, <1>4, <3>1, <4>2 DEF Ahead, Uints
        <5>2. Ahead(e, p) > 0 /\ Ahead(e, p) < INPUT_BUF
          <6>1. n < INPUT_BUF
            BY <1>2, <1>4
          <6> QED  BY <1>2, <5>1, <6>1 DEF Ahead, Uints
        <5> QED  BY <1>6, <5>1, <5>2 DEF LineInv
      <4> QED  BY <4>1, <4>2
    <3>2. pc' = "taken" => c' = At(i)'
      BY <1>3, <1>9 DEF LineInv
    <3>3. Ahead(e, w)' = n + 1 /\ \A p \in Uints : Ahead(p, w)' = Ahead(p, w)
      BY <2>1, SMTT(60) DEF Ahead
    <3> QED  BY <3>1, <3>2, <3>3 DEF LineInv
  <2>6. LD!Type(x)
    BY <1>3, <1>4, <1>5, <1>8, <1>10, <1>12, <2>2, <2>4, Zenon DEF LD!Type, LD!Pending
  <2> QED  BY <1>1, <2>5, <2>6
<1> QED  BY <1>11, <1>12

\* Implements: the circular buffer with its indices is a line discipline, whatever the
\* sizes of the buffer, of uint and of the reads.
THEOREM RefinementCorrect ==
  ASSUME NoRace
  PROVE  Spec => Implements
<1>1. ConsoleInv /\ ConsoleInv' /\ LineInv /\ [Next]_vars => LineInv' /\ [LD!Next]_(LD!vars)
  <2> SUFFICES ASSUME ConsoleInv, ConsoleInv', LineInv, [Next]_vars
               PROVE  LineInv' /\ [LD!Next]_(LD!vars)
    OBVIOUS
  <2>1. CASE UNCHANGED vars
    BY <2>1 DEF vars, LineInv, LD!vars, Chars, At
  <2>2. CASE Backspace \/ KillLine
    BY <2>2, EditRefines DEF LD!Next
  <2>3. ASSUME NEW k \in Char \cup {CR}, Key(k) PROVE LineInv' /\ LD!Next
    BY <2>3, KeyRefines DEF LD!Next
  <2> QED
    BY <2>1, <2>2, <2>3, ReaderRefines DEF Next
<1>2. Spec => []ConsoleInv
  BY ConsoleCorrect
<1> QED
  BY <1>1, <1>2, InitRefines, PTL DEF Spec, Implements, LD!Spec
================================================================================
