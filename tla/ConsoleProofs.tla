---------------------------- MODULE ConsoleProofs ----------------------------
(***************************************************************************)
(* The text stays in its place, for every size of the screen and any texts *)
(* and keys; and the keys come out of the buffer as they went in, for      *)
(* every size of the buffer, as long as it is in its first lap.            *)
(***************************************************************************)
EXTENDS Console, TLAPS, SequenceTheorems, WellFoundedInduction

-----------------------------------------------------------------------------
(* Induction, for sets of numbers.                                         *)

LEMMA LessIsWellFounded == IsWellFoundedOn({r \in Nat \X Nat : r[1] < r[2]}, Nat)
<1>1. IsWellFoundedOn(OpToRel(<, Nat), Nat)
  BY NatLessThanWellFounded, Zenon
<1>2. {r \in Nat \X Nat : r[1] < r[2]} = OpToRel(<, Nat)
  BY Zenon DEF OpToRel
<1> QED
  BY <1>1, <1>2, Zenon

LEMMA NatSetInduction ==
  ASSUME NEW T, 0 \in T, \A n \in Nat : n \in T => n + 1 \in T
  PROVE  Nat \subseteq T
<1> SUFFICES ASSUME Nat \ T # {} PROVE FALSE
  OBVIOUS
<1>1. PICK x \in Nat \ T : \A y \in Nat \ T : ~ (<<y, x>> \in {r \in Nat \X Nat : r[1] < r[2]})
  BY LessIsWellFounded, WFMin, Zenon
<1>2. \A y \in Nat \ T : ~ (y < x)
  <2> TAKE y \in Nat \ T
  <2>1. <<y, x>> \in Nat \X Nat /\ <<y, x>>[1] = y /\ <<y, x>>[2] = x
    OBVIOUS
  <2> QED
    BY <1>1, <2>1
<1>3. x # 0 /\ x - 1 \in Nat /\ x - 1 < x /\ (x - 1) + 1 = x
  OBVIOUS
<1>4. x - 1 \in T
  BY <1>2, <1>3
<1> QED
  BY <1>3, <1>4
-----------------------------------------------------------------------------
(* The characters of a text, one after the other.                          *)

\* FoldLeft, as the library folds over sets, printing text from c on.
IsFold(f, c, text, n) ==
  f = [s \in SUBSET (1 .. n) |->
         IF s = {} THEN c ELSE printc(f[s \ {Max(s)}], text[Max(s)])]

LEMMA MaxIs ==
  ASSUME NEW s, s \subseteq Nat, NEW x \in s, \A y \in s : y <= x
  PROVE  Max(s) = x
<1>1. x \in s /\ \A y \in s : x >= y
  OBVIOUS
<1>2. Max(s) \in s /\ \A y \in s : Max(s) >= y
  BY <1>1, Zenon DEF Max
<1>3. Max(s) >= x /\ x >= Max(s) /\ x \in Nat /\ Max(s) \in Nat
  BY <1>1, <1>2
<1> QED
  BY <1>3

LEMMA FoldExists ==
  ASSUME NEW c, NEW text, NEW n \in Nat
  PROVE  \E f : IsFold(f, c, text, n)
<1> DEFINE T == {k \in Nat : \E f : IsFold(f, c, text, k)}
<1>1. 0 \in T
  <2>1. 1 .. 0 = {} /\ SUBSET {} = {{}}
    OBVIOUS
  <2>2. PICK f : f = [s \in SUBSET (1 .. 0) |-> c]
    OBVIOUS
  <2>3. f = [s \in SUBSET (1 .. 0) |-> IF s = {} THEN c ELSE printc(f[s \ {Max(s)}], text[Max(s)])]
    BY <2>1, <2>2, Zenon
  <2> QED
    BY <2>3, Zenon DEF IsFold
<1>2. ASSUME NEW k \in Nat, k \in T PROVE k + 1 \in T
  <2>1. PICK f : IsFold(f, c, text, k)
    BY <1>2
  <2>2. PICK g : g = [s \in SUBSET (1 .. k + 1) |->
                        IF k + 1 \in s THEN printc(f[s \ {k + 1}], text[k + 1]) ELSE f[s]]
    OBVIOUS
  <2>3. ASSUME NEW s \in SUBSET (1 .. k + 1)
        PROVE  g[s] = IF s = {} THEN c ELSE printc(g[s \ {Max(s)}], text[Max(s)])
    <3>1. CASE k + 1 \in s
      <4>1. Max(s) = k + 1
        <5>1. s \subseteq Nat /\ \A y \in s : y <= k + 1
          OBVIOUS
        <5> QED
          BY <3>1, <5>1, MaxIs
      <4>2. s \ {k + 1} \in SUBSET (1 .. k + 1) /\ k + 1 \notin s \ {k + 1}
        OBVIOUS
      <4>3. g[s] = printc(f[s \ {k + 1}], text[k + 1]) /\ g[s \ {k + 1}] = f[s \ {k + 1}]
        BY <2>2, <3>1, <4>2, Zenon
      <4> QED
        BY <3>1, <4>1, <4>3, Zenon
    <3>2. CASE k + 1 \notin s
      <4>1. s \in SUBSET (1 .. k)
        BY <3>2
      <4>2. g[s] = f[s]
        BY <2>2, <3>2, Zenon
      <4>3. f[s] = IF s = {} THEN c ELSE printc(f[s \ {Max(s)}], text[Max(s)])
        BY <2>1, <4>1, Zenon DEF IsFold
      <4>4. s \ {Max(s)} \in SUBSET (1 .. k + 1) /\ k + 1 \notin s \ {Max(s)}
        BY <3>2, Zenon
      <4>5. g[s \ {Max(s)}] = f[s \ {Max(s)}]
        BY <2>2, <4>4, Zenon
      <4> QED
        BY <4>2, <4>3, <4>5, Zenon
    <3> QED
      BY <3>1, <3>2
  <2>4. g = [s \in SUBSET (1 .. k + 1) |->
               IF s = {} THEN c ELSE printc(g[s \ {Max(s)}], text[Max(s)])]
    <3>1. g = [s \in SUBSET (1 .. k + 1) |-> g[s]]
      BY <2>2, Zenon
    <3> QED
      BY <2>3, <3>1, Zenon
  <2>5. IsFold(g, c, text, k + 1)
    BY <2>4, Zenon DEF IsFold
  <2> QED
    BY <2>5
<1>3. Nat \subseteq T
  <2> HIDE DEF T
  <2> QED
    BY <1>1, <1>2, NatSetInduction
<1> QED
  BY <1>3

PrintAll(c, text) == FoldLeft(printc, c, text)

\* The consoles on the way from c, one for every number of characters.
IsPrinting(shown, c, text) ==
  /\ shown[0] = c /\ PrintAll(c, text) = shown[Len(text)]
  /\ \A i \in 1 .. Len(text) : shown[i] = printc(shown[i - 1], text[i])

\* What a text does to the console, character by character.
LEMMA CharacterByCharacter ==
  ASSUME NEW c, NEW S, NEW text \in Seq(S)
  PROVE  \E shown : IsPrinting(shown, c, text)
<1>1. PICK n \in Nat : n = Len(text) /\ DOMAIN text = 1 .. n
  OBVIOUS
<1>2. PICK f : f = CHOOSE g : IsFold(g, c, text, n)
  OBVIOUS
<1>3. IsFold(f, c, text, n)
  BY <1>2, FoldExists, Zenon
<1>4. FoldLeft(printc, c, text) = f[1 .. n]
  <2>1. f = CHOOSE g : g = [s \in SUBSET (DOMAIN text) |->
                              IF s = {} THEN c ELSE printc(g[s \ {Max(s)}], text[Max(s)])]
    BY <1>1, <1>2, Zenon DEF IsFold
  <2>2. FoldLeft(printc, c, text) = f[DOMAIN text]
    BY <2>1, Zenon DEF FoldLeft, MapThenFoldSet
  <2> QED
    BY <1>1, <2>2, Zenon
<1>5. PICK shown : shown = [i \in 0 .. n |-> f[1 .. i]]
  OBVIOUS
<1>6. f[{}] = c
  <2>1. {} \in SUBSET (1 .. n)
    OBVIOUS
  <2> QED
    BY <1>3, <2>1, Zenon DEF IsFold
<1>7. shown[0] = c /\ shown[n] = f[1 .. n]
  <2>1. 1 .. 0 = {} /\ 0 \in 0 .. n /\ n \in 0 .. n
    OBVIOUS
  <2>2. shown[0] = f[1 .. 0] /\ shown[n] = f[1 .. n]
    BY <1>5, <2>1, Zenon
  <2> QED
    BY <1>6, <2>1, <2>2, Zenon
<1>8. ASSUME NEW i \in 1 .. n PROVE shown[i] = printc(shown[i - 1], text[i])
  <2>1. 1 .. i \in SUBSET (1 .. n) /\ 1 .. i # {} /\ i \in 0 .. n /\ i - 1 \in 0 .. n
    <3>1. i \in Nat /\ 1 <= i /\ i <= n /\ i \in 1 .. i /\ i \in 0 .. n /\ i - 1 \in 0 .. n
      OBVIOUS
    <3>2. \A y \in 1 .. i : y \in 1 .. n
      BY <3>1
    <3> QED
      BY <3>1, <3>2, Zenon
  <2>2. Max(1 .. i) = i
    <3>1. 1 .. i \subseteq Nat /\ i \in 1 .. i /\ \A y \in 1 .. i : y <= i
      OBVIOUS
    <3> QED
      BY <3>1, MaxIs
  <2>3. (1 .. i) \ {i} = 1 .. i - 1
    <3>1. i \in Int /\ i - 1 \in Int
      OBVIOUS
    <3>2. ASSUME NEW y \in (1 .. i) \ {i} PROVE y \in 1 .. i - 1
      BY <3>1
    <3>3. ASSUME NEW y \in 1 .. i - 1 PROVE y \in (1 .. i) \ {i}
      BY <3>1
    <3> QED
      BY <3>2, <3>3, Zenon
  <2>4. f[1 .. i] = printc(f[(1 .. i) \ {Max(1 .. i)}], text[Max(1 .. i)])
    BY <1>3, <2>1, Zenon DEF IsFold
  <2>5. shown[i] = f[1 .. i] /\ shown[i - 1] = f[1 .. i - 1]
    BY <1>5, <2>1, Zenon
  <2> QED
    BY <2>2, <2>3, <2>4, <2>5, Zenon
<1> QED
  <2>1. PrintAll(c, text) = f[1 .. n]
    BY <1>4 DEF PrintAll
  <2>2. PrintAll(c, text) = shown[Len(text)]
    BY <1>1, <1>7, <2>1
  <2> QED
    BY <1>1, <1>7, <1>8, <2>2, Zenon DEF IsPrinting

-----------------------------------------------------------------------------
(* The cursor and the screen.                                              *)

Characters == UNION {Range(text) : text \in Texts \cup {IdleText}}
Shown      == Characters \cup Keys \cup {" ", "C"}
Cells      == 0 .. NUM_COLUMNS * NUM_ROWS - 1
Consoles   == [x : 0 .. NUM_COLUMNS - 1, y : 0 .. NUM_ROWS - 1, screen : [Cells -> Shown]]

\* Under the cursor c the characters of w since the last new line, the m-th
\* character, are where they belong.
Placed(c, w, m) ==
  /\ m \in 0 .. Len(w) /\ (m # 0 => w[m] = NL)
  /\ \A j \in m + 1 .. Len(w) : w[j] # NL
  /\ c.x = (Len(w) - m) % NUM_COLUMNS
  /\ \A i \in 1 .. c.x : Cell(c) - i # 0 => c.screen[Cell(c) - i] = w[Len(w) + 1 - i]

InPlace(c, w) == c \in Consoles /\ w \in Seq(Characters) /\ \E m \in Nat : Placed(c, w, m)

LEMMA Sizes ==
  /\ NUM_COLUMNS \in Nat /\ NUM_COLUMNS > 1 /\ NUM_ROWS \in Nat /\ NUM_ROWS > 0
  /\ NUM_COLUMNS * NUM_ROWS \in Nat /\ 0 \in Cells
<1>1. NUM_COLUMNS \in Nat /\ NUM_COLUMNS > 1 /\ NUM_ROWS \in Nat /\ NUM_ROWS > 0
  BY ConsoleAssumption
<1>2. NUM_COLUMNS * NUM_ROWS \in Nat /\ NUM_COLUMNS * NUM_ROWS > 0
  BY <1>1, SMTT(30)
<1> QED
  BY <1>1, <1>2 DEF Cells

LEMMA InRows ==
  ASSUME NEW r \in Nat, NEW rows \in Nat, NEW cols \in Nat, r + 1 <= rows
  PROVE  r * cols \in Nat /\ r * cols + cols <= cols * rows
<1>1. (r + 1) * cols <= rows * cols
  BY SMTT(30)
<1>2. (r + 1) * cols = r * cols + cols /\ rows * cols = cols * rows /\ r * cols \in Nat
  BY SMTT(30)
<1> QED
  BY <1>1, <1>2

LEMMA CellOnScreen ==
  ASSUME NEW c \in Consoles
  PROVE  Cell(c) \in Cells /\ c.y * NUM_COLUMNS \in Nat /\ c.x \in Nat /\ c.y \in Nat
<1>1. /\ c.x \in Nat /\ c.x <= NUM_COLUMNS - 1 /\ c.y \in Nat /\ c.y + 1 <= NUM_ROWS
  BY Sizes DEF Consoles
<1>2. c.y * NUM_COLUMNS \in Nat /\ c.y * NUM_COLUMNS + NUM_COLUMNS <= NUM_COLUMNS * NUM_ROWS
  BY <1>1, Sizes, InRows
<1> QED
  BY <1>1, <1>2, Sizes DEF Cell, Cells

\* The new line after n characters, at the end of a row.
LEMMA Remainder ==
  ASSUME NEW cols \in Nat, cols > 0, NEW n \in Nat
  PROVE  /\ n % cols \in 0 .. cols - 1 /\ n % cols <= n
         /\ (n % cols) + 1 < cols => (n + 1) % cols = (n % cols) + 1
         /\ (n % cols) + 1 = cols => (n + 1) % cols = 0
<1>1. PICK r \in 0 .. cols - 1, d \in Nat : r = n % cols /\ d = n \div cols /\ n = cols * d + r
  BY SMTT(30)
<1>2. CASE r + 1 < cols
  <2>1. n + 1 = cols * d + (r + 1)
    BY <1>1, SMTT(30)
  <2>2. (n + 1) % cols = r + 1
    BY <1>1, <1>2, <2>1, SMTT(30)
  <2> QED
    BY <1>1, <1>2, <2>2, SMTT(30)
<1>3. CASE r + 1 = cols
  <2>1. PICK e \in Nat : e = d + 1
    BY <1>1
  <2>2. cols * (d + 1) = cols * d + cols
    BY <1>1, SMTT(30)
  <2>3. n + 1 = cols * e
    BY <1>1, <1>3, <2>1, <2>2, SMTT(30)
  <2>4. (cols * e) % cols = 0
    BY <2>1, SMTT(30)
  <2>5. (n + 1) % cols = 0
    BY <2>3, <2>4
  <2> QED
    BY <1>1, <1>3, <2>5, SMTT(30)
<1> QED
  BY <1>1, <1>2, <1>3, SMTT(30)

LEMMA NextColumn ==
  ASSUME NEW n \in Nat
  PROVE  /\ n % NUM_COLUMNS \in 0 .. NUM_COLUMNS - 1
         /\ (n + 1) % NUM_COLUMNS = IF (n % NUM_COLUMNS) + 1 >= NUM_COLUMNS
                                      THEN 0 ELSE (n % NUM_COLUMNS) + 1
         /\ 0 % NUM_COLUMNS = 0
<1>1. PICK r : r = n % NUM_COLUMNS
  OBVIOUS
<1>2. /\ r \in 0 .. NUM_COLUMNS - 1
      /\ r + 1 < NUM_COLUMNS => (n + 1) % NUM_COLUMNS = r + 1
      /\ r + 1 = NUM_COLUMNS => (n + 1) % NUM_COLUMNS = 0
  <2>1. NUM_COLUMNS \in Nat /\ NUM_COLUMNS > 0
    BY Sizes
  <2>2. /\ n % NUM_COLUMNS \in 0 .. NUM_COLUMNS - 1 /\ n % NUM_COLUMNS <= n
        /\ (n % NUM_COLUMNS) + 1 < NUM_COLUMNS => (n + 1) % NUM_COLUMNS = (n % NUM_COLUMNS) + 1
        /\ (n % NUM_COLUMNS) + 1 = NUM_COLUMNS => (n + 1) % NUM_COLUMNS = 0
    BY <2>1, Remainder, Zenon
  <2> QED
    BY <1>1, <2>2, Zenon
<1>3. 0 % NUM_COLUMNS = 0
  BY Sizes, Remainder
<1>4. (n + 1) % NUM_COLUMNS = IF r + 1 >= NUM_COLUMNS THEN 0 ELSE r + 1
  <2>1. r + 1 >= NUM_COLUMNS <=> r + 1 = NUM_COLUMNS
    BY <1>2, Sizes
  <2>2. r + 1 < NUM_COLUMNS <=> ~(r + 1 >= NUM_COLUMNS)
    BY <1>2, Sizes
  <2> QED
    BY <1>2, <2>1, <2>2
<1> QED
  BY <1>1, <1>2, <1>3, <1>4

LEMMA RowAfter ==
  ASSUME NEW n \in Nat
  PROVE  n % NUM_ROWS \in 0 .. NUM_ROWS - 1
  BY Sizes, SMTT(30)

LEMMA Moves ==
  ASSUME NEW c \in Consoles
  PROVE  /\ NewLine(c) \in Consoles /\ NewLine(c).x = 0 /\ NewLine(c).screen = c.screen
         /\ Advance(c) \in Consoles /\ Advance(c).screen = c.screen
         /\ c.x + 1 >= NUM_COLUMNS => Advance(c).x = 0
         /\ c.x + 1 < NUM_COLUMNS => Advance(c).x = c.x + 1 /\ Advance(c).y = c.y
<1>1. PICK row : row = (c.y + 1) % NUM_ROWS
  OBVIOUS
<1>2. /\ c.x \in Nat /\ c.y \in Nat /\ c.x < NUM_COLUMNS
      /\ 0 \in 0 .. NUM_COLUMNS - 1 /\ c.y + 1 \in Nat
  BY Sizes DEF Consoles
<1>3. row \in 0 .. NUM_ROWS - 1
  BY <1>1, <1>2, RowAfter
<1>4. NewLine(c) = [c EXCEPT !.x = 0, !.y = row]
  BY <1>1 DEF NewLine
<1>5. NewLine(c) \in Consoles /\ NewLine(c).x = 0 /\ NewLine(c).screen = c.screen
  BY <1>2, <1>3, <1>4 DEF Consoles
<1>6. CASE c.x + 1 >= NUM_COLUMNS
  BY <1>2, <1>5, <1>6, Sizes DEF Advance
<1>7. CASE c.x + 1 < NUM_COLUMNS
  <2>1. Advance(c) = [c EXCEPT !.x = c.x + 1]
    BY <1>2, <1>7, Sizes DEF Advance
  <2>2. c.x + 1 \in 0 .. NUM_COLUMNS - 1
    BY <1>2, <1>7, Sizes
  <2> QED
    BY <1>2, <1>5, <1>7, <2>1, <2>2, Sizes DEF Consoles
<1> QED
  BY <1>2, <1>5, <1>6, <1>7, Sizes

LEMMA Stored ==
  ASSUME NEW c \in Consoles, NEW k \in Cells, NEW ch \in Shown
  PROVE  /\ Store(c, k, ch) \in Consoles
         /\ Store(c, k, ch).x = c.x /\ Store(c, k, ch).y = c.y
         /\ Cell(Store(c, k, ch)) = Cell(c)
         /\ \A j \in Cells : Store(c, k, ch).screen[j] = IF j = k THEN ch ELSE c.screen[j]
<1>1. c.screen \in [Cells -> Shown]
  BY DEF Consoles
<1>2. [c.screen EXCEPT ![k] = ch] \in [Cells -> Shown]
  BY <1>1
<1>3. Store(c, k, ch) = [c EXCEPT !.screen = [c.screen EXCEPT ![k] = ch]]
  BY DEF Store
<1>4. Store(c, k, ch).screen = [c.screen EXCEPT ![k] = ch]
  BY <1>3 DEF Consoles
<1>5. Store(c, k, ch) \in Consoles
  BY <1>2, <1>3, Zenon DEF Consoles
<1>6. Store(c, k, ch).x = c.x /\ Store(c, k, ch).y = c.y
  BY <1>3 DEF Consoles
<1> QED
  BY <1>1, <1>4, <1>5, <1>6 DEF Cell

\* A character goes where it belongs and nothing else moves.
LEMMA CharacterPrinted ==
  ASSUME NEW c, NEW w, InPlace(c, w), NEW ch \in Characters
  PROVE  InPlace(printc(c, ch), Append(w, ch))
<1>1. PICK m \in Nat : Placed(c, w, m)
  BY DEF InPlace
<1>2. c \in Consoles /\ w \in Seq(Characters) /\ Len(w) \in Nat
  BY DEF InPlace
<1>3. PICK v \in Seq(Characters) :
        /\ v = Append(w, ch) /\ Len(v) = Len(w) + 1 /\ v[Len(w) + 1] = ch
        /\ \A j \in 1 .. Len(w) : v[j] = w[j]
  <2>1. PICK S : S = Characters
    OBVIOUS
  <2>2. w \in Seq(S) /\ ch \in S
    BY <1>2, <2>1, Zenon
  <2>3. Append(w, ch) \in Seq(S) /\ Len(Append(w, ch)) = Len(w) + 1
    BY <2>2
  <2>4. Append(w, ch)[Len(w) + 1] = ch
    BY <2>2
  <2>5. \A j \in 1 .. Len(w) : Append(w, ch)[j] = w[j]
    BY <2>2
  <2> QED
    BY <2>1, <2>3, <2>4, <2>5, Zenon
<1>4. m <= Len(w) /\ (m # 0 => v[m] = NL) /\ \A j \in m + 1 .. Len(w) : v[j] # NL
  BY <1>1, <1>2, <1>3 DEF Placed
<1>5. CASE ch = NL
  <2>1. printc(c, ch) = NewLine(c)
    BY <1>5 DEF printc
  <2>2. NewLine(c) \in Consoles /\ NewLine(c).x = 0
    BY <1>2, Moves
  <2>3. Placed(NewLine(c), v, Len(v))
    <3>1. /\ Len(v) \in 0 .. Len(v) /\ v[Len(v)] = NL /\ Len(v) - Len(v) = 0
          /\ Len(v) + 1 .. Len(v) = {} /\ 1 .. 0 = {}
      BY <1>2, <1>3, <1>5
    <3>2. 0 % NUM_COLUMNS = 0
      BY NextColumn
    <3> QED
      BY <2>2, <3>1, <3>2, Zenon DEF Placed
  <2> QED
    BY <1>2, <1>3, <2>1, <2>2, <2>3 DEF InPlace
<1>6. CASE ch # NL
  <2>1. PICK a \in Consoles :
          /\ a = Advance(c) /\ a.screen = c.screen
          /\ c.x + 1 >= NUM_COLUMNS => a.x = 0
          /\ c.x + 1 < NUM_COLUMNS => a.x = c.x + 1 /\ a.y = c.y
    BY <1>2, Moves
  <2>2. Cell(c) \in Cells /\ Cell(a) \in Cells /\ c.x \in Nat /\ a.x \in Nat /\ c.x < NUM_COLUMNS
    BY <1>2, <2>1, CellOnScreen, Sizes DEF Consoles
  <2>3. PICK d \in Consoles :
          /\ d = Store(a, Cell(c), ch) /\ d.x = a.x /\ Cell(d) = Cell(a)
          /\ \A j \in Cells : d.screen[j] = IF j = Cell(c) THEN ch ELSE c.screen[j]
    <3>1. ch \in Shown
      BY DEF Shown
    <3>2. /\ Store(a, Cell(c), ch) \in Consoles /\ Store(a, Cell(c), ch).x = a.x
          /\ Cell(Store(a, Cell(c), ch)) = Cell(a)
          /\ \A j \in Cells : Store(a, Cell(c), ch).screen[j]
                                = IF j = Cell(c) THEN ch ELSE a.screen[j]
      <4>1. Cell(c) \in Cells
        BY <2>2
      <4> QED
        BY <3>1, <4>1, Stored
    <3> QED
      BY <2>1, <3>2, Zenon
  <2>4. printc(c, ch) = d
    BY <1>6, <2>1, <2>3 DEF printc
  <2>5. d.x = (Len(v) - m) % NUM_COLUMNS
    <3>1. Len(w) - m \in Nat /\ Len(v) - m = (Len(w) - m) + 1 /\ c.x = (Len(w) - m) % NUM_COLUMNS
      BY <1>1, <1>2, <1>3, <1>4 DEF Placed
    <3>2. (Len(v) - m) % NUM_COLUMNS = IF c.x + 1 >= NUM_COLUMNS THEN 0 ELSE c.x + 1
      BY <3>1, NextColumn
    <3> QED
      BY <2>1, <2>2, <2>3, <3>2, Sizes
  <2>6. ASSUME NEW i \in 1 .. d.x, Cell(d) - i # 0
        PROVE  d.screen[Cell(d) - i] = v[Len(v) + 1 - i]
    <3>1. c.x + 1 < NUM_COLUMNS /\ d.x = c.x + 1 /\ a.y = c.y
      BY <2>1, <2>2, <2>3, Sizes
    <3>2. Cell(d) = Cell(c) + 1 /\ Cell(c) - c.x \in Nat
      <4>1. PICK row \in Nat : row = c.y * NUM_COLUMNS
        BY <1>2, CellOnScreen
      <4>2. Cell(c) = row + c.x
        BY <4>1 DEF Cell
      <4>3. Cell(a) = row + (c.x + 1)
        BY <2>3, <3>1, <4>1 DEF Cell
      <4> QED
        BY <2>2, <2>3, <4>1, <4>2, <4>3
    <3>3. CASE i = 1
      BY <1>2, <1>3, <2>2, <2>3, <3>2, <3>3 DEF Cells
    <3>4. CASE i # 1
      <4>1. PICK e : e = i - 1
        OBVIOUS
      <4>2. /\ e \in 1 .. c.x /\ Cell(d) - i = Cell(c) - e /\ Cell(c) - e # Cell(c)
            /\ Cell(c) - e \in Cells /\ Cell(c) - e # 0 /\ Len(v) + 1 - i = Len(w) + 1 - e
        <5>1. i \in Nat /\ i >= 2 /\ i <= c.x + 1 /\ e \in Nat
          BY <2>2, <3>1, <3>4, <4>1
        <5>2. e \in 1 .. c.x /\ Cell(c) \in Nat /\ Cell(d) - i = Cell(c) - e
          <6>1. Cell(c) \in Nat
            BY <2>2, Sizes DEF Cells
          <6>2. e \in 1 .. c.x
            BY <2>2, <4>1, <5>1
          <6> QED
            BY <3>2, <4>1, <5>1, <6>1, <6>2
        <5>3. Cell(c) - e \in Nat /\ Cell(c) - e <= Cell(c) /\ Cell(c) - e # Cell(c)
          BY <2>2, <3>2, <5>2
        <5>4. Cell(c) - e \in Cells
          BY <2>2, <5>2, <5>3, Sizes DEF Cells
        <5>5. Len(v) + 1 - i = Len(w) + 1 - e
          BY <1>2, <1>3, <4>1, <5>1
        <5> QED
          BY <2>6, <5>2, <5>3, <5>4, <5>5
      <4>3. c.screen[Cell(c) - e] = w[Len(w) + 1 - e]
        BY <1>1, <4>2 DEF Placed
      <4>4. Len(w) + 1 - e \in 1 .. Len(w)
        <5>1. c.x <= Len(w)
          <6>1. c.x = (Len(w) - m) % NUM_COLUMNS /\ Len(w) - m \in Nat
            BY <1>1, <1>2, <1>4 DEF Placed
          <6>2. (Len(w) - m) % NUM_COLUMNS <= Len(w) - m
            BY <6>1, Sizes, Remainder
          <6> QED
            BY <1>2, <1>4, <2>2, <6>1, <6>2
        <5> QED
          BY <1>2, <2>2, <4>2, <5>1
      <4> QED
        BY <1>3, <2>3, <4>2, <4>3, <4>4
    <3> QED
      BY <3>3, <3>4
  <2>7. Placed(d, v, m)
    <3>1. m \in 0 .. Len(v) /\ \A j \in m + 1 .. Len(v) : v[j] # NL
      BY <1>2, <1>3, <1>4, <1>6
    <3> QED
      BY <1>4, <2>5, <2>6, <3>1 DEF Placed
  <2> QED
    BY <1>3, <2>3, <2>4, <2>7 DEF InPlace
<1> QED
  BY <1>5, <1>6

LEMMA PrefixesOf ==
  ASSUME NEW S, NEW s \in Seq(S)
  PROVE  /\ SubSeq(s, 1, Len(s)) = s
         /\ \A n \in 0 .. Len(s) : SubSeq(s, 1, n) \in Seq(S) /\ Len(SubSeq(s, 1, n)) = n
         /\ \A n \in 0 .. Len(s) : \A i \in 1 .. n : SubSeq(s, 1, n)[i] = s[i]
         /\ \A n \in 0 .. Len(s) - 1 : SubSeq(s, 1, n + 1) = Append(SubSeq(s, 1, n), s[n + 1])
<1>1. ASSUME NEW n \in 0 .. Len(s)
      PROVE  /\ SubSeq(s, 1, n) \in Seq(S) /\ Len(SubSeq(s, 1, n)) = n
             /\ \A i \in 1 .. n : SubSeq(s, 1, n)[i] = s[i]
  <2>1. \A i \in 1 .. n : s[i] \in S
    OBVIOUS
  <2>2. /\ SubSeq(s, 1, n) \in Seq(S)
        /\ Len(SubSeq(s, 1, n)) = IF 1 <= n THEN n - 1 + 1 ELSE 0
        /\ \A i \in 1 .. n - 1 + 1 : SubSeq(s, 1, n)[i] = s[1 + i - 1]
    BY <2>1, SubSeqProperties
  <2> QED
    BY <2>2
<1>2. SubSeq(s, 1, Len(s)) = s
  <2>1. Len(s) \in 0 .. Len(s) /\ \A i \in 1 .. Len(s) : SubSeq(s, 1, Len(s))[i] = s[i]
    BY <1>1
  <2> QED
    BY <1>1, <2>1, SeqEqual
<1>3. ASSUME NEW n \in 0 .. Len(s) - 1
      PROVE  SubSeq(s, 1, n + 1) = Append(SubSeq(s, 1, n), s[n + 1])
  <2>1. PICK a : a = SubSeq(s, 1, n)
    OBVIOUS
  <2>2. PICK b : b = SubSeq(s, 1, n + 1)
    OBVIOUS
  <2>3. n \in 0 .. Len(s) /\ n + 1 \in 0 .. Len(s) /\ n + 1 \in 1 .. Len(s) /\ s[n + 1] \in S
    OBVIOUS
  <2>4. /\ a \in Seq(S) /\ Len(a) = n /\ \A i \in 1 .. n : a[i] = s[i]
        /\ b \in Seq(S) /\ Len(b) = n + 1 /\ \A i \in 1 .. n + 1 : b[i] = s[i]
    BY <1>1, <2>1, <2>2, <2>3
  <2>5. /\ Append(a, s[n + 1]) \in Seq(S) /\ Len(Append(a, s[n + 1])) = n + 1
        /\ \A i \in 1 .. n : Append(a, s[n + 1])[i] = s[i]
        /\ Append(a, s[n + 1])[n + 1] = s[n + 1]
    BY <2>3, <2>4, AppendProperties
  <2>6. \A i \in 1 .. n + 1 : Append(a, s[n + 1])[i] = b[i]
    BY <2>4, <2>5
  <2>7. b = Append(a, s[n + 1])
    BY <2>4, <2>5, <2>6, SeqEqual
  <2> QED
    BY <2>1, <2>2, <2>7
<1> QED
  BY <1>1, <1>2, <1>3

\* A text that is written at once.
LEMMA TextWritten ==
  ASSUME NEW c, NEW w, InPlace(c, w), NEW text \in Seq(Characters)
  PROVE  InPlace(PrintAll(c, text), w \o text)
<1>1. PICK shown : IsPrinting(shown, c, text)
  <2>1. PICK S : S = Characters
    OBVIOUS
  <2>2. text \in Seq(S)
    BY <2>1, Zenon
  <2> QED
    BY <2>2, CharacterByCharacter
<1>2. w \in Seq(Characters) /\ Len(w) \in Nat /\ Len(text) \in Nat
  BY DEF InPlace
<1>3. PICK u \in Seq(Characters) :
        /\ u = w \o text /\ Len(u) = Len(w) + Len(text)
        /\ \A i \in 1 .. Len(u) : u[i] = IF i <= Len(w) THEN w[i] ELSE text[i - Len(w)]
  <2>1. PICK S : S = Characters
    OBVIOUS
  <2>2. w \in Seq(S) /\ text \in Seq(S)
    BY <1>2, <2>1, Zenon
  <2>3. /\ w \o text \in Seq(S) /\ Len(w \o text) = Len(w) + Len(text)
        /\ \A i \in 1 .. Len(w) + Len(text) :
             (w \o text)[i] = IF i <= Len(w) THEN w[i] ELSE text[i - Len(w)]
    BY <2>2, ConcatProperties
  <2> QED
    BY <2>1, <2>3
<1>9. /\ SubSeq(u, 1, Len(u)) = u
      /\ \A n \in 0 .. Len(u) : SubSeq(u, 1, n) \in Seq(Characters) /\ Len(SubSeq(u, 1, n)) = n
      /\ \A n \in 0 .. Len(u) : \A i \in 1 .. n : SubSeq(u, 1, n)[i] = u[i]
      /\ \A n \in 0 .. Len(u) - 1 : SubSeq(u, 1, n + 1) = Append(SubSeq(u, 1, n), u[n + 1])
  BY PrefixesOf, Zenon
<1> DEFINE T == {i \in Nat : i <= Len(text) => InPlace(shown[i], SubSeq(u, 1, Len(w) + i))}
<1>4. 0 \in T
  <2>1. Len(w) \in 0 .. Len(u)
    BY <1>2, <1>3
  <2>2. /\ SubSeq(u, 1, Len(w)) \in Seq(Characters) /\ Len(SubSeq(u, 1, Len(w))) = Len(w)
        /\ \A i \in 1 .. Len(w) : SubSeq(u, 1, Len(w))[i] = u[i]
    BY <1>9, <2>1
  <2>3. \A i \in 1 .. Len(w) : SubSeq(u, 1, Len(w))[i] = w[i]
    BY <1>2, <1>3, <2>2
  <2>4. SubSeq(u, 1, Len(w)) = w
    BY <1>2, <2>2, <2>3, SeqEqual
  <2>5. Len(w) + 0 = Len(w)
    BY <1>2
  <2> QED
    BY <1>1, <2>4, <2>5 DEF IsPrinting
<1>5. ASSUME NEW i \in Nat, i \in T PROVE i + 1 \in T
  <2> SUFFICES ASSUME i + 1 <= Len(text)
               PROVE  InPlace(shown[i + 1], SubSeq(u, 1, Len(w) + (i + 1)))
    OBVIOUS
  <2>1. i <= Len(text) /\ i + 1 \in 1 .. Len(text) /\ (i + 1) - 1 = i
    BY <1>2
  <2>2. InPlace(shown[i], SubSeq(u, 1, Len(w) + i))
    BY <1>5, <2>1
  <2>3. text[i + 1] \in Characters
    BY <2>1, ElementOfSeq
  <2>4. shown[i + 1] = printc(shown[i], text[i + 1])
    BY <1>1, <2>1 DEF IsPrinting
  <2>5. u[Len(w) + i + 1] = text[i + 1]
    <3>1. /\ Len(w) + i + 1 \in 1 .. Len(u) /\ ~(Len(w) + i + 1 <= Len(w))
          /\ (Len(w) + i + 1) - Len(w) = i + 1
      BY <1>2, <1>3, <2>1
    <3> QED
      BY <1>3, <3>1
  <2>6. Len(w) + i \in 0 .. Len(u) - 1 /\ Len(w) + (i + 1) = Len(w) + i + 1
    BY <1>2, <1>3, <2>1
  <2>7. SubSeq(u, 1, Len(w) + (i + 1)) = Append(SubSeq(u, 1, Len(w) + i), text[i + 1])
    <3>1. SubSeq(u, 1, Len(w) + i + 1) = Append(SubSeq(u, 1, Len(w) + i), u[Len(w) + i + 1])
      BY <1>9, <2>6, Zenon
    <3> QED
      BY <2>5, <2>6, <3>1, Zenon
  <2>8. InPlace(printc(shown[i], text[i + 1]), Append(SubSeq(u, 1, Len(w) + i), text[i + 1]))
    BY <2>2, <2>3, CharacterPrinted
  <2> QED
    BY <2>4, <2>7, <2>8
<1>6. Nat \subseteq T
  <2> HIDE DEF T
  <2> QED
    BY <1>4, <1>5, NatSetInduction
<1>7. InPlace(shown[Len(text)], SubSeq(u, 1, Len(w) + Len(text)))
  BY <1>2, <1>6
<1>8. SubSeq(u, 1, Len(w) + Len(text)) = u
  BY <1>3, <1>9, Zenon
<1> QED
  BY <1>1, <1>3, <1>7, <1>8 DEF IsPrinting

-----------------------------------------------------------------------------
(* The echo at the top left.                                               *)

OffCorner(d, c) ==
  /\ d \in Consoles /\ d.x = c.x /\ d.y = c.y
  /\ \A k \in Cells \ {0} : d.screen[k] = c.screen[k]

LEMMA Echoed ==
  ASSUME NEW c \in Consoles, NEW ch \in Shown
  PROVE  OffCorner(printc_xy(c, 0, 0, ch), c)
<1>1. PICK b : b = [c EXCEPT !.x = 0, !.y = 0]
  OBVIOUS
<1>2. /\ b \in Consoles /\ b.x = 0 /\ b.y = 0 /\ b.screen = c.screen
      /\ c.x \in 0 .. NUM_COLUMNS - 1 /\ c.y \in 0 .. NUM_ROWS - 1
  <2>1. 0 \in 0 .. NUM_COLUMNS - 1 /\ 0 \in 0 .. NUM_ROWS - 1
    BY Sizes
  <2>2. c.x \in 0 .. NUM_COLUMNS - 1 /\ c.y \in 0 .. NUM_ROWS - 1
    BY DEF Consoles
  <2>3. b \in Consoles
    BY <1>1, <2>1, Zenon DEF Consoles
  <2>4. b.x = 0 /\ b.y = 0 /\ b.screen = c.screen
    BY <1>1 DEF Consoles
  <2> QED
    BY <2>2, <2>3, <2>4
<1>3. Cell(b) = 0
  <2>1. 0 * NUM_COLUMNS = 0
    BY Sizes, SMTT(30)
  <2> QED
    BY <1>2, <2>1 DEF Cell
<1>4. printc(b, ch) \in Consoles /\ \A k \in Cells \ {0} : printc(b, ch).screen[k] = c.screen[k]
  <2>1. CASE ch = NL
    BY <1>2, <2>1, Moves DEF printc
  <2>2. CASE ch # NL
    <3>1. PICK a \in Consoles : a = Advance(b) /\ a.screen = c.screen
      BY <1>2, Moves
    <3>2. /\ Store(a, 0, ch) \in Consoles
          /\ \A k \in Cells : Store(a, 0, ch).screen[k] = IF k = 0 THEN ch ELSE a.screen[k]
      BY <3>1, Sizes, Stored
    <3>3. printc(b, ch) = Store(a, 0, ch)
      BY <1>3, <2>2, <3>1 DEF printc
    <3> QED
      BY <3>1, <3>2, <3>3
  <2> QED
    BY <2>1, <2>2
<1>5. PICK e \in Consoles : e = printc(b, ch) /\ \A k \in Cells \ {0} : e.screen[k] = c.screen[k]
  BY <1>4
<1>6. printc_xy(c, 0, 0, ch) = [e EXCEPT !.x = c.x, !.y = c.y]
  BY <1>1, <1>5, Zenon DEF printc_xy
<1>7. PICK d : d = [e EXCEPT !.x = c.x, !.y = c.y]
  OBVIOUS
<1>8. d \in Consoles /\ d.x = c.x /\ d.y = c.y /\ d.screen = e.screen
  BY <1>2, <1>7 DEF Consoles
<1> QED
  BY <1>5, <1>6, <1>7, <1>8, Zenon DEF OffCorner

LEMMA CornerExempt ==
  ASSUME NEW c, NEW w, InPlace(c, w), NEW d, OffCorner(d, c)
  PROVE  InPlace(d, w)
<1>1. PICK m \in Nat : Placed(c, w, m)
  BY DEF InPlace
<1>2. /\ c \in Consoles /\ d \in Consoles /\ d.x = c.x /\ Cell(d) = Cell(c)
      /\ \A k \in Cells \ {0} : d.screen[k] = c.screen[k]
  BY DEF InPlace, OffCorner, Cell
<1>3. ASSUME NEW i \in 1 .. c.x, Cell(c) - i # 0
      PROVE  d.screen[Cell(c) - i] = c.screen[Cell(c) - i]
  <2>1. PICK row \in Nat : row = c.y * NUM_COLUMNS /\ Cell(c) = row + c.x /\ c.x \in Nat
    BY <1>2, CellOnScreen DEF Cell
  <2>2. Cell(c) - i \in Nat /\ Cell(c) - i <= Cell(c) /\ Cell(c) \in Cells
    BY <1>2, <2>1, CellOnScreen
  <2>3. Cell(c) - i \in Cells \ {0}
    BY <1>3, <2>2, Sizes DEF Cells
  <2> QED
    BY <1>2, <2>3
<1>4. Placed(d, w, m)
  BY <1>1, <1>2, <1>3 DEF Placed
<1> QED
  BY <1>2, <1>4 DEF InPlace


-----------------------------------------------------------------------------
(* The invariant.                                                          *)

\* The character that the idle task is about to print.
NextIdle == IdleText[printing.done + 1]

Printing ==
  /\ printing \in [done : 0 .. Len(IdleText), at : {"off", "address", "cursor", "store"}, cell : Cells]
  /\ printing.at \in {"cursor", "store"} => printing.done < Len(IdleText)

\* With the address computed it is the cursor's; with the cursor advanced, the
\* store that is still to come puts the character where it belongs.
ConsoleInv ==
  /\ Printing
  /\ printing.at # "store" => InPlace(console, written)
  /\ printing.at = "cursor" => printing.cell = Cell(console)
  /\ printing.at = "store" =>
       /\ console \in Consoles
       /\ InPlace(Store(console, printing.cell, NextIdle), Append(written, NextIdle))

LEMMA IdleCharacter ==
  ASSUME Printing, printing.done < Len(IdleText)
  PROVE  NextIdle \in Characters /\ NextIdle \in Shown /\ NextIdle # NL
<1>1. PICK S : S = Characters
  OBVIOUS
<1>2. IdleText \in Seq(S)
  BY <1>1, ConsoleAssumption DEF Characters
<1>3. PICK d \in 0 .. Len(IdleText) : d = printing.done
  BY DEF Printing
<1>4. d + 1 \in 1 .. Len(IdleText) /\ DOMAIN IdleText = 1 .. Len(IdleText)
  BY <1>2, <1>3
<1>5. IdleText[d + 1] \in S /\ IdleText[d + 1] # NL
  BY <1>2, <1>4, ConsoleAssumption
<1> QED
  BY <1>1, <1>3, <1>5 DEF NextIdle, Shown

LEMMA ConsoleInit == Init => ConsoleInv
<1> SUFFICES ASSUME Init PROVE ConsoleInv
  OBVIOUS
<1>1. Len(IdleText) \in Nat
  <2>1. PICK S : S = Characters
    OBVIOUS
  <2>2. IdleText \in Seq(S)
    BY <2>1, ConsoleAssumption DEF Characters
  <2> QED
    BY <2>2
<1>2. printing = [done |-> 0, at |-> "off", cell |-> 0] /\ written = <<>>
  BY DEF Init
<1>3. Printing /\ printing.at = "off"
  BY <1>1, <1>2, Sizes DEF Printing
<1>4. console \in Consoles /\ console.x = 0
  <2>1. " " \in Shown /\ 0 \in 0 .. NUM_COLUMNS - 1
    BY Sizes DEF Shown
  <2>2. [k \in Cells |-> " "] \in [Cells -> Shown]
    BY <2>1
  <2>3. PICK row \in 0 .. NUM_ROWS - 1 : console = [x |-> 0, y |-> row, screen |-> [k \in Cells |-> " "]]
    BY DEF Init, Cells
  <2> QED
    BY <2>1, <2>2, <2>3 DEF Consoles
<1>5. Placed(console, <<>>, 0)
  <2>1. /\ Len(<<>>) = 0 /\ 0 \in 0 .. 0 /\ 0 + 1 .. 0 = {} /\ 0 - 0 = 0 /\ 1 .. 0 = {}
    OBVIOUS
  <2>2. 0 % NUM_COLUMNS = 0
    BY NextColumn
  <2> QED
    BY <1>4, <2>1, <2>2, Zenon DEF Placed
<1>6. InPlace(console, written)
  BY <1>2, <1>4, <1>5 DEF InPlace
<1> QED
  BY <1>3, <1>6 DEF ConsoleInv

\* While the idle task is between two statements of its printc, a key is
\* echoed: the store to come still lands in its place.
LEMMA EchoBeforeStore ==
  ASSUME NEW c \in Consoles, NEW d, OffCorner(d, c), NEW k \in Cells, NEW ch \in Shown, NEW w,
         InPlace(Store(c, k, ch), w)
  PROVE  InPlace(Store(d, k, ch), w)
<1>1. /\ Store(c, k, ch) \in Consoles /\ Store(c, k, ch).x = c.x /\ Store(c, k, ch).y = c.y
      /\ \A j \in Cells : Store(c, k, ch).screen[j] = IF j = k THEN ch ELSE c.screen[j]
  BY Stored
<1>2. /\ d \in Consoles /\ d.x = c.x /\ d.y = c.y
      /\ \A j \in Cells \ {0} : d.screen[j] = c.screen[j]
  BY DEF OffCorner
<1>3. /\ Store(d, k, ch) \in Consoles /\ Store(d, k, ch).x = d.x /\ Store(d, k, ch).y = d.y
      /\ \A j \in Cells : Store(d, k, ch).screen[j] = IF j = k THEN ch ELSE d.screen[j]
  BY <1>2, Stored
<1>4. ASSUME NEW j \in Cells \ {0}
      PROVE  Store(d, k, ch).screen[j] = Store(c, k, ch).screen[j]
  BY <1>1, <1>2, <1>3
<1>5. OffCorner(Store(d, k, ch), Store(c, k, ch))
  BY <1>1, <1>2, <1>3, <1>4, Zenon DEF OffCorner
<1> QED
  BY <1>5, CornerExempt

LEMMA WriteKeepsPlace ==
  ASSUME ConsoleInv, NEW text \in Texts, sys_write_console(text)
  PROVE  ConsoleInv'
<1>1. printing.at = "off" /\ printing' = printing /\ InPlace(console, written)
  BY DEF ConsoleInv, sys_write_console
<1>2. text \in Seq(Characters)
  BY ConsoleAssumption DEF Characters
<1>3. PICK c, w : c = console /\ w = written
  OBVIOUS
<1>4. InPlace(PrintAll(c, text), w \o text)
  BY <1>1, <1>2, <1>3, TextWritten
<1>5. console' = PrintAll(c, text) /\ written' = w \o text
  BY <1>3 DEF sys_write_console, PrintAll
<1>6. InPlace(console', written')
  BY <1>4, <1>5
<1>7. Printing'
  BY <1>1 DEF ConsoleInv, Printing
<1>8. printing'.at = "off"
  BY <1>1
<1> QED
  BY <1>6, <1>7, <1>8 DEF ConsoleInv

LEMMA KeyKeepsPlace ==
  ASSUME ConsoleInv, NEW k \in Keys, Key(k)
  PROVE  ConsoleInv'
<1>1. PICK ch \in Shown : ch = IF k = NUL THEN "C" ELSE k
  BY DEF Shown
<1>2. console' = printc_xy(console, 0, 0, ch) /\ printing' = printing /\ written' = written
  BY <1>1 DEF Key
<1>3. PICK c, d, w : c = console /\ d = console' /\ w = written
  OBVIOUS
<1>4. c \in Consoles /\ Printing
  BY <1>3 DEF ConsoleInv, InPlace, Printing
<1>5. OffCorner(d, c)
  BY <1>2, <1>3, <1>4, Echoed
<1>6. Cell(d) = Cell(c) /\ d \in Consoles
  BY <1>5 DEF OffCorner, Cell
<1>7. Printing'
  BY <1>2, <1>4 DEF Printing
<1>8. (printing.at # "store" => InPlace(console, written))'
  <2>1. CASE printing.at # "store"
    <3>1. InPlace(c, w)
      BY <1>3, <2>1 DEF ConsoleInv
    <3>2. InPlace(d, w)
      BY <1>5, <3>1, CornerExempt
    <3> QED
      BY <1>2, <1>3, <3>2
  <2> QED
    BY <1>2, <2>1
<1>9. (printing.at = "cursor" => printing.cell = Cell(console))'
  <2>1. Cell(console)' = Cell(d)
    BY <1>3 DEF Cell
  <2> QED
    BY <1>2, <1>3, <1>6, <2>1 DEF ConsoleInv
<1>10. (printing.at = "store" =>
          /\ console \in Consoles
          /\ InPlace(Store(console, printing.cell, NextIdle), Append(written, NextIdle)))'
  <2>1. CASE printing.at = "store"
    <3>1. PICK cell \in Cells, next \in Shown : cell = printing.cell /\ next = NextIdle
      BY <1>4, <2>1, IdleCharacter DEF ConsoleInv, Printing
    <3>2. PICK v : v = Append(w, next)
      OBVIOUS
    <3>3. InPlace(Store(c, cell, next), v)
      BY <1>3, <2>1, <3>1, <3>2 DEF ConsoleInv
    <3>4. InPlace(Store(d, cell, next), v)
      BY <1>4, <1>5, <3>3, EchoBeforeStore
    <3>5. NextIdle' = next /\ printing'.cell = cell
      BY <1>2, <3>1 DEF NextIdle
    <3> QED
      BY <1>2, <1>3, <1>6, <3>2, <3>4, <3>5
  <2> QED
    BY <1>2, <2>1
<1> QED
  BY <1>7, <1>8, <1>9, <1>10 DEF ConsoleInv

LEMMA CursorKeepsPlace ==
  ASSUME ConsoleInv, IdleCursor
  PROVE  ConsoleInv'
<1>1. /\ printing.at = "cursor" /\ console' = Advance(console)
      /\ printing' = [printing EXCEPT !.at = "store"] /\ written' = written
  BY DEF IdleCursor
<1>2. Printing /\ printing.done < Len(IdleText) /\ InPlace(console, written) /\ printing.cell = Cell(console)
  BY <1>1 DEF ConsoleInv, Printing
<1>3. /\ printing' \in [done : 0 .. Len(IdleText), at : {"off", "address", "cursor", "store"}, cell : Cells]
      /\ printing'.done = printing.done /\ printing'.cell = printing.cell /\ printing'.at = "store"
  BY <1>1, <1>2 DEF Printing
<1>4. Printing'
  BY <1>2, <1>3 DEF Printing
<1>5. PICK c, w, next : c = console /\ w = written /\ next = NextIdle
  OBVIOUS
<1>6. next \in Characters /\ next # NL
  BY <1>2, <1>5, IdleCharacter
<1>7. InPlace(printc(c, next), Append(w, next))
  BY <1>2, <1>5, <1>6, CharacterPrinted
<1>8. printc(c, next) = Store(Advance(c), Cell(c), next)
  BY <1>6 DEF printc
<1>9. NextIdle' = next /\ console' = Advance(c) /\ printing'.cell = Cell(c) /\ written' = w
  BY <1>1, <1>2, <1>3, <1>5 DEF NextIdle
<1>10. c \in Consoles
  BY <1>2, <1>5 DEF InPlace
<1>11. console' \in Consoles
  BY <1>9, <1>10, Moves
<1>12. InPlace(Store(console', printing'.cell, NextIdle'), Append(written', NextIdle'))
  BY <1>7, <1>8, <1>9
<1> QED
  BY <1>3, <1>4, <1>11, <1>12 DEF ConsoleInv

LEMMA StoreKeepsPlace ==
  ASSUME ConsoleInv, IdleStore
  PROVE  ConsoleInv'
<1>1. /\ printing.at = "store"
      /\ console' = Store(console, printing.cell, NextIdle) /\ written' = Append(written, NextIdle)
      /\ printing' = [printing EXCEPT !.at = "address", !.done = printing.done + 1]
  BY DEF IdleStore, NextIdle
<1>2. Printing /\ printing.done < Len(IdleText) /\ InPlace(console', written')
  BY <1>1 DEF ConsoleInv, Printing
<1>3. printing.done + 1 \in 0 .. Len(IdleText)
  BY <1>2 DEF Printing
<1>4. /\ printing' \in [done : 0 .. Len(IdleText), at : {"off", "address", "cursor", "store"}, cell : Cells]
      /\ printing'.at = "address"
  BY <1>1, <1>2, <1>3 DEF Printing
<1>5. Printing'
  BY <1>4 DEF Printing
<1> QED
  BY <1>2, <1>4, <1>5 DEF ConsoleInv

LEMMA ConsoleStep == ConsoleInv /\ [Next]_vars => ConsoleInv'
<1> SUFFICES ASSUME ConsoleInv, [Next]_vars PROVE ConsoleInv'
  OBVIOUS
<1>1. ASSUME NEW text \in Texts, sys_write_console(text) PROVE ConsoleInv'
  BY <1>1, WriteKeepsPlace
<1>2. ASSUME NEW c \in Keys, Key(c) PROVE ConsoleInv'
  BY <1>2, KeyKeepsPlace
<1>3. ASSUME UNCHANGED screenVars PROVE ConsoleInv'
  BY <1>3 DEF screenVars, ConsoleInv, Printing, InPlace, Placed, Store, Cell, NextIdle
<1>4. ASSUME printing' \in [done : 0 .. Len(IdleText), at : {"off", "address", "cursor", "store"}, cell : Cells],
             printing.at # "store", printing'.at \in {"address", "cursor"},
             printing'.at = "cursor" => printing'.done < Len(IdleText) /\ printing'.cell = Cell(console),
             console' = console, written' = written
      PROVE  ConsoleInv'
  <2>1. InPlace(console, written)
    BY <1>4 DEF ConsoleInv
  <2>2. InPlace(console, written)' /\ Cell(console)' = Cell(console)
    BY <1>4, <2>1 DEF Cell
  <2>3. Printing'
    BY <1>4 DEF Printing
  <2> QED
    BY <1>4, <2>2, <2>3 DEF ConsoleInv
<1>5. CASE IdleStarts
  <2>1. printing' \in [done : 0 .. Len(IdleText), at : {"off", "address", "cursor", "store"}, cell : Cells]
    BY <1>5 DEF IdleStarts, ConsoleInv, Printing
  <2>2. printing.at # "store" /\ printing'.at = "address" /\ console' = console /\ written' = written
    BY <1>5 DEF IdleStarts, ConsoleInv, Printing
  <2> QED
    BY <1>4, <2>1, <2>2
<1>6. CASE IdleAddress
  <2>1. Cell(console) \in Cells /\ Printing /\ printing.at = "address" /\ printing.done < Len(IdleText)
    BY <1>6, CellOnScreen DEF IdleAddress, ConsoleInv, InPlace
  <2>2. /\ printing' = [printing EXCEPT !.at = "cursor", !.cell = Cell(console)]
        /\ console' = console /\ written' = written
    BY <1>6 DEF IdleAddress
  <2>3. printing' \in [done : 0 .. Len(IdleText), at : {"off", "address", "cursor", "store"}, cell : Cells]
    BY <2>1, <2>2 DEF Printing
  <2>4. printing'.at = "cursor" /\ printing'.done = printing.done /\ printing'.cell = Cell(console)
    BY <2>1, <2>2 DEF Printing
  <2> QED
    BY <1>4, <2>1, <2>2, <2>3, <2>4
<1>7. CASE IdleCursor
  BY <1>7, CursorKeepsPlace
<1>8. CASE IdleStore
  BY <1>8, StoreKeepsPlace
<1> QED
  BY <1>1, <1>2, <1>3, <1>5, <1>6, <1>7, <1>8 DEF Next, ReadKey, vars, screenVars

\* The last line begins behind the last new line.
LEMMA LastLineIs ==
  ASSUME NEW m \in Nat, Placed(console, written, m), written \in Seq(Characters)
  PROVE  Len(LastLine) = Len(written) - m
<1>1. PICK S, w : S = Characters /\ w = written
  OBVIOUS
<1>2. w \in Seq(S) /\ Len(w) \in Nat /\ DOMAIN w = 1 .. Len(w)
  <2>1. w \in Seq(S)
    BY <1>1
  <2> QED
    BY <2>1
<1>3. m \in 0 .. Len(w) /\ (m # 0 => w[m] = NL) /\ \A j \in m + 1 .. Len(w) : w[j] # NL
  BY <1>1 DEF Placed
<1>4. PICK ends : ends = {0} \cup {i \in DOMAIN w : w[i] = NL}
  OBVIOUS
<1>5. m \in ends /\ \A j \in ends : j \in Nat /\ j <= m
  BY <1>2, <1>3, <1>4
<1>6. PICK last : last = CHOOSE i \in ends : \A j \in ends : j <= i
  OBVIOUS
<1>7. last \in ends /\ \A j \in ends : j <= last
  <2>1. \E e \in ends : \A j \in ends : j <= e
    BY <1>5
  <2> QED
    BY <1>6, <2>1, Zenon
<1>8. last = m
  <2>1. last \in Nat /\ last <= m /\ m <= last
    BY <1>5, <1>7
  <2> QED
    BY <2>1
<1>9. Len(SubSeq(w, m + 1, Len(w))) = Len(w) - m
  <2>1. \A j \in m + 1 .. Len(w) : w[j] \in S
    BY <1>2, <1>3
  <2>2. Len(SubSeq(w, m + 1, Len(w))) = IF m + 1 <= Len(w) THEN Len(w) - (m + 1) + 1 ELSE 0
    BY <1>2, <1>3, <2>1, SubSeqProperties
  <2>3. PICK n \in Nat : n = Len(w)
    BY <1>2
  <2> QED
    BY <1>3, <2>2, <2>3
<1> QED
  BY <1>1, <1>4, <1>6, <1>8, <1>9, Zenon DEF LastLine

LEMMA TextStands == ConsoleInv => TextInPlace
<1> SUFFICES ASSUME ConsoleInv, printing.at \in {"off", "address"}
             PROVE  /\ console.x = Len(LastLine) % NUM_COLUMNS
                    /\ \A i \in 1 .. console.x :
                         LET k == Cell(console) - i
                         IN  k # 0 => console.screen[k] = written[Len(written) + 1 - i]
  BY DEF TextInPlace
<1>1. InPlace(console, written)
  BY DEF ConsoleInv
<1>2. PICK m \in Nat : Placed(console, written, m)
  BY <1>1 DEF InPlace
<1>3. Len(LastLine) = Len(written) - m
  BY <1>1, <1>2, LastLineIs DEF InPlace
<1> QED
  BY <1>2, <1>3 DEF Placed

\* Between two characters the last line stands left of the cursor, complete and
\* in order, for every size of the screen and whatever texts and keys (io.c:
\* printc, printc_xy; sys_write_console, cpu_idle).
THEOREM TextStaysInPlace == Spec => []TextInPlace
<1>1. ConsoleInv /\ [Next]_vars => ConsoleInv'
  BY ConsoleStep
<1> QED
  BY <1>1, ConsoleInit, TextStands, PTL DEF Spec

-----------------------------------------------------------------------------
(* The keys in the buffer.                                                 *)

Positions == [writePos : 0 .. CIRBUFFER_SIZE - 1, readPos : Nat, full : BOOLEAN]
Arrays    == [0 .. CIRBUFFER_SIZE - 1 -> Keys \cup {NoKey}]

BufferType == keyboardBuff \in Positions /\ buffer \in Arrays

\* Contents, of the positions b and the array a.
Ring(b, a) ==
  [i \in 1 .. cirBuffLenght(b) |-> a[(b.readPos + i - 1) % CIRBUFFER_SIZE]]

\* The read position is in the buffer, and full means that it is the next to
\* be written.
InLap(b) == b.readPos < CIRBUFFER_SIZE /\ (b.full => b.readPos = b.writePos)

LEMMA OnceRound ==
  ASSUME NEW size \in Nat, size > 0, NEW k \in Nat, k < size + size
  PROVE  k % size = IF k < size THEN k ELSE k - size
<1>1. CASE k < size
  BY <1>1, SMTT(30)
<1>2. CASE k >= size
  <2>1. k = size * 1 + (k - size) /\ k - size \in 0 .. size - 1
    BY <1>2
  <2> QED
    BY <1>2, <2>1, SMTT(30)
<1> QED
  BY <1>1, <1>2

LEMMA LengthIs ==
  ASSUME NEW b \in Positions, InLap(b)
  PROVE  /\ cirBuffLenght(b) \in 0 .. CIRBUFFER_SIZE
         /\ cirBuffLenght(b) = CIRBUFFER_SIZE <=> b.full
         /\ b.writePos > b.readPos => cirBuffLenght(b) = b.writePos - b.readPos
         /\ b.writePos < b.readPos => cirBuffLenght(b) = CIRBUFFER_SIZE - b.readPos + b.writePos
         /\ b.writePos = b.readPos => cirBuffLenght(b) = IF b.full THEN CIRBUFFER_SIZE ELSE 0
<1>1. PICK w \in 0 .. CIRBUFFER_SIZE - 1, r \in Nat : w = b.writePos /\ r = b.readPos
  BY DEF Positions
<1>2. r < CIRBUFFER_SIZE /\ (b.full => r = w) /\ CIRBUFFER_SIZE \in Nat /\ b.full \in BOOLEAN
  BY <1>1, CirBufferAssumption DEF InLap, Positions
<1>3. CASE w > r
  <2>1. cirBuffLenght(b) = w - r
    BY <1>1, <1>3 DEF cirBuffLenght
  <2> QED
    BY <1>1, <1>2, <1>3, <2>1
<1>4. CASE w = r
  <2>1. cirBuffLenght(b) = IF b.full THEN CIRBUFFER_SIZE ELSE 0
    BY <1>1, <1>4 DEF cirBuffLenght
  <2> QED
    BY <1>1, <1>2, <1>4, <2>1
<1>5. CASE w < r
  <2>1. cirBuffLenght(b) = CIRBUFFER_SIZE - r + w
    BY <1>1, <1>2, <1>5 DEF cirBuffLenght
  <2> QED
    BY <1>1, <1>2, <1>5, <2>1
<1> QED
  BY <1>1, <1>3, <1>4, <1>5

\* Where the position k comes to lie, at most once round.
Round(k) == IF k < CIRBUFFER_SIZE THEN k ELSE k - CIRBUFFER_SIZE

LEMMA RingIsSequence ==
  ASSUME NEW b \in Positions, InLap(b), NEW a \in Arrays
  PROVE  /\ Ring(b, a) \in Seq(Keys \cup {NoKey}) /\ Len(Ring(b, a)) = cirBuffLenght(b)
         /\ \A i \in 1 .. cirBuffLenght(b) :
              Ring(b, a)[i] = a[Round(b.readPos + i - 1)]
<1>1. PICK n \in 0 .. CIRBUFFER_SIZE : n = cirBuffLenght(b)
  BY LengthIs
<1>2. PICK r \in Nat : r = b.readPos /\ r < CIRBUFFER_SIZE
  BY DEF Positions, InLap
<1>3. CIRBUFFER_SIZE \in Nat /\ CIRBUFFER_SIZE > 0
  BY CirBufferAssumption
<1>4. ASSUME NEW i \in 1 .. n
      PROVE  /\ (r + i - 1) % CIRBUFFER_SIZE = Round(r + i - 1)
             /\ (r + i - 1) % CIRBUFFER_SIZE \in 0 .. CIRBUFFER_SIZE - 1
  <2>1. PICK k \in Nat : k = r + i - 1 /\ k < CIRBUFFER_SIZE + CIRBUFFER_SIZE
    BY <1>1, <1>2, <1>3
  <2>2. k % CIRBUFFER_SIZE = IF k < CIRBUFFER_SIZE THEN k ELSE k - CIRBUFFER_SIZE
    BY <1>3, <2>1, OnceRound
  <2> QED
    BY <1>3, <2>1, <2>2 DEF Round
<1>5. PICK ring : ring = [i \in 1 .. n |-> a[(r + i - 1) % CIRBUFFER_SIZE]]
  OBVIOUS
<1>6. ring \in [1 .. n -> Keys \cup {NoKey}]
  <2>1. ASSUME NEW i \in 1 .. n PROVE a[(r + i - 1) % CIRBUFFER_SIZE] \in Keys \cup {NoKey}
    BY <1>4 DEF Arrays
  <2> QED
    BY <1>5, <2>1
<1>7. ring \in Seq(Keys \cup {NoKey}) /\ Len(ring) = n
  <2>1. n \in Nat
    BY <1>1, <1>3
  <2>2. ring \in Seq(Keys \cup {NoKey})
    BY <1>6, <2>1, SeqDef
  <2>3. DOMAIN ring = 1 .. n
    BY <1>5
  <2> QED
    BY <2>1, <2>2, <2>3, LenProperties
<1>8. Ring(b, a) = ring
  BY <1>1, <1>2, <1>5 DEF Ring
<1>9. ASSUME NEW i \in 1 .. n PROVE ring[i] = a[Round(r + i - 1)]
  <2>1. ring[i] = a[(r + i - 1) % CIRBUFFER_SIZE]
    BY <1>5, Zenon
  <2> QED
    BY <1>4, <2>1, Zenon
<1> QED
  BY <1>1, <1>2, <1>7, <1>8, <1>9, Zenon

\* The keys fill the positions from r to the one before w.
LEMMA KeysBetween ==
  ASSUME NEW w \in 0 .. CIRBUFFER_SIZE - 1, NEW r \in Nat, r < CIRBUFFER_SIZE,
         NEW n \in Nat, n = IF w >= r THEN w - r ELSE CIRBUFFER_SIZE - r + w
  PROVE  /\ Round(r + (n + 1) - 1) = w
         /\ \A i \in 1 .. n : Round(r + i - 1) \in (0 .. CIRBUFFER_SIZE - 1) \ {w}
<1>1. CIRBUFFER_SIZE \in Nat
  BY CirBufferAssumption
<1> QED
  BY <1>1 DEF Round

\* A key that finds room goes behind the others.
LEMMA KeyPut ==
  ASSUME NEW b \in Positions, InLap(b), ~b.full, NEW a \in Arrays, NEW key \in Keys,
         InLap(cirBuffWrite(b))
  PROVE  /\ Len(Ring(b, a)) < CIRBUFFER_SIZE
         /\ Ring(cirBuffWrite(b), [a EXCEPT ![b.writePos] = key]) = Append(Ring(b, a), key)
<1>1. PICK w \in 0 .. CIRBUFFER_SIZE - 1, r \in Nat : w = b.writePos /\ r = b.readPos
  BY DEF Positions
<1>2. CIRBUFFER_SIZE \in Nat /\ CIRBUFFER_SIZE > 0 /\ r < CIRBUFFER_SIZE
  BY <1>1, CirBufferAssumption DEF InLap
<1>3. PICK next \in 0 .. CIRBUFFER_SIZE - 1 : next = IF w + 1 >= CIRBUFFER_SIZE THEN 0 ELSE w + 1
  BY <1>2
<1>4. PICK e : e = cirBuffWrite(b)
  OBVIOUS
<1>5. e = [b EXCEPT !.writePos = next, !.full = (next = r)]
  BY <1>1, <1>3, <1>4, Zenon DEF cirBuffWrite, Wrapped
<1>6. e \in Positions /\ e.writePos = next /\ e.readPos = r /\ (e.full <=> next = r) /\ InLap(e)
  BY <1>1, <1>3, <1>4, <1>5 DEF Positions
<1>7. PICK n : n = cirBuffLenght(b)
  OBVIOUS
<1>8. /\ n \in 0 .. CIRBUFFER_SIZE - 1
      /\ n = IF w >= r THEN w - r ELSE CIRBUFFER_SIZE - r + w
  <2>1. n \in 0 .. CIRBUFFER_SIZE /\ n # CIRBUFFER_SIZE
    BY <1>7, LengthIs
  <2>2. /\ w > r => n = w - r
        /\ w < r => n = CIRBUFFER_SIZE - r + w
        /\ w = r => n = 0
    BY <1>1, <1>7, LengthIs
  <2> QED
    BY <1>1, <1>2, <2>1, <2>2
<1>9. cirBuffLenght(e) = n + 1
  <2>1. /\ next > r => cirBuffLenght(e) = next - r
        /\ next < r => cirBuffLenght(e) = CIRBUFFER_SIZE - r + next
        /\ next = r => cirBuffLenght(e) = CIRBUFFER_SIZE
    BY <1>6, LengthIs
  <2> QED
    BY <1>1, <1>2, <1>3, <1>8, <2>1
<1>10. PICK f \in Arrays : f = [a EXCEPT ![w] = key]
  BY <1>1 DEF Arrays
<1>11. f[w] = key /\ \A j \in 0 .. CIRBUFFER_SIZE - 1 : j # w => f[j] = a[j]
  BY <1>1, <1>10 DEF Arrays
<1>12. PICK s \in Seq(Keys \cup {NoKey}) :
         /\ s = Ring(b, a) /\ Len(s) = n
         /\ \A i \in 1 .. n : s[i] = a[Round(r + i - 1)]
  BY <1>1, <1>7, RingIsSequence, Zenon
<1>13. PICK t \in Seq(Keys \cup {NoKey}) :
         /\ t = Ring(e, f) /\ Len(t) = n + 1
         /\ \A i \in 1 .. n + 1 : t[i] = f[Round(r + i - 1)]
  <2>1. /\ Ring(e, f) \in Seq(Keys \cup {NoKey}) /\ Len(Ring(e, f)) = cirBuffLenght(e)
        /\ \A i \in 1 .. cirBuffLenght(e) : Ring(e, f)[i] = f[Round(e.readPos + i - 1)]
    BY <1>6, <1>10, RingIsSequence
  <2> QED
    BY <1>6, <1>9, <2>1, Zenon
<1>14. ASSUME NEW i \in 1 .. n PROVE t[i] = s[i]
  <2>1. PICK k : k = Round(r + i - 1)
    OBVIOUS
  <2>2. k \in 0 .. CIRBUFFER_SIZE - 1 /\ k # w /\ i \in 1 .. n + 1
    <3>1. n \in Nat /\ i \in 1 .. n + 1
      BY <1>2, <1>8
    <3>2. Round(r + i - 1) \in (0 .. CIRBUFFER_SIZE - 1) \ {w}
      BY <1>1, <1>2, <1>8, <3>1, KeysBetween, Zenon
    <3> QED
      BY <2>1, <3>1, <3>2, Zenon
  <2>3. t[i] = f[k] /\ s[i] = a[k]
    BY <1>12, <1>13, <2>1, <2>2
  <2> QED
    BY <1>11, <2>2, <2>3
<1>15. t[n + 1] = key
  <2>1. PICK k : k = Round(r + (n + 1) - 1)
    OBVIOUS
  <2>2. k = w /\ n + 1 \in 1 .. n + 1
    <3>1. n \in Nat /\ n + 1 \in 1 .. n + 1
      BY <1>2, <1>8
    <3>2. Round(r + (n + 1) - 1) = w
      BY <1>1, <1>2, <1>8, <3>1, KeysBetween, Zenon
    <3> QED
      BY <2>1, <3>1, <3>2
  <2>3. t[n + 1] = f[k]
    BY <1>13, <2>1, <2>2
  <2> QED
    BY <1>11, <2>2, <2>3
<1>16. t = Append(s, key)
  <2>1. PICK K : K = Keys \cup {NoKey}
    OBVIOUS
  <2>2. s \in Seq(K) /\ t \in Seq(K) /\ key \in K
    BY <2>1
  <2>3. /\ Append(s, key) \in Seq(K) /\ Len(Append(s, key)) = n + 1
        /\ \A i \in 1 .. n : Append(s, key)[i] = s[i]
        /\ Append(s, key)[n + 1] = key
    BY <1>12, <2>2, AppendProperties
  <2>4. \A i \in 1 .. n + 1 : t[i] = Append(s, key)[i]
    <3>1. ASSUME NEW i \in 1 .. n + 1 PROVE i \in 1 .. n \/ i = n + 1
      BY <1>8
    <3> QED
      BY <1>14, <1>15, <2>3, <3>1, Zenon
  <2> QED
    BY <1>13, <2>2, <2>3, <2>4, SeqEqual
<1> QED
  <2>1. n < CIRBUFFER_SIZE
    BY <1>2, <1>8
  <2> QED
    BY <1>1, <1>4, <1>10, <1>12, <1>13, <1>16, <2>1, Zenon

\* The key that is read is the first.
LEMMA KeyTaken ==
  ASSUME NEW b \in Positions, InLap(b), NEW a \in Arrays, cirBuffLenght(b) > 0,
         InLap(cirBuffRead(b))
  PROVE  /\ Ring(b, a) # <<>> /\ a[b.readPos] = Head(Ring(b, a))
         /\ Ring(cirBuffRead(b), a) = Tail(Ring(b, a))
<1>1. PICK w \in 0 .. CIRBUFFER_SIZE - 1, r \in Nat : w = b.writePos /\ r = b.readPos
  BY DEF Positions
<1>2. CIRBUFFER_SIZE \in Nat /\ CIRBUFFER_SIZE > 0 /\ r < CIRBUFFER_SIZE
  BY <1>1, CirBufferAssumption DEF InLap
<1>3. PICK e : e = cirBuffRead(b)
  OBVIOUS
<1>4. e = [b EXCEPT !.readPos = r + 1, !.full = IF r + 1 = w THEN FALSE ELSE b.full]
  BY <1>1, <1>3, Zenon DEF cirBuffRead
<1>5. /\ e \in Positions /\ e.writePos = w /\ e.readPos = r + 1
      /\ e.full = (IF r + 1 = w THEN FALSE ELSE b.full) /\ InLap(e)
  <2>1. PICK full \in BOOLEAN : full = IF r + 1 = w THEN FALSE ELSE b.full
    <3>1. b.full \in BOOLEAN /\ FALSE \in BOOLEAN
      BY DEF Positions
    <3> QED
      BY <3>1
  <2>2. e \in Positions
    <3>1. e = [b EXCEPT !.readPos = r + 1, !.full = full] /\ r + 1 \in Nat
      BY <1>1, <1>4, <2>1
    <3> QED
      BY <3>1, Zenon DEF Positions
  <2> QED
    BY <1>1, <1>3, <1>4, <2>2 DEF Positions
<1>6. ~b.full /\ ~e.full /\ r + 1 < CIRBUFFER_SIZE
  <2>1. r + 1 < CIRBUFFER_SIZE /\ (e.full => r + 1 = w) /\ (b.full => r = w)
    BY <1>1, <1>5 DEF InLap
  <2> QED
    BY <1>1, <1>5, <2>1
<1>7. PICK n : n = cirBuffLenght(b)
  OBVIOUS
<1>8. n \in 1 .. CIRBUFFER_SIZE /\ n = (IF w > r THEN w - r ELSE CIRBUFFER_SIZE - r + w) /\ w # r
  <2>1. n \in 0 .. CIRBUFFER_SIZE /\ n > 0
    BY <1>7, LengthIs
  <2>2. /\ w > r => n = w - r
        /\ w < r => n = CIRBUFFER_SIZE - r + w
        /\ w = r => n = 0
    BY <1>1, <1>6, <1>7, LengthIs
  <2> QED
    BY <1>1, <1>2, <2>1, <2>2
<1>9. cirBuffLenght(e) = n - 1
  <2>1. /\ w > r + 1 => cirBuffLenght(e) = w - (r + 1)
        /\ w < r + 1 => cirBuffLenght(e) = CIRBUFFER_SIZE - (r + 1) + w
        /\ w = r + 1 => cirBuffLenght(e) = 0
    BY <1>5, <1>6, LengthIs
  <2> QED
    BY <1>1, <1>2, <1>6, <1>8, <2>1
<1>10. PICK s \in Seq(Keys \cup {NoKey}) :
         /\ s = Ring(b, a) /\ Len(s) = n
         /\ \A i \in 1 .. n : s[i] = a[Round(r + i - 1)]
  BY <1>1, <1>7, RingIsSequence, Zenon
<1>11. PICK t \in Seq(Keys \cup {NoKey}) :
         /\ t = Ring(e, a) /\ Len(t) = n - 1
         /\ \A i \in 1 .. n - 1 : t[i] = a[Round((r + 1) + i - 1)]
  <2>1. /\ Ring(e, a) \in Seq(Keys \cup {NoKey}) /\ Len(Ring(e, a)) = cirBuffLenght(e)
        /\ \A i \in 1 .. cirBuffLenght(e) : Ring(e, a)[i] = a[Round(e.readPos + i - 1)]
    BY <1>5, RingIsSequence
  <2> QED
    BY <1>5, <1>9, <2>1, Zenon
<1>12. s[1] = a[r]
  <2>1. 1 \in 1 .. n /\ r + 1 - 1 = r
    BY <1>1, <1>8
  <2> QED
    BY <1>2, <1>10, <2>1 DEF Round
<1>13. ASSUME NEW i \in 1 .. n - 1 PROVE t[i] = s[i + 1]
  <2>1. i + 1 \in 1 .. n /\ r + (i + 1) - 1 = (r + 1) + i - 1
    BY <1>1, <1>8
  <2> QED
    BY <1>10, <1>11, <2>1
<1>14. s # <<>> /\ Head(s) = s[1] /\ t = Tail(s)
  <2>1. PICK K : K = Keys \cup {NoKey}
    OBVIOUS
  <2>2. s \in Seq(K) /\ t \in Seq(K) /\ s # <<>>
    BY <1>8, <1>10, <1>11, <2>1
  <2>3. Tail(s) \in Seq(K) /\ Len(Tail(s)) = n - 1 /\ \A i \in 1 .. n - 1 : Tail(s)[i] = s[i + 1]
    BY <1>10, <2>2, HeadTailProperties
  <2>4. t = Tail(s)
    BY <1>11, <1>13, <2>2, <2>3, SeqEqual
  <2> QED
    BY <2>2, <2>4
<1> QED
  BY <1>1, <1>3, <1>10, <1>11, <1>12, <1>14

LEMMA BufferTypeCorrect == Spec => []BufferType
<1>1. Init => BufferType
  <2> SUFFICES ASSUME Init PROVE BufferType
    OBVIOUS
  <2>1. 0 \in 0 .. CIRBUFFER_SIZE - 1
    BY CirBufferAssumption
  <2> QED
    BY <2>1 DEF Init, BufferInit, EmptyCirBuffer, BufferType, Positions, Arrays
<1>2. BufferType /\ [Next]_vars => BufferType'
  <2> SUFFICES ASSUME BufferType, [Next]_vars PROVE BufferType'
    OBVIOUS
  <2>1. ASSUME NEW k \in Keys, Write(k) PROVE BufferType'
    <3>1. Wrapped(keyboardBuff.writePos + 1) \in 0 .. CIRBUFFER_SIZE - 1
      BY CirBufferAssumption DEF BufferType, Positions, Wrapped
    <3>2. cirBuffWrite(keyboardBuff) \in Positions
      BY <3>1 DEF cirBuffWrite, BufferType, Positions
    <3>3. buffer' \in Arrays
      BY <2>1 DEF Write, BufferType, Positions, Arrays
    <3> QED
      BY <2>1, <3>2, <3>3 DEF Write, BufferType
  <2>2. CASE Read
    <3>1. PICK full \in BOOLEAN : full = IF keyboardBuff.readPos + 1 = keyboardBuff.writePos
                                          THEN FALSE ELSE keyboardBuff.full
      <4>1. keyboardBuff.full \in BOOLEAN /\ FALSE \in BOOLEAN
        BY DEF BufferType, Positions
      <4> QED
        BY <4>1
    <3>2. cirBuffRead(keyboardBuff) \in Positions
      <4>1. cirBuffRead(keyboardBuff)
              = [keyboardBuff EXCEPT !.readPos = keyboardBuff.readPos + 1, !.full = full]
        BY <3>1, Zenon DEF cirBuffRead
      <4>2. keyboardBuff \in Positions /\ keyboardBuff.readPos + 1 \in Nat
        BY DEF BufferType, Positions
      <4> QED
        BY <4>1, <4>2, Zenon DEF Positions
    <3> QED
      BY <2>2, <3>2 DEF Read, BufferType
  <2>3. ASSUME UNCHANGED bufferVars PROVE BufferType'
    BY <2>3 DEF bufferVars, BufferType
  <2>4. CASE UNCHANGED vars
    BY <2>3, <2>4 DEF vars
  <2>5. CASE Next
    BY <2>1, <2>2, <2>3, <2>5
       DEF Next, sys_write_console, Key, ReadKey, IdleStarts, IdleAddress, IdleCursor, IdleStore
  <2> QED
    BY <2>4, <2>5
<1> QED
  BY <1>1, <1>2, PTL DEF Spec

\* In its first lap the keyboard's buffer is a bounded queue: every key that
\* finds room comes out once and in its turn, for every size of the buffer
\* (cirBuffer.c: cirBuffWrite, cirBuffRead, cirBuffLenght).
THEOREM FirstLapOfKeys == Spec => FirstLapIsQueue
<1>1. Init => Queue!Init
  <2> SUFFICES ASSUME Init PROVE Queue!Init
    OBVIOUS
  <2>1. cirBuffLenght(keyboardBuff) = 0 /\ got = NoKey
    <3>1. /\ keyboardBuff = [writePos |-> 0, readPos |-> 0, full |-> FALSE] /\ got = NoKey
      BY DEF Init, BufferInit, EmptyCirBuffer
    <3>2. keyboardBuff.writePos = 0 /\ keyboardBuff.readPos = 0 /\ keyboardBuff.full = FALSE
      BY <3>1
    <3> QED
      BY <3>1, <3>2 DEF cirBuffLenght
  <2>2. Contents = <<>>
    BY <2>1 DEF Contents
  <2> QED
    BY <2>1, <2>2, KeyBufferAssumption DEF Queue!Init
<1>2. BufferType /\ [Next]_vars
        => [FirstLap /\ FirstLap' => [Queue!Next]_(Queue!vars)]_bufferVars
  <2> SUFFICES ASSUME BufferType, [Next]_vars, FirstLap, FirstLap', bufferVars' # bufferVars
               PROVE  Queue!Next
    OBVIOUS
  <2>1. PICK b \in Positions, a \in Arrays : b = keyboardBuff /\ a = buffer /\ InLap(b)
    BY DEF BufferType, FirstLap, InLap
  <2>2. PICK e, f : e = keyboardBuff' /\ f = buffer' /\ InLap(e)
    BY DEF FirstLap, InLap
  <2>3. Contents = Ring(b, a) /\ Contents' = Ring(e, f)
    BY <2>1, <2>2 DEF Contents, Ring
  <2>4. CASE \E k \in Keys : Write(k)
    <3>1. PICK k \in Keys : Write(k)
      BY <2>4
    <3>2. CASE b.full
      <4>1. e = b /\ f = a /\ got' = got
        BY <2>1, <2>2, <3>1, <3>2 DEF Write, cirBuffWrite
      <4> QED
        BY <2>1, <2>2, <4>1 DEF bufferVars
    <3>3. CASE ~b.full
      <4>1. e = cirBuffWrite(b) /\ f = [a EXCEPT ![b.writePos] = k] /\ got' = got
        BY <2>1, <2>2, <3>1, <3>3 DEF Write
      <4>2. Len(Ring(b, a)) < CIRBUFFER_SIZE /\ Ring(e, f) = Append(Ring(b, a), k)
        <5>1. InLap(cirBuffWrite(b))
          BY <2>2, <4>1
        <5>2. /\ Len(Ring(b, a)) < CIRBUFFER_SIZE
              /\ Ring(cirBuffWrite(b), [a EXCEPT ![b.writePos] = k]) = Append(Ring(b, a), k)
          BY <2>1, <3>3, <5>1, KeyPut, Zenon
        <5> QED
          BY <4>1, <5>2, Zenon
      <4>3. Queue!Put(k)
        BY <2>3, <4>1, <4>2 DEF Queue!Put
      <4> QED
        BY <4>3 DEF Queue!Next
    <3> QED
      BY <3>2, <3>3
  <2>5. CASE Read
    <3>1. cirBuffLenght(b) > 0 /\ e = cirBuffRead(b) /\ f = a
      BY <2>1, <2>2, <2>5 DEF Read
    <3>2. got' = a[b.readPos]
      BY <2>1, <2>5, CirBufferAssumption DEF Read, InLap, Positions
    <3>3. Ring(b, a) # <<>> /\ a[b.readPos] = Head(Ring(b, a)) /\ Ring(e, a) = Tail(Ring(b, a))
      BY <2>1, <2>2, <3>1, KeyTaken
    <3>4. Queue!Get
      BY <2>3, <3>1, <3>2, <3>3 DEF Queue!Get
    <3> QED
      BY <3>4 DEF Queue!Next
  <2>6. (\E k \in Keys : Write(k)) \/ Read \/ UNCHANGED bufferVars
    BY DEF vars, Next, sys_write_console, Key, ReadKey, IdleStarts, IdleAddress, IdleCursor, IdleStore
  <2> QED
    BY <2>4, <2>5, <2>6
<1> QED
  BY <1>1, <1>2, BufferTypeCorrect, PTL DEF Spec, FirstLapIsQueue

=============================================================================
