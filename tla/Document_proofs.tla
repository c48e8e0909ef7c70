-------------------------- MODULE Document_proofs ---------------------------
(***************************************************************************)
(* Proof that every script in the syntax of the README is executed as it   *)
(* is written.  The words of its lines and the places of its commands are  *)
(* laid out first; then orng is followed through a command, through a line *)
(* and through the document.                                               *)
(***************************************************************************)
EXTENDS Session_proofs

---------------------------------------------------------------------------
(* The rest of a line, and its comments.                                   *)

\* What can be read of the rest of a line: the words up to the z-th, and then the end.
Legible(w, z) ==
  /\ 2 * z <= Len(line) /\ Cell(line, 2 * z + 1) = NUL
  /\ \A x \in 1..z : /\ Word(w[x])
                     /\ 2 * x - 1 >= Place => line[2 * x - 1] = w[x]
                     /\ 2 * x >= Place => line[2 * x] \in Blank

\* Behind the q-th word.
Behind(q) == Place \in {2 * q, 2 * q + 1}

\* A token of one cell.
LEMMA OneCell ==
  ASSUME NEW S, NEW l, l \in Seq(S), NEW x, x \in 1..Len(l)
  PROVE  SubSeq(l, x, x) = <<l[x]>>
<1>1. x \in Int /\ Len(l) \in Nat
  OBVIOUS
<1>2. Len(SubSeq(l, x, x)) = 1 /\ SubSeq(l, x, x) \in Seq(S)
  BY <1>1
<1>3. SubSeq(l, x, x)[1] = l[x]
  BY <1>1
<1>4. PICK s \in Seq(S) : s = SubSeq(l, x, x)
  BY <1>2
<1>5. Len(s) = 1 /\ s[1] = l[x]
  BY <1>2, <1>3, <1>4
<1>6. s = <<l[x]>>
  BY <1>5
<1>7. QED
  BY <1>4, <1>6

\* The text of a token.
LEMMA TokenText ==
  ASSUME NEW l, NEW i, NEW d, NEW t, t = strtok(l, i, d)
  PROVE  t.text = SubSeq(l, Skip(l, i, d), Find(l, Skip(l, i, d), d) - 1)
<1>1. PICK s : s = Skip(l, i, d)
  OBVIOUS
<1>2. PICK e : e = Find(l, s, d)
  OBVIOUS
<1>3. PICK v : v = SubSeq(l, s, e - 1)
  OBVIOUS
<1>4. t = [found |-> Cell(l, s) # NUL, at |-> s, text |-> v,
           line |-> Zero(l, e), save |-> IF Cell(l, e) = NUL THEN e ELSE e + 1]
  BY <1>1, <1>2, <1>3 DEF strtok
<1>5. t.text = v
  BY <1>4
<1>6. QED
  BY <1>1, <1>2, <1>3, <1>5

\* The next token is the next word, as long as there is one.
LEMMA NextWord ==
  ASSUME ReaderInv, stage \in {"command", "argument"}, NEW w, NEW z \in Nat, Legible(w, z),
         NEW q \in 0..z, Behind(q), NEW t, t = Token
  PROVE  /\ t.found <=> q < z
         /\ q < z => /\ t.at = 2 * q + 1 /\ t.text = <<w[q + 1]>> /\ t.save = 2 * q + 3
                     /\ Cell(t.line, 2 * q + 1) = w[q + 1] /\ Cell(t.line, 2 * q + 2) = NUL
<1> DEFINE L == Len(line)
           i == Place
<1>1. /\ line \in Seq(Cells) /\ L \in Nat /\ i \in 1..(L + 1) /\ t.at \in i..(L + 1)
      /\ t.found \in BOOLEAN
  BY TokenHere DEF ReaderInv, ReaderTypes
<1>2. /\ t.found <=> Cell(line, t.at) # NUL
      /\ Cell(line, t.at) \notin Blank
      /\ \A k \in i..(t.at - 1) : Cell(line, k) \in Blank
  BY TokenWord
<1>3. NUL \in Cells /\ NUL \notin Blank
  BY DEF Cells, Blank, NUL
<1>4. t = strtok(line, i, Blank)
  BY DEF Token, Place
<1>5. i = 2 * q \/ i = 2 * q + 1
  BY DEF Behind
<1>6. /\ 2 * z <= L /\ Cell(line, 2 * z + 1) = NUL
      /\ \A x \in 1..z : /\ Word(w[x])
                         /\ 2 * x - 1 >= i => line[2 * x - 1] = w[x]
                         /\ 2 * x >= i => line[2 * x] \in Blank
  BY DEF Legible
<1> HIDE DEF Cells, Blank, i, L
<1>7. q < z => /\ Cell(line, 2 * q + 1) = w[q + 1] /\ Word(w[q + 1])
               /\ Cell(line, 2 * q + 2) \in Blank
  <2> SUFFICES ASSUME q < z
               PROVE  /\ Cell(line, 2 * q + 1) = w[q + 1] /\ Word(w[q + 1])
                      /\ Cell(line, 2 * q + 2) \in Blank
    OBVIOUS
  <2>1. PICK x \in 1..z : x = q + 1
    OBVIOUS
  <2>2. 2 * x - 1 = 2 * q + 1 /\ 2 * x = 2 * q + 2 /\ 2 * q + 1 <= L /\ 2 * q + 2 <= L
    BY <1>1, <1>6, <2>1
  <2>3. 2 * x - 1 >= i /\ 2 * x >= i
    BY <1>1, <1>5, <2>1
  <2>4. line[2 * x - 1] = w[x] /\ line[2 * x] \in Blank /\ Word(w[x])
    BY <1>6, <2>3
  <2>5. Cell(line, 2 * x - 1) = line[2 * x - 1] /\ Cell(line, 2 * x) = line[2 * x]
    BY <2>2 DEF Cell, L
  <2>6. QED
    BY <2>1, <2>2, <2>4, <2>5
<1>8. Cell(line, 2 * q + 1) \notin Blank
  BY <1>3, <1>6, <1>7 DEF Word
<1>9. q > 0 /\ i = 2 * q => Cell(line, 2 * q) \in Blank
  <2> SUFFICES ASSUME q > 0, i = 2 * q PROVE Cell(line, 2 * q) \in Blank
    OBVIOUS
  <2>1. q \in 1..z /\ 2 * q >= i /\ 2 * q <= L
    BY <1>1, <1>6
  <2>2. Cell(line, 2 * q) = line[2 * q]
    BY <2>1 DEF Cell, L
  <2>3. QED
    BY <1>6, <2>1, <2>2
<1>10. t.at = 2 * q + 1
  <2>1. t.at <= 2 * q + 1
    <3>1. t.at > 2 * q + 1 => 2 * q + 1 \in i..(t.at - 1)
      BY <1>1, <1>5
    <3>2. QED
      BY <1>1, <1>2, <1>8, <3>1
  <2>2. t.at # 2 * q
    <3>1. t.at = 2 * q => i = 2 * q /\ q > 0
      BY <1>1, <1>5
    <3>2. QED
      BY <1>2, <1>9, <3>1
  <2>3. QED
    BY <1>1, <1>5, <2>1, <2>2
<1>11. t.found <=> q < z
  <2>1. q < z => Cell(line, t.at) # NUL
    BY <1>7, <1>10 DEF Word
  <2>2. ~(q < z) => Cell(line, t.at) = NUL
    BY <1>6, <1>10
  <2>3. QED
    BY <1>2, <2>1, <2>2
<1>12. ASSUME q < z
       PROVE  /\ t.text = <<w[q + 1]>> /\ t.save = 2 * q + 3
              /\ Cell(t.line, 2 * q + 1) = w[q + 1] /\ Cell(t.line, 2 * q + 2) = NUL
  <2> DEFINE start == 2 * q + 1
             end == Find(line, start, Blank)
  <2>1. start \in 1..(L + 1) /\ start + 1 <= L /\ start + 1 = 2 * q + 2
    BY <1>1, <1>6, <1>12
  <2>2. /\ t.text = SubSeq(line, start, end - 1) /\ t.line = Zero(line, end)
        /\ t.save = IF Cell(line, end) = NUL THEN end ELSE end + 1
    <3> DEFINE s == Skip(line, i, Blank)
               e == Find(line, s, Blank)
    <3>1. /\ t.at = s /\ t.text = SubSeq(line, s, e - 1) /\ t.line = Zero(line, e)
          /\ t.save = IF Cell(line, e) = NUL THEN e ELSE e + 1
      <4>1. t.at = s /\ t.line = Zero(line, e)
        BY <1>4 DEF strtok
      <4>2. t.text = SubSeq(line, s, e - 1)
        BY <1>4, TokenText
      <4>3. t.save = IF Cell(line, e) = NUL THEN e ELSE e + 1
        BY <1>4 DEF strtok
      <4>4. QED
        BY <4>1, <4>2, <4>3
    <3> HIDE DEF s
    <3>2. s = start
      BY <1>10, <3>1
    <3>3. e = end
      BY <3>2
    <3> HIDE DEF e, end, start
    <3>4. QED
      BY <3>1, <3>2, <3>3
  <2>3. /\ end \in start..(L + 1) /\ Cell(line, end) \in Blank \cup {NUL}
        /\ \A k \in start..(end - 1) : Cell(line, k) \notin Blank \cup {NUL}
    BY <1>1, <2>1, FindPlace DEF L
  <2> HIDE DEF end
  <2>4. end = start + 1
    <3>1. end # start
      BY <1>7, <1>12, <2>3 DEF Word
    <3>2. end > start + 1 => start + 1 \in start..(end - 1)
      BY <2>1, <2>3
    <3>3. ~(end > start + 1)
      BY <1>7, <1>12, <2>1, <2>3, <3>2
    <3>4. QED
      BY <2>1, <2>3, <3>1, <3>3
  <2>5. t.save = 2 * q + 3
    <3>1. Cell(line, end) # NUL
      BY <1>3, <1>7, <1>12, <2>1, <2>4
    <3>2. QED
      BY <2>2, <2>4, <3>1
  <2>6. Cell(line, start) = line[start] /\ start \in 1..L
    BY <2>1, <1>1 DEF Cell, L
  <2>7. t.text = <<w[q + 1]>>
    <3>1. SubSeq(line, start, start) = <<line[start]>>
      <4>1. line \in Seq(Cells) /\ start \in 1..Len(line)
        BY <1>1, <2>6 DEF L
      <4>2. QED
        BY <4>1, OneCell
    <3>2. end - 1 = start
      BY <2>4
    <3>3. QED
      BY <1>7, <1>12, <2>2, <2>6, <3>1, <3>2
  <2>8. end \in Nat \ {0} /\ end \in 1..L
    BY <1>1, <2>1, <2>4
  <2>9. /\ Len(Zero(line, end)) = L
        /\ \A j \in 1..L : Zero(line, end)[j] = IF j = end THEN NUL ELSE line[j]
    BY <1>1, <1>3, <2>8, ZeroType DEF L
  <2>10. Cell(t.line, start) = line[start] /\ Cell(t.line, end) = NUL
    BY <2>1, <2>2, <2>4, <2>6, <2>8, <2>9 DEF Cell
  <2>11. QED
    BY <1>7, <1>12, <2>1, <2>4, <2>5, <2>6, <2>7, <2>10
<1>13. QED
  BY <1>10, <1>11, <1>12

\* What is left of the line after a step that has not touched it can be read as before.
LEMMA StillLegible ==
  ASSUME NEW w, NEW z \in Nat, Legible(w, z), Len(line) \in Nat, Len(line') = Len(line),
         Place \in Nat, Place' \in Nat, Place' >= Place, Place' <= 2 * z + 1,
         \A x \in Place'..Len(line) : line'[x] = line[x]
  PROVE  Legible(w, z)'
<1>1. /\ 2 * z <= Len(line) /\ Cell(line, 2 * z + 1) = NUL
      /\ \A x \in 1..z : /\ Word(w[x])
                         /\ 2 * x - 1 >= Place => line[2 * x - 1] = w[x]
                         /\ 2 * x >= Place => line[2 * x] \in Blank
  BY DEF Legible
<1> HIDE DEF Place
<1>2. Cell(line', 2 * z + 1) = NUL
  <2>1. CASE 2 * z + 1 <= Len(line)
    BY <1>1, <2>1 DEF Cell
  <2>2. CASE ~(2 * z + 1 <= Len(line))
    BY <2>2 DEF Cell
  <2>3. QED
    BY <2>1, <2>2
<1>3. ASSUME NEW x \in 1..z
      PROVE  /\ 2 * x - 1 >= Place' => line'[2 * x - 1] = w[x]
             /\ 2 * x >= Place' => line'[2 * x] \in Blank
  <2>1. 2 * x - 1 <= Len(line) /\ 2 * x <= Len(line)
    BY <1>1
  <2> DEFINE p == Place'
             i == Place
             l == line'
  <2>2. /\ p \in Nat /\ i \in Nat /\ p >= i /\ \A y \in p..Len(line) : l[y] = line[y]
        /\ 2 * x - 1 >= i => line[2 * x - 1] = w[x]
        /\ 2 * x >= i => line[2 * x] \in Blank
    BY <1>1
  <2> HIDE DEF p, i, l, Blank
  <2>3. 2 * x - 1 >= p => 2 * x - 1 \in p..Len(line) /\ 2 * x - 1 >= i
    BY <2>1, <2>2
  <2>4. 2 * x >= p => 2 * x \in p..Len(line) /\ 2 * x >= i
    BY <2>1, <2>2
  <2>5. /\ 2 * x - 1 >= p => l[2 * x - 1] = w[x]
        /\ 2 * x >= p => l[2 * x] \in Blank
    BY <2>2, <2>3, <2>4
  <2>6. QED
    BY <2>5 DEF p, l
<1>4. QED
  BY <1>1, <1>2, <1>3 DEF Legible

\* A block comment of m words behind the q-th, and the brace that closes it.
Closing == "}"

Encloses(w, q, m) ==
  /\ w[q + 1] = Opening /\ w[q + m + 2] = Closing
  /\ \A x \in (q + 2)..(q + m + 1) : w[x] # Closing

\* It is passed over up to that brace.
LEMMA CommentPassed ==
  ASSUME ReaderInv, parseComment, NEW w, NEW z \in Nat, Legible(w, z), NEW q \in 0..z, Behind(q),
         NEW m \in Nat, m > 0, q + m + 2 <= z, Encloses(w, q, m)
  PROVE  /\ stage' = stage /\ save' = 2 * (q + m + 2) /\ Len(line') = Len(line)
         /\ \A x \in save'..Len(line) : line'[x] = line[x]
<1> DEFINE closing == {Closing}
           L == Len(line)
<1>1. stage \in {"command", "argument"}
  BY DEF parseComment
<1>2. PICK t : t = Token
  OBVIOUS
<1>3. IF Cell(t.line, Find(t.line, t.at, closing)) = Closing
      THEN Take([t EXCEPT !.line = Zero(t.line, Find(t.line, t.at, closing))]) /\ stage' = stage
      ELSE /\ Take(strtok(t.line, t.save, closing))
           /\ stage' = IF strtok(t.line, t.save, closing).found THEN stage ELSE "failed"
  BY <1>2, Zenon DEF parseComment, Closing
<1>4. NUL \notin closing /\ Closing # Opening /\ Closing \notin Blank
  <2>1. NUL # Closing
    BY Zenon DEF NUL, Closing
  <2>2. Closing # Opening
    BY Zenon DEF Closing, Opening
  <2>3. Closing \notin Blank
    BY Zenon DEF Closing, Blank
  <2>4. QED
    BY <2>1, <2>2, <2>3
<1>5. /\ t.line \in Seq(Cells) /\ Len(t.line) = L /\ L \in Nat
      /\ \A j \in t.save..L : t.line[j] = line[j]
  BY <1>1, <1>2, TokenHere
<1>6. /\ t.at = 2 * q + 1 /\ t.save = 2 * q + 3
      /\ Cell(t.line, 2 * q + 1) = w[q + 1] /\ Cell(t.line, 2 * q + 2) = NUL
  BY <1>1, <1>2, NextWord
<1>7. /\ 2 * z <= L
      /\ \A x \in 1..z : /\ Word(w[x])
                         /\ 2 * x - 1 >= Place => line[2 * x - 1] = w[x]
                         /\ 2 * x >= Place => line[2 * x] \in Blank
  BY DEF Legible
<1>8. Place = 2 * q \/ Place = 2 * q + 1
  BY DEF Behind
<1>9. NUL \in Cells /\ NUL \notin Blank
  BY DEF Cells, Blank, NUL
<1> HIDE DEF Cells, closing, L, Place, Blank
<1>10. Cell(t.line, Find(t.line, t.at, closing)) # Closing
  <2> DEFINE f == Find(t.line, t.at, closing)
  <2>1. t.at \in 1..(Len(t.line) + 1) /\ 2 * q + 2 <= L
    BY <1>5, <1>6, <1>7
  <2>2. /\ f \in t.at..(Len(t.line) + 1) /\ Cell(t.line, f) \in closing \cup {NUL}
        /\ \A k \in t.at..(f - 1) : Cell(t.line, k) \notin closing \cup {NUL}
    BY <1>5, <2>1, FindPlace
  <2> HIDE DEF f
  <2>3. Cell(t.line, 2 * q + 1) \notin closing \cup {NUL}
    <3>1. q + 1 \in 1..z
      OBVIOUS
    <3>2. w[q + 1] # NUL
      BY <1>7, <3>1 DEF Word
    <3>3. QED
      BY <1>4, <1>6, <3>2 DEF closing, Encloses
  <2>4. f # 2 * q + 1
    BY <2>2, <2>3
  <2>5. f > 2 * q + 2 => 2 * q + 2 \in t.at..(f - 1)
    BY <1>5, <1>6, <2>2
  <2>6. f = 2 * q + 2
    <3>1. ~(f > 2 * q + 2)
      BY <1>6, <2>2, <2>5
    <3>2. QED
      BY <1>5, <1>6, <2>2, <2>4, <3>1
  <2>7. QED
    BY <1>4, <1>6, <2>6 DEF f, closing
<1> DEFINE u == strtok(t.line, t.save, closing)
           P == 2 * (q + m + 2) - 1
           i == t.save
           l == t.line
<1>11. Take(u) /\ stage' = IF u.found THEN stage ELSE "failed"
  BY <1>3, <1>10
<1>12. l \in Seq(Cells) /\ Len(l) = L /\ i = 2 * q + 3 /\ P + 1 <= L /\ i <= P /\ P \in Nat /\ i \in Nat
  BY <1>5, <1>6, <1>7
<1>13. ASSUME NEW x \in i..P
       PROVE  /\ x < P => Cell(l, x) \notin closing \cup {NUL}
              /\ x = P => Cell(l, x) = Closing
  <2>1. x \in Nat /\ x <= L /\ x \in 1..(2 * (q + m + 2))
    BY <1>12
  <2>2. Cell(l, x) = line[x]
    <3>1. l[x] = line[x]
      BY <1>5, <1>12, <2>1
    <3>2. QED
      BY <1>12, <2>1, <3>1 DEF Cell
  <2>3. PICK y \in 1..(q + m + 2) : x = 2 * y - 1 \/ x = 2 * y
    <3>1. q + m + 2 \in Nat
      OBVIOUS
    <3>2. QED
      BY <2>1, <3>1, OddOrEven
  <2>4. y \in 1..z /\ y >= q + 2
    BY <1>12, <2>3
  <2>5. 2 * y - 1 >= Place /\ 2 * y >= Place
    BY <1>8, <2>4
  <2>6. line[2 * y - 1] = w[y] /\ line[2 * y] \in Blank /\ Word(w[y])
    BY <1>7, <2>4, <2>5
  <2>7. CASE x = 2 * y
    <3>1. x # P
      BY <2>7
    <3>2. QED
      BY <1>4, <1>9, <2>2, <2>6, <2>7, <3>1 DEF closing
  <2>8. CASE x = 2 * y - 1
    <3>1. x < P => y \in (q + 2)..(q + m + 1)
      BY <2>4, <2>8
    <3>2. x = P => y = q + m + 2
      BY <2>8
    <3>3. x < P => w[y] # Closing
      BY <3>1 DEF Encloses
    <3>4. x = P => w[y] = Closing
      BY <3>2 DEF Encloses
    <3>5. QED
      BY <2>2, <2>6, <2>8, <3>3, <3>4 DEF closing, Word
  <2>9. QED
    BY <2>3, <2>7, <2>8
<1>14. i \in 1..(Len(l) + 1)
  BY <1>12
<1> DEFINE s == Skip(l, i, closing)
<1>15. s = i
  <2>1. /\ s \in i..(Len(l) + 1) /\ \A k \in i..(s - 1) : Cell(l, k) \in closing
    BY <1>4, <1>12, <1>14, SkipPlace
  <2>2. Cell(l, i) \notin closing
    <3>1. i \in i..P /\ i < P
      BY <1>12
    <3>2. QED
      BY <1>13, <3>1
  <2> HIDE DEF s
  <2>3. s # i => i \in i..(s - 1)
    BY <1>12, <2>1
  <2>4. QED
    BY <2>1, <2>2, <2>3
<1> DEFINE e == Find(l, i, closing)
<1>16. e = P
  <2>1. /\ e \in i..(Len(l) + 1) /\ Cell(l, e) \in closing \cup {NUL}
        /\ \A k \in i..(e - 1) : Cell(l, k) \notin closing \cup {NUL}
    BY <1>12, <1>14, FindPlace
  <2> HIDE DEF e
  <2>2. ~(e < P)
    <3>1. e < P => e \in i..P
      BY <1>12, <2>1
    <3>2. QED
      BY <1>13, <2>1, <3>1
  <2>3. ~(e > P)
    <3>1. P \in i..P /\ Cell(l, P) = Closing
      BY <1>12, <1>13
    <3>2. e > P => P \in i..(e - 1)
      BY <1>12, <2>1
    <3>3. QED
      BY <2>1, <3>1, <3>2 DEF closing
  <2>4. QED
    BY <1>12, <2>1, <2>2, <2>3
<1>17. Cell(l, P) = Closing /\ Cell(l, i) # NUL
  <2>1. P \in i..P /\ i \in i..P /\ i < P
    BY <1>12
  <2>2. QED
    BY <1>13, <2>1
<1>18. u.found /\ u.save = P + 1 /\ u.line = Zero(l, P)
  <2>1. /\ u.found = (Cell(l, s) # NUL)
        /\ u.line = Zero(l, Find(l, s, closing))
        /\ u.save = IF Cell(l, Find(l, s, closing)) = NUL THEN Find(l, s, closing)
                    ELSE Find(l, s, closing) + 1
    BY DEF strtok
  <2>2. Closing # NUL
    BY <1>4 DEF closing
  <2> HIDE DEF u, s
  <2>3. /\ u.found = (Cell(l, i) # NUL) /\ u.line = Zero(l, e)
        /\ u.save = IF Cell(l, e) = NUL THEN e ELSE e + 1
    BY <1>15, <2>1
  <2> HIDE DEF e
  <2>4. QED
    BY <1>16, <1>17, <2>2, <2>3
<1> HIDE DEF u, e, s
<1>19. stage' = stage /\ line' = Zero(l, P) /\ save' = P + 1
  BY <1>11, <1>18 DEF Take
<1>20. /\ Len(Zero(l, P)) = L
       /\ \A j \in 1..L : Zero(l, P)[j] = IF j = P THEN NUL ELSE l[j]
  <2>1. P \in Nat \ {0}
    BY <1>12
  <2>2. QED
    BY <1>9, <1>12, <2>1, ZeroType
<1>21. \A x \in save'..L : line'[x] = line[x]
  <2> TAKE x \in save'..L
  <2>1. x \in 1..L /\ x # P /\ x \in t.save..L
    BY <1>12, <1>19
  <2>2. QED
    BY <1>5, <1>19, <1>20, <2>1
<1>22. P + 1 = 2 * (q + m + 2)
  OBVIOUS
<1>23. QED
  BY <1>19, <1>20, <1>21, <1>22 DEF L

---------------------------------------------------------------------------
(* The words of a written line.                                            *)

Semicolon == ";"

\* Words with a comment behind the a-th, or with none, lie in w behind the b-th, up to the e-th.
WordsLie(words, comment, a, w, b, e) ==
  IF a < 0
  THEN e = b + Len(words) /\ \A x \in 1..Len(words) : w[b + x] = words[x]
  ELSE /\ e = b + Len(words) + Len(comment) + 2
       /\ \A x \in 1..a : w[b + x] = words[x]
       /\ \A x \in (a + 1)..Len(words) : w[b + Len(comment) + 2 + x] = words[x]
       /\ Encloses(w, b + a, Len(comment))

CommandLies(c, w, b, e) == WordsLie(c.words, c.comment, c.at, w, b, e)

\* The lengths of two sequences with one cell between them, and of three with two.
LEMMA LengthsAdded ==
  /\ \A a, m, d, l \in Nat : d = a + 1 /\ l = d + m => l = a + 1 + m
  /\ \A a, k, n, m, p, z \in Nat : a + k = n /\ p = a + 1 + m /\ z = p + 1 + k => z = 0 + n + m + 2
OBVIOUS

\* Sequences with one cell between them.
Across(A, o, C) == A \o <<o>> \o C

Meets(v, A, a, o, C, m) ==
  /\ Len(v) = a + 1 + m
  /\ \A x \in 1..a : v[x] = A[x]
  /\ v[a + 1] = o
  /\ \A x \in 1..m : v[a + 1 + x] = C[x]

\* Each cell has its place in them.
LEMMA Appended ==
  ASSUME NEW S, NEW A, A \in Seq(S), NEW a \in Nat, a = Len(A), NEW o \in S,
         NEW C, C \in Seq(S), NEW m \in Nat, m = Len(C), NEW v, v = Across(A, o, C)
  PROVE  v \in Seq(S) /\ Meets(v, A, a, o, C, m)
<1>1. PICK D : D = A \o <<o>>
  OBVIOUS
<1>2. D \in Seq(S) /\ Len(D) = a + 1 /\ D[a + 1] = o /\ \A x \in 1..a : D[x] = A[x]
  BY <1>1
<1>3. v = D \o C
  BY <1>1 DEF Across
<1>4. v \in Seq(S)
  BY <1>2, <1>3
<1>8. Len(v) = a + 1 + m
  <2>1. Len(D \o C) = Len(D) + Len(C)
    BY <1>2, ConcatProperties
  <2>2. Len(D) \in Nat /\ Len(v) \in Nat
    BY <1>2, <1>4
  <2>3. Len(v) = Len(D) + m
    BY <1>3, <2>1
  <2>4. QED
    BY <1>2, <2>2, <2>3, LengthsAdded
<1>5. \A x \in 1..(a + 1) : v[x] = D[x]
  BY <1>2, <1>3
<1>6. \A x \in 1..m : v[a + 1 + x] = C[x]
  BY <1>2, <1>3
<1>7. QED
  <2> HIDE DEF Across
  <2>1. \A x \in 1..(a + 1) : x \in 1..a \/ x = a + 1
    OBVIOUS
  <2>2. \A x \in 1..a : x \in 1..(a + 1) /\ a + 1 \in 1..(a + 1)
    OBVIOUS
  <2>3. a + 1 \in 1..(a + 1)
    OBVIOUS
  <2>4. \A x \in 1..a : v[x] = A[x]
    BY <1>2, <1>5, <2>2
  <2>5. v[a + 1] = o
    BY <1>2, <1>5, <2>3
  <2>6. QED
    BY <1>4, <1>6, <1>8, <2>4, <2>5 DEF Meets

\* Words cut in two, and a comment that may stand between the parts.
Halves(words, n, A, a, B, k, S) ==
  /\ n = Len(words) /\ n \in Nat /\ a \in Nat /\ k \in Nat /\ a + k = n
  /\ A \in Seq(S) /\ Len(A) = a /\ \A x \in 1..a : A[x] = words[x]
  /\ B \in Seq(S) /\ Len(B) = k /\ \A x \in 1..k : B[x] = words[a + x]

Enclosed(C, m, S) ==
  /\ C \in Seq(S) /\ m \in Nat /\ m = Len(C) /\ \A x \in 1..m : C[x] # Closing
  /\ Opening \in S /\ Closing \in S

\* The words of a command with a comment.
LEMMA WordsLaid ==
  ASSUME NEW S, NEW words, NEW n, NEW C, NEW m, NEW A, NEW a, NEW B, NEW k,
         Halves(words, n, A, a, B, k, S), Enclosed(C, m, S),
         NEW v, v = Across(Across(A, Opening, C), Closing, B)
  PROVE  v \in Seq(S) /\ Len(v) \in Nat /\ WordsLie(words, C, a, v, 0, Len(v))
<1> DEFINE o == Opening
           c == Closing
<1>18. /\ n = Len(words) /\ n \in Nat /\ a \in Nat /\ k \in Nat /\ a + k = n
       /\ A \in Seq(S) /\ Len(A) = a /\ \A x \in 1..a : A[x] = words[x]
       /\ B \in Seq(S) /\ Len(B) = k /\ \A x \in 1..k : B[x] = words[a + x]
  BY DEF Halves
<1>19. /\ C \in Seq(S) /\ m \in Nat /\ m = Len(C) /\ \A x \in 1..m : C[x] # c
       /\ o \in S /\ c \in S
  BY DEF Enclosed
<1>1. PICK p \in Nat : p = a + 1 + m
  BY <1>18, <1>19
<1>2. PICK D : D = Across(A, o, C)
  OBVIOUS
<1>9. D \in Seq(S) /\ Meets(D, A, a, o, C, m)
  BY <1>18, <1>19, <1>2, Appended
<1>3. /\ Len(D) = a + 1 + m
      /\ \A x \in 1..a : D[x] = A[x]
      /\ D[a + 1] = o
      /\ \A x \in 1..m : D[a + 1 + x] = C[x]
  BY <1>9 DEF Meets
<1>4. v = Across(D, c, B)
  BY <1>2
<1>5. Len(D) = p
  BY <1>1, <1>3
<1>10. v \in Seq(S) /\ Meets(v, D, p, c, B, k)
  BY <1>18, <1>19, <1>4, <1>5, <1>9, Appended
<1>6. /\ Len(v) = p + 1 + k
      /\ \A x \in 1..p : v[x] = D[x]
      /\ v[p + 1] = c
      /\ \A x \in 1..k : v[p + 1 + x] = B[x]
  BY <1>10 DEF Meets
<1>7. PICK z \in Nat : z = Len(v) /\ z = p + 1 + k
  BY <1>18, <1>19, <1>6
<1> HIDE DEF Opening, Closing, Across
<1>8. z = 0 + n + m + 2
  <2>1. n \in Nat /\ a \in Nat /\ k \in Nat /\ m \in Nat /\ a + k = n
    BY <1>18, <1>19
  <2>2. QED
    BY <1>1, <1>7, <2>1, LengthsAdded
<1>12. ASSUME NEW x \in 1..a PROVE v[0 + x] = words[x]
  <2>1. x \in 1..p /\ 0 + x = x
    BY <1>18, <1>19, <1>1
  <2>2. QED
    BY <1>18, <1>19, <1>3, <1>6, <2>1
<1>13. ASSUME NEW x \in (a + 1)..n PROVE v[0 + m + 2 + x] = words[x]
  <2>1. x - a \in 1..k /\ p + 1 + (x - a) = 0 + m + 2 + x /\ a + (x - a) = x
    BY <1>18, <1>19, <1>1
  <2>2. v[p + 1 + (x - a)] = B[x - a] /\ B[x - a] = words[a + (x - a)]
    BY <1>18, <1>19, <1>6, <2>1
  <2>3. QED
    BY <2>1, <2>2
<1>14. Encloses(v, 0 + a, m)
  <2>1. v[a + 1] = Opening
    <3>1. a + 1 \in 1..p
      BY <1>18, <1>19, <1>1
    <3>2. QED
      BY <1>18, <1>19, <1>3, <1>6, <3>1
  <2>2. v[a + m + 2] = Closing
    <3>1. p + 1 = a + m + 2
      BY <1>18, <1>19, <1>1
    <3>2. QED
      BY <1>6, <3>1
  <2>3. ASSUME NEW x \in (a + 2)..(a + m + 1) PROVE v[x] # Closing
    <3>1. x - a - 1 \in 1..m /\ a + 1 + (x - a - 1) = x /\ x \in 1..p
      BY <1>18, <1>19, <1>1
    <3>2. D[a + 1 + (x - a - 1)] = C[x - a - 1] /\ v[x] = D[x]
      BY <1>18, <1>19, <1>3, <1>6, <3>1
    <3>3. QED
      BY <1>18, <1>19, <3>1, <3>2
  <2>4. 0 + a = a
    BY <1>18
  <2>5. QED
    BY <2>1, <2>2, <2>3, <2>4 DEF Encloses
<1>15. ~(a < 0)
  BY <1>18
<1>16. WordsLie(words, C, a, v, 0, z)
  BY <1>18, <1>19, <1>8, <1>12, <1>13, <1>14, <1>15 DEF WordsLie
<1>17. QED
  BY <1>7, <1>10, <1>16

\* They lie as well in a text that holds them.
LEMMA WordsMoved ==
  ASSUME NEW words, NEW n \in Nat, n = Len(words), NEW comment, NEW m \in Nat, m = Len(comment),
         NEW a \in Int, a <= n, NEW v, NEW e \in Nat, WordsLie(words, comment, a, v, 0, e),
         NEW w, NEW b \in Nat, \A x \in 1..e : w[b + x] = v[x]
  PROVE  WordsLie(words, comment, a, w, b, b + e)
<1>4. CASE a < 0
  <2>1. e = n /\ \A x \in 1..n : v[x] = words[x]
    <3>1. e = 0 + n /\ \A x \in 1..n : v[0 + x] = words[x]
      BY <1>4 DEF WordsLie
    <3>2. 0 + n = n /\ \A x \in 1..n : 0 + x = x
      OBVIOUS
    <3>3. QED
      BY <3>1, <3>2
  <2>2. \A x \in 1..n : w[b + x] = words[x]
    BY <2>1
  <2>3. QED
    BY <1>4, <2>1, <2>2 DEF WordsLie
<1>5. CASE ~(a < 0)
  <2>1. /\ e = 0 + n + m + 2
        /\ \A x \in 1..a : v[0 + x] = words[x]
        /\ \A x \in (a + 1)..n : v[0 + m + 2 + x] = words[x]
        /\ Encloses(v, 0 + a, m)
    BY <1>5 DEF WordsLie
  <2>2. /\ v[a + 1] = Opening /\ v[a + m + 2] = Closing
        /\ \A x \in (a + 2)..(a + m + 1) : v[x] # Closing
    <3>1. 0 + a = a
      OBVIOUS
    <3>2. QED
      BY <2>1, <3>1 DEF Encloses
  <2>3. e = n + m + 2 /\ a \in Nat
    BY <1>5, <2>1
  <2>4. ASSUME NEW x \in 1..a PROVE w[b + x] = words[x]
    <3>1. x \in 1..e /\ 0 + x = x
      BY <2>3
    <3>2. QED
      BY <2>1, <3>1
  <2>5. ASSUME NEW x \in (a + 1)..n PROVE w[b + m + 2 + x] = words[x]
    <3>1. m + 2 + x \in 1..e /\ 0 + m + 2 + x = m + 2 + x /\ b + (m + 2 + x) = b + m + 2 + x
      BY <2>3
    <3>2. QED
      BY <2>1, <3>1
  <2>6. Encloses(w, b + a, m)
    <3>1. w[b + a + 1] = Opening
      <4>1. a + 1 \in 1..e /\ b + (a + 1) = b + a + 1
        BY <2>3
      <4>2. QED
        BY <2>2, <4>1
    <3>2. w[b + a + m + 2] = Closing
      <4>1. a + m + 2 \in 1..e /\ b + (a + m + 2) = b + a + m + 2
        BY <2>3
      <4>2. QED
        BY <2>2, <4>1
    <3>3. ASSUME NEW x \in (b + a + 2)..(b + a + m + 1) PROVE w[x] # Closing
      <4>1. x - b \in (a + 2)..(a + m + 1) /\ x - b \in 1..e /\ b + (x - b) = x
        BY <2>3
      <4>2. QED
        BY <2>2, <4>1
    <3>4. QED
      BY <3>1, <3>2, <3>3 DEF Encloses
  <2>7. b + e = b + n + m + 2
    BY <2>3
  <2>8. QED
    BY <1>5, <2>4, <2>5, <2>6, <2>7 DEF WordsLie
<1>6. QED
  BY <1>4, <1>5

\* The commands of a line lie in its words, with a ';' between them and perhaps a remark
\* behind them.
Shape(l, w, from, to, z) ==
  /\ z \in Nat /\ z <= Len(w)
  /\ \A x \in 1..Len(w) : Word(w[x])
  /\ \A x \in 1..z : w[x] # Remark
  /\ z < Len(w) => w[z + 1] = Remark
  /\ Len(l.commands) = 0 => z = 0
  /\ Len(l.commands) > 0 => from[1] = 0 /\ to[Len(l.commands)] = z
  /\ \A j \in 1..Len(l.commands) :
       /\ from[j] \in Nat /\ to[j] \in Nat /\ to[j] <= z
       /\ CommandLies(l.commands[j], w, from[j], to[j])
       /\ j < Len(l.commands) => w[to[j] + 1] = Semicolon /\ from[j + 1] = to[j] + 1

\* What the commands of a line consist of, and the whole line.
Phrases(l) ==
  (UNION {Range(c.words) \cup Range(c.comment) : c \in Range(l.commands)})
    \cup {Opening, Closing, Semicolon}

Vocabulary(l) == Phrases(l) \cup {Remark} \cup Range(l.remark)

\* The marks are words, and none of a command's.
LEMMA MarkNames ==
  /\ Marks = {Opening, Closing, Semicolon, Remark}
  /\ Word(Opening) /\ Word(Closing) /\ Word(Semicolon) /\ Word(Remark)
  /\ Opening # Remark /\ Closing # Remark /\ Semicolon # Remark
  /\ Opening # Semicolon /\ Opening # Closing
<1>1. Marks = {Opening, Closing, Semicolon, Remark}
  BY Zenon DEF Marks, Opening, Closing, Semicolon, Remark
<1>2. Word(Opening)
  BY Zenon DEF Word, Opening, Blank, NUL
<1>3. Word(Closing)
  BY Zenon DEF Word, Closing, Blank, NUL
<1>4. Word(Semicolon)
  BY Zenon DEF Word, Semicolon, Blank, NUL
<1>5. Word(Remark)
  BY Zenon DEF Word, Remark, Blank, NUL
<1>6. Opening # Remark /\ Closing # Remark /\ Semicolon # Remark
  BY Zenon DEF Opening, Closing, Semicolon, Remark
<1>7. Opening # Semicolon /\ Opening # Closing
  BY Zenon DEF Opening, Closing, Semicolon
<1>8. QED
  BY <1>1, <1>2, <1>3, <1>4, <1>5, <1>6, <1>7

\* A command as it is written.
LEMMA WrittenFacts ==
  ASSUME NEW c, WrittenCommand(c)
  PROVE  /\ Complete(c.words) /\ Len(c.words) \in Nat /\ Len(c.comment) \in Nat
         /\ c.words \in Seq(Range(c.words)) /\ c.comment \in Seq(Range(c.comment))
         /\ c.at \in Int /\ c.at <= Len(c.words) /\ Len(c.words) <= MAX_COMMAND_ARGS + 1
         /\ c.at >= 0 => Len(c.comment) > 0
         /\ \A s \in Range(c.words) : Word(s) /\ s \notin {Opening, Closing, Semicolon, Remark}
         /\ \A s \in Range(c.comment) : Word(s) /\ s # Closing /\ s # Remark
<1>1. /\ IsSequence(c.words) /\ Complete(c.words)
      /\ Range(c.words) \cap Marks = {} /\ Len(c.words) <= MAX_COMMAND_ARGS + 1
      /\ IsSequence(c.comment)
      /\ c.at \in Int /\ c.at <= Len(c.words) /\ (c.at >= 0 => Len(c.comment) > 0)
  BY DEF WrittenCommand
<1>2. Range(c.comment) \cap (Blank \cup {NUL, Closing, Remark}) = {}
  BY Zenon DEF WrittenCommand, Closing, Remark
<1>3. Range(c.words) \cap (Blank \cup {NUL}) = {}
  BY <1>1 DEF Complete
<1>4. \A s \in Range(c.words) : Word(s) /\ s \notin {Opening, Closing, Semicolon, Remark}
  BY <1>1, <1>3, MarkNames DEF Word
<1>5. \A s \in Range(c.comment) : Word(s) /\ s # Closing /\ s # Remark
  BY <1>2 DEF Word
<1>6. c.words \in Seq(Range(c.words)) /\ c.comment \in Seq(Range(c.comment))
  BY <1>1 DEF IsSequence
<1>7. Len(c.words) \in Nat /\ Len(c.comment) \in Nat
  BY <1>6
<1>8. QED
  BY <1>1, <1>4, <1>5, <1>6, <1>7

\* The words of a command lie in themselves.
LEMMA CommandLaid ==
  ASSUME NEW c, WrittenCommand(c), NEW S, Range(c.words) \cup Range(c.comment) \subseteq S,
         Opening \in S, Closing \in S, NEW v, v = CommandWords(c)
  PROVE  v \in Seq(S) /\ Len(v) \in Nat /\ CommandLies(c, v, 0, Len(v))
<1>1. PICK words : words = c.words
  OBVIOUS
<1>2. PICK C : C = c.comment
  OBVIOUS
<1>3. c.at \in Int
  BY WrittenFacts
<1>4. PICK a \in Int : a = c.at
  BY <1>3
<1>5. /\ words \in Seq(Range(words)) /\ C \in Seq(Range(C)) /\ a <= Len(words)
      /\ \A s \in Range(C) : s # Closing
  BY <1>1, <1>2, <1>4, WrittenFacts
<1>6. words \in Seq(S) /\ C \in Seq(S)
  BY <1>1, <1>2, <1>5
<1>7. PICK n \in Nat : n = Len(words)
  BY <1>6
<1>8. PICK m \in Nat : m = Len(C)
  BY <1>6
<1>9. \A x \in 1..m : C[x] # Closing
  <2>1. \A x \in 1..m : C[x] \in Range(C)
    BY <1>5, <1>8
  <2>2. QED
    BY <1>5, <2>1
<1>10. CASE a < 0
  <2>1. v = words
    BY <1>1, <1>4, <1>10 DEF CommandWords
  <2>2. Len(v) = 0 + n /\ \A x \in 1..n : v[0 + x] = words[x]
    BY <1>7, <2>1
  <2>3. WordsLie(words, C, a, v, 0, Len(v))
    BY <1>7, <1>10, <2>2 DEF WordsLie
  <2>4. QED
    BY <1>1, <1>2, <1>4, <1>6, <1>7, <2>1, <2>3 DEF CommandLies
<1>11. CASE ~(a < 0)
  <2>1. PICK A : A = SubSeq(words, 1, a)
    OBVIOUS
  <2>2. PICK B : B = SubSeq(words, a + 1, n)
    OBVIOUS
  <2>3. a \in Nat /\ n - a \in Nat
    BY <1>5, <1>7, <1>11
  <2>4. PICK k \in Nat : a + k = n
    <3>1. a + (n - a) = n
      BY <2>3
    <3>2. QED
      BY <2>3, <3>1
  <2>5. A \in Seq(S) /\ Len(A) = a /\ \A x \in 1..a : A[x] = words[x]
    BY <1>6, <1>7, <2>1, <2>3, <2>4
  <2>6. B \in Seq(S) /\ Len(B) = k /\ \A x \in 1..k : B[x] = words[a + x]
    BY <1>6, <1>7, <2>2, <2>3, <2>4
  <2>7. v = A \o <<Opening>> \o C \o <<Closing>> \o B
    <3>1. ~(c.at < 0)
      BY <1>4, <1>11
    <3>2. v = SubSeq(c.words, 1, c.at) \o <<Opening>> \o c.comment \o <<Closing>>
                \o SubSeq(c.words, c.at + 1, Len(c.words))
      BY <3>1, Zenon DEF CommandWords, Opening, Closing
    <3>3. QED
      BY <1>1, <1>2, <1>4, <1>7, <2>1, <2>2, <3>2, Zenon
  <2>8. v = Across(Across(A, Opening, C), Closing, B)
    BY <2>7, Zenon DEF Across
  <2>9. v \in Seq(S) /\ Len(v) \in Nat /\ WordsLie(words, C, a, v, 0, Len(v))
    <3>1. Halves(words, n, A, a, B, k, S)
      BY <1>7, <2>3, <2>4, <2>5, <2>6 DEF Halves
    <3>2. Enclosed(C, m, S)
      BY <1>6, <1>8, <1>9 DEF Enclosed
    <3>3. QED
      BY <2>8, <3>1, <3>2, WordsLaid
  <2>10. QED
    BY <1>1, <1>2, <1>4, <2>9 DEF CommandLies
<1>12. QED
  BY <1>10, <1>11

\* They lie as well where a text holds them.
LEMMA CommandMoved ==
  ASSUME NEW c, WrittenCommand(c), NEW v, NEW e \in Nat, CommandLies(c, v, 0, e),
         NEW w, NEW b \in Nat, \A x \in 1..e : w[b + x] = v[x]
  PROVE  CommandLies(c, w, b, b + e)
<1>1. /\ Len(c.words) \in Nat /\ Len(c.comment) \in Nat
      /\ c.at \in Int /\ c.at <= Len(c.words)
  BY WrittenFacts
<1>2. WordsLie(c.words, c.comment, c.at, v, 0, e)
  BY DEF CommandLies
<1>3. WordsLie(c.words, c.comment, c.at, w, b, b + e)
  BY <1>1, <1>2, WordsMoved
<1>4. QED
  BY <1>3 DEF CommandLies

\* The words of a command, with a ';' in front of them or not.
LEMMA PieceCells ==
  ASSUME NEW S, Semicolon \in S, NEW v, v \in Seq(S), NEW first \in BOOLEAN,
         NEW q, q = (IF first THEN << >> ELSE <<Semicolon>>) \o v,
         NEW u, u = IF first THEN 0 ELSE 1
  PROVE  /\ q \in Seq(S) /\ Len(q) = u + Len(v)
         /\ \A x \in 1..Len(v) : q[u + x] = v[x]
         /\ ~first => q[1] = Semicolon
<1>1. PICK n \in Nat : n = Len(v)
  OBVIOUS
<1>2. CASE first
  <2>1. q = v /\ u = 0
    BY <1>2
  <2>2. \A x \in 1..n : 0 + x = x
    OBVIOUS
  <2>3. QED
    BY <1>1, <1>2, <2>1, <2>2
<1>3. CASE ~first
  <2>1. q = <<Semicolon>> \o v /\ u = 1
    BY <1>3
  <2>2. q \in Seq(S) /\ Len(q) = 1 + n
    BY <1>1, <2>1
  <2>3. q[1] = Semicolon /\ \A x \in 1..n : q[1 + x] = v[x]
    BY <1>1, <2>1
  <2>4. QED
    BY <1>1, <2>1, <2>2, <2>3
<1>4. QED
  BY <1>2, <1>3

\* What the commands of a line consist of are words.
LEMMA PhraseWords ==
  ASSUME NEW l, WrittenLine(l)
  PROVE  /\ \A s \in Phrases(l) : Word(s) /\ s # Remark
         /\ Opening \in Phrases(l) /\ Closing \in Phrases(l) /\ Semicolon \in Phrases(l)
         /\ Len(l.commands) \in Nat
         /\ \A j \in 1..Len(l.commands) :
              /\ WrittenCommand(l.commands[j])
              /\ Range(l.commands[j].words) \cup Range(l.commands[j].comment) \subseteq Phrases(l)
<1>1. IsSequence(l.commands) /\ \A j \in 1..Len(l.commands) : WrittenCommand(l.commands[j])
  BY DEF WrittenLine
<1>2. l.commands \in Seq(Range(l.commands))
  BY <1>1 DEF IsSequence
<1>3. /\ Len(l.commands) \in Nat
      /\ \A j \in 1..Len(l.commands) : l.commands[j] \in Range(l.commands)
      /\ \A c \in Range(l.commands) : \E j \in 1..Len(l.commands) : c = l.commands[j]
  <2> DEFINE s == l.commands
  <2>1. s \in Seq(Range(s))
    BY <1>2
  <2> HIDE DEF s
  <2>2. /\ Len(s) \in Nat /\ (\A j \in 1..Len(s) : s[j] \in Range(s))
        /\ \A c \in Range(s) : \E j \in 1..Len(s) : c = s[j]
    BY <2>1 DEF Range
  <2>3. QED
    BY <2>2 DEF s
<1>4. \A c \in Range(l.commands) : \A s \in Range(c.words) \cup Range(c.comment) : Word(s) /\ s # Remark
  <2> TAKE c \in Range(l.commands)
  <2>1. WrittenCommand(c)
    BY <1>1, <1>3
  <2>2. QED
    BY <2>1, WrittenFacts
<1>5. \A s \in Phrases(l) : Word(s) /\ s # Remark
  BY <1>4, MarkNames DEF Phrases
<1>6. QED
  BY <1>1, <1>3, <1>5 DEF Phrases

\* The words of every written line have their places.
LEMMA LineShapes ==
  ASSUME NEW l, WrittenLine(l), NEW w, w = LineWords(l)
  PROVE  /\ w \in Seq(Vocabulary(l)) /\ 2 * Len(w) < MAX_COMMAND_LEN
         /\ \E from, to, z : Shape(l, w, from, to, z)
<1> DEFINE S == Phrases(l)
           T == Vocabulary(l)
           J == Len(l.commands)
           piece(j) == (IF j > 1 THEN <<Semicolon>> ELSE << >>) \o CommandWords(l.commands[j])
<1>1. /\ \A s \in S : Word(s) /\ s # Remark
      /\ Opening \in S /\ Closing \in S /\ Semicolon \in S
      /\ J \in Nat
      /\ \A j \in 1..J : /\ WrittenCommand(l.commands[j])
                         /\ Range(l.commands[j].words) \cup Range(l.commands[j].comment) \subseteq S
  BY PhraseWords
<1>2. PICK pieces : pieces = [j \in 1..J |-> piece(j)]
  OBVIOUS
<1>3. PICK A : A = FlattenSeq(pieces)
  OBVIOUS
<1>4. PICK B : B = IF l.remark = << >> THEN << >> ELSE <<Remark>> \o l.remark
  OBVIOUS
<1>5. w = A \o B
  <2>1. w = FlattenSeq([j \in 1..J |-> piece(j)])
              \o (IF l.remark = << >> THEN << >> ELSE <<Remark>> \o l.remark)
    BY Zenon DEF LineWords, Semicolon, Remark
  <2>2. QED
    BY <1>2, <1>3, <1>4, <2>1
<1> DEFINE u == [j \in 1..J |-> IF j > 1 THEN 1 ELSE 0]
<1>6. ASSUME NEW j \in 1..J
      PROVE  /\ pieces[j] \in Seq(S)
             /\ \E v : /\ Len(v) \in Nat /\ CommandLies(l.commands[j], v, 0, Len(v))
                       /\ Len(pieces[j]) = u[j] + Len(v)
                       /\ \A x \in 1..Len(v) : pieces[j][u[j] + x] = v[x]
                       /\ j > 1 => pieces[j][1] = Semicolon
  <2> DEFINE c == l.commands[j]
             first == ~(j > 1)
             d == u[j]
             q == pieces[j]
  <2>1. PICK v : v = CommandWords(c)
    OBVIOUS
  <2>2. WrittenCommand(c) /\ Range(c.words) \cup Range(c.comment) \subseteq S
    BY <1>1
  <2>3. q = (IF first THEN << >> ELSE <<Semicolon>>) \o v
    BY <1>2, <2>1
  <2>4. d = IF first THEN 0 ELSE 1
    OBVIOUS
  <2>5. first \in BOOLEAN /\ Semicolon \in S /\ Opening \in S /\ Closing \in S
    BY <1>1
  <2> HIDE DEF S, q, d, c, first, piece, u
  <2>6. v \in Seq(S) /\ Len(v) \in Nat /\ CommandLies(c, v, 0, Len(v))
    BY <2>1, <2>2, <2>5, CommandLaid
  <2>7. /\ q \in Seq(S) /\ Len(q) = d + Len(v)
        /\ \A x \in 1..Len(v) : q[d + x] = v[x]
        /\ ~first => q[1] = Semicolon
    BY <2>3, <2>4, <2>5, <2>6, PieceCells
  <2>8. QED
    BY <2>6, <2>7 DEF q, d, c, first
<1> HIDE DEF S, T, J, piece, u
<1>7. pieces \in Seq(Seq(S)) /\ Len(pieces) = J
  <2> DEFINE V == Seq(S)
  <2>1. \A j \in 1..J : pieces[j] \in V
    BY <1>6
  <2>2. pieces = [j \in 1..J |-> pieces[j]]
    BY <1>2
  <2> HIDE DEF V
  <2>3. pieces \in Seq(V) /\ Len(pieces) = J
    BY <1>1, <2>1, <2>2
  <2>4. QED
    BY <2>3 DEF V
<1>8. PICK p : Parts(p, pieces)
  BY <1>7, PartsExist
<1>9. A \in Seq(S)
  <2>1. PICK f : f[Len(pieces)] = FlattenSeq(pieces) /\ Sums(f, pieces, Len(pieces), S)
    BY <1>7, FlattenSums
  <2>2. Len(pieces) \in 0..Len(pieces)
    BY <1>1, <1>7
  <2>3. QED
    BY <1>3, <2>1, <2>2 DEF Sums
<1>10. /\ p[0] = 0 /\ p[J] = Len(A)
       /\ \A j \in 0..J : p[j] \in Nat /\ p[j] <= p[J]
       /\ \A j \in 1..J : /\ p[j] = p[j - 1] + Len(pieces[j])
                          /\ \A k \in 1..Len(pieces[j]) : A[p[j - 1] + k] = pieces[j][k]
  BY <1>3, <1>7, <1>8 DEF Parts
<1>11. PICK z \in Nat : z = Len(A)
  BY <1>9
<1>12. B \in Seq(T) /\ (B # << >> => B[1] = Remark) /\ \A x \in 1..Len(B) : Word(B[x])
  <2>1. IsSequence(l.remark) /\ Range(l.remark) \cap (Blank \cup {NUL}) = {}
    BY DEF WrittenLine
  <2>2. PICK r : r = l.remark
    OBVIOUS
  <2>3. r \in Seq(Range(r)) /\ Range(r) \subseteq T /\ Remark \in T
    BY <2>1, <2>2 DEF IsSequence, T, Vocabulary
  <2>4. \A s \in Range(r) \cup {Remark} : Word(s)
    BY <2>1, <2>2, MarkNames DEF Word
  <2>5. PICK R : R = Range(r) \cup {Remark}
    OBVIOUS
  <2>6. r \in Seq(R)
    BY <2>3, <2>5
  <2>7. B \in Seq(R) /\ (B # << >> => B[1] = Remark)
    <3>1. CASE r = << >>
      BY <1>4, <2>2, <3>1
    <3>2. CASE r # << >>
      <4>1. B = <<Remark>> \o r /\ Remark \in R
        BY <1>4, <2>2, <2>5, <3>2
      <4> HIDE DEF Remark
      <4>2. QED
        BY <2>6, <4>1
    <3>3. QED
      BY <3>1, <3>2
  <2>8. \A x \in 1..Len(B) : B[x] \in R
    BY <2>7
  <2>9. B \in Seq(T)
    BY <2>3, <2>5, <2>7
  <2>10. QED
    BY <2>4, <2>5, <2>7, <2>8, <2>9
<1>13. A \in Seq(T)
  <2>1. S \subseteq T
    BY DEF S, T, Vocabulary
  <2>2. QED
    BY <1>9, <2>1
<1>14. PICK n \in Nat : n = Len(B)
  BY <1>12
<1>15. /\ w \in Seq(T) /\ Len(w) = z + n
       /\ \A x \in 1..z : w[x] = A[x]
       /\ \A x \in 1..n : w[z + x] = B[x]
  BY <1>5, <1>11, <1>12, <1>13, <1>14
<1>16. \A x \in 1..z : A[x] \in S
  BY <1>9, <1>11
<1>17. \A x \in 1..Len(w) : Word(w[x])
  <2> TAKE x \in 1..Len(w)
  <2>1. x \in 1..(z + n)
    BY <1>15
  <2>2. CASE x \in 1..z
    BY <1>1, <1>15, <1>16, <2>2
  <2>3. CASE x \notin 1..z
    <3>1. x - z \in 1..n /\ z + (x - z) = x
      BY <2>1, <2>3
    <3>2. QED
      BY <1>12, <1>14, <1>15, <3>1
  <2>4. QED
    BY <2>2, <2>3
<1>18. \A x \in 1..z : w[x] # Remark
  BY <1>1, <1>15, <1>16
<1>19. z < Len(w) => w[z + 1] = Remark
  <2> SUFFICES ASSUME z < Len(w) PROVE w[z + 1] = Remark
    OBVIOUS
  <2>1. n > 0
    BY <1>15
  <2>2. B # << >> /\ 1 \in 1..n
    BY <1>14, <2>1
  <2>3. QED
    BY <1>12, <1>15, <2>2
<1> DEFINE from == [j \in 1..J |-> p[j - 1] + u[j]]
           to   == [j \in 1..J |-> p[j]]
<1>20. ASSUME NEW j \in 1..J
       PROVE  /\ from[j] \in Nat /\ to[j] \in Nat /\ to[j] <= z
              /\ CommandLies(l.commands[j], w, from[j], to[j])
              /\ j < J => w[to[j] + 1] = Semicolon /\ from[j + 1] = to[j] + 1
  <2>1. j - 1 \in 0..J /\ j \in 0..J
    BY <1>1
  <2>2. PICK a \in Nat : a = p[j - 1]
    BY <1>10, <2>1
  <2>3. PICK b \in Nat : b = p[j] /\ b <= z
    BY <1>10, <1>11, <2>1
  <2>4. PICK d \in Nat : d = u[j]
    BY DEF u
  <2>5. PICK v : /\ Len(v) \in Nat /\ CommandLies(l.commands[j], v, 0, Len(v))
                 /\ Len(pieces[j]) = d + Len(v)
                 /\ \A x \in 1..Len(v) : pieces[j][d + x] = v[x]
    BY <1>6, <2>4
  <2>6. PICK e \in Nat : e = Len(v)
    BY <2>5
  <2>7. b = a + d + e /\ \A x \in 1..(d + e) : A[a + x] = pieces[j][x]
    <3>1. b = a + (d + e) /\ \A x \in 1..(d + e) : A[a + x] = pieces[j][x]
      BY <1>10, <2>2, <2>3, <2>5, <2>6
    <3>2. QED
      BY <3>1
  <2>8. ASSUME NEW x \in 1..e PROVE w[a + d + x] = v[x]
    <3>1. d + x \in 1..(d + e) /\ a + (d + x) = a + d + x /\ a + d + x \in 1..z
      BY <2>3, <2>7
    <3>2. QED
      BY <1>15, <2>5, <2>6, <2>7, <3>1
  <2>9. CommandLies(l.commands[j], w, a + d, a + d + e)
    <3>1. PICK c : c = l.commands[j]
      OBVIOUS
    <3>2. WrittenCommand(c) /\ CommandLies(c, v, 0, e)
      BY <1>1, <2>5, <2>6, <3>1
    <3>3. PICK g \in Nat : g = a + d
      OBVIOUS
    <3>4. \A x \in 1..e : w[g + x] = v[x]
      BY <2>8, <3>3
    <3>5. CommandLies(c, w, g, g + e)
      BY <3>2, <3>4, CommandMoved
    <3>6. QED
      BY <3>1, <3>3, <3>5
  <2>10. from[j] = a + d /\ to[j] = b
    BY <2>2, <2>3, <2>4
  <2>11. ASSUME j < J PROVE w[b + 1] = Semicolon /\ from[j + 1] = b + 1
    <3>1. PICK i \in 1..J : i = j + 1
      BY <1>1, <2>11
    <3>2. i > 1 /\ i - 1 = j /\ i \in 0..J
      BY <1>1, <3>1
    <3>3. u[i] = 1
      BY <3>2 DEF u
    <3>4. from[i] = b + 1
      BY <2>3, <3>2, <3>3
    <3>5. pieces[i][1] = Semicolon /\ Len(pieces[i]) \in Nat /\ Len(pieces[i]) >= 1
      <4>1. PICK y : /\ Len(y) \in Nat /\ Len(pieces[i]) = u[i] + Len(y)
                     /\ pieces[i][1] = Semicolon
        BY <1>6, <3>2
      <4>2. QED
        BY <3>3, <4>1
    <3>6. A[b + 1] = Semicolon
      <4>1. 1 \in 1..Len(pieces[i])
        BY <3>5
      <4>2. A[p[i - 1] + 1] = pieces[i][1]
        BY <1>10, <4>1
      <4>3. QED
        BY <2>3, <3>2, <3>5, <4>2
    <3>7. b + 1 \in 1..z
      <4>1. p[i] = p[i - 1] + Len(pieces[i]) /\ p[i] \in Nat /\ p[i] <= z
        BY <1>10, <1>11, <3>2
      <4>2. p[i] = b + Len(pieces[i])
        BY <2>3, <3>2, <4>1
      <4>3. QED
        BY <3>5, <4>1, <4>2
    <3>8. QED
      BY <1>15, <3>1, <3>4, <3>6, <3>7
  <2>12. QED
    <3> HIDE DEF from, to
    <3>1. a + d \in Nat
      OBVIOUS
    <3>2. QED
      BY <2>3, <2>7, <2>9, <2>10, <2>11, <3>1
<1>21. J = 0 => z = 0
  BY <1>10, <1>11
<1>22. J > 0 => from[1] = 0 /\ to[J] = z
  <2> SUFFICES ASSUME J > 0 PROVE from[1] = 0 /\ to[J] = z
    OBVIOUS
  <2>1. 1 \in 1..J /\ J \in 1..J /\ 1 - 1 = 0
    BY <1>1
  <2>2. u[1] = 0
    BY <2>1 DEF u
  <2>3. QED
    BY <1>10, <1>11, <2>1, <2>2
<1>23. Shape(l, w, from, to, z)
  <2> HIDE DEF from, to
  <2>1. z <= Len(w)
    BY <1>15
  <2>2. QED
    BY <1>17, <1>18, <1>19, <1>20, <1>21, <1>22, <2>1 DEF Shape, J
<1>24. 2 * Len(w) < MAX_COMMAND_LEN
  BY DEF WrittenLine
<1>25. QED
  BY <1>15, <1>23, <1>24 DEF T

---------------------------------------------------------------------------
(* A line of a document in the buffer.                                     *)

\* None of the words is cut of a line that fits the buffer.
LEMMA UncutLine ==
  ASSUME ReaderInv, ReadLine, NEW e \in 1..(Len(file) - read), file[read + e] = Newline,
         e < MAX_COMMAND_LEN
  PROVE  file' = file
<1>1. PICK h : h = file'
  OBVIOUS
<1>2. read < Len(file) /\ h \in AsCut
  BY <1>1, LineStep
<1>3. h = file
  BY <1>2, CutFile
<1>4. QED
  BY <1>1, <1>3

\* A line that fits the buffer is there to be read, up to its remark.
LEMMA WholeLine ==
  ASSUME ReaderInv, ReadLine, NEW w, NEW n \in Nat, n = Len(w), n > 0,
         2 * n <= Len(file) - read, 2 * n < MAX_COMMAND_LEN, Spells(file, read, w),
         \A x \in 1..n : Word(w[x]),
         NEW z \in Nat, z <= n, \A x \in 1..z : w[x] # Remark, z < n => w[z + 1] = Remark
  PROVE  /\ file' = file /\ Legible(w, z)' /\ read' = read + 2 * n /\ Place' = 1
         /\ Len(line') \in Nat
<1>25. file' = file
  <2>1. IsSequence(file) /\ read \in Nat /\ Len(file) \in Nat
    BY DEF ReaderInv, ReaderTypes, IsSequence
  <2>2. PICK e \in 1..(Len(file) - read) : e = 2 * n
    BY <2>1
  <2>3. n \in 1..n /\ ~(n < n)
    OBVIOUS
  <2>4. file[read + e] = Newline
    BY <2>1, <2>2, <2>3 DEF Spells
  <2>5. QED
    BY <2>2, <2>4, UncutLine
<1>1. /\ fresh' = TRUE /\ Len(line') \in 1..(Len(file) - read) /\ read' = read + Len(line')
  BY <1>25, LineStep
<1> DEFINE remark == {Remark}
<1>2. PICK f : f = Fetched(file)
  OBVIOUS
<1>3. read < Len(file) /\ line' = Zero(f, Find(f, 1, remark))
  BY <1>2, <1>25, Zenon DEF ReadLine, Remark
<1>26. IsSequence(file) /\ read \in Nat
  BY DEF ReaderInv, ReaderTypes, IsSequence
<1>4. /\ f \in Seq(Cells) /\ Len(f) \in 1..(Len(file) - read)
      /\ \A j \in 1..Len(f) : f[j] = file[read + j]
  <2>1. Range(file) \subseteq Cells
    BY DEF Cells
  <2>2. /\ f \in Seq(Range(file)) /\ Len(f) \in 1..(Len(file) - read)
        /\ \A j \in 1..Len(f) : f[j] = file[read + j]
    BY <1>2, <1>3, <1>26, FetchedPlace
  <2> DEFINE R == Range(file)
             C == Cells
  <2>3. f \in Seq(R) /\ R \subseteq C
    BY <2>1, <2>2
  <2> HIDE DEF R, C
  <2>4. f \in Seq(C)
    BY <2>3
  <2>5. QED
    BY <2>2, <2>4 DEF C
<1>5. NUL \in Cells
  BY DEF Cells
<1>6. read \in Nat /\ Len(file) \in Nat
  BY DEF ReaderInv, ReaderTypes, IsSequence
<1>7. Newline # NUL /\ Space # NUL /\ Newline # Space /\ Newline \in Blank /\ Space \in Blank
  <2>1. Newline # NUL
    BY Zenon DEF Newline, NUL
  <2>2. Space # NUL
    BY Zenon DEF Space, NUL
  <2>3. Newline # Space
    BY Zenon DEF Newline, Space
  <2>4. Newline \in Blank /\ Space \in Blank
    BY Zenon DEF Newline, Space, Blank
  <2>5. QED
    BY <2>1, <2>2, <2>3, <2>4
<1>8. Remark # Newline /\ Remark # Space /\ Remark # NUL
  BY <1>7, MarkNames DEF Word
<1> HIDE DEF Cells, Blank
<1>9. ASSUME NEW x \in 1..n
      PROVE  /\ file[read + (2 * x - 1)] = w[x]
             /\ x < n => file[read + 2 * x] = Space
             /\ x = n => file[read + 2 * x] = Newline
  <2>1. read + 2 * x - 1 = read + (2 * x - 1)
    BY <1>6
  <2>2. QED
    BY <2>1 DEF Spells
<1>10. \A x \in 1..(2 * n - 1) : file[read + x] \notin {Newline, NUL}
  <2> TAKE x \in 1..(2 * n - 1)
  <2>1. x \in 1..(2 * n)
    OBVIOUS
  <2>2. PICK y \in 1..n : x = 2 * y - 1 \/ x = 2 * y
    BY <2>1, OddOrEven
  <2>3. CASE x = 2 * y - 1
    <3>1. file[read + x] = w[y] /\ Word(w[y])
      BY <1>9, <2>3
    <3>2. QED
      BY <1>7, <3>1 DEF Word
  <2>4. CASE x = 2 * y
    <3>1. y < n
      BY <2>4
    <3>2. file[read + x] = Space
      BY <1>9, <2>4, <3>1
    <3>3. QED
      BY <1>7, <3>2
  <2>5. QED
    BY <2>2, <2>3, <2>4
<1>11. Len(f) = 2 * n
  <2>1. PICK e \in 1..(Len(file) - read) : e = 2 * n
    BY <1>6
  <2>2. n \in 1..n
    OBVIOUS
  <2>3. file[read + e] = Newline
    BY <1>9, <2>1, <2>2
  <2>4. Len(f) <= e
    BY <1>2, <1>3, <1>26, <2>3, FetchedEnds
  <2>5. e < MAX_COMMAND_LEN /\ \A x \in 1..(e - 1) : file[read + x] \notin {Newline, NUL}
    BY <1>10, <2>1
  <2>6. Len(f) >= e
    BY <1>2, <1>3, <1>26, <2>5, FetchedFar
  <2>7. QED
    BY <1>4, <1>6, <2>1, <2>4, <2>6
<1>12. ASSUME NEW x \in 1..n
       PROVE  f[2 * x - 1] = w[x] /\ f[2 * x] \in {Space, Newline}
  <2>1. 2 * x - 1 \in 1..(2 * n) /\ 2 * x \in 1..(2 * n)
    OBVIOUS
  <2>2. f[2 * x - 1] = file[read + (2 * x - 1)] /\ f[2 * x] = file[read + 2 * x]
    BY <1>4, <1>11, <2>1
  <2>3. x < n \/ x = n
    OBVIOUS
  <2>4. QED
    BY <1>9, <2>2, <2>3
<1> DEFINE g == Find(f, 1, remark)
<1>13. /\ g \in 1..(Len(f) + 1) /\ Cell(f, g) \in remark \cup {NUL}
       /\ \A k \in 1..(g - 1) : Cell(f, k) \notin remark \cup {NUL}
  <2>1. 1 \in 1..(Len(f) + 1)
    BY <1>11
  <2>2. QED
    BY <1>4, <2>1, FindPlace
<1>14. line' = Zero(f, g)
  BY <1>3
<1> HIDE DEF g
<1>15. Cell(f, 2 * z + 1) \in remark \cup {NUL}
  <2>1. CASE z < n
    <3>1. z + 1 \in 1..n /\ 2 * (z + 1) - 1 = 2 * z + 1 /\ 2 * z + 1 <= 2 * n
      BY <2>1
    <3>2. f[2 * z + 1] = Remark
      BY <1>12, <2>1, <3>1
    <3>3. QED
      BY <1>11, <3>1, <3>2 DEF Cell
  <2>2. CASE z = n
    <3>1. ~(2 * z + 1 <= 2 * n)
      BY <2>2
    <3>2. QED
      BY <1>11, <3>1 DEF Cell
  <2>3. QED
    BY <2>1, <2>2
<1>16. ASSUME NEW x \in 1..(2 * z) PROVE Cell(f, x) \notin remark \cup {NUL}
  <2>1. PICK y \in 1..z : x = 2 * y - 1 \/ x = 2 * y
    BY OddOrEven
  <2>2. y \in 1..n /\ x <= 2 * n
    OBVIOUS
  <2>3. Cell(f, x) = f[x]
    BY <1>11, <2>2 DEF Cell
  <2>4. CASE x = 2 * y - 1
    <3>1. f[x] = w[y] /\ Word(w[y]) /\ w[y] # Remark
      BY <1>12, <2>2, <2>4
    <3>2. QED
      BY <2>3, <3>1 DEF Word
  <2>5. CASE x = 2 * y
    <3>1. f[x] \in {Space, Newline}
      BY <1>12, <2>2, <2>5
    <3>2. QED
      BY <1>7, <1>8, <2>3, <3>1
  <2>6. QED
    BY <2>1, <2>4, <2>5
<1> HIDE DEF remark
<1>17. g = 2 * z + 1
  <2>1. ~(g < 2 * z + 1)
    <3>1. g < 2 * z + 1 => g \in 1..(2 * z)
      BY <1>11, <1>13
    <3>2. QED
      BY <1>13, <1>16, <3>1
  <2>2. ~(g > 2 * z + 1)
    <3>1. g > 2 * z + 1 => 2 * z + 1 \in 1..(g - 1)
      BY <1>11, <1>13
    <3>2. QED
      BY <1>13, <1>15, <3>1
  <2>3. QED
    BY <1>11, <1>13, <2>1, <2>2
<1>18. /\ Len(Zero(f, g)) = Len(f)
       /\ \A j \in 1..Len(f) : Zero(f, g)[j] = IF j = g THEN NUL ELSE f[j]
  <2>1. g \in Nat \ {0}
    BY <1>17
  <2>2. QED
    BY <1>4, <1>5, <2>1, ZeroType
<1>19. PICK l : l = line'
  OBVIOUS
<1>20. Len(l) = 2 * n /\ \A j \in 1..(2 * n) : l[j] = IF j = 2 * z + 1 THEN NUL ELSE f[j]
  BY <1>11, <1>14, <1>17, <1>18, <1>19
<1>21. Cell(l, 2 * z + 1) = NUL
  <2>1. CASE 2 * z + 1 <= 2 * n
    <3>1. 2 * z + 1 \in 1..(2 * n)
      BY <2>1
    <3>2. QED
      BY <1>20, <2>1, <3>1 DEF Cell
  <2>2. CASE ~(2 * z + 1 <= 2 * n)
    BY <1>20, <2>2 DEF Cell
  <2>3. QED
    BY <2>1, <2>2
<1>22. ASSUME NEW x \in 1..z PROVE l[2 * x - 1] = w[x] /\ l[2 * x] \in Blank
  <2>1. /\ x \in 1..n /\ 2 * x - 1 \in 1..(2 * n) /\ 2 * x \in 1..(2 * n)
        /\ 2 * x - 1 # 2 * z + 1 /\ 2 * x # 2 * z + 1
    OBVIOUS
  <2>2. l[2 * x - 1] = f[2 * x - 1] /\ l[2 * x] = f[2 * x]
    BY <1>20, <2>1
  <2>3. QED
    BY <1>7, <1>12, <2>1, <2>2
<1>23. Place' = 1
  BY <1>1 DEF Place
<1>24. Legible(w, z)'
  <2>1. 2 * z <= Len(l)
    BY <1>20
  <2>2. \A x \in 1..z : Word(w[x])
    OBVIOUS
  <2>3. QED
    BY <1>19, <1>21, <1>22, <2>1, <2>2 DEF Legible
<1>27. QED
  BY <1>1, <1>19, <1>20, <1>23, <1>24, <1>25

---------------------------------------------------------------------------
(* Where orng is on such a line.                                           *)

\* Of n words with a comment of m behind the a-th, or with none, k have been read, and the
\* comment has been passed or not: that is behind the q-th word of the line.
Stands(n, a, m, b, k, past, q) ==
  /\ k \in 0..n /\ past \in BOOLEAN
  /\ past => 0 <= a /\ a <= k
  /\ 0 <= a /\ a < k => past
  /\ q = b + k + (IF past THEN m + 2 ELSE 0)

Reached(c, b, k, past, q) == Stands(Len(c.words), c.at, Len(c.comment), b, k, past, q)

\* The comment is what comes next.
Commented(c, k, past) == c.at = k /\ ~past

\* Then comes the comment, the next word, or the end.
GoesOn(words, n, a, m, w, b, e, k, past, q) ==
  /\ k \in Nat /\ q \in Nat /\ e \in Nat /\ q <= e /\ past \in BOOLEAN
  /\ a = k /\ ~past =>
       Encloses(w, q, m) /\ q + m + 2 <= e /\ Stands(n, a, m, b, k, TRUE, q + m + 2)
  /\ ~(a = k /\ ~past) /\ k < n =>
       w[q + 1] = words[k + 1] /\ q < e /\ Stands(n, a, m, b, k + 1, past, q + 1)
  /\ ~(a = k /\ ~past) /\ k = n => q = e

\* Words that lie in a line are followed like this.
LEMMA NextOfWords ==
  ASSUME NEW words, NEW n \in Nat, n = Len(words), NEW comment, NEW m \in Nat, m = Len(comment),
         NEW a \in Int, a <= n, NEW w, NEW b \in Nat, NEW e, WordsLie(words, comment, a, w, b, e),
         NEW k, NEW past, NEW q, Stands(n, a, m, b, k, past, q)
  PROVE  GoesOn(words, n, a, m, w, b, e, k, past, q)
<1>1. IF a < 0
      THEN e = b + n /\ \A x \in 1..n : w[b + x] = words[x]
      ELSE /\ e = b + n + m + 2
           /\ \A x \in 1..a : w[b + x] = words[x]
           /\ \A x \in (a + 1)..n : w[b + m + 2 + x] = words[x]
           /\ Encloses(w, b + a, m)
  BY DEF WordsLie
<1>2. PICK i \in Nat : i = k /\ i <= n
  BY DEF Stands
<1>3. /\ past \in BOOLEAN
      /\ past => 0 <= a /\ a <= i
      /\ 0 <= a /\ a < i => past
      /\ q = b + i + (IF past THEN m + 2 ELSE 0)
  BY <1>2 DEF Stands
<1>4. PICK g \in Nat : (past => g = m + 2) /\ (~past => g = 0)
  <2>1. CASE past
    <3>1. m + 2 \in Nat
      OBVIOUS
    <3>2. QED
      BY <2>1, <3>1
  <2>2. CASE ~past
    <3>1. 0 \in Nat
      OBVIOUS
    <3>2. QED
      BY <2>2, <3>1
  <2>3. QED
    BY <2>1, <2>2
<1>5. PICK p \in Nat : p = q /\ p = b + i + g
  <2>1. q = b + i + g
    <3>1. CASE past
      <4>1. q = b + i + (m + 2)
        BY <1>3, <3>1
      <4>2. QED
        BY <1>4, <3>1, <4>1
    <3>2. CASE ~past
      <4>1. q = b + i + 0
        BY <1>3, <3>2
      <4>2. QED
        BY <1>4, <3>2, <4>1
    <3>3. QED
      BY <3>1, <3>2
  <2>2. b + i + g \in Nat
    OBVIOUS
  <2>3. QED
    BY <2>1, <2>2
<1>6. PICK h \in Nat : h = e /\ (a < 0 => h = b + n) /\ (~(a < 0) => h = b + n + m + 2)
  <2>1. CASE a < 0
    <3>1. e = b + n /\ b + n \in Nat
      BY <1>1, <2>1
    <3>2. QED
      BY <2>1, <3>1
  <2>2. CASE ~(a < 0)
    <3>1. e = b + n + m + 2 /\ b + n + m + 2 \in Nat
      BY <1>1, <2>2
    <3>2. QED
      BY <2>2, <3>1
  <2>3. QED
    BY <2>1, <2>2
<1>7. past => g = m + 2 /\ ~(a < 0) /\ h = b + n + m + 2
  BY <1>3, <1>4, <1>6
<1>8. (~past => g = 0) /\ (h = b + n \/ h = b + n + m + 2)
  BY <1>4, <1>6
<1>9. p <= h
  <2>1. CASE past
    BY <1>2, <1>5, <1>7, <2>1
  <2>2. CASE ~past
    <3>1. g = 0 /\ (h = b + n \/ h = b + n + m + 2)
      BY <1>8, <2>2
    <3>2. QED
      BY <1>2, <1>5, <3>1
  <2>3. QED
    BY <2>1, <2>2
<1>10. ASSUME a = i, ~past
       PROVE  Encloses(w, q, m) /\ p + m + 2 <= h /\ Stands(n, a, m, b, k, TRUE, q + m + 2)
  <2>1. ~(a < 0) /\ p = b + a /\ h = b + n + m + 2
    <3>1. g = 0
      BY <1>8, <1>10
    <3>2. ~(a < 0) /\ p = b + a
      BY <1>5, <1>10, <3>1
    <3>3. QED
      BY <1>6, <3>2
  <2>2. Encloses(w, b + a, m)
    BY <1>1, <2>1
  <2>3. p + m + 2 = b + i + (m + 2) /\ p + m + 2 <= h /\ 0 <= a /\ a <= i
    BY <1>2, <1>10, <2>1
  <2>4. Stands(n, a, m, b, k, TRUE, q + m + 2)
    BY <1>2, <1>5, <2>3 DEF Stands
  <2>5. QED
    BY <1>5, <2>1, <2>2, <2>3, <2>4
<1>11. ASSUME ~(a = i /\ ~past), i < n
       PROVE  w[p + 1] = words[i + 1] /\ p < h /\ Stands(n, a, m, b, i + 1, past, p + 1)
  <2>1. i + 1 \in 1..n
    BY <1>11
  <2>2. p + 1 = b + (i + 1) + g
    BY <1>5
  <2>3. CASE past
    <3>1. g = m + 2 /\ ~(a < 0) /\ h = b + n + m + 2 /\ 0 <= a /\ a <= i
      BY <1>3, <1>7, <2>3
    <3>2. \A x \in (a + 1)..n : w[b + m + 2 + x] = words[x]
      BY <1>1, <3>1
    <3>3. PICK r \in (a + 1)..n : r = i + 1
      BY <1>11, <3>1
    <3>4. w[p + 1] = words[i + 1]
      <4>1. w[b + m + 2 + r] = words[r]
        BY <3>2
      <4>2. b + m + 2 + r = p + 1
        BY <2>2, <3>1, <3>3
      <4>3. QED
        BY <3>3, <4>1, <4>2
    <3>5. p < h
      BY <1>5, <1>11, <3>1
    <3>6. a <= i + 1 /\ i + 1 \in 0..n
      BY <2>1, <3>1
    <3>7. Stands(n, a, m, b, i + 1, past, p + 1)
      BY <1>4, <2>2, <2>3, <3>1, <3>6 DEF Stands
    <3>8. QED
      BY <3>4, <3>5, <3>7
  <2>4. CASE ~past
    <3>1. g = 0 /\ p = b + i /\ (a < 0 \/ a > i)
      <4>1. g = 0
        BY <1>8, <2>4
      <4>2. ~(0 <= a /\ a < i) /\ a # i
        BY <1>3, <1>11, <2>4
      <4>3. QED
        BY <1>5, <4>1, <4>2
    <3>2. w[b + (i + 1)] = words[i + 1]
      <4>1. CASE a < 0
        BY <1>1, <2>1, <4>1
      <4>2. CASE ~(a < 0)
        <5>1. i + 1 \in 1..a
          BY <3>1, <4>2
        <5>2. QED
          BY <1>1, <4>2, <5>1
      <4>3. QED
        BY <4>1, <4>2
    <3>3. b + (i + 1) = p + 1
      BY <3>1
    <3>4. p < h
      <4>1. h = b + n \/ h = b + n + m + 2
        BY <1>8
      <4>2. QED
        BY <1>11, <3>1, <4>1
    <3>5. ~(0 <= a /\ a < i + 1) /\ i + 1 \in 0..n
      BY <2>1, <3>1
    <3>6. Stands(n, a, m, b, i + 1, past, p + 1)
      BY <1>3, <1>4, <2>2, <2>4, <3>5 DEF Stands
    <3>7. QED
      BY <3>2, <3>3, <3>4, <3>6
  <2>5. QED
    BY <1>3, <2>3, <2>4
<1>12. ASSUME ~(a = i /\ ~past), i = n PROVE p = h
  <2>1. CASE past
    BY <1>5, <1>7, <1>12, <2>1
  <2>2. CASE ~past
    <3>1. g = 0 /\ a < 0
      <4>1. g = 0
        BY <1>8, <2>2
      <4>2. ~(0 <= a /\ a < i) /\ a # i
        BY <1>3, <1>12, <2>2
      <4>3. QED
        BY <1>12, <4>1, <4>2
    <3>2. h = b + n
      BY <1>6, <3>1
    <3>3. QED
      BY <1>5, <1>12, <3>1, <3>2
  <2>3. QED
    BY <2>1, <2>2
<1>13. QED
  BY <1>2, <1>3, <1>5, <1>6, <1>9, <1>10, <1>11, <1>12 DEF GoesOn

\* So it is with a command.
CommandGoesOn(c, w, b, e, k, past, q, m) ==
  /\ k \in Nat /\ q \in Nat /\ e \in Nat /\ q <= e /\ past \in BOOLEAN /\ m \in Nat
  /\ Commented(c, k, past) =>
       Encloses(w, q, m) /\ m > 0 /\ q + m + 2 <= e /\ Reached(c, b, k, TRUE, q + m + 2)
  /\ ~Commented(c, k, past) /\ k < Len(c.words) =>
       w[q + 1] = c.words[k + 1] /\ q < e /\ Reached(c, b, k + 1, past, q + 1)
  /\ ~Commented(c, k, past) /\ k = Len(c.words) => q = e

\* Its words are followed in their order, and its comment in its place.
LEMMA NextOfCommand ==
  ASSUME NEW c, WrittenCommand(c), NEW w, NEW b \in Nat, NEW e, CommandLies(c, w, b, e),
         NEW k, NEW past, NEW q, Reached(c, b, k, past, q), NEW m, m = Len(c.comment)
  PROVE  CommandGoesOn(c, w, b, e, k, past, q, m)
<1>1. /\ Len(c.words) \in Nat /\ m \in Nat
      /\ c.at \in Int /\ c.at <= Len(c.words) /\ (c.at >= 0 => m > 0)
  BY WrittenFacts
<1>2. PICK n \in Nat : n = Len(c.words)
  BY <1>1
<1>3. PICK a \in Int : a = c.at /\ a <= n
  BY <1>1, <1>2
<1>4. PICK words, comment : words = c.words /\ comment = c.comment
  OBVIOUS
<1>5. WordsLie(words, comment, a, w, b, e)
  BY <1>3, <1>4 DEF CommandLies
<1>6. Stands(n, a, m, b, k, past, q)
  BY <1>2, <1>3 DEF Reached
<1>7. n = Len(words) /\ m = Len(comment)
  BY <1>2, <1>4
<1>8. /\ k \in Nat /\ q \in Nat /\ e \in Nat /\ q <= e /\ past \in BOOLEAN
      /\ a = k /\ ~past =>
           Encloses(w, q, m) /\ q + m + 2 <= e /\ Stands(n, a, m, b, k, TRUE, q + m + 2)
      /\ ~(a = k /\ ~past) /\ k < n =>
           w[q + 1] = words[k + 1] /\ q < e /\ Stands(n, a, m, b, k + 1, past, q + 1)
      /\ ~(a = k /\ ~past) /\ k = n => q = e
  <2>1. GoesOn(words, n, a, m, w, b, e, k, past, q)
    BY <1>1, <1>3, <1>5, <1>6, <1>7, NextOfWords
  <2>2. QED
    BY <2>1 DEF GoesOn
<1>9. Commented(c, k, past) <=> a = k /\ ~past
  BY <1>3 DEF Commented
<1>10. Commented(c, k, past) => m > 0
  BY <1>1, <1>3, <1>8, <1>9
<1>11. \A i, p, x : Reached(c, b, i, p, x) <=> Stands(n, a, m, b, i, p, x)
  BY <1>2, <1>3 DEF Reached
<1>12. QED
  BY <1>1, <1>2, <1>4, <1>8, <1>9, <1>10, <1>11 DEF CommandGoesOn

\* The next word is taken from the line.
LEMMA WordTaken ==
  ASSUME ReaderInv, stage \in {"command", "argument"}, NEW w, NEW z \in Nat, Legible(w, z),
         NEW q \in Nat, q < z, Behind(q), NEW t, t = Token, Take(t)
  PROVE  /\ t.found /\ t.text = <<w[q + 1]>> /\ Legible(w, z)' /\ Behind(q + 1)'
<1>1. q \in 0..z
  OBVIOUS
<1>2. t.found /\ t.text = <<w[q + 1]>> /\ t.save = 2 * q + 3
  BY <1>1, NextWord
<1>3. /\ Len(t.line) = Len(line) /\ Len(line) \in Nat
      /\ \A j \in t.save..Len(line) : t.line[j] = line[j]
      /\ Place \in 1..(Len(line) + 1)
  BY TokenHere
<1>4. line' = t.line /\ save' = t.save /\ fresh' = FALSE
  BY DEF Take
<1>5. Place' = t.save
  BY <1>4 DEF Place
<1>6. Place = 2 * q \/ Place = 2 * q + 1
  BY DEF Behind
<1>7. PICK p : p = Place
  OBVIOUS
<1>8. /\ p \in Nat /\ p <= 2 * q + 1
  BY <1>3, <1>6, <1>7
<1>9. Place' = 2 * q + 3
  BY <1>2, <1>5
<1>10. \A x \in Place'..Len(line) : line'[x] = line[x]
  BY <1>3, <1>4, <1>5
<1>11. Len(line') = Len(line)
  BY <1>3, <1>4
<1> HIDE DEF Place, Token
<1>12. Place' \in Nat /\ Place' >= Place /\ Place' <= 2 * z + 1 /\ Place \in Nat
  BY <1>7, <1>8, <1>9
<1>13. Legible(w, z)'
  BY <1>3, <1>10, <1>11, <1>12, StillLegible
<1>14. Behind(q + 1)'
  BY <1>9 DEF Behind
<1>15. QED
  BY <1>2, <1>13, <1>14

\* A comment is passed over as a whole.
LEMMA CommentTaken ==
  ASSUME ReaderInv, parseComment, NEW w, NEW z \in Nat, Legible(w, z), NEW q \in Nat, Behind(q),
         NEW m \in Nat, m > 0, q + m + 2 <= z, Encloses(w, q, m)
  PROVE  stage' = stage /\ Legible(w, z)' /\ Behind(q + m + 2)'
<1>1. q \in 0..z
  OBVIOUS
<1>2. /\ stage' = stage /\ save' = 2 * (q + m + 2) /\ Len(line') = Len(line)
      /\ \A x \in save'..Len(line) : line'[x] = line[x]
  BY <1>1, CommentPassed
<1>3. fresh' = FALSE
  BY CommentStep
<1>4. Place' = save'
  BY <1>3 DEF Place
<1>5. stage \in {"command", "argument"}
  BY DEF parseComment
<1>6. Place \in 1..(Len(line) + 1) /\ Len(line) \in Nat
  <2>1. PICK t : t = Token
    OBVIOUS
  <2>2. QED
    BY <1>5, <2>1, TokenHere
<1>7. Place = 2 * q \/ Place = 2 * q + 1
  BY DEF Behind
<1>8. PICK p : p = Place
  OBVIOUS
<1>9. p \in Nat /\ p <= 2 * q + 1
  BY <1>6, <1>7, <1>8
<1>10. Place' = 2 * (q + m + 2)
  BY <1>2, <1>4
<1>11. \A x \in Place'..Len(line) : line'[x] = line[x]
  BY <1>2, <1>4
<1> HIDE DEF Place
<1>12. Place' \in Nat /\ Place' >= Place /\ Place' <= 2 * z + 1 /\ Place \in Nat
  BY <1>8, <1>9, <1>10
<1>13. Legible(w, z)'
  BY <1>2, <1>6, <1>11, <1>12, StillLegible
<1>14. Behind(q + m + 2)'
  BY <1>10 DEF Behind
<1>15. QED
  BY <1>2, <1>13, <1>14

---------------------------------------------------------------------------
(* Where the lines and the commands of a document lie.                     *)

\* The cells of a line lie in the script, from the x-th to the y-th.
CellsLie(l, x, y, cells) ==
  /\ x < y
  /\ IF LineWords(l) = << >> THEN y = x + 1 /\ cells[y] = Newline
     ELSE y = x + 2 * Len(LineWords(l)) /\ Spells(cells, x, LineWords(l))

\* So does the line, and its commands lie among those that are wanted, from the u-th to the
\* v-th.
LineLies(l, x, y, u, v, cells, wants) ==
  /\ WrittenLine(l)
  /\ x \in Nat /\ y \in Nat /\ y <= Len(cells) /\ CellsLie(l, x, y, cells)
  /\ u \in Nat /\ v \in Nat /\ v = u + Len(l.commands) /\ v <= Len(wants)
  /\ \A j \in 1..Len(l.commands) : wants[u + j] = l.commands[j].words

DocumentLies(d, o, e, cells, wants) ==
  /\ Len(d) \in Nat /\ Len(cells) \in Nat /\ Len(wants) \in Nat
  /\ o[0] = 0 /\ o[Len(d)] = Len(cells)
  /\ e[0] = 0 /\ e[Len(d)] = Len(wants)
  /\ \A i \in 1..Len(d) : LineLies(d[i], o[i - 1], o[i], e[i - 1], e[i], cells, wants)

\* The cells of one line.
Lined(l, b) ==
  IF LineWords(l) = << >> THEN b = <<Newline>> ELSE Spread(b, LineWords(l), Newline, Space)

\* A written line is one of these.
LEMMA LineSpread ==
  ASSUME NEW l, WrittenLine(l), NEW S, Vocabulary(l) \subseteq S, Newline \in S, Space \in S
  PROVE  LineCells(l) \in Seq(S) /\ Lined(l, LineCells(l))
<1>1. PICK w : w = LineWords(l)
  OBVIOUS
<1>2. w \in Seq(S)
  <2>1. w \in Seq(Vocabulary(l))
    BY <1>1, LineShapes
  <2>2. QED
    BY <2>1
<1>3. CASE w = << >>
  <2>1. LineCells(l) = <<Newline>>
    BY <1>1, <1>3, Zenon DEF LineCells, Newline
  <2> HIDE DEF Newline
  <2>2. QED
    BY <1>1, <1>3, <2>1 DEF Lined
<1>4. CASE w # << >>
  <2>1. LineCells(l) = Joined(w)
    BY <1>1, <1>4 DEF LineCells
  <2>2. Joined(w) \in Seq(S) /\ Spread(Joined(w), w, Newline, Space)
    BY <1>2, JoinedType
  <2>3. QED
    BY <1>1, <1>4, <2>1, <2>2 DEF Lined
<1>5. QED
  BY <1>3, <1>4

\* Such a line lies where its cells are.
LEMMA LinedLies ==
  ASSUME NEW l, WrittenLine(l), NEW b, Lined(l, b), NEW x \in Nat, NEW cells,
         \A k \in 1..Len(b) : cells[x + k] = b[k], NEW y \in Nat, y = x + Len(b)
  PROVE  CellsLie(l, x, y, cells)
<1>1. PICK w : w = LineWords(l)
  OBVIOUS
<1>2. w \in Seq(Vocabulary(l))
  BY <1>1, LineShapes
<1>3. PICK n \in Nat : n = Len(w) /\ (w # << >> => n > 0)
  BY <1>2
<1>4. CASE w = << >>
  <2>1. b = <<Newline>>
    BY <1>1, <1>4 DEF Lined
  <2> HIDE DEF Newline
  <2>2. Len(b) = 1 /\ b[1] = Newline
    BY <2>1
  <2>3. cells[x + 1] = Newline
    BY <2>2
  <2>4. y = x + 1
    BY <2>2
  <2>5. QED
    BY <1>1, <1>4, <2>3, <2>4 DEF CellsLie
<1>5. CASE w # << >>
  <2>1. Len(b) = 2 * n /\ \A j \in 1..n : b[2 * j - 1] = w[j] /\ b[2 * j] = IF j = n THEN Newline ELSE Space
    BY <1>1, <1>3, <1>5 DEF Lined, Spread
  <2>2. ASSUME NEW j \in 1..n
        PROVE  /\ cells[x + 2 * j - 1] = w[j]
               /\ cells[x + 2 * j] = IF j = n THEN Newline ELSE Space
    <3>1. 2 * j - 1 \in 1..(2 * n) /\ 2 * j \in 1..(2 * n) /\ x + (2 * j - 1) = x + 2 * j - 1
      OBVIOUS
    <3>2. QED
      BY <2>1, <3>1
  <2>3. Spells(cells, x, w)
    BY <1>3, <2>2 DEF Spells
  <2>4. y = x + 2 * n /\ x < y
    BY <1>3, <1>5, <2>1
  <2>5. QED
    BY <1>1, <1>3, <1>5, <2>3, <2>4 DEF CellsLie
<1>6. QED
  BY <1>4, <1>5

\* The parts of a whole, by their places.
PartLies(o, seqs, i, whole) ==
  /\ o[i - 1] \in Nat /\ o[i] \in Nat /\ o[i] <= Len(whole)
  /\ o[i] = o[i - 1] + Len(seqs[i])
  /\ \A k \in 1..Len(seqs[i]) : whole[o[i - 1] + k] = seqs[i][k]

\* Every part has its place.
LEMMA PartsFacts ==
  ASSUME NEW o, NEW seqs, Parts(o, seqs), NEW N \in Nat, N = Len(seqs), NEW i \in 1..N,
         NEW whole, whole = FlattenSeq(seqs)
  PROVE  PartLies(o, seqs, i, whole)
<1>1. i - 1 \in 0..N /\ i \in 0..N
  OBVIOUS
<1>2. o[i - 1] \in Nat /\ o[i] \in Nat /\ o[i] <= Len(whole)
  BY <1>1 DEF Parts
<1>3. o[i] = o[i - 1] + Len(seqs[i])
  BY DEF Parts
<1>4. \A k \in 1..Len(seqs[i]) : whole[o[i - 1] + k] = seqs[i][k]
  BY DEF Parts
<1>5. QED
  BY <1>2, <1>3, <1>4 DEF PartLies

\* The whole of them is a sequence as well.
LEMMA WholeType ==
  ASSUME NEW S, NEW seqs, seqs \in Seq(Seq(S)) PROVE FlattenSeq(seqs) \in Seq(S)
<1>1. PICK f : f[Len(seqs)] = FlattenSeq(seqs) /\ Sums(f, seqs, Len(seqs), S)
  BY FlattenSums
<1>2. Len(seqs) \in 0..Len(seqs)
  OBVIOUS
<1>3. QED
  BY <1>1, <1>2 DEF Sums

\* Every document lies somewhere.
LEMMA DocumentLaid ==
  ASSUME NEW d, WellFormed(d), NEW cells, cells = Document(d).text,
         NEW wants, wants = Document(d).wants
  PROVE  \E o, e : DocumentLies(d, o, e, cells, wants)
<1> DEFINE N == Len(d)
           asked(i) == [j \in 1..Len(d[i].commands) |-> d[i].commands[j].words]
           S == (UNION {Vocabulary(d[i]) : i \in 1..N}) \cup {Newline, Space}
           T == UNION {{d[i].commands[j].words : j \in 1..Len(d[i].commands)} : i \in 1..N}
           V == Seq(S)
           U == Seq(T)
<1>1. IsSequence(d) /\ \A i \in 1..N : WrittenLine(d[i])
  BY DEF WellFormed
<1>2. N \in Nat
  <2>1. d \in Seq(Range(d))
    BY <1>1 DEF IsSequence
  <2>2. QED
    BY <2>1
<1>3. PICK lines : lines = [i \in 1..N |-> LineCells(d[i])]
  OBVIOUS
<1>4. PICK parts : parts = [i \in 1..N |-> asked(i)]
  OBVIOUS
<1>5. cells = FlattenSeq(lines) /\ wants = FlattenSeq(parts)
  BY <1>3, <1>4 DEF Document
<1>6. ASSUME NEW i \in 1..N
      PROVE  /\ lines[i] \in V /\ Lined(d[i], lines[i])
             /\ parts[i] \in U /\ Len(parts[i]) = Len(d[i].commands)
             /\ \A j \in 1..Len(parts[i]) : parts[i][j] = d[i].commands[j].words
  <2>1. WrittenLine(d[i]) /\ Vocabulary(d[i]) \subseteq S /\ Newline \in S /\ Space \in S
    BY <1>1
  <2>2. lines[i] = LineCells(d[i]) /\ parts[i] = asked(i)
    BY <1>3, <1>4
  <2>3. LineCells(d[i]) \in Seq(S) /\ Lined(d[i], LineCells(d[i]))
    <3> HIDE DEF S
    <3>1. QED
      BY <2>1, LineSpread
  <2>4. Len(d[i].commands) \in Nat
    BY <2>1, PhraseWords
  <2>5. asked(i) \in Seq(T) /\ Len(asked(i)) = Len(d[i].commands)
    <3>1. \A j \in 1..Len(d[i].commands) : d[i].commands[j].words \in T
      OBVIOUS
    <3> HIDE DEF T
    <3>2. QED
      BY <2>4, <3>1
  <2>6. QED
    BY <2>2, <2>3, <2>5
<1> HIDE DEF S, T, asked
<1>7. lines \in Seq(V) /\ Len(lines) = N /\ parts \in Seq(U) /\ Len(parts) = N
  <2>1. lines = [i \in 1..N |-> lines[i]] /\ parts = [i \in 1..N |-> parts[i]]
    BY <1>3, <1>4
  <2> HIDE DEF V, U, N
  <2>2. lines \in Seq(V) /\ Len(lines) = N
    BY <1>2, <1>6, <2>1
  <2>3. parts \in Seq(U) /\ Len(parts) = N
    BY <1>2, <1>6, <2>1
  <2>4. QED
    BY <2>2, <2>3
<1>8. PICK o : Parts(o, lines)
  <2>1. lines \in Seq(Seq(S))
    BY <1>7
  <2>2. QED
    BY <2>1, PartsExist
<1>9. PICK e : Parts(e, parts)
  <2>1. parts \in Seq(Seq(T))
    BY <1>7
  <2>2. QED
    BY <2>1, PartsExist
<1>10. Len(cells) \in Nat /\ Len(wants) \in Nat
  <2>1. cells \in Seq(S) /\ wants \in Seq(T)
    BY <1>5, <1>7, WholeType
  <2>2. QED
    BY <2>1
<1> HIDE DEF N, V, U
<1>11. o[0] = 0 /\ o[N] = Len(cells) /\ e[0] = 0 /\ e[N] = Len(wants)
  BY <1>5, <1>7, <1>8, <1>9 DEF Parts
<1>12. ASSUME NEW i \in 1..N
       PROVE  LineLies(d[i], o[i - 1], o[i], e[i - 1], e[i], cells, wants)
  <2>1. PartLies(o, lines, i, cells) /\ PartLies(e, parts, i, wants)
    BY <1>2, <1>5, <1>7, <1>8, <1>9, PartsFacts
  <2>2. PICK x \in Nat : x = o[i - 1]
    BY <2>1 DEF PartLies
  <2>3. PICK y \in Nat : y = o[i] /\ y <= Len(cells)
    BY <2>1 DEF PartLies
  <2>4. WrittenLine(d[i]) /\ Lined(d[i], lines[i])
    BY <1>1, <1>6 DEF N
  <2>5. y = x + Len(lines[i]) /\ \A k \in 1..Len(lines[i]) : cells[x + k] = lines[i][k]
    BY <2>1, <2>2, <2>3 DEF PartLies
  <2>6. CellsLie(d[i], x, y, cells)
    BY <2>4, <2>5, LinedLies
  <2>7. /\ e[i - 1] \in Nat /\ e[i] \in Nat /\ e[i] <= Len(wants)
        /\ e[i] = e[i - 1] + Len(d[i].commands)
        /\ \A j \in 1..Len(d[i].commands) : wants[e[i - 1] + j] = d[i].commands[j].words
    BY <1>6, <2>1 DEF PartLies
  <2>8. QED
    BY <2>2, <2>3, <2>4, <2>6, <2>7 DEF LineLies
<1>13. DocumentLies(d, o, e, cells, wants)
  BY <1>2, <1>10, <1>11, <1>12 DEF DocumentLies, N
<1>14. QED
  BY <1>13

---------------------------------------------------------------------------
(* orng in a written command.                                              *)

\* The name of a command and its first arguments, with k words of it, as they are written.
Given(c, k) ==
  /\ cmd = <<c.words[1]>> /\ Len(args) = k - 1
  /\ \A x \in 1..(k - 1) : args[x] = atoi(<<c.words[x + 1]>>)

\* The end of a command: behind the e-th word of the line, the last one or the one before a ';'.
Ends(w, z, e, last, next) ==
  /\ last \in BOOLEAN
  /\ last => e = z
  /\ ~last => e < z /\ w[e + 1] = Semicolon /\ next = e + 1

\* orng is somewhere in a command.
OnCommand(c, b, last, next, w, z) ==
  /\ stage \in {"command", "argument"} =>
       /\ Legible(w, z)
       /\ \E k, past, q : /\ Reached(c, b, k, past, q) /\ Behind(q)
                          /\ stage = "command" => k = 0
                          /\ stage = "argument" => k > 0 /\ Given(c, k)
  /\ stage = "execute" =>
       /\ Given(c, Len(c.words)) /\ more = ~last
       /\ more => Legible(w, z) /\ Behind(next)

\* What comes next in it.
Coming(c, w, z, b, e, k, past, q, n, m) ==
  /\ k \in Nat /\ q \in Nat /\ q <= e /\ past \in BOOLEAN /\ m \in Nat /\ k <= n
  /\ Commented(c, k, past) =>
       /\ Encloses(w, q, m) /\ m > 0 /\ q + m + 2 <= z /\ q < z /\ w[q + 1] = Opening
       /\ Reached(c, b, k, TRUE, q + m + 2)
  /\ ~Commented(c, k, past) /\ k < n =>
       /\ w[q + 1] = c.words[k + 1] /\ q < z /\ Reached(c, b, k + 1, past, q + 1)
       /\ w[q + 1] # Opening /\ w[q + 1] # Semicolon
  /\ ~Commented(c, k, past) /\ k = n => q = e

\* A command that is written has a comment next, a word, or its end.
LEMMA ComingNext ==
  ASSUME NEW c, WrittenCommand(c), NEW w, NEW z \in Nat, NEW b \in Nat, NEW e \in Nat, e <= z,
         CommandLies(c, w, b, e), NEW k, NEW past, NEW q, Reached(c, b, k, past, q),
         NEW n, n = Len(c.words), NEW m, m = Len(c.comment)
  PROVE  Coming(c, w, z, b, e, k, past, q, n, m)
<1>1. /\ k \in Nat /\ q \in Nat /\ q <= e /\ past \in BOOLEAN /\ m \in Nat
      /\ Commented(c, k, past) =>
           Encloses(w, q, m) /\ m > 0 /\ q + m + 2 <= e /\ Reached(c, b, k, TRUE, q + m + 2)
      /\ ~Commented(c, k, past) /\ k < Len(c.words) =>
           w[q + 1] = c.words[k + 1] /\ q < e /\ Reached(c, b, k + 1, past, q + 1)
      /\ ~Commented(c, k, past) /\ k = Len(c.words) => q = e
  <2>1. CommandGoesOn(c, w, b, e, k, past, q, m)
    BY NextOfCommand
  <2>2. QED
    BY <2>1 DEF CommandGoesOn
<1>2. /\ n \in Nat /\ c.words \in Seq(Range(c.words))
      /\ \A s \in Range(c.words) : s \notin {Opening, Closing, Semicolon, Remark}
  BY WrittenFacts
<1>3. k <= n
  <2>1. k \in 0..n
    BY DEF Reached, Stands
  <2>2. QED
    BY <1>2, <2>1
<1>4. ASSUME Commented(c, k, past)
      PROVE  q + m + 2 <= z /\ q < z /\ w[q + 1] = Opening
  BY <1>1, <1>4 DEF Encloses
<1>5. ASSUME ~Commented(c, k, past), k < n
      PROVE  q < z /\ w[q + 1] # Opening /\ w[q + 1] # Semicolon
  <2>1. k + 1 \in 1..n
    BY <1>1, <1>2, <1>5
  <2>2. c.words[k + 1] \in Range(c.words)
    BY <1>2, <2>1
  <2>3. QED
    BY <1>1, <1>2, <1>5, <2>2
<1>6. QED
  BY <1>1, <1>3, <1>4, <1>5 DEF Coming

\* A comment in a command is passed over.
LEMMA InComment ==
  ASSUME ReaderInv, parseComment, NEW c, WrittenCommand(c), NEW w, NEW z \in Nat,
         NEW b \in Nat, NEW e \in Nat, e <= z, CommandLies(c, w, b, e),
         NEW last, NEW next, Ends(w, z, e, last, next), OnCommand(c, b, last, next, w, z)
  PROVE  stage' = stage /\ OnCommand(c, b, last, next, w, z)'
<1>1. PICK t : t = Token
  OBVIOUS
<1>2. t.found /\ t.text[1] = Opening
  BY <1>1, CommentTakes
<1>3. stage \in {"command", "argument"} /\ UNCHANGED <<file, read, cmd, args, more, executed>>
  BY CommentStep
<1>4. Legible(w, z)
  BY <1>3 DEF OnCommand
<1>5. PICK k, past, q : /\ Reached(c, b, k, past, q) /\ Behind(q)
                        /\ stage = "command" => k = 0
                        /\ stage = "argument" => k > 0 /\ Given(c, k)
  BY <1>3 DEF OnCommand
<1>6. PICK n, m : n = Len(c.words) /\ m = Len(c.comment)
  OBVIOUS
<1>7. Coming(c, w, z, b, e, k, past, q, n, m)
  BY <1>5, <1>6, ComingNext
<1>8. k \in Nat /\ q \in Nat /\ q <= e /\ m \in Nat /\ k <= n /\ q \in 0..z
  BY <1>7 DEF Coming
<1>9. q < z /\ w[q + 1] = Opening
  <2>1. q < z /\ t.text = <<w[q + 1]>>
    BY <1>1, <1>2, <1>3, <1>4, <1>5, <1>8, NextWord
  <2>2. QED
    BY <1>2, <2>1
<1>10. Commented(c, k, past)
  <2> SUFFICES ASSUME ~Commented(c, k, past) PROVE FALSE
    OBVIOUS
  <2>1. ~(k < n)
    BY <1>7, <1>9 DEF Coming
  <2>2. n \in Nat
    BY <1>6, WrittenFacts
  <2>3. k = n
    BY <1>8, <2>1, <2>2
  <2>4. q = e
    BY <1>7, <2>3 DEF Coming
  <2>5. Opening # Semicolon
    BY MarkNames
  <2>6. QED
    BY <1>8, <1>9, <2>4, <2>5 DEF Ends
<1>11. Encloses(w, q, m) /\ m > 0 /\ q + m + 2 <= z /\ Reached(c, b, k, TRUE, q + m + 2)
  BY <1>7, <1>10 DEF Coming
<1>12. stage' = stage /\ Legible(w, z)' /\ Behind(q + m + 2)'
  BY <1>4, <1>5, <1>8, <1>11, CommentTaken
<1>13. Given(c, k) => Given(c, k)'
  BY <1>3 DEF Given
<1>14. stage' # "execute"
  BY <1>3, <1>12
<1>15. /\ stage' = "command" => k = 0
       /\ stage' = "argument" => k > 0 /\ Given(c, k)'
  BY <1>5, <1>12, <1>13
<1>16. QED
  BY <1>11, <1>12, <1>14, <1>15 DEF OnCommand

\* The name of a command is taken.
LEMMA InName ==
  ASSUME ReaderInv, ParseCommand, NEW c, WrittenCommand(c), NEW w, NEW z \in Nat,
         NEW b \in Nat, NEW e \in Nat, e <= z, CommandLies(c, w, b, e),
         NEW last, NEW next, Ends(w, z, e, last, next), OnCommand(c, b, last, next, w, z)
  PROVE  stage' = "argument" /\ OnCommand(c, b, last, next, w, z)'
<1>1. PICK t : t = Token
  OBVIOUS
<1>2. /\ stage = "command" /\ cmd' = t.text /\ args' = << >>
      /\ t.found => stage' = "argument"
      /\ UNCHANGED <<file, read, executed>>
  BY <1>1, CommandStep
<1>3. Take(t) /\ (t.found => t.text[1] # Opening)
  BY <1>1, Zenon DEF ParseCommand, Opening
<1>4. Legible(w, z)
  BY <1>2 DEF OnCommand
<1>5. PICK k, past, q : /\ Reached(c, b, k, past, q) /\ Behind(q) /\ k = 0
  BY <1>2 DEF OnCommand
<1>6. PICK n, m : n = Len(c.words) /\ m = Len(c.comment)
  OBVIOUS
<1>7. Coming(c, w, z, b, e, k, past, q, n, m)
  BY <1>5, <1>6, ComingNext
<1>8. q \in Nat
  BY <1>7 DEF Coming
<1>9. n \in Nat /\ n > 0
  <2>1. Complete(c.words) /\ n \in Nat
    BY <1>6, WrittenFacts
  <2>2. QED
    BY <1>6, <2>1 DEF Complete
<1>10. q < z
  <2>1. CASE Commented(c, k, past)
    BY <1>7, <2>1 DEF Coming
  <2>2. CASE ~Commented(c, k, past)
    BY <1>5, <1>7, <1>9, <2>2 DEF Coming
  <2>3. QED
    BY <2>1, <2>2
<1>11. t.found /\ t.text = <<w[q + 1]>> /\ Legible(w, z)' /\ Behind(q + 1)'
  BY <1>1, <1>2, <1>3, <1>4, <1>5, <1>8, <1>10, WordTaken
<1>12. w[q + 1] # Opening
  BY <1>3, <1>11
<1>13. ~Commented(c, k, past)
  BY <1>7, <1>12 DEF Coming
<1>14. w[q + 1] = c.words[k + 1] /\ Reached(c, b, k + 1, past, q + 1)
  BY <1>5, <1>7, <1>9, <1>13 DEF Coming
<1>15. w[q + 1] = c.words[1] /\ Reached(c, b, 1, past, q + 1)
  BY <1>5, <1>14
<1>16. Given(c, 1)'
  <2>1. Len(args') = 1 - 1 /\ cmd' = <<c.words[1]>> /\ \A x \in 1..(1 - 1) : FALSE
    BY <1>2, <1>11, <1>15
  <2>2. QED
    BY <2>1 DEF Given
<1>17. stage' = "argument"
  BY <1>2, <1>11
<1>18. QED
  BY <1>11, <1>15, <1>16, <1>17 DEF OnCommand

\* What ParseArgument does with its token.
ArgumentTaken(t) ==
  /\ Take(t) /\ (t.found => t.text[1] # Opening)
  /\ more' = (t.found /\ t.text[1] = Semicolon)
  /\ t.found /\ ~more' /\ Len(args) < MAX_COMMAND_ARGS =>
       args' = Append(args, atoi(t.text)) /\ stage' = "argument"
  /\ ~t.found \/ more' => args' = args /\ stage' = "execute"

\* Its guard and its assignments.
LEMMA ArgumentTakes ==
  ASSUME ParseArgument, NEW t, t = Token PROVE ArgumentTaken(t)
<1>1. /\ t.found => t.text[1] # Opening
      /\ Take(t)
      /\ more' = (t.found /\ t.text[1] = Semicolon)
      /\ args' = IF t.found /\ ~more' /\ Len(args) < MAX_COMMAND_ARGS
                 THEN Append(args, atoi(t.text)) ELSE args
      /\ stage' = IF ~t.found \/ more' THEN "execute"
                  ELSE IF Len(args) < MAX_COMMAND_ARGS THEN "argument" ELSE "aborted"
  BY Zenon DEF ParseArgument, Opening, Semicolon
<1>2. t.found /\ ~more' /\ Len(args) < MAX_COMMAND_ARGS =>
        args' = Append(args, atoi(t.text)) /\ stage' = "argument"
  BY <1>1, Zenon
<1>3. ~t.found \/ more' => args' = args /\ stage' = "execute"
  BY <1>1, Zenon
<1>4. QED
  BY <1>1, <1>2, <1>3, Zenon DEF ArgumentTaken

\* One argument more is given.
LEMMA MoreGiven ==
  ASSUME NEW c, Len(c.words) \in Nat, args \in Seq(Cells), NEW k \in Nat, k > 0, k < Len(c.words),
         Given(c, k), cmd' = cmd, args' = Append(args, atoi(<<c.words[k + 1]>>))
  PROVE  Given(c, k + 1)'
<1>1. Len(args) = k - 1 /\ \A x \in 1..(k - 1) : args[x] = atoi(<<c.words[x + 1]>>)
  BY DEF Given
<1> HIDE DEF Cells
<1>2. Len(args') = k /\ \A x \in 1..Len(args') : args'[x] = atoi(<<c.words[x + 1]>>)
  <2>1. PICK a, b, words, v : /\ a = args /\ b = args' /\ words = c.words
                              /\ v = atoi(<<c.words[k + 1]>>)
    OBVIOUS
  <2>2. PICK g \in 1..Len(words) : g = k + 1 /\ g = Len(a) + 2
    BY <1>1, <2>1
  <2>3. /\ a \in Seq(Cells) /\ Len(words) \in Nat /\ b = Append(a, v) /\ v = atoi(<<words[g]>>)
        /\ \A i \in 1..Len(a) : a[i] = atoi(<<words[i + 1]>>)
    BY <1>1, <2>1, <2>2
  <2>4. \A i \in 1..Len(b) : b[i] = atoi(<<words[i + 1]>>)
    BY <2>2, <2>3, MoreKept
  <2>5. Len(b) = k
    BY <1>1, <2>1, <2>3
  <2>6. QED
    BY <2>1, <2>4, <2>5
<1>3. cmd' = <<c.words[1]>> /\ k = (k + 1) - 1
  BY DEF Given
<1>4. QED
  BY <1>2, <1>3 DEF Given

\* An argument is taken, or the end of the command is found.
LEMMA InArgument ==
  ASSUME ReaderInv, ParseArgument, NEW c, WrittenCommand(c), NEW w, NEW z \in Nat,
         NEW b \in Nat, NEW e \in Nat, e <= z, CommandLies(c, w, b, e),
         NEW last, NEW next, Ends(w, z, e, last, next), OnCommand(c, b, last, next, w, z)
  PROVE  stage' \in {"argument", "execute"} /\ OnCommand(c, b, last, next, w, z)'
<1>1. PICK t : t = Token
  OBVIOUS
<1>2. /\ stage = "argument" /\ t.found \in BOOLEAN /\ more' \in BOOLEAN
      /\ UNCHANGED <<file, read, cmd, executed>>
  BY <1>1, ArgumentStep
<1>3. ArgumentTaken(t)
  BY <1>1, ArgumentTakes
<1>4. Legible(w, z)
  BY <1>2 DEF OnCommand
<1>5. PICK k, past, q : /\ Reached(c, b, k, past, q) /\ Behind(q) /\ k > 0 /\ Given(c, k)
  BY <1>2 DEF OnCommand
<1>6. PICK n, m : n = Len(c.words) /\ m = Len(c.comment)
  OBVIOUS
<1>7. Coming(c, w, z, b, e, k, past, q, n, m)
  BY <1>5, <1>6, ComingNext
<1>8. k \in Nat /\ q \in Nat /\ q <= e /\ k <= n
  BY <1>7 DEF Coming
<1>9. n \in Nat /\ n <= MAX_COMMAND_ARGS + 1
  BY <1>6, WrittenFacts
<1>10. q < z => t.found /\ t.text = <<w[q + 1]>> /\ Legible(w, z)' /\ Behind(q + 1)'
  <2>1. Take(t)
    BY <1>3 DEF ArgumentTaken
  <2>2. QED
    BY <1>1, <1>2, <1>4, <1>5, <1>8, <2>1, WordTaken
<1>11. args \in Seq(Cells)
  BY DEF ReaderInv, ReaderTypes
<1>12. ~Commented(c, k, past)
  <2> SUFFICES ASSUME Commented(c, k, past) PROVE FALSE
    OBVIOUS
  <2>1. q < z /\ w[q + 1] = Opening
    BY <1>7 DEF Coming
  <2>2. t.found /\ t.text[1] = Opening
    BY <1>10, <2>1
  <2>3. QED
    BY <1>3, <2>2 DEF ArgumentTaken
<1>13. CASE k < n
  <2>1. /\ w[q + 1] = c.words[k + 1] /\ q < z /\ Reached(c, b, k + 1, past, q + 1)
        /\ w[q + 1] # Semicolon
    BY <1>7, <1>12, <1>13 DEF Coming
  <2>2. t.found /\ t.text = <<c.words[k + 1]>> /\ Legible(w, z)' /\ Behind(q + 1)'
    BY <1>10, <2>1
  <2>3. t.text[1] # Semicolon
    BY <2>1, <2>2
  <2>4. more' = FALSE
    BY <1>3, <2>3, Zenon DEF ArgumentTaken
  <2>5. Len(args) < MAX_COMMAND_ARGS
    <3>1. Len(args) = k - 1
      BY <1>5 DEF Given
    <3>2. MAX_COMMAND_ARGS \in Nat
      BY ScriptAssumption
    <3>3. QED
      BY <1>8, <1>9, <1>13, <3>1, <3>2
  <2>6. args' = Append(args, atoi(t.text)) /\ stage' = "argument"
    BY <1>3, <2>2, <2>4, <2>5 DEF ArgumentTaken
  <2>7. Given(c, k + 1)'
    <3>1. args' = Append(args, atoi(<<c.words[k + 1]>>)) /\ cmd' = cmd
      BY <1>2, <2>2, <2>6
    <3>2. QED
      BY <1>5, <1>6, <1>8, <1>9, <1>11, <1>13, <3>1, MoreGiven
  <2>8. k + 1 > 0
    BY <1>8
  <2>9. QED
    BY <2>1, <2>2, <2>6, <2>7, <2>8 DEF OnCommand
<1>14. CASE k = n
  <2>1. q = e
    BY <1>7, <1>12, <1>14 DEF Coming
  <2>2. CASE last
    <3>1. q = z /\ q \in 0..z
      BY <1>8, <2>1, <2>2 DEF Ends
    <3>2. ~t.found
      <4>1. t.found <=> q < z
        BY <1>1, <1>2, <1>4, <1>5, <3>1, NextWord
      <4>2. QED
        BY <3>1, <4>1
    <3>3. more' = FALSE /\ args' = args /\ stage' = "execute"
      BY <1>3, <3>2, Zenon DEF ArgumentTaken
    <3>4. Given(c, n)'
      BY <1>2, <1>5, <1>14, <3>3 DEF Given
    <3>5. QED
      BY <1>6, <2>2, <3>3, <3>4 DEF OnCommand
  <2>3. CASE ~last
    <3>1. q < z /\ w[q + 1] = Semicolon /\ next = q + 1
      BY <2>1, <2>3 DEF Ends
    <3>2. t.found /\ t.text[1] = Semicolon /\ Legible(w, z)' /\ Behind(next)'
      BY <1>10, <3>1
    <3>3. more' = TRUE /\ args' = args /\ stage' = "execute"
      BY <1>3, <3>2, Zenon DEF ArgumentTaken
    <3>4. Given(c, n)'
      BY <1>2, <1>5, <1>14, <3>3 DEF Given
    <3>5. more' = ~last
      <4>1. last = FALSE
        BY <2>3 DEF Ends
      <4>2. QED
        BY <3>3, <4>1
    <3>6. QED
      BY <1>6, <3>2, <3>3, <3>4, <3>5 DEF OnCommand
  <2>4. QED
    BY <2>2, <2>3
<1>15. QED
  BY <1>8, <1>9, <1>13, <1>14

\* The command is executed with the arguments it is written with.
LEMMA InExecute ==
  ASSUME ReaderInv, Execute, NEW c, WrittenCommand(c), NEW w, NEW z \in Nat, NEW b,
         NEW last, last \in BOOLEAN, NEW next, OnCommand(c, b, last, next, w, z)
  PROVE  /\ executed' = Append(executed, Meant(c.words)) /\ Meant(c.words) \in Seq(Cells)
         /\ last => stage' = "line"
         /\ ~last => stage' = "command" /\ Legible(w, z)' /\ Behind(next)'
<1>1. /\ stage = "execute"
      /\ stage' \in {"line", "command"} => executed' = Append(executed, cmd \o args)
      /\ UNCHANGED <<file, read, line, save, fresh, cmd, args, more>>
  BY ExecuteStep
<1>2. Given(c, Len(c.words)) /\ more = ~last /\ (more => Legible(w, z) /\ Behind(next))
  BY <1>1 DEF OnCommand
<1>3. PICK words : words = c.words
  OBVIOUS
<1>4. Complete(words) /\ Len(words) \in Nat
  BY <1>3, WrittenFacts
<1>5. words[1] \in DOMAIN Arity /\ Len(words) > 0 /\ Len(words) = Arity[words[1]] + 1
  BY <1>4 DEF Complete
<1>6. /\ cmd = <<words[1]>> /\ Len(args) = Len(words) - 1
      /\ \A x \in 1..(Len(words) - 1) : args[x] = atoi(<<words[x + 1]>>)
  BY <1>2, <1>3 DEF Given
<1>7. Len(args) = Arity[words[1]]
  <2>1. \A m \in DOMAIN Arity : Arity[m] \in Int
    BY DEF Arity
  <2>2. QED
    BY <1>5, <1>6, <2>1
<1>8. stage' = IF more THEN "command" ELSE "line"
  <2> DEFINE known == cmd \in {<<name>> : name \in DOMAIN Arity}
             fits  == known /\ Len(args) = Arity[cmd[1]]
  <2>1. stage' = IF ~known THEN "failed" ELSE IF ~fits THEN "aborted"
                 ELSE IF more THEN "command" ELSE "line"
    BY Zenon DEF Execute
  <2>2. known
    BY <1>5, <1>6
  <2>3. Arity[cmd[1]] = Arity[words[1]]
    BY <1>6
  <2>4. fits
    BY <1>7, <2>2, <2>3
  <2> HIDE DEF known, fits
  <2>5. QED
    BY <2>1, <2>2, <2>4
<1>9. args \in Seq(Cells) /\ cmd \in Seq(Cells)
  BY DEF ReaderInv, ReaderTypes
<1>10. cmd \o args \in Seq(Cells)
  BY <1>9
<1>11. cmd \o args = Meant(words)
  <2>1. \A i \in 1..Len(args) : args[i] = atoi(<<words[i + 1]>>)
    BY <1>6
  <2>2. <<words[1]>> \o args = Meant(words)
    BY <1>4, <1>5, <1>6, <1>9, <2>1, MeantWords
  <2>3. QED
    BY <1>6, <2>2
<1>12. stage' \in {"line", "command"}
  BY <1>8
<1>13. executed' = Append(executed, Meant(c.words)) /\ Meant(c.words) \in Seq(Cells)
  BY <1>1, <1>3, <1>10, <1>11, <1>12
<1>14. last => stage' = "line"
  BY <1>2, <1>8
<1>15. ASSUME ~last PROVE stage' = "command" /\ Legible(w, z)' /\ Behind(next)'
  <2>1. more
    BY <1>2, <1>15
  <2>2. Legible(w, z) /\ Behind(next) /\ stage' = "command"
    BY <1>2, <1>8, <2>1
  <2>3. Place' = Place
    BY <1>1 DEF Place
  <2>4. Behind(next)'
    BY <2>2, <2>3 DEF Behind
  <2>5. Legible(w, z)'
    <3>1. line' = line
      BY <1>1
    <3> HIDE DEF Place, Blank
    <3>2. QED
      BY <2>2, <2>3, <3>1 DEF Legible
  <2>6. QED
    BY <2>2, <2>4, <2>5
<1>16. QED
  BY <1>13, <1>14, <1>15

---------------------------------------------------------------------------
(* orng in a written line.                                                 *)

\* A line without a word.
Bare == fresh /\ Len(line) = 1 /\ ~Word(line[1])

\* orng is in a line that has no command, or in one of its commands; u commands were executed
\* before the line.
OnLine(l, w, from, z, u) ==
  \/ /\ Len(l.commands) = 0 /\ stage = "command" /\ Len(executed) = u
     /\ Bare \/ (Legible(w, 0) /\ Behind(0))
  \/ \E j \in 1..Len(l.commands) :
       /\ OnCommand(l.commands[j], from[j], j = Len(l.commands), from[j + 1], w, z)
       /\ Len(executed) = u + j - 1

\* It is still there, or has come to its end.
OnLineOrBehind(l, w, from, z, u) ==
  \/ InLine /\ OnLine(l, w, from, z, u)
  \/ stage = "line" /\ Len(executed) = u + Len(l.commands)

\* What has been executed is what was wanted.
MeantSoFar(wants) == \A x \in 1..Len(executed) : executed[x] = Meant(wants[x])

\* The j-th command of a line, and its end.
JthCommand(l, w, from, to, z, j, c, b, e, last, next) ==
  /\ c = l.commands[j] /\ b = from[j] /\ e = to[j] /\ last = (j = Len(l.commands))
  /\ next = from[j + 1]
  /\ WrittenCommand(c) /\ b \in Nat /\ e \in Nat /\ e <= z /\ CommandLies(c, w, b, e)
  /\ Ends(w, z, e, last, next) /\ last \in BOOLEAN

\* A command does not end before it begins.
LEMMA CommandEnd ==
  ASSUME NEW c, WrittenCommand(c), NEW w, NEW b \in Nat, NEW e \in Nat, CommandLies(c, w, b, e)
  PROVE  e > b
<1>1. /\ Complete(c.words) /\ Len(c.words) \in Nat /\ Len(c.comment) \in Nat
  BY WrittenFacts
<1>2. Len(c.words) > 0
  BY <1>1 DEF Complete
<1>3. e = b + Len(c.words) \/ e = b + Len(c.words) + Len(c.comment) + 2
  <2>1. CASE c.at < 0
    BY <2>1 DEF CommandLies, WordsLie
  <2>2. CASE ~(c.at < 0)
    BY <2>2 DEF CommandLies, WordsLie
  <2>3. QED
    BY <2>1, <2>2
<1>4. PICK n, m \in Nat : n = Len(c.words) /\ m = Len(c.comment)
  BY <1>1
<1>5. n > 0 /\ (e = b + n \/ e = b + n + m + 2)
  BY <1>2, <1>3, <1>4
<1>6. QED
  BY <1>5

\* Every command of a line has its place in it.
LEMMA CommandHere ==
  ASSUME NEW l, WrittenLine(l), NEW w, NEW from, NEW to, NEW z, Shape(l, w, from, to, z),
         NEW j \in 1..Len(l.commands)
  PROVE  \E c, b, e, last, next : JthCommand(l, w, from, to, z, j, c, b, e, last, next)
<1>1. Len(l.commands) \in Nat /\ \A i \in 1..Len(l.commands) : WrittenCommand(l.commands[i])
  BY DEF WrittenLine, IsSequence
<1>2. PICK J \in Nat : J = Len(l.commands)
  BY <1>1
<1>3. /\ z \in Nat /\ (J > 0 => to[J] = z)
      /\ \A i \in 1..J :
           /\ from[i] \in Nat /\ to[i] \in Nat /\ to[i] <= z
           /\ CommandLies(l.commands[i], w, from[i], to[i])
           /\ i < J => w[to[i] + 1] = Semicolon /\ from[i + 1] = to[i] + 1
  BY <1>2 DEF Shape
<1>4. PICK c, b, e, last, next :
        /\ c = l.commands[j] /\ b = from[j] /\ e = to[j] /\ last = (j = J) /\ next = from[j + 1]
  OBVIOUS
<1>5. j \in 1..J /\ j \in Nat
  BY <1>2
<1>6. /\ WrittenCommand(c) /\ b \in Nat /\ e \in Nat /\ e <= z /\ CommandLies(c, w, b, e)
      /\ last \in BOOLEAN
  BY <1>1, <1>2, <1>3, <1>4, <1>5
<1>7. ASSUME last PROVE e = z
  <2>1. j = J
    BY <1>4, <1>7, Zenon
  <2>2. QED
    BY <1>3, <1>4, <1>5, <2>1
<1>8. ASSUME ~last PROVE e < z /\ w[e + 1] = Semicolon /\ next = e + 1
  <2>1. j < J /\ j + 1 \in 1..J
    <3>1. j # J
      BY <1>4, <1>8, Zenon
    <3>2. QED
      BY <1>5, <3>1
  <2>2. w[e + 1] = Semicolon /\ next = e + 1
    BY <1>3, <1>4, <1>5, <2>1
  <2>3. PICK d, f : d = l.commands[j + 1] /\ f = to[j + 1]
    OBVIOUS
  <2>4. WrittenCommand(d) /\ next \in Nat /\ f \in Nat /\ f <= z /\ CommandLies(d, w, next, f)
    BY <1>1, <1>2, <1>3, <1>4, <2>1, <2>3
  <2>5. f > next
    BY <2>4, CommandEnd
  <2>6. e < z
    BY <1>3, <1>6, <2>2, <2>4, <2>5
  <2>7. QED
    BY <2>2, <2>6
<1>9. Ends(w, z, e, last, next)
  BY <1>6, <1>7, <1>8 DEF Ends
<1>10. JthCommand(l, w, from, to, z, j, c, b, e, last, next)
  BY <1>2, <1>4, <1>6, <1>9 DEF JthCommand
<1>11. QED
  BY <1>10

\* A line without a command has no token.
LEMMA NothingThere ==
  ASSUME ReaderInv, stage = "command", NEW w, Bare \/ (Legible(w, 0) /\ Behind(0)), NEW t, t = Token
  PROVE  ~t.found
<1>1. CASE Bare
  BY <1>1, NoToken DEF Bare
<1>2. CASE Legible(w, 0) /\ Behind(0)
  <2>1. PICK z \in Nat : z = 0
    OBVIOUS
  <2>2. PICK q \in 0..z : q = 0
    BY <2>1
  <2>3. Legible(w, z) /\ Behind(q)
    BY <1>2, <2>1, <2>2
  <2>4. t.found <=> q < z
    BY <2>3, NextWord
  <2>5. QED
    BY <2>1, <2>2, <2>4
<1>3. QED
  BY <1>1, <1>2

\* A comment in a line.
LEMMA LineComment ==
  ASSUME ReaderInv, parseComment, NEW l, WrittenLine(l), NEW w, NEW from, NEW to, NEW z,
         Shape(l, w, from, to, z), NEW u \in Nat, OnLine(l, w, from, z, u)
  PROVE  OnLineOrBehind(l, w, from, z, u)' /\ UNCHANGED <<file, read, executed>>
<1>1. PICK t : t = Token
  OBVIOUS
<1>2. /\ stage \in {"command", "argument"} /\ UNCHANGED <<file, read, executed>>
      /\ stage' \in {stage, "failed"}
  BY CommentStep
<1>3. t.found
  BY <1>1, CommentTakes
<1>4. PICK j \in 1..Len(l.commands) :
        /\ OnCommand(l.commands[j], from[j], j = Len(l.commands), from[j + 1], w, z)
        /\ Len(executed) = u + j - 1
  BY <1>1, <1>3, NothingThere DEF OnLine
<1>5. PICK c, b, e, last, next : JthCommand(l, w, from, to, z, j, c, b, e, last, next)
  BY CommandHere
<1>6. OnCommand(c, b, last, next, w, z) /\ z \in Nat
  BY <1>4, <1>5 DEF JthCommand, Shape
<1>7. OnCommand(c, b, last, next, w, z)' /\ stage' = stage
  BY <1>5, <1>6, InComment DEF JthCommand
<1>8. QED
  BY <1>2, <1>4, <1>5, <1>7 DEF OnLineOrBehind, OnLine, JthCommand, InLine

\* A command in a line, or the end of one without.
LEMMA LineCommand ==
  ASSUME ReaderInv, ParseCommand, NEW l, WrittenLine(l), NEW w, NEW from, NEW to, NEW z,
         Shape(l, w, from, to, z), NEW u \in Nat, OnLine(l, w, from, z, u)
  PROVE  OnLineOrBehind(l, w, from, z, u)' /\ UNCHANGED <<file, read, executed>>
<1>1. PICK t : t = Token
  OBVIOUS
<1>2. /\ stage = "command" /\ UNCHANGED <<file, read, executed>>
      /\ ~t.found => stage' = "line"
  BY <1>1, CommandStep
<1>3. CASE /\ Len(l.commands) = 0 /\ Len(executed) = u
           /\ Bare \/ (Legible(w, 0) /\ Behind(0))
  <2>1. ~t.found
    BY <1>1, <1>2, <1>3, NothingThere
  <2>2. stage' = "line" /\ Len(executed) = u + Len(l.commands)
    BY <1>2, <1>3, <2>1
  <2>3. QED
    BY <1>2, <2>2 DEF OnLineOrBehind
<1>4. CASE \E j \in 1..Len(l.commands) :
             /\ OnCommand(l.commands[j], from[j], j = Len(l.commands), from[j + 1], w, z)
             /\ Len(executed) = u + j - 1
  <2>1. PICK j \in 1..Len(l.commands) :
          /\ OnCommand(l.commands[j], from[j], j = Len(l.commands), from[j + 1], w, z)
          /\ Len(executed) = u + j - 1
    BY <1>4
  <2>2. PICK c, b, e, last, next : JthCommand(l, w, from, to, z, j, c, b, e, last, next)
    BY CommandHere
  <2>3. OnCommand(c, b, last, next, w, z) /\ z \in Nat
    BY <2>1, <2>2 DEF JthCommand, Shape
  <2>4. OnCommand(c, b, last, next, w, z)' /\ stage' = "argument"
    BY <2>2, <2>3, InName DEF JthCommand
  <2>5. QED
    BY <1>2, <2>1, <2>2, <2>4 DEF OnLineOrBehind, OnLine, JthCommand, InLine
<1>5. QED
  BY <1>3, <1>4 DEF OnLine

\* An argument in a line.
LEMMA LineArgument ==
  ASSUME ReaderInv, ParseArgument, NEW l, WrittenLine(l), NEW w, NEW from, NEW to, NEW z,
         Shape(l, w, from, to, z), NEW u \in Nat, OnLine(l, w, from, z, u)
  PROVE  OnLineOrBehind(l, w, from, z, u)' /\ UNCHANGED <<file, read, executed>>
<1>1. PICK t : t = Token
  OBVIOUS
<1>2. stage = "argument" /\ UNCHANGED <<file, read, executed>>
  BY <1>1, ArgumentStep
<1>3. PICK j \in 1..Len(l.commands) :
        /\ OnCommand(l.commands[j], from[j], j = Len(l.commands), from[j + 1], w, z)
        /\ Len(executed) = u + j - 1
  BY <1>2 DEF OnLine
<1>4. PICK c, b, e, last, next : JthCommand(l, w, from, to, z, j, c, b, e, last, next)
  BY CommandHere
<1>5. OnCommand(c, b, last, next, w, z) /\ z \in Nat
  BY <1>3, <1>4 DEF JthCommand, Shape
<1>6. OnCommand(c, b, last, next, w, z)' /\ stage' \in {"argument", "execute"}
  BY <1>4, <1>5, InArgument DEF JthCommand
<1>7. QED
  BY <1>2, <1>3, <1>4, <1>6 DEF OnLineOrBehind, OnLine, JthCommand, InLine

\* One command more is executed as it was wanted.
LEMMA OneWanted ==
  ASSUME executed \in Seq(Seq(Cells)), NEW c, c \in Seq(Cells), executed' = Append(executed, c),
         NEW wants, MeantSoFar(wants), c = Meant(wants[Len(executed) + 1])
  PROVE  Len(executed') = Len(executed) + 1 /\ MeantSoFar(wants)'
<1> DEFINE V == Seq(Cells)
           n == Len(executed)
<1>1. executed \in Seq(V) /\ c \in V
  OBVIOUS
<1> HIDE DEF V
<1>2. /\ n \in Nat /\ Len(executed') = n + 1 /\ executed'[n + 1] = c
      /\ \A i \in 1..n : executed'[i] = executed[i]
  BY <1>1
<1> HIDE DEF n
<1>3. \A i \in 1..(n + 1) : i = n + 1 \/ i \in 1..n
  BY <1>2
<1>4. \A i \in 1..(n + 1) : executed'[i] = Meant(wants[i])
  BY <1>2, <1>3 DEF n, MeantSoFar
<1>5. QED
  BY <1>2, <1>4 DEF n, MeantSoFar

\* A command of a line is executed.
LEMMA LineExecute ==
  ASSUME ReaderInv, Execute, NEW l, WrittenLine(l), NEW w, NEW from, NEW to, NEW z,
         Shape(l, w, from, to, z), NEW u \in Nat, OnLine(l, w, from, z, u),
         NEW wants, MeantSoFar(wants), \A j \in 1..Len(l.commands) : wants[u + j] = l.commands[j].words
  PROVE  /\ OnLineOrBehind(l, w, from, z, u)' /\ MeantSoFar(wants)' /\ UNCHANGED <<file, read>>
<1>1. stage = "execute" /\ UNCHANGED <<file, read>>
  BY ExecuteStep
<1>2. PICK j \in 1..Len(l.commands) :
        /\ OnCommand(l.commands[j], from[j], j = Len(l.commands), from[j + 1], w, z)
        /\ Len(executed) = u + j - 1
  BY <1>1 DEF OnLine
<1>3. PICK c, b, e, last, next : JthCommand(l, w, from, to, z, j, c, b, e, last, next)
  BY CommandHere
<1>4. OnCommand(c, b, last, next, w, z) /\ z \in Nat /\ WrittenCommand(c) /\ last \in BOOLEAN
  BY <1>2, <1>3 DEF JthCommand, Shape
<1>5. /\ executed' = Append(executed, Meant(c.words)) /\ Meant(c.words) \in Seq(Cells)
      /\ last => stage' = "line"
      /\ ~last => stage' = "command" /\ Legible(w, z)' /\ Behind(next)'
  BY <1>4, InExecute
<1>6. executed \in Seq(Seq(Cells))
  BY <1>1 DEF ReaderInv, ExecutedType
<1>7. PICK J \in Nat : J = Len(l.commands)
  BY DEF WrittenLine, IsSequence
<1>8. j \in 1..J /\ j \in Nat /\ Len(executed) + 1 = u + j
  BY <1>2, <1>7
<1>9. Len(executed') = Len(executed) + 1 /\ MeantSoFar(wants)'
  <2>1. PICK d : d = Meant(c.words)
    OBVIOUS
  <2>2. c.words = wants[Len(executed) + 1]
    BY <1>3, <1>8 DEF JthCommand
  <2>3. d \in Seq(Cells) /\ executed' = Append(executed, d) /\ d = Meant(wants[Len(executed) + 1])
    BY <1>5, <2>1, <2>2
  <2>4. QED
    BY <1>6, <2>3, OneWanted
<1>10. Len(executed') = u + j
  BY <1>8, <1>9
<1>11. CASE last
  <2>1. j = J
    BY <1>3, <1>7, <1>11, Zenon DEF JthCommand
  <2>2. stage' = "line" /\ Len(executed') = u + Len(l.commands)
    BY <1>5, <1>7, <1>10, <1>11, <2>1
  <2>3. QED
    BY <1>1, <1>9, <2>2 DEF OnLineOrBehind
<1>12. CASE ~last
  <2>1. j # J
    BY <1>3, <1>7, <1>12, Zenon DEF JthCommand
  <2>2. PICK i \in 1..Len(l.commands) : i = j + 1
    BY <1>7, <1>8, <2>1
  <2>3. PICK d, f, g, end, after : JthCommand(l, w, from, to, z, i, d, f, g, end, after)
    BY CommandHere
  <2>4. WrittenCommand(d) /\ f = from[i] /\ f \in Nat /\ f = next
    BY <1>3, <2>2, <2>3 DEF JthCommand
  <2>5. stage' = "command" /\ Legible(w, z)' /\ Behind(f)'
    BY <1>5, <1>12, <2>4
  <2>6. Reached(d, f, 0, FALSE, f)
    <3>1. Len(d.words) \in Nat /\ d.at \in Int
      BY <2>4, WrittenFacts
    <3>2. Stands(Len(d.words), d.at, Len(d.comment), f, 0, FALSE, f)
      <4>1. 0 \in 0..Len(d.words) /\ f = f + 0 + 0 /\ ~(0 <= d.at /\ d.at < 0)
        BY <2>4, <3>1
      <4>2. QED
        BY <4>1 DEF Stands
    <3>3. QED
      BY <3>2 DEF Reached
  <2>7. OnCommand(d, f, end, after, w, z)'
    BY <2>5, <2>6 DEF OnCommand
  <2>8. Len(executed') = u + i - 1
    BY <1>8, <1>10, <2>2
  <2>9. OnLine(l, w, from, z, u)'
    BY <2>3, <2>7, <2>8 DEF OnLine, JthCommand
  <2>10. QED
    BY <1>1, <1>9, <2>5, <2>9 DEF OnLineOrBehind, InLine
<1>13. QED
  BY <1>4, <1>11, <1>12

\* Whatever orng does in a line, it stays in it until it has executed its commands.
LEMMA LineGoesOn ==
  ASSUME ReaderInv, main, InLine, NEW l, WrittenLine(l), NEW w, NEW from, NEW to, NEW z,
         Shape(l, w, from, to, z), NEW u \in Nat, OnLine(l, w, from, z, u),
         NEW wants, MeantSoFar(wants), \A j \in 1..Len(l.commands) : wants[u + j] = l.commands[j].words
  PROVE  /\ OnLineOrBehind(l, w, from, z, u)' /\ MeantSoFar(wants)' /\ UNCHANGED <<file, read>>
<1>1. ~ReadLine /\ ~EndOfFile
  BY DEF ReadLine, EndOfFile, InLine
<1>2. CASE parseComment
  BY <1>2, LineComment DEF MeantSoFar
<1>3. CASE ParseCommand
  BY <1>3, LineCommand DEF MeantSoFar
<1>4. CASE ParseArgument
  BY <1>4, LineArgument DEF MeantSoFar
<1>5. CASE Execute
  BY <1>5, LineExecute
<1>6. QED
  BY <1>1, <1>2, <1>3, <1>4, <1>5 DEF main

---------------------------------------------------------------------------
(* orng in a document.                                                     *)

\* orng is between two lines of a document or in one of them, and has executed the commands
\* of the lines before.
Reading(d, o, e, wants) ==
  /\ WellFormed(d) /\ DocumentLies(d, o, e, file, wants)
  /\ stage \in {"line", "command", "argument", "execute", "done"} /\ MeantSoFar(wants)
  /\ stage = "line" => \E i \in 0..Len(d) : read = o[i] /\ Len(executed) = e[i]
  /\ stage = "done" => Len(executed) = Len(wants)
  /\ InLine => \E i, from, to, z :
                 /\ i \in 1..Len(d) /\ Shape(d[i], LineWords(d[i]), from, to, z) /\ read = o[i]
                 /\ OnLine(d[i], LineWords(d[i]), from, z, e[i - 1])

\* The i-th line of a document.
LineOf(d, o, e, i, l, x, y, u, v, cells, wants) ==
  /\ l = d[i] /\ x = o[i - 1] /\ y = o[i] /\ u = e[i - 1] /\ v = e[i]
  /\ WrittenLine(l)
  /\ x \in Nat /\ y \in Nat /\ x < y /\ y <= Len(cells) /\ CellsLie(l, x, y, cells)
  /\ u \in Nat /\ v \in Nat /\ v = u + Len(l.commands) /\ v <= Len(wants)
  /\ \A j \in 1..Len(l.commands) : wants[u + j] = l.commands[j].words

\* It has its place in the script.
LEMMA LineHere ==
  ASSUME NEW d, NEW o, NEW e, NEW cells, NEW wants, DocumentLies(d, o, e, cells, wants),
         NEW i \in 1..Len(d)
  PROVE  \E l, x, y, u, v : LineOf(d, o, e, i, l, x, y, u, v, cells, wants)
<1>1. PICK l, x, y, u, v : l = d[i] /\ x = o[i - 1] /\ y = o[i] /\ u = e[i - 1] /\ v = e[i]
  OBVIOUS
<1>2. LineLies(l, x, y, u, v, cells, wants)
  BY <1>1 DEF DocumentLies
<1>3. LineOf(d, o, e, i, l, x, y, u, v, cells, wants)
  BY <1>1, <1>2 DEF LineLies, LineOf, CellsLie
<1>4. QED
  BY <1>3

\* orng in a line of a document.
LEMMA ReadingInLine ==
  ASSUME ReaderInv, main, InLine, NEW d, NEW o, NEW e, NEW wants, Reading(d, o, e, wants)
  PROVE  Reading(d, o, e, wants)'
<1>1. WellFormed(d) /\ DocumentLies(d, o, e, file, wants) /\ MeantSoFar(wants)
  BY DEF Reading
<1>2. PICK i, from, to, z :
        /\ i \in 1..Len(d) /\ Shape(d[i], LineWords(d[i]), from, to, z) /\ read = o[i]
        /\ OnLine(d[i], LineWords(d[i]), from, z, e[i - 1])
  BY DEF Reading
<1>3. PICK l, x, y, u, v : LineOf(d, o, e, i, l, x, y, u, v, file, wants)
  BY <1>1, <1>2, LineHere
<1>4. PICK w : w = LineWords(l)
  OBVIOUS
<1>5. /\ WrittenLine(l) /\ Shape(l, w, from, to, z) /\ u \in Nat /\ OnLine(l, w, from, z, u)
      /\ \A j \in 1..Len(l.commands) : wants[u + j] = l.commands[j].words
  BY <1>2, <1>3, <1>4 DEF LineOf
<1>6. OnLineOrBehind(l, w, from, z, u)' /\ MeantSoFar(wants)' /\ UNCHANGED <<file, read>>
  BY <1>1, <1>5, LineGoesOn
<1>7. DocumentLies(d, o, e, file, wants)'
  BY <1>1, <1>6
<1>8. CASE InLine' /\ OnLine(l, w, from, z, u)'
  <2>1. stage' \in {"line", "command", "argument", "execute", "done"} /\ stage' \notin {"line", "done"}
    BY <1>8 DEF InLine
  <2>2. \E k, f, t, n :
          /\ k \in 1..Len(d) /\ Shape(d[k], LineWords(d[k]), f, t, n) /\ read' = o[k]
          /\ OnLine(d[k], LineWords(d[k]), f, n, e[k - 1])'
    BY <1>2, <1>3, <1>4, <1>6, <1>8 DEF LineOf
  <2>3. QED
    BY <1>1, <1>6, <1>7, <2>1, <2>2 DEF Reading
<1>9. CASE stage' = "line" /\ Len(executed') = u + Len(l.commands)
  <2>1. ~InLine' /\ stage' # "done"
    BY <1>9 DEF InLine
  <2>2. i \in 0..Len(d) /\ read' = o[i] /\ Len(executed') = e[i]
    <3>1. Len(d) \in Nat
      BY <1>1 DEF DocumentLies
    <3>2. QED
      BY <1>2, <1>3, <1>6, <1>9, <3>1 DEF LineOf
  <2>3. QED
    BY <1>1, <1>6, <1>7, <1>9, <2>1, <2>2 DEF Reading
<1>10. QED
  BY <1>6, <1>8, <1>9 DEF OnLineOrBehind

\* Between two lines there is a line to come, or there is none.
LEMMA LineToCome ==
  ASSUME ReaderInv, stage = "line", NEW d, NEW o, NEW e, NEW wants, Reading(d, o, e, wants)
  PROVE  \/ /\ read = Len(file) /\ Len(executed) = Len(wants)
         \/ /\ read < Len(file)
            /\ \E i \in 1..Len(d) : read = o[i - 1] /\ Len(executed) = e[i - 1]
<1>1. /\ Len(d) \in Nat /\ DocumentLies(d, o, e, file, wants)
      /\ o[Len(d)] = Len(file) /\ e[Len(d)] = Len(wants)
  BY DEF Reading, DocumentLies
<1>2. PICK k \in 0..Len(d) : read = o[k] /\ Len(executed) = e[k]
  BY DEF Reading
<1>3. CASE k = Len(d)
  BY <1>1, <1>2, <1>3
<1>4. CASE k # Len(d)
  <2>1. PICK i \in 1..Len(d) : i = k + 1 /\ k = i - 1
    BY <1>1, <1>4
  <2>2. PICK l, x, y, u, v : LineOf(d, o, e, i, l, x, y, u, v, file, wants)
    BY <1>1, LineHere
  <2>3. x = read /\ x \in Nat /\ y \in Nat /\ x < y /\ y <= Len(file)
    BY <1>2, <2>1, <2>2 DEF LineOf
  <2>4. Len(file) \in Nat
    BY <1>1 DEF DocumentLies
  <2>5. read < Len(file)
    BY <2>3, <2>4
  <2>6. QED
    BY <1>2, <2>1, <2>5
<1>5. QED
  BY <1>3, <1>4

\* The end of a document is the end of its last line.
LEMMA ReadingEnd ==
  ASSUME ReaderInv, EndOfFile, NEW d, NEW o, NEW e, NEW wants, Reading(d, o, e, wants)
  PROVE  Reading(d, o, e, wants)'
<1>1. /\ stage = "line" /\ read = Len(file) /\ stage' = "done"
      /\ UNCHANGED <<file, read, executed>>
  BY DEF EndOfFile
<1>2. Len(executed) = Len(wants)
  <2>1. Len(file) \in Nat
    BY DEF Reading, DocumentLies
  <2>2. QED
    BY <1>1, <2>1, LineToCome
<1>3. ~InLine'
  BY <1>1 DEF InLine
<1>4. QED
  BY <1>1, <1>2, <1>3 DEF Reading, MeantSoFar

\* A line without a word is read to its end.
LEMMA BlankRead ==
  ASSUME ReaderInv, ReadLine, read + 1 <= Len(file), file[read + 1] = Newline
  PROVE  file' = file /\ Bare' /\ read' = read + 1
<1>2. read \in Nat /\ Len(file) \in Nat
  BY DEF ReaderInv, ReaderTypes, IsSequence
<1>3. PICK e \in 1..(Len(file) - read) : e = 1 /\ file[read + e] = Newline
  BY <1>2
<1>9. file' = file
  BY <1>3, ScriptAssumption, UncutLine
<1>1. /\ fresh' = TRUE /\ Len(line') \in 1..(Len(file) - read) /\ read' = read + Len(line')
      /\ \A j \in 1..Len(line') : line'[j] \in {file[read + j], NUL}
  BY <1>9, LineStep
<1>4. Len(line') <= e
  BY <1>3, <1>9, NextLine
<1>5. Len(line') = 1
  BY <1>1, <1>2, <1>3, <1>4
<1>6. line'[1] \in {Newline, NUL}
  BY <1>1, <1>5
<1>7. ~Word(line'[1])
  BY <1>6, Names
<1>8. QED
  BY <1>1, <1>5, <1>7, <1>9 DEF Bare

\* Without a word there is no command.
LEMMA NoWordNoCommand ==
  ASSUME NEW l, WrittenLine(l), NEW w, Len(w) = 0, NEW from, NEW to, NEW z,
         Shape(l, w, from, to, z)
  PROVE  Len(l.commands) = 0
<1>1. PICK J \in Nat : J = Len(l.commands)
  BY DEF WrittenLine, IsSequence
<1>2. CASE J > 0
  <2>1. PICK j \in 1..Len(l.commands) : j = J
    BY <1>1, <1>2
  <2>2. PICK c, b, e, last, next : JthCommand(l, w, from, to, z, j, c, b, e, last, next)
    BY CommandHere
  <2>3. WrittenCommand(c) /\ b \in Nat /\ e \in Nat /\ e <= z /\ CommandLies(c, w, b, e)
    BY <2>2 DEF JthCommand
  <2>4. e > b
    BY <2>3, CommandEnd
  <2>5. z \in Nat /\ z <= 0
    BY DEF Shape
  <2>6. QED
    BY <2>3, <2>4, <2>5
<1>3. CASE ~(J > 0)
  BY <1>1, <1>3
<1>4. QED
  BY <1>2, <1>3

\* A line of a document is there to be read.
LEMMA LineRead ==
  ASSUME ReaderInv, ReadLine, NEW l, WrittenLine(l), NEW y \in Nat, read < y, y <= Len(file),
         CellsLie(l, read, y, file), NEW u, u \in Nat, Len(executed) = u
  PROVE  /\ file' = file /\ read' = y
         /\ \E from, to, z : Shape(l, LineWords(l), from, to, z) /\ OnLine(l, LineWords(l), from, z, u)'
<1>1. PICK w : w = LineWords(l)
  OBVIOUS
<1>2. w \in Seq(Vocabulary(l)) /\ 2 * Len(w) < MAX_COMMAND_LEN
  BY <1>1, LineShapes
<1>3. PICK from, to, z : Shape(l, w, from, to, z)
  BY <1>1, LineShapes
<1>4. stage' = "command" /\ executed' = executed /\ fresh' = TRUE
  BY LineStep
<1>5. read \in Nat /\ Len(file) \in Nat
  BY DEF ReaderInv, ReaderTypes, IsSequence
<1>6. PICK n \in Nat : n = Len(w)
  BY <1>2
<1>7. CASE w = << >>
  <2>1. y = read + 1 /\ file[y] = Newline
    BY <1>1, <1>7 DEF CellsLie
  <2>2. file' = file /\ Bare' /\ read' = read + 1
    BY <2>1, BlankRead
  <2>3. Len(w) = 0
    BY <1>7
  <2>4. Len(l.commands) = 0
    BY <1>3, <2>3, NoWordNoCommand
  <2>5. OnLine(l, w, from, z, u)'
    BY <1>4, <2>2, <2>4 DEF OnLine
  <2>6. QED
    BY <1>1, <1>3, <2>1, <2>2, <2>5
<1>8. CASE w # << >>
  <2>1. n > 0
    BY <1>2, <1>6, <1>8
  <2>2. y = read + 2 * n /\ Spells(file, read, w)
    BY <1>1, <1>6, <1>8 DEF CellsLie
  <2>3. 2 * n <= Len(file) - read /\ 2 * n < MAX_COMMAND_LEN
    BY <1>2, <1>5, <1>6, <2>2
  <2>4. /\ z \in Nat /\ z <= n /\ \A x \in 1..n : Word(w[x])
        /\ \A x \in 1..z : w[x] # Remark
        /\ z < n => w[z + 1] = Remark
    BY <1>3, <1>6 DEF Shape
  <2>5. file' = file /\ Legible(w, z)' /\ read' = read + 2 * n /\ Place' = 1
    BY <1>6, <2>1, <2>2, <2>3, <2>4, WholeLine
  <2>6. Behind(0)'
    BY <2>5 DEF Behind
  <2>7. PICK J \in Nat : J = Len(l.commands)
    BY DEF WrittenLine, IsSequence
  <2>8. CASE J = 0
    <3>1. z = 0
      BY <1>3, <2>7, <2>8 DEF Shape
    <3>2. Legible(w, 0)'
      BY <2>5, <3>1
    <3>3. OnLine(l, w, from, z, u)'
      BY <1>4, <2>6, <2>7, <2>8, <3>2 DEF OnLine
    <3>4. QED
      BY <1>1, <1>3, <2>2, <2>5, <3>3
  <2>9. CASE J # 0
    <3>1. PICK j \in 1..Len(l.commands) : j = 1
      BY <2>7, <2>9
    <3>2. PICK c, b, e, last, next : JthCommand(l, w, from, to, z, j, c, b, e, last, next)
      BY <1>3, CommandHere
    <3>3. b = 0 /\ WrittenCommand(c)
      <4>1. from[1] = 0
        BY <1>3, <2>7, <2>9 DEF Shape
      <4>2. QED
        BY <3>1, <3>2, <4>1 DEF JthCommand
    <3>4. Reached(c, b, 0, FALSE, 0)
      <4>1. Len(c.words) \in Nat /\ c.at \in Int
        BY <3>3, WrittenFacts
      <4>2. 0 \in 0..Len(c.words) /\ 0 = b + 0 + 0 /\ ~(0 <= c.at /\ c.at < 0)
        BY <3>3, <4>1
      <4>3. QED
        BY <4>2 DEF Reached, Stands
    <3>5. OnCommand(c, b, last, next, w, z)'
      BY <1>4, <2>5, <2>6, <3>4 DEF OnCommand
    <3>6. Len(executed') = u + j - 1
      BY <1>4, <3>1
    <3>7. OnLine(l, w, from, z, u)'
      BY <3>2, <3>5, <3>6 DEF OnLine, JthCommand
    <3>8. QED
      BY <1>1, <1>3, <2>2, <2>5, <3>7
  <2>10. QED
    BY <2>8, <2>9
<1>9. QED
  BY <1>7, <1>8

\* orng goes from one line of a document to the next.
LEMMA ReadingRead ==
  ASSUME ReaderInv, ReadLine, NEW d, NEW o, NEW e, NEW wants, Reading(d, o, e, wants)
  PROVE  Reading(d, o, e, wants)'
<1>1. WellFormed(d) /\ DocumentLies(d, o, e, file, wants) /\ MeantSoFar(wants)
  BY DEF Reading
<1>2. stage = "line" /\ stage' = "command" /\ executed' = executed
  BY LineStep
<1>3. read < Len(file)
  BY DEF ReadLine
<1>4. PICK i \in 1..Len(d) : read = o[i - 1] /\ Len(executed) = e[i - 1]
  <2>1. Len(file) \in Nat
    BY <1>1 DEF DocumentLies
  <2>2. QED
    BY <1>2, <1>3, <2>1, LineToCome
<1>5. PICK l, x, y, u, v : LineOf(d, o, e, i, l, x, y, u, v, file, wants)
  BY <1>1, LineHere
<1>6. /\ WrittenLine(l) /\ y \in Nat /\ read < y /\ y <= Len(file) /\ CellsLie(l, read, y, file)
      /\ u \in Nat /\ Len(executed) = u
  BY <1>4, <1>5 DEF LineOf
<1>7. /\ file' = file /\ read' = y
      /\ \E from, to, z : Shape(l, LineWords(l), from, to, z) /\ OnLine(l, LineWords(l), from, z, u)'
  BY <1>6, LineRead
<1>8. \E k, f, t, n :
          /\ k \in 1..Len(d) /\ Shape(d[k], LineWords(d[k]), f, t, n) /\ read' = o[k]
          /\ OnLine(d[k], LineWords(d[k]), f, n, e[k - 1])'
  BY <1>5, <1>7 DEF LineOf
<1>9. DocumentLies(d, o, e, file, wants)' /\ MeantSoFar(wants)'
  BY <1>1, <1>2, <1>7 DEF MeantSoFar
<1>10. QED
  BY <1>1, <1>2, <1>8, <1>9 DEF Reading

\* Whatever orng does with a document, it goes on reading it.
LEMMA ReadingMain ==
  ASSUME ReaderInv, main, NEW d, NEW o, NEW e, NEW wants, Reading(d, o, e, wants)
  PROVE  Reading(d, o, e, wants)'
<1>1. CASE InLine
  BY <1>1, ReadingInLine
<1>2. CASE ReadLine
  BY <1>2, ReadingRead
<1>3. CASE EndOfFile
  BY <1>3, ReadingEnd
<1>4. ReadLine \/ EndOfFile \/ InLine
  <2>1. parseComment \/ ParseCommand \/ ParseArgument \/ Execute => InLine
    <3>1. parseComment \/ ParseCommand \/ ParseArgument \/ Execute =>
            stage \in {"command", "argument", "execute"}
      BY DEF parseComment, ParseCommand, ParseArgument, Execute
    <3>2. QED
      BY <3>1 DEF InLine
  <2>2. QED
    BY <2>1 DEF main
<1>5. QED
  BY <1>1, <1>2, <1>3, <1>4

\* It begins in front of the first line.
LEMMA ReadingStart ==
  ASSUME NEW d, WellFormed(d), NEW cells, cells = Document(d).text, Start(cells, TRUE),
         NEW wants, wants = Document(d).wants
  PROVE  \E o, e : Reading(d, o, e, wants)'
<1>1. PICK o, e : DocumentLies(d, o, e, cells, wants)
  BY DocumentLaid
<1>2. file' = cells /\ read' = 0 /\ executed' = << >> /\ stage' = "line"
  BY DEF Start
<1>3. o[0] = 0 /\ e[0] = 0 /\ Len(d) \in Nat
  BY <1>1 DEF DocumentLies
<1>4. Len(executed') = 0
  BY <1>2
<1>5. MeantSoFar(wants)'
  BY <1>4 DEF MeantSoFar
<1>6. 0 \in 0..Len(d) /\ read' = o[0] /\ Len(executed') = e[0]
  BY <1>2, <1>3, <1>4
<1>7. ~InLine'
  BY <1>2 DEF InLine
<1>8. DocumentLies(d, o, e, file, wants)'
  BY <1>1, <1>2
<1>9. Reading(d, o, e, wants)'
  BY <1>2, <1>5, <1>6, <1>7, <1>8 DEF Reading
<1>10. QED
  BY <1>9

\* A sequence that agrees with the head of a longer one is a prefix of it.
LEMMA PrefixOf ==
  ASSUME NEW S, NEW s, s \in Seq(S), NEW T, NEW t, t \in Seq(T), Len(s) <= Len(t),
         \A x \in 1..Len(s) : s[x] = t[x]
  PROVE  IsPrefix(s, t) /\ (Len(s) = Len(t) => s = t)
<1>1. PICK n, m \in Nat : n = Len(s) /\ m = Len(t) /\ n <= m
  OBVIOUS
<1>2. /\ SubSeq(s, 1, n) \in Seq(S) /\ Len(SubSeq(s, 1, n)) = n
      /\ \A x \in 1..n : SubSeq(s, 1, n)[x] = s[x]
  BY <1>1
<1>3. /\ SubSeq(t, 1, n) \in Seq(T) /\ Len(SubSeq(t, 1, n)) = n
      /\ \A x \in 1..n : SubSeq(t, 1, n)[x] = t[x]
  BY <1>1
<1>4. SubSeq(s, 1, n) = SubSeq(t, 1, n)
  BY <1>1, <1>2, <1>3
<1>5. Len(s) = Len(t) => s = t
  BY <1>1
<1>6. QED
  BY <1>1, <1>4, <1>5 DEF IsPrefix

\* No more is executed of a document than it has commands.
LEMMA ReadingSoFar ==
  ASSUME ReaderInv, NEW d, NEW o, NEW e, NEW wants, Reading(d, o, e, wants)
  PROVE  Len(executed) <= Len(wants)
<1>1. /\ DocumentLies(d, o, e, file, wants) /\ Len(d) \in Nat /\ Len(wants) \in Nat /\ e[0] = 0
  BY DEF Reading, DocumentLies
<1>2. CASE stage = "line"
  <2>1. PICK i \in 0..Len(d) : Len(executed) = e[i]
    BY <1>2 DEF Reading
  <2>2. CASE i = 0
    BY <1>1, <2>1, <2>2
  <2>3. CASE i # 0
    <3>1. i \in 1..Len(d)
      BY <1>1, <2>3
    <3>2. PICK l, x, y, u, v : LineOf(d, o, e, i, l, x, y, u, v, file, wants)
      BY <1>1, <3>1, LineHere
    <3>3. QED
      BY <2>1, <3>2 DEF LineOf
  <2>4. QED
    BY <2>2, <2>3
<1>3. CASE InLine
  <2>1. PICK i, from, z : /\ i \in 1..Len(d)
                          /\ OnLine(d[i], LineWords(d[i]), from, z, e[i - 1])
    BY <1>3 DEF Reading
  <2>2. PICK l, x, y, u, v : LineOf(d, o, e, i, l, x, y, u, v, file, wants)
    BY <1>1, <2>1, LineHere
  <2>3. u \in Nat /\ v = u + Len(l.commands) /\ v <= Len(wants) /\ WrittenLine(l)
    BY <2>2 DEF LineOf
  <2>4. PICK J \in Nat : J = Len(l.commands)
    BY <2>3 DEF WrittenLine, IsSequence
  <2>5. Len(executed) = u \/ \E j \in 1..J : Len(executed) = u + j - 1
    BY <2>1, <2>2, <2>4 DEF OnLine, LineOf
  <2>6. QED
    BY <1>1, <2>3, <2>4, <2>5
<1>4. CASE stage = "done"
  BY <1>1, <1>4 DEF Reading
<1>5. QED
  BY <1>2, <1>3, <1>4 DEF Reading, InLine

\* What is executed of a document is what it wants.
LEMMA ReadingMeans ==
  ASSUME ReaderInv, NEW d, NEW o, NEW e, NEW wants, Reading(d, o, e, wants)
  PROVE  /\ IsPrefix(executed, Wanted(wants))
         /\ stage \in Ended => stage = "done" /\ executed = Wanted(wants)
<1>1. /\ Len(wants) \in Nat /\ MeantSoFar(wants)
      /\ stage \in {"line", "command", "argument", "execute", "done"}
      /\ stage = "done" => Len(executed) = Len(wants)
  BY DEF Reading, DocumentLies
<1>2. executed \in Seq(Seq(Cells))
  BY <1>1 DEF ReaderInv, ExecutedType
<1>3. Len(executed) <= Len(wants)
  BY ReadingSoFar
<1> DEFINE V == Seq(Cells)
           T == {Meant(wants[i]) : i \in 1..Len(wants)}
           t == Wanted(wants)
<1>4. executed \in Seq(V)
  BY <1>2
<1> HIDE DEF V
<1>5. t \in Seq(T) /\ Len(t) = Len(wants) /\ \A x \in 1..Len(wants) : t[x] = Meant(wants[x])
  <2>1. t = [i \in 1..Len(wants) |-> Meant(wants[i])]
    BY DEF Wanted
  <2>2. \A i \in 1..Len(wants) : Meant(wants[i]) \in T
    OBVIOUS
  <2> HIDE DEF T, t
  <2>3. QED
    BY <1>1, <2>1, <2>2
<1> HIDE DEF T, t
<1>6. PICK s : s = executed
  OBVIOUS
<1>7. /\ s \in Seq(V) /\ Len(s) <= Len(t) /\ \A x \in 1..Len(s) : s[x] = t[x]
  <2>1. \A x \in 1..Len(s) : s[x] = Meant(wants[x])
    BY <1>1, <1>6 DEF MeantSoFar
  <2>2. Len(s) \in Nat
    BY <1>4, <1>6
  <2>3. QED
    BY <1>1, <1>3, <1>4, <1>5, <1>6, <2>1, <2>2
<1>8. IsPrefix(s, t) /\ (Len(s) = Len(t) => s = t)
  BY <1>5, <1>7, PrefixOf
<1>9. ASSUME stage \in Ended PROVE stage = "done" /\ s = t
  BY <1>1, <1>5, <1>6, <1>8, <1>9 DEF Ended
<1>10. QED
  BY <1>6, <1>8, <1>9 DEF t

\* An operator who has started a document is alone with it.
DocumentInv ==
  author.who = "operator" => controller # "wait" /\ \E d, o, e : Reading(d, o, e, author.wants)

\* A script in the syntax of the README is executed command by command as it was written,
\* whatever its words, comments and remarks are and however its commands are chained, and it
\* comes to its end without an error (main, parseComment).
THEOREM ExecutedAsWritten ==
  ASSUME \A d \in Documents : WellFormed(d) PROVE Spec => []AsWritten
<1>1. Init => DocumentInv
  BY DEF Init, DocumentInv, Nobody
<1>2. SessionInv /\ DocumentInv /\ [Next]_vars => DocumentInv'
  <2> SUFFICES ASSUME SessionInv, DocumentInv, [Next]_vars PROVE DocumentInv'
    OBVIOUS
  <2>1. /\ ReaderInv
        /\ controller \in {"push", "run", "remove", "dead"} => stage = "off"
    BY DEF SessionInv, ControllerInv
  <2>2. stage = "off" => author.who # "operator"
    BY DEF DocumentInv, Reading
  <2>3. CASE orng
    <3>1. main /\ UNCHANGED <<controller, author>>
      BY <2>3 DEF orng, ctlVars
    <3>2. ASSUME author.who = "operator" PROVE \E d, o, e : Reading(d, o, e, author.wants)'
      <4>1. PICK d, o, e : Reading(d, o, e, author.wants)
        BY <3>2 DEF DocumentInv
      <4>2. PICK wants : wants = author.wants
        OBVIOUS
      <4>3. Reading(d, o, e, wants)'
        BY <2>1, <3>1, <4>1, <4>2, ReadingMain
      <4>4. author'.wants = wants
        BY <3>1, <4>2
      <4>5. QED
        BY <4>3, <4>4
    <3>3. QED
      BY <3>1, <3>2 DEF DocumentInv
  <2>4. CASE shellCheckOutput
    <3>1. stage = "off" /\ (author' = author \/ author' = [who |-> "controller", wants |-> events])
      BY Zenon, <2>4 DEF shellCheckOutput
    <3>2. author'.who # "operator"
      BY <2>2, <3>1
    <3>3. QED
      BY <3>2 DEF DocumentInv
  <2>5. CASE Request \/ pushFile
    <3>1. author' = author /\ stage = "off"
      BY <2>1, <2>5 DEF Request, pushFile
    <3>2. QED
      BY <2>2, <3>1 DEF DocumentInv
  <2>6. CASE Checked
    <3>1. author' = author /\ controller = "wait"
      BY <2>6 DEF Checked
    <3>2. QED
      BY <3>1 DEF DocumentInv
  <2>7. CASE removeFile \/ Restart \/ Finished
    <3>1. author' = Nobody
      BY <2>7 DEF removeFile, Restart, Finished
    <3>2. QED
      BY <3>1 DEF DocumentInv, Nobody
  <2>8. CASE ByHand
    <3>1. /\ controller \in {"reading", "ended"} /\ controller' = controller
          /\ \/ \E d \in Documents :
                  /\ Start(Document(d).text, TRUE)
                  /\ author' = [who |-> "operator", wants |-> Document(d).wants]
             \/ \E f \in Soups : author' = [who |-> "soup", wants |-> << >>]
      BY <2>8 DEF ByHand
    <3>2. CASE \E f \in Soups : author' = [who |-> "soup", wants |-> << >>]
      BY <3>2 DEF DocumentInv
    <3>3. CASE \E d \in Documents :
                  /\ Start(Document(d).text, TRUE)
                  /\ author' = [who |-> "operator", wants |-> Document(d).wants]
      <4>1. PICK d \in Documents :
                  /\ Start(Document(d).text, TRUE)
                  /\ author' = [who |-> "operator", wants |-> Document(d).wants]
        BY <3>3
      <4>2. PICK cells, wants : cells = Document(d).text /\ wants = Document(d).wants
        OBVIOUS
      <4>3. WellFormed(d) /\ Start(cells, TRUE)
        BY <4>1, <4>2
      <4>4. \E o, e : Reading(d, o, e, wants)'
        BY <4>2, <4>3, ReadingStart
      <4>5. author'.wants = wants
        BY <4>1, <4>2
      <4>6. \E o, e : Reading(d, o, e, author.wants)'
        BY <4>4, <4>5
      <4>7. QED
        BY <3>1, <4>6 DEF DocumentInv
    <3>4. QED
      BY <3>1, <3>2, <3>3
  <2>9. CASE Quit \/ UNCHANGED vars
    <3>1. UNCHANGED <<author, file, read, line, save, fresh, cmd, args, more, stage, executed>>
          /\ (controller' = controller \/ controller' = "ended")
      BY <2>9 DEF Quit, Step, vars, ctlVars, scriptVars
    <3>2. ASSUME NEW d, NEW o, NEW e, Reading(d, o, e, author.wants)
          PROVE  Reading(d, o, e, author.wants)'
      <4>1. /\ \A w, z : Legible(w, z)' <=> Legible(w, z)
            /\ \A q : Behind(q)' <=> Behind(q)
            /\ \A c, k : Given(c, k)' <=> Given(c, k)
        BY <3>1 DEF Legible, Behind, Given, Place
      <4>2. \A c, b, last, next, w, z :
              OnCommand(c, b, last, next, w, z)' <=> OnCommand(c, b, last, next, w, z)
        BY <3>1, <4>1 DEF OnCommand
      <4>3. \A l, w, from, z, u : OnLine(l, w, from, z, u)' <=> OnLine(l, w, from, z, u)
        BY <3>1, <4>1, <4>2 DEF OnLine, Bare
      <4>4. PICK wants : wants = author.wants /\ wants = author'.wants
        BY <3>1
      <4>5. Reading(d, o, e, wants)'
        BY <3>1, <3>2, <4>3, <4>4 DEF Reading, MeantSoFar, InLine
      <4>6. QED
        BY <4>4, <4>5
    <3>3. QED
      BY <3>1, <3>2 DEF DocumentInv
  <2>10. Over => UNCHANGED vars
    BY DEF Over
  <2>11. QED
    BY <2>3, <2>4, <2>5, <2>6, <2>7, <2>8, <2>9, <2>10 DEF Next, execute_script
<1>3. SessionInv /\ DocumentInv => AsWritten
  <2> SUFFICES ASSUME SessionInv, DocumentInv, author.who = "operator"
               PROVE  /\ IsPrefix(executed, Wanted(author.wants))
                      /\ stage \in Ended => stage = "done" /\ executed = Wanted(author.wants)
    BY DEF AsWritten
  <2>1. PICK d, o, e : Reading(d, o, e, author.wants)
    BY DEF DocumentInv
  <2>2. ReaderInv
    BY DEF SessionInv
  <2>3. QED
    BY <2>1, <2>2, ReadingMeans
<1>4. QED
  BY <1>1, <1>2, <1>3, SessionInductive, PTL DEF Spec

=============================================================================
