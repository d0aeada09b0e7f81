---------------------------- MODULE FeatureProofs ---------------------------
(***************************************************************************)
(* Proofs about the journal files and the features with state of their own *)
(* (MCFeatures): first one journal file (JournalFile), for batches of any  *)
(* number and size and for every failing call, crash and power loss, then  *)
(* the shell sessions (ShellSessions), for any number of sessions and      *)
(* calls, then the runs of an observable (Observables).                    *)
(***************************************************************************)
EXTENDS MCFeatures, SequenceTheorems, FiniteSetTheorems, TLAPS

-----------------------------------------------------------------------------
(* Journal files                                                           *)
(*                                                                         *)
(* A reader walks back from any line to the beginning of its batch.  That  *)
(* the walk succeeds is not a property of two neighbours alone, so Framed  *)
(* states it of all the lines of a batch at once; cutting lines off the    *)
(* end and writing part of a batch after whole ones preserve it.  Roll     *)
(* backs and repairs cut only where whole batches end, behind all that a   *)
(* snapshot covers or an Append has acknowledged (Covered).                *)

Line == [batch : Batches, index : Nat, count : 1 .. MaxLines]

(* The first n lines are whole batches.                                    *)
Ended(ls, n) == n = 0 \/ Ends(ls[n])

(* Walking back from a line over as many lines as its position says one    *)
(* meets the lines of its batch, and before them the end of another.       *)
Framed(ls) ==
    /\ ls \in Seq(Line)
    /\ \A k \in 1 .. Len(ls) :
          /\ ls[k].index < ls[k].count /\ ls[k].index < k
          /\ \A j \in 0 .. ls[k].index :
                /\ ls[k - j].index = ls[k].index - j
                /\ ls[k - j].count = ls[k].count
          /\ Ended(ls, k - ls[k].index - 1)

-----------------------------------------------------------------------------
(* Framing *)

(* What a line is.                                                         *)
LEMMA LineFacts ==
  ASSUME NEW ls \in Seq(Line), NEW k \in 1 .. Len(ls)
  PROVE  /\ ls[k] \in Line
         /\ ls[k].index \in Nat /\ ls[k].count \in Nat /\ ls[k].count >= 1
  <1>1. ls[k] \in Line
    BY ElementOfSeq
  <1>2. MaxLines \in Nat
    BY MaxLinesAssumption
  <1> QED BY <1>1, <1>2 DEF Line

(* Cutting lines off the end leaves what is before them framed.            *)
LEMMA CutFramed ==
  ASSUME NEW ls, Framed(ls), NEW n \in 0 .. Len(ls)
  PROVE  LET c == SubSeq(ls, 1, n) IN
         /\ Framed(c) /\ c \in Seq(Line) /\ Len(c) = n
         /\ \A k \in 1 .. n : c[k] = ls[k]
         /\ \A k \in 0 .. n : Ended(c, k) <=> Ended(ls, k)
  <1> DEFINE c == SubSeq(ls, 1, n)
  <1>1. ls \in Seq(Line) /\ Len(ls) \in Nat /\ n \in Nat
    BY DEF Framed
  <1>2. c \in Seq(Line) /\ Len(c) = n /\ \A k \in 1 .. n : c[k] = ls[k]
    BY <1>1
  <1> HIDE DEF c
  <1>3. \A k \in 0 .. n : Ended(c, k) <=> Ended(ls, k)
    BY <1>1, <1>2 DEF Ended
  <1>4. ASSUME NEW k \in 1 .. n
        PROVE  /\ c[k].index < c[k].count /\ c[k].index < k
               /\ \A j \in 0 .. c[k].index :
                     c[k - j].index = c[k].index - j /\ c[k - j].count = c[k].count
               /\ Ended(c, k - c[k].index - 1)
    <2>1. k \in 1 .. Len(ls) /\ c[k] = ls[k] /\ ls[k].index \in Nat
      BY <1>1, <1>2, LineFacts
    <2>2. \A j \in 0 .. c[k].index : k - j \in 1 .. n
      BY <1>1, <2>1 DEF Framed
    <2>3. k - c[k].index - 1 \in 0 .. n
      BY <1>1, <2>1 DEF Framed
    <2>4. /\ ls[k].index < ls[k].count /\ ls[k].index < k
          /\ \A j \in 0 .. ls[k].index :
                ls[k - j].index = ls[k].index - j /\ ls[k - j].count = ls[k].count
          /\ Ended(ls, k - ls[k].index - 1)
      BY <2>1 DEF Framed
    <2>5. \A j \in 0 .. c[k].index :
                c[k - j].index = c[k].index - j /\ c[k - j].count = c[k].count
      BY <1>2, <2>1, <2>2, <2>4
    <2>6. Ended(c, k - c[k].index - 1)
      BY <1>3, <2>1, <2>3, <2>4
    <2> QED BY <2>1, <2>4, <2>5, <2>6
  <1>5. Framed(c)
    BY <1>2, <1>4 DEF Framed
  <1> QED BY <1>2, <1>3, <1>5 DEF c

(* The lines of a batch.                                                   *)
LEMMA BatchLinesFacts ==
  ASSUME NEW b \in Batches, NEW n \in 1 .. MaxLines
  PROVE  LET c == BatchLines(b, n) IN
         /\ c \in Seq(Line) /\ Len(c) = n
         /\ \A k \in 1 .. n : c[k].index = k - 1 /\ c[k].count = n
  <1>1. MaxLines \in Nat
    BY MaxLinesAssumption
  <1> QED BY <1>1 DEF BatchLines, Line

(* The lines of ls and the first j of a batch.                             *)
Appended(ls, b, n, j) == ls \o SubSeq(BatchLines(b, n), 1, j)

(* Writing some lines of a batch after whole batches leaves the file       *)
(* framed, and ended when all of them are written.                         *)
LEMMA AppendFramed ==
  ASSUME NEW ls, Framed(ls), Ended(ls, Len(ls)), NEW b \in Batches, NEW n \in 1 .. MaxLines,
         NEW j \in 0 .. n
  PROVE  LET c == Appended(ls, b, n, j) IN
         /\ Framed(c) /\ c \in Seq(Line) /\ Len(c) = Len(ls) + j
         /\ \A k \in 1 .. Len(ls) : c[k] = ls[k]
         /\ \A k \in 0 .. Len(ls) : Ended(c, k) <=> Ended(ls, k)
         /\ j = n => Ended(c, Len(c))
  <1> DEFINE ns == BatchLines(b, n)
             c == Appended(ls, b, n, j)
             L == Len(ls)
  <1>1. ls \in Seq(Line) /\ L \in Nat /\ n \in Nat /\ n >= 1 /\ j \in Nat /\ MaxLines \in Nat
    BY MaxLinesAssumption DEF Framed
  <1>2. /\ ns \in Seq(Line) /\ Len(ns) = n
        /\ \A k \in 1 .. n : ns[k].index = k - 1 /\ ns[k].count = n
    BY BatchLinesFacts
  <1>0. c = ls \o SubSeq(ns, 1, j)
    BY DEF Appended
  <1> HIDE DEF ns, c
  <1>3. /\ SubSeq(ns, 1, j) \in Seq(Line) /\ Len(SubSeq(ns, 1, j)) = j
        /\ \A k \in 1 .. j : SubSeq(ns, 1, j)[k] = ns[k]
    BY <1>1, <1>2
  <1>4. /\ c \in Seq(Line) /\ Len(c) = L + j
        /\ \A k \in 1 .. L : c[k] = ls[k]
        /\ \A k \in 1 .. j : c[L + k] = ns[k]
    BY <1>0, <1>1, <1>3
  <1> HIDE DEF L
  <1>5. \A k \in 0 .. L : Ended(c, k) <=> Ended(ls, k)
    BY <1>1, <1>4 DEF Ended
  <1>6. ASSUME NEW k \in 1 .. L + j
        PROVE  /\ c[k].index < c[k].count /\ c[k].index < k
               /\ \A i \in 0 .. c[k].index :
                     c[k - i].index = c[k].index - i /\ c[k - i].count = c[k].count
               /\ Ended(c, k - c[k].index - 1)
    <2>0. k \in 1 .. L => k \in 1 .. Len(ls)
      BY DEF L
    <2>1. CASE k \in 1 .. L
      <3>1. c[k] = ls[k] /\ ls[k].index \in Nat
        BY <1>1, <1>4, <2>0, <2>1, LineFacts
      <3>2. \A i \in 0 .. c[k].index : k - i \in 1 .. L
        BY <1>1, <2>0, <2>1, <3>1 DEF Framed
      <3>3. k - c[k].index - 1 \in 0 .. L
        BY <1>1, <2>0, <2>1, <3>1 DEF Framed
      <3>4. /\ ls[k].index < ls[k].count /\ ls[k].index < k
            /\ \A i \in 0 .. ls[k].index :
                  ls[k - i].index = ls[k].index - i /\ ls[k - i].count = ls[k].count
            /\ Ended(ls, k - ls[k].index - 1)
        BY <2>0, <2>1 DEF Framed
      <3>5. \A i \in 0 .. c[k].index :
                  c[k - i].index = c[k].index - i /\ c[k - i].count = c[k].count
        BY <1>4, <3>1, <3>2, <3>4
      <3>6. Ended(c, k - c[k].index - 1)
        BY <1>5, <3>1, <3>3, <3>4
      <3> QED BY <3>1, <3>4, <3>5, <3>6
    <2>2. CASE k \notin 1 .. L
      <3>1. k - L \in 1 .. j /\ k - L \in 1 .. n /\ k = L + (k - L)
        BY <1>1, <2>2
      <3>2. c[k] = ns[k - L] /\ c[k].index = k - L - 1 /\ c[k].count = n
        <4>1. c[k] = ns[k - L]
          BY <1>4, <3>1
        <4> QED BY <1>2, <3>1, <4>1
      <3>3. ASSUME NEW i \in 0 .. c[k].index
            PROVE  c[k - i].index = c[k].index - i /\ c[k - i].count = n
        <4>1. k - i - L \in 1 .. j /\ k - i = L + (k - i - L)
          BY SMTT(30), <1>1, <3>1, <3>2
        <4>2. c[k - i] = ns[k - i - L]
          BY <1>4, <4>1
        <4> QED BY <1>1, <1>2, <3>2, <4>1, <4>2
      <3>4. k - c[k].index - 1 = L
        BY <1>1, <3>1, <3>2
      <3>5. Ended(c, L)
        BY <1>1, <1>5 DEF L
      <3> QED BY <1>1, <3>1, <3>2, <3>3, <3>4, <3>5
    <2> QED BY <2>1, <2>2
  <1>7. Framed(c)
    BY <1>4, <1>6 DEF Framed
  <1>8. j = n => Ended(c, Len(c))
    BY SMTT(30), <1>1, <1>2, <1>4 DEF Ended, Ends
  <1> QED BY <1>4, <1>5, <1>7, <1>8 DEF c, L

(* A line fits the one before it.                                          *)
LEMMA FramedAdjacent ==
  ASSUME NEW ls, Framed(ls), NEW k \in 2 .. Len(ls)
  PROVE  Adjacent(ls[k - 1], ls[k])
  <1>1. ls \in Seq(Line) /\ k \in 1 .. Len(ls) /\ k - 1 \in 1 .. Len(ls) /\ k \in Nat
    BY DEF Framed
  <1>2. /\ ls[k].index \in Nat /\ ls[k].count \in Nat
        /\ ls[k - 1].index \in Nat /\ ls[k - 1].count \in Nat
    BY <1>1, LineFacts
  <1>3. /\ ls[k].index < ls[k].count
        /\ \A j \in 0 .. ls[k].index :
              ls[k - j].index = ls[k].index - j /\ ls[k - j].count = ls[k].count
        /\ Ended(ls, k - ls[k].index - 1)
    BY <1>1 DEF Framed
  <1>4. CASE ls[k].index = 0
    BY <1>1, <1>2, <1>3, <1>4 DEF Ended, Adjacent
  <1>5. CASE ls[k].index # 0
    <2>1. ls[k - 1].index = ls[k].index - 1 /\ ls[k - 1].count = ls[k].count
      BY <1>2, <1>3, <1>5
    <2> QED BY <1>2, <1>3, <1>5, <2>1 DEF Adjacent, Ends
  <1> QED BY <1>4, <1>5

(* A forward reader accepts whole batches from every line on.              *)
LEMMA FramedForward ==
  ASSUME NEW ls, Framed(ls), Ended(ls, Len(ls)), NEW s \in 0 .. Len(ls)
  PROVE  ForwardAccepts(ls, s)
  <1> SUFFICES ASSUME s < Len(ls)
               PROVE  /\ \E k \in 1 .. s + 1 :
                            /\ ls[k].index = 0
                            /\ \A m \in k + 1 .. s + 1 : ls[m].index > 0
                            /\ \A m \in k .. s + 1 : m > 1 => Adjacent(ls[m - 1], ls[m])
                      /\ AllAdjacent(SubSeq(ls, s + 1, Len(ls)))
                      /\ Ends(Last(ls))
    BY DEF ForwardAccepts
  <1>1. ls \in Seq(Line) /\ Len(ls) \in Nat /\ s \in Nat /\ s + 1 \in 1 .. Len(ls)
    BY DEF Framed
  <1>2. ls[s + 1].index \in Nat
    BY <1>1, LineFacts
  <1>3. /\ ls[s + 1].index < s + 1
        /\ \A j \in 0 .. ls[s + 1].index : ls[s + 1 - j].index = ls[s + 1].index - j
    BY <1>1 DEF Framed
  <1>4. \A m \in 1 .. Len(ls) : m > 1 => Adjacent(ls[m - 1], ls[m])
    BY <1>1, FramedAdjacent
  <1>5. \E k \in 1 .. s + 1 :
           /\ ls[k].index = 0
           /\ \A m \in k + 1 .. s + 1 : ls[m].index > 0
           /\ \A m \in k .. s + 1 : m > 1 => Adjacent(ls[m - 1], ls[m])
    <2> DEFINE k == s + 1 - ls[s + 1].index
    <2>1. k \in 1 .. s + 1
      BY <1>1, <1>2, <1>3
    <2>2. ls[k].index = 0
      <3>1. PICK d \in 0 .. ls[s + 1].index : d = ls[s + 1].index
        BY <1>2
      <3>2. ls[s + 1 - d].index = ls[s + 1].index - d
        BY <1>3
      <3>3. s + 1 - d = k /\ ls[s + 1].index - d = 0
        BY <1>2, <3>1
      <3> QED BY <3>2, <3>3
    <2>3. ASSUME NEW m \in k + 1 .. s + 1 PROVE ls[m].index > 0
      <3>1. s + 1 - m \in 0 .. ls[s + 1].index /\ m = s + 1 - (s + 1 - m)
        BY <1>1, <1>2, <2>1
      <3>2. ls[m].index = ls[s + 1].index - (s + 1 - m)
        BY <1>3, <3>1
      <3> QED BY <1>1, <1>2, <2>1, <3>1, <3>2
    <2>4. \A m \in k .. s + 1 : m > 1 => Adjacent(ls[m - 1], ls[m])
      BY <1>1, <1>4, <2>1
    <2> HIDE DEF k
    <2> QED BY <2>1, <2>2, <2>3, <2>4
  <1>6. AllAdjacent(SubSeq(ls, s + 1, Len(ls)))
    <2> DEFINE d == SubSeq(ls, s + 1, Len(ls))
    <2>1. Len(d) = Len(ls) - s /\ \A i \in 1 .. Len(d) : d[i] = ls[s + i]
      BY <1>1
    <2> HIDE DEF d
    <2>2. ASSUME NEW i \in 1 .. Len(d) - 1 PROVE Adjacent(d[i], d[i + 1])
      <3>1. /\ s + i + 1 \in 1 .. Len(ls) /\ s + i + 1 > 1 /\ s + i + 1 - 1 = s + i
            /\ d[i] = ls[s + i] /\ d[i + 1] = ls[s + (i + 1)] /\ s + (i + 1) = s + i + 1
        BY <1>1, <2>1
      <3> QED BY <1>4, <3>1
    <2>3. AllAdjacent(d)
      BY <2>2 DEF AllAdjacent
    <2> QED BY <2>3 DEF d
  <1>7. Ends(Last(ls))
    BY <1>1 DEF Ended, Last
  <1> QED BY <1>5, <1>6, <1>7

(* A backward reader accepts every page of whole batches.                  *)
LEMMA FramedPages ==
  ASSUME NEW ls, Framed(ls), Ended(ls, Len(ls)), NEW e \in 0 .. Len(ls), NEW n \in Nat
  PROVE  PageAccepts(ls, e, n)
  <1> DEFINE b == PageBase(e, n)
             d == SubSeq(ls, b + 1, e)
  <1>1. ls \in Seq(Line) /\ Len(ls) \in Nat /\ e \in Nat /\ b \in Nat
    BY DEF Framed, PageBase
  <1> HIDE DEF b
  <1> SUFFICES ASSUME b < e
               PROVE  /\ AllAdjacent(d)
                      /\ IF b = 0 THEN ls[1].index = 0 ELSE Adjacent(ls[b], ls[b + 1])
                      /\ IF e = Len(ls) THEN Ends(ls[e]) ELSE Adjacent(ls[e], ls[e + 1])
    BY DEF PageAccepts, b
  <1>2. ASSUME NEW m \in 1 .. Len(ls) - 1 PROVE Adjacent(ls[m], ls[m + 1])
    <2>1. m + 1 \in 2 .. Len(ls) /\ m + 1 - 1 = m
      BY <1>1
    <2>2. Adjacent(ls[m + 1 - 1], ls[m + 1])
      BY <2>1, FramedAdjacent
    <2> QED BY <2>1, <2>2
  <1>3. Len(d) = e - b /\ \A i \in 1 .. Len(d) : d[i] = ls[b + i]
    BY <1>1
  <1> HIDE DEF d
  <1>4. ASSUME NEW i \in 1 .. Len(d) - 1 PROVE Adjacent(d[i], d[i + 1])
    <2>1. /\ b + i \in 1 .. Len(ls) - 1
          /\ d[i] = ls[b + i] /\ d[i + 1] = ls[b + (i + 1)] /\ b + (i + 1) = b + i + 1
      BY <1>1, <1>3
    <2> QED BY <1>2, <2>1
  <1>5. ASSUME b = 0 PROVE ls[1].index = 0
    <2>1. 1 \in 1 .. Len(ls)
      BY <1>1
    <2>2. ls[1].index \in Nat /\ ls[1].index < 1
      BY <1>1, <2>1, LineFacts DEF Framed
    <2> QED BY <2>2
  <1>6. ASSUME b # 0 PROVE Adjacent(ls[b], ls[b + 1])
    <2>1. b \in 1 .. Len(ls) - 1
      BY <1>1, <1>6
    <2> QED BY <1>2, <2>1
  <1>7. ASSUME e # Len(ls) PROVE Adjacent(ls[e], ls[e + 1])
    <2>1. e \in 1 .. Len(ls) - 1
      BY <1>1, <1>7
    <2> QED BY <1>2, <2>1
  <1>8. ASSUME e = Len(ls) PROVE Ends(ls[e])
    BY <1>1, <1>8 DEF Ended
  <1> QED BY <1>4, <1>5, <1>6, <1>7, <1>8 DEF AllAdjacent

(* The interrupted batch at the end is cut where whole batches end, and no *)
(* whole batch ends behind that.                                           *)
LEMMA CutBatch ==
  ASSUME NEW ls, Framed(ls), ls # <<>>, ~Ends(Last(ls))
  PROVE  LET s == Len(ls) - (Last(ls).index + 1) IN
         /\ s \in 0 .. Len(ls) /\ Ended(ls, s)
         /\ \A B \in 0 .. Len(ls) : Ended(ls, B) => B <= s
  <1> DEFINE L == Len(ls)
             i == ls[L].index
  <1>1. ls \in Seq(Line) /\ L \in 1 .. L /\ L \in Nat /\ Last(ls) = ls[L]
    BY DEF Framed, Last
  <1>2. i \in Nat /\ ls[L].count \in Nat
    BY <1>1, LineFacts
  <1>3. /\ i < ls[L].count /\ i < L
        /\ \A j \in 0 .. i : ls[L - j].index = i - j /\ ls[L - j].count = ls[L].count
        /\ Ended(ls, L - i - 1)
    BY <1>1 DEF Framed
  <1>4. i # ls[L].count - 1
    BY <1>1 DEF Ends
  <1> HIDE DEF L, i
  <1>5. ASSUME NEW B \in 0 .. L, Ended(ls, B), B > L - i - 1 PROVE FALSE
    <2>1. L - B \in 0 .. i /\ B = L - (L - B)
      BY <1>1, <1>2, <1>5
    <2>2. ls[B].index = i - (L - B) /\ ls[B].count = ls[L].count
      BY <1>3, <2>1
    <2>3. B # 0
      BY <1>1, <1>2, <1>3, <1>5
    <2>4. ls[B].index = ls[B].count - 1
      BY <1>5, <2>3 DEF Ended, Ends
    <2>5. i - (L - B) = ls[L].count - 1
      BY <2>2, <2>4
    <2> DEFINE n == ls[L].count
    <2>6. i < n /\ i # n - 1 /\ n \in Nat /\ i - (L - B) = n - 1
      BY <1>2, <1>3, <1>4, <2>5
    <2> HIDE DEF n
    <2>7. B \in Nat /\ B <= L
      BY <1>1, <1>5
    <2> QED BY <1>1, <1>2, <2>6, <2>7
  <1>6. L - (i + 1) = L - i - 1 /\ L - i - 1 \in 0 .. L
    BY <1>1, <1>2, <1>3
  <1>7. \A B \in 0 .. L : Ended(ls, B) => B <= L - i - 1
    BY <1>1, <1>2, <1>5, <1>6
  <1> QED BY <1>1, <1>3, <1>6, <1>7 DEF L, i

-----------------------------------------------------------------------------
(* The invariant *)

Using == {"open", "write", "sync", "rollback", "syncRollback"}
Opening == {"created", "repairTail", "syncTail", "repairBatch", "syncBatch"}

Begins(p, ls) == Len(p) <= Len(ls) /\ \A k \in 1 .. Len(p) : p[k] = ls[k]

Sound(c) == Framed(c.lines) /\ (c.lines # <<>> => c.exists)

(* Whatever the disk may hold is framed.                                   *)
Contents == \A c \in durable \cup {file} : Sound(c)

(* What the steps of Open and Append know of the file: f.size is where     *)
(* whole batches end, and what is behind it is the batch being appended or *)
(* what a roll back has left.                                              *)
Handle ==
    /\ pc \in {"closed"} \cup Opening \cup Using
    /\ size \in Nat
    /\ pc \in Using => size <= Len(file.lines) /\ Ended(file.lines, size)
    /\ pc \notin Using => size = 0
    /\ pc = "write" => /\ size = Len(file.lines)
                       /\ \E b \in Batches, n \in 1 .. MaxLines : cur = BatchLines(b, n)
    /\ pc = "sync" => /\ Ended(file.lines, Len(file.lines))
                      /\ size + Len(cur) = Len(file.lines)
    /\ pc = "created" => file.lines = <<>>
    /\ pc = "syncBatch" => Ended(file.lines, Len(file.lines))

(* The file begins with p and whole batches end at or behind the end of p. *)
Covers(p, ls) ==
    /\ Begins(p, ls)
    /\ \E B \in Len(p) .. Len(ls) : Ended(ls, B)

(* The file keeps p: roll backs and repairs cut behind it.                 *)
Covered(p) ==
    /\ Covers(p, file.lines)
    /\ pc \in Using => Len(p) <= size

SnapCovered == snap.open => snap.lines \in Seq(Line) /\ Covered(snap.lines)

FileInv == Contents /\ Handle /\ SnapCovered

(* Where fsync of a new file makes its name durable, what has been         *)
(* acknowledged is covered and at the beginning of all the disk may hold.  *)
AckedKept ==
    /\ Framed(acked) /\ Ended(acked, Len(acked))
    /\ Covered(acked)
    /\ \A c \in durable : Begins(acked, c.lines)
    /\ acked # <<>> => entry

LogInv == FileInv /\ AckedKept

(* What is covered stays covered when lines are added ...                  *)
LEMMA CoversMore ==
  ASSUME NEW p \in Seq(Line), NEW ls \in Seq(Line), NEW ns \in Seq(Line),
         Covers(p, ls), Begins(ls, ns)
  PROVE  Covers(p, ns)
  <1>1. Len(p) \in Nat /\ Len(ls) \in Nat /\ Len(ns) \in Nat /\ Len(ls) <= Len(ns)
    BY DEF Begins
  <1>2. Begins(p, ns)
    BY <1>1 DEF Covers, Begins
  <1>3. PICK B \in Len(p) .. Len(ls) : Ended(ls, B)
    BY DEF Covers
  <1>4. Ended(ns, B) /\ B \in Len(p) .. Len(ns)
    BY <1>1, <1>3 DEF Ended, Begins
  <1> QED BY <1>2, <1>4 DEF Covers

(* ... and when lines are cut where whole batches end behind it.           *)
LEMMA CoversCut ==
  ASSUME NEW p \in Seq(Line), NEW ls, Framed(ls), Covers(p, ls),
         NEW n \in 0 .. Len(ls), Ended(ls, n), Len(p) <= n
  PROVE  Covers(p, SubSeq(ls, 1, n))
  <1> DEFINE c == SubSeq(ls, 1, n)
  <1>1. Len(p) \in Nat /\ Len(ls) \in Nat /\ n \in Nat
    BY DEF Framed
  <1>2. Len(c) = n /\ (\A k \in 1 .. n : c[k] = ls[k]) /\ Ended(c, n)
    BY <1>1, CutFramed
  <1> HIDE DEF c
  <1>3. Begins(p, c)
    BY <1>1, <1>2 DEF Covers, Begins
  <1>4. n \in Len(p) .. Len(c)
    BY <1>1, <1>2
  <1> QED BY <1>2, <1>3, <1>4 DEF Covers, c

(* However far the write of a batch gets, what it leaves is framed and     *)
(* begins with what was there.                                             *)
LEMMA PartialsFacts ==
  ASSUME NEW c, Sound(c), Ended(c.lines, Len(c.lines)),
         NEW b \in Batches, NEW n \in 1 .. MaxLines,
         NEW d \in Partials(c, BatchLines(b, n))
  PROVE  Sound(d) /\ Begins(c.lines, d.lines)
  <1> DEFINE ns == BatchLines(b, n)
  <1>1. n \in Nat /\ Len(ns) = n /\ n \in 0 .. n
    BY BatchLinesFacts, MaxLinesAssumption
  <1> HIDE DEF ns
  <1>2. PICK j \in 0 .. n : d.exists /\ d.lines = c.lines \o SubSeq(ns, 1, j)
    <2>1. d \in Partials(c, ns)
      BY DEF ns
    <2>2. CASE \E j \in 0 .. Len(ns) : d = Partial(c, ns, j, FALSE)
      <3>1. PICK j \in 0 .. Len(ns) : d = Partial(c, ns, j, FALSE)
        BY <2>2
      <3>2. j \in 0 .. n
        BY <1>1, <3>1
      <3> QED BY <3>1, <3>2 DEF Partial, Content
    <2>3. CASE \E j \in 0 .. Len(ns) - 1 : d = Partial(c, ns, j, TRUE)
      <3>1. PICK j \in 0 .. Len(ns) - 1 : d = Partial(c, ns, j, TRUE)
        BY <2>3
      <3>2. j \in 0 .. n
        BY <1>1
      <3> QED BY <3>1, <3>2 DEF Partial, Content
    <2> QED BY <2>1, <2>2, <2>3 DEF Partials
  <1>4. Framed(c.lines) /\ Len(c.lines) \in Nat
    BY DEF Sound, Framed
  <1>5. Framed(d.lines) /\ Len(d.lines) = Len(c.lines) + j
        /\ \A k \in 1 .. Len(c.lines) : d.lines[k] = c.lines[k]
    <2>1. d.lines = Appended(c.lines, b, n, j) /\ j \in 0 .. n
      BY <1>2 DEF ns, Appended
    <2>2. Framed(d.lines)
      BY <1>4, <2>1, AppendFramed
    <2>3. Len(d.lines) = Len(c.lines) + j
      BY <1>4, <2>1, AppendFramed
    <2>4. \A k \in 1 .. Len(c.lines) : d.lines[k] = c.lines[k]
      BY <1>4, <2>1, AppendFramed
    <2> QED BY <2>2, <2>3, <2>4
  <1>6. Begins(c.lines, d.lines)
    BY <1>4, <1>5 DEF Begins
  <1> QED BY <1>2, <1>5, <1>6 DEF Sound

(* A write that is not interrupted appends the whole batch.                *)
LEMMA WholeWrite ==
  ASSUME NEW c, Sound(c), Ended(c.lines, Len(c.lines)),
         NEW b \in Batches, NEW n \in 1 .. MaxLines
  PROVE  LET ns == BatchLines(b, n)
             d == Partial(c, ns, Len(ns), FALSE) IN
         /\ d \in Partials(c, ns)
         /\ Len(d.lines) = Len(c.lines) + Len(ns)
         /\ Ended(d.lines, Len(d.lines))
  <1> DEFINE ns == BatchLines(b, n)
             d == Partial(c, ns, Len(ns), FALSE)
  <1>1. n \in Nat /\ Len(ns) = n /\ n \in 0 .. n
    BY BatchLinesFacts, MaxLinesAssumption
  <1> HIDE DEF ns
  <1>2. d.lines = Appended(c.lines, b, n, n)
    BY <1>1 DEF Partial, Content, Appended, ns
  <1>3. d \in Partials(c, ns)
    BY <1>1 DEF Partials
  <1> HIDE DEF d
  <1>4. Len(d.lines) = Len(c.lines) + n /\ Ended(d.lines, Len(d.lines))
    BY <1>1, <1>2, AppendFramed DEF Sound
  <1> QED BY <1>1, <1>3, <1>4 DEF ns, d

(* Lines cut from sound contents leave sound contents.                     *)
LEMMA CutSound ==
  ASSUME NEW c, Sound(c), NEW n \in 0 .. Len(c.lines)
  PROVE  LET d == Content(SubSeq(c.lines, 1, n), FALSE) IN
         /\ Sound(d) /\ d.lines = SubSeq(c.lines, 1, n) /\ Len(d.lines) = n
         /\ \A k \in 0 .. n : Ended(d.lines, k) <=> Ended(c.lines, k)
  <1> DEFINE d == Content(SubSeq(c.lines, 1, n), FALSE)
  <1>1. d.exists /\ d.lines = SubSeq(c.lines, 1, n)
    BY DEF Content
  <1> HIDE DEF d
  <1>2. Framed(d.lines) /\ Len(d.lines) = n
        /\ \A k \in 0 .. n : Ended(d.lines, k) <=> Ended(c.lines, k)
    BY <1>1, CutFramed DEF Sound
  <1> QED BY <1>1, <1>2 DEF Sound, d

-----------------------------------------------------------------------------
(* Every step keeps the invariant, and all but a power loss keep what is   *)
(* covered.                                                                *)

LEMMA InitFileInv == JInit => FileInv
  <1> SUFFICES ASSUME JInit PROVE FileInv
    OBVIOUS
  <1>1. Sound(NoFile)
    BY DEF Sound, Framed, NoFile
  <1>2. Contents
    BY <1>1 DEF JInit, Contents
  <1>3. Handle /\ SnapCovered
    BY DEF JInit, Handle, SnapCovered, NoSnap, Using, Opening
  <1> QED BY <1>2, <1>3 DEF FileInv

(* A step that leaves the file.                                            *)
LEMMA SameFile ==
  ASSUME Contents, file' \in durable \cup {file}, durable' \subseteq durable \cup {file}
  PROVE  Contents'
  BY DEF Contents

LEMMA OpenStep ==
  ASSUME FileInv, Open, NEW p \in Seq(Line)
  PROVE  Contents' /\ Handle' /\ (Covered(p) => Covered(p)')
  <1>1. CASE file.exists
    <2>1. /\ pc = "closed" /\ pc' = "repairTail" /\ size' = size
          /\ file' = file /\ durable' = durable
      BY <1>1 DEF Open, Keep
    <2>2. Contents'
      BY <2>1, SameFile DEF FileInv
    <2>3. Handle'
      BY <2>1 DEF FileInv, Handle, Using, Opening
    <2>4. Covered(p) => Covered(p)'
      BY <2>1 DEF Covered, Using
    <2> QED BY <2>2, <2>3, <2>4
  <1>2. CASE ~file.exists
    <2>1. /\ pc = "closed" /\ pc' = "created" /\ size' = size
          /\ file' = Content(<<>>, FALSE) /\ durable' = durable \cup {file'}
      BY <1>2 DEF Open, Write
    <2>2. file'.lines = <<>> /\ Sound(file')
      BY <2>1 DEF Content, Sound, Framed
    <2>3. Contents'
      BY <2>1, <2>2 DEF FileInv, Contents
    <2>4. Handle'
      BY <2>1, <2>2 DEF FileInv, Handle, Using, Opening
    <2>5. file.lines = <<>>
      BY <1>2 DEF FileInv, Contents, Sound
    <2>6. Covered(p) => Covered(p)'
      BY <2>1, <2>2, <2>5 DEF Covered, Using
    <2> QED BY <2>3, <2>4, <2>6
  <1> QED BY <1>1, <1>2

LEMMA SyncCreatedStep ==
  ASSUME FileInv, SyncCreated, NEW p \in Seq(Line)
  PROVE  Contents' /\ Handle' /\ (Covered(p) => Covered(p)')
  <1>1. pc = "created" /\ file.lines = <<>> /\ size = 0
    BY DEF SyncCreated, FileInv, Handle, Using
  <1>2. CASE pc' = "repairTail" /\ durable' = {file} /\ file' = file /\ size' = size
    <2>1. Contents'
      BY <1>2, SameFile DEF FileInv
    <2>2. Handle'
      BY <1>1, <1>2 DEF FileInv, Handle, Using, Opening
    <2>3. Covered(p) => Covered(p)'
      BY <1>1, <1>2 DEF Covered, Using
    <2> QED BY <2>1, <2>2, <2>3
  <1>3. CASE Write(NoFile) /\ Closed
    <2>1. /\ file' = NoFile /\ durable' = durable \cup {file'} /\ file'.lines = <<>>
          /\ pc' = "closed" /\ size' = 0
      BY <1>3 DEF Write, NoFile, Closed
    <2>2. Sound(file')
      BY <2>1 DEF Sound, Framed
    <2>3. Contents'
      BY <2>1, <2>2 DEF FileInv, Contents
    <2>4. Handle'
      BY <2>1 DEF FileInv, Handle, Using, Opening
    <2>5. Covered(p) => Covered(p)'
      BY <1>1, <2>1 DEF Covered, Using
    <2> QED BY <2>3, <2>4, <2>5
  <1> QED BY <1>2, <1>3 DEF SyncCreated

(* The handle is closed and the file kept.                                 *)
LEMMA ClosedStep ==
  ASSUME FileInv, file' = file, durable' = durable, pc' = "closed", size' = 0,
         NEW p \in Seq(Line)
  PROVE  Contents' /\ Handle' /\ (Covered(p) => Covered(p)')
  <1>1. Contents'
    BY SameFile DEF FileInv
  <1>2. Handle'
    BY DEF FileInv, Handle, Using, Opening
  <1>3. Covered(p) => Covered(p)'
    BY DEF Covered, Using
  <1> QED BY <1>1, <1>2, <1>3

(* The file is found to end with a whole batch.                            *)
LEMMA OpenedStep ==
  ASSUME FileInv, file' = file, durable' \subseteq durable \cup {file}, Opened,
         Ended(file.lines, Len(file.lines)), NEW p \in Seq(Line)
  PROVE  Contents' /\ Handle' /\ (Covered(p) => Covered(p)')
  <1>1. Contents'
    BY SameFile DEF FileInv
  <1>2. pc' = "open" /\ size' = Len(file.lines) /\ size' \in Nat
    BY DEF Opened, FileInv, Contents, Sound, Framed
  <1>3. Handle'
    BY <1>2 DEF FileInv, Handle, Using, Opening
  <1>4. Covered(p) => Covered(p)'
    BY <1>2 DEF Covered, Covers, Begins
  <1> QED BY <1>1, <1>3, <1>4

LEMMA RepairTornTailStep ==
  ASSUME FileInv, RepairTornTail, NEW p \in Seq(Line)
  PROVE  Contents' /\ Handle' /\ (Covered(p) => Covered(p)')
  <1>1. pc = "repairTail" /\ size = 0
    BY DEF RepairTornTail, FileInv, Handle, Using
  <1>2. CASE Keep /\ pc' = "repairBatch" /\ size' = size
    <2>1. Contents'
      BY <1>2, SameFile DEF FileInv, Keep
    <2>2. Handle'
      BY <1>1, <1>2 DEF FileInv, Handle, Using, Opening
    <2>3. Covered(p) => Covered(p)'
      BY <1>1, <1>2 DEF Covered, Using, Keep
    <2> QED BY <2>1, <2>2, <2>3
  <1>3. CASE Write(Content(file.lines, FALSE)) /\ pc' = "syncTail" /\ size' = size
    <2>1. file'.lines = file.lines /\ file'.exists /\ durable' = durable \cup {file'}
      BY <1>3 DEF Write, Content
    <2>2. Contents'
      BY <2>1 DEF FileInv, Contents, Sound
    <2>3. Handle'
      BY <1>1, <1>3 DEF FileInv, Handle, Using, Opening
    <2>4. Covered(p) => Covered(p)'
      BY <1>1, <1>3, <2>1 DEF Covered, Using
    <2> QED BY <2>2, <2>3, <2>4
  <1>4. CASE Keep /\ Closed
    BY <1>4, ClosedStep DEF Keep, Closed
  <1> QED BY <1>2, <1>3, <1>4 DEF RepairTornTail

LEMMA SyncTornTailStep ==
  ASSUME FileInv, SyncTornTail, NEW p \in Seq(Line)
  PROVE  Contents' /\ Handle' /\ (Covered(p) => Covered(p)')
  <1>1. pc = "syncTail" /\ size = 0
    BY DEF SyncTornTail, FileInv, Handle, Using
  <1>2. CASE Sync /\ pc' = "repairBatch" /\ size' = size
    <2>1. Contents'
      BY <1>2, SameFile DEF FileInv, Sync
    <2>2. Handle'
      BY <1>1, <1>2 DEF FileInv, Handle, Using, Opening
    <2>3. Covered(p) => Covered(p)'
      BY <1>1, <1>2 DEF Covered, Using, Sync
    <2> QED BY <2>1, <2>2, <2>3
  <1>3. CASE Keep /\ Closed
    BY <1>3, ClosedStep DEF Keep, Closed
  <1> QED BY <1>2, <1>3 DEF SyncTornTail

LEMMA RepairIncompleteBatchStep ==
  ASSUME FileInv, RepairIncompleteBatch, NEW p \in Seq(Line)
  PROVE  Contents' /\ Handle' /\ (Covered(p) => Covered(p)')
  <1>1. pc = "repairBatch" /\ size = 0 /\ Sound(file)
    BY DEF RepairIncompleteBatch, FileInv, Handle, Using, Contents
  <1>2. CASE ~Interrupted /\ Keep /\ Opened
    <2>1. Ended(file.lines, Len(file.lines))
      BY <1>1, <1>2 DEF Interrupted, Ended, Last, Sound, Framed
    <2> QED BY <1>2, <2>1, OpenedStep DEF Keep
  <1>3. CASE /\ Interrupted /\ Write(Content(SubSeq(file.lines, 1, BatchStart), FALSE))
             /\ pc' = "syncBatch" /\ size' = size
    <2> DEFINE n == BatchStart
    <2>1. /\ n \in 0 .. Len(file.lines) /\ Ended(file.lines, n)
          /\ \A B \in 0 .. Len(file.lines) : Ended(file.lines, B) => B <= n
      BY <1>1, <1>3, CutBatch DEF Interrupted, BatchStart, Sound
    <2>2. file' = Content(SubSeq(file.lines, 1, n), FALSE) /\ durable' = durable \cup {file'}
      BY <1>3 DEF Write
    <2> HIDE DEF n
    <2>3. /\ Sound(file') /\ file'.lines = SubSeq(file.lines, 1, n) /\ Len(file'.lines) = n
          /\ Ended(file'.lines, n)
      <3> DEFINE d == Content(SubSeq(file.lines, 1, n), FALSE)
      <3>1. /\ Sound(d) /\ d.lines = SubSeq(file.lines, 1, n) /\ Len(d.lines) = n
            /\ \A k \in 0 .. n : Ended(d.lines, k) <=> Ended(file.lines, k)
        BY <1>1, <2>1, CutSound
      <3>2. n \in 0 .. n
        BY <1>1, <2>1 DEF Sound, Framed
      <3>3. file' = d
        BY <2>2
      <3> HIDE DEF d
      <3> QED BY <2>1, <3>1, <3>2, <3>3
    <2>4. Contents'
      BY <2>2, <2>3 DEF FileInv, Contents
    <2>5. Handle'
      BY <1>1, <1>3, <2>3 DEF FileInv, Handle, Using, Opening
    <2>6. ASSUME Covered(p) PROVE Covered(p)'
      <3>1. PICK B \in Len(p) .. Len(file.lines) : Ended(file.lines, B)
        BY <2>6 DEF Covered, Covers
      <3>2. Len(p) <= n
        BY <2>1, <3>1
      <3>3. Covers(p, file'.lines)
        BY <1>1, <2>1, <2>3, <2>6, <3>2, CoversCut DEF Covered, Sound
      <3> QED BY <1>3, <3>3 DEF Covered, Using
    <2> QED BY <2>4, <2>5, <2>6
  <1>4. CASE Keep /\ Closed
    BY <1>4, ClosedStep DEF Keep, Closed
  <1> QED BY <1>2, <1>3, <1>4 DEF RepairIncompleteBatch

LEMMA SyncIncompleteBatchStep ==
  ASSUME FileInv, SyncIncompleteBatch, NEW p \in Seq(Line)
  PROVE  Contents' /\ Handle' /\ (Covered(p) => Covered(p)')
  <1>1. Ended(file.lines, Len(file.lines))
    BY DEF SyncIncompleteBatch, FileInv, Handle
  <1>2. CASE Sync /\ Opened
    BY <1>1, <1>2, OpenedStep DEF Sync
  <1>3. CASE Keep /\ Closed
    BY <1>3, ClosedStep DEF Keep, Closed
  <1> QED BY <1>2, <1>3 DEF SyncIncompleteBatch

(* A cut at f.size, where whole batches end.                               *)
LEMMA CutToSize ==
  ASSUME FileInv, pc \in Using, Write(Content(SubSeq(file.lines, 1, size), FALSE)),
         pc' \in Using \ {"write", "sync"}, size' = size, NEW p \in Seq(Line)
  PROVE  Contents' /\ Handle' /\ (Covered(p) => Covered(p)')
  <1> DEFINE n == size
             d == Content(SubSeq(file.lines, 1, n), FALSE)
  <1>1. /\ Sound(file) /\ n \in Nat /\ n <= Len(file.lines) /\ Ended(file.lines, n)
        /\ Len(file.lines) \in Nat /\ n \in 0 .. Len(file.lines) /\ n \in 0 .. n
    BY DEF FileInv, Handle, Contents, Sound, Framed
  <1>2. size = n /\ file' = d /\ durable' = durable \cup {file'}
    BY DEF Write
  <1> HIDE DEF n
  <1>3. /\ Sound(d) /\ d.lines = SubSeq(file.lines, 1, n) /\ Len(d.lines) = n
        /\ \A k \in 0 .. n : Ended(d.lines, k) <=> Ended(file.lines, k)
    BY <1>1, CutSound
  <1> HIDE DEF d
  <1>4. Contents'
    BY <1>2, <1>3 DEF FileInv, Contents
  <1>5. Handle'
    BY <1>1, <1>2, <1>3 DEF Handle, Using, Opening
  <1>6. ASSUME Covered(p) PROVE Covered(p)'
    <2>1. Covers(p, file'.lines)
      BY <1>1, <1>2, <1>3, <1>6, CoversCut DEF Covered, Sound
    <2> QED BY <1>2, <1>6, <2>1 DEF Covered
  <1> QED BY <1>4, <1>5, <1>6

(* The handle stays open with the size it had.                             *)
LEMMA StaysOpen ==
  ASSUME FileInv, pc \in Using, file' = file, durable' \subseteq durable \cup {file},
         pc' \in {"open", "rollback", "syncRollback"}, size' = size, NEW p \in Seq(Line)
  PROVE  Contents' /\ Handle' /\ (Covered(p) => Covered(p)')
  <1>1. Contents'
    BY SameFile DEF FileInv
  <1>2. Handle'
    BY DEF FileInv, Handle, Using, Opening
  <1>3. Covered(p) => Covered(p)'
    BY DEF Covered
  <1> QED BY <1>1, <1>2, <1>3

LEMMA BeginAppendStep ==
  ASSUME FileInv, NEW b \in Batches, NEW n \in 1 .. MaxLines, BeginAppend(b, n),
         NEW p \in Seq(Line)
  PROVE  Contents' /\ Handle' /\ (Covered(p) => Covered(p)')
  <1>1. /\ pc = "open" /\ Len(file.lines) = size /\ cur' = BatchLines(b, n) /\ pc' = "write"
        /\ file' = file /\ durable' = durable /\ size' = size
    BY DEF BeginAppend, SizeMatches
  <1>2. Contents'
    BY <1>1, SameFile DEF FileInv
  <1>3. Handle'
    BY <1>1 DEF FileInv, Handle, Using, Opening
  <1>4. Covered(p) => Covered(p)'
    BY <1>1 DEF Covered, Using
  <1> QED BY <1>2, <1>3, <1>4

(* What an unfinished write may leave.                                     *)
LEMMA WriteLeaves ==
  ASSUME FileInv, pc = "write"
  PROVE  /\ \A d \in Partials(file, cur) : Sound(d) /\ Begins(file.lines, d.lines)
         /\ LET d == Partial(file, cur, Len(cur), FALSE) IN
            /\ d \in Partials(file, cur)
            /\ Len(d.lines) = size + Len(cur)
            /\ Ended(d.lines, Len(d.lines))
  <1>1. /\ size = Len(file.lines) /\ Sound(file) /\ Ended(file.lines, Len(file.lines))
    BY DEF FileInv, Handle, Contents, Using
  <1>2. PICK b \in Batches, n \in 1 .. MaxLines : cur = BatchLines(b, n)
    BY DEF FileInv, Handle
  <1>3. \A d \in Partials(file, cur) : Sound(d) /\ Begins(file.lines, d.lines)
    BY <1>1, <1>2, PartialsFacts
  <1> DEFINE d == Partial(file, cur, Len(cur), FALSE)
  <1>4. d \in Partials(file, cur)
        /\ Len(d.lines) = size + Len(cur) /\ Ended(d.lines, Len(d.lines))
    BY <1>1, <1>2, WholeWrite
  <1> QED BY <1>3, <1>4

LEMMA WriteBatchStep ==
  ASSUME FileInv, WriteBatch, NEW p \in Seq(Line)
  PROVE  Contents' /\ Handle' /\ (Covered(p) => Covered(p)')
  <1>1. /\ pc = "write" /\ durable' = durable \cup Partials(file, cur)
        /\ size' = size /\ cur' = cur
    BY DEF WriteBatch
  <1>2. /\ size = Len(file.lines) /\ size \in Nat /\ Ended(file.lines, size)
        /\ file.lines \in Seq(Line)
    BY <1>1 DEF FileInv, Handle, Using, Contents, Sound, Framed
  <1>3. \A d \in Partials(file, cur) : Sound(d) /\ Begins(file.lines, d.lines)
    BY <1>1, WriteLeaves
  <1>4. \/ /\ pc' = "sync" /\ file' \in Partials(file, cur)
           /\ Len(file'.lines) = size + Len(cur) /\ Ended(file'.lines, Len(file'.lines))
        \/ pc' = "rollback" /\ file' \in Partials(file, cur)
    BY <1>1, WriteLeaves DEF WriteBatch
  <1>5. /\ Sound(file') /\ Begins(file.lines, file'.lines) /\ file'.lines \in Seq(Line)
    BY <1>3, <1>4 DEF Sound, Framed
  <1>6. Contents'
    BY <1>1, <1>3, <1>5 DEF FileInv, Contents
  <1>7. size <= Len(file'.lines) /\ Ended(file'.lines, size)
    BY <1>2, <1>5 DEF Begins, Ended
  <1>8. Handle'
    BY <1>1, <1>2, <1>4, <1>7 DEF Handle, Using, Opening
  <1>9. Covered(p) => Covered(p)'
    BY <1>1, <1>2, <1>4, <1>5, CoversMore DEF Covered, Using
  <1> QED BY <1>6, <1>8, <1>9

LEMMA SyncAppendStep ==
  ASSUME FileInv, SyncAppend, NEW p \in Seq(Line)
  PROVE  Contents' /\ Handle' /\ (Covered(p) => Covered(p)')
  <1>1. /\ pc = "sync" /\ Ended(file.lines, Len(file.lines))
        /\ size + Len(cur) = Len(file.lines) /\ Len(file.lines) \in Nat
    BY DEF SyncAppend, FileInv, Handle, Contents, Sound, Framed
  <1>2. CASE Sync /\ pc' = "open" /\ size' = size + Len(cur)
    <2>1. file' = file /\ durable' = {file} /\ pc' = "open" /\ size' = Len(file.lines)
      BY <1>1, <1>2 DEF Sync
    <2>2. Contents'
      BY <2>1, SameFile DEF FileInv
    <2>3. Handle'
      BY <1>1, <2>1 DEF FileInv, Handle, Using, Opening
    <2>4. Covered(p) => Covered(p)'
      BY <2>1 DEF Covered, Covers, Begins
    <2> QED BY <2>2, <2>3, <2>4
  <1>3. CASE Keep /\ pc' = "rollback" /\ size' = size
    BY <1>1, <1>3, StaysOpen DEF Keep, Using
  <1> QED BY <1>2, <1>3 DEF SyncAppend

LEMMA RollbackStep ==
  ASSUME FileInv, Rollback, NEW p \in Seq(Line)
  PROVE  Contents' /\ Handle' /\ (Covered(p) => Covered(p)')
  <1>1. pc = "rollback" /\ size' = size
    BY DEF Rollback
  <1>2. CASE Write(Content(SubSeq(file.lines, 1, size), FALSE)) /\ pc' = "syncRollback"
    BY <1>1, <1>2, CutToSize DEF Using
  <1>3. CASE Keep /\ pc' = "open"
    BY <1>1, <1>3, StaysOpen DEF Keep, Using
  <1> QED BY <1>2, <1>3 DEF Rollback

LEMMA SyncRollbackStep ==
  ASSUME FileInv, SyncRollback, NEW p \in Seq(Line)
  PROVE  Contents' /\ Handle' /\ (Covered(p) => Covered(p)')
  <1>1. /\ pc \in Using /\ size' = size /\ pc' = "open"
        /\ file' = file /\ durable' \subseteq durable \cup {file}
    BY DEF SyncRollback, Sync, Keep, Using
  <1> QED BY <1>1, StaysOpen

LEMMA ProcessEndsStep ==
  ASSUME FileInv, ProcessEnds, NEW p \in Seq(Line)
  PROVE  Contents' /\ Handle' /\ (Covered(p) => Covered(p)')
  <1>1. pc' = "closed" /\ size' = 0
    BY DEF ProcessEnds, Closed
  <1>2. CASE pc = "write"
    <2>1. file' \in Partials(file, cur) /\ durable' = durable \cup Partials(file, cur)
      BY <1>2 DEF ProcessEnds
    <2>2. \A d \in Partials(file, cur) : Sound(d) /\ Begins(file.lines, d.lines)
      BY <1>2, WriteLeaves
    <2>3. Contents'
      BY <2>1, <2>2 DEF FileInv, Contents
    <2>4. Handle'
      BY <1>1 DEF Handle, Using, Opening
    <2>5. file.lines \in Seq(Line) /\ file'.lines \in Seq(Line) /\ Begins(file.lines, file'.lines)
      BY <2>1, <2>2 DEF FileInv, Contents, Sound, Framed
    <2>6. Covered(p) => Covered(p)'
      BY <1>1, <2>5, CoversMore DEF Covered, Using
    <2> QED BY <2>3, <2>4, <2>6
  <1>3. CASE pc # "write"
    BY <1>1, <1>3, ClosedStep DEF ProcessEnds
  <1> QED BY <1>2, <1>3

LEMMA PowerLossStep ==
  ASSUME FileInv, PowerLoss
  PROVE  Contents' /\ Handle'
  <1>1. pc' = "closed" /\ size' = 0 /\ durable' = {file'}
    BY DEF PowerLoss, Closed
  <1>2. Sound(NoFile)
    BY DEF Sound, Framed, NoFile
  <1>3. Sound(file')
    BY <1>2, WriteLeaves DEF PowerLoss, FileInv, Contents
  <1>4. Handle'
    BY <1>1 DEF Handle, Using, Opening
  <1> QED BY <1>1, <1>3, <1>4 DEF Contents

(* Every step of the journal.                                              *)
LEMMA FileStep ==
  ASSUME FileInv, [JNext]_jvars, NEW p \in Seq(Line)
  PROVE  Contents' /\ Handle' /\ (Covered(p) /\ ~PowerLoss => Covered(p)')
  <1>1. CASE Open BY <1>1, OpenStep
  <1>2. CASE SyncCreated BY <1>2, SyncCreatedStep
  <1>3. CASE RepairTornTail BY <1>3, RepairTornTailStep
  <1>4. CASE SyncTornTail BY <1>4, SyncTornTailStep
  <1>5. CASE RepairIncompleteBatch BY <1>5, RepairIncompleteBatchStep
  <1>6. CASE SyncIncompleteBatch BY <1>6, SyncIncompleteBatchStep
  <1>7. CASE Close
    BY <1>7, ClosedStep DEF Close, Closed, Keep
  <1>8. CASE \E b \in Batches, n \in 1 .. MaxLines : BeginAppend(b, n)
    BY <1>8, BeginAppendStep
  <1>9. CASE WriteBatch BY <1>9, WriteBatchStep
  <1>10. CASE SyncAppend BY <1>10, SyncAppendStep
  <1>11. CASE Rollback BY <1>11, RollbackStep
  <1>12. CASE SyncRollback BY <1>12, SyncRollbackStep
  <1>13. CASE UNCHANGED <<file, durable, pc, size, cur>>
    BY <1>13 DEF FileInv, Contents, Handle, Covered
  <1>14. CASE ProcessEnds BY <1>14, ProcessEndsStep
  <1>15. CASE PowerLoss BY <1>15, PowerLossStep
  <1>16. (\E e \in 0 .. Len(file.lines) : OpenSnapshot(e)) \/ CloseSnapshot \/ UNCHANGED jvars
         => UNCHANGED <<file, durable, pc, size, cur>>
    BY DEF OpenSnapshot, CloseSnapshot, jvars
  <1> QED BY <1>1, <1>2, <1>3, <1>4, <1>5, <1>6, <1>7, <1>8, <1>9, <1>10, <1>11, <1>12,
             <1>13, <1>14, <1>15, <1>16 DEF JNext

(* A snapshot is opened on what is covered.                                *)
LEMMA SnapshotStep ==
  ASSUME FileInv, [JNext]_jvars
  PROVE  SnapCovered'
  <1>1. CASE snap' = snap /\ ~PowerLoss /\ snap.open
    <2>1. PICK p \in Seq(Line) : p = snap.lines
      BY <1>1 DEF FileInv, SnapCovered
    <2>2. Covered(p)
      BY <1>1, <2>1 DEF FileInv, SnapCovered
    <2>3. Covered(p)' /\ p = snap'.lines
      BY <1>1, <2>1, <2>2, FileStep
    <2> QED BY <2>3 DEF SnapCovered, Covered
  <1>2. CASE ~snap'.open
    BY <1>2 DEF SnapCovered
  <1>3. CASE \E e \in 0 .. Len(file.lines) : OpenSnapshot(e)
    <2>1. PICK e \in 0 .. Len(file.lines) : OpenSnapshot(e)
      BY <1>3
    <2>2. /\ e <= size /\ size <= Len(file.lines) /\ Ended(file.lines, size) /\ size \in Nat
          /\ Framed(file.lines) /\ Len(file.lines) \in Nat
      <3>1. CASE pc \in Using
        BY <2>1, <3>1 DEF OpenSnapshot, FileInv, Handle, Contents, Sound, Framed
      <3>2. CASE pc \notin Using
        BY <2>1, <3>2 DEF OpenSnapshot, FileInv, Handle, Contents, Sound, Framed, Ended
      <3> QED BY <3>1, <3>2
    <2> DEFINE p == SubSeq(file.lines, 1, e)
    <2>3. p \in Seq(Line) /\ Len(p) = e /\ \A k \in 1 .. e : p[k] = file.lines[k]
      BY <2>2, CutFramed
    <2>4. snap'.lines = p /\ file' = file /\ pc' = pc /\ size' = size
      BY <2>1 DEF OpenSnapshot
    <2> HIDE DEF p
    <2>5. Covers(p, file.lines) /\ Len(p) <= size
      BY <2>2, <2>3 DEF Covers, Begins
    <2> QED BY <2>3, <2>4, <2>5 DEF SnapCovered, Covered
  <1>4. \/ snap' = snap /\ ~PowerLoss
        \/ ~snap'.open
        \/ \E e \in 0 .. Len(file.lines) : OpenSnapshot(e)
    <2>1. PowerLoss => ~snap'.open
      BY DEF PowerLoss, NoSnap
    <2>2. ProcessEnds \/ CloseSnapshot => ~snap'.open
      BY DEF ProcessEnds, CloseSnapshot, NoSnap
    <2>3. Open \/ SyncCreated \/ RepairTornTail \/ SyncTornTail \/ RepairIncompleteBatch
          \/ SyncIncompleteBatch \/ Close \/ WriteBatch \/ Rollback \/ SyncRollback
          => snap' = snap
      BY DEF Rest, Open, SyncCreated, RepairTornTail, SyncTornTail, RepairIncompleteBatch,
             SyncIncompleteBatch, Close, WriteBatch, Rollback, SyncRollback
    <2>4. SyncAppend \/ UNCHANGED jvars
          \/ (\E b \in Batches, n \in 1 .. MaxLines : BeginAppend(b, n)) => snap' = snap
      BY DEF SyncAppend, jvars, BeginAppend
    <2> QED BY <2>1, <2>2, <2>3, <2>4 DEF JNext
  <1> QED BY <1>1, <1>2, <1>3, <1>4

(* Readers accept what the invariant allows.                               *)
LEMMA FileInvSafe == FileInv => JournalSafe
  <1> SUFFICES ASSUME FileInv PROVE JournalSafe
    OBVIOUS
  <1>1. ReadersAccept
    <2> SUFFICES ASSUME pc = "open", SizeMatches
                 PROVE  /\ \A s \in 0 .. size : ForwardAccepts(file.lines, s)
                        /\ \A e \in 0 .. size, n \in 1 .. size : PageAccepts(file.lines, e, n)
      BY DEF ReadersAccept
    <2>1. /\ size = Len(file.lines) /\ size \in Nat
          /\ Framed(file.lines) /\ Ended(file.lines, Len(file.lines))
      BY DEF SizeMatches, FileInv, Handle, Contents, Sound, Using
    <2>2. \A s \in 0 .. size : ForwardAccepts(file.lines, s)
      BY <2>1, FramedForward
    <2>3. ASSUME NEW e \in 0 .. size, NEW n \in 1 .. size
          PROVE  PageAccepts(file.lines, e, n)
      BY <2>1, FramedPages
    <2> QED BY <2>2, <2>3
  <1>2. SnapshotStable
    <2> SUFFICES ASSUME snap.open PROVE IsPrefix(snap.lines, file.lines)
      BY DEF SnapshotStable
    <2>1. /\ snap.lines \in Seq(Line) /\ file.lines \in Seq(Line)
          /\ Len(snap.lines) <= Len(file.lines)
          /\ \A k \in 1 .. Len(snap.lines) : snap.lines[k] = file.lines[k]
      BY DEF FileInv, SnapCovered, Covered, Covers, Begins, Contents, Sound, Framed
    <2>2. SubSeq(snap.lines, 1, Len(snap.lines)) = SubSeq(file.lines, 1, Len(snap.lines))
      BY <2>1
    <2> QED BY <2>1, <2>2 DEF IsPrefix
  <1> QED BY <1>1, <1>2 DEF JournalSafe

(* The invariant: what the disk may hold is whole batches and the          *)
(* beginning of one more, f.size is where whole batches end, and what a    *)
(* snapshot covers is never cut (file.go).                                 *)
THEOREM JournalInvariant == JSpec => []FileInv
  <1>1. JInit => FileInv
    BY InitFileInv
  <1>2. FileInv /\ [JNext]_jvars => FileInv'
    <2> SUFFICES ASSUME FileInv, [JNext]_jvars PROVE FileInv'
      OBVIOUS
    <2>1. <<>> \in Seq(Line)
      OBVIOUS
    <2>2. Contents' /\ Handle'
      BY <2>1, FileStep
    <2>3. SnapCovered'
      BY SnapshotStep
    <2> QED BY <2>2, <2>3 DEF FileInv
  <1> QED BY <1>1, <1>2, PTL DEF JSpec

(* Whatever appends fail, wherever a process ends or the machine loses     *)
(* power, a reader of an open journal file meets no corruption, forward or *)
(* backward, and what a snapshot covers stays (readForwardTo, ReadReverse, *)
(* OpenSnapshot).                                                          *)
THEOREM ReadersMeetNoCorruption == JSpec => []JournalSafe
  BY JournalInvariant, FileInvSafe, PTL

-----------------------------------------------------------------------------
(* The promise: a journal keeps what it acknowledged                       *)

(* The whole batches at the beginning of framed lines end where the last   *)
(* one ends.                                                               *)
LEMMA WholeEnd ==
  ASSUME NEW ls, Framed(ls)
  PROVE  \E m \in 0 .. Len(ls) :
            /\ WholeBatches(ls) = SubSeq(ls, 1, m)
            /\ Ended(ls, m)
            /\ \A B \in 0 .. Len(ls) : Ended(ls, B) => B <= m
  <1> DEFINE S == {0} \cup {k \in DOMAIN ls : Ends(ls[k])}
  <1>1. ls \in Seq(Line) /\ Len(ls) \in Nat /\ DOMAIN ls = 1 .. Len(ls)
    BY DEF Framed
  <1>2. PICK m \in 0 .. Len(ls) :
          Ended(ls, m) /\ \A B \in 0 .. Len(ls) : Ended(ls, B) => B <= m
    <2>1. CASE ls = <<>> \/ Ends(Last(ls))
      <3>1. Len(ls) \in 0 .. Len(ls) /\ Ended(ls, Len(ls))
        BY <1>1, <2>1 DEF Ended, Last
      <3> QED BY <1>1, <3>1
    <2>2. CASE ls # <<>> /\ ~Ends(Last(ls))
      BY <2>2, CutBatch
    <2> QED BY <2>1, <2>2
  <1>3. m \in S /\ \A y \in S : m >= y
    BY <1>1, <1>2 DEF Ended
  <1>4. \A x \in S : (\A y \in S : x >= y) => x = m
    BY <1>1, <1>3
  <1>5. Max(S) = m
    BY <1>3, <1>4 DEF Max
  <1>6. WholeBatches(ls) = SubSeq(ls, 1, m)
    BY <1>5 DEF WholeBatches
  <1> QED BY <1>2, <1>6

(* Kept acknowledged batches are at the beginning of what an open shows.   *)
LEMMA AckedShown ==
  ASSUME FileInv, AckedKept
  PROVE  IsPrefix(acked, WholeBatches(file.lines))
  <1> DEFINE ls == file.lines
             a == acked
  <1>1. /\ Framed(ls) /\ Framed(a) /\ Ended(a, Len(a))
        /\ Len(a) <= Len(ls) /\ \A k \in 1 .. Len(a) : a[k] = ls[k]
    BY DEF FileInv, AckedKept, Contents, Sound, Covered, Covers, Begins
  <1> HIDE DEF ls, a
  <1>2. a \in Seq(Line) /\ ls \in Seq(Line) /\ Len(a) \in Nat /\ Len(ls) \in Nat
    BY <1>1 DEF Framed
  <1>3. Ended(ls, Len(a)) /\ Len(a) \in 0 .. Len(ls)
    BY <1>1, <1>2 DEF Ended
  <1>4. PICK m \in 0 .. Len(ls) : WholeBatches(ls) = SubSeq(ls, 1, m) /\ Len(a) <= m
    BY <1>1, <1>3, WholeEnd
  <1> DEFINE w == WholeBatches(ls)
  <1>5. w \in Seq(Line) /\ Len(w) = m /\ \A k \in 1 .. m : w[k] = ls[k]
    BY <1>2, <1>4
  <1> HIDE DEF w
  <1>6. SubSeq(a, 1, Len(a)) = SubSeq(w, 1, Len(a))
    BY <1>1, <1>2, <1>4, <1>5
  <1>7. IsPrefix(a, w)
    BY <1>4, <1>5, <1>6 DEF IsPrefix
  <1> QED BY <1>7 DEF a, w, ls

(* Where the contents a step leaves on disk come from.                     *)
LEMMA DurableFrom ==
  ASSUME [JNext]_jvars
  PROVE  \/ durable' \subseteq durable \cup {file, file'}
         \/ pc = "write" /\ durable' \subseteq durable \cup Partials(file, cur)
  <1>0. (\E c : Write(c)) \/ Keep \/ Sync => durable' \subseteq durable \cup {file, file'}
    BY DEF Write, Keep, Sync
  <1>1. Open \/ SyncCreated => durable' \subseteq durable \cup {file, file'}
    <2>1. Open => durable' \subseteq durable \cup {file, file'}
      BY <1>0 DEF Open
    <2>2. SyncCreated => durable' \subseteq durable \cup {file, file'}
      BY <1>0 DEF SyncCreated
    <2> QED BY <2>1, <2>2
  <1>2. RepairTornTail \/ SyncTornTail \/ RepairIncompleteBatch \/ SyncIncompleteBatch
        => durable' \subseteq durable \cup {file, file'}
    BY <1>0 DEF RepairTornTail, SyncTornTail, RepairIncompleteBatch, SyncIncompleteBatch
  <1>3. Close \/ SyncAppend \/ Rollback \/ SyncRollback
        => durable' \subseteq durable \cup {file, file'}
    BY DEF Close, SyncAppend, Rollback, SyncRollback, Keep, Write, Sync
  <1>4. (\E b \in Batches, n \in 1 .. MaxLines : BeginAppend(b, n)) => durable' = durable
    BY DEF BeginAppend
  <1>5. (\E e \in 0 .. Len(file.lines) : OpenSnapshot(e)) \/ CloseSnapshot \/ UNCHANGED jvars
        => durable' = durable
    BY DEF OpenSnapshot, CloseSnapshot, jvars
  <1>6. WriteBatch => pc = "write" /\ durable' = durable \cup Partials(file, cur)
    BY DEF WriteBatch
  <1>7. ProcessEnds => \/ durable' = durable
                       \/ pc = "write" /\ durable' = durable \cup Partials(file, cur)
    BY DEF ProcessEnds
  <1>8. PowerLoss => durable' = {file'}
    BY DEF PowerLoss
  <1> QED BY <1>1, <1>2, <1>3, <1>4, <1>5, <1>6, <1>7, <1>8 DEF JNext

(* Only a synchronized append acknowledges, and only a power loss takes a  *)
(* directory entry back.                                                   *)
LEMMA AckedFrom ==
  ASSUME [JNext]_jvars, EntryWithFile = TRUE
  PROVE  /\ \/ acked' = acked
            \/ /\ SyncAppend /\ pc = "sync" /\ Sync /\ pc' = "open"
               /\ size' = size + Len(cur) /\ acked' = file.lines
         /\ entry' = TRUE \/ entry' = entry \/ PowerLoss
         /\ Sync => entry' = TRUE
  <1>1. Sync => entry' = TRUE
    BY DEF Sync
  <1>2. Open \/ SyncCreated => acked' = acked /\ (entry' = TRUE \/ entry' = entry)
    BY DEF Open, SyncCreated, Keep, Write, Rest
  <1>3. RepairTornTail \/ SyncTornTail \/ RepairIncompleteBatch \/ SyncIncompleteBatch
        => acked' = acked /\ (entry' = TRUE \/ entry' = entry)
    BY <1>1 DEF RepairTornTail, SyncTornTail, RepairIncompleteBatch, SyncIncompleteBatch,
                Keep, Write, Rest
  <1>4. Close \/ Rollback \/ SyncRollback
        => acked' = acked /\ (entry' = TRUE \/ entry' = entry)
    BY <1>1 DEF Close, Rollback, SyncRollback, Keep, Write, Rest
  <1>5. SyncAppend
        => /\ \/ acked' = acked
              \/ /\ SyncAppend /\ pc = "sync" /\ Sync /\ pc' = "open"
                 /\ size' = size + Len(cur) /\ acked' = file.lines
           /\ entry' = TRUE \/ entry' = entry
    BY <1>1 DEF SyncAppend, Keep
  <1>6. (\E b \in Batches, n \in 1 .. MaxLines : BeginAppend(b, n)) \/ WriteBatch
        => acked' = acked /\ entry' = entry
    BY DEF BeginAppend, WriteBatch, Rest
  <1>7. (\E e \in 0 .. Len(file.lines) : OpenSnapshot(e)) \/ CloseSnapshot \/ UNCHANGED jvars
        => acked' = acked /\ entry' = entry
    BY DEF OpenSnapshot, CloseSnapshot, jvars
  <1>8. ProcessEnds => acked' = acked /\ entry' = entry
    BY DEF ProcessEnds
  <1>9. PowerLoss => acked' = acked
    BY DEF PowerLoss
  <1> QED BY <1>1, <1>2, <1>3, <1>4, <1>5, <1>6, <1>7, <1>8, <1>9 DEF JNext

(* What begins with something begins with what that begins with.           *)
LEMMA BeginsTransitive ==
  ASSUME NEW p \in Seq(Line), NEW ls \in Seq(Line), NEW ns \in Seq(Line),
         Begins(p, ls), Begins(ls, ns)
  PROVE  Begins(p, ns)
  <1>1. Len(p) \in Nat /\ Len(ls) \in Nat /\ Len(ns) \in Nat
    OBVIOUS
  <1> QED BY <1>1 DEF Begins

LEMMA AckedStep ==
  ASSUME FileInv, AckedKept, [JNext]_jvars, EntryWithFile = TRUE
  PROVE  AckedKept'
  <1>1. PICK p \in Seq(Line) : p = acked
    BY DEF AckedKept, Framed
  <1>2. /\ Framed(p) /\ Ended(p, Len(p)) /\ Len(p) \in Nat /\ Covered(p)
        /\ \A c \in durable : Begins(p, c.lines)
        /\ Begins(p, file.lines) /\ file.lines \in Seq(Line)
        /\ p # <<>> => entry
    BY <1>1 DEF AckedKept, Covered, Covers, FileInv, Contents, Sound, Framed
  <1>3. CASE SyncAppend /\ pc = "sync" /\ Sync /\ pc' = "open"
             /\ size' = size + Len(cur) /\ acked' = file.lines
    <2>1. /\ file' = file /\ durable' = {file} /\ entry' = TRUE
          /\ size' = Len(file.lines)
      BY <1>3 DEF Sync, FileInv, Handle
    <2>2. /\ Framed(file.lines) /\ Ended(file.lines, Len(file.lines))
          /\ Len(file.lines) \in Nat
      BY <1>3 DEF FileInv, Handle, Contents, Sound, Framed
    <2>3. Covers(file.lines, file.lines) /\ Begins(file.lines, file.lines)
      BY <2>2 DEF Covers, Begins
    <2>4. Covered(acked)'
      BY <1>3, <2>1, <2>2, <2>3 DEF Covered
    <2> QED BY <1>3, <2>1, <2>2, <2>3, <2>4 DEF AckedKept
  <1>4. CASE acked' = acked /\ ~PowerLoss
    <2>1. Covered(p)'
      BY <1>2, <1>4, FileStep
    <2>2. Begins(p, file'.lines)
      BY <2>1 DEF Covered, Covers
    <2>3. \A c \in durable' : Begins(p, c.lines)
      <3>1. CASE durable' \subseteq durable \cup {file, file'}
        BY <1>2, <2>2, <3>1
      <3>2. CASE pc = "write" /\ durable' \subseteq durable \cup Partials(file, cur)
        <4>1. \A d \in Partials(file, cur) :
                 d.lines \in Seq(Line) /\ Begins(file.lines, d.lines)
          BY <3>2, WriteLeaves DEF Sound, Framed
        <4>2. \A d \in Partials(file, cur) : Begins(p, d.lines)
          BY <1>2, <4>1, BeginsTransitive
        <4> QED BY <1>2, <3>2, <4>2
      <3> QED BY <3>1, <3>2, DurableFrom
    <2>4. p # <<>> => entry'
      BY <1>2, <1>4, AckedFrom
    <2> QED BY <1>1, <1>2, <1>4, <2>1, <2>3, <2>4 DEF AckedKept, Covered
  <1>5. CASE acked' = acked /\ PowerLoss
    <2>1. /\ durable' = {file'} /\ entry' = file'.exists /\ pc' = "closed"
          /\ \/ file' \in durable
             \/ pc = "write" /\ file' \in Partials(file, cur)
             \/ ~entry /\ file' = NoFile
      BY <1>5 DEF PowerLoss, Closed
    <2>2. Contents'
      BY <1>1, <1>5, FileStep
    <2>3. Framed(file'.lines) /\ Len(file'.lines) \in Nat /\ file'.lines \in Seq(Line)
          /\ (file'.lines # <<>> => file'.exists)
      BY <2>2 DEF Contents, Sound, Framed
    <2>4. Begins(p, file'.lines)
      <3>1. CASE file' \in durable
        BY <1>2, <3>1
      <3>2. CASE pc = "write" /\ file' \in Partials(file, cur)
        <4>1. Begins(file.lines, file'.lines)
          BY <3>2, WriteLeaves
        <4> QED BY <1>2, <2>3, <4>1, BeginsTransitive
      <3>3. CASE ~entry /\ file' = NoFile
        BY <1>2, <3>3 DEF Begins, NoFile
      <3> QED BY <2>1, <3>1, <3>2, <3>3
    <2>5. Covers(p, file'.lines)
      BY <1>2, <2>3, <2>4 DEF Covers, Begins, Ended
    <2>6. p # <<>> => entry'
      BY <1>2, <2>1, <2>3, <2>4 DEF Begins
    <2>7. Covered(p)'
      BY <2>1, <2>5 DEF Covered, Using
    <2> QED BY <1>1, <1>2, <1>5, <2>1, <2>4, <2>6, <2>7 DEF AckedKept, Covered
  <1> QED BY <1>3, <1>4, <1>5, AckedFrom

LEMMA InitAcked == JInit => AckedKept /\ Log!LogInit
  <1> SUFFICES ASSUME JInit PROVE AckedKept /\ Log!LogInit
    OBVIOUS
  <1>1. /\ acked = <<>> /\ file.lines = <<>> /\ durable = {file} /\ pc = "closed"
    BY DEF JInit, NoFile
  <1>2. Framed(<<>>) /\ Ended(<<>>, 0) /\ Begins(<<>>, <<>>) /\ Covers(<<>>, <<>>)
    BY DEF Framed, Ended, Begins, Covers
  <1>3. AckedKept
    BY <1>1, <1>2 DEF AckedKept, Covered, Using
  <1>4. WholeBatches(<<>>) = <<>>
    BY <1>2, WholeEnd
  <1> QED BY <1>1, <1>3, <1>4 DEF Log!LogInit

(* Where fsync of a new file makes its name durable as well, an append     *)
(* that succeeded is there after any crash, power loss, failed append or   *)
(* repair, in its place: the journal is a DurableLog (Append).             *)
THEOREM JournalKeepsAcknowledged ==
  ASSUME EntryWithFile = TRUE
  PROVE  JSpec => ImplementsLog
  <1>1. JInit => LogInv /\ Log!LogInit
    BY InitFileInv, InitAcked DEF LogInv
  <1>2. LogInv /\ [JNext]_jvars => LogInv'
    <2> SUFFICES ASSUME LogInv, [JNext]_jvars PROVE LogInv'
      OBVIOUS
    <2>1. <<>> \in Seq(Line)
      OBVIOUS
    <2>2. FileInv'
      BY <2>1, FileStep, SnapshotStep DEF FileInv, LogInv
    <2>3. AckedKept'
      BY AckedStep DEF LogInv
    <2> QED BY <2>2, <2>3 DEF LogInv
  <1>3. LogInv => IsPrefix(acked, WholeBatches(file.lines))
    BY AckedShown DEF LogInv
  <1>4. LogInv' => IsPrefix(acked, WholeBatches(file.lines))'
    BY <1>3, PTL
  <1>5. LogInv /\ LogInv' /\ [JNext]_jvars
        => [Log!InDoubt \/ Log!Acknowledge]_<<WholeBatches(file.lines), acked>>
    <2> SUFFICES ASSUME LogInv, LogInv', [JNext]_jvars
                 PROVE  Log!InDoubt \/ Log!Acknowledge
      OBVIOUS
    <2>1. CASE acked' = acked
      BY <1>4, <2>1 DEF Log!InDoubt, Log!IsPrefix, IsPrefix
    <2>2. CASE pc = "sync" /\ Sync /\ acked' = file.lines
      <3>1. Framed(file.lines) /\ Ended(file.lines, Len(file.lines)) /\ file' = file
        BY <2>2 DEF LogInv, FileInv, Handle, Contents, Sound, Sync
      <3>2. WholeBatches(file.lines) = file.lines
        <4>1. PICK m \in 0 .. Len(file.lines) :
                WholeBatches(file.lines) = SubSeq(file.lines, 1, m) /\ Len(file.lines) <= m
          BY <3>1, WholeEnd DEF Framed
        <4> QED BY <3>1, <4>1 DEF Framed
      <3> QED BY <2>2, <3>1, <3>2 DEF Log!Acknowledge
    <2> QED BY <2>1, <2>2, AckedFrom
  <1> QED BY <1>1, <1>2, <1>5, PTL DEF JSpec, ImplementsLog, Log!LogSpec

-----------------------------------------------------------------------------
(* Shell sessions                                                          *)
(*                                                                         *)
(* The invariant says who may still send a delta (a call on the session    *)
(* that has not returned), that unread output begins where the last result *)
(* ended, and that a session is done only when its process has ended and   *)
(* all its output was taken over; that pruning drops only what is done     *)
(* then keeps every running process within reach.                          *)

SessionStates ==
    [proc : {"none", "running", "exited"}, killed : BOOLEAN, done : BOOLEAN,
     made : Nat, app : Nat, unread : Nat, events : ShCalls \cup {NoCall}, carry : Nat,
     deltas : Nat, sending : ShCalls \cup {NoCall}, invocation : ShCalls \cup {NoCall}]
CallSteps == {"idle", "spawned", "killing", "waiting", "snapshot", "returned", "failed",
              "found", "writing"}
ShCallStates == [at : CallSteps, on : SessionIds \cup {0}]
SessionResults == [call : ShCalls, from : Nat, final : BOOLEAN, upTo : Nat]

ShellTyped ==
    /\ shClosed \in BOOLEAN
    /\ sessions \subseteq SessionIds /\ toKill \subseteq SessionIds
    /\ shell \in [SessionIds -> SessionStates]
    /\ shCall \in [ShCalls -> ShCallStates]
    /\ results \in [SessionIds -> Seq(SessionResults)]

(* A call that is under way knows its session, which is its own number if  *)
(* it has started it; a call that has begun a session is not idle again.   *)
CallsKnow ==
    /\ \A c \in ShCalls :
          shCall[c].at \in {"spawned", "waiting", "snapshot", "found", "writing"} =>
              shCall[c].on \in SessionIds
    /\ \A s \in SessionIds : shCall[s].at \in {"idle", "spawned"} => s \notin sessions
    /\ \A s \in SessionIds :
          shCall[s].at \in {"spawned", "killing", "waiting", "snapshot"} => shCall[s].on = s
    /\ \A s \in SessionIds : shCall[s].at = "idle" => shell[s].proc = "none"

(* Deltas go to a call on the session that has not returned.               *)
Receives(c, s) ==
    shCall[c].on = s /\ shCall[c].at \notin {"idle", "found", "returned"}

(* What a session knows: it is done when its process has ended and all its *)
(* output was taken over, and its unread output begins where the last      *)
(* result has ended.                                                       *)
HandedOver(s) == IF results[s] = <<>> THEN 0 ELSE results[s][Len(results[s])].upTo

SessionKnows(s) ==
    /\ shell[s].done => shell[s].proc = "exited" /\ shell[s].app = shell[s].made
    /\ shell[s].app <= shell[s].made
    /\ shell[s].unread + HandedOver(s) = shell[s].app
    /\ shell[s].events # NoCall => Receives(shell[s].events, s)
    /\ shell[s].sending # NoCall => Receives(shell[s].sending, s)
    /\ \A i \in DOMAIN results[s] : results[s][i].final => shell[s].done

ShInv ==
    /\ ShellTyped /\ CallsKnow
    /\ \A s \in SessionIds : SessionKnows(s)
    /\ ProcessesOwned /\ ResultsExact

(* Close takes the sessions once.                                          *)
ClosesOnce == ~shClosed => toKill = {}

LEMMA ShellIsSafe == ShInv => ShellSafe
<1> SUFFICES ASSUME ShInv, NEW s \in SessionIds, Delivering(s)
             PROVE  ~CallAt(shell[s].sending, "returned")
  BY DEF ShellSafe, ShellOutputOrdered, DeltasBeforeResult, ShInv
<1> QED BY DEF ShInv, SessionKnows, Receives, Delivering, CallAt

LEMMA ShellStarts == ShInit => ShInv
<1> SUFFICES ASSUME ShInit PROVE ShInv
  OBVIOUS
<1>1. ShellTyped
  <2>1. NewSession \in SessionStates /\ NoShCall \in ShCallStates
    BY DEF NewSession, SessionStates, NoShCall, ShCallStates, CallSteps, NoCall
  <2>2. <<>> \in Seq(SessionResults)
    OBVIOUS
  <2> QED BY <2>1, <2>2 DEF ShInit, ShellTyped
<1>2. CallsKnow
  BY DEF ShInit, CallsKnow, NewSession, NoShCall, ShCalls
<1>3. ASSUME NEW s \in SessionIds PROVE SessionKnows(s)
  BY DEF ShInit, SessionKnows, HandedOver, NewSession, NoCall
<1>4. ProcessesOwned /\ ResultsExact
  BY DEF ShInit, ProcessesOwned, ResultsExact, NewSession
<1> QED BY <1>1, <1>2, <1>3, <1>4 DEF ShInv

(* The sessions that stay: pruning drops only what is done.                *)
LEMMA PrunedKeeps ==
    ASSUME NEW ids \in Pruned
    PROVE  /\ ids \subseteq sessions
           /\ \A s \in sessions : ~shell[s].done => s \in ids
BY DEF Pruned, Evict, DoneIn

(* What has been handed over is a number of bytes.                         *)
LEMMA HandedOverType ==
    ASSUME ShellTyped, NEW s \in SessionIds
    PROVE  HandedOver(s) \in Nat
<1>1. results[s] \in Seq(SessionResults)
  BY DEF ShellTyped
<1>2. CASE results[s] # <<>>
  <2>1. results[s][Len(results[s])] \in SessionResults
    BY <1>1, <1>2, ElementOfSeq
  <2> QED BY <1>2, <2>1 DEF HandedOver, SessionResults
<1> QED BY <1>2 DEF HandedOver

(* A session changes while calls, map and results stay as they are.        *)
LEMMA SessionChanges ==
    ASSUME ShInv, NEW s \in SessionIds, NEW r \in SessionStates,
           shell' = [shell EXCEPT ![s] = r],
           UNCHANGED <<shClosed, sessions, recency, shCall, toKill, results>>,
           r.proc = "running" /\ ~r.killed => shell[s].proc = "running" /\ ~shell[s].killed,
           shell[s].proc = "none" => r.proc = "none",
           shell[s].done => r.done /\ r.made = shell[s].made,
           r.done => r.proc = "exited" /\ r.app = r.made,
           r.app <= r.made, r.unread + HandedOver(s) = r.app,
           r.events \in {NoCall, shell[s].events},
           r.sending \in {NoCall, shell[s].events, shell[s].sending}
    PROVE  ShInv'
<1> USE DEF ShInv
<1>1. shell' \in [SessionIds -> SessionStates] /\ shell'[s] = r
  BY DEF ShellTyped
<1>2. \A q \in SessionIds : q # s => shell'[q] = shell[q]
  BY DEF ShellTyped
<1>3. ShellTyped'
  BY <1>1 DEF ShellTyped
<1>4. CallsKnow'
  BY <1>1, <1>2 DEF CallsKnow
<1>5. ASSUME NEW q \in SessionIds PROVE SessionKnows(q)'
  <2>1. CASE q # s
    BY <1>2, <2>1 DEF SessionKnows, HandedOver, Receives
  <2>2. CASE q = s
    BY <1>1, <2>2 DEF SessionKnows, HandedOver, Receives
  <2> QED BY <2>1, <2>2
<1>6. ProcessesOwned'
  BY <1>1, <1>2 DEF ProcessesOwned
<1>7. ResultsExact'
  <2> SUFFICES ASSUME NEW q \in SessionIds, NEW i \in DOMAIN results[q]
               PROVE  /\ results[q][i].from = IF i = 1 THEN 0 ELSE results[q][i - 1].upTo
                      /\ IF results[q][i].final THEN results[q][i].upTo = shell'[q].made
                                                ELSE results[q][i].upTo % 2 = 0
    BY DEF ResultsExact
  <2>1. shell'[q].made = shell[q].made \/ ~results[q][i].final
    BY <1>1, <1>2 DEF SessionKnows
  <2> QED BY <2>1 DEF ResultsExact
<1> QED BY <1>3, <1>4, <1>5, <1>6, <1>7

(* Output, its delivery and the end of the process.                        *)
LEMMA OutputKeeps ==
    ASSUME ShInv, NEW s \in SessionIds,
           \/ Produce(s) \/ ProcessExits(s) \/ AppendOutput(s) \/ EmitDelta(s) \/ WaitProcess(s)
    PROVE  ShInv'
<1> DEFINE x == shell[s]
<1>0. /\ x \in SessionStates /\ SessionKnows(s)
      /\ NoCall \in ShCalls \cup {NoCall}
  BY DEF ShInv, ShellTyped
<1>a. ShellTyped
  BY DEF ShInv
<1> USE DEF OnlyShell
<1>1. CASE Produce(s)
  <2>0. PICK m \in Nat : m = x.made + 1
    BY <1>0 DEF SessionStates
  <2>1. PICK r \in SessionStates : r = [x EXCEPT !.made = m]
    BY <1>0 DEF SessionStates
  <2>2. /\ r.made = m /\ r.app = x.app /\ r.proc = x.proc /\ r.killed = x.killed
        /\ r.done = x.done /\ r.unread = x.unread /\ r.events = x.events /\ r.sending = x.sending
    BY <1>0, <2>1 DEF SessionStates
  <2>3. shell' = [shell EXCEPT ![s] = r]
    BY <1>1, <2>0, <2>1 DEF Produce
  <2>4. x.made \in Nat /\ x.app \in Nat
    BY <1>0 DEF SessionStates
  <2>5. ~x.done /\ x.proc = "running"
    BY <1>0, <1>1 DEF SessionKnows, Produce
  <2>6. x.app <= m /\ x.unread + HandedOver(s) = x.app
    <3>1. x.app <= x.made /\ x.unread + HandedOver(s) = x.app
      BY <1>0 DEF SessionKnows
    <3> HIDE DEF x
    <3> QED BY <2>0, <2>4, <3>1
  <2>7. UNCHANGED <<shClosed, sessions, recency, shCall, toKill, results>>
    BY <1>1 DEF Produce
  <2> QED BY <2>2, <2>3, <2>5, <2>6, <2>7, SessionChanges
<1>2. CASE ProcessExits(s)
  <2>1. [x EXCEPT !.proc = "exited"] \in SessionStates
    BY <1>0 DEF SessionStates
  <2> QED BY <1>0, <1>2, <2>1, SessionChanges DEF ProcessExits, SessionKnows, SessionStates
<1>3. CASE AppendOutput(s)
  <2>1. PICK upTo \in x.app + 1 .. x.made, n \in Nat, d \in Nat, c \in {NoCall, x.events} :
          shell' = [shell EXCEPT ![s] =
              [x EXCEPT !.app = upTo, !.unread = x.unread + (upTo - x.app), !.carry = n,
                        !.deltas = d, !.sending = c]]
    <3>1. PICK upTo \in x.app + 1 .. x.made :
             LET sends == /\ x.events # NoCall /\ x.deltas < MaxDeltas
                          /\ upTo - (upTo % 2) > x.app - x.carry
             IN  shell' = [shell EXCEPT ![s] =
                    [x EXCEPT !.app = upTo,
                              !.unread = @ + (upTo - x.app),
                              !.carry = IF x.events = NoCall \/ x.deltas < MaxDeltas THEN upTo % 2 ELSE 0,
                              !.deltas = IF sends THEN @ + 1 ELSE @,
                              !.sending = IF sends THEN x.events ELSE NoCall]]
      BY <1>3 DEF AppendOutput
    <3>2. PICK sends \in BOOLEAN :
             shell' = [shell EXCEPT ![s] =
                    [x EXCEPT !.app = upTo,
                              !.unread = @ + (upTo - x.app),
                              !.carry = IF x.events = NoCall \/ x.deltas < MaxDeltas THEN upTo % 2 ELSE 0,
                              !.deltas = IF sends THEN @ + 1 ELSE @,
                              !.sending = IF sends THEN x.events ELSE NoCall]]
      BY <3>1
    <3>3. upTo \in Nat /\ upTo % 2 \in Nat /\ x.deltas \in Nat
      BY <1>0 DEF SessionStates
    <3>4. PICK n \in Nat : n = IF x.events = NoCall \/ x.deltas < MaxDeltas THEN upTo % 2 ELSE 0
      BY <3>3
    <3>5. PICK d \in Nat : d = IF sends THEN x.deltas + 1 ELSE x.deltas
      BY <3>3
    <3>6. PICK c \in {NoCall, x.events} : c = IF sends THEN x.events ELSE NoCall
      OBVIOUS
    <3> QED BY <3>2, <3>4, <3>5, <3>6
  <2>2. x.app \in Nat /\ x.unread \in Nat /\ x.made \in Nat /\ upTo \in Nat /\ c \in ShCalls \cup {NoCall}
    BY <1>0 DEF SessionStates
  <2>3. PICK u \in Nat : u = x.unread + (upTo - x.app)
    BY <2>2
  <2>4. PICK r \in SessionStates :
           r = [x EXCEPT !.app = upTo, !.unread = u, !.carry = n, !.deltas = d, !.sending = c]
    BY <1>0, <2>2 DEF SessionStates
  <2>5. /\ r.made = x.made /\ r.app = upTo /\ r.proc = x.proc /\ r.killed = x.killed
        /\ r.done = x.done /\ r.unread = u /\ r.events = x.events /\ r.sending = c
    BY <1>0, <2>4 DEF SessionStates
  <2>6. shell' = [shell EXCEPT ![s] = r]
    BY <2>1, <2>3, <2>4
  <2>7. x.app <= x.made /\ ~x.done /\ u + HandedOver(s) = upTo /\ upTo <= x.made
    <3>1. HandedOver(s) \in Nat /\ x.unread + HandedOver(s) = x.app
      BY <1>0, <1>a, HandedOverType DEF SessionKnows
    <3>2. x.app < x.made /\ x.app <= x.made /\ (x.done => x.app = x.made)
      BY <1>0, <1>3 DEF SessionKnows, AppendOutput
    <3> HIDE DEF x
    <3> QED BY <2>2, <2>3, <3>1, <3>2
  <2> QED BY <1>0, <1>3, <2>2, <2>5, <2>6, <2>7, SessionChanges DEF AppendOutput, SessionKnows
<1>4. CASE EmitDelta(s)
  <2>1. [x EXCEPT !.sending = NoCall] \in SessionStates
    BY <1>0 DEF SessionStates
  <2> QED BY <1>0, <1>4, <2>1, SessionChanges DEF EmitDelta, SessionKnows, SessionStates
<1>5. CASE WaitProcess(s)
  <2>1. [x EXCEPT !.done = TRUE] \in SessionStates
    BY <1>0 DEF SessionStates
  <2> QED BY <1>0, <1>5, <2>1, SessionChanges DEF WaitProcess, Drained, SessionKnows, SessionStates
<1> QED BY <1>1, <1>2, <1>3, <1>4, <1>5
(* What one call knows.                                                    *)
CallKnows(c) ==
    /\ shCall[c].at \in {"spawned", "waiting", "snapshot", "found", "writing"} =>
           shCall[c].on \in SessionIds
    /\ c \in SessionIds =>
          /\ shCall[c].at \in {"idle", "spawned"} => c \notin sessions
          /\ shCall[c].at \in {"spawned", "killing", "waiting", "snapshot"} => shCall[c].on = c
          /\ shCall[c].at = "idle" => shell[c].proc = "none"

LEMMA CallsKnowEach == CallsKnow <=> \A c \in ShCalls : CallKnows(c)
BY DEF CallsKnow, CallKnows, ShCalls

(* A call and its session change together; what remains to be shown is     *)
(* about these two.                                                        *)
LEMMA CallChanges ==
    ASSUME ShInv, NEW c \in ShCalls, NEW k \in ShCallStates, NEW s \in SessionIds,
           NEW r \in SessionStates, NEW rs \in Seq(SessionResults),
           shCall' = [shCall EXCEPT ![c] = k], shell' = [shell EXCEPT ![s] = r],
           results' = [results EXCEPT ![s] = rs],
           shClosed' \in BOOLEAN, sessions' \subseteq SessionIds, toKill' \subseteq SessionIds,
           sessions' \ {c} \subseteq sessions,
           shell[s].proc = "none" => r.proc = "none" \/ s = c,
           \A z \in SessionIds : z # s => ~Receives(c, z),
           CallKnows(c)', SessionKnows(s)'
    PROVE  ShellTyped' /\ CallsKnow' /\ \A z \in SessionIds : SessionKnows(z)'
<1> USE DEF ShInv
<1>1. shell' \in [SessionIds -> SessionStates] /\ shell'[s] = r
  BY DEF ShellTyped
<1>2. \A z \in SessionIds : z # s => shell'[z] = shell[z] /\ results'[z] = results[z]
  BY DEF ShellTyped
<1>3. shCall' \in [ShCalls -> ShCallStates] /\ shCall'[c] = k
  BY DEF ShellTyped
<1>4. \A d \in ShCalls : d # c => shCall'[d] = shCall[d]
  BY DEF ShellTyped
<1>5. results' \in [SessionIds -> Seq(SessionResults)] /\ results'[s] = rs
  BY DEF ShellTyped
<1>6. ShellTyped'
  BY <1>1, <1>3, <1>5 DEF ShellTyped
<1>7. CallsKnow'
  <2>1. ASSUME NEW d \in ShCalls, d # c PROVE CallKnows(d)'
    <3>1. CallKnows(d)
      BY CallsKnowEach
    <3>2. d \in SessionIds /\ d # s => shell'[d] = shell[d]
      BY <1>2
    <3>3. d \in SessionIds /\ shell[d].proc = "none" => shell'[d].proc = "none"
      BY <1>1, <1>2, <2>1
    <3> QED BY <1>4, <2>1, <3>1, <3>3 DEF CallKnows
  <2>2. \A d \in ShCalls : CallKnows(d)'
    BY <2>1
  <2> QED BY <2>2 DEF CallsKnow, CallKnows, ShCalls
<1>8. ASSUME NEW z \in SessionIds, z # s PROVE SessionKnows(z)'
  <2>1. SessionKnows(z) /\ shell'[z] = shell[z] /\ results'[z] = results[z]
    BY <1>2, <1>8
  <2>2. \A d \in ShCalls : Receives(d, z) => Receives(d, z)'
    BY <1>4, <1>8 DEF Receives
  <2>3. shell[z].events \in ShCalls \cup {NoCall} /\ shell[z].sending \in ShCalls \cup {NoCall}
    BY DEF ShellTyped, SessionStates
  <2> QED BY <2>1, <2>2, <2>3 DEF SessionKnows, HandedOver
<1> QED BY <1>6, <1>7, <1>8

(* The results of a session are left alone.                                *)
LEMMA ResultsStay ==
    ASSUME ShInv, UNCHANGED results,
           \A z \in SessionIds : shell[z].done => shell'[z].made = shell[z].made
    PROVE  ResultsExact'
<1> SUFFICES ASSUME NEW z \in SessionIds, NEW i \in DOMAIN results[z]
             PROVE  /\ results[z][i].from = IF i = 1 THEN 0 ELSE results[z][i - 1].upTo
                    /\ IF results[z][i].final THEN results[z][i].upTo = shell'[z].made
                                              ELSE results[z][i].upTo % 2 = 0
  BY DEF ResultsExact
<1>1. shell'[z].made = shell[z].made \/ ~results[z][i].final
  BY DEF ShInv, SessionKnows
<1> QED BY <1>1 DEF ResultsExact, ShInv

(* A call goes on to another step.                                         *)
LEMMA CallGoes ==
    ASSUME ShInv, NEW c \in ShCalls, NEW at \in CallSteps, CallTo(c, at)
    PROVE  \E k \in ShCallStates :
              shCall' = [shCall EXCEPT ![c] = k] /\ k.at = at /\ k.on = shCall[c].on
<1>1. shCall[c] \in ShCallStates
  BY DEF ShInv, ShellTyped
<1>2. PICK k \in ShCallStates : k = [shCall[c] EXCEPT !.at = at]
  BY <1>1 DEF ShCallStates
<1>3. k.at = at /\ k.on = shCall[c].on
  BY <1>1, <1>2 DEF ShCallStates
<1>4. shCall' = [shCall EXCEPT ![c] = k]
  BY <1>2 DEF CallTo
<1> QED BY <1>3, <1>4

(* What is known of a call and of its session.                             *)
LEMMA CallFacts ==
    ASSUME ShInv, NEW c \in ShCalls, shCall[c].at \notin {"idle", "killing", "returned", "failed"}
    PROVE  /\ shCall[c] \in ShCallStates /\ shCall[c].on \in SessionIds
           /\ shell[shCall[c].on] \in SessionStates /\ SessionKnows(shCall[c].on)
           /\ results[shCall[c].on] \in Seq(SessionResults)
           /\ \A z \in SessionIds : z # shCall[c].on => ~Receives(c, z)
           /\ CallKnows(c)
<1>1. shCall[c] \in ShCallStates /\ shCall[c].on \in SessionIds /\ CallKnows(c)
  <2>1. shCall[c] \in ShCallStates /\ CallKnows(c)
    BY CallsKnowEach DEF ShInv, ShellTyped
  <2>2. shCall[c].at \in CallSteps
    BY <2>1 DEF ShCallStates
  <2> QED BY <2>1, <2>2 DEF CallKnows, CallSteps
<1>2. \A z \in SessionIds : shell[z] \in SessionStates /\ SessionKnows(z) /\ results[z] \in Seq(SessionResults)
  BY DEF ShInv, ShellTyped
<1> QED BY <1>1, <1>2 DEF Receives

(* A call of which only the step changes, and perhaps whether its session  *)
(* is killed.                                                              *)
LEMMA CallContinues ==
    ASSUME ShInv, NEW c \in ShCalls, NEW s \in SessionIds, NEW at \in CallSteps, CallTo(c, at),
           UNCHANGED shell \/ Kill(s), UNCHANGED results,
           shClosed' \in BOOLEAN, sessions' \subseteq SessionIds, toKill' \subseteq SessionIds,
           sessions' \ {c} \subseteq sessions, at # "returned",
           shCall[c].on = s \/ shCall[c].at \in {"idle", "found"},
           at \in {"idle", "found"} => shCall[c].at \in {"idle", "found"},
           at \in {"spawned", "waiting", "snapshot", "found", "writing"} => shCall[c].on \in SessionIds,
           c \in SessionIds => /\ at \notin {"idle", "spawned"}
                               /\ at \in {"killing", "waiting", "snapshot"} => shCall[c].on = c
    PROVE  /\ ShellTyped' /\ CallsKnow' /\ ResultsExact' /\ \A z \in SessionIds : SessionKnows(z)'
           /\ shCall'[c].at = at /\ \A d \in ShCalls : d # c => shCall'[d] = shCall[d]
           /\ \A z \in SessionIds : /\ shell'[z].proc = shell[z].proc
                                    /\ shell[z].killed => shell'[z].killed
                                    /\ shell'[z].done = shell[z].done
           /\ Kill(s) => shell'[s].killed
<1> USE DEF ShInv
<1>0. /\ shell[s] \in SessionStates /\ shCall[c] \in ShCallStates
      /\ results[s] \in Seq(SessionResults) /\ SessionKnows(s)
  BY DEF ShellTyped
<1>1. PICK k \in ShCallStates :
         shCall' = [shCall EXCEPT ![c] = k] /\ k.at = at /\ k.on = shCall[c].on
  BY CallGoes
<1>2. PICK r \in SessionStates :
         /\ shell' = [shell EXCEPT ![s] = r]
         /\ r.proc = shell[s].proc /\ r.done = shell[s].done /\ r.app = shell[s].app
         /\ r.made = shell[s].made /\ r.unread = shell[s].unread /\ r.sending = shell[s].sending
         /\ r.events = shell[s].events /\ (shell[s].killed => r.killed) /\ (Kill(s) => r.killed)
  <2>1. CASE Kill(s)
    <3>1. PICK b \in {TRUE} : TRUE
      OBVIOUS
    <3>2. PICK r \in SessionStates : r = [shell[s] EXCEPT !.killed = b]
      BY <1>0 DEF SessionStates
    <3>3. /\ r.proc = shell[s].proc /\ r.done = shell[s].done /\ r.app = shell[s].app
          /\ r.made = shell[s].made /\ r.unread = shell[s].unread /\ r.sending = shell[s].sending
          /\ r.events = shell[s].events /\ r.killed = b
      BY <1>0, <3>2 DEF SessionStates
    <3>4. shell' = [shell EXCEPT ![s] = r]
      BY <2>1, <3>1, <3>2 DEF Kill
    <3> QED BY <3>1, <3>3, <3>4
  <2>2. CASE ~Kill(s)
    <3>1. shell' = [shell EXCEPT ![s] = shell[s]]
      BY <2>2 DEF ShellTyped
    <3> QED BY <1>0, <2>2, <3>1
  <2> QED BY <2>1, <2>2
<1>3. results' = [results EXCEPT ![s] = results[s]]
  BY DEF ShellTyped
<1>4. /\ shCall'[c] = k /\ shell'[s] = r
      /\ \A d \in ShCalls : d # c => shCall'[d] = shCall[d]
      /\ \A z \in SessionIds : z # s => shell'[z] = shell[z]
  BY <1>1, <1>2 DEF ShellTyped
<1>5. CallKnows(c)'
  BY <1>1, <1>4 DEF CallKnows
<1>6. \A d \in ShCalls : Receives(d, s) => Receives(d, s)'
  BY <1>1, <1>4 DEF Receives
<1>7. SessionKnows(s)'
  <2>1. shell[s].sending \in ShCalls \cup {NoCall} /\ shell[s].events \in ShCalls \cup {NoCall}
    BY <1>0 DEF SessionStates
  <2> QED BY <1>0, <1>2, <1>4, <1>6, <2>1 DEF SessionKnows, HandedOver
<1>8. \A z \in SessionIds : z # s => ~Receives(c, z)
  BY DEF Receives
<1>9. ShellTyped' /\ CallsKnow' /\ \A z \in SessionIds : SessionKnows(z)'
  BY <1>0, <1>1, <1>2, <1>3, <1>5, <1>7, <1>8, CallChanges
<1>10. ResultsExact'
  BY <1>2, <1>4, ResultsStay
<1> QED BY <1>1, <1>2, <1>4, <1>9, <1>10

(* exec_command starts a process.                                          *)
LEMMA SpawnKeeps ==
    ASSUME ShInv, NEW s \in SessionIds, SpawnSession(s)
    PROVE  ShInv'
<1> USE DEF ShInv
<1>0. /\ s \in ShCalls /\ shell[s] \in SessionStates /\ shCall[s] \in ShCallStates
      /\ shCall[s].at = "idle" /\ shell[s].proc = "none" /\ s \notin sessions
      /\ results[s] \in Seq(SessionResults) /\ SessionKnows(s)
  BY DEF ShellTyped, ShCalls, SpawnSession, CallAt, CallsKnow
<1>1. UNCHANGED <<shClosed, sessions, recency, toKill, results>>
  BY DEF SpawnSession
<1>2. results' = [results EXCEPT ![s] = results[s]]
  BY <1>1 DEF ShellTyped
<1>3. \A z \in SessionIds : ~Receives(s, z)
  BY <1>0 DEF Receives
<1>4. CASE CallTo(s, "failed") /\ UNCHANGED shell
  <2>2. PICK k \in ShCallStates :
           shCall' = [shCall EXCEPT ![s] = k] /\ k.at = "failed" /\ k.on = shCall[s].on
    BY <1>0, <1>4, CallGoes DEF CallSteps
  <2>3. shell' = [shell EXCEPT ![s] = shell[s]] /\ shell' = shell
    BY <1>4 DEF ShellTyped
  <2>4. shCall'[s] = k
    BY <1>0, <2>2 DEF ShellTyped
  <2>5. CallKnows(s)'
    BY <2>2, <2>4 DEF CallKnows
  <2>6. SessionKnows(s)'
    BY <1>0, <1>1, <1>3, <2>2, <2>3 DEF SessionKnows, HandedOver, Receives, ShellTyped
  <2>7. ShellTyped' /\ CallsKnow' /\ \A z \in SessionIds : SessionKnows(z)'
    BY <1>0, <1>1, <1>2, <1>3, <2>2, <2>3, <2>5, <2>6, CallChanges DEF ShellTyped
  <2>8. ProcessesOwned'
    BY <1>0, <1>1, <2>2, <2>3 DEF ProcessesOwned, ShellTyped
  <2> QED BY <1>1, <2>3, <2>7, <2>8, ResultsStay
<1>5. CASE /\ shCall' = [shCall EXCEPT ![s] = [at |-> "spawned", on |-> s]]
           /\ shell' = [shell EXCEPT ![s].proc = "running", ![s].events = s]
  <2>1. PICK k \in ShCallStates : k = [at |-> "spawned", on |-> s]
    BY DEF ShCallStates, CallSteps
  <2>2. shCall' = [shCall EXCEPT ![s] = k] /\ k.at = "spawned" /\ k.on = s
    BY <1>5, <2>1
  <2>3. PICK p \in {"running"} : TRUE
    OBVIOUS
  <2>4. PICK r \in SessionStates : r = [shell[s] EXCEPT !.proc = p, !.events = s]
    BY <1>0 DEF SessionStates
  <2>5. /\ r.proc = "running" /\ r.events = s /\ r.done = shell[s].done /\ r.app = shell[s].app
        /\ r.made = shell[s].made /\ r.unread = shell[s].unread /\ r.sending = shell[s].sending
    BY <1>0, <2>3, <2>4 DEF SessionStates
  <2>6. shell' = [shell EXCEPT ![s] = r]
    BY <1>5, <2>3, <2>4
  <2>7. shCall'[s] = k /\ shell'[s] = r
    BY <1>0, <2>2, <2>6 DEF ShellTyped
  <2>8. CallKnows(s)'
    BY <1>0, <1>1, <2>2, <2>7 DEF CallKnows
  <2>9. SessionKnows(s)'
    <3>1. ~shell[s].done /\ shell[s].sending \in ShCalls \cup {NoCall}
      BY <1>0 DEF SessionKnows, SessionStates
    <3>2. \A d \in ShCalls : Receives(d, s) => Receives(d, s)'
      BY <1>0, <1>3, <2>2 DEF Receives, ShellTyped
    <3>3. Receives(s, s)'
      BY <2>2, <2>7 DEF Receives
    <3> QED BY <1>0, <1>1, <2>5, <2>7, <3>1, <3>2, <3>3 DEF SessionKnows, HandedOver
  <2>10. ShellTyped' /\ CallsKnow' /\ \A z \in SessionIds : SessionKnows(z)'
    BY <1>0, <1>1, <1>2, <1>3, <2>2, <2>6, <2>8, <2>9, CallChanges DEF ShellTyped
  <2>11. ProcessesOwned'
    BY <1>0, <1>1, <2>2, <2>6, <2>7 DEF ProcessesOwned, ShellTyped, ShCalls
  <2>12. ResultsExact'
    BY <1>0, <1>1, <2>5, <2>6, ResultsStay DEF ShellTyped
  <2> QED BY <2>10, <2>11, <2>12
<1> QED BY <1>4, <1>5 DEF SpawnSession
(* exec_command registers its session, or is refused and kills it.         *)
LEMMA RegisterKeeps ==
    ASSUME ShInv, NEW s \in SessionIds, RegisterSession(s)
    PROVE  ShInv'
<1>0. s \in ShCalls /\ shCall[s].at = "spawned" /\ shCall[s].on = s /\ s \notin sessions
  BY DEF ShCalls, RegisterSession, CallAt, ShInv, CallsKnow
<1>1. UNCHANGED <<shClosed, shell, toKill, results>>
  BY DEF RegisterSession
<1>2. PICK ids \in IF shClosed THEN {sessions} ELSE Pruned :
         IF StartRefused(s, ids)
         THEN CallTo(s, "killing") /\ KeepSessions(ids)
         ELSE CallTo(s, "waiting") /\ sessions' = ids \cup {s}
  BY DEF RegisterSession
<1>3. /\ ids \subseteq sessions /\ \A z \in sessions : ~shell[z].done => z \in ids
      /\ shClosed \in BOOLEAN /\ sessions \subseteq SessionIds /\ toKill \subseteq SessionIds
  BY <1>2, PrunedKeeps DEF ShInv, ShellTyped
<1>4. ASSUME NEW z \in sessions, shell[z].proc = "running" PROVE z \in ids
  <2>1. ~shell[z].done
    BY <1>3, <1>4 DEF ShInv, SessionKnows
  <2> QED BY <1>3, <2>1
<1>5. CASE StartRefused(s, ids)
  <2>1. CallTo(s, "killing") /\ sessions' = ids
    BY <1>2, <1>5 DEF KeepSessions
  <2>2. /\ ShellTyped' /\ CallsKnow' /\ ResultsExact' /\ \A z \in SessionIds : SessionKnows(z)'
        /\ shCall'[s].at = "killing" /\ \A d \in ShCalls : d # s => shCall'[d] = shCall[d]
    BY <1>0, <1>1, <1>3, <2>1, CallContinues DEF CallSteps
  <2>3. ProcessesOwned'
    BY <1>0, <1>1, <1>4, <2>1, <2>2 DEF ProcessesOwned, ShCalls, ShInv
  <2> QED BY <2>2, <2>3 DEF ShInv
<1>6. CASE ~StartRefused(s, ids)
  <2>1. CallTo(s, "waiting") /\ sessions' = ids \cup {s} /\ ~shClosed
    BY <1>2, <1>6 DEF StartRefused
  <2>2. /\ ShellTyped' /\ CallsKnow' /\ ResultsExact' /\ \A z \in SessionIds : SessionKnows(z)'
        /\ shCall'[s].at = "waiting" /\ \A d \in ShCalls : d # s => shCall'[d] = shCall[d]
    BY <1>0, <1>1, <1>3, <2>1, CallContinues DEF CallSteps
  <2>3. ProcessesOwned'
    BY <1>0, <1>1, <1>4, <2>1, <2>2 DEF ProcessesOwned, ShCalls, ShInv
  <2> QED BY <2>2, <2>3 DEF ShInv
<1> QED BY <1>5, <1>6

(* A refused session is killed, and a wait ends.                           *)
LEMMA WaitsKeep ==
    ASSUME ShInv, \/ \E s \in SessionIds : KillRefused(s)
                  \/ \E c \in ShCalls : StopWaiting(c)
                  \/ \E c \in WriteCalls : WriteStdin(c)
    PROVE  ShInv'
<1>a. shClosed \in BOOLEAN /\ sessions \subseteq SessionIds /\ toKill \subseteq SessionIds
  BY DEF ShInv, ShellTyped
<1>1. ASSUME NEW s \in SessionIds, KillRefused(s) PROVE ShInv'
  <2>0. s \in ShCalls /\ shCall[s].at = "killing" /\ shCall[s] \in ShCallStates
        /\ CallTo(s, "failed") /\ Kill(s) /\ UNCHANGED <<shClosed, sessions, recency, toKill, results>>
    BY <1>1 DEF ShCalls, KillRefused, CallAt, ShInv, ShellTyped
  <2>1. shCall[s].on = s
    BY <2>0 DEF ShInv, CallsKnow
  <2>2. /\ ShellTyped' /\ CallsKnow' /\ ResultsExact' /\ \A z \in SessionIds : SessionKnows(z)'
        /\ shCall'[s].at = "failed" /\ \A d \in ShCalls : d # s => shCall'[d] = shCall[d]
        /\ \A z \in SessionIds : shell'[z].proc = shell[z].proc /\ (shell[z].killed => shell'[z].killed)
        /\ shell'[s].killed
    BY <1>a, <2>0, <2>1, CallContinues DEF CallSteps
  <2>3. ProcessesOwned'
    BY <2>0, <2>2 DEF ProcessesOwned, ShCalls, ShInv
  <2> QED BY <2>2, <2>3 DEF ShInv
<1>2. ASSUME NEW c \in ShCalls, NEW at \in {"waiting", "snapshot"}, CallTo(c, at),
             shCall[c].at \in {"waiting", "writing"}, c \in SessionIds => shCall[c].at = "waiting",
             NEW s \in {shCall[c].on}, UNCHANGED shell \/ Kill(s),
             UNCHANGED <<shClosed, sessions, recency, toKill, results>>
      PROVE  ShInv'
  <2>0. s \in SessionIds /\ (c \in SessionIds => s = c)
    BY <1>2 DEF ShInv, CallsKnow
  <2>1. /\ ShellTyped' /\ CallsKnow' /\ ResultsExact' /\ \A z \in SessionIds : SessionKnows(z)'
        /\ shCall'[c].at = at /\ \A d \in ShCalls : d # c => shCall'[d] = shCall[d]
        /\ \A z \in SessionIds : shell'[z].proc = shell[z].proc /\ (shell[z].killed => shell'[z].killed)
    BY <1>a, <1>2, <2>0, CallContinues DEF CallSteps
  <2>2. ProcessesOwned'
    BY <1>2, <2>1 DEF ProcessesOwned, ShCalls, ShInv
  <2> QED BY <2>1, <2>2 DEF ShInv
<1>3. ASSUME NEW c \in ShCalls, StopWaiting(c) PROVE ShInv'
  <2>1. /\ CallTo(c, "snapshot") /\ shCall[c].at = "waiting"
        /\ UNCHANGED <<shClosed, sessions, recency, toKill, results>>
        /\ UNCHANGED shell \/ Kill(shCall[c].on)
    BY <1>3 DEF StopWaiting, CallAt, Kill
  <2> QED BY <1>2, <2>1
<1>4. ASSUME NEW c \in WriteCalls, WriteStdin(c) PROVE ShInv'
  <2>1. /\ CallTo(c, "waiting") /\ shCall[c].at = "writing" /\ c \in ShCalls /\ c \notin SessionIds
        /\ UNCHANGED <<shClosed, sessions, recency, toKill, results, shell>>
    BY <1>4, ShellBounds DEF WriteStdin, CallAt, ShCalls, SessionIds
  <2> QED BY <1>2, <2>1
<1> QED BY <1>1, <1>3, <1>4

(* write_stdin finds a session, or none.                                   *)
LEMMA FindKeeps ==
    ASSUME ShInv, NEW c \in WriteCalls, FindSession(c)
    PROVE  ShInv'
<1>0. /\ c \in ShCalls /\ c \notin SessionIds /\ shCall[c].at = "idle" /\ shCall[c] \in ShCallStates
      /\ UNCHANGED <<shClosed, sessions, recency, shell, toKill, results>>
      /\ shClosed \in BOOLEAN /\ sessions \subseteq SessionIds /\ toKill \subseteq SessionIds
  BY ShellBounds DEF FindSession, CallAt, ShCalls, SessionIds, ShInv, ShellTyped
<1>1. PICK s \in SessionIds :
         IF ~shClosed /\ s \in sessions
         THEN shCall' = [shCall EXCEPT ![c] = [at |-> "found", on |-> s]]
         ELSE CallTo(c, "failed")
  BY DEF FindSession
<1>2. PICK k \in ShCallStates : /\ shCall' = [shCall EXCEPT ![c] = k]
                                /\ k.at \in {"found", "failed"} /\ (k.at = "found" => k.on \in SessionIds)
  <2>1. CASE ~shClosed /\ s \in sessions
    <3>1. PICK k \in ShCallStates : k = [at |-> "found", on |-> s]
      BY DEF ShCallStates, CallSteps
    <3> QED BY <1>1, <2>1, <3>1
  <2>2. CASE ~(~shClosed /\ s \in sessions)
    BY <1>0, <1>1, <2>2, CallGoes DEF CallSteps
  <2> QED BY <2>1, <2>2
<1>3. /\ shCall'[c] = k /\ \A d \in ShCalls : d # c => shCall'[d] = shCall[d]
  BY <1>0, <1>2 DEF ShInv, ShellTyped
<1>4. \A z \in SessionIds : ~Receives(c, z)
  BY <1>0 DEF Receives
<1>5. /\ shell' = [shell EXCEPT ![s] = shell[s]] /\ results' = [results EXCEPT ![s] = results[s]]
      /\ shell[s] \in SessionStates /\ results[s] \in Seq(SessionResults) /\ SessionKnows(s)
  BY <1>0 DEF ShInv, ShellTyped
<1>6. CallKnows(c)'
  BY <1>0, <1>2, <1>3 DEF CallKnows
<1>7. SessionKnows(s)'
  <2>1. shell[s].sending \in ShCalls \cup {NoCall} /\ shell[s].events \in ShCalls \cup {NoCall}
    BY <1>5 DEF SessionStates
  <2>2. \A d \in ShCalls : Receives(d, s) => Receives(d, s)'
    BY <1>3, <1>4 DEF Receives
  <2> QED BY <1>0, <1>5, <2>1, <2>2 DEF SessionKnows, HandedOver
<1>8. ShellTyped' /\ CallsKnow' /\ \A z \in SessionIds : SessionKnows(z)'
  BY <1>0, <1>2, <1>4, <1>5, <1>6, <1>7, CallChanges
<1>9. ResultsExact'
  BY <1>0, ResultsStay
<1>10. ProcessesOwned'
  BY <1>0, <1>3 DEF ProcessesOwned, ShCalls, ShInv
<1> QED BY <1>8, <1>9, <1>10 DEF ShInv

(* write_stdin takes the invocation of its session.                        *)
LEMMA TakeKeeps ==
    ASSUME ShInv, NEW c \in WriteCalls, TakeInvocation(c)
    PROVE  ShInv'
<1>a. PICK s \in SessionIds : s = shCall[c].on
  BY CallFacts DEF TakeInvocation, CallAt, ShCalls
<1>0. /\ c \in ShCalls /\ c \notin SessionIds /\ shCall[c].at = "found" /\ CallTo(c, "writing")
      /\ UNCHANGED <<shClosed, sessions, recency, toKill, results>>
      /\ shClosed \in BOOLEAN /\ sessions \subseteq SessionIds /\ toKill \subseteq SessionIds
      /\ shell[s].sending = NoCall
  BY <1>a, ShellBounds DEF TakeInvocation, CallAt, ShCalls, SessionIds, ShInv, ShellTyped, Delivering
<1>1. /\ shCall[c] \in ShCallStates /\ s \in SessionIds /\ shell[s] \in SessionStates
      /\ SessionKnows(s) /\ results[s] \in Seq(SessionResults)
      /\ \A z \in SessionIds : z # s => ~Receives(c, z)
  BY <1>0, <1>a, CallFacts
<1>2. PICK k \in ShCallStates : shCall' = [shCall EXCEPT ![c] = k] /\ k.at = "writing" /\ k.on = s
  BY <1>0, <1>a, CallGoes DEF CallSteps
<1>3. PICK r \in SessionStates : r = [shell[s] EXCEPT !.invocation = c, !.events = c]
  BY <1>0, <1>1 DEF SessionStates
<1>4. /\ r.proc = shell[s].proc /\ r.killed = shell[s].killed /\ r.done = shell[s].done
      /\ r.app = shell[s].app /\ r.made = shell[s].made /\ r.unread = shell[s].unread
      /\ r.sending = shell[s].sending /\ r.events = c
  BY <1>1, <1>3 DEF SessionStates
<1>5. shell' = [shell EXCEPT ![s] = r]
  BY <1>a, <1>3 DEF TakeInvocation
<1>6. results' = [results EXCEPT ![s] = results[s]]
  BY <1>0 DEF ShInv, ShellTyped
<1>7. /\ shCall'[c] = k /\ shell'[s] = r
      /\ \A d \in ShCalls : d # c => shCall'[d] = shCall[d]
      /\ \A z \in SessionIds : z # s => shell'[z] = shell[z]
  BY <1>0, <1>1, <1>2, <1>5 DEF ShInv, ShellTyped
<1>8. CallKnows(c)'
  BY <1>0, <1>1, <1>2, <1>7 DEF CallKnows
<1>9. SessionKnows(s)'
  <2>1. Receives(c, s)'
    BY <1>2, <1>7 DEF Receives
  <2> QED BY <1>0, <1>1, <1>4, <1>7, <2>1 DEF SessionKnows, HandedOver
<1>10. ShellTyped' /\ CallsKnow' /\ \A z \in SessionIds : SessionKnows(z)'
  BY <1>0, <1>1, <1>2, <1>4, <1>5, <1>6, <1>8, <1>9, CallChanges
<1>11. \A z \in SessionIds : /\ shell'[z].proc = shell[z].proc /\ shell'[z].killed = shell[z].killed
                              /\ shell'[z].made = shell[z].made
  BY <1>4, <1>7
<1>12. ResultsExact'
  BY <1>0, <1>11, ResultsStay
<1>13. ProcessesOwned'
  BY <1>0, <1>7, <1>11 DEF ProcessesOwned, ShCalls, ShInv
<1> QED BY <1>10, <1>12, <1>13 DEF ShInv

(* One more result: it begins where the last one has ended.                *)
LEMMA ResultAdded ==
    ASSUME ShInv, NEW s \in SessionIds, NEW e \in SessionResults,
           results' = [results EXCEPT ![s] = Append(results[s], e)],
           e.from = HandedOver(s), e.final => e.upTo = shell[s].made, ~e.final => e.upTo % 2 = 0,
           \A z \in SessionIds : shell'[z].made = shell[z].made
    PROVE  /\ ResultsExact' /\ HandedOver(s)' = e.upTo
           /\ (shell[s].done \/ ~e.final) =>
                 \A i \in DOMAIN results'[s] : results'[s][i].final => shell[s].done
<1> DEFINE rs == results[s]
<1>1. rs \in Seq(SessionResults)
  BY DEF ShInv, ShellTyped
<1>2. results'[s] = Append(rs, e)
  BY DEF ShInv, ShellTyped
<1>3. \A z \in SessionIds : z # s => results'[z] = results[z]
  BY DEF ShInv, ShellTyped
<1>4. /\ DOMAIN Append(rs, e) = 1 .. Len(rs) + 1 /\ DOMAIN rs = 1 .. Len(rs) /\ Len(rs) \in Nat
      /\ \A i \in 1 .. Len(rs) : Append(rs, e)[i] = rs[i]
      /\ Append(rs, e)[Len(rs) + 1] = e
      /\ Append(rs, e) # <<>> /\ Len(Append(rs, e)) = Len(rs) + 1
  BY <1>1
<1>5. rs = <<>> <=> Len(rs) = 0
  BY <1>1
<1>6. e.from = IF Len(rs) = 0 THEN 0 ELSE rs[Len(rs)].upTo
  BY <1>5 DEF HandedOver
<1>7. \A i \in DOMAIN rs : /\ rs[i].from = IF i = 1 THEN 0 ELSE rs[i - 1].upTo
                           /\ IF rs[i].final THEN rs[i].upTo = shell[s].made ELSE rs[i].upTo % 2 = 0
                           /\ rs[i].final => shell[s].done
  BY DEF ShInv, ResultsExact, SessionKnows
<1>8. HandedOver(s)' = e.upTo
  BY <1>2, <1>4 DEF HandedOver
<1>9. (shell[s].done \/ ~e.final) =>
         \A i \in DOMAIN results'[s] : results'[s][i].final => shell[s].done
  <2> HIDE DEF rs
  <2>1. \A i \in 1 .. Len(rs) + 1 : i \in 1 .. Len(rs) \/ i = Len(rs) + 1
    BY <1>4
  <2> QED BY <1>2, <1>4, <1>7, <2>1
<1>10. ASSUME NEW z \in SessionIds, NEW i \in DOMAIN results'[z]
       PROVE  /\ results'[z][i].from = IF i = 1 THEN 0 ELSE results'[z][i - 1].upTo
              /\ IF results'[z][i].final THEN results'[z][i].upTo = shell'[z].made
                                        ELSE results'[z][i].upTo % 2 = 0
  <2>1. CASE z # s
    BY <1>3, <1>10, <2>1 DEF ShInv, ResultsExact
  <2>2. CASE z = s
    <3> HIDE DEF rs
    <3>1. i \in 1 .. Len(rs) + 1
      BY <1>2, <1>4, <1>10, <2>2
    <3>2. CASE i \in 1 .. Len(rs)
      <4>1. i = 1 \/ i - 1 \in 1 .. Len(rs)
        BY <1>4, <3>2
      <4> QED BY <1>2, <1>4, <1>7, <2>2, <3>2, <4>1
    <3>3. CASE i = Len(rs) + 1
      <4>1. i = 1 <=> Len(rs) = 0
        BY <1>4, <3>3
      <4>2. i - 1 = Len(rs) /\ (Len(rs) = 0 \/ i - 1 \in 1 .. Len(rs))
        BY <1>4, <3>3
      <4>3. results'[z][i] = e /\ shell'[z].made = shell[s].made
        BY <1>2, <1>4, <2>2, <3>3
      <4>4. e.from = IF i = 1 THEN 0 ELSE results'[z][i - 1].upTo
        BY <1>2, <1>4, <1>6, <2>2, <4>1, <4>2
      <4> QED BY <4>3, <4>4
    <3> QED BY <3>1, <3>2, <3>3, <1>4
  <2> QED BY <2>1, <2>2
<1> QED BY <1>8, <1>9, <1>10 DEF ResultsExact


(* A snapshot is taken: with a result for the call, or without.            *)
LEMMA SnapshotKeeps ==
    ASSUME ShInv, NEW c \in ShCalls, NEW clear \in BOOLEAN, Snapshot(c, clear),
           shCall[c].at \in {"snapshot", "writing"}
    PROVE  ShInv'
<1>1. PICK s \in SessionIds : s = shCall[c].on
  BY CallFacts
<1>2. /\ shCall[c] \in ShCallStates /\ shell[s] \in SessionStates
      /\ SessionKnows(s) /\ results[s] \in Seq(SessionResults)
      /\ \A z \in SessionIds : z # s => ~Receives(c, z)
  BY <1>1, CallFacts
<1>3. /\ CallTo(c, "returned") /\ UNCHANGED <<shClosed, sessions, toKill>>
      /\ shClosed \in BOOLEAN /\ sessions \subseteq SessionIds /\ toKill \subseteq SessionIds
      /\ shell[s].sending = NoCall
      /\ results' = IF clear THEN [results EXCEPT ![s] = Append(@, Result(c, s))] ELSE results
  BY <1>1 DEF Snapshot, SnapshotWaits, Delivering, ShInv, ShellTyped
<1>4. PICK k \in ShCallStates : shCall' = [shCall EXCEPT ![c] = k] /\ k.at = "returned" /\ k.on = s
  BY <1>1, <1>3, CallGoes DEF CallSteps
<1>5. PICK half \in Nat : half = (IF shell[s].done THEN 0 ELSE shell[s].app % 2) /\ half <= shell[s].app
  <2>1. shell[s].app \in Nat
    BY <1>2 DEF SessionStates
  <2>2. shell[s].app % 2 \in Nat /\ shell[s].app % 2 <= shell[s].app
    BY <2>1
  <2> QED BY <2>1, <2>2
<1>6. PICK u \in Nat : u = IF ~clear THEN shell[s].unread ELSE half
  BY <1>2, <1>5 DEF SessionStates
<1>7. PICK n \in Nat : n = IF shell[s].done THEN 0 ELSE shell[s].carry
  BY <1>2 DEF SessionStates
<1>8. PICK none \in {NoCall} : TRUE
  OBVIOUS
<1>9. PICK v \in ShCalls \cup {NoCall} : v = IF shell[s].invocation = c THEN none ELSE shell[s].invocation
  BY <1>2, <1>8 DEF SessionStates
<1>10. PICK r \in SessionStates :
          r = [shell[s] EXCEPT !.events = none, !.unread = u, !.carry = n, !.invocation = v]
  BY <1>2, <1>8 DEF SessionStates
<1>11. /\ r.proc = shell[s].proc /\ r.killed = shell[s].killed /\ r.done = shell[s].done
       /\ r.app = shell[s].app /\ r.made = shell[s].made /\ r.unread = u
       /\ r.sending = shell[s].sending /\ r.events = NoCall
  BY <1>2, <1>8, <1>10 DEF SessionStates
<1>12. shell' = [shell EXCEPT ![s] = r]
  BY <1>1, <1>5, <1>6, <1>7, <1>8, <1>9, <1>10 DEF Snapshot
<1>13. /\ shCall'[c] = k /\ shell'[s] = r
       /\ \A d \in ShCalls : d # c => shCall'[d] = shCall[d]
       /\ \A z \in SessionIds : z # s => shell'[z] = shell[z]
  BY <1>2, <1>4, <1>12 DEF ShInv, ShellTyped
<1>14. \A z \in SessionIds : /\ shell'[z].proc = shell[z].proc /\ shell'[z].killed = shell[z].killed
                              /\ shell'[z].made = shell[z].made
  BY <1>11, <1>13
<1>15. CallKnows(c)'
  BY <1>4, <1>13 DEF CallKnows
<1>16. /\ shell[s].app \in Nat /\ shell[s].unread \in Nat /\ HandedOver(s) \in Nat
       /\ shell[s].unread + HandedOver(s) = shell[s].app
  BY <1>2, HandedOverType DEF ShInv, SessionKnows, SessionStates
<1>17. PICK rs \in Seq(SessionResults) :
          /\ results' = [results EXCEPT ![s] = rs]
          /\ ResultsExact' /\ u + HandedOver(s)' = shell[s].app
          /\ \A i \in DOMAIN results'[s] : results'[s][i].final => shell[s].done
  <2>1. CASE clear
    <3>1. PICK from \in Nat : from = shell[s].app - shell[s].unread /\ from = HandedOver(s)
      BY <1>16
    <3>2. PICK upTo \in Nat : upTo = shell[s].app - half /\ upTo + half = shell[s].app
      BY <1>5, <1>16
    <3>3. PICK final \in BOOLEAN : final = shell[s].done
      BY <1>2 DEF SessionStates
    <3>4. PICK e \in SessionResults : e = [call |-> c, from |-> from, final |-> final, upTo |-> upTo]
      BY DEF SessionResults
    <3>5. e.from = from /\ e.final = final /\ e.upTo = upTo
      BY <3>4
    <3>6. results' = [results EXCEPT ![s] = Append(results[s], e)]
      BY <1>3, <1>5, <2>1, <3>1, <3>2, <3>3, <3>4 DEF Result
    <3>7. final => upTo = shell[s].made
      BY <1>2, <1>5, <1>16, <3>2, <3>3 DEF SessionKnows
    <3>8. ~final => upTo % 2 = 0
      BY <1>5, <1>16, <3>2, <3>3
    <3>9. /\ ResultsExact' /\ HandedOver(s)' = upTo
          /\ \A i \in DOMAIN results'[s] : results'[s][i].final => shell[s].done
      BY <1>14, <3>1, <3>3, <3>5, <3>6, <3>7, <3>8, ResultAdded
    <3>10. Append(results[s], e) \in Seq(SessionResults)
      BY <1>2
    <3>11. u + upTo = shell[s].app
      BY <1>6, <2>1, <1>5, <1>16, <3>2
    <3> QED BY <3>6, <3>9, <3>10, <3>11
  <2>2. CASE ~clear
    <3>1. results' = [results EXCEPT ![s] = results[s]] /\ results' = results
      BY <1>3, <2>2 DEF ShInv, ShellTyped
    <3>2. ResultsExact'
      BY <1>14, <3>1, ResultsStay
    <3>3. HandedOver(s)' = HandedOver(s)
      BY <3>1 DEF HandedOver
    <3>4. \A i \in DOMAIN results'[s] : results'[s][i].final => shell[s].done
      BY <1>2, <3>1 DEF SessionKnows
    <3> QED BY <1>2, <1>6, <1>16, <2>2, <3>1, <3>2, <3>3, <3>4
  <2> QED BY <2>1, <2>2
<1>18. SessionKnows(s)'
  <2>1. r.sending = NoCall
    BY <1>3, <1>11
  <2>2. r.done => r.proc = "exited" /\ r.app = r.made
    BY <1>2, <1>11 DEF SessionKnows
  <2>3. r.app <= r.made /\ r.unread + HandedOver(s)' = r.app
    BY <1>2, <1>11, <1>17 DEF SessionKnows
  <2>4. \A i \in DOMAIN results'[s] : results'[s][i].final => r.done
    BY <1>11, <1>17
  <2> QED BY <1>11, <1>13, <2>1, <2>2, <2>3, <2>4 DEF SessionKnows
<1>19. ShellTyped' /\ CallsKnow' /\ \A z \in SessionIds : SessionKnows(z)'
  BY <1>2, <1>3, <1>4, <1>11, <1>12, <1>15, <1>17, <1>18, CallChanges
<1>20. ProcessesOwned'
  BY <1>3, <1>13, <1>14 DEF ProcessesOwned, ShCalls, ShInv
<1> QED BY <1>17, <1>19, <1>20 DEF ShInv

(* The map changes: it is pruned, or Close takes it and kills what it took.*)
LEMMA ClosingKeeps ==
    ASSUME ShInv, ClosesOnce, List \/ ShellClose \/ \E s \in SessionIds : CloseKills(s)
    PROVE  ShInv'
<1>0. /\ shClosed \in BOOLEAN /\ sessions \subseteq SessionIds /\ toKill \subseteq SessionIds
      /\ shell \in [SessionIds -> SessionStates]
  BY DEF ShInv, ShellTyped
<1>1. ASSUME NEW ids \in SUBSET sessions, sessions' = ids, shClosed' \in BOOLEAN,
             toKill' \subseteq SessionIds, UNCHANGED <<shell, shCall, results>>, ProcessesOwned'
      PROVE  ShInv'
  <2>1. ShellTyped' /\ CallsKnow'
    BY <1>0, <1>1 DEF ShInv, ShellTyped, CallsKnow
  <2>2. \A z \in SessionIds : SessionKnows(z)'
    BY <1>1 DEF ShInv, SessionKnows, HandedOver, Receives
  <2>3. ResultsExact'
    BY <1>1, ResultsStay DEF ShInv
  <2> QED BY <1>1, <2>1, <2>2, <2>3 DEF ShInv
<1>2. CASE List
  <2>1. PICK ids \in Pruned : sessions' = ids
    BY <1>2 DEF List, KeepSessions
  <2>2. ids \subseteq sessions /\ \A z \in sessions : ~shell[z].done => z \in ids
    BY PrunedKeeps
  <2>3. \A z \in SessionIds : shell[z].proc = "running" => ~shell[z].done
    BY DEF ShInv, SessionKnows
  <2>4. UNCHANGED <<shClosed, shell, shCall, toKill, results>>
    BY <1>2 DEF List
  <2>5. ProcessesOwned'
    BY <2>1, <2>2, <2>3, <2>4 DEF ProcessesOwned, ShInv
  <2> QED BY <1>0, <1>1, <2>1, <2>2, <2>4, <2>5
<1>3. CASE ShellClose
  <2>1. ProcessesOwned'
    BY <1>0, <1>3 DEF ShellClose, ProcessesOwned, ShInv, ClosesOnce
  <2>2. PICK ids \in SUBSET sessions : ids = {}
    OBVIOUS
  <2> QED BY <1>0, <1>1, <1>3, <2>1, <2>2 DEF ShellClose
<1>4. ASSUME NEW s \in SessionIds, CloseKills(s) PROVE ShInv'
  <2>1. PICK b \in {TRUE} : TRUE
    OBVIOUS
  <2>2. PICK r \in SessionStates : r = [shell[s] EXCEPT !.killed = b]
    BY ZenonT(40), <1>0, <2>1 DEF SessionStates
  <2>3. /\ r.proc = shell[s].proc /\ r.done = shell[s].done /\ r.app = shell[s].app
        /\ r.made = shell[s].made /\ r.unread = shell[s].unread /\ r.sending = shell[s].sending
        /\ r.events = shell[s].events /\ r.killed = b
    BY <1>0, <2>2 DEF SessionStates
  <2>4. shell' = [shell EXCEPT ![s] = r]
    BY <1>4, <2>1, <2>2 DEF CloseKills, Kill
  <2>5. /\ UNCHANGED <<shClosed, sessions, recency, shCall, results>> /\ toKill' = toKill \ {s}
    BY <1>4 DEF CloseKills
  <2>6. shell' \in [SessionIds -> SessionStates] /\ shell'[s] = r
        /\ \A z \in SessionIds : z # s => shell'[z] = shell[z]
    BY <1>0, <2>4
  <2>7. \A z \in SessionIds :
           /\ shell'[z].proc = shell[z].proc /\ shell'[z].done = shell[z].done
           /\ shell'[z].app = shell[z].app /\ shell'[z].made = shell[z].made
           /\ shell'[z].unread = shell[z].unread /\ shell'[z].sending = shell[z].sending
           /\ shell'[z].events = shell[z].events
           /\ (shell[z].killed \/ z = s => shell'[z].killed)
    BY <2>1, <2>3, <2>6
  <2>8. ShellTyped'
    BY <1>0, <2>5, <2>6 DEF ShInv, ShellTyped
  <2>9. CallsKnow'
    BY <2>5, <2>7 DEF ShInv, CallsKnow
  <2>10. \A z \in SessionIds : SessionKnows(z)'
    BY <2>5, <2>7 DEF ShInv, SessionKnows, HandedOver, Receives
  <2>11. ProcessesOwned'
    BY <2>5, <2>7 DEF ShInv, ProcessesOwned
  <2>12. ResultsExact'
    BY <2>5, <2>7, ResultsStay
  <2> QED BY <2>8, <2>9, <2>10, <2>11, <2>12 DEF ShInv
<1> QED BY <1>2, <1>3, <1>4

(* Nothing happens to the shell sessions.                                  *)
LEMMA ShellRests == ASSUME ShInv, UNCHANGED shvars PROVE ShInv'
<1>1. ShellTyped' /\ CallsKnow'
  BY DEF ShInv, shvars, ShellTyped, CallsKnow
<1>2. \A z \in SessionIds : SessionKnows(z)'
  BY DEF ShInv, shvars, SessionKnows, HandedOver, Receives
<1>3. ProcessesOwned' /\ ResultsExact'
  BY DEF ShInv, shvars, ProcessesOwned, ResultsExact
<1> QED BY <1>1, <1>2, <1>3 DEF ShInv

(* Only Close takes sessions away to kill them, and it closes the manager. *)
LEMMA CloseKeeps == ClosesOnce /\ [ShNext]_shvars => ClosesOnce'
BY DEF ClosesOnce, ShNext, shvars, SessionStep, Produce, ProcessExits, AppendOutput, EmitDelta, OnlyShell,
       WaitProcess, SpawnSession, RegisterSession, KillRefused, CloseKills, StopWaiting, ReturnResult,
       Snapshot, FindSession, TakeInvocation, WriteStdin, WriteRefused, List, ShellClose

LEMMA ShKeeps == ShInv /\ ClosesOnce /\ [ShNext]_shvars => ShInv'
<1> SUFFICES ASSUME ShInv, ClosesOnce, [ShNext]_shvars PROVE ShInv'
  OBVIOUS
<1>1. ASSUME NEW s \in SessionIds, SessionStep(s) PROVE ShInv'
  BY <1>1, OutputKeeps, SpawnKeeps, RegisterKeeps, WaitsKeep, ClosingKeeps DEF SessionStep
<1>2. ASSUME NEW c \in ShCalls, StopWaiting(c) \/ ReturnResult(c) PROVE ShInv'
  BY <1>2, WaitsKeep, SnapshotKeeps DEF ReturnResult, CallAt
<1>3. ASSUME NEW c \in WriteCalls, FindSession(c) \/ TakeInvocation(c) \/ WriteStdin(c) \/ WriteRefused(c)
      PROVE  ShInv'
  BY <1>3, FindKeeps, TakeKeeps, WaitsKeep, SnapshotKeeps DEF WriteRefused, CallAt, ShCalls
<1> QED BY <1>1, <1>2, <1>3, ClosingKeeps, ShellRests DEF ShNext

(* The invariant of the shell sessions, while they take steps: what each   *)
(* call knows of its session, who receives deltas, and how much output the *)
(* results have handed over (features/shell/session.go).                   *)
ShellInv == ShInv /\ ClosesOnce

THEOREM ShellInvariant == Spec => [](subject = "shell" => ShellInv)
<1>1. Init => (subject = "shell" => ShellInv)
  BY ShellStarts DEF Init, ShellInv, ClosesOnce, ShInit
<1>2. (subject = "shell" => ShellInv) /\ [Next]_vars => (subject = "shell" => ShellInv)'
  <2> SUFFICES ASSUME subject = "shell" => ShellInv, [Next]_vars, subject' = "shell" PROVE ShellInv'
    OBVIOUS
  <2>1. subject = "shell" /\ [ShNext]_shvars
    BY DEF Next, vars
  <2> QED BY <2>1, ShKeeps, CloseKeeps DEF ShellInv
<1> QED BY <1>1, <1>2, PTL DEF Spec

(* However tool calls, output, exits, kills, pruning and Close interleave, *)
(* for any number of sessions and calls: no process is left running that   *)
(* nothing can reach, results hand the output over once, in order, whole   *)
(* runes at a time and complete at the exit, and no delta follows the      *)
(* result of its call (session.go: Start, Continue, List, Close, snapshot).*)
THEOREM ShellServesAlways == Spec => []ShellServes
<1>1. (subject = "shell" => ShellInv) => ShellServes
  BY ShellIsSafe DEF ShellInv, ShellServes
<1> QED BY <1>1, ShellInvariant, PTL

-----------------------------------------------------------------------------
(* Observables                                                             *)
(*                                                                         *)
(* A run is ended by the one that holds its claim; only the current run is *)
(* claimed, and it is neither recorded as ended nor shut down.  What is    *)
(* left to be announced follows from the run's own record; the slot keeps  *)
(* the next run from beginning before it is.                               *)

Owners == StopCalls \cup {"none", "close"}
RunStates ==
    [step : RunSteps, ended : Outcomes, activated : BOOLEAN, published : BOOLEAN, child : BOOLEAN,
     batch : BOOLEAN, tail : BOOLEAN, outputs : Nat, cancelled : BOOLEAN, quiesced : BOOLEAN,
     claim : Owners, pending : Outcomes, durable : BOOLEAN, shutdown : BOOLEAN, completed : BOOLEAN,
     reported : BOOLEAN, event : Outcomes, final : {"none", "due", "emitted", "done"}, done : BOOLEAN,
     records : Nat]
StopStates ==
    [step : {"idle", "claim", "quiesce", "retry", "done", "failed", "remove"}, run : Runs \cup {0},
     delete : BOOLEAN]
CloseStates ==
    [step : {"open", "claim", "stop", "workers", "draining", "closed", "failed"}, run : Runs \cup {0}]

ObservablesTyped ==
    /\ run \in [Runs -> RunStates]
    /\ current \in Runs \cup {0} /\ slot \in Runs \cup {0}
    /\ defined \in BOOLEAN /\ deleting \in BOOLEAN
    /\ stopping \in [StopCalls -> StopStates]
    /\ closing \in CloseStates
    /\ announced \in Seq(Outcomes \X Runs)
    /\ failures \in Nat

(* What a run knows of itself: how far its goroutine is, whether its end   *)
(* has been recorded or could not be, and what is left to be announced.    *)
Live(x) == x.step \in {"activate", "await", "wait", "drain"}
RunEnded(x) == x.durable \/ x.shutdown
Told(x) == x.final \in {"emitted", "done"}

RunShape(x) ==
    /\ x.step = "none" => x = NoRun
    /\ x.child => Live(x)
    /\ x.completed <=> x.step \in {"emitError", "over"}
    /\ x.step = "finish" => x.ended # "none"
    /\ x.records = IF x.durable THEN 1 ELSE 0
    /\ x.durable => x.pending = "none" /\ ~x.shutdown
    /\ x.reported => x.pending # "none" \/ x.durable
    /\ x.pending # "none" => x.reported
    /\ x.shutdown => ~x.reported
    /\ x.final # "none" <=> x.completed /\ RunEnded(x)
    /\ x.event # "none" <=> x.durable /\ ~x.reported /\ ~Told(x)
    /\ x.step = "emitError" => x.reported /\ ~Told(x)

(* Who may end a run: the current one only, and of the calls that want to, *)
(* the one that has claimed it.                                            *)
RunOwned(r) ==
    /\ current = r => run[r].step # "none" /\ ~RunEnded(run[r])
    /\ run[r].claim # "none" => current = r
    /\ run[r].claim \in StopCalls =>
          stopping[run[r].claim].run = r /\ stopping[run[r].claim].step \in {"quiesce", "retry"}
    /\ run[r].claim = "close" => closing.step = "stop" /\ closing.run = r

StopClaims(c) ==
    stopping[c].step \in {"quiesce", "retry"} =>
        /\ stopping[c].run \in Runs /\ run[stopping[c].run].claim = c
        /\ stopping[c].step = "quiesce" <=> run[stopping[c].run].pending = "none"

CloseClaimed ==
    closing.step = "stop" => closing.run \in Runs /\ run[closing.run].claim = "close"

(* One Delete at a time; while it lasts nothing starts, so that what it    *)
(* has found ended stays so.                                               *)
StopDeletes(c) ==
    /\ stopping[c].delete => deleting /\ \A d \in StopCalls : stopping[d].delete => d = c
    /\ stopping[c].step = "remove" => stopping[c].delete
    /\ stopping[c].delete /\ stopping[c].step \in {"done", "remove"} => current = 0

CloseQuiet ==
    /\ closing.step \in {"draining", "closed"} =>
          \A r \in Runs : run[r].step = "none" \/ run[r].completed
    /\ closing.step = "closed" => inflight = {}
    /\ refused = {}

(* The slot is that of the last run, until its end is announced.           *)
SlotKept ==
    /\ \A r \in Runs : slot = r <=> run[r].step # "none" /\ run[r].final # "done"
    /\ \A r, q \in Runs : q < r /\ run[r].step # "none" => run[q].step # "none"
    /\ \A r, q \in Runs : slot = q /\ q < r => run[r].step = "none"

(* A run is announced once, when its end has been recorded or could not    *)
(* be, in the order of the runs.                                           *)
Said(x) ==
    \/ x.reported /\ x.completed /\ x.step # "emitError"
    \/ ~x.reported /\ x.durable /\ Told(x)

SaidOnce ==
    /\ \A r \in Runs : Said(run[r]) <=> \E i \in DOMAIN announced : announced[i][2] = r
    /\ \A i, j \in DOMAIN announced : i < j => announced[i][2] < announced[j][2]

Owned ==
    /\ \A r \in Runs : RunOwned(r)
    /\ \A c \in StopCalls : StopClaims(c)
    /\ CloseClaimed

ObInv ==
    /\ ObservablesTyped
    /\ \A r \in Runs : RunShape(run[r])
    /\ Owned
    /\ \A c \in StopCalls : StopDeletes(c)
    /\ CloseQuiet /\ SlotKept /\ SaidOnce

LEMMA ObservablesStart == OInit => ObInv
<1> SUFFICES ASSUME OInit PROVE ObInv
  OBVIOUS
<1> USE DEF OInit, NoStop, NotClosing, FaultFree
<1>0. NoRun \in RunStates
  BY DEF NoRun, RunStates, RunSteps, Outcomes, Owners
<1>1. ObservablesTyped
  <2>1. run \in [Runs -> RunStates] /\ <<>> \in Seq(Outcomes \X Runs)
    BY <1>0
  <2>2. NoStop \in StopStates /\ NotClosing \in CloseStates
    BY DEF StopStates, CloseStates
  <2> QED BY <2>1, <2>2 DEF ObservablesTyped
<1>2. ASSUME NEW r \in Runs PROVE RunShape(run[r])
  BY DEF RunShape, NoRun, Live, RunEnded, Told
<1>3. Owned
  BY StopNames DEF Owned, RunOwned, StopClaims, CloseClaimed, NoRun, Runs
<1>4. (\A c \in StopCalls : StopDeletes(c)) /\ CloseQuiet
  BY DEF StopDeletes, CloseQuiet
<1>5. SlotKept
  BY DEF SlotKept, NoRun, Runs
<1>6. SaidOnce
  BY DEF SaidOnce, Said, NoRun
<1> QED BY <1>1, <1>2, <1>3, <1>4, <1>5, <1>6 DEF ObInv

(* At most one ending of a run is in what was announced.                   *)
LEMMA EndingsOf ==
    ASSUME ObInv, NEW r \in Runs
    PROVE  /\ Cardinality(Endings(r)) <= 1
           /\ Said(run[r]) => Cardinality(Endings(r)) = 1
<1>0. announced \in Seq(Outcomes \X Runs) /\ Runs \subseteq Nat
  BY ObservableBounds DEF ObInv, ObservablesTyped, Runs
<1>1. \A i, j \in Endings(r) : i = j
  <2> SUFFICES ASSUME NEW i \in DOMAIN announced, NEW j \in DOMAIN announced, i < j,
                      announced[i][2] = r, announced[j][2] = r
               PROVE  FALSE
    <3>1. DOMAIN announced \subseteq Nat
      BY <1>0
    <3> QED BY <3>1 DEF Endings
  <2>1. announced[i][2] < announced[j][2]
    BY DEF ObInv, SaidOnce
  <2> QED BY <1>0, <2>1
<1>2. CASE Endings(r) = {}
  <2>1. ~Said(run[r])
    BY <1>2 DEF ObInv, SaidOnce, Endings
  <2> QED BY <1>2, <2>1, FS_EmptySet
<1>3. CASE Endings(r) # {}
  <2>1. PICK i : Endings(r) = {i}
    BY <1>1, <1>3
  <2>2. Cardinality({i}) = 1
    BY FS_Singleton
  <2> QED BY <2>1, <2>2
<1> QED BY <1>2, <1>3

LEMMA ObservablesAreSafe == ObInv => ObservablesSafe
<1> SUFFICES ASSUME ObInv PROVE ObservablesSafe
  OBVIOUS
<1>1. ASSUME NEW r \in Runs
      PROVE  /\ run[r].completed /\ (run[r].durable \/ run[r].shutdown) =>
                    run[r].final # "none" /\ (run[r].final = "done" => slot # r)
             /\ run[r].records <= 1 /\ Cardinality(Endings(r)) <= 1
             /\ run[r].final = "done" /\ ~run[r].shutdown =>
                    run[r].records = 1 /\ Cardinality(Endings(r)) = 1
  <2>1. RunShape(run[r]) /\ SlotKept
    BY DEF ObInv
  <2>2. run[r].final = "done" /\ ~run[r].shutdown => Said(run[r])
    BY <2>1 DEF RunShape, Said, RunEnded, Told
  <2> QED BY <2>1, <2>2, EndingsOf DEF RunShape, SlotKept, RunEnded
<1>2. ASSUME NEW r \in Runs, NEW q \in Runs, NEW i \in Endings(r), NEW j \in Endings(q), i < j
      PROVE  r <= q
  <2>1. announced[i][2] < announced[j][2]
    BY <1>2 DEF ObInv, SaidOnce, Endings
  <2> QED BY <2>1 DEF Endings, Runs
<1>3. ClosedQuiet
  BY DEF ClosedQuiet, ObInv, CloseQuiet, RunShape, NoRun, Live
<1> QED BY <1>1, <1>2, <1>3 DEF ObservablesSafe, EndedOnce


(* One run changes; the slot stays with it.                                *)
LEMMA SlotStays ==
    ASSUME ObInv, NEW r \in Runs, NEW y \in RunStates, run' = [run EXCEPT ![r] = y],
           UNCHANGED slot, run[r].step # "none", y.step # "none",
           y.final = "done" <=> run[r].final = "done"
    PROVE  SlotKept'
<1>1. run'[r] = y /\ \A q \in Runs : q # r => run'[q] = run[q]
  BY DEF ObInv, ObservablesTyped
<1> QED BY <1>1 DEF ObInv, SlotKept

(* One run changes, and nothing is announced that it does not have to be.  *)
LEMMA SaidStays ==
    ASSUME ObInv, NEW r \in Runs, NEW y \in RunStates, run' = [run EXCEPT ![r] = y],
           UNCHANGED announced, Said(y) <=> Said(run[r])
    PROVE  SaidOnce'
<1>1. run'[r] = y /\ \A q \in Runs : q # r => run'[q] = run[q]
  BY DEF ObInv, ObservablesTyped
<1>2. \A q \in Runs : Said(run'[q]) <=> Said(run[q])
  BY <1>1
<1> QED BY <1>2 DEF ObInv, SaidOnce

(* What the run that has the slot announces comes last.                    *)
LEMMA SaysNow ==
    ASSUME ObInv, NEW r \in Runs, NEW y \in RunStates, run' = [run EXCEPT ![r] = y],
           NEW kind \in Outcomes, announced' = Append(announced, <<kind, r>>),
           slot = r, Said(y), ~Said(run[r])
    PROVE  SaidOnce' /\ announced' \in Seq(Outcomes \X Runs)
<1>1. run'[r] = y /\ \A q \in Runs : q # r => run'[q] = run[q]
  BY DEF ObInv, ObservablesTyped
<1>2. announced \in Seq(Outcomes \X Runs) /\ Runs \subseteq Nat
  BY ObservableBounds DEF ObInv, ObservablesTyped, Runs
<1>3. <<kind, r>> \in Outcomes \X Runs
  OBVIOUS
<1>4. announced' \in Seq(Outcomes \X Runs)
  BY <1>2, <1>3, AppendProperties
<1>5. PICK e \in Outcomes \X Runs : e = <<kind, r>> /\ e[2] = r
  BY <1>3
<1>6. PICK n \in Nat : n = Len(announced)
  BY <1>2
<1>7. /\ announced' = Append(announced, e)
      /\ DOMAIN announced = 1 .. n /\ DOMAIN announced' = 1 .. n + 1
      /\ announced'[n + 1] = e
      /\ \A i \in 1 .. n : announced'[i] = announced[i]
  BY <1>2, <1>5, <1>6, AppendProperties
<1>8. \A i \in 1 .. n : announced[i] \in Outcomes \X Runs /\ announced[i][2] \in Runs
  BY <1>2, <1>7
<1>9. \A i \in 1 .. n : announced[i][2] < r
  <2> SUFFICES ASSUME NEW i \in 1 .. n PROVE announced[i][2] < r
    OBVIOUS
  <2>1. PICK q \in Runs : q = announced[i][2]
    BY <1>8
  <2>2. Said(run[q]) /\ RunShape(run[q])
    BY <1>7, <2>1 DEF ObInv, SaidOnce
  <2>3. run[q].step # "none"
    BY <2>2 DEF RunShape, NoRun, Said
  <2>4. ~(r < q)
    BY <2>3 DEF ObInv, SlotKept
  <2>5. q # r
    BY <2>2
  <2> QED BY <1>2, <2>1, <2>4, <2>5
<1>10. ASSUME NEW q \in Runs
       PROVE  Said(run'[q]) <=> \E i \in DOMAIN announced' : announced'[i][2] = q
  <2>1. (\E i \in DOMAIN announced' : announced'[i][2] = q)
          <=> (\E i \in DOMAIN announced : announced[i][2] = q) \/ q = r
    BY <1>5, <1>6, <1>7
  <2>2. Said(run'[q]) <=> Said(run[q]) \/ q = r
    BY <1>1
  <2> QED BY <2>1, <2>2 DEF ObInv, SaidOnce
<1>11. ASSUME NEW i \in DOMAIN announced', NEW j \in DOMAIN announced', i < j
       PROVE  announced'[i][2] < announced'[j][2]
  <2>1. i \in 1 .. n /\ j \in 1 .. n + 1
    BY <1>6, <1>7, <1>11
  <2>2. CASE j \in 1 .. n
    BY <1>7, <1>11, <2>1, <2>2 DEF ObInv, SaidOnce
  <2>3. CASE j = n + 1
    BY <1>5, <1>7, <1>9, <2>1, <2>3
  <2> QED BY <2>1, <2>2, <2>3, <1>6
<1> QED BY <1>4, <1>10, <1>11 DEF SaidOnce

(* The claim and the outcome of a run stay as they are.                    *)
LEMMA OwnedStays ==
    ASSUME ObInv, NEW r \in Runs, NEW y \in RunStates, run' = [run EXCEPT ![r] = y],
           UNCHANGED <<current, stopping, closing>>, y.claim = run[r].claim,
           y.pending = run[r].pending, RunEnded(y) => RunEnded(run[r]), run[r].step # "none" => y.step # "none"
    PROVE  Owned'
<1>1. run'[r] = y /\ \A q \in Runs : q # r => run'[q] = run[q]
  BY DEF ObInv, ObservablesTyped
<1>2. \A q \in Runs : /\ run'[q].claim = run[q].claim /\ run'[q].pending = run[q].pending
                       /\ (RunEnded(run'[q]) => RunEnded(run[q]))
                       /\ (run[q].step # "none" => run'[q].step # "none")
  BY <1>1
<1>3. ASSUME NEW q \in Runs PROVE RunOwned(q)'
  BY <1>2 DEF ObInv, Owned, RunOwned
<1>4. ASSUME NEW c \in StopCalls PROVE StopClaims(c)'
  <2>1. stopping'[c] = stopping[c] /\ StopClaims(c)
    BY DEF ObInv, Owned
  <2> QED BY <1>2, <2>1 DEF StopClaims
<1>5. CloseClaimed'
  BY <1>2 DEF ObInv, Owned, CloseClaimed
<1> QED BY <1>3, <1>4, <1>5 DEF Owned

(* The current run is ended, or its claim is given up.                     *)
LEMMA OwnedEnds ==
    ASSUME ObInv, NEW r \in Runs, NEW y \in RunStates, run' = [run EXCEPT ![r] = y],
           current = r, y.claim = "none", y.step # "none",
           current' = 0 \/ (current' = r /\ ~RunEnded(y)),
           \A d \in StopCalls : stopping'[d] = stopping[d] \/ stopping'[d].step \notin {"quiesce", "retry"},
           run[r].claim \in StopCalls => stopping'[run[r].claim].step \notin {"quiesce", "retry"},
           closing' = closing \/ closing'.step # "stop",
           run[r].claim = "close" => closing'.step # "stop"
    PROVE  Owned'
<1>1. run'[r] = y /\ \A q \in Runs : q # r => run'[q] = run[q]
  BY DEF ObInv, ObservablesTyped
<1>2. ASSUME NEW q \in Runs, q # r PROVE run[q].claim = "none"
  BY <1>2 DEF ObInv, Owned, RunOwned
<1>3. ASSUME NEW q \in Runs PROVE RunOwned(q)'
  <2>1. 0 \notin Runs
    BY DEF Runs
  <2>2. run'[q].claim = "none" /\ (current' = q => q = r)
    BY <1>1, <1>2, <2>1
  <2> QED BY <1>1, <2>1, <2>2, StopNames DEF RunOwned
<1>4. ASSUME NEW c \in StopCalls PROVE StopClaims(c)'
  <2> SUFFICES ASSUME stopping'[c].step \in {"quiesce", "retry"} PROVE FALSE
    BY DEF StopClaims
  <2>1. stopping'[c] = stopping[c] /\ StopClaims(c) /\ c # "none"
    BY StopNames DEF ObInv, Owned
  <2>2. run[stopping[c].run].claim = c /\ stopping[c].run \in Runs
    BY <2>1 DEF StopClaims
  <2>3. run[r].claim = c
    BY <1>2, <2>1, <2>2
  <2> QED BY <2>3
<1>5. CloseClaimed'
  <2> SUFFICES ASSUME closing'.step = "stop" PROVE FALSE
    BY DEF CloseClaimed
  <2>1. closing.run \in Runs /\ run[closing.run].claim = "close"
    BY DEF ObInv, Owned, CloseClaimed
  <2> QED BY <1>2, <2>1
<1> QED BY <1>3, <1>4, <1>5 DEF Owned

(* A run goes on; its end stays recorded or unrecorded.                    *)
LEMMA RunGoesOn ==
    ASSUME ObInv, NEW r \in Runs, NEW y \in RunStates, run' = [run EXCEPT ![r] = y], RunShape(y),
           UNCHANGED <<current, slot, deleting, stopping, closing, announced>>,
           defined' \in BOOLEAN, failures' \in Nat, refused' = {},
           closing.step = "closed" => inflight' = {},
           run[r].step # "none", y.step # "none", run[r].completed => y.completed,
           y.claim = run[r].claim, y.pending = run[r].pending, RunEnded(y) => RunEnded(run[r]),
           y.final = "done" <=> run[r].final = "done",
           Said(y) <=> Said(run[r])
    PROVE  ObInv'
<1>1. run'[r] = y /\ run' \in [Runs -> RunStates] /\ \A q \in Runs : q # r => run'[q] = run[q]
  BY DEF ObInv, ObservablesTyped
<1>2. ObservablesTyped'
  BY <1>1 DEF ObInv, ObservablesTyped
<1>3. \A q \in Runs : RunShape(run'[q])
  BY <1>1 DEF ObInv
<1>4. \A c \in StopCalls : StopDeletes(c)'
  BY DEF ObInv, StopDeletes
<1>5. CloseQuiet'
  BY <1>1 DEF ObInv, CloseQuiet
<1>6. SlotKept' /\ SaidOnce' /\ Owned'
  BY SlotStays, SaidStays, OwnedStays
<1> QED BY <1>2, <1>3, <1>4, <1>5, <1>6 DEF ObInv

(* The goroutine of a run goes on, without ending the run.                 *)
Resting == {"none", "emitError", "over"}

SameEnd(x, y) ==
    /\ y.claim = x.claim /\ y.pending = x.pending /\ y.durable = x.durable /\ y.shutdown = x.shutdown
    /\ y.completed = x.completed /\ y.reported = x.reported /\ y.event = x.event /\ y.final = x.final
    /\ y.records = x.records

SameWay(x, y) ==
    /\ x.step # "none" /\ (y.step = x.step \/ (x.step \notin Resting /\ y.step \notin Resting))
    /\ y.child => Live(y)
    /\ y.step = "finish" => y.ended # "none"

LEMMA RunWorks ==
    ASSUME ObInv, NEW r \in Runs, NEW y \in RunStates, run' = [run EXCEPT ![r] = y],
           UNCHANGED <<current, slot, deleting, stopping, closing, announced>>,
           defined' \in BOOLEAN, failures' \in Nat, refused' = {},
           closing.step = "closed" => inflight' = {},
           SameEnd(run[r], y), SameWay(run[r], y)
    PROVE  ObInv'
<1>1. RunShape(run[r])
  BY DEF ObInv
<1>2. RunShape(y)
  BY <1>1 DEF RunShape, Live, RunEnded, Told, Resting, SameEnd, SameWay
<1>3. (Said(y) <=> Said(run[r])) /\ (RunEnded(y) <=> RunEnded(run[r])) /\ y.step # "none"
  BY DEF Said, Told, RunEnded, Resting, SameEnd, SameWay
<1> QED BY <1>2, <1>3, RunGoesOn DEF SameEnd, SameWay

LEMMA RunIs ==
    ASSUME ObInv, NEW r \in Runs
    PROVE  run[r] \in RunStates /\ RunShape(run[r]) /\ failures \in Nat /\ defined \in BOOLEAN
           /\ refused = {} /\ (closing.step = "closed" => inflight = {})
BY DEF ObInv, ObservablesTyped, CloseQuiet

(* Start, up to the wait for the child.                                    *)
LEMMA StartingKeeps ==
    ASSUME ObInv, NEW r \in Runs,
           RecordStarting(r) \/ Launch(r) \/ Activate(r) \/ PublishStarted(r) \/ AwaitStarted(r) \/ ChildExits(r)
    PROVE  ObInv'
<1> DEFINE x == run[r]
<1>0. x \in RunStates /\ RunShape(x) /\ failures \in Nat /\ defined \in BOOLEAN
      /\ refused = {} /\ (closing.step = "closed" => inflight = {})
  BY RunIs
<1>a. PICK yes \in {TRUE}, no \in {FALSE}, err \in {"errored"} : TRUE
  OBVIOUS
<1>b. Outcomes = {"none", "errored", "exited", "stopped"}
  BY DEF Outcomes
<1>c. UNCHANGED <<current, slot, defined, deleting, stopping, closing, inflight, refused, announced>>
      /\ failures' \in Nat
  BY <1>0 DEF RecordStarting, Launch, Activate, PublishStarted, AwaitStarted, ChildExits, OnlyRun, Writes,
              WriteFails, Succeeds, FailsOnce
<1>d. PICK activate \in {"activate"}, finish \in {"finish"}, await \in {"await"}, drain \in {"drain"},
           wait \in {"wait"}, launch \in {"launch"} : TRUE
  OBVIOUS
<1>e. {activate, finish, await, drain, wait, launch} \subseteq RunSteps
  BY <1>d DEF RunSteps
<1>f. ASSUME NEW y \in RunStates, run' = [run EXCEPT ![r] = y], SameEnd(x, y), SameWay(x, y) PROVE ObInv'
  BY <1>0, <1>c, <1>f, RunWorks
<1>1. CASE RecordStarting(r)
  <2>0. x.step = "record" /\ ~x.child
    BY <1>0, <1>1 DEF RecordStarting, RunShape, Live
  <2>1. CASE run' = [run EXCEPT ![r].step = "launch"]
    <3>1. PICK y \in RunStates : y = [x EXCEPT !.step = launch]
      BY <1>0, <1>e DEF RunStates
    <3>2. SameEnd(x, y) /\ y.step = launch /\ y.child = x.child
      BY <1>0, <3>1 DEF RunStates, SameEnd
    <3>3. run' = [run EXCEPT ![r] = y]
      BY <1>d, <2>1, <3>1
    <3> QED BY <1>d, <1>f, <2>0, <3>2, <3>3 DEF SameWay, Resting
  <2>2. CASE run' = [run EXCEPT ![r] = Failed(@)]
    <3>1. PICK y \in RunStates : y = [x EXCEPT !.step = finish, !.ended = err, !.quiesced = yes]
      BY <1>0, <1>a, <1>b, <1>e DEF RunStates
    <3>2. SameEnd(x, y) /\ y.step = finish /\ y.child = x.child /\ y.ended = err
      BY <1>0, <3>1 DEF RunStates, SameEnd
    <3>3. run' = [run EXCEPT ![r] = y]
      BY <1>a, <1>d, <2>2, <3>1 DEF Failed
    <3> QED BY <1>a, <1>d, <1>f, <2>0, <3>2, <3>3 DEF SameWay, Resting
  <2> QED BY <1>1, <2>1, <2>2 DEF RecordStarting
<1>2. CASE Launch(r)
  <2>0. x.step = "launch" /\ ~x.child
    BY <1>0, <1>2 DEF Launch, RunShape, Live
  <2>1. CASE run' = [run EXCEPT ![r].step = "activate", ![r].child = TRUE]
    <3>1. PICK y \in RunStates : y = [x EXCEPT !.step = activate, !.child = yes]
      BY <1>0, <1>a, <1>e DEF RunStates
    <3>2. SameEnd(x, y) /\ y.step = activate
      BY <1>0, <3>1 DEF RunStates, SameEnd
    <3>3. run' = [run EXCEPT ![r] = y]
      BY <1>a, <1>d, <2>1, <3>1
    <3> QED BY <1>d, <1>f, <2>0, <3>2, <3>3 DEF SameWay, Resting, Live
  <2>2. CASE run' = [run EXCEPT ![r] = [Failed(@) EXCEPT !.cancelled = TRUE]]
    <3>1. PICK y \in RunStates : y = [x EXCEPT !.step = finish, !.ended = err, !.quiesced = yes, !.cancelled = yes]
      BY ZenonT(40), <1>0, <1>a, <1>b, <1>e DEF RunStates
    <3>2. SameEnd(x, y) /\ y.step = finish /\ y.child = x.child /\ y.ended = err
      BY <1>0, <3>1 DEF RunStates, SameEnd
    <3>3. run' = [run EXCEPT ![r] = y]
      BY <1>a, <1>d, <2>2, <3>1 DEF Failed
    <3> QED BY <1>a, <1>d, <1>f, <2>0, <3>2, <3>3 DEF SameWay, Resting
  <2> QED BY <1>2, <2>1, <2>2 DEF Launch
<1>3. CASE Activate(r)
  <2>0. x.step = "activate"
    BY <1>3 DEF Activate
  <2>1. CASE run' = [run EXCEPT ![r].step = "await", ![r].activated = TRUE]
    <3>1. PICK y \in RunStates : y = [x EXCEPT !.step = await, !.activated = yes]
      BY <1>0, <1>a, <1>e DEF RunStates
    <3>2. SameEnd(x, y) /\ y.step = await
      BY <1>0, <3>1 DEF RunStates, SameEnd
    <3>3. run' = [run EXCEPT ![r] = y]
      BY <1>a, <1>d, <2>1, <3>1
    <3> QED BY <1>d, <1>f, <2>0, <3>2, <3>3 DEF SameWay, Resting, Live
  <2>2. CASE run' = [run EXCEPT ![r].step = "drain", ![r].cancelled = TRUE]
    <3>1. PICK y \in RunStates : y = [x EXCEPT !.step = drain, !.cancelled = yes]
      BY <1>0, <1>a, <1>e DEF RunStates
    <3>2. SameEnd(x, y) /\ y.step = drain
      BY <1>0, <3>1 DEF RunStates, SameEnd
    <3>3. run' = [run EXCEPT ![r] = y]
      BY <1>a, <1>d, <2>2, <3>1
    <3> QED BY <1>d, <1>f, <2>0, <3>2, <3>3 DEF SameWay, Resting, Live
  <2> QED BY <1>3, <2>1, <2>2 DEF Activate
<1>4. CASE PublishStarted(r)
  <2>0. x.step # "none"
    BY <1>0, <1>4 DEF PublishStarted, RunShape, NoRun
  <2>1. PICK y \in RunStates : y = [x EXCEPT !.published = yes]
    BY <1>0, <1>a DEF RunStates
  <2>2. SameEnd(x, y) /\ y.step = x.step /\ y.child = x.child /\ y.ended = x.ended
    BY <1>0, <2>1 DEF RunStates, SameEnd
  <2>3. run' = [run EXCEPT ![r] = y]
    BY <1>a, <1>4, <2>1 DEF PublishStarted
  <2> QED BY <1>0, <1>f, <2>0, <2>2, <2>3 DEF SameWay, RunShape, Live
<1>5. CASE AwaitStarted(r)
  <2>0. x.step = "await"
    BY <1>5 DEF AwaitStarted
  <2>1. PICK y \in RunStates : y = [x EXCEPT !.step = wait]
    BY <1>0, <1>e DEF RunStates
  <2>2. SameEnd(x, y) /\ y.step = wait
    BY <1>0, <2>1 DEF RunStates, SameEnd
  <2>3. run' = [run EXCEPT ![r] = y]
    BY <1>d, <1>5, <2>1 DEF AwaitStarted
  <2> QED BY <1>d, <1>f, <2>0, <2>2, <2>3 DEF SameWay, Resting, Live
<1>6. CASE ChildExits(r)
  <2>0. Live(x)
    BY <1>0, <1>6 DEF ChildExits, RunShape
  <2>1. PICK y \in RunStates : y = [x EXCEPT !.child = no]
    BY <1>0, <1>a DEF RunStates
  <2>2. SameEnd(x, y) /\ y.step = x.step /\ ~y.child
    BY <1>0, <1>a, <2>1 DEF RunStates, SameEnd
  <2>3. run' = [run EXCEPT ![r] = y]
    BY <1>a, <1>6, <2>1 DEF ChildExits
  <2> QED BY <1>f, <2>0, <2>2, <2>3 DEF SameWay, Live
<1> QED BY <1>1, <1>2, <1>3, <1>4, <1>5, <1>6

(* While a goroutine of a run is not over, its observations are taken.     *)
LEMMA Taken ==
    ASSUME ObInv, NEW r \in Runs, run[r].step \notin Resting, NEW o, Submit(o)
    PROVE  refused' = {} /\ closing.step # "closed"
<1>1. RunShape(run[r]) /\ CloseQuiet
  BY DEF ObInv
<1>2. run[r].step # "none" /\ ~run[r].completed
  BY <1>1 DEF RunShape, Resting
<1>3. closing.step \notin {"draining", "closed"}
  BY <1>1, <1>2 DEF CloseQuiet
<1> QED BY <1>1, <1>3 DEF CloseQuiet, Submit

(* Output is read, recorded and submitted.                                 *)
LEMMA OutputGoesOn ==
    ASSUME ObInv, NEW r \in Runs,
           ReadOutput(r) \/ FlushBatch(r) \/ ParseError(r) \/ FinalFlush(r) \/ NotifyOnExit(r)
    PROVE  ObInv'
<1> DEFINE x == run[r]
<1>0. x \in RunStates /\ RunShape(x) /\ failures \in Nat /\ defined \in BOOLEAN
      /\ refused = {} /\ (closing.step = "closed" => inflight = {})
  BY RunIs
<1>a. PICK yes \in {TRUE}, no \in {FALSE}, err \in {"errored"} : TRUE
  OBVIOUS
<1>b. Outcomes = {"none", "errored", "exited", "stopped"}
  BY DEF Outcomes
<1>c. UNCHANGED <<current, slot, defined, deleting, stopping, closing, announced>>
      /\ failures' \in Nat
  <2>1. failures' = failures \/ failures' = failures + 1
    BY DEF ReadOutput, FlushBatch, ParseError, FinalFlush, NotifyOnExit, Writes, WriteFails, Succeeds, FailsOnce
  <2>2. UNCHANGED <<current, slot, defined, deleting, stopping, closing, announced>>
    BY DEF ReadOutput, FlushBatch, ParseError, FinalFlush, NotifyOnExit, OnlyOutput
  <2> QED BY <1>0, <2>1, <2>2
<1>d. PICK finish \in {"finish"}, complete \in {"complete"} : TRUE
  OBVIOUS
<1>e. {finish, complete} \subseteq RunSteps
  BY <1>d DEF RunSteps
<1>g. x.step \notin Resting
  <2>1. x.child => Live(x)
    BY <1>0 DEF RunShape
  <2> QED BY <2>1 DEF ReadOutput, FlushBatch, ParseError, FinalFlush, NotifyOnExit, Live, Resting
<1>f. ASSUME NEW y \in RunStates, run' = [run EXCEPT ![r] = y], SameEnd(x, y), SameWay(x, y),
             SubmitsNothing \/ \E o : Submit(o)
      PROVE  ObInv'
  <2>1. refused' = {} /\ (closing.step = "closed" => inflight' = {})
    BY <1>0, <1>f, <1>g, Taken DEF SubmitsNothing
  <2> QED BY <1>0, <1>c, <1>f, <2>1, RunWorks
<1>h. x.outputs + 0 = x.outputs /\ x.outputs \in Nat
  BY <1>0 DEF RunStates
<1>i. ASSUME NEW b \in BOOLEAN, NEW t \in BOOLEAN, NEW n \in Nat,
             run' = [run EXCEPT ![r].batch = b, ![r].tail = t, ![r].outputs = n],
             SubmitsNothing \/ \E o : Submit(o)
      PROVE  ObInv'
  <2>1. PICK y \in RunStates : y = [x EXCEPT !.batch = b, !.tail = t, !.outputs = n]
    BY ZenonT(40), <1>0 DEF RunStates
  <2>2. SameEnd(x, y) /\ y.step = x.step /\ y.child = x.child /\ y.ended = x.ended
    BY <1>0, <2>1 DEF RunStates, SameEnd
  <2>3. run' = [run EXCEPT ![r] = y]
    BY <1>i, <2>1
  <2>4. SameWay(x, y)
    BY <1>0, <1>g, <2>2 DEF SameWay, RunShape, Live, Resting
  <2> QED BY <1>f, <1>i, <2>2, <2>3, <2>4
<1>1. CASE ReadOutput(r)
  <2>0. x.tail \in BOOLEAN /\ x.batch \in BOOLEAN
    BY <1>0 DEF RunStates
  <2>1. PICK b \in BOOLEAN, t \in BOOLEAN :
           run' = [run EXCEPT ![r].batch = b, ![r].tail = t, ![r].outputs = x.outputs]
    <3>1. CASE run' = [run EXCEPT ![r].batch = TRUE]
      <4>1. [run EXCEPT ![r].batch = TRUE] = [run EXCEPT ![r].batch = TRUE, ![r].tail = x.tail, ![r].outputs = x.outputs]
        BY <1>0 DEF RunStates
      <4> QED BY <2>0, <3>1, <4>1
    <3>2. CASE run' = [run EXCEPT ![r].tail = TRUE]
      <4>1. [run EXCEPT ![r].tail = TRUE] = [run EXCEPT ![r].batch = x.batch, ![r].tail = TRUE, ![r].outputs = x.outputs]
        BY <1>0 DEF RunStates
      <4> QED BY <2>0, <3>2, <4>1
    <3> QED BY <1>1, <3>1, <3>2 DEF ReadOutput
  <2> QED BY <1>1, <1>h, <1>i, <2>1 DEF ReadOutput
<1>2. CASE FlushBatch(r) \/ ParseError(r)
  <2>1. CASE UNCHANGED run /\ SubmitsNothing
    <3>1. run' = [run EXCEPT ![r] = x]
      BY <2>1 DEF ObInv, ObservablesTyped
    <3> QED BY <1>0, <1>f, <1>g, <2>1, <3>1 DEF SameEnd, SameWay, RunShape, Resting, Live
  <2>2. ASSUME NEW k \in {1, 2}, run' = [run EXCEPT ![r].batch = FALSE, ![r].outputs = @ + k],
               \E o : Submit(o)
        PROVE  ObInv'
    <3>1. PICK n \in Nat : n = x.outputs + k
      BY <1>h
    <3>2. PICK y \in RunStates : y = [x EXCEPT !.batch = no, !.outputs = n]
      BY <1>0, <1>a DEF RunStates
    <3>3. SameEnd(x, y) /\ y.step = x.step /\ y.child = x.child /\ y.ended = x.ended
      BY <1>0, <3>2 DEF RunStates, SameEnd
    <3>4. run' = [run EXCEPT ![r] = y]
      BY <1>a, <2>2, <3>1, <3>2
    <3>5. SameWay(x, y)
      BY <1>0, <1>g, <3>3 DEF SameWay, RunShape, Live, Resting
    <3> QED BY <1>f, <2>2, <3>3, <3>4, <3>5
  <2>3. ASSUME FlushBatch(r) PROVE ObInv'
    BY <2>1, <2>2, <2>3 DEF FlushBatch
  <2>4. ASSUME ParseError(r) PROVE ObInv'
    BY <2>2, <2>4 DEF ParseError
  <2> QED BY <1>2, <2>3, <2>4
<1>3. CASE FinalFlush(r)
  <2>0. x.step \in {"wait", "drain"} /\ ~x.child
    BY <1>3 DEF FinalFlush
  <2>a. PICK e \in Outcomes : e = (IF x.step = "wait" THEN "exited" ELSE "errored") /\ e # "none"
    BY <1>b
  <2>1. ASSUME NEW n \in Nat, SubmitsNothing \/ \E o : Submit(o),
               run' = [run EXCEPT ![r] = [x EXCEPT !.batch = no, !.tail = no, !.quiesced = yes, !.step = finish,
                                                   !.ended = e, !.outputs = n]]
        PROVE  ObInv'
    <3>1. PICK y \in RunStates : y = [x EXCEPT !.batch = no, !.tail = no, !.quiesced = yes, !.step = finish,
                                                !.ended = e, !.outputs = n]
      BY <1>0, <1>a, <1>e DEF RunStates
    <3>2. SameEnd(x, y) /\ y.step = finish /\ y.child = x.child /\ y.ended = e
      BY <1>0, <3>1 DEF RunStates, SameEnd
    <3>3. run' = [run EXCEPT ![r] = y]
      BY <2>1, <3>1
    <3> QED BY <1>d, <1>f, <2>0, <2>1, <2>a, <3>2, <3>3 DEF SameWay, Resting
  <2>2. ASSUME NEW k \in {1, 2}, \E o : Submit(o),
               run' = [run EXCEPT ![r] =
                  [[x EXCEPT !.batch = FALSE, !.tail = FALSE, !.quiesced = TRUE, !.step = "finish",
                             !.ended = IF x.step = "wait" THEN "exited" ELSE "errored"]
                     EXCEPT !.outputs = @ + k]]
        PROVE  ObInv'
    <3>1. PICK n \in Nat : n = x.outputs + k
      BY <1>h
    <3>2. [[x EXCEPT !.batch = no, !.tail = no, !.quiesced = yes, !.step = finish, !.ended = e]
              EXCEPT !.outputs = @ + k]
          = [x EXCEPT !.batch = no, !.tail = no, !.quiesced = yes, !.step = finish, !.ended = e, !.outputs = n]
      BY <1>0, <3>1 DEF RunStates
    <3> QED BY <1>a, <1>d, <2>1, <2>2, <2>a, <3>1, <3>2
  <2>3. ASSUME SubmitsNothing,
               run' = [run EXCEPT ![r] =
                  [x EXCEPT !.batch = FALSE, !.tail = FALSE, !.quiesced = TRUE, !.step = "finish",
                            !.ended = IF x.step = "wait" THEN "exited" ELSE "errored"]]
        PROVE  ObInv'
    <3>1. PICK n \in Nat : n = x.outputs
      BY <1>h
    <3>2. [x EXCEPT !.batch = no, !.tail = no, !.quiesced = yes, !.step = finish, !.ended = e]
          = [x EXCEPT !.batch = no, !.tail = no, !.quiesced = yes, !.step = finish, !.ended = e, !.outputs = n]
      BY <1>0, <3>1 DEF RunStates
    <3> QED BY ZenonT(40), <1>a, <1>d, <2>1, <2>3, <2>a, <3>1, <3>2
  <2> QED BY <1>3, <2>2, <2>3 DEF FinalFlush
<1>4. CASE NotifyOnExit(r)
  <2>1. PICK y \in RunStates : y = [x EXCEPT !.step = complete]
    BY <1>0, <1>e DEF RunStates
  <2>2. SameEnd(x, y) /\ y.step = complete /\ y.child = x.child
    BY <1>0, <2>1 DEF RunStates, SameEnd
  <2>3. run' = [run EXCEPT ![r] = y] /\ (SubmitsNothing \/ \E o : Submit(o)) /\ x.step = "notify"
    BY <1>d, <1>4, <2>1 DEF NotifyOnExit
  <2>4. ~x.child
    BY <1>0, <2>3 DEF RunShape, Live
  <2> QED BY <1>d, <1>f, <2>2, <2>3, <2>4 DEF SameWay, Resting
<1> QED BY <1>1, <1>2, <1>3, <1>4

(* The end of the current run is recorded, or cannot be.                   *)
LEMMA CommitFacts ==
    ASSUME ObInv, NEW r \in Runs, NEW x \in RunStates, NEW outcome \in Outcomes, NEW emit \in BOOLEAN,
           current = r, CommitTerminal(r, x, outcome, emit), UNCHANGED slot,
           SameEnd(run[r], x), SameWay(run[r], x), outcome # "none", emit <=> x.pending = "none"
    PROVE  /\ \E y \in RunStates :
                /\ run' = [run EXCEPT ![r] = y] /\ RunShape(y) /\ y.claim = "none" /\ y.step # "none"
                /\ y.completed = run[r].completed
                /\ current' = 0 \/ (current' = r /\ ~RunEnded(y))
           /\ SlotKept' /\ SaidOnce' /\ announced' \in Seq(Outcomes \X Runs) /\ failures' \in Nat
           /\ current' = 0 \/ failures' # failures
           /\ current' \in {0, current}
<1>0. /\ run[r] \in RunStates /\ RunShape(run[r]) /\ failures \in Nat /\ ~RunEnded(run[r])
      /\ announced \in Seq(Outcomes \X Runs) /\ run[r].step # "none"
  BY RunIs DEF ObInv, ObservablesTyped, Owned, RunOwned
<1>1. RunShape(x) /\ ~RunEnded(x) /\ (Said(x) <=> Said(run[r])) /\ x.step # "none"
  BY <1>0 DEF SameEnd, SameWay, RunShape, Live, RunEnded, Told, Resting, Said
<1>2. slot = r
  <2>1. run[r].final # "done"
    BY <1>0 DEF RunShape
  <2> QED BY <1>0, <2>1 DEF ObInv, SlotKept
<1>3. PICK yes \in {TRUE}, none \in {"none"}, due \in {"due"}, nobody \in {"none"} : TRUE
  OBVIOUS
<1>4. none \in Outcomes /\ nobody \in Owners
  BY <1>3 DEF Outcomes, Owners
<1>5. CASE Writes /\ run' = [run EXCEPT ![r] = Committed(x, outcome, emit)] /\ current' = 0 /\ UNCHANGED announced
  <2>1. PICK n \in Nat : n = x.records + 1
    BY DEF RunStates
  <2>2. PICK e \in Outcomes : e = IF emit THEN outcome ELSE x.event
    BY DEF RunStates
  <2>3. PICK f \in {"none", "due", "emitted", "done"} : f = IF x.completed THEN due ELSE x.final
    BY <1>3 DEF RunStates
  <2>4. PICK y \in RunStates :
           y = [x EXCEPT !.durable = yes, !.pending = none, !.claim = nobody, !.records = n, !.event = e, !.final = f]
    BY <1>3, <1>4 DEF RunStates
  <2>5. /\ y.durable = yes /\ y.pending = none /\ y.claim = nobody /\ y.records = n /\ y.event = e
        /\ y.final = f /\ y.step = x.step /\ y.child = x.child /\ y.ended = x.ended
        /\ y.completed = x.completed /\ y.reported = x.reported /\ y.shutdown = x.shutdown
    BY <2>4 DEF RunStates
  <2>6. run' = [run EXCEPT ![r] = y]
    BY <1>3, <1>5, <2>1, <2>2, <2>3, <2>4 DEF Committed
  <2>7. x.records = 0 /\ x.final = "none" /\ x.event = "none" /\ (emit <=> ~x.reported)
    BY <1>1 DEF RunShape, RunEnded
  <2>8. /\ y.durable /\ y.pending = "none" /\ y.claim = "none" /\ y.records = 1 /\ ~y.shutdown
        /\ y.event # "none" <=> ~x.reported
        /\ y.final = IF x.completed THEN "due" ELSE "none"
    BY <1>1, <1>3, <2>1, <2>2, <2>3, <2>5, <2>7 DEF RunEnded
  <2>9. RunShape(y)
    BY <1>1, <2>5, <2>8 DEF RunShape, Live, RunEnded, Told
  <2>10. Said(y) <=> Said(run[r])
    BY <1>1, <2>5, <2>8 DEF Said, Told, RunEnded
  <2>11. SaidOnce'
    BY <1>5, <2>6, <2>10, SaidStays
  <2>12. y.final # "done" /\ run[r].final # "done"
    BY <1>0, <2>8 DEF RunShape
  <2>13. SlotKept'
    BY <1>0, <1>1, <2>5, <2>6, <2>12, SlotStays
  <2>14. failures' \in Nat
    BY <1>0, <1>5 DEF Writes, Succeeds
  <2> QED BY <1>0, <1>1, <1>5, <2>5, <2>6, <2>8, <2>9, <2>11, <2>13, <2>14 DEF SameEnd
<1>6. CASE /\ WriteFails /\ run' = [run EXCEPT ![r] = NotCommitted(x, outcome)]
           /\ IF x.completed /\ ~x.reported THEN Announce("errored", r) ELSE UNCHANGED announced
           /\ UNCHANGED current
  <2>1. PICK p \in Outcomes : p = IF x.pending = "none" THEN outcome ELSE x.pending
    BY DEF RunStates
  <2>2. PICK y \in RunStates : y = [x EXCEPT !.pending = p, !.claim = nobody, !.reported = yes]
    BY <1>3, <1>4 DEF RunStates
  <2>3. /\ y.pending = p /\ y.claim = "none" /\ y.reported /\ y.step = x.step /\ y.child = x.child
        /\ y.ended = x.ended /\ y.completed = x.completed /\ y.shutdown = x.shutdown
        /\ y.durable = x.durable /\ y.records = x.records /\ y.event = x.event /\ y.final = x.final
    BY <1>3, <2>2 DEF RunStates
  <2>4. run' = [run EXCEPT ![r] = y]
    BY <1>3, <1>6, <2>1, <2>2 DEF NotCommitted
  <2>5. p # "none"
    BY <2>1
  <2>6. RunShape(y) /\ ~RunEnded(y)
    BY <1>1, <2>3, <2>5 DEF RunShape, Live, RunEnded, Told
  <2>7. SaidOnce' /\ announced' \in Seq(Outcomes \X Runs)
    <3>1. CASE x.completed /\ ~x.reported
      <4>1. Said(y) /\ ~Said(run[r])
        BY <1>1, <2>3, <3>1 DEF Said, RunShape, RunEnded
      <4>2. announced' = Append(announced, <<"errored", r>>) /\ "errored" \in Outcomes
        BY <1>6, <3>1 DEF Announce, Outcomes
      <4> QED BY <1>2, <2>4, <4>1, <4>2, SaysNow
    <3>2. CASE ~(x.completed /\ ~x.reported)
      <4>1. Said(y) <=> Said(run[r])
        BY <1>1, <2>3, <3>2 DEF Said, RunShape, RunEnded
      <4> QED BY <1>0, <1>6, <2>4, <3>2, <4>1, SaidStays
    <3> QED BY <3>1, <3>2
  <2>8. y.final # "done" /\ run[r].final # "done"
    BY <1>0, <1>1, <2>3 DEF RunShape
  <2>9. SlotKept'
    BY <1>0, <1>1, <2>3, <2>4, <2>8, SlotStays
  <2>10. failures' \in Nat /\ failures' # failures
    BY <1>0, <1>6 DEF WriteFails, FailsOnce
  <2> QED BY <1>1, <1>6, <2>3, <2>4, <2>6, <2>7, <2>9, <2>10 DEF SameEnd
<1> QED BY <1>5, <1>6 DEF CommitTerminal

(* A run changes that already has all its parts: what remains is typed.    *)
LEMMA RunTypes ==
    ASSUME ObInv, NEW r \in Runs, NEW y \in RunStates, run' = [run EXCEPT ![r] = y], RunShape(y),
           UNCHANGED <<defined, deleting, stopping, closing, inflight, refused>>,
           current' \in {0, current}, slot' \in {0, slot},
           announced' \in Seq(Outcomes \X Runs), failures' \in Nat,
           y.completed \/ ~run[r].completed, run[r].step # "none",
           Owned', SlotKept', SaidOnce'
    PROVE  ObInv'
<1>1. run'[r] = y /\ run' \in [Runs -> RunStates] /\ \A q \in Runs : q # r => run'[q] = run[q]
  BY DEF ObInv, ObservablesTyped
<1>2. ObservablesTyped'
  BY <1>1 DEF ObInv, ObservablesTyped
<1>3. \A q \in Runs : RunShape(run'[q])
  BY <1>1 DEF ObInv
<1>4. \A c \in StopCalls : StopDeletes(c)'
  BY DEF ObInv, StopDeletes
<1>5. CloseQuiet'
  BY <1>1 DEF ObInv, CloseQuiet
<1> QED BY <1>2, <1>3, <1>4, <1>5 DEF ObInv

(* Start: the first run that has not begun takes the slot.                 *)
LEMMA StartKeeps ==
    ASSUME ObInv, NEW r \in Runs, Start(r)
    PROVE  ObInv'
<1>0. /\ closing.step = "open" /\ current = 0 /\ ~deleting /\ slot = 0 /\ run[r].step = "none"
      /\ current' = r /\ slot' = r /\ failures' = failures
      /\ UNCHANGED <<defined, deleting, stopping, stops, closing, inflight, refused, announced>>
      /\ \A q \in 1..(r - 1) : run[q].step # "none"
  BY DEF Start, Startable, StartableWithoutSlot, faultVars
<1>1. run[r] = NoRun /\ 0 \notin Runs /\ Runs \subseteq Nat /\ run[r] \in RunStates
  BY <1>0, RunIs, ObservableBounds DEF RunShape, Runs
<1>2. PICK s \in RunSteps : s = "record"
  BY DEF RunSteps
<1>3. PICK y \in RunStates : y = [run[r] EXCEPT !.step = s]
  BY <1>1 DEF RunStates
<1>4. run' = [run EXCEPT ![r] = y]
  BY <1>2, <1>3 DEF Start
<1>5. /\ y.step = "record" /\ y.claim = "none" /\ y.pending = "none" /\ ~y.durable /\ ~y.shutdown /\ ~y.completed
      /\ ~y.reported /\ y.event = "none" /\ y.final = "none" /\ y.records = 0 /\ ~y.child
  BY <1>1, <1>2, <1>3 DEF NoRun
<1>6. RunShape(y) /\ ~Said(y) /\ ~Said(run[r]) /\ ~RunEnded(y)
  BY <1>1, <1>5 DEF RunShape, Said, Live, RunEnded, Told, NoRun
<1>7. run'[r] = y /\ run' \in [Runs -> RunStates] /\ \A q \in Runs : q # r => run'[q] = run[q]
  BY <1>4 DEF ObInv, ObservablesTyped
<1>8. ObservablesTyped'
  BY <1>0, <1>7 DEF ObInv, ObservablesTyped
<1>9. \A q \in Runs : RunShape(run'[q])
  BY <1>6, <1>7 DEF ObInv
<1>10. \A q \in Runs : run[q].claim = "none"
  BY <1>0, <1>1 DEF ObInv, Owned, RunOwned
<1>11. Owned'
  <2>1. ASSUME NEW q \in Runs PROVE RunOwned(q)'
    <3>1. run'[q].claim = "none" /\ (current' = q => q = r)
      BY <1>0, <1>5, <1>7, <1>10
    <3> QED BY <1>5, <1>6, <1>7, <3>1, StopNames DEF RunOwned
  <2>2. ASSUME NEW c \in StopCalls PROVE StopClaims(c)'
    <3>1. c # "none" /\ StopClaims(c) /\ stopping'[c] = stopping[c]
      BY <1>0, StopNames DEF ObInv, Owned
    <3> QED BY <1>10, <3>1 DEF StopClaims
  <2>3. CloseClaimed'
    BY <1>0 DEF CloseClaimed
  <2> QED BY <2>1, <2>2, <2>3 DEF Owned
<1>12. \A c \in StopCalls : StopDeletes(c)'
  BY <1>0 DEF ObInv, StopDeletes
<1>13. CloseQuiet'
  BY <1>0 DEF ObInv, CloseQuiet
<1>14. SlotKept'
  <2>1. \A q \in Runs : q # r => run[q].step = "none" \/ run[q].final = "done"
    BY <1>0, <1>1 DEF ObInv, SlotKept
  <2>2. \A q \in Runs : slot' = q <=> run'[q].step # "none" /\ run'[q].final # "done"
    BY <1>0, <1>5, <1>7, <2>1
  <2>3. \A q \in Runs : r < q => run[q].step = "none"
    BY <1>0, <1>1 DEF ObInv, SlotKept
  <2>4. \A p, q \in Runs : q < p /\ run'[p].step # "none" => run'[q].step # "none"
    <3> SUFFICES ASSUME NEW p \in Runs, NEW q \in Runs, q < p, run'[p].step # "none"
                 PROVE  run'[q].step # "none"
      OBVIOUS
    <3>1. CASE q = r
      BY <1>5, <1>7, <3>1
    <3>2. CASE q # r /\ p # r
      BY <1>7, <3>2 DEF ObInv, SlotKept
    <3>3. CASE q # r /\ p = r
      <4>1. q \in 1..(r - 1)
        BY <1>1, <3>3 DEF Runs
      <4> QED BY <1>0, <1>7, <3>3, <4>1
    <3> QED BY <3>1, <3>2, <3>3
  <2>5. \A p, q \in Runs : slot' = q /\ q < p => run'[p].step = "none"
    BY <1>0, <1>1, <1>7, <2>3
  <2> QED BY <2>2, <2>4, <2>5 DEF SlotKept
<1>15. SaidOnce'
  BY <1>0, <1>4, <1>6, SaidStays
<1> QED BY <1>8, <1>9, <1>11, <1>12, <1>13, <1>14, <1>15 DEF ObInv

(* The goroutine of a run ends it, unless somebody has.                    *)
LEMMA FinishKeeps ==
    ASSUME ObInv, NEW r \in Runs, FinishRun(r)
    PROVE  ObInv'
<1>0. /\ run[r] \in RunStates /\ RunShape(run[r]) /\ failures \in Nat /\ defined \in BOOLEAN
      /\ refused = {} /\ (closing.step = "closed" => inflight = {}) /\ run[r].step = "finish"
  BY RunIs DEF FinishRun
<1>1. UNCHANGED <<slot, defined, deleting, stopping, closing, inflight, refused>>
  BY DEF FinishRun
<1>2. run[r].ended # "none" /\ ~run[r].child /\ run[r].ended \in Outcomes /\ run[r].step # "none"
  BY <1>0 DEF RunShape, Live, RunStates
<1>3. ASSUME NEW s \in RunSteps, s \in {"notify", "complete"}, NEW y \in {[run[r] EXCEPT !.step = s]}
      PROVE  /\ y \in RunStates /\ SameEnd(run[r], y) /\ SameWay(run[r], y)
             /\ y.pending = run[r].pending
  <2>1. y \in RunStates
    BY <1>0 DEF RunStates
  <2>2. SameEnd(run[r], y) /\ y.step = s /\ y.child = run[r].child
    BY <1>0 DEF RunStates, SameEnd
  <2> QED BY <1>0, <1>2, <1>3, <2>1, <2>2 DEF SameWay, Resting, SameEnd
<1>4. {"notify", "complete"} \subseteq RunSteps
  BY DEF RunSteps
<1>5. CASE run' = [run EXCEPT ![r].step = "complete"] /\ UNCHANGED <<current, announced, failures>>
  <2>1. PICK s \in {"notify", "complete"} : s = "complete"
    OBVIOUS
  <2>2. PICK y \in RunStates : y = [run[r] EXCEPT !.step = s]
    BY <1>3, <1>4
  <2>3. run' = [run EXCEPT ![r] = y]
    BY <1>5, <2>1, <2>2
  <2>4. SameEnd(run[r], y) /\ SameWay(run[r], y)
    BY <1>3, <1>4, <2>2
  <2> QED BY <1>0, <1>1, <1>5, <2>3, <2>4, RunWorks
<1>6. CASE /\ current = r /\ run[r].pending = "none" /\ run[r].claim = "none"
           /\ \E s \in {"notify", "complete"} : CommitTerminal(r, [run[r] EXCEPT !.step = s], run[r].ended, TRUE)
  <2>1. PICK s \in {"notify", "complete"} : CommitTerminal(r, [run[r] EXCEPT !.step = s], run[r].ended, TRUE)
    BY <1>6
  <2>2. PICK x \in RunStates : x = [run[r] EXCEPT !.step = s]
    BY <1>3, <1>4
  <2>3. SameEnd(run[r], x) /\ SameWay(run[r], x) /\ x.pending = "none"
    BY <1>3, <1>4, <1>6, <2>2
  <2>4. PICK e \in BOOLEAN : e = TRUE
    OBVIOUS
  <2>5. CommitTerminal(r, x, run[r].ended, e) /\ (e <=> x.pending = "none")
    BY <2>1, <2>2, <2>3, <2>4
  <2>6. PICK y \in RunStates :
           /\ run' = [run EXCEPT ![r] = y] /\ RunShape(y) /\ y.claim = "none" /\ y.step # "none"
           /\ y.completed = run[r].completed
           /\ current' = 0 \/ (current' = r /\ ~RunEnded(y))
           /\ SlotKept' /\ SaidOnce' /\ announced' \in Seq(Outcomes \X Runs) /\ failures' \in Nat
           /\ current' \in {0, current}
    BY <1>1, <1>2, <1>6, <2>3, <2>5, CommitFacts
  <2>7. "none" \notin StopCalls
    BY StopNames
  <2>8. Owned'
    BY <1>1, <1>6, <2>6, <2>7, OwnedEnds
  <2> QED BY <1>1, <1>2, <2>6, <2>8, RunTypes
<1>7. ASSUME CommitTerminal(r, [run[r] EXCEPT !.step = IF @ = "finish" /\ run[r].ended = "exited"
                                     THEN "notify" ELSE "complete"], run[r].ended, TRUE)
      PROVE  \E s \in {"notify", "complete"} : CommitTerminal(r, [run[r] EXCEPT !.step = s], run[r].ended, TRUE)
  BY <1>7
<1> QED BY <1>5, <1>6, <1>7 DEF FinishRun

(* The goroutine of a run is over: its end, and what could not be          *)
(* recorded, are announced, and the slot is given back.                    *)
LEMMA AnnouncingKeeps ==
    ASSUME ObInv, NEW r \in Runs,
           CompleteWorker(r) \/ EmitError(r) \/ EmitTerminal(r) \/ FreeSlot(r)
    PROVE  ObInv'
<1>0. /\ run[r] \in RunStates /\ RunShape(run[r]) /\ failures \in Nat /\ defined \in BOOLEAN
      /\ refused = {} /\ (closing.step = "closed" => inflight = {})
      /\ announced \in Seq(Outcomes \X Runs)
  BY RunIs DEF ObInv, ObservablesTyped
<1>1. /\ UNCHANGED <<current, defined, deleting, stopping, closing, inflight, refused>>
      /\ failures' = failures
  <2>1. CASE CompleteWorker(r)
    BY <2>1 DEF CompleteWorker, OnlyRun
  <2>2. CASE EmitError(r)
    BY <2>2 DEF EmitError, faultVars
  <2>3. CASE EmitTerminal(r)
    BY <2>3 DEF EmitTerminal, faultVars
  <2>4. CASE FreeSlot(r)
    BY <2>4 DEF FreeSlot, faultVars
  <2> QED BY <2>1, <2>2, <2>3, <2>4
<1>2. PICK over \in {"over"}, error \in {"emitError"}, due \in {"due"}, emitted \in {"emitted"}, done \in {"done"},
           none \in {"none"}, yes \in {TRUE} : TRUE
  OBVIOUS
<1>3. {over, error} \subseteq RunSteps /\ none \in Outcomes
  BY <1>2 DEF RunSteps, Outcomes
<1>4. run[r].step # "none" => \A q \in Runs : slot = r <=> run[r].final # "done"
  BY DEF ObInv, SlotKept
<1>5. CASE CompleteWorker(r)
  <2>0. run[r].step = "complete" /\ ~run[r].completed /\ run[r].final = "none" /\ UNCHANGED <<slot, announced>>
    BY <1>0, <1>5 DEF CompleteWorker, RunShape, OnlyRun
  <2>1. PICK s \in RunSteps : s = IF run[r].reported THEN error ELSE over
    BY <1>3
  <2>2. PICK f \in {"none", "due", "emitted", "done"} :
           f = IF run[r].durable \/ run[r].shutdown THEN due ELSE run[r].final
    BY <1>0, <1>2 DEF RunStates
  <2>3. PICK d \in BOOLEAN : d = ~(run[r].durable \/ run[r].shutdown)
    OBVIOUS
  <2>4. PICK y \in RunStates : y = [run[r] EXCEPT !.completed = yes, !.done = d, !.step = s, !.final = f]
    BY <1>0, <1>2 DEF RunStates
  <2>5. /\ y.completed /\ y.step = s /\ y.final = f /\ y.child = run[r].child /\ y.ended = run[r].ended
        /\ y.claim = run[r].claim /\ y.pending = run[r].pending /\ y.durable = run[r].durable
        /\ y.shutdown = run[r].shutdown /\ y.reported = run[r].reported /\ y.event = run[r].event
        /\ y.records = run[r].records
    BY <1>0, <1>2, <2>4 DEF RunStates
  <2>6. run' = [run EXCEPT ![r] = y]
    BY <1>2, <1>5, <2>1, <2>2, <2>3, <2>4 DEF CompleteWorker
  <2>7. s = (IF run[r].reported THEN "emitError" ELSE "over")
        /\ f = IF run[r].durable \/ run[r].shutdown THEN "due" ELSE "none"
    BY <1>2, <2>0, <2>1, <2>2
  <2>8. RunShape(y)
    BY <1>0, <2>0, <2>5, <2>7 DEF RunShape, Live, RunEnded, Told
  <2>9. (Said(y) <=> Said(run[r])) /\ (RunEnded(y) <=> RunEnded(run[r])) /\ y.final # "done" /\ y.step # "none"
    BY <1>0, <2>0, <2>5, <2>7 DEF Said, Told, RunEnded
  <2> QED BY <1>0, <1>1, <2>0, <2>5, <2>6, <2>8, <2>9, RunGoesOn
<1>6. CASE EmitError(r)
  <2>0. /\ run[r].step = "emitError" /\ run[r].completed /\ run[r].reported /\ ~Told(run[r]) /\ UNCHANGED slot
        /\ announced' = Append(announced, <<"errored", r>>)
    BY <1>0, <1>6 DEF EmitError, RunShape, Announce
  <2>1. PICK y \in RunStates : y = [run[r] EXCEPT !.step = over]
    BY <1>0, <1>3 DEF RunStates
  <2>2. SameEnd(run[r], y) /\ y.step = "over" /\ y.child = run[r].child
    BY <1>0, <1>2, <2>1 DEF RunStates, SameEnd
  <2>3. run' = [run EXCEPT ![r] = y]
    BY <1>2, <1>6, <2>1 DEF EmitError
  <2>4. RunShape(y) /\ Said(y) /\ ~Said(run[r]) /\ (RunEnded(y) => RunEnded(run[r]))
    BY <1>0, <2>0, <2>2 DEF RunShape, Said, Told, Live, RunEnded, SameEnd
  <2>5. slot = r
    BY <2>0 DEF ObInv, SlotKept, Told
  <2>6. SaidOnce' /\ announced' \in Seq(Outcomes \X Runs)
    <3>1. "errored" \in Outcomes
      BY DEF Outcomes
    <3> QED BY <2>0, <2>3, <2>4, <2>5, <3>1, SaysNow
  <2>7. SlotKept'
    BY <2>0, <2>2, <2>3, SlotStays DEF SameEnd
  <2>8. Owned'
    BY <1>1, <2>2, <2>3, <2>4, OwnedStays DEF SameEnd
  <2> QED BY <1>0, <1>1, <2>0, <2>2, <2>3, <2>4, <2>6, <2>7, <2>8, RunTypes DEF SameEnd
<1>7. CASE EmitTerminal(r)
  <2>0. /\ run[r].final = "due" /\ run[r].step # "emitError" /\ UNCHANGED slot
        /\ IF run[r].event # "none" THEN Announce(run[r].event, r) ELSE UNCHANGED announced
    BY <1>7 DEF EmitTerminal
  <2>1. PICK y \in RunStates : y = [run[r] EXCEPT !.final = emitted, !.event = none]
    BY <1>0, <1>2, <1>3 DEF RunStates
  <2>2. /\ y.completed = run[r].completed /\ y.step = run[r].step /\ y.final = "emitted"
        /\ y.child = run[r].child /\ y.ended = run[r].ended
        /\ y.claim = run[r].claim /\ y.pending = run[r].pending /\ y.durable = run[r].durable
        /\ y.shutdown = run[r].shutdown /\ y.reported = run[r].reported /\ y.event = "none"
        /\ y.records = run[r].records
    BY <1>0, <1>2, <2>1 DEF RunStates
  <2>3. run' = [run EXCEPT ![r] = y]
    BY <1>2, <1>7, <2>1 DEF EmitTerminal
  <2>4. RunShape(y) /\ (RunEnded(y) <=> RunEnded(run[r])) /\ run[r].step # "none"
    BY <1>0, <2>0, <2>2 DEF RunShape, Told, Live, RunEnded, NoRun
  <2>5. slot = r
    BY <2>0, <2>4 DEF ObInv, SlotKept
  <2>6. SaidOnce' /\ announced' \in Seq(Outcomes \X Runs)
    <3>1. CASE run[r].event # "none"
      <4>1. Said(y) /\ ~Said(run[r])
        BY <1>0, <2>0, <2>2, <3>1 DEF RunShape, Said, Told
      <4>2. PICK k \in Outcomes : k = run[r].event
        BY <1>0 DEF RunStates
      <4>3. announced' = Append(announced, <<k, r>>)
        BY <2>0, <3>1, <4>2 DEF Announce
      <4> QED BY <2>3, <2>5, <4>1, <4>3, SaysNow
    <3>2. CASE run[r].event = "none"
      <4>1. Said(y) <=> Said(run[r])
        BY <1>0, <2>0, <2>2, <3>2 DEF RunShape, Said, Told
      <4> QED BY <1>0, <2>0, <2>3, <3>2, <4>1, SaidStays
    <3> QED BY <3>1, <3>2
  <2>7. SlotKept'
    BY <2>0, <2>2, <2>3, <2>4, SlotStays
  <2>8. Owned'
    BY <1>1, <2>2, <2>3, <2>4, OwnedStays
  <2> QED BY <1>0, <1>1, <2>0, <2>2, <2>3, <2>4, <2>6, <2>7, <2>8, RunTypes
<1>8. CASE FreeSlot(r)
  <2>0. /\ run[r].final = "emitted" /\ UNCHANGED announced
        /\ slot' = IF slot = r THEN 0 ELSE slot
    BY <1>8 DEF FreeSlot
  <2>1. PICK y \in RunStates : y = [run[r] EXCEPT !.final = done, !.done = yes]
    BY <1>0, <1>2 DEF RunStates
  <2>2. /\ y.completed = run[r].completed /\ y.step = run[r].step /\ y.final = "done"
        /\ y.child = run[r].child /\ y.ended = run[r].ended
        /\ y.claim = run[r].claim /\ y.pending = run[r].pending /\ y.durable = run[r].durable
        /\ y.shutdown = run[r].shutdown /\ y.reported = run[r].reported /\ y.event = run[r].event
        /\ y.records = run[r].records
    BY <1>0, <1>2, <2>1 DEF RunStates
  <2>3. run' = [run EXCEPT ![r] = y]
    BY <1>2, <1>8, <2>1 DEF FreeSlot
  <2>4. RunShape(y) /\ (RunEnded(y) <=> RunEnded(run[r])) /\ run[r].step # "none" /\ (Said(y) <=> Said(run[r]))
    BY <1>0, <2>0, <2>2 DEF RunShape, Told, Live, RunEnded, NoRun, Said
  <2>5. slot = r /\ slot' = 0 /\ 0 \notin Runs
    BY <2>0, <2>4 DEF ObInv, SlotKept, Runs
  <2>6. run'[r] = y /\ \A q \in Runs : q # r => run'[q] = run[q]
    BY <2>3 DEF ObInv, ObservablesTyped
  <2>7. SlotKept'
    <3>1. \A q \in Runs : q # r => ~(run[q].step # "none" /\ run[q].final # "done")
      BY <2>5 DEF ObInv, SlotKept
    <3>2. \A q \in Runs : slot' = q <=> run'[q].step # "none" /\ run'[q].final # "done"
      BY <2>2, <2>5, <2>6, <3>1
    <3>3. \A q \in Runs : run'[q].step = run[q].step
      BY <2>2, <2>6
    <3> QED BY <2>5, <3>2, <3>3 DEF ObInv, SlotKept
  <2>8. Owned'
    BY <1>1, <2>2, <2>3, <2>4, OwnedStays
  <2>9. SaidOnce'
    BY <2>0, <2>3, <2>4, SaidStays
  <2> QED BY <1>0, <1>1, <2>0, <2>2, <2>3, <2>4, <2>5, <2>7, <2>8, <2>9, RunTypes
<1> QED BY <1>5, <1>6, <1>7, <1>8

(* The definition is saved, and an observation is delivered.               *)
LEMMA OthersKeep ==
    ASSUME ObInv, Create \/ (\E o \in inflight : Deliver(o)) \/ UNCHANGED ovars
    PROVE  ObInv'
<1>1. /\ UNCHANGED <<run, current, slot, deleting, stopping, closing, refused, announced, failures>>
      /\ defined' \in BOOLEAN /\ inflight' \subseteq inflight
  BY DEF Create, Deliver, OnlyOutput, Succeeds, ovars, faultVars, ObInv, ObservablesTyped
<1>2. ObservablesTyped'
  BY <1>1 DEF ObInv, ObservablesTyped
<1>3. \A r \in Runs : RunShape(run'[r])
  BY <1>1 DEF ObInv
<1>4. Owned'
  BY <1>1 DEF ObInv, Owned, RunOwned, StopClaims, CloseClaimed
<1>5. \A c \in StopCalls : StopDeletes(c)'
  BY <1>1 DEF ObInv, StopDeletes
<1>6. CloseQuiet'
  BY <1>1 DEF ObInv, CloseQuiet
<1>7. SlotKept' /\ SaidOnce'
  BY <1>1 DEF ObInv, SlotKept, SaidOnce
<1> QED BY <1>2, <1>3, <1>4, <1>5, <1>6, <1>7 DEF ObInv

(* While the current run is unclaimed, nobody is about to end it.          *)
LEMMA Unclaimed ==
    ASSUME ObInv, current = 0 \/ run[current].claim = "none"
    PROVE  /\ \A q \in Runs : run[q].claim = "none"
           /\ \A c \in StopCalls : stopping[c].step \notin {"quiesce", "retry"}
           /\ closing.step # "stop"
<1>1. \A q \in Runs : run[q].claim = "none"
  BY DEF ObInv, Owned, RunOwned, Runs
<1>2. \A c \in StopCalls : stopping[c].step \notin {"quiesce", "retry"}
  BY <1>1, StopNames DEF ObInv, Owned, StopClaims
<1>3. closing.step # "stop"
  BY <1>1 DEF ObInv, Owned, CloseClaimed
<1> QED BY <1>1, <1>2, <1>3

(* A Stop or Delete goes on, or returns.                                   *)
LEMMA DeletesStay ==
    ASSUME ObInv, NEW c \in StopCalls, NEW z \in StopStates, stopping' = [stopping EXCEPT ![c] = z],
           current' \in {0, current}, z.delete => stopping[c].delete,
           deleting' = deleting \/ (stopping[c].delete /\ ~z.delete),
           z.step = "remove" => z.delete, z.delete /\ z.step \in {"done", "remove"} => current' = 0
    PROVE  (\A d \in StopCalls : StopDeletes(d)') /\ stopping' \in [StopCalls -> StopStates]
<1>1. /\ stopping'[c] = z /\ stopping' \in [StopCalls -> StopStates]
      /\ \A d \in StopCalls : d # c => stopping'[d] = stopping[d]
  BY DEF ObInv, ObservablesTyped
<1>2. ASSUME NEW d \in StopCalls PROVE StopDeletes(d)'
  <2>1. StopDeletes(d) /\ StopDeletes(c)
    BY DEF ObInv
  <2>2. \A e \in StopCalls : stopping'[e].delete => stopping[e].delete
    BY <1>1
  <2>3. CASE d = c
    BY <1>1, <2>1, <2>2, <2>3 DEF StopDeletes
  <2>4. CASE d # c
    <3>1. stopping'[d] = stopping[d]
      BY <1>1, <2>4
    <3>2. stopping[d].delete => ~stopping[c].delete
      BY <2>1, <2>4 DEF StopDeletes
    <3> QED BY <2>1, <2>2, <3>1, <3>2 DEF StopDeletes
  <2> QED BY <2>3, <2>4
<1> QED BY <1>1, <1>2

(* A Stop or Delete that has claimed nothing changes nothing of the runs.  *)
LEMMA StopMoves ==
    ASSUME ObInv, NEW c \in StopCalls, NEW z \in StopStates, stopping' = [stopping EXCEPT ![c] = z],
           UNCHANGED <<run, current, slot, closing, inflight, refused, announced>>,
           defined' \in BOOLEAN, deleting' \in BOOLEAN, failures' \in Nat,
           stopping[c].step \notin {"quiesce", "retry"}, z.step \notin {"quiesce", "retry"},
           \A d \in StopCalls : StopDeletes(d)'
    PROVE  ObInv'
<1>1. /\ stopping'[c] = z /\ stopping' \in [StopCalls -> StopStates]
      /\ \A d \in StopCalls : d # c => stopping'[d] = stopping[d]
  BY DEF ObInv, ObservablesTyped
<1>2. ObservablesTyped'
  BY <1>1 DEF ObInv, ObservablesTyped
<1>3. \A r \in Runs : RunShape(run'[r])
  BY DEF ObInv
<1>4. Owned'
  <2>1. ASSUME NEW r \in Runs PROVE RunOwned(r)'
    <3>1. RunOwned(r)
      BY DEF ObInv, Owned
    <3>2. run[r].claim # c
      BY <3>1 DEF RunOwned
    <3> QED BY <1>1, <3>1, <3>2 DEF RunOwned
  <2>2. ASSUME NEW d \in StopCalls PROVE StopClaims(d)'
    BY <1>1 DEF ObInv, Owned, StopClaims
  <2>3. CloseClaimed'
    BY DEF ObInv, Owned, CloseClaimed
  <2> QED BY <2>1, <2>2, <2>3 DEF Owned
<1>5. CloseQuiet' /\ SlotKept' /\ SaidOnce'
  BY DEF ObInv, CloseQuiet, SlotKept, SaidOnce
<1> QED BY <1>2, <1>3, <1>4, <1>5 DEF ObInv

(* A Stop or Delete begins, waits, removes the definition and returns.     *)
LEMMA StopCallsKeep ==
    ASSUME ObInv, NEW c \in StopCalls, CallStop(c) \/ WaitRunDone(c) \/ RemoveDefinition(c)
    PROVE  ObInv'
<1>0. /\ stopping[c] \in StopStates /\ failures \in Nat /\ defined \in BOOLEAN /\ deleting \in BOOLEAN
      /\ stopping \in [StopCalls -> StopStates] /\ StopDeletes(c)
  BY DEF ObInv, ObservablesTyped
<1>1. NoStop \in StopStates /\ NoStop.step = "idle" /\ ~NoStop.delete
  BY DEF NoStop, StopStates
<1>2. ASSUME Returns(c), stopping[c].step \notin {"quiesce", "retry"},
             UNCHANGED <<run, current, slot, closing, inflight, refused, announced>>,
             defined' \in BOOLEAN, failures' \in Nat
      PROVE  ObInv'
  <2>1. stopping' = [stopping EXCEPT ![c] = NoStop] /\ deleting' = (deleting /\ ~stopping[c].delete)
    BY <1>2 DEF Returns, Becomes
  <2>2. deleting' \in BOOLEAN /\ (deleting' = deleting \/ stopping[c].delete)
    BY <1>0, <2>1 DEF StopStates
  <2>3. \A d \in StopCalls : StopDeletes(d)'
    BY <1>1, <1>2, <2>1, <2>2, DeletesStay
  <2> QED BY <1>1, <1>2, <2>1, <2>2, <2>3, StopMoves
<1>3. CASE CallStop(c)
  <2>0. /\ UNCHANGED <<run, current, slot, closing, inflight, refused, announced, defined, failures>>
        /\ stopping[c] = NoStop
    BY <1>3 DEF CallStop, faultVars
  <2>a. PICK s \in {"claim"}, yes \in {TRUE} : TRUE
    OBVIOUS
  <2>1. CASE Becomes(c, [NoStop EXCEPT !.step = "claim"]) /\ UNCHANGED deleting
    <3>a. PICK z \in StopStates : z = [NoStop EXCEPT !.step = s]
      BY <1>1, <2>a DEF StopStates
    <3>1. z = [NoStop EXCEPT !.step = s] /\ z.step = "claim" /\ ~z.delete
      BY <2>a, <3>a DEF NoStop
    <3>2. stopping' = [stopping EXCEPT ![c] = z]
      BY <2>1, <2>a, <3>1 DEF Becomes
    <3>3. \A d \in StopCalls : StopDeletes(d)'
      BY <2>0, <2>1, <3>1, <3>2, DeletesStay
    <3> QED BY <1>0, <1>1, <2>0, <2>1, <3>1, <3>2, <3>3, StopMoves
  <2>2. CASE ~deleting /\ deleting' = TRUE /\ Becomes(c, [NoStop EXCEPT !.step = "claim", !.delete = TRUE])
    <3>a. PICK z \in StopStates : z = [NoStop EXCEPT !.step = s, !.delete = yes]
      BY <1>1, <2>a DEF StopStates
    <3>1. z = [NoStop EXCEPT !.step = s, !.delete = yes] /\ z.step = "claim"
      BY <2>a, <3>a DEF NoStop
    <3>2. stopping' = [stopping EXCEPT ![c] = z]
      BY <2>2, <2>a, <3>1 DEF Becomes
    <3>3. \A d \in StopCalls : ~stopping[d].delete /\ stopping[d].step # "remove"
      BY <2>2 DEF ObInv, StopDeletes
    <3>4. stopping'[c] = z /\ \A d \in StopCalls : d # c => stopping'[d] = stopping[d]
      BY <1>0, <3>2
    <3>5. \A d \in StopCalls : StopDeletes(d)'
      BY <2>2, <3>1, <3>3, <3>4 DEF StopDeletes
    <3> QED BY <1>0, <1>1, <2>0, <2>2, <3>1, <3>2, <3>5, StopMoves
  <2> QED BY <1>3, <2>1, <2>2 DEF CallStop
<1>4. CASE WaitRunDone(c)
  <2>0. /\ UNCHANGED <<run, current, slot, closing, inflight, refused, announced, defined, failures>>
        /\ stopping[c].step \in {"done", "failed"}
    BY <1>4 DEF WaitRunDone, faultVars
  <2>1. CASE /\ stopping[c].delete /\ stopping[c].step = "done" /\ UNCHANGED deleting
             /\ Becomes(c, [stopping[c] EXCEPT !.step = "remove"])
    <3>a. PICK s \in {"remove"} : TRUE
      OBVIOUS
    <3>b. PICK z \in StopStates : z = [stopping[c] EXCEPT !.step = s]
      BY <1>0, <3>a DEF StopStates
    <3>1. z = [stopping[c] EXCEPT !.step = s] /\ z.step = "remove" /\ z.delete = stopping[c].delete
      BY <1>0, <3>a, <3>b DEF StopStates
    <3>2. stopping' = [stopping EXCEPT ![c] = z]
      BY <2>1, <3>a, <3>1 DEF Becomes
    <3>3. current = 0
      BY <1>0, <2>1 DEF StopDeletes
    <3>4. \A d \in StopCalls : StopDeletes(d)'
      BY <2>0, <2>1, <3>1, <3>2, <3>3, DeletesStay
    <3> QED BY <1>0, <2>0, <2>1, <3>1, <3>2, <3>4, StopMoves
  <2>2. CASE Returns(c)
    BY <1>0, <1>2, <2>0, <2>2
  <2> QED BY <1>4, <2>1, <2>2 DEF WaitRunDone
<1>5. CASE RemoveDefinition(c)
  <2>1. stopping[c].step = "remove" /\ stopping[c].delete /\ current = 0
    BY <1>0, <1>5 DEF RemoveDefinition, StopDeletes
  <2>2. /\ UNCHANGED <<run, slot, closing, inflight, refused, announced>> /\ Returns(c)
        /\ current' \in {0, current} /\ defined' \in BOOLEAN /\ failures' \in Nat
    <3>1. CASE Writes /\ defined' = FALSE /\ current' = 0
      BY <1>0, <1>5, <3>1 DEF RemoveDefinition, Writes, Succeeds
    <3>2. CASE WriteFails /\ UNCHANGED <<defined, current>>
      BY <1>0, <1>5, <3>2 DEF RemoveDefinition, WriteFails, FailsOnce
    <3> QED BY <1>5, <3>1, <3>2 DEF RemoveDefinition
  <2> QED BY <1>2, <2>1, <2>2
<1> QED BY <1>3, <1>4, <1>5

(* A run changes together with the calls that end it.                      *)
LEMMA EndTypes ==
    ASSUME ObInv, NEW r \in Runs, NEW y \in RunStates, run' = [run EXCEPT ![r] = y], RunShape(y),
           UNCHANGED <<slot, defined, inflight, refused>>,
           current' \in {0, current}, deleting' \in BOOLEAN,
           stopping' \in [StopCalls -> StopStates], closing' \in CloseStates,
           closing' = closing \/ closing'.step \notin {"draining", "closed"},
           announced' \in Seq(Outcomes \X Runs), failures' \in Nat,
           y.completed = run[r].completed, run[r].step # "none",
           \A d \in StopCalls : StopDeletes(d)',
           Owned', SlotKept', SaidOnce'
    PROVE  ObInv'
<1>1. run'[r] = y /\ run' \in [Runs -> RunStates] /\ \A q \in Runs : q # r => run'[q] = run[q]
  BY DEF ObInv, ObservablesTyped
<1>2. ObservablesTyped'
  BY <1>1 DEF ObInv, ObservablesTyped
<1>3. \A q \in Runs : RunShape(run'[q])
  BY <1>1 DEF ObInv
<1>4. CloseQuiet'
  <2>1. closing'.step \in {"draining", "closed"} => closing' = closing
    OBVIOUS
  <2> QED BY <1>1, <2>1 DEF ObInv, CloseQuiet
<1> QED BY <1>2, <1>3, <1>4 DEF ObInv

(* A claim changes nothing of a run but its owner.                         *)
Reclaimed(x, y) ==
    /\ y.pending = x.pending /\ y.completed = x.completed /\ y.step = x.step /\ y.durable = x.durable
    /\ y.shutdown = x.shutdown /\ y.reported = x.reported /\ y.event = x.event /\ y.final = x.final
    /\ y.records = x.records /\ y.child = x.child /\ y.ended = x.ended

LEMMA ClaimFacts ==
    ASSUME ObInv, NEW r \in Runs, run[r].step # "none", NEW y \in RunStates, Reclaimed(run[r], y),
           run' = [run EXCEPT ![r] = y], UNCHANGED <<slot, announced>>
    PROVE  /\ RunShape(y) /\ y.pending = run[r].pending /\ y.completed = run[r].completed
           /\ y.step = run[r].step /\ (RunEnded(y) <=> RunEnded(run[r])) /\ SlotKept' /\ SaidOnce'
<1>0. run[r] \in RunStates /\ RunShape(run[r])
  BY RunIs
<1>2. RunShape(y)
  BY <1>0 DEF RunShape, Live, RunEnded, Told, Reclaimed
<1>3. (Said(y) <=> Said(run[r])) /\ (RunEnded(y) <=> RunEnded(run[r]))
  BY DEF Said, Told, RunEnded, Reclaimed
<1>4. SlotKept' /\ SaidOnce'
  BY <1>3, SlotStays, SaidStays DEF Reclaimed
<1> QED BY <1>2, <1>3, <1>4 DEF Reclaimed

(* A Stop, a Delete or Close claims the current run.                       *)
LEMMA ClaimKeeps ==
    ASSUME ObInv, \/ \E c \in StopCalls : ClaimTerminal(c)
                  \/ CloseClaims
    PROVE  ObInv'
<1>0. /\ failures \in Nat /\ defined \in BOOLEAN /\ deleting \in BOOLEAN /\ current \in Runs \cup {0}
      /\ stopping \in [StopCalls -> StopStates] /\ closing \in CloseStates
      /\ announced \in Seq(Outcomes \X Runs)
  BY DEF ObInv, ObservablesTyped
<1>1. NoStop \in StopStates /\ NoStop.step = "idle" /\ ~NoStop.delete
  BY DEF NoStop, StopStates
<1>2. ASSUME NEW c \in StopCalls, ClaimTerminal(c) PROVE ObInv'
  <2>0. /\ UNCHANGED <<current, slot, defined, closing, inflight, refused, announced, failures>>
        /\ stopping[c].step = "claim" /\ stopping[c] \in StopStates
    BY <1>0, <1>2 DEF ClaimTerminal, faultVars
  <2>1. CASE current = 0 /\ UNCHANGED run
    <3>1. PICK z \in StopStates :
             /\ stopping' = [stopping EXCEPT ![c] = z] /\ z.step \in {"remove", "idle"}
             /\ z.delete => stopping[c].delete
             /\ z.step = "remove" => z.delete
             /\ deleting' \in BOOLEAN
             /\ deleting' = deleting \/ (stopping[c].delete /\ ~z.delete)
      <4>1. CASE stopping[c].delete /\ Becomes(c, [stopping[c] EXCEPT !.step = "remove"]) /\ UNCHANGED deleting
        <5>1. PICK s \in {"remove"} : TRUE
          OBVIOUS
        <5>2. PICK z \in StopStates : z = [stopping[c] EXCEPT !.step = s]
          BY <2>0, <5>1 DEF StopStates
        <5>3. z.step = "remove" /\ z.delete = stopping[c].delete
          BY <2>0, <5>1, <5>2 DEF StopStates
        <5>4. stopping' = [stopping EXCEPT ![c] = z]
          BY <4>1, <5>1, <5>2 DEF Becomes
        <5> QED BY <1>0, <4>1, <5>3, <5>4
      <4>2. CASE Returns(c)
        <5>1. stopping' = [stopping EXCEPT ![c] = NoStop] /\ deleting' = (deleting /\ ~stopping[c].delete)
          BY <4>2 DEF Returns, Becomes
        <5>2. stopping[c].delete \in BOOLEAN
          BY <2>0 DEF StopStates
        <5>3. deleting' \in BOOLEAN /\ (deleting' = deleting \/ stopping[c].delete)
          BY <1>0, <5>1, <5>2
        <5> QED BY <1>1, <5>1, <5>3
      <4>3. (stopping[c].delete /\ Becomes(c, [stopping[c] EXCEPT !.step = "remove"]) /\ UNCHANGED deleting) \/ Returns(c)
        <5>1. current \notin Runs
          BY <2>1 DEF Runs
        <5> QED BY <1>2, <2>1 DEF ClaimTerminal
      <4> QED BY <4>1, <4>2, <4>3
    <3>2. \A d \in StopCalls : StopDeletes(d)'
      BY <2>0, <2>1, <3>1, DeletesStay
    <3> QED BY <1>0, <2>0, <2>1, <3>1, <3>2, StopMoves
  <2>2. ASSUME current # 0, run[current].claim = "none",
               run' = [run EXCEPT ![current].claim = c, ![current].cancelled = @ \/ run[current].pending = "none"],
               Becomes(c, [stopping[c] EXCEPT !.run = current,
                               !.step = IF run[current].pending # "none" THEN "retry" ELSE "quiesce"]),
               UNCHANGED deleting
        PROVE  ObInv'
    <3>1. PICK r \in Runs : r = current
      BY <1>0, <2>2
    <3>2. run[r] \in RunStates /\ RunShape(run[r]) /\ RunOwned(r)
      BY RunIs DEF ObInv, Owned
    <3>3. run[r].step # "none" /\ ~RunEnded(run[r])
      BY <3>1, <3>2 DEF RunOwned
    <3>4. PICK b \in BOOLEAN : b = (run[r].cancelled \/ run[r].pending = "none")
      BY <3>2 DEF RunStates
    <3>5. PICK o \in Owners : o = c
      BY DEF Owners
    <3>6. PICK y \in RunStates : y = [run[r] EXCEPT !.claim = o, !.cancelled = b]
      BY <3>2 DEF RunStates
    <3>7. run' = [run EXCEPT ![r] = y]
      BY <2>2, <3>1, <3>4, <3>5, <3>6
    <3>8. PICK s \in {"retry", "quiesce"} : s = IF run[r].pending # "none" THEN "retry" ELSE "quiesce"
      OBVIOUS
    <3>9. PICK z \in StopStates : z = [stopping[c] EXCEPT !.run = r, !.step = s]
      BY <2>0 DEF StopStates
    <3>10. z.run = r /\ z.step = s /\ z.delete = stopping[c].delete
      BY <2>0, <3>9 DEF StopStates
    <3>11. stopping' = [stopping EXCEPT ![c] = z]
      BY <2>2, <3>1, <3>8, <3>9 DEF Becomes
    <3>a. Reclaimed(run[r], y) /\ y.claim = c
      BY <3>2, <3>5, <3>6 DEF RunStates, Reclaimed
    <3>12. /\ RunShape(y) /\ y.claim = c /\ y.pending = run[r].pending /\ y.completed = run[r].completed
           /\ y.step = run[r].step /\ (RunEnded(y) <=> RunEnded(run[r])) /\ SlotKept' /\ SaidOnce'
      BY <2>0, <3>3, <3>7, <3>a, ClaimFacts
    <3>13. (\A d \in StopCalls : StopDeletes(d)') /\ stopping' \in [StopCalls -> StopStates]
      BY <2>0, <2>2, <3>8, <3>10, <3>11, DeletesStay
    <3>14. /\ \A q \in Runs : run[q].claim = "none"
           /\ \A d \in StopCalls : stopping[d].step \notin {"quiesce", "retry"}
           /\ closing.step # "stop"
      BY <2>2, Unclaimed
    <3>15. /\ run'[r] = y /\ \A q \in Runs : q # r => run'[q] = run[q]
           /\ stopping'[c] = z /\ \A d \in StopCalls : d # c => stopping'[d] = stopping[d]
      BY <1>0, <3>7, <3>11 DEF ObInv, ObservablesTyped
    <3>16. Owned'
      <4>1. ASSUME NEW q \in Runs PROVE RunOwned(q)'
        <5>1. c # "close"
          BY StopNames
        <5>2. CASE q = r
          BY <2>0, <3>1, <3>3, <3>8, <3>10, <3>12, <3>15, <5>1, <5>2 DEF RunOwned
        <5>3. CASE q # r
          BY <2>0, <3>1, <3>14, <3>15, <5>3, StopNames DEF RunOwned
        <5> QED BY <5>2, <5>3
      <4>2. ASSUME NEW d \in StopCalls PROVE StopClaims(d)'
        <5>1. CASE d = c
          <6>1. s = "quiesce" <=> run[r].pending = "none"
            BY <3>8
          <6> QED BY <3>10, <3>12, <3>15, <5>1, <6>1 DEF StopClaims
        <5>2. CASE d # c
          BY <3>14, <3>15, <5>2 DEF StopClaims
        <5> QED BY <5>1, <5>2
      <4>3. CloseClaimed'
        BY <2>0, <3>14 DEF CloseClaimed
      <4> QED BY <4>1, <4>2, <4>3 DEF Owned
    <3> QED BY <1>0, <2>0, <2>2, <3>3, <3>7, <3>12, <3>13, <3>16, EndTypes
  <2> QED BY <1>2, <2>1, <2>2 DEF ClaimTerminal
<1>3. CASE CloseClaims
  <2>0. /\ UNCHANGED <<current, slot, defined, deleting, stopping, inflight, refused, announced, failures>>
        /\ closing.step = "claim"
    BY <1>3 DEF CloseClaims, faultVars
  <2>1. CASE current = 0 /\ CloseAt("workers", 0) /\ UNCHANGED run
    <3>1. closing' \in CloseStates /\ closing'.step = "workers"
      BY <2>1 DEF CloseAt, CloseStates
    <3>2. ObservablesTyped'
      BY <2>0, <2>1, <3>1 DEF ObInv, ObservablesTyped
    <3>3. \A q \in Runs : RunShape(run'[q])
      BY <2>1 DEF ObInv
    <3>4. Owned'
      <4>1. \A q \in Runs : RunOwned(q)'
        BY <2>0, <2>1, <3>1 DEF ObInv, Owned, RunOwned
      <4>2. \A c \in StopCalls : StopClaims(c)'
        BY <2>0, <2>1 DEF ObInv, Owned, StopClaims
      <4> QED BY <3>1, <4>1, <4>2 DEF Owned, CloseClaimed
    <3>5. \A c \in StopCalls : StopDeletes(c)'
      BY <2>0 DEF ObInv, StopDeletes
    <3>6. CloseQuiet' /\ SlotKept' /\ SaidOnce'
      BY <2>0, <2>1, <3>1 DEF ObInv, CloseQuiet, SlotKept, SaidOnce
    <3> QED BY <3>2, <3>3, <3>4, <3>5, <3>6 DEF ObInv
  <2>2. CASE /\ current # 0 /\ run[current].claim = "none"
             /\ run' = [run EXCEPT ![current].claim = "close", ![current].cancelled = TRUE]
             /\ CloseAt("stop", current)
    <3>1. PICK r \in Runs : r = current
      BY <1>0, <2>2
    <3>2. run[r] \in RunStates /\ RunShape(run[r]) /\ RunOwned(r)
      BY RunIs DEF ObInv, Owned
    <3>3. run[r].step # "none" /\ ~RunEnded(run[r])
      BY <3>1, <3>2 DEF RunOwned
    <3>4. PICK b \in BOOLEAN : b = TRUE
      OBVIOUS
    <3>5. PICK o \in Owners : o = "close"
      BY DEF Owners
    <3>6. PICK y \in RunStates : y = [run[r] EXCEPT !.claim = o, !.cancelled = b]
      BY <3>2 DEF RunStates
    <3>7. run' = [run EXCEPT ![r] = y]
      BY <2>2, <3>1, <3>4, <3>5, <3>6
    <3>8. closing' \in CloseStates /\ closing'.step = "stop" /\ closing'.run = r
      BY <2>2, <3>1 DEF CloseAt, CloseStates
    <3>a. Reclaimed(run[r], y) /\ y.claim = "close"
      BY <3>2, <3>5, <3>6 DEF RunStates, Reclaimed
    <3>12. /\ RunShape(y) /\ y.claim = "close" /\ y.pending = run[r].pending /\ y.completed = run[r].completed
           /\ y.step = run[r].step /\ (RunEnded(y) <=> RunEnded(run[r])) /\ SlotKept' /\ SaidOnce'
      BY <2>0, <3>3, <3>7, <3>a, ClaimFacts
    <3>13. \A d \in StopCalls : StopDeletes(d)'
      BY <2>0 DEF ObInv, StopDeletes
    <3>14. /\ \A q \in Runs : run[q].claim = "none"
           /\ \A d \in StopCalls : stopping[d].step \notin {"quiesce", "retry"}
      BY <2>2, Unclaimed
    <3>15. /\ run'[r] = y /\ \A q \in Runs : q # r => run'[q] = run[q]
      BY <3>7 DEF ObInv, ObservablesTyped
    <3>16. Owned'
      <4>1. ASSUME NEW q \in Runs PROVE RunOwned(q)'
        <5>1. "close" \notin StopCalls /\ "none" \notin StopCalls
          BY StopNames
        <5>2. CASE q = r
          BY <2>0, <3>1, <3>3, <3>8, <3>12, <3>15, <5>1, <5>2 DEF RunOwned
        <5>3. CASE q # r
          BY <2>0, <3>1, <3>14, <3>15, <5>1, <5>3 DEF RunOwned
        <5> QED BY <5>2, <5>3
      <4>2. ASSUME NEW d \in StopCalls PROVE StopClaims(d)'
        BY <2>0, <3>14 DEF StopClaims
      <4>3. CloseClaimed'
        BY <3>8, <3>12, <3>15 DEF CloseClaimed
      <4> QED BY <4>1, <4>2, <4>3 DEF Owned
    <3> QED BY <1>0, <2>0, <3>3, <3>7, <3>8, <3>12, <3>13, <3>16, EndTypes
  <2> QED BY <1>3, <2>1, <2>2 DEF CloseClaims
<1> QED BY <1>2, <1>3

(* A call that has claimed a run ends it, or gives the claim up.           *)
LEMMA EndClaimedKeeps ==
    ASSUME ObInv, NEW c \in StopCalls, EndClaimed(c) \/ RollbackTerminal(c)
    PROVE  ObInv'
<1>0. /\ failures \in Nat /\ defined \in BOOLEAN /\ deleting \in BOOLEAN /\ current \in Runs \cup {0}
      /\ stopping \in [StopCalls -> StopStates] /\ closing \in CloseStates
      /\ announced \in Seq(Outcomes \X Runs) /\ stopping[c] \in StopStates
  BY DEF ObInv, ObservablesTyped
<1>1. NoStop \in StopStates /\ NoStop.step = "idle" /\ ~NoStop.delete
  BY DEF NoStop, StopStates
<1>2. stopping[c].step \in {"quiesce", "retry"} /\ StopClaims(c) /\ StopDeletes(c)
  BY DEF EndClaimed, RollbackTerminal, ObInv, Owned
<1>3. PICK r \in Runs : r = stopping[c].run
  BY <1>2 DEF StopClaims
<1>4. /\ run[r].claim = c /\ current = r /\ run[r].step # "none" /\ ~RunEnded(run[r])
      /\ run[r] \in RunStates /\ RunShape(run[r])
      /\ stopping[c].step = "quiesce" <=> run[r].pending = "none"
  <2>1. run[r].claim = c /\ c # "none" /\ (stopping[c].step = "quiesce" <=> run[r].pending = "none")
    BY <1>2, <1>3, StopNames DEF StopClaims
  <2>2. RunOwned(r) /\ run[r] \in RunStates /\ RunShape(run[r])
    BY RunIs DEF ObInv, Owned
  <2> QED BY <2>1, <2>2 DEF RunOwned
<1>5. c # "close" /\ c # "none"
  BY StopNames
<1>6. ASSUME Returns(c) PROVE /\ stopping' = [stopping EXCEPT ![c] = NoStop] /\ deleting' \in BOOLEAN
                              /\ deleting' = deleting \/ stopping[c].delete
  <2>1. stopping' = [stopping EXCEPT ![c] = NoStop] /\ deleting' = (deleting /\ ~stopping[c].delete)
    BY <1>6 DEF Returns, Becomes
  <2>2. stopping[c].delete \in BOOLEAN
    BY <1>0 DEF StopStates
  <2> QED BY <1>0, <2>1, <2>2
<1>7. CASE EndClaimed(c)
  <2>0. UNCHANGED <<slot, defined, closing, inflight, refused>>
    BY <1>7 DEF EndClaimed
  <2>1. PICK outcome \in Outcomes, emit \in BOOLEAN :
           CommitTerminal(r, run[r], outcome, emit) /\ outcome # "none" /\ (emit <=> run[r].pending = "none")
    <3>1. CASE stopping[c].step = "retry"
      <4>1. CommitTerminal(r, run[r], run[r].pending, FALSE) /\ run[r].pending # "none"
        BY <1>3, <1>4, <1>7, <3>1 DEF EndClaimed
      <4>2. run[r].pending \in Outcomes
        BY <1>4 DEF RunStates
      <4> QED BY <4>1, <4>2
    <3>2. CASE stopping[c].step # "retry"
      <4>1. CommitTerminal(r, run[r], "stopped", TRUE) /\ run[r].pending = "none"
        BY <1>2, <1>3, <1>4, <1>7, <3>2 DEF EndClaimed
      <4>2. "stopped" \in Outcomes
        BY DEF Outcomes
      <4> QED BY <4>1, <4>2
    <3> QED BY <3>1, <3>2
  <2>2. SameEnd(run[r], run[r]) /\ SameWay(run[r], run[r])
    BY <1>4 DEF SameEnd, SameWay, RunShape
  <2>3. /\ \E y \in RunStates :
              /\ run' = [run EXCEPT ![r] = y] /\ RunShape(y) /\ y.claim = "none" /\ y.step # "none"
              /\ y.completed = run[r].completed
              /\ current' = 0 \/ (current' = r /\ ~RunEnded(y))
        /\ SlotKept' /\ SaidOnce' /\ announced' \in Seq(Outcomes \X Runs) /\ failures' \in Nat
        /\ current' = 0 \/ failures' # failures
        /\ current' \in {0, current}
    BY <1>4, <2>0, <2>1, <2>2, CommitFacts
  <2>4. PICK z \in StopStates :
           /\ stopping' = [stopping EXCEPT ![c] = z] /\ z.step \in {"idle", "done", "failed"}
           /\ z.delete => stopping[c].delete
           /\ z.step = "done" => failures' = failures
           /\ deleting' \in BOOLEAN
           /\ deleting' = deleting \/ (stopping[c].delete /\ ~z.delete)
    <3>1. CASE Returns(c)
      BY <1>1, <1>6, <3>1
    <3>2. CASE /\ Becomes(c, [stopping[c] EXCEPT !.step = IF failures' = failures THEN "done" ELSE "failed"])
               /\ UNCHANGED deleting
      <4>1. PICK s \in {"done", "failed"} : s = IF failures' = failures THEN "done" ELSE "failed"
        OBVIOUS
      <4>2. PICK z \in StopStates : z = [stopping[c] EXCEPT !.step = s]
        BY <1>0 DEF StopStates
      <4>3. z.step = s /\ z.delete = stopping[c].delete
        BY <1>0, <4>2 DEF StopStates
      <4>4. stopping' = [stopping EXCEPT ![c] = z]
        BY <3>2, <4>1, <4>2 DEF Becomes
      <4> QED BY <1>0, <3>2, <4>1, <4>3, <4>4
    <3> QED BY <1>7, <3>1, <3>2 DEF EndClaimed
  <2>5. PICK y \in RunStates :
           /\ run' = [run EXCEPT ![r] = y] /\ RunShape(y) /\ y.claim = "none" /\ y.step # "none"
           /\ y.completed = run[r].completed
           /\ current' = 0 \/ (current' = r /\ ~RunEnded(y))
    BY <2>3
  <2>6. (\A d \in StopCalls : StopDeletes(d)') /\ stopping' \in [StopCalls -> StopStates]
    BY <2>3, <2>4, DeletesStay
  <2>7. stopping'[c] = z /\ \A d \in StopCalls : d # c => stopping'[d] = stopping[d]
    BY <1>0, <2>4
  <2>8. Owned'
    <3>1. \A d \in StopCalls : stopping'[d] = stopping[d] \/ stopping'[d].step \notin {"quiesce", "retry"}
      BY <2>4, <2>7
    <3>2. stopping'[run[r].claim].step \notin {"quiesce", "retry"} /\ run[r].claim # "close" /\ closing' = closing
      BY <1>4, <1>5, <2>0, <2>4, <2>7
    <3> QED BY <1>4, <2>5, <3>1, <3>2, OwnedEnds
  <2> QED BY <1>0, <1>4, <2>0, <2>3, <2>4, <2>5, <2>6, <2>8, EndTypes
<1>8. CASE RollbackTerminal(c)
  <2>0. UNCHANGED <<current, slot, defined, closing, inflight, refused, announced, failures>> /\ Returns(c)
    BY <1>8 DEF RollbackTerminal, faultVars
  <2>1. PICK o \in Owners : o = "none"
    BY DEF Owners
  <2>2. PICK y \in RunStates : y = [run[r] EXCEPT !.claim = o]
    BY <1>4 DEF RunStates
  <2>3. Reclaimed(run[r], y) /\ y.claim = "none"
    BY <1>4, <2>1, <2>2 DEF RunStates, Reclaimed
  <2>4. run' = [run EXCEPT ![r] = y]
    BY <1>3, <1>8, <2>1, <2>2 DEF RollbackTerminal
  <2>5. /\ RunShape(y) /\ y.completed = run[r].completed /\ y.step = run[r].step
        /\ (RunEnded(y) <=> RunEnded(run[r])) /\ SlotKept' /\ SaidOnce'
    BY <1>4, <2>0, <2>3, <2>4, ClaimFacts
  <2>6. /\ stopping' = [stopping EXCEPT ![c] = NoStop] /\ deleting' \in BOOLEAN
        /\ deleting' = deleting \/ stopping[c].delete
    BY <1>6, <2>0
  <2>7. (\A d \in StopCalls : StopDeletes(d)') /\ stopping' \in [StopCalls -> StopStates]
    BY <1>1, <2>0, <2>6, DeletesStay
  <2>8. stopping'[c] = NoStop /\ \A d \in StopCalls : d # c => stopping'[d] = stopping[d]
    BY <1>0, <2>6
  <2>9. Owned'
    BY <1>1, <1>4, <1>5, <2>0, <2>3, <2>4, <2>5, <2>8, OwnedEnds
  <2> QED BY <1>0, <1>4, <2>0, <2>4, <2>5, <2>6, <2>7, <2>9, EndTypes
<1> QED BY <1>7, <1>8

(* Close: the current run is ended without a record, or with the one that  *)
(* is pending; then its goroutines and the deliveries are waited for.      *)
LEMMA ClosingKeepsRuns ==
    ASSUME ObInv, BeginClose \/ CloseDeliveries \/ ManagerClosed
    PROVE  ObInv'
<1>1. /\ UNCHANGED <<run, current, slot, defined, deleting, stopping, inflight, refused, announced, failures>>
      /\ closing.step # "stop"
      /\ closing' \in CloseStates /\ closing'.step \in {"claim", "draining", "closed"}
      /\ closing'.step \in {"draining", "closed"} =>
            WorkersDone \/ closing.step = "draining"
      /\ closing'.step = "closed" => inflight = {}
  BY DEF BeginClose, CloseDeliveries, ManagerClosed, CloseAt, CloseStates, faultVars
<1>2. ObservablesTyped'
  BY <1>1 DEF ObInv, ObservablesTyped
<1>3. \A r \in Runs : RunShape(run'[r])
  BY <1>1 DEF ObInv
<1>4. Owned'
  <2>1. \A r \in Runs : RunOwned(r)'
    BY <1>1 DEF ObInv, Owned, RunOwned
  <2>2. \A c \in StopCalls : StopClaims(c)'
    BY <1>1 DEF ObInv, Owned, StopClaims
  <2> QED BY <1>1, <2>1, <2>2 DEF Owned, CloseClaimed
<1>5. \A c \in StopCalls : StopDeletes(c)'
  BY <1>1 DEF ObInv, StopDeletes
<1>6. CloseQuiet'
  BY <1>1 DEF ObInv, CloseQuiet, WorkersDone
<1>7. SlotKept' /\ SaidOnce'
  BY <1>1 DEF ObInv, SlotKept, SaidOnce
<1> QED BY <1>2, <1>3, <1>4, <1>5, <1>6, <1>7 DEF ObInv

LEMMA CloseEndsKeeps ==
    ASSUME ObInv, CloseEnds
    PROVE  ObInv'
<1>0. /\ failures \in Nat /\ defined \in BOOLEAN /\ deleting \in BOOLEAN /\ current \in Runs \cup {0}
      /\ stopping \in [StopCalls -> StopStates] /\ closing \in CloseStates
      /\ announced \in Seq(Outcomes \X Runs)
      /\ UNCHANGED <<slot, defined, deleting, stopping, inflight, refused>>
  BY DEF ObInv, ObservablesTyped, CloseEnds
<1>1. PICK r \in Runs : r = closing.run /\ run[r].claim = "close"
  BY DEF ObInv, Owned, CloseClaimed, CloseEnds
<1>2. /\ current = r /\ run[r].step # "none" /\ ~RunEnded(run[r])
      /\ run[r] \in RunStates /\ RunShape(run[r])
  <2>1. RunOwned(r) /\ run[r] \in RunStates /\ RunShape(run[r])
    BY RunIs DEF ObInv, Owned
  <2> QED BY <1>1, <2>1 DEF RunOwned
<1>3. "close" \notin StopCalls /\ "none" \notin StopCalls
  BY StopNames
<1>4. closing' \in CloseStates /\ closing'.step \in {"claim", "failed"}
  <2>1. PICK s \in {"claim", "failed"} : CloseAt(s, 0)
    BY DEF CloseEnds
  <2> QED BY <2>1 DEF CloseAt, CloseStates
<1>5. CASE run[r].pending = "none"
  <2>0. /\ run' = [run EXCEPT ![r] = [run[r] EXCEPT !.shutdown = TRUE, !.claim = "none",
                                   !.final = IF run[r].completed THEN "due" ELSE @]]
        /\ current' = 0 /\ UNCHANGED <<announced, failures>>
    BY <1>1, <1>5 DEF CloseEnds
  <2>1. PICK o \in Owners, b \in {TRUE}, due \in {"due"} : o = "none"
    BY DEF Owners
  <2>2. PICK f \in {"none", "due", "emitted", "done"} : f = IF run[r].completed THEN due ELSE run[r].final
    BY <1>2, <2>1 DEF RunStates
  <2>3. PICK y \in RunStates : y = [run[r] EXCEPT !.shutdown = b, !.claim = o, !.final = f]
    BY <1>2, <2>1 DEF RunStates
  <2>4. /\ y.pending = run[r].pending /\ y.completed = run[r].completed /\ y.step = run[r].step
        /\ y.durable = run[r].durable /\ y.shutdown /\ y.reported = run[r].reported
        /\ y.event = run[r].event /\ y.final = f /\ y.claim = "none"
        /\ y.records = run[r].records /\ y.child = run[r].child /\ y.ended = run[r].ended
    BY <1>2, <2>1, <2>3 DEF RunStates
  <2>5. run' = [run EXCEPT ![r] = y]
    <3>1. run' = [run EXCEPT ![r] = [run[r] EXCEPT !.shutdown = b, !.claim = o,
                                   !.final = IF run[r].completed THEN due ELSE run[r].final]]
      <4>1. run' = [run EXCEPT ![r] = [run[r] EXCEPT !.shutdown = TRUE, !.claim = "none",
                                   !.final = IF run[r].completed THEN "due" ELSE run[r].final]]
        BY <2>0
      <4>2. b = TRUE /\ o = "none" /\ due = "due"
        BY <2>1
      <4> QED BY <4>1, <4>2
    <3> QED BY <2>2, <2>3, <3>1
  <2>6. run[r].final = "none" /\ ~run[r].durable /\ ~run[r].reported /\ f = IF run[r].completed THEN "due" ELSE "none"
    BY <1>2, <1>5, <2>1, <2>2 DEF RunShape, RunEnded
  <2>7. RunShape(y)
    BY <1>2, <1>5, <2>4, <2>6 DEF RunShape, Live, RunEnded, Told
  <2>8. (Said(y) <=> Said(run[r])) /\ y.final # "done" /\ y.step # "none"
    BY <1>2, <2>4, <2>6 DEF Said, Told
  <2>9. SlotKept' /\ SaidOnce'
    BY <1>0, <1>2, <2>0, <2>5, <2>6, <2>8, SlotStays, SaidStays
  <2>10. Owned'
    <3>1. \A d \in StopCalls : stopping'[d] = stopping[d]
      BY <1>0
    <3>2. run[r].claim \notin StopCalls
      BY <1>1, <1>3
    <3>3. closing'.step # "stop"
      BY <1>4
    <3>4. current' = 0
      BY <2>0
    <3> QED BY <1>2, <2>4, <2>5, <2>8, <3>1, <3>2, <3>3, <3>4, OwnedEnds
  <2>11. \A d \in StopCalls : StopDeletes(d)'
    BY <1>0, <2>0 DEF ObInv, StopDeletes
  <2> QED BY <1>0, <1>2, <1>4, <2>0, <2>4, <2>5, <2>7, <2>9, <2>10, <2>11, EndTypes
<1>6. CASE run[r].pending # "none"
  <2>1. CommitTerminal(r, run[r], run[r].pending, FALSE)
    BY <1>1, <1>6 DEF CloseEnds
  <2>2. PICK outcome \in Outcomes : outcome = run[r].pending
    BY <1>2 DEF RunStates
  <2>3. PICK emit \in BOOLEAN : emit = FALSE
    OBVIOUS
  <2>4. SameEnd(run[r], run[r]) /\ SameWay(run[r], run[r])
    BY <1>2 DEF SameEnd, SameWay, RunShape
  <2>5. CommitTerminal(r, run[r], outcome, emit)
    BY <2>1, <2>2, <2>3
  <2>6. /\ \E y \in RunStates :
              /\ run' = [run EXCEPT ![r] = y] /\ RunShape(y) /\ y.claim = "none" /\ y.step # "none"
              /\ y.completed = run[r].completed
              /\ current' = 0 \/ (current' = r /\ ~RunEnded(y))
        /\ SlotKept' /\ SaidOnce' /\ announced' \in Seq(Outcomes \X Runs) /\ failures' \in Nat
        /\ current' \in {0, current}
    BY <1>0, <1>2, <1>6, <2>2, <2>3, <2>4, <2>5, CommitFacts
  <2>7. PICK y \in RunStates :
           /\ run' = [run EXCEPT ![r] = y] /\ RunShape(y) /\ y.claim = "none" /\ y.step # "none"
           /\ y.completed = run[r].completed
           /\ current' = 0 \/ (current' = r /\ ~RunEnded(y))
    BY <2>6
  <2>8. Owned'
    BY <1>0, <1>1, <1>2, <1>3, <1>4, <2>7, OwnedEnds
  <2>9. \A d \in StopCalls : StopDeletes(d)'
    BY <1>0, <2>6 DEF ObInv, StopDeletes
  <2> QED BY <1>0, <1>2, <1>4, <2>6, <2>7, <2>8, <2>9, EndTypes
<1> QED BY <1>5, <1>6

LEMMA ObKeeps == ObInv /\ [ONext]_ovars => ObInv'
<1> SUFFICES ASSUME ObInv, [ONext]_ovars PROVE ObInv'
  OBVIOUS
<1>1. ASSUME NEW r \in Runs, RunStep(r) PROVE ObInv'
  BY <1>1, StartKeeps, StartingKeeps, OutputGoesOn, FinishKeeps, AnnouncingKeeps DEF RunStep
<1>2. ASSUME NEW c \in StopCalls, StopStep(c) PROVE ObInv'
  BY <1>2, StopCallsKeep, ClaimKeeps, EndClaimedKeeps DEF StopStep
<1>3. CASE CloseStep
  BY <1>3, ClosingKeepsRuns, ClaimKeeps, CloseEndsKeeps DEF CloseStep
<1> QED BY <1>1, <1>2, <1>3, OthersKeep DEF ONext

(* The invariant of the Manager, while it takes steps: who owns the end of *)
(* a run, which ends are recorded and announced, and who still delivers    *)
(* (features/observables/manager.go, source_command.go).                   *)
THEOREM ObservablesInvariant == Spec => [](subject = "observables" => ObInv)
<1>1. Init => (subject = "observables" => ObInv)
  BY ObservablesStart DEF Init
<1>2. (subject = "observables" => ObInv) /\ [Next]_vars => (subject = "observables" => ObInv)'
  <2> SUFFICES ASSUME subject = "observables" => ObInv, [Next]_vars, subject' = "observables" PROVE ObInv'
    OBVIOUS
  <2>1. subject = "observables" /\ [ONext]_ovars
    BY DEF Next, vars, observableVars, ovars
  <2> QED BY <2>1, ObKeeps
<1> QED BY <1>1, <1>2, PTL DEF Spec

(* For any number of runs and of Stop, Delete and Close calls racing to    *)
(* end them, and whichever record cannot be written: a run is recorded and *)
(* announced as ended once, in the order of the runs, nothing recorded is  *)
(* refused, and Close leaves no child, goroutine or delivery behind        *)
(* (finishRun, claimTerminal, commitTerminal, Close).                      *)
THEOREM ObservablesEndAlways == Spec => []ObservablesEnd
<1>1. (subject = "observables" => ObInv) => ObservablesEnd
  BY ObservablesAreSafe DEF ObservablesEnd
<1> QED BY <1>1, ObservablesInvariant, PTL

=============================================================================
