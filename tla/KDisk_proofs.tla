---------------------------- MODULE KDisk_proofs ----------------------------
(***************************************************************************)
(* What KDisk promises of menuconfig's and nconfig's boxes, of what the    *)
(* front ends save and of what make derives from .config, for any menus,   *)
(* texts, choices, keys, symbols and files.                                *)
(*                                                                         *)
(* Fields: each is the one of KEntry.  The list of a choice's values,      *)
(* menus and texts: what the rows show is determined by where they begin   *)
(* and what is chosen.  make: what has been touched covers the way from    *)
(* what was compiled.  Front ends: the theorems of KFront_proofs hold of   *)
(* their instances.                                                        *)
(***************************************************************************)
EXTENDS KDisk, SequenceTheorems, WellFoundedInduction, TLAPS

(***************************************************************************)
(* A text with a cursor behind its first p letters.                        *)
(***************************************************************************)
LEMMA Halves ==
    ASSUME NEW L, NEW s \in Seq(L), NEW p \in 0..Len(s)
    PROVE  /\ SubSeq(s, 1, p) \in Seq(L) /\ SubSeq(s, p + 1, Len(s)) \in Seq(L)
           /\ Len(SubSeq(s, 1, p)) = p /\ Len(SubSeq(s, p + 1, Len(s))) = Len(s) - p
           /\ \A i \in 1..p : SubSeq(s, 1, p)[i] = s[i]
           /\ \A i \in 1..Len(s) - p : SubSeq(s, p + 1, Len(s))[i] = s[p + i]
           /\ SubSeq(s, 1, p) \o SubSeq(s, p + 1, Len(s)) = s
<1>1. p \in Int /\ Len(s) \in Nat /\ p + 1 \in Int /\ \A i \in 1..Len(s) : s[i] \in L
  OBVIOUS
<1>2. PICK b, a : b = SubSeq(s, 1, p) /\ a = SubSeq(s, p + 1, Len(s))
  OBVIOUS
<1>3. b \in Seq(L) /\ Len(b) = p /\ \A i \in 1..p : b[i] = s[i]
  BY <1>1, <1>2, SubSeqProperties
<1>4. a \in Seq(L) /\ Len(a) = Len(s) - p /\ \A i \in 1..Len(s) - p : a[i] = s[p + i]
  BY <1>1, <1>2, SubSeqProperties
<1>5. PICK t : t = b \o a
  OBVIOUS
<1>6. t \in Seq(L) /\ Len(t) = Len(s) /\ \A i \in 1..Len(s) : t[i] = s[i]
  <2>1. t \in Seq(L) /\ Len(t) = Len(b) + Len(a)
        /\ \A i \in 1..Len(b) + Len(a) : t[i] = IF i <= Len(b) THEN b[i] ELSE a[i - Len(b)]
    BY <1>3, <1>4, <1>5, ConcatProperties
  <2> QED BY <1>1, <1>3, <1>4, <2>1
<1>7. t = s
  BY <1>6, SeqEqual
<1> QED BY <1>2, <1>3, <1>4, <1>5, <1>7

\* Two texts whose letters before, or after, the cursor are the same
UpTo(s, p) == SubSeq(s, 1, p)
Rest(s, p) == SubSeq(s, p + 1, Len(s))

LEMMA SameUpTo ==
    ASSUME NEW L, NEW s \in Seq(L), NEW p \in 0..Len(s), NEW t \in Seq(L), p \in 0..Len(t),
           \A i \in 1..p : s[i] = t[i]
    PROVE  UpTo(s, p) = UpTo(t, p)
<1>1. PICK b, d : b = SubSeq(s, 1, p) /\ d = SubSeq(t, 1, p)
  OBVIOUS
<1>2. b \in Seq(L) /\ Len(b) = p /\ \A i \in 1..p : b[i] = s[i]
  BY <1>1, Halves
<1>3. d \in Seq(L) /\ Len(d) = p /\ \A i \in 1..p : d[i] = t[i]
  BY <1>1, Halves
<1>4. Len(b) = Len(d) /\ \A i \in 1..Len(b) : b[i] = d[i]
  BY <1>2, <1>3
<1>5. b = d
  BY ONLY <1>2, <1>3, <1>4, SeqEqual
<1> QED BY <1>1, <1>5 DEF UpTo

RestsAgree(s, p, t, q) == Len(s) - p = Len(t) - q /\ \A i \in 1..Len(s) - p : s[p + i] = t[q + i]

LEMMA SameRest ==
    ASSUME NEW L, NEW s \in Seq(L), NEW p \in 0..Len(s), NEW t \in Seq(L), NEW q \in 0..Len(t),
           RestsAgree(s, p, t, q)
    PROVE  Rest(s, p) = Rest(t, q)
<1>0. Len(s) - p = Len(t) - q /\ \A i \in 1..Len(s) - p : s[p + i] = t[q + i]
  BY DEF RestsAgree
<1>1. PICK a, c : a = SubSeq(s, p + 1, Len(s)) /\ c = SubSeq(t, q + 1, Len(t))
  OBVIOUS
<1>2. a \in Seq(L) /\ Len(a) = Len(s) - p /\ \A i \in 1..Len(s) - p : a[i] = s[p + i]
  BY <1>1, Halves
<1>3. c \in Seq(L) /\ Len(c) = Len(t) - q /\ \A i \in 1..Len(t) - q : c[i] = t[q + i]
  BY <1>1, Halves
<1>4. Len(a) = Len(c) /\ \A i \in 1..Len(a) : a[i] = c[i]
  BY ONLY <1>0, <1>2, <1>3
<1>5. a = c
  BY ONLY <1>2, <1>3, <1>4, SeqEqual
<1> QED BY <1>1, <1>5 DEF Rest

\* The text with the letter k typed in front of the cursor
Inserted(s, p, k) == SubSeq(s, 1, p) \o <<k>> \o SubSeq(s, p + 1, Len(s))

IsInserted(L, t, s, p, k) ==
    /\ t \in Seq(L) /\ Len(t) = Len(s) + 1
    /\ \A i \in 1..p : t[i] = s[i]
    /\ t[p + 1] = k
    /\ \A i \in p + 2..Len(s) + 1 : t[i] = s[i - 1]

HalvesInserted(t, s, p, k) ==
    /\ SubSeq(t, 1, p + 1) = Append(SubSeq(s, 1, p), k)
    /\ SubSeq(t, p + 2, Len(t)) = SubSeq(s, p + 1, Len(s))

LEMMA Typed ==
    ASSUME NEW L, NEW s \in Seq(L), NEW p \in 0..Len(s), NEW k \in L,
           NEW t, t = Inserted(s, p, k)
    PROVE  IsInserted(L, t, s, p, k)
<1>0. p \in Nat /\ Len(s) \in Nat /\ p <= Len(s)
  OBVIOUS
<1>1. PICK b, a : b = SubSeq(s, 1, p) /\ a = SubSeq(s, p + 1, Len(s))
  OBVIOUS
<1>2. /\ b \in Seq(L) /\ Len(b) = p /\ \A i \in 1..p : b[i] = s[i]
      /\ a \in Seq(L) /\ Len(a) = Len(s) - p /\ \A i \in 1..Len(s) - p : a[i] = s[p + i]
  BY <1>1, Halves
<1>3. PICK d : d = Append(b, k)
  OBVIOUS
<1>4. d \in Seq(L) /\ Len(d) = p + 1 /\ (\A i \in 1..p : d[i] = b[i]) /\ d[p + 1] = k
  BY <1>2, <1>3, AppendProperties
<1>5. b \o <<k>> = d
  <2>1. PICK c : c = b \o <<k>>
    OBVIOUS
  <2>2. c \in Seq(L) /\ Len(c) = p + 1 /\ \A i \in 1..p + 1 : c[i] = IF i <= p THEN b[i] ELSE k
    <3>1. <<k>> \in Seq(L) /\ Len(<<k>>) = 1 /\ <<k>>[1] = k
      OBVIOUS
    <3>2. /\ c \in Seq(L) /\ Len(c) = Len(b) + 1
          /\ \A i \in 1..Len(b) + 1 : c[i] = IF i <= Len(b) THEN b[i] ELSE <<k>>[i - Len(b)]
      BY <1>2, <2>1, <3>1, ConcatProperties
    <3>3. \A i \in 1..p + 1 : ~(i <= p) => i - p = 1
      OBVIOUS
    <3> QED BY <1>2, <3>1, <3>2, <3>3
  <2>3. Len(c) = Len(d) /\ \A i \in 1..Len(c) : c[i] = d[i]
    <3>1. \A i \in 1..p + 1 : i <= p \/ i = p + 1
      OBVIOUS
    <3> QED BY <1>4, <2>2, <3>1
  <2> QED BY <1>4, <2>1, <2>2, <2>3, SeqEqual
<1>6. t = d \o a
  BY <1>1, <1>5 DEF Inserted
<1>7. /\ t \in Seq(L) /\ Len(t) = Len(s) + 1
      /\ \A i \in 1..Len(s) + 1 : t[i] = IF i <= p + 1 THEN d[i] ELSE a[i - (p + 1)]
  <2>1. /\ t \in Seq(L) /\ Len(t) = Len(d) + Len(a)
        /\ \A i \in 1..Len(d) + Len(a) : t[i] = IF i <= Len(d) THEN d[i] ELSE a[i - Len(d)]
    <3>1. a \in Seq(L) /\ d \in Seq(L)
      BY ONLY <1>2, <1>4
    <3> QED BY ONLY <1>6, <3>1, ConcatProperties
  <2>2. Len(d) + Len(a) = Len(s) + 1 /\ Len(d) = p + 1
    BY ONLY <1>0, <1>2, <1>4
  <2> QED BY ONLY <2>1, <2>2
<1>8. /\ \A i \in 1..p : t[i] = s[i]
      /\ t[p + 1] = k
      /\ \A i \in p + 2..Len(s) + 1 : t[i] = s[i - 1]
  <2>1. \A i \in 1..p : i \in 1..Len(s) + 1 /\ i <= p + 1
    BY ONLY <1>0
  <2>2. p + 1 \in 1..Len(s) + 1 /\ p + 1 <= p + 1
    BY ONLY <1>0
  <2>3. \A i \in p + 2..Len(s) + 1 : /\ i \in 1..Len(s) + 1 /\ ~(i <= p + 1)
                                     /\ i - (p + 1) \in 1..Len(s) - p /\ p + (i - (p + 1)) = i - 1
    BY ONLY <1>0
  <2>4. \A i \in 1..p : t[i] = s[i]
    BY ONLY <1>2, <1>4, <1>7, <2>1
  <2>5. t[p + 1] = k
    BY ONLY <1>4, <1>7, <2>2
  <2>6. \A i \in p + 2..Len(s) + 1 : t[i] = s[i - 1]
    BY ONLY <1>2, <1>7, <2>3
  <2> QED BY ONLY <2>4, <2>5, <2>6
<1> QED BY ONLY <1>7, <1>8 DEF IsInserted

LEMMA TypedHalves ==
    ASSUME NEW L, NEW s \in Seq(L), NEW p \in 0..Len(s), NEW k \in L,
           NEW t, t = Inserted(s, p, k)
    PROVE  HalvesInserted(t, s, p, k)
<1>0. p \in Nat /\ Len(s) \in Nat /\ p <= Len(s) /\ s \in Seq(L) /\ p \in 0..Len(s)
  OBVIOUS
<1>1. PICK b, d : b = SubSeq(s, 1, p) /\ d = Append(b, k)
  OBVIOUS
<1>2. b \in Seq(L) /\ Len(b) = p /\ \A i \in 1..p : b[i] = s[i]
  BY <1>1, Halves
<1>4. d \in Seq(L) /\ Len(d) = p + 1 /\ (\A i \in 1..p : d[i] = s[i]) /\ d[p + 1] = k
  BY <1>1, <1>2, AppendProperties
<1>6. IsInserted(L, t, s, p, k)
  BY Typed
<1>7. t \in Seq(L) /\ Len(t) = Len(s) + 1
  BY ONLY <1>6 DEF IsInserted
<1>8. /\ \A i \in 1..p : t[i] = s[i]
      /\ t[p + 1] = k
      /\ \A i \in p + 2..Len(s) + 1 : t[i] = s[i - 1]
  BY ONLY <1>6 DEF IsInserted
<1>9. SubSeq(t, 1, p + 1) = d
  <2>1. p + 1 \in 0..Len(t) /\ p + 1 \in 0..Len(d)
    BY ONLY <1>0, <1>4, <1>7
  <2>2. \A i \in 1..p + 1 : t[i] = d[i]
    <3>1. \A i \in 1..p + 1 : i \in 1..p \/ i = p + 1
      BY ONLY <1>0
    <3> QED BY ONLY <1>4, <1>8, <3>1
  <2>3. UpTo(t, p + 1) = UpTo(d, p + 1)
    BY ONLY <1>4, <1>7, <2>1, <2>2, SameUpTo
  <2> QED BY <1>4, <2>3, SubSeqFull DEF UpTo
<1>10. SubSeq(t, p + 2, Len(t)) = SubSeq(s, p + 1, Len(s))
  <2>1. p + 1 \in 0..Len(t) /\ Len(t) - (p + 1) = Len(s) - p /\ p + 2 = (p + 1) + 1
    BY ONLY <1>0, <1>7
  <2>2. \A i \in 1..Len(s) - p : t[p + 1 + i] = s[p + i]
    <3>1. \A i \in 1..Len(s) - p : p + 1 + i \in p + 2..Len(s) + 1 /\ (p + 1 + i) - 1 = p + i
      BY ONLY <1>0
    <3> QED BY ONLY <1>8, <3>1
  <2>3. Rest(t, p + 1) = Rest(s, p)
    <3>1. PICK q : q = p + 1
      OBVIOUS
    <3>2. /\ t \in Seq(L) /\ q \in 0..Len(t) /\ s \in Seq(L) /\ p \in 0..Len(s)
          /\ RestsAgree(t, q, s, p)
      BY ONLY <1>0, <1>7, <2>1, <2>2, <3>1 DEF RestsAgree
    <3>3. Rest(t, q) = Rest(s, p)
      BY ONLY <3>2, SameRest
    <3> QED BY ONLY <3>1, <3>3
  <2> QED BY ONLY <2>1, <2>3 DEF Rest
<1> QED BY ONLY <1>1, <1>9, <1>10 DEF HalvesInserted

\* The text without the letter after the first p
Without(s, p) == SubSeq(s, 1, (p + 1) - 1) \o SubSeq(s, (p + 1) + 1, Len(s))

LEMMA Erased ==
    ASSUME NEW L, NEW s \in Seq(L), NEW p \in 0..Len(s) - 1,
           NEW t, t = Without(s, p)
    PROVE  /\ t \in Seq(L) /\ Len(t) = Len(s) - 1
           /\ \A i \in 1..p : t[i] = s[i]
           /\ \A i \in p + 1..Len(t) : t[i] = s[i + 1]
           /\ SubSeq(t, 1, p) = SubSeq(s, 1, p)
           /\ SubSeq(t, p + 1, Len(t)) = SubSeq(s, p + 2, Len(s))
<1>0. /\ p \in 0..Len(s) /\ p + 1 \in 0..Len(s) /\ (p + 1) - 1 = p /\ (p + 1) + 1 = p + 2
      /\ Len(s) \in Nat /\ p \in Nat /\ p < Len(s)
  OBVIOUS
<1>00. s \in Seq(L)
  OBVIOUS
<1>1. PICK b, a : b = SubSeq(s, 1, p) /\ a = SubSeq(s, (p + 1) + 1, Len(s))
  OBVIOUS
<1>2. /\ b \in Seq(L) /\ Len(b) = p /\ \A i \in 1..p : b[i] = s[i]
  BY <1>0, <1>1, Halves
<1>3. /\ a \in Seq(L) /\ Len(a) = Len(s) - (p + 1) /\ \A i \in 1..Len(s) - (p + 1) : a[i] = s[p + 1 + i]
  BY <1>0, <1>1, Halves
<1>4. t = b \o a
  BY <1>0, <1>1 DEF Without
<1>5. /\ t \in Seq(L) /\ Len(t) = Len(s) - 1
      /\ \A i \in 1..Len(s) - 1 : t[i] = IF i <= p THEN b[i] ELSE a[i - p]
  <2>1. /\ t \in Seq(L) /\ Len(t) = Len(b) + Len(a)
        /\ \A i \in 1..Len(b) + Len(a) : t[i] = IF i <= Len(b) THEN b[i] ELSE a[i - Len(b)]
    BY ONLY <1>2, <1>3, <1>4, ConcatProperties
  <2>2. Len(b) + Len(a) = Len(s) - 1 /\ Len(b) = p
    BY ONLY <1>0, <1>2, <1>3
  <2> QED BY ONLY <2>1, <2>2
<1>6. /\ \A i \in 1..p : t[i] = s[i]
      /\ \A i \in p + 1..Len(s) - 1 : t[i] = s[i + 1]
  <2>1. \A i \in 1..p : i \in 1..Len(s) - 1 /\ i <= p
    BY ONLY <1>0
  <2>2. \A i \in p + 1..Len(s) - 1 : /\ i \in 1..Len(s) - 1 /\ ~(i <= p)
                                     /\ i - p \in 1..Len(s) - (p + 1) /\ p + 1 + (i - p) = i + 1
    BY ONLY <1>0
  <2>3. \A i \in 1..p : t[i] = s[i]
    BY ONLY <1>2, <1>5, <2>1
  <2>4. \A i \in p + 1..Len(s) - 1 : t[i] = s[i + 1]
    BY ONLY <1>3, <1>5, <2>2
  <2> QED BY ONLY <2>3, <2>4
<1>7. p \in 0..Len(t)
  BY ONLY <1>0, <1>5
<1>8. UpTo(t, p) = UpTo(s, p)
  BY ONLY <1>0, <1>00, <1>5, <1>6, <1>7, SameUpTo
<1>9. Rest(t, p) = Rest(s, p + 1)
  <2>1. Len(t) - p = Len(s) - (p + 1)
    BY ONLY <1>0, <1>5
  <2>2. \A i \in 1..Len(t) - p : t[p + i] = s[p + 1 + i]
    <3>1. \A i \in 1..Len(s) - (p + 1) : p + i \in p + 1..Len(s) - 1 /\ (p + i) + 1 = p + 1 + i
      BY ONLY <1>0
    <3> QED BY ONLY <1>6, <2>1, <3>1
  <2>3. PICK q : q = p + 1
    OBVIOUS
  <2>4. /\ t \in Seq(L) /\ p \in 0..Len(t) /\ s \in Seq(L) /\ q \in 0..Len(s)
        /\ RestsAgree(t, p, s, q)
    BY ONLY <1>0, <1>00, <1>5, <1>7, <2>1, <2>2, <2>3 DEF RestsAgree
  <2>5. Rest(t, p) = Rest(s, q)
    BY ONLY <2>4, SameRest
  <2> QED BY ONLY <2>3, <2>5
<1> QED BY <1>0, <1>5, <1>6, <1>8, <1>9 DEF UpTo, Rest

\* What an entry's keys make of a text with a cursor
LEMMA Around ==
    ASSUME NEW L, NEW s \in Seq(L), NEW p \in 0..Len(s)
    PROVE  /\ p > 0 => SubSeq(SubSeq(s, 1, p), 1, p - 1) = SubSeq(s, 1, p - 1)
           /\ p > 0 => <<SubSeq(s, 1, p)[p]>> \o SubSeq(s, p + 1, Len(s)) = SubSeq(s, p, Len(s))
           /\ p < Len(s) => Tail(SubSeq(s, p + 1, Len(s))) = SubSeq(s, p + 2, Len(s))
           /\ p < Len(s) => Append(SubSeq(s, 1, p), Head(SubSeq(s, p + 1, Len(s)))) = SubSeq(s, 1, p + 1)
           /\ SubSeq(s, 1, p) = <<>> <=> p = 0
           /\ SubSeq(s, p + 1, Len(s)) = <<>> <=> p = Len(s)
<1>0. s \in Seq(L) /\ Len(s) \in Nat /\ p \in Nat /\ p <= Len(s) /\ p \in 0..Len(s)
  OBVIOUS
<1>1. PICK b, a : b = SubSeq(s, 1, p) /\ a = SubSeq(s, p + 1, Len(s))
  OBVIOUS
<1>2. /\ b \in Seq(L) /\ Len(b) = p /\ \A i \in 1..p : b[i] = s[i]
      /\ a \in Seq(L) /\ Len(a) = Len(s) - p
  BY <1>1, Halves
<1>3. ASSUME p > 0 PROVE SubSeq(b, 1, p - 1) = SubSeq(s, 1, p - 1)
  <2>1. p - 1 \in 0..Len(b) /\ p - 1 \in 0..Len(s) /\ \A i \in 1..p - 1 : b[i] = s[i]
    BY ONLY <1>0, <1>2, <1>3
  <2>2. UpTo(b, p - 1) = UpTo(s, p - 1)
    BY ONLY <1>0, <1>2, <2>1, SameUpTo
  <2> QED BY ONLY <2>2 DEF UpTo
<1>4. ASSUME p > 0 PROVE <<b[p]>> \o a = SubSeq(s, p, Len(s))
  <2>1. p \in 1..Len(s) /\ Len(s) \in p..Len(s) /\ b[p] = s[p]
    BY ONLY <1>0, <1>2, <1>4
  <2> QED BY ONLY <1>0, <1>1, <2>1, SubSeqRecursiveFirst
<1>5. ASSUME p < Len(s)
      PROVE  /\ Tail(a) = SubSeq(s, p + 2, Len(s)) /\ Head(a) = s[p + 1]
             /\ Append(b, Head(a)) = SubSeq(s, 1, p + 1)
  <2>1. /\ p + 1 \in 1..Len(s) /\ Len(s) \in p + 1..Len(s) /\ (p + 1) + 1 = p + 2 /\ (p + 1) - 1 = p
        /\ 1 \in 1..Len(s) /\ p + 1 \in 1..p + 1
    BY ONLY <1>0, <1>5
  <2>2. Head(a) = s[p + 1] /\ Tail(a) = SubSeq(s, p + 2, Len(s))
    BY ONLY <1>0, <1>1, <2>1, HeadTailOfSubSeq
  <2>3. SubSeq(s, 1, p + 1) = b \o <<s[p + 1]>>
    BY ONLY <1>0, <1>1, <2>1, SubSeqRecursiveSecond
  <2>4. s[p + 1] \in L
    BY ONLY <1>0, <2>1
  <2>5. Append(b, s[p + 1]) = b \o <<s[p + 1]>>
    BY ONLY <1>2, <2>4, AppendIsConcat
  <2> QED BY ONLY <2>2, <2>3, <2>5
<1>6. b = <<>> <=> p = 0
  BY ONLY <1>2, EmptySeq
<1>7. a = <<>> <=> p = Len(s)
  <2>1. Len(a) = 0 <=> p = Len(s)
    BY ONLY <1>0, <1>2
  <2> QED BY ONLY <1>2, <2>1, EmptySeq
<1> QED BY <1>1, <1>3, <1>4, <1>5, <1>6, <1>7

-----------------------------------------------------------------------------
(***************************************************************************)
(* The field of menuconfig: what each of its keys makes of the halves.     *)
(***************************************************************************)
Instr ==
    /\ value \in Seq(Alphabet) /\ instr \in Seq(Alphabet) /\ pos \in 0..Len(instr)
    /\ open \in BOOLEAN
    /\ ~open => instr = <<>> /\ pos = 0

LEMMA InstrInit ==
    ASSUME Input!DigitsAssumption, Input!Init
    PROVE  Instr /\ Input!Entry!Init
<1>1. PICK d \in Digits : value = <<d>>
  BY DEF Input!Init
<1>2. d \in Alphabet /\ value \in Seq(Alphabet)
  BY <1>1 DEF Input!DigitsAssumption
<1>3. Input!Accepted(value)
  BY <1>1 DEF Input!Accepted, Input!Range
<1>4. instr = <<>> /\ pos = 0 /\ open = FALSE
  BY DEF Input!Init
<1>5. SubSeq(instr, 1, pos) = <<>> /\ SubSeq(instr, pos + 1, Len(instr)) = <<>>
  BY <1>4, Halves, EmptySeq
<1>6. Instr
  <2>1. instr \in Seq(Alphabet) /\ pos \in 0..Len(instr)
    BY ONLY <1>4, EmptySeq
  <2> QED BY ONLY <1>2, <1>4, <2>1 DEF Instr
<1> QED BY <1>3, <1>4, <1>5, <1>6 DEF Input!Entry!Init, Input!len

LEMMA InputTypes ==
    ASSUME Instr, Input!Type
    PROVE  Instr' /\ Input!Entry!Type /\ Len(instr') = Len(instr) + 1
<1>1. PICK k \in Alphabet : instr' = SubSeq(instr, 1, pos) \o <<k>> \o SubSeq(instr, pos + 1, Len(instr))
  BY DEF Input!Type, Input!len
<1>2. open /\ open' = open /\ value' = value /\ pos' = pos + 1
  BY DEF Input!Type, Input!InField, Input!Same
<1>3. /\ instr \in Seq(Alphabet) /\ pos \in 0..Len(instr) /\ value \in Seq(Alphabet) /\ open \in BOOLEAN
      /\ k \in Alphabet
  BY DEF Instr
<1>4. /\ instr' \in Seq(Alphabet) /\ Len(instr') = Len(instr) + 1
      /\ SubSeq(instr', 1, pos + 1) = Append(SubSeq(instr, 1, pos), k)
      /\ SubSeq(instr', pos + 2, Len(instr')) = SubSeq(instr, pos + 1, Len(instr))
  <2>1. PICK s, p, t : s = instr /\ p = pos /\ t = instr'
    OBVIOUS
  <2>2. /\ s \in Seq(Alphabet) /\ p \in 0..Len(s) /\ k \in Alphabet
        /\ t = Inserted(s, p, k)
    BY ONLY <1>1, <1>3, <2>1 DEF Inserted
  <2>3. /\ t \in Seq(Alphabet) /\ Len(t) = Len(s) + 1
        /\ SubSeq(t, 1, p + 1) = Append(SubSeq(s, 1, p), k)
        /\ SubSeq(t, p + 2, Len(t)) = SubSeq(s, p + 1, Len(s))
    <3>1. IsInserted(Alphabet, t, s, p, k) /\ HalvesInserted(t, s, p, k)
      BY ONLY <2>2, Typed, TypedHalves
    <3> QED BY ONLY <3>1 DEF IsInserted, HalvesInserted
  <2> QED BY ONLY <2>1, <2>3
<1>5. pos' \in 0..Len(instr') /\ pos' + 1 = pos + 2
  BY ONLY <1>2, <1>3, <1>4
<1>6. Instr'
  BY <1>2, <1>3, <1>4, <1>5 DEF Instr
<1>7. Input!Entry!Cursor(Append(SubSeq(instr, 1, pos), k), SubSeq(instr, pos + 1, Len(instr)))
  BY <1>2, <1>4, <1>5 DEF Input!Entry!Cursor, Input!len
<1> QED BY <1>4, <1>6, <1>7 DEF Input!Entry!Type, Input!len

LEMMA InputErases ==
    ASSUME Instr, Input!Backspace
    PROVE  Instr' /\ Input!Entry!Backspace /\ Len(instr') = Len(instr) - 1
<1>1. pos > 0 /\ pos' = pos - 1 /\ open /\ open' = open /\ value' = value
  BY DEF Input!Backspace, Input!InField, Input!Same
<1>2. instr' = SubSeq(instr, 1, pos - 1) \o SubSeq(instr, pos + 1, Len(instr))
  BY DEF Input!Backspace, Input!len
<1>3. /\ instr \in Seq(Alphabet) /\ pos \in 0..Len(instr) /\ value \in Seq(Alphabet) /\ open \in BOOLEAN
      /\ Len(instr) \in Nat
  BY DEF Instr
<1>4. PICK p \in 0..Len(instr) - 1 : p = pos - 1 /\ pos = p + 1 /\ pos' = p
  BY <1>1, <1>3
<1>5. /\ instr' \in Seq(Alphabet) /\ Len(instr') = Len(instr) - 1
      /\ SubSeq(instr', 1, p) = SubSeq(instr, 1, p)
      /\ SubSeq(instr', p + 1, Len(instr')) = SubSeq(instr, p + 2, Len(instr))
  <2>1. /\ p \in 0..Len(instr) - 1
        /\ instr' = SubSeq(instr, 1, (p + 1) - 1) \o SubSeq(instr, (p + 1) + 1, Len(instr))
    BY <1>2, <1>4
  <2>2. PICK s, t : s = instr /\ t = instr'
    OBVIOUS
  <2>3. /\ s \in Seq(Alphabet) /\ p \in 0..Len(s) - 1
        /\ t = Without(s, p)
    BY ONLY <1>3, <2>1, <2>2 DEF Without
  <2>4. /\ t \in Seq(Alphabet) /\ Len(t) = Len(s) - 1
        /\ SubSeq(t, 1, p) = SubSeq(s, 1, p)
        /\ SubSeq(t, p + 1, Len(t)) = SubSeq(s, p + 2, Len(s))
    BY ONLY <2>3, Erased
  <2> QED BY ONLY <2>2, <2>4
<1>6. p \in 0..Len(instr') /\ p + 2 = pos + 1
  BY <1>3, <1>4, <1>5
<1>7. Instr'
  BY <1>1, <1>3, <1>4, <1>5, <1>6 DEF Instr
<1>8. SubSeq(instr, 1, pos) # <<>> /\ SubSeq(SubSeq(instr, 1, pos), 1, pos - 1) = SubSeq(instr, 1, p)
  <2>1. pos # 0
    BY ONLY <1>1, <1>3
  <2> QED BY ONLY <1>1, <1>3, <1>4, <2>1, Around
<1>9. Len(SubSeq(instr, 1, pos)) = pos
  BY ONLY <1>3, Halves
<1>10. Input!Entry!Cursor(SubSeq(SubSeq(instr, 1, pos), 1, Len(SubSeq(instr, 1, pos)) - 1),
                          SubSeq(instr, pos + 1, Len(instr)))
  BY <1>1, <1>4, <1>5, <1>6, <1>8, <1>9 DEF Input!Entry!Cursor, Input!len
<1> QED BY <1>5, <1>7, <1>8, <1>10 DEF Input!Entry!Backspace, Input!len

LEMMA InputGoesLeft ==
    ASSUME Instr, Input!Left
    PROVE  Instr' /\ Input!Entry!Left
<1>1. pos > 0 /\ pos' = pos - 1 /\ open /\ open' = open /\ value' = value /\ instr' = instr
  BY DEF Input!Left, Input!InField, Input!Same
<1>2. /\ instr \in Seq(Alphabet) /\ pos \in 0..Len(instr) /\ value \in Seq(Alphabet) /\ open \in BOOLEAN
      /\ Len(instr) \in Nat
  BY DEF Instr
<1>3. pos' \in 0..Len(instr) /\ pos # 0 /\ pos' + 1 = pos
  BY ONLY <1>1, <1>2
<1>4. Instr'
  BY <1>1, <1>2, <1>3 DEF Instr
<1>5. /\ SubSeq(instr, 1, pos) # <<>> /\ Len(SubSeq(instr, 1, pos)) = pos
      /\ SubSeq(SubSeq(instr, 1, pos), 1, pos - 1) = SubSeq(instr, 1, pos - 1)
      /\ <<SubSeq(instr, 1, pos)[pos]>> \o SubSeq(instr, pos + 1, Len(instr)) = SubSeq(instr, pos, Len(instr))
  <2>1. Len(SubSeq(instr, 1, pos)) = pos
    BY ONLY <1>2, Halves
  <2>2. SubSeq(instr, 1, pos) # <<>>
    BY ONLY <1>2, <1>3, Around
  <2>3. SubSeq(SubSeq(instr, 1, pos), 1, pos - 1) = SubSeq(instr, 1, pos - 1)
    BY ONLY <1>1, <1>2, Around
  <2>4. <<SubSeq(instr, 1, pos)[pos]>> \o SubSeq(instr, pos + 1, Len(instr)) = SubSeq(instr, pos, Len(instr))
    BY ONLY <1>1, <1>2, Around
  <2> QED BY ONLY <2>1, <2>2, <2>3, <2>4
<1> QED BY <1>1, <1>3, <1>4, <1>5 DEF Input!Entry!Left, Input!Entry!Cursor, Input!len

LEMMA InputGoesRight ==
    ASSUME Instr, Input!Right
    PROVE  Instr' /\ Input!Entry!Right
<1>1. pos < Len(instr) /\ pos' = pos + 1 /\ open /\ open' = open /\ value' = value /\ instr' = instr
  BY DEF Input!Right, Input!InField, Input!Same, Input!len
<1>2. /\ instr \in Seq(Alphabet) /\ pos \in 0..Len(instr) /\ value \in Seq(Alphabet) /\ open \in BOOLEAN
      /\ Len(instr) \in Nat
  BY DEF Instr
<1>3. pos' \in 0..Len(instr) /\ pos # Len(instr) /\ pos' + 1 = pos + 2
  BY ONLY <1>1, <1>2
<1>4. Instr'
  BY <1>1, <1>2, <1>3 DEF Instr
<1>5. /\ SubSeq(instr, pos + 1, Len(instr)) # <<>>
      /\ Tail(SubSeq(instr, pos + 1, Len(instr))) = SubSeq(instr, pos + 2, Len(instr))
      /\ Append(SubSeq(instr, 1, pos), Head(SubSeq(instr, pos + 1, Len(instr)))) = SubSeq(instr, 1, pos + 1)
  BY ONLY <1>1, <1>2, <1>3, Around
<1> QED BY <1>1, <1>3, <1>4, <1>5 DEF Input!Entry!Right, Input!Entry!Cursor, Input!len

\* Resizing puts the cursor at the end.
LEMMA InputResizes ==
    ASSUME Instr, Input!Resize
    PROVE  Instr' /\ Input!Entry!End
<1>1. open /\ open' = open /\ value' = value /\ instr' = instr /\ pos' = Len(instr)
  BY DEF Input!Resize, Input!Draw
<1>2. /\ instr \in Seq(Alphabet) /\ pos \in 0..Len(instr) /\ value \in Seq(Alphabet) /\ open \in BOOLEAN
      /\ Len(instr) \in Nat /\ Len(instr) \in 0..Len(instr)
  BY DEF Instr
<1>3. Instr'
  BY <1>1, <1>2 DEF Instr
<1>4. SubSeq(instr, 1, pos) \o SubSeq(instr, pos + 1, Len(instr)) = instr
  BY ONLY <1>2, Halves
<1>5. SubSeq(instr, 1, Len(instr)) = instr /\ SubSeq(instr, Len(instr) + 1, Len(instr)) = <<>>
  BY ONLY <1>2, SubSeqFull, Around
<1> QED BY <1>1, <1>3, <1>4, <1>5 DEF Input!Entry!End, Input!Entry!Cursor, Input!len

\* A text that is shown, and a field that is gone
LEMMA InputOpens ==
    ASSUME Instr, Input!Opened
    PROVE  Instr' /\ Input!Entry!Shown
<1>1. open' = TRUE /\ value' = value /\ instr' = value /\ pos' = Len(value)
  BY DEF Input!Opened, Input!Draw
<1>2. value \in Seq(Alphabet) /\ Len(value) \in 0..Len(value)
  BY DEF Instr
<1>3. Instr'
  BY <1>1, <1>2 DEF Instr
<1>4. SubSeq(value, 1, Len(value)) = value /\ SubSeq(value, Len(value) + 1, Len(value)) = <<>>
  BY ONLY <1>2, SubSeqFull, Around
<1> QED BY <1>1, <1>3, <1>4 DEF Input!Entry!Shown, Input!len

LEMMA InputCloses ==
    ASSUME value' \in Seq(Alphabet), Input!Gone
    PROVE  Instr' /\ Input!Entry!Closed
<1>1. open' = FALSE /\ instr' = <<>> /\ pos' = 0
  BY DEF Input!Gone
<1>2. <<>> \in Seq(Alphabet) /\ Len(<<>>) = 0 /\ 0 \in 0..Len(<<>>)
  OBVIOUS
<1>3. Instr'
  BY <1>1, <1>2 DEF Instr
<1>4. SubSeq(<<>>, 1, 0) = <<>> /\ SubSeq(<<>>, 0 + 1, 0) = <<>>
  BY ONLY SubSeqEmpty
<1> QED BY <1>1, <1>2, <1>3, <1>4 DEF Input!Entry!Closed, Input!len

LEMMA InputNext ==
    ASSUME Instr, [Input!Next]_Input!vars
    PROVE  Instr' /\ [Input!Entry!Next]_Input!Entry!vars
<1>0. value \in Seq(Alphabet) /\ instr \in Seq(Alphabet) /\ pos \in 0..Len(instr) /\ open \in BOOLEAN
  BY DEF Instr
<1>1. CASE Input!Open
  BY <1>1, InputOpens DEF Input!Open, Input!Entry!Open, Input!Entry!Next
<1>2. CASE Input!Resize
  BY <1>2, InputResizes DEF Input!Entry!Next
<1>3. CASE Input!Type
  BY <1>3, InputTypes DEF Input!Entry!Next
<1>4. CASE Input!Backspace
  BY <1>4, InputErases DEF Input!Entry!Next
<1>5. CASE Input!Left
  BY <1>5, InputGoesLeft DEF Input!Entry!Next
<1>6. CASE Input!Right
  BY <1>6, InputGoesRight DEF Input!Entry!Next
<1>7. CASE Input!Ok
  <2>1. open /\ SubSeq(instr, 1, pos) \o SubSeq(instr, pos + 1, Len(instr)) = instr
    BY <1>0, <1>7, Halves DEF Input!Ok
  <2>2. CASE Input!Accepted(instr)
    <3>1. value' = instr /\ Input!Gone
      BY <1>7, <2>2 DEF Input!Ok
    <3>2. Instr' /\ Input!Entry!Closed
      BY <1>0, <3>1, InputCloses
    <3>3. Input!Entry!Enter
      BY <2>1, <2>2, <3>1, <3>2 DEF Input!Entry!Enter, Input!len
    <3> QED BY <3>2, <3>3 DEF Input!Entry!Next
  <2>3. CASE ~Input!Accepted(instr)
    <3>1. Instr' /\ Input!Entry!Shown
      BY <1>7, <2>3, InputOpens DEF Input!Ok
    <3>2. Input!Entry!Enter
      BY <2>1, <2>3, <3>1 DEF Input!Entry!Enter, Input!len
    <3> QED BY <3>1, <3>2 DEF Input!Entry!Next
  <2> QED BY <2>2, <2>3
<1>8. CASE Input!Help
  BY <1>8, InputOpens DEF Input!Help, Input!Entry!Help, Input!Entry!Next
<1>9. CASE Input!Escape
  <2>1. open /\ Input!Gone /\ value' = value
    BY <1>9 DEF Input!Escape
  <2>2. Instr' /\ Input!Entry!Closed
    BY <1>0, <2>1, InputCloses
  <2> QED BY <2>1, <2>2 DEF Input!Entry!Cancel, Input!Entry!Next
<1>10. ASSUME UNCHANGED <<value, instr, pos, open>>
       PROVE  Instr' /\ UNCHANGED Input!Entry!vars
  BY <1>10 DEF Instr, Input!Entry!vars, Input!len
<1>11. CASE Input!KeyUp \/ Input!KeyDown
  BY <1>10, <1>11 DEF Input!KeyUp, Input!KeyDown, Input!Go, Input!field
<1>12. CASE UNCHANGED Input!vars
  BY <1>10, <1>12 DEF Input!vars, Input!field
<1> QED BY <1>1, <1>2, <1>3, <1>4, <1>5, <1>6, <1>7, <1>8, <1>9, <1>11, <1>12 DEF Input!Next

(***************************************************************************)
(* menuconfig's field is the one KEntry describes, for any text, bound and *)
(* width: a letter goes in at the cursor and nowhere else, and what is set *)
(* is the text that was there.                                             *)
(***************************************************************************)
THEOREM InputIsEntry ==
    ASSUME Input!DigitsAssumption
    PROVE  Input!Spec => Input!Entry!Spec
<1>1. Input!Init => Instr /\ Input!Entry!Init
  BY InstrInit
<1>2. Instr /\ [Input!Next]_Input!vars => Instr' /\ [Input!Entry!Next]_Input!Entry!vars
  BY InputNext
<1> QED BY <1>1, <1>2, PTL DEF Input!Spec, Input!Entry!Spec

-----------------------------------------------------------------------------
(***************************************************************************)
(* The field of nconfig: the same, from its cursor's position.             *)
(***************************************************************************)
Result ==
    /\ value \in Seq(Alphabet) /\ result \in Seq(Alphabet) /\ cursor_position \in 0..Len(result)
    /\ open \in BOOLEAN

LEMMA FormInit ==
    ASSUME Form!DigitsAssumption, Form!Init
    PROVE  Result /\ Form!Entry!Init
<1>1. PICK d \in Digits : value = <<d>>
  BY DEF Form!Init
<1>2. d \in Alphabet /\ value \in Seq(Alphabet)
  BY <1>1 DEF Form!DigitsAssumption
<1>3. Form!Accepted(value)
  BY <1>1 DEF Form!Accepted, Form!Range
<1>4. result = <<>> /\ cursor_position = 0 /\ open = FALSE
  BY DEF Form!Init
<1>5. SubSeq(result, 1, cursor_position) = <<>> /\ SubSeq(result, cursor_position + 1, Len(result)) = <<>>
  BY <1>4, Halves, EmptySeq
<1>6. Result
  <2>1. result \in Seq(Alphabet) /\ cursor_position \in 0..Len(result)
    BY ONLY <1>4, EmptySeq
  <2> QED BY ONLY <1>2, <1>4, <2>1 DEF Result
<1> QED BY <1>3, <1>4, <1>5, <1>6 DEF Form!Entry!Init, Form!len

LEMMA FormTypes ==
    ASSUME Result, Form!Type
    PROVE  Result' /\ Form!Entry!Type
<1> DEFINE s == result
           p == cursor_position
           t == result'
<1>1. PICK k \in Alphabet : t = SubSeq(s, 1, p) \o <<k>> \o SubSeq(s, p + 1, Len(s))
  BY DEF Form!Type, Form!len
<1>2. open /\ open' = open /\ value' = value /\ cursor_position' = p + 1
  BY DEF Form!Type, Form!Moves
<1>3. /\ s \in Seq(Alphabet) /\ p \in 0..Len(s) /\ value \in Seq(Alphabet) /\ open \in BOOLEAN
      /\ k \in Alphabet
  BY DEF Result
<1>4. /\ t \in Seq(Alphabet) /\ Len(t) = Len(s) + 1
      /\ SubSeq(t, 1, p + 1) = Append(SubSeq(s, 1, p), k)
      /\ SubSeq(t, p + 2, Len(t)) = SubSeq(s, p + 1, Len(s))
  <2> HIDE DEF s, p, t
  <2>1. t = Inserted(s, p, k)
    BY ONLY <1>1 DEF Inserted
  <2>2. IsInserted(Alphabet, t, s, p, k) /\ HalvesInserted(t, s, p, k)
    BY ONLY <1>3, <2>1, Typed, TypedHalves
  <2> QED BY ONLY <2>2 DEF IsInserted, HalvesInserted
<1>5. p + 1 \in 0..Len(t) /\ (p + 1) + 1 = p + 2
  <2> HIDE DEF s, p, t
  <2> QED BY ONLY <1>3, <1>4
<1>6. Result'
  BY <1>2, <1>3, <1>4, <1>5 DEF Result
<1>7. Form!Entry!Cursor(Append(SubSeq(s, 1, p), k), SubSeq(s, p + 1, Len(s)))
  BY <1>2, <1>4, <1>5 DEF Form!Entry!Cursor, Form!len
<1> QED BY <1>6, <1>7 DEF Form!Entry!Type, Form!len

LEMMA FormErases ==
    ASSUME Result, Form!Backspace
    PROVE  Result' /\ Form!Entry!Backspace
<1>1. /\ cursor_position > 0 /\ cursor_position' = cursor_position + (0 - 1)
      /\ open /\ open' = open /\ value' = value
  BY DEF Form!Backspace, Form!Moves
<1>2. result' = SubSeq(result, 1, cursor_position - 1) \o SubSeq(result, cursor_position + 1, Len(result))
  BY DEF Form!Backspace, Form!Without, Form!len
<1>3. /\ result \in Seq(Alphabet) /\ cursor_position \in 0..Len(result) /\ value \in Seq(Alphabet)
      /\ open \in BOOLEAN /\ Len(result) \in Nat
  BY DEF Result
<1>4. PICK p \in 0..Len(result) - 1 : /\ p = cursor_position - 1 /\ cursor_position = p + 1
                                      /\ cursor_position' = p
  BY ONLY <1>1, <1>3
<1>5. /\ result' \in Seq(Alphabet) /\ Len(result') = Len(result) - 1
      /\ SubSeq(result', 1, p) = SubSeq(result, 1, p)
      /\ SubSeq(result', p + 1, Len(result')) = SubSeq(result, p + 2, Len(result))
  <2>1. /\ p \in 0..Len(result) - 1
        /\ result' = SubSeq(result, 1, (p + 1) - 1) \o SubSeq(result, (p + 1) + 1, Len(result))
    BY <1>2, <1>4
  <2>2. PICK s, t : s = result /\ t = result'
    OBVIOUS
  <2>3. s \in Seq(Alphabet) /\ p \in 0..Len(s) - 1 /\ t = Without(s, p)
    BY ONLY <1>3, <2>1, <2>2 DEF Without
  <2>4. /\ t \in Seq(Alphabet) /\ Len(t) = Len(s) - 1
        /\ SubSeq(t, 1, p) = SubSeq(s, 1, p)
        /\ SubSeq(t, p + 1, Len(t)) = SubSeq(s, p + 2, Len(s))
    BY ONLY <2>3, Erased
  <2> QED BY ONLY <2>2, <2>4
<1>6. p \in 0..Len(result') /\ p + 2 = cursor_position + 1
  BY <1>3, <1>4, <1>5
<1>7. Result'
  BY <1>1, <1>3, <1>4, <1>5, <1>6 DEF Result
<1>8. /\ SubSeq(result, 1, cursor_position) # <<>>
      /\ SubSeq(SubSeq(result, 1, cursor_position), 1, cursor_position - 1) = SubSeq(result, 1, p)
  <2>1. cursor_position # 0
    BY ONLY <1>1, <1>3
  <2> QED BY ONLY <1>1, <1>3, <1>4, <2>1, Around
<1>9. Len(SubSeq(result, 1, cursor_position)) = cursor_position
  BY ONLY <1>3, Halves
<1>10. Form!Entry!Cursor(SubSeq(SubSeq(result, 1, cursor_position), 1,
                                Len(SubSeq(result, 1, cursor_position)) - 1),
                         SubSeq(result, cursor_position + 1, Len(result)))
  BY <1>1, <1>4, <1>5, <1>6, <1>8, <1>9 DEF Form!Entry!Cursor, Form!len
<1> QED BY <1>7, <1>8, <1>10 DEF Form!Entry!Backspace, Form!len

LEMMA FormDeletes ==
    ASSUME Result, Form!Delete
    PROVE  Result' /\ Form!Entry!Delete
<1>1. /\ cursor_position < Len(result) /\ cursor_position' = cursor_position + 0
      /\ open /\ open' = open /\ value' = value
  BY DEF Form!Delete, Form!Moves, Form!len
<1>2. result' = SubSeq(result, 1, (cursor_position + 1) - 1)
                \o SubSeq(result, (cursor_position + 1) + 1, Len(result))
  BY DEF Form!Delete, Form!Without, Form!len
<1>3. /\ result \in Seq(Alphabet) /\ cursor_position \in 0..Len(result) /\ value \in Seq(Alphabet)
      /\ open \in BOOLEAN /\ Len(result) \in Nat
  BY DEF Result
<1>4. PICK p \in 0..Len(result) - 1 : p = cursor_position /\ cursor_position' = p
  BY ONLY <1>1, <1>3
<1>5. /\ result' \in Seq(Alphabet) /\ Len(result') = Len(result) - 1
      /\ SubSeq(result', 1, p) = SubSeq(result, 1, p)
      /\ SubSeq(result', p + 1, Len(result')) = SubSeq(result, p + 2, Len(result))
  <2>1. /\ p \in 0..Len(result) - 1
        /\ result' = SubSeq(result, 1, (p + 1) - 1) \o SubSeq(result, (p + 1) + 1, Len(result))
    BY <1>2, <1>4
  <2>2. PICK s, t : s = result /\ t = result'
    OBVIOUS
  <2>3. s \in Seq(Alphabet) /\ p \in 0..Len(s) - 1 /\ t = Without(s, p)
    BY ONLY <1>3, <2>1, <2>2 DEF Without
  <2>4. /\ t \in Seq(Alphabet) /\ Len(t) = Len(s) - 1
        /\ SubSeq(t, 1, p) = SubSeq(s, 1, p)
        /\ SubSeq(t, p + 1, Len(t)) = SubSeq(s, p + 2, Len(s))
    BY ONLY <2>3, Erased
  <2> QED BY ONLY <2>2, <2>4
<1>6. p \in 0..Len(result') /\ p # Len(result)
  BY <1>3, <1>4, <1>5
<1>7. Result'
  BY <1>1, <1>3, <1>4, <1>5, <1>6 DEF Result
<1>8. /\ SubSeq(result, p + 1, Len(result)) # <<>>
      /\ Tail(SubSeq(result, p + 1, Len(result))) = SubSeq(result, p + 2, Len(result))
  BY ONLY <1>1, <1>3, <1>4, <1>6, Around
<1> QED BY <1>1, <1>4, <1>5, <1>7, <1>8 DEF Form!Entry!Delete, Form!Entry!Cursor, Form!len

LEMMA FormGoesLeft ==
    ASSUME Result, Form!Left
    PROVE  Result' /\ Form!Entry!Left
<1>1. /\ cursor_position > 0 /\ cursor_position' = cursor_position + (0 - 1)
      /\ open /\ open' = open /\ value' = value /\ result' = result
  BY DEF Form!Left, Form!Moves
<1>2. /\ result \in Seq(Alphabet) /\ cursor_position \in 0..Len(result) /\ value \in Seq(Alphabet)
      /\ open \in BOOLEAN /\ Len(result) \in Nat
  BY DEF Result
<1>3. /\ cursor_position' = cursor_position - 1 /\ cursor_position' \in 0..Len(result)
      /\ cursor_position # 0 /\ cursor_position' + 1 = cursor_position
  BY ONLY <1>1, <1>2
<1>4. Result'
  BY <1>1, <1>2, <1>3 DEF Result
<1>5. PICK p : p = cursor_position
  OBVIOUS
<1>6. /\ SubSeq(result, 1, p) # <<>> /\ Len(SubSeq(result, 1, p)) = p
      /\ SubSeq(SubSeq(result, 1, p), 1, p - 1) = SubSeq(result, 1, p - 1)
      /\ <<SubSeq(result, 1, p)[p]>> \o SubSeq(result, p + 1, Len(result)) = SubSeq(result, p, Len(result))
  <2>1. Len(SubSeq(result, 1, p)) = p
    BY ONLY <1>2, <1>5, Halves
  <2>2. SubSeq(result, 1, p) # <<>>
    BY ONLY <1>2, <1>3, <1>5, Around
  <2>3. SubSeq(SubSeq(result, 1, p), 1, p - 1) = SubSeq(result, 1, p - 1)
    BY ONLY <1>1, <1>2, <1>5, Around
  <2>4. <<SubSeq(result, 1, p)[p]>> \o SubSeq(result, p + 1, Len(result)) = SubSeq(result, p, Len(result))
    BY ONLY <1>1, <1>2, <1>5, Around
  <2> QED BY ONLY <2>1, <2>2, <2>3, <2>4
<1> QED BY <1>1, <1>3, <1>4, <1>5, <1>6 DEF Form!Entry!Left, Form!Entry!Cursor, Form!len

LEMMA FormGoesRight ==
    ASSUME Result, Form!Right
    PROVE  Result' /\ Form!Entry!Right
<1>1. /\ cursor_position < Len(result) /\ cursor_position' = cursor_position + 1
      /\ open /\ open' = open /\ value' = value /\ result' = result
  BY DEF Form!Right, Form!Moves, Form!len
<1>2. /\ result \in Seq(Alphabet) /\ cursor_position \in 0..Len(result) /\ value \in Seq(Alphabet)
      /\ open \in BOOLEAN /\ Len(result) \in Nat
  BY DEF Result
<1>3. /\ cursor_position' \in 0..Len(result) /\ cursor_position # Len(result)
      /\ cursor_position' + 1 = cursor_position + 2
  BY ONLY <1>1, <1>2
<1>4. Result'
  BY <1>1, <1>2, <1>3 DEF Result
<1>5. PICK p : p = cursor_position
  OBVIOUS
<1>6. /\ SubSeq(result, p + 1, Len(result)) # <<>>
      /\ Tail(SubSeq(result, p + 1, Len(result))) = SubSeq(result, p + 2, Len(result))
      /\ Append(SubSeq(result, 1, p), Head(SubSeq(result, p + 1, Len(result)))) = SubSeq(result, 1, p + 1)
  BY ONLY <1>1, <1>2, <1>3, <1>5, Around
<1> QED BY <1>1, <1>3, <1>4, <1>5, <1>6 DEF Form!Entry!Right, Form!Entry!Cursor, Form!len

LEMMA FormGoesToAnEnd ==
    ASSUME Result
    PROVE  /\ Form!Home => Result' /\ Form!Entry!Home
           /\ Form!End => Result' /\ Form!Entry!End
<1>1. /\ result \in Seq(Alphabet) /\ cursor_position \in 0..Len(result) /\ value \in Seq(Alphabet)
      /\ open \in BOOLEAN /\ Len(result) \in 0..Len(result) /\ 0 \in 0..Len(result)
  BY DEF Result
<1>2. SubSeq(result, 1, cursor_position) \o SubSeq(result, cursor_position + 1, Len(result)) = result
  BY ONLY <1>1, Halves
<1>3. SubSeq(result, 1, Len(result)) = result /\ SubSeq(result, Len(result) + 1, Len(result)) = <<>>
  BY ONLY <1>1, SubSeqFull, Around
<1>4. SubSeq(result, 1, 0) = <<>> /\ SubSeq(result, 0 + 1, Len(result)) = result
  <2>1. SubSeq(result, 1, 0) = <<>> /\ 0 + 1 = 1
    BY ONLY <1>1, Around
  <2> QED BY ONLY <1>3, <2>1
<1>5. ASSUME Form!Home PROVE Result' /\ Form!Entry!Home
  <2>1. open /\ open' = open /\ value' = value /\ result' = result /\ cursor_position' = 0
    BY <1>5 DEF Form!Home
  <2>2. Result'
    BY <1>1, <2>1 DEF Result
  <2> QED BY <1>2, <1>4, <2>1, <2>2 DEF Form!Entry!Home, Form!Entry!Cursor, Form!len
<1>6. ASSUME Form!End PROVE Result' /\ Form!Entry!End
  <2>1. open /\ open' = open /\ value' = value /\ result' = result /\ cursor_position' = Len(result)
    BY <1>6 DEF Form!End, Form!len
  <2>2. Result'
    BY <1>1, <2>1 DEF Result
  <2> QED BY <1>2, <1>3, <2>1, <2>2 DEF Form!Entry!End, Form!Entry!Cursor, Form!len
<1> QED BY <1>5, <1>6

LEMMA FormOpens ==
    ASSUME Result, Form!Opened
    PROVE  Result' /\ Form!Entry!Shown
<1>1. open' = TRUE /\ value' = value /\ result' = value /\ cursor_position' = Len(value)
  BY DEF Form!Opened
<1>2. value \in Seq(Alphabet) /\ Len(value) \in 0..Len(value)
  BY DEF Result
<1>3. Result'
  BY <1>1, <1>2 DEF Result
<1>4. SubSeq(value, 1, Len(value)) = value /\ SubSeq(value, Len(value) + 1, Len(value)) = <<>>
  BY ONLY <1>2, SubSeqFull, Around
<1> QED BY <1>1, <1>3, <1>4 DEF Form!Entry!Shown, Form!len

LEMMA FormCloses ==
    ASSUME value' \in Seq(Alphabet), Form!Gone
    PROVE  Result' /\ Form!Entry!Closed
<1>1. open' = FALSE /\ result' = <<>> /\ cursor_position' = 0
  BY DEF Form!Gone
<1>2. <<>> \in Seq(Alphabet) /\ Len(<<>>) = 0 /\ 0 \in 0..Len(<<>>)
  OBVIOUS
<1>3. Result'
  BY <1>1, <1>2 DEF Result
<1>4. SubSeq(<<>>, 1, 0) = <<>> /\ SubSeq(<<>>, 0 + 1, 0) = <<>>
  BY ONLY SubSeqEmpty
<1> QED BY <1>1, <1>2, <1>3, <1>4 DEF Form!Entry!Closed, Form!len

LEMMA FormNext ==
    ASSUME Result, [Form!Next]_Form!vars
    PROVE  Result' /\ [Form!Entry!Next]_Form!Entry!vars
<1>0. /\ value \in Seq(Alphabet) /\ result \in Seq(Alphabet) /\ cursor_position \in 0..Len(result)
      /\ open \in BOOLEAN
  BY DEF Result
<1>1. CASE Form!Open
  BY <1>1, FormOpens DEF Form!Open, Form!Entry!Open, Form!Entry!Next
<1>2. CASE Form!Type
  BY <1>2, FormTypes DEF Form!Entry!Next
<1>3. CASE Form!Backspace
  BY <1>3, FormErases DEF Form!Entry!Next
<1>4. CASE Form!Delete
  BY <1>4, FormDeletes DEF Form!Entry!Next
<1>5. CASE Form!Left
  BY <1>5, FormGoesLeft DEF Form!Entry!Next
<1>6. CASE Form!Right
  BY <1>6, FormGoesRight DEF Form!Entry!Next
<1>7. CASE Form!Home \/ Form!End
  BY <1>7, FormGoesToAnEnd DEF Form!Entry!Next
<1>8. CASE Form!Enter
  <2>1. open /\ SubSeq(result, 1, cursor_position) \o SubSeq(result, cursor_position + 1, Len(result)) = result
    BY <1>0, <1>8, Halves DEF Form!Enter
  <2>2. CASE Form!Accepted(result)
    <3>1. value' = result /\ Form!Gone
      BY <1>8, <2>2 DEF Form!Enter
    <3>2. Result' /\ Form!Entry!Closed
      BY <1>0, <3>1, FormCloses
    <3>3. Form!Entry!Enter
      BY <2>1, <2>2, <3>1, <3>2 DEF Form!Entry!Enter, Form!len
    <3> QED BY <3>2, <3>3 DEF Form!Entry!Next
  <2>3. CASE ~Form!Accepted(result)
    <3>1. Result' /\ Form!Entry!Shown
      BY <1>8, <2>3, FormOpens DEF Form!Enter
    <3>2. Form!Entry!Enter
      BY <2>1, <2>3, <3>1 DEF Form!Entry!Enter, Form!len
    <3> QED BY <3>1, <3>2 DEF Form!Entry!Next
  <2> QED BY <2>2, <2>3
<1>9. CASE Form!Help
  BY <1>9, FormOpens DEF Form!Help, Form!Entry!Help, Form!Entry!Next
<1>10. CASE Form!Escape
  <2>1. open /\ Form!Gone /\ value' = value
    BY <1>10 DEF Form!Escape
  <2>2. Result' /\ Form!Entry!Closed
    BY <1>0, <2>1, FormCloses
  <2> QED BY <2>1, <2>2 DEF Form!Entry!Cancel, Form!Entry!Next
<1>11. CASE UNCHANGED Form!vars
  BY <1>11 DEF Result, Form!vars, Form!Entry!vars, Form!len
<1> QED BY <1>1, <1>2, <1>3, <1>4, <1>5, <1>6, <1>7, <1>8, <1>9, <1>10, <1>11 DEF Form!Next

(***************************************************************************)
(* nconfig's field is the one KEntry describes as well, with the keys to   *)
(* delete a letter and to go to an end that menuconfig's has not.          *)
(***************************************************************************)
THEOREM FormIsEntry ==
    ASSUME Form!DigitsAssumption
    PROVE  Form!Spec => Form!Entry!Spec
<1>1. Form!Init => Result /\ Form!Entry!Init
  BY FormInit
<1>2. Result /\ [Form!Next]_Form!vars => Result' /\ [Form!Entry!Next]_Form!Entry!vars
  BY FormNext
<1> QED BY <1>1, <1>2, PTL DEF Form!Spec, Form!Entry!Spec

-----------------------------------------------------------------------------
(***************************************************************************)
(* What the fields show.                                                   *)
(***************************************************************************)
\* The letters of a text from one on
Shows(c, first, s) == IF first + c < Len(s) THEN s[first + c + 1] ELSE Space
Showing(drawn, first, s) == \A c \in Input!Cells : drawn[c] = Shows(c, first, s)

\* Drawing the cells there is text for, and a blank one, is enough when the
\* text that is left from where it is shown has lost no more than a letter.
LEMMA Redrawn ==
    ASSUME Input!SizeAssumption,
           NEW s \in Seq(Alphabet), NEW t \in Seq(Alphabet), NEW first \in Int, NEW to \in Int, NEW drawn,
           Showing(drawn, first, s),
           Len(s) - first <= (Len(t) - to) + 1
    PROVE  Showing(Input!Redraw(t, to, drawn), to, t)
<1>1. SUFFICES ASSUME NEW c \in Input!Cells
               PROVE  Input!Redraw(t, to, drawn)[c] = Shows(c, to, t)
  BY DEF Showing
<1>2. /\ c \in Int /\ Len(s) \in Nat /\ Len(t) \in Nat
      /\ first \in Int /\ to \in Int /\ Len(s) - first <= (Len(t) - to) + 1
  BY DEF Input!Cells, Input!SizeAssumption
<1>3. Input!Redraw(t, to, drawn)[c] = IF to + c < Len(t) THEN t[to + c + 1]
                                    ELSE IF to + c = Len(t) THEN Space ELSE drawn[c]
  BY DEF Input!Redraw
<1>4. CASE to + c < Len(t) \/ to + c = Len(t)
  BY ONLY <1>2, <1>3, <1>4 DEF Shows
<1>5. CASE ~(to + c < Len(t) \/ to + c = Len(t))
  <2>1. ~(first + c < Len(s)) /\ ~(to + c < Len(t)) /\ to + c # Len(t)
    BY ONLY <1>2, <1>5
  <2>2. drawn[c] = Space
    BY <2>1 DEF Shows, Showing
  <2> QED BY ONLY <1>3, <2>1, <2>2 DEF Shows
<1> QED BY <1>4, <1>5

View ==
    /\ show_x \in Nat /\ input_x \in 0..box_width - 1 /\ show_x + input_x = pos
    /\ Showing(cells, show_x, instr)

LEMMA ViewIsInView ==
    ASSUME Input!SizeAssumption, Instr, View
    PROVE  Input!InputInView
<1>1. pos <= Input!len /\ show_x >= 0 /\ input_x \in Input!Cells
  BY DEF Instr, View, Input!len, Input!Cells
<1> QED BY <1>1 DEF View, Showing, Shows, Input!InputInView, Input!len

LEMMA ViewOfDrawn ==
    ASSUME Input!SizeAssumption, NEW s \in Seq(Alphabet), Input!Draw(s)
    PROVE  View'
<1>1. PICK b : b = Input!Begin(s)
  OBVIOUS
<1>2. /\ instr' = s /\ pos' = Len(s) /\ show_x' = b /\ input_x' = Len(s) - b
      /\ cells' = [c \in Input!Cells |-> IF b + c < Len(s) THEN s[b + c + 1] ELSE Space]
  BY <1>1 DEF Input!Draw
<1>3. Len(s) \in Nat /\ box_width \in Nat \ {0, 1}
  BY DEF Input!SizeAssumption
<1>4. b = IF Len(s) >= box_width THEN Len(s) - box_width + 1 ELSE 0
  BY <1>1 DEF Input!Begin
<1>5. b \in Nat /\ Len(s) - b \in 0..box_width - 1 /\ b + (Len(s) - b) = Len(s)
  BY ONLY <1>3, <1>4
<1>6. Input!Cells' = Input!Cells
  BY DEF Input!Cells
<1> QED BY <1>2, <1>5, <1>6 DEF View, Showing, Shows

LEMMA ViewOfNone ==
    ASSUME Input!SizeAssumption, Input!Gone
    PROVE  View'
<1>1. /\ instr' = <<>> /\ pos' = 0 /\ show_x' = 0 /\ input_x' = 0
      /\ cells' = [c \in Input!Cells |-> Space]
  BY DEF Input!Gone
<1>2. \A c \in Input!Cells : ~(0 + c < Len(<<>>))
  BY DEF Input!Cells, Input!SizeAssumption
<1>3. 0 \in 0..box_width - 1
  BY DEF Input!SizeAssumption
<1>4. Input!Cells' = Input!Cells
  BY DEF Input!Cells
<1> QED BY <1>1, <1>2, <1>3, <1>4 DEF View, Showing, Shows

\* What a key within the text makes of the letters that are shown
LEMMA ViewOfKeys ==
    ASSUME Input!SizeAssumption, Instr, View,
           Input!Type \/ Input!Backspace \/ Input!Left \/ Input!Right
    PROVE  View'
<1>0. /\ box_width \in Nat \ {0, 1} /\ Len(instr) \in Nat /\ pos \in 0..Len(instr)
      /\ show_x \in Nat /\ input_x \in 0..box_width - 1 /\ show_x + input_x = pos
      /\ instr \in Seq(Alphabet)
  BY DEF Input!SizeAssumption, Instr, View
<1>00. /\ Input!Cells' = Input!Cells
       /\ Showing(cells, show_x, instr)
  BY DEF View, Input!Cells
<1>1. ASSUME NEW t \in Seq(Alphabet), instr' = t,
             cells' = Input!Redraw(t, show_x', cells), show_x' \in Nat, input_x' \in 0..box_width - 1,
             show_x' + input_x' = pos', Len(instr) - show_x <= (Len(t) - show_x') + 1
      PROVE  View'
  <2>1. PICK to \in Nat : to = show_x'
    BY <1>1
  <2>2. Showing(Input!Redraw(t, to, cells), to, t)
    BY <1>0, <1>00, <1>1, <2>1, Redrawn
  <2> QED BY <1>00, <1>1, <2>1, <2>2 DEF View, Showing, Shows
<1>2. CASE Input!Type
  <2>1. /\ pos' = pos + 1 /\ cells' = Input!Redraw(instr', show_x', cells)
        /\ Input!StepRight
    BY <1>2 DEF Input!Type
  <2>2. show_x' \in Nat /\ input_x' \in 0..box_width - 1 /\ show_x' + input_x' = pos' /\ show_x' <= show_x + 1
    BY ONLY <1>0, <2>1 DEF Input!StepRight
  <2>3. instr' \in Seq(Alphabet) /\ Len(instr') = Len(instr) + 1
    BY <1>2, InputTypes DEF Instr
  <2>4. Len(instr) - show_x <= (Len(instr') - show_x') + 1
    BY ONLY <1>0, <2>2, <2>3
  <2> QED BY <1>1, <2>1, <2>2, <2>3, <2>4
<1>3. CASE Input!Backspace
  <2>1. /\ pos > 0 /\ pos' = pos - 1 /\ cells' = Input!Redraw(instr', show_x', cells)
        /\ Input!StepLeft
    BY <1>3 DEF Input!Backspace
  <2>2. show_x' \in Nat /\ input_x' \in 0..box_width - 1 /\ show_x' + input_x' = pos' /\ show_x' <= show_x
    BY ONLY <1>0, <2>1 DEF Input!StepLeft
  <2>3. instr' \in Seq(Alphabet) /\ Len(instr') = Len(instr) - 1
    BY <1>3, InputErases DEF Instr
  <2>4. Len(instr) - show_x <= (Len(instr') - show_x') + 1
    BY ONLY <1>0, <2>2, <2>3
  <2> QED BY <1>1, <2>1, <2>2, <2>3, <2>4
<1>4. CASE Input!Left
  <2>1. /\ pos > 0 /\ pos' = pos - 1 /\ instr' = instr /\ Input!StepLeft
        /\ cells' = IF input_x = 0 THEN Input!Redraw(instr, show_x', cells) ELSE cells
    BY <1>4 DEF Input!Left
  <2>2. /\ show_x' \in Nat /\ input_x' \in 0..box_width - 1 /\ show_x' + input_x' = pos' /\ show_x' <= show_x
        /\ input_x # 0 => show_x' = show_x
    BY ONLY <1>0, <2>1 DEF Input!StepLeft
  <2>3. Len(instr) - show_x <= (Len(instr) - show_x') + 1
    BY ONLY <1>0, <2>2
  <2>4. CASE input_x = 0
    BY <1>0, <1>1, <2>1, <2>2, <2>3, <2>4
  <2>5. CASE input_x # 0
    BY <1>00, <2>1, <2>2, <2>5 DEF View, Showing, Shows
  <2> QED BY <2>4, <2>5
<1>5. CASE Input!Right
  <2>1. /\ pos < Len(instr) /\ pos' = pos + 1 /\ instr' = instr /\ Input!StepRight
        /\ cells' = IF input_x = box_width - 1 THEN Input!Redraw(instr, show_x', cells) ELSE cells
    BY <1>5 DEF Input!Right, Input!len
  <2>2. /\ show_x' \in Nat /\ input_x' \in 0..box_width - 1 /\ show_x' + input_x' = pos'
        /\ show_x' <= show_x + 1
        /\ input_x # box_width - 1 => show_x' = show_x
    BY ONLY <1>0, <2>1 DEF Input!StepRight
  <2>3. Len(instr) - show_x <= (Len(instr) - show_x') + 1
    BY ONLY <1>0, <2>2
  <2>4. CASE input_x = box_width - 1
    BY <1>0, <1>1, <2>1, <2>2, <2>3, <2>4
  <2>5. CASE input_x # box_width - 1
    BY <1>00, <2>1, <2>2, <2>5 DEF View, Showing, Shows
  <2> QED BY <2>4, <2>5
<1> QED BY <1>2, <1>3, <1>4, <1>5

LEMMA ViewNext ==
    ASSUME Input!SizeAssumption, Instr, View, [Input!Next]_Input!vars
    PROVE  View'
<1>0. value \in Seq(Alphabet) /\ instr \in Seq(Alphabet)
  BY DEF Instr
<1>1. CASE Input!Opened
  BY <1>0, <1>1, ViewOfDrawn DEF Input!Opened
<1>2. CASE Input!Gone
  BY <1>2, ViewOfNone
<1>3. CASE Input!Resize
  BY <1>0, <1>3, ViewOfDrawn DEF Input!Resize
<1>4. CASE Input!Type \/ Input!Backspace \/ Input!Left \/ Input!Right
  BY <1>4, ViewOfKeys
<1>5. CASE UNCHANGED Input!field
  BY <1>5 DEF View, Showing, Shows, Input!field, Input!Cells
<1>6. CASE Input!Open \/ Input!Ok \/ Input!Help \/ Input!Escape
  BY <1>1, <1>2, <1>6 DEF Input!Open, Input!Ok, Input!Help, Input!Escape
<1>7. CASE Input!KeyUp \/ Input!KeyDown
  BY <1>5, <1>7 DEF Input!KeyUp, Input!KeyDown, Input!Go
<1>8. CASE UNCHANGED Input!vars
  BY <1>5, <1>8 DEF Input!vars
<1> QED BY <1>3, <1>4, <1>6, <1>7, <1>8 DEF Input!Next

(***************************************************************************)
(* menuconfig's field, which draws only the cells it means to have         *)
(* changed, never leaves a letter of an earlier text on the screen, and    *)
(* its cursor is in the cell of the letter it is about.                    *)
(***************************************************************************)
THEOREM InputFieldInView ==
    ASSUME Input!DigitsAssumption, Input!SizeAssumption
    PROVE  Input!Spec => []Input!InputInView
<1>1. Input!Init => Instr /\ View
  <2>1. SUFFICES ASSUME Input!Init PROVE Instr /\ View
    OBVIOUS
  <2>2. /\ instr = <<>> /\ pos = 0 /\ show_x = 0 /\ input_x = 0
        /\ cells = [c \in Input!Cells |-> Space]
    BY <2>1 DEF Input!Init
  <2>3. \A c \in Input!Cells : ~(0 + c < Len(<<>>))
    BY DEF Input!Cells, Input!SizeAssumption
  <2>4. 0 \in 0..box_width - 1
    BY DEF Input!SizeAssumption
  <2> QED BY <2>1, <2>2, <2>3, <2>4, InstrInit DEF View, Showing, Shows
<1>2. Instr /\ View /\ [Input!Next]_Input!vars => Instr' /\ View'
  BY InputNext, ViewNext
<1>3. Instr /\ View => Input!InputInView
  BY ViewIsInView
<1> QED BY <1>1, <1>2, <1>3, PTL DEF Input!Spec

Drawn ==
    /\ cursor_form_win \in 0..prompt_width - 1
    /\ cursor_position \in Nat /\ cursor_form_win <= cursor_position

LEMMA FormDraws ==
    ASSUME Form!SizeAssumption, Result, Drawn, [Form!Next]_Form!vars
    PROVE  Drawn'
<1>0. /\ prompt_width \in Nat \ {0} /\ cursor_position \in Nat /\ Len(result) \in Nat /\ Len(value) \in Nat
      /\ cursor_form_win \in 0..prompt_width - 1 /\ cursor_form_win <= cursor_position
  BY DEF Form!SizeAssumption, Result, Drawn
<1>1. CASE Form!Opened
  <2>1. cursor_position' = Len(value) /\ cursor_form_win' = Form!Smaller(Len(value), prompt_width - 1)
    BY <1>1 DEF Form!Opened
  <2> QED BY ONLY <1>0, <2>1 DEF Drawn, Form!Smaller
<1>2. CASE Form!Gone
  BY <1>0, <1>2 DEF Drawn, Form!Gone
<1>3. ASSUME NEW n \in {0 - 1, 0, 1}, Form!Moves(n), n = 0 - 1 => cursor_position > 0
      PROVE  Drawn'
  <2>1. /\ cursor_position' = cursor_position + n
        /\ cursor_form_win' = Form!Column(cursor_form_win + n)
    BY <1>3 DEF Form!Moves
  <2> QED BY ONLY <1>0, <1>3, <2>1 DEF Drawn, Form!Column, Form!Smaller
<1>4. CASE Form!Type \/ Form!Right
  BY <1>3, <1>4 DEF Form!Type, Form!Right
<1>5. CASE Form!Backspace \/ Form!Left
  BY <1>3, <1>5 DEF Form!Backspace, Form!Left
<1>6. CASE Form!Delete
  BY <1>3, <1>6 DEF Form!Delete
<1>7. CASE Form!Home
  BY <1>0, <1>7 DEF Drawn, Form!Home
<1>8. CASE Form!End
  <2>1. cursor_position' = Len(result) /\ cursor_form_win' = Form!Smaller(Len(result), prompt_width - 1)
    BY <1>8 DEF Form!End, Form!len
  <2> QED BY ONLY <1>0, <2>1 DEF Drawn, Form!Smaller
<1>9. CASE Form!Open \/ Form!Enter \/ Form!Help \/ Form!Escape
  BY <1>1, <1>2, <1>9 DEF Form!Open, Form!Enter, Form!Help, Form!Escape
<1>10. CASE UNCHANGED Form!vars
  BY <1>0, <1>10 DEF Drawn, Form!vars
<1> QED BY <1>4, <1>5, <1>6, <1>7, <1>8, <1>9, <1>10 DEF Form!Next

(***************************************************************************)
(* nconfig's field keeps the cursor's column within it, and never draws it *)
(* from before the text's first letter.                                    *)
(***************************************************************************)
THEOREM FormFieldInView ==
    ASSUME Form!DigitsAssumption, Form!SizeAssumption
    PROVE  Form!Spec => []Form!FormInView
<1>1. Form!Init => Result /\ Drawn
  <2>1. SUFFICES ASSUME Form!Init PROVE Result /\ Drawn
    OBVIOUS
  <2>2. cursor_position = 0 /\ cursor_form_win = 0 /\ prompt_width \in Nat \ {0}
    BY <2>1 DEF Form!Init, Form!SizeAssumption
  <2>3. Drawn
    BY ONLY <2>2 DEF Drawn
  <2> QED BY <2>1, <2>3, FormInit
<1>2. Result /\ Drawn /\ [Form!Next]_Form!vars => Result' /\ Drawn'
  BY FormNext, FormDraws
<1>3. Result /\ Drawn => Form!FormInView
  BY DEF Result, Drawn, Form!FormInView, Form!len
<1> QED BY <1>1, <1>2, <1>3, PTL DEF Form!Spec

-----------------------------------------------------------------------------
(***************************************************************************)
(* The list of a choice's values: its rows are the items from the scroll   *)
(* position on, before and after any key.                                  *)
(***************************************************************************)
PickSetting == Pick!EntriesAssumption /\ Pick!HeightAssumption
C == Len(Items)
M == Pick!max_choice

LEMMA ItemFacts ==
    ASSUME PickSetting
    PROVE  /\ C \in Nat /\ C >= 1 /\ M \in Nat /\ M >= 1 /\ M <= C /\ M <= list_height
           /\ M < C => M = list_height /\ M >= 2
           /\ \A i \in 1..C : Items[i] \in Pick!Entry
           /\ \A e \in Pick!Entry : \E i \in 1..C : Items[i] = e
           /\ \A i, j \in 1..C : Items[i] = Items[j] => i = j
           /\ DOMAIN Items = 1..C
<1>1. Items \in Seq(Pick!Entry) /\ \A i, j \in DOMAIN Items : Items[i] = Items[j] => i = j
  BY DEF PickSetting, Pick!EntriesAssumption, Pick!IsInjective
<1>2. C \in Nat /\ DOMAIN Items = 1..C /\ \A i \in 1..C : Items[i] \in Pick!Entry
  BY ONLY <1>1 DEF C
<1>3. \A e \in Pick!Entry : \E i \in DOMAIN Items : Items[i] = e
  BY DEF Pick!Entry, Pick!Range
<1>4. \E e : e \in Pick!Entry
  BY DEF PickSetting, Pick!EntriesAssumption
<1>5. C >= 1
  BY ONLY <1>2, <1>3, <1>4
<1>6. M = (IF list_height < C THEN list_height ELSE C) /\ list_height \in Nat \ {0, 1}
  BY DEF M, C, Pick!max_choice, Pick!count, PickSetting, Pick!HeightAssumption
<1> QED BY ONLY <1>1, <1>2, <1>3, <1>5, <1>6

\* A row, and the rows from an item on with one of them highlighted
RowFor(e, p, lit) == [item |-> e, x |-> e = p, lit |-> lit]
RowAt(i, first, lit, p) ==
    IF i - 1 = lit THEN RowFor(Items[first + i], p, TRUE) ELSE RowFor(Items[first + i], p, FALSE)
AreRows(l, first, lit, p) == l = [i \in 1..M |-> RowAt(i, first, lit, p)]
AnyRow(p) == {RowFor(e, p, lit) : e \in Pick!Entry, lit \in BOOLEAN}

Listed ==
    /\ picked \in Pick!Entry \ Comment
    /\ open \in BOOLEAN
    /\ open => /\ scroll \in Nat /\ choice \in 0..M - 1 /\ scroll + M <= C
               /\ AreRows(list, scroll, choice, picked)

\* Rows are known by their items, and make a list of M rows
LEMMA RowsAre ==
    ASSUME PickSetting, NEW l \in Seq(AnyRow(picked)), Len(l) = M, NEW first, NEW lit,
           \A i \in 1..M : l[i] = RowAt(i, first, lit, picked)
    PROVE  AreRows(l, first, lit, picked)
<1>1. l = [i \in 1..M |-> l[i]]
  <2>1. l \in [1..M -> AnyRow(picked)]
    BY ONLY l \in Seq(AnyRow(picked)), Len(l) = M
  <2> QED BY ONLY <2>1
<1> QED BY ONLY <1>1, \A i \in 1..M : l[i] = RowAt(i, first, lit, picked) DEF AreRows

LEMMA AreSeq ==
    ASSUME PickSetting, NEW first \in Nat, first + M <= C, NEW lit, NEW l, AreRows(l, first, lit, picked)
    PROVE  /\ l \in Seq(AnyRow(picked)) /\ Len(l) = M
           /\ \A i \in 1..M : l[i] = RowAt(i, first, lit, picked)
<1>1. C \in Nat /\ M \in Nat /\ \A i \in 1..C : Items[i] \in Pick!Entry
  BY ItemFacts
<1>2. \A i \in 1..M : first + i \in 1..C
  BY ONLY <1>1, first \in Nat, first + M <= C
<1>3. \A i \in 1..M : RowAt(i, first, lit, picked) \in AnyRow(picked)
  <2>1. SUFFICES ASSUME NEW i \in 1..M PROVE RowAt(i, first, lit, picked) \in AnyRow(picked)
    OBVIOUS
  <2>2. Items[first + i] \in Pick!Entry
    BY <1>1, <1>2
  <2>3. \A bit \in BOOLEAN : RowFor(Items[first + i], picked, bit) \in AnyRow(picked)
    BY <2>2 DEF AnyRow
  <2> QED BY <2>3 DEF RowAt
<1>4. l = [i \in 1..M |-> RowAt(i, first, lit, picked)]
  BY DEF AreRows
<1> QED BY ONLY <1>1, <1>3, <1>4

LEMMA ARow ==
    ASSUME PickSetting, NEW n \in 0..C - 1, NEW lit \in BOOLEAN
    PROVE  /\ Pick!Row(Pick!Item(n), lit) = RowFor(Items[n + 1], picked, lit)
           /\ RowFor(Items[n + 1], picked, lit) \in AnyRow(picked)
<1>1. n + 1 \in 1..C
  BY ItemFacts
<1>2. Items[n + 1] \in Pick!Entry
  BY <1>1, ItemFacts
<1> QED BY <1>2 DEF Pick!Row, Pick!Item, RowFor, AnyRow

LEMMA Printed ==
    ASSUME PickSetting, NEW first \in Nat, first + M <= C, NEW lit \in 0..M - 1, Pick!PrintList(first, lit)
    PROVE  scroll' = first /\ choice' = lit /\ AreRows(list', first, lit, picked)
<1>1. /\ scroll' = first /\ choice' = lit
      /\ list' = [r \in 1..M |-> Pick!Row(Pick!Item(first + r - 1), r - 1 = lit)]
  BY DEF Pick!PrintList, M
<1>2. C \in Nat /\ M \in Nat
  BY ItemFacts
<1>3. ASSUME NEW r \in 1..M
      PROVE  Pick!Row(Pick!Item(first + r - 1), r - 1 = lit) = RowAt(r, first, lit, picked)
  <2>1. first + r - 1 \in 0..C - 1 /\ (first + r - 1) + 1 = first + r
    BY <1>2, <1>3
  <2>2. \A b \in BOOLEAN : Pick!Row(Pick!Item(first + r - 1), b) = RowFor(Items[first + r], picked, b)
    BY <2>1, ARow
  <2>3. CASE r - 1 = lit
    <3>1. Pick!Row(Pick!Item(first + r - 1), TRUE) = RowFor(Items[first + r], picked, TRUE)
      BY <2>2
    <3> QED BY <2>3, <3>1 DEF RowAt, Pick!Row
  <2>4. CASE r - 1 # lit
    <3>1. Pick!Row(Pick!Item(first + r - 1), FALSE) = RowFor(Items[first + r], picked, FALSE)
      BY <2>2
    <3> QED BY <2>4, <3>1 DEF RowAt, Pick!Row
  <2> QED BY <2>3, <2>4
<1> QED BY <1>1, <1>3 DEF AreRows

\* A list that scrolls by a row
ScrolledDown(l, n, a, b) == <<a, b>> \o SubSeq(l, 2, n - 1)
ScrolledUp(l, n, a, b) == SubSeq(l, 2, n - 1) \o <<a, b>>
IsDown(L, t, l, n, a, b) ==
    /\ t \in Seq(L) /\ Len(t) = n /\ t[1] = a /\ t[2] = b
    /\ \A i \in 3..n : t[i] = l[i - 1]
IsUp(L, t, l, n, a, b) ==
    /\ t \in Seq(L) /\ Len(t) = n /\ t[n - 1] = a /\ t[n] = b
    /\ \A i \in 1..n - 2 : t[i] = l[i + 1]

LEMMA RowsDown ==
    ASSUME NEW L, NEW l \in Seq(L), NEW n \in Nat, n >= 2, Len(l) = n, NEW a \in L, NEW b \in L,
           NEW t, t = ScrolledDown(l, n, a, b)
    PROVE  IsDown(L, t, l, n, a, b)
<1>1. PICK c : c = SubSeq(l, 2, n - 1)
  OBVIOUS
<1>2. 2 \in Int /\ n - 1 \in Int /\ \A i \in 2..n - 1 : l[i] \in L
  OBVIOUS
<1>3. c \in Seq(L) /\ Len(c) = n - 2 /\ \A i \in 1..n - 2 : c[i] = l[i + 1]
  <2>1. /\ c \in Seq(L) /\ Len(c) = (IF 2 <= n - 1 THEN (n - 1) - 2 + 1 ELSE 0)
        /\ \A i \in 1..(n - 1) - 2 + 1 : c[i] = l[2 + i - 1]
    BY ONLY <1>1, <1>2, SubSeqProperties
  <2>2. (n - 1) - 2 + 1 = n - 2 /\ \A i \in 1..n - 2 : 2 + i - 1 = i + 1
    BY ONLY n \in Nat, n >= 2
  <2> QED BY ONLY <2>1, <2>2, n \in Nat, n >= 2
<1>4. PICK d : d = <<a, b>>
  OBVIOUS
<1>5. d \in Seq(L) /\ Len(d) = 2 /\ d[1] = a /\ d[2] = b
  BY <1>4
<1>6. t = d \o c
  BY <1>1, <1>4 DEF ScrolledDown
<1>7. /\ t \in Seq(L) /\ Len(t) = Len(d) + Len(c)
      /\ \A i \in 1..Len(d) + Len(c) : t[i] = IF i <= Len(d) THEN d[i] ELSE c[i - Len(d)]
  BY ONLY <1>3, <1>5, <1>6, ConcatProperties
<1>8. Len(d) + Len(c) = n
  BY ONLY <1>3, <1>5, n \in Nat
<1>9. \A i \in 3..n : i \in 1..n /\ ~(i <= 2) /\ i - 2 \in 1..n - 2 /\ (i - 2) + 1 = i - 1
  BY ONLY n \in Nat
<1>10. \A i \in 3..n : t[i] = l[i - 1]
  BY ONLY <1>3, <1>5, <1>7, <1>8, <1>9
<1>11. t[1] = a /\ t[2] = b
  <2>1. 1 \in 1..n /\ 2 \in 1..n /\ 1 <= 2 /\ 2 <= 2
    BY ONLY n \in Nat, n >= 2
  <2> QED BY ONLY <1>5, <1>7, <1>8, <2>1
<1> QED BY ONLY <1>7, <1>8, <1>10, <1>11 DEF IsDown

LEMMA RowsUp ==
    ASSUME NEW L, NEW l \in Seq(L), NEW n \in Nat, n >= 2, Len(l) = n, NEW a \in L, NEW b \in L,
           NEW t, t = ScrolledUp(l, n, a, b)
    PROVE  IsUp(L, t, l, n, a, b)
<1>1. PICK c : c = SubSeq(l, 2, n - 1)
  OBVIOUS
<1>2. 2 \in Int /\ n - 1 \in Int /\ \A i \in 2..n - 1 : l[i] \in L
  OBVIOUS
<1>3. c \in Seq(L) /\ Len(c) = n - 2 /\ \A i \in 1..n - 2 : c[i] = l[i + 1]
  <2>1. /\ c \in Seq(L) /\ Len(c) = (IF 2 <= n - 1 THEN (n - 1) - 2 + 1 ELSE 0)
        /\ \A i \in 1..(n - 1) - 2 + 1 : c[i] = l[2 + i - 1]
    BY ONLY <1>1, <1>2, SubSeqProperties
  <2>2. (n - 1) - 2 + 1 = n - 2 /\ \A i \in 1..n - 2 : 2 + i - 1 = i + 1
    BY ONLY n \in Nat, n >= 2
  <2> QED BY ONLY <2>1, <2>2, n \in Nat, n >= 2
<1>4. PICK d : d = <<a, b>>
  OBVIOUS
<1>5. d \in Seq(L) /\ Len(d) = 2 /\ d[1] = a /\ d[2] = b
  BY <1>4
<1>6. t = c \o d
  BY <1>1, <1>4 DEF ScrolledUp
<1>7. /\ t \in Seq(L) /\ Len(t) = Len(c) + Len(d)
      /\ \A i \in 1..Len(c) + Len(d) : t[i] = IF i <= Len(c) THEN c[i] ELSE d[i - Len(c)]
  BY ONLY <1>3, <1>5, <1>6, ConcatProperties
<1>8. Len(c) + Len(d) = n
  BY ONLY <1>3, <1>5, n \in Nat
<1>9. \A i \in 1..n - 2 : i \in 1..n /\ i <= n - 2
  BY ONLY n \in Nat
<1>10. \A i \in 1..n - 2 : t[i] = l[i + 1]
  BY ONLY <1>3, <1>7, <1>8, <1>9
<1>11. t[n - 1] = a /\ t[n] = b
  <2>1. /\ n - 1 \in 1..n /\ n \in 1..n /\ ~(n - 1 <= n - 2) /\ ~(n <= n - 2)
        /\ (n - 1) - (n - 2) = 1 /\ n - (n - 2) = 2
    BY ONLY n \in Nat, n >= 2
  <2> QED BY ONLY <1>3, <1>5, <1>7, <1>8, <2>1
<1> QED BY ONLY <1>7, <1>8, <1>10, <1>11 DEF IsUp

LEMMA ListedUp ==
    ASSUME PickSetting, Listed, Pick!Up
    PROVE  Listed'
<1>1. /\ open /\ choice = 0 /\ scroll > 0 /\ scroll' = scroll - 1 /\ choice' = choice
      /\ picked' = picked /\ open' = open
      /\ list' = <<Pick!Row(Pick!Item(scroll - 1), TRUE), Pick!Row(Pick!Item(scroll), FALSE)>>
                   \o SubSeq(list, 2, M - 1)
  BY DEF Pick!Up, Pick!Keeps, M
<1>2. /\ scroll \in Nat /\ scroll + M <= C /\ AreRows(list, scroll, choice, picked)
      /\ picked \in Pick!Entry \ Comment
  BY <1>1 DEF Listed
<1>3. C \in Nat /\ M \in Nat /\ M >= 1 /\ (M < C => M >= 2)
  BY ItemFacts
<1>4. /\ M >= 2 /\ scroll - 1 \in 0..C - 1 /\ scroll \in 0..C - 1 /\ (scroll - 1) + 1 = scroll
      /\ scroll' \in Nat /\ scroll' + M <= C /\ choice' \in 0..M - 1
  BY ONLY <1>1, <1>2, <1>3
<1>5. /\ list \in Seq(AnyRow(picked)) /\ Len(list) = M
      /\ \A i \in 1..M : list[i] = RowAt(i, scroll, 0, picked)
  BY <1>1, <1>2, AreSeq
<1>6. PICK a, b : a = RowFor(Items[scroll], picked, TRUE) /\ b = RowFor(Items[scroll + 1], picked, FALSE)
  OBVIOUS
<1>7. /\ a = Pick!Row(Pick!Item(scroll - 1), TRUE) /\ b = Pick!Row(Pick!Item(scroll), FALSE)
      /\ a \in AnyRow(picked) /\ b \in AnyRow(picked)
  BY <1>4, <1>6, ARow
<1>8. PICK t : t = ScrolledDown(list, M, a, b)
  OBVIOUS
<1>9. /\ t \in Seq(AnyRow(picked)) /\ Len(t) = M /\ t[1] = a /\ t[2] = b
      /\ \A i \in 3..M : t[i] = list[i - 1]
  <2>1. PICK L, n : L = AnyRow(picked) /\ n = M
    OBVIOUS
  <2>2. /\ list \in Seq(L) /\ n \in Nat /\ n >= 2 /\ Len(list) = n /\ a \in L /\ b \in L
        /\ t = ScrolledDown(list, n, a, b)
    BY ONLY <1>3, <1>4, <1>5, <1>7, <1>8, <2>1
  <2>3. IsDown(L, t, list, n, a, b)
    BY ONLY <2>2, RowsDown
  <2> QED BY ONLY <2>1, <2>3 DEF IsDown
<1>10. list' = t
  BY <1>1, <1>7, <1>8 DEF ScrolledDown
<1>11. ASSUME NEW i \in 1..M PROVE t[i] = RowAt(i, scroll - 1, 0, picked)
  <2>1. CASE i = 1
    <3>1. i - 1 = 0 /\ (scroll - 1) + i = scroll
      BY ONLY <1>2, <2>1
    <3> QED BY ONLY <1>6, <1>9, <2>1, <3>1 DEF RowAt
  <2>2. CASE i = 2
    <3>1. i - 1 # 0 /\ (scroll - 1) + i = scroll + 1
      BY ONLY <1>2, <2>2
    <3> QED BY ONLY <1>6, <1>9, <2>2, <3>1 DEF RowAt
  <2>3. CASE i \in 3..M
    <3>1. /\ i - 1 \in 1..M /\ i - 1 # 0 /\ (i - 1) - 1 # 0 /\ (scroll - 1) + i = scroll + (i - 1)
      BY ONLY <1>2, <1>3, <2>3
    <3>2. t[i] = RowAt(i - 1, scroll, 0, picked)
      BY ONLY <1>5, <1>9, <2>3, <3>1
    <3> QED BY ONLY <3>1, <3>2 DEF RowAt
  <2> QED BY <1>3, <2>1, <2>2, <2>3
<1>12. AreRows(t, scroll - 1, 0, picked)
  BY <1>9, <1>11, RowsAre
<1> QED BY <1>1, <1>2, <1>4, <1>10, <1>12 DEF Listed

LEMMA ListedDown ==
    ASSUME PickSetting, Listed, Pick!Down
    PROVE  Listed'
<1>1. /\ open /\ choice = M - 1 /\ scroll + choice < C - 1 /\ scroll' = scroll + 1 /\ choice' = choice
      /\ picked' = picked /\ open' = open
      /\ list' = SubSeq(list, 2, M - 1)
                   \o <<Pick!Row(Pick!Item(scroll + choice), FALSE), Pick!Row(Pick!Item(scroll + M), TRUE)>>
  BY DEF Pick!Down, Pick!Keeps, M, C, Pick!count
<1>2. /\ scroll \in Nat /\ scroll + M <= C /\ AreRows(list, scroll, choice, picked)
      /\ picked \in Pick!Entry \ Comment
  BY <1>1 DEF Listed
<1>3. C \in Nat /\ M \in Nat /\ M >= 1 /\ (M < C => M >= 2)
  BY ItemFacts
<1>4. /\ M >= 2 /\ scroll + choice \in 0..C - 1 /\ scroll + M \in 0..C - 1
      /\ scroll' \in Nat /\ scroll' + M <= C /\ choice' \in 0..M - 1 /\ (scroll + choice) + 1 = scroll + M
  BY ONLY <1>1, <1>2, <1>3
<1>5. /\ list \in Seq(AnyRow(picked)) /\ Len(list) = M
      /\ \A i \in 1..M : list[i] = RowAt(i, scroll, M - 1, picked)
  BY <1>1, <1>2, AreSeq
<1>6. PICK a, b : /\ a = RowFor(Items[(scroll + choice) + 1], picked, FALSE)
                  /\ b = RowFor(Items[(scroll + M) + 1], picked, TRUE)
  OBVIOUS
<1>7. /\ a = Pick!Row(Pick!Item(scroll + choice), FALSE) /\ b = Pick!Row(Pick!Item(scroll + M), TRUE)
      /\ a \in AnyRow(picked) /\ b \in AnyRow(picked)
  BY <1>4, <1>6, ARow
<1>8. PICK t : t = ScrolledUp(list, M, a, b)
  OBVIOUS
<1>9. /\ t \in Seq(AnyRow(picked)) /\ Len(t) = M /\ t[M - 1] = a /\ t[M] = b
      /\ \A i \in 1..M - 2 : t[i] = list[i + 1]
  <2>1. PICK L, n : L = AnyRow(picked) /\ n = M
    OBVIOUS
  <2>2. /\ list \in Seq(L) /\ n \in Nat /\ n >= 2 /\ Len(list) = n /\ a \in L /\ b \in L
        /\ t = ScrolledUp(list, n, a, b)
    BY ONLY <1>3, <1>4, <1>5, <1>7, <1>8, <2>1
  <2>3. IsUp(L, t, list, n, a, b)
    BY ONLY <2>2, RowsUp
  <2> QED BY ONLY <2>1, <2>3 DEF IsUp
<1>10. list' = t
  BY <1>1, <1>7, <1>8 DEF ScrolledUp
<1>11. ASSUME NEW i \in 1..M PROVE t[i] = RowAt(i, scroll + 1, M - 1, picked)
  <2>1. CASE i = M - 1
    <3>1. i - 1 # M - 1 /\ (scroll + 1) + i = (scroll + choice) + 1
      BY ONLY <1>1, <1>2, <1>3, <2>1
    <3> QED BY ONLY <1>6, <1>9, <2>1, <3>1 DEF RowAt
  <2>2. CASE i = M
    <3>1. i - 1 = M - 1 /\ (scroll + 1) + i = (scroll + M) + 1
      BY ONLY <1>2, <1>3, <2>2
    <3> QED BY ONLY <1>6, <1>9, <2>2, <3>1 DEF RowAt
  <2>3. CASE i \in 1..M - 2
    <3>1. i + 1 \in 1..M /\ i - 1 # M - 1 /\ (i + 1) - 1 # M - 1 /\ (scroll + 1) + i = scroll + (i + 1)
      BY ONLY <1>2, <1>3, <2>3
    <3>2. t[i] = RowAt(i + 1, scroll, M - 1, picked)
      BY ONLY <1>5, <1>9, <2>3, <3>1
    <3> QED BY ONLY <3>1, <3>2 DEF RowAt
  <2> QED BY <1>3, <2>1, <2>2, <2>3
<1>12. AreRows(t, scroll + 1, M - 1, picked)
  BY <1>9, <1>11, RowsAre
<1> QED BY <1>1, <1>2, <1>4, <1>10, <1>12 DEF Listed

LEMMA ListedHighlight ==
    ASSUME PickSetting, Listed, NEW r \in 0..M - 1, r # choice, Pick!Highlight(r)
    PROVE  Listed'
<1>1. /\ open /\ choice' = r /\ scroll' = scroll /\ picked' = picked /\ open' = open
      /\ list' = [list EXCEPT ![choice + 1] = Pick!Row(Pick!Item(scroll + choice), FALSE),
                              ![r + 1] = Pick!Row(Pick!Item(scroll + r), TRUE)]
  BY DEF Pick!Highlight, Pick!Keeps, Pick!Current
<1>2. /\ scroll \in Nat /\ scroll + M <= C /\ AreRows(list, scroll, choice, picked) /\ choice \in 0..M - 1
      /\ picked \in Pick!Entry \ Comment
  BY <1>1 DEF Listed
<1>3. C \in Nat /\ M \in Nat
  BY ItemFacts
<1>4. /\ scroll + choice \in 0..C - 1 /\ scroll + r \in 0..C - 1
      /\ (scroll + choice) + 1 = scroll + (choice + 1) /\ (scroll + r) + 1 = scroll + (r + 1)
      /\ (choice + 1) - 1 = choice /\ (r + 1) - 1 = r /\ choice + 1 # r + 1
  BY ONLY <1>2, <1>3, r \in 0..M - 1, r # choice
<1>5. list = [i \in 1..M |-> RowAt(i, scroll, choice, picked)]
  BY <1>2 DEF AreRows
<1>6. /\ Pick!Row(Pick!Item(scroll + choice), FALSE) = RowFor(Items[scroll + (choice + 1)], picked, FALSE)
      /\ Pick!Row(Pick!Item(scroll + r), TRUE) = RowFor(Items[scroll + (r + 1)], picked, TRUE)
  BY <1>4, ARow
<1>7. PICK t, a, b : /\ t = list' /\ a = RowFor(Items[scroll + (choice + 1)], picked, FALSE)
                     /\ b = RowFor(Items[scroll + (r + 1)], picked, TRUE)
  OBVIOUS
<1>8. t = [i \in 1..M |-> IF i = r + 1 THEN b ELSE IF i = choice + 1 THEN a
                          ELSE RowAt(i, scroll, choice, picked)]
  BY <1>1, <1>4, <1>5, <1>6, <1>7
<1>9. ASSUME NEW i \in 1..M
      PROVE  (IF i = r + 1 THEN b ELSE IF i = choice + 1 THEN a ELSE RowAt(i, scroll, choice, picked))
             = RowAt(i, scroll, r, picked)
  <2>1. CASE i = r + 1
    BY ONLY <1>4, <1>7, <2>1 DEF RowAt
  <2>2. CASE i = choice + 1
    <3>1. i - 1 # r /\ i # r + 1
      BY ONLY <1>4, <2>2, r # choice
    <3> QED BY ONLY <1>4, <1>7, <2>2, <3>1 DEF RowAt
  <2>3. CASE i # r + 1 /\ i # choice + 1
    <3>1. i - 1 # r /\ i - 1 # choice
      BY ONLY <1>2, <2>3, i \in 1..M, r \in 0..M - 1
    <3> QED BY ONLY <2>3, <3>1 DEF RowAt
  <2> QED BY <2>1, <2>2, <2>3
<1>10. AreRows(t, scroll, r, picked)
  BY ONLY <1>8, <1>9 DEF AreRows
<1> QED BY <1>1, <1>2, <1>7, <1>10 DEF Listed

LEMMA LeastOf ==
    ASSUME NEW S, S \subseteq Nat, S # {}
    PROVE  \E x \in S : \A y \in S : x <= y
<1> DEFINE Less == {p \in Nat \X Nat : p[1] < p[2]}
<1>1. IsWellFoundedOn(Less, Nat)
  BY NatLessThanWellFounded DEF OpToRel
<1>2. \A x, y \in Nat : y < x => <<y, x>> \in Less
  OBVIOUS
<1> HIDE DEF Less
<1>3. PICK x \in S : \A y \in S : <<y, x>> \notin Less
  BY <1>1, WFMin
<1>4. ASSUME NEW y \in S PROVE x <= y
  <2>1. x \in Nat /\ y \in Nat /\ ~(y < x)
    BY <1>2, <1>3
  <2> QED BY <2>1
<1> QED BY <1>4

\* Where the highlight goes: to an item, and to the one it is asked for
LEMMA Placed ==
    ASSUME PickSetting, picked \in Pick!Entry \ Comment, NEW a
    PROVE  /\ Pick!Place(a) \in 0..C - 1
           /\ a \in Pick!Entry \ Comment => Items[Pick!Place(a) + 1] = a
<1>0. DOMAIN Items = 1..C /\ C \in Nat
  BY ItemFacts
<1>1. CASE Pick!Actives(a) # {}
  <2>1. Pick!Actives(a) \subseteq 1..C
    BY <1>0 DEF Pick!Actives
  <2>2. \E i \in Pick!Actives(a) : \A j \in Pick!Actives(a) : i <= j
    BY <1>0, <1>1, <2>1, LeastOf
  <2>3. PICK i \in Pick!Actives(a) : Pick!Place(a) = i - 1
    BY <1>1, <2>2 DEF Pick!Place
  <2>4. i \in 1..C /\ (i - 1) + 1 = i
    BY <1>0, <2>1
  <2>5. a \in Pick!Entry \ Comment => Items[i] = a
    BY <2>3 DEF Pick!Actives, Pick!Symbol, PickSetting, Pick!EntriesAssumption
  <2> QED BY <1>0, <2>3, <2>4, <2>5
<1>2. CASE Pick!Actives(a) = {}
  <2>1. PICK i \in 1..C : Items[i] = picked /\ Pick!Place(a) = i - 1
    <3>1. \E i \in DOMAIN Items : Items[i] = picked
      BY <1>0, ItemFacts
    <3> QED BY <1>0, <1>2, <3>1 DEF Pick!Place
  <2>2. a \notin Pick!Entry \ Comment
    <3>1. SUFFICES ASSUME a \in Pick!Entry, a \notin Comment PROVE FALSE
      OBVIOUS
    <3>2. PICK j \in DOMAIN Items : Items[j] = a
      BY <1>0, <3>1, ItemFacts
    <3>3. j \in Pick!Actives(a)
      BY <3>1, <3>2 DEF Pick!Actives, Pick!Symbol
    <3> QED BY <1>2, <3>3
  <2>3. Pick!Place(a) \in 0..C - 1
    BY <1>0, <2>1
  <2> QED BY <2>2, <2>3
<1> QED BY <1>1, <1>2

LEMMA ListedShown ==
    ASSUME PickSetting, picked \in Pick!Entry \ Comment, NEW a, Pick!Shown(a)
    PROVE  Listed' /\ scroll' + choice' = Pick!Place(a)
<1>1. PICK n, first : n = Pick!Place(a) /\ first = Pick!Beyond(n)
  OBVIOUS
<1>2. n \in 0..C - 1
  BY <1>1, Placed
<1>3. /\ C \in Nat /\ M \in Nat /\ M >= 1 /\ M <= C /\ M <= list_height /\ (M < C => M = list_height)
      /\ list_height \in Nat
  BY ItemFacts DEF PickSetting, Pick!HeightAssumption
<1>4. first = IF n >= list_height THEN n - list_height + 1 ELSE 0
  BY <1>1 DEF Pick!Beyond
<1>5. first \in Nat /\ first + M <= C /\ n - first \in 0..M - 1 /\ first + (n - first) = n
  BY ONLY <1>2, <1>3, <1>4
<1>6. Pick!PrintList(first, n - first) /\ open' = TRUE /\ picked' = picked
  BY <1>1 DEF Pick!Shown
<1>7. scroll' = first /\ choice' = n - first /\ AreRows(list', first, n - first, picked)
  BY <1>5, <1>6, Printed
<1> QED BY <1>1, <1>5, <1>6, <1>7 DEF Listed

LEMMA ListedNext ==
    ASSUME PickSetting, Listed, [Pick!Next]_Pick!vars
    PROVE  Listed'
<1>0. picked \in Pick!Entry \ Comment
  BY DEF Listed
<1>1. ASSUME NEW a, Pick!Shown(a) PROVE Listed'
  BY <1>0, <1>1, ListedShown
<1>2. ASSUME picked' \in Pick!Entry \ Comment, Pick!Gone PROVE Listed'
  BY <1>2 DEF Pick!Gone, Listed
<1>3. ASSUME NEW r \in 0..M - 1, r # choice, Pick!Highlight(r) PROVE Listed'
  BY <1>3, ListedHighlight
<1>4. CASE Pick!Open \/ Pick!Help
  BY <1>1, <1>4 DEF Pick!Open, Pick!Help
<1>5. CASE Pick!Resize
  <2>1. /\ open /\ Pick!PrintList(scroll, choice) /\ picked' = picked /\ open' = open
        /\ scroll \in Nat /\ scroll + M <= C /\ choice \in 0..M - 1
    BY <1>5 DEF Pick!Resize, Listed
  <2>2. scroll' = scroll /\ choice' = choice /\ AreRows(list', scroll, choice, picked)
    BY <2>1, Printed
  <2> QED BY <1>0, <2>1, <2>2 DEF Listed
<1>6. CASE Pick!Up
  BY <1>6, ListedUp
<1>7. CASE Pick!Down
  BY <1>7, ListedDown
<1>8. CASE Pick!UpRow \/ Pick!DownRow
  <2>1. open /\ choice \in 0..M - 1 /\ M \in Nat
    BY <1>8, ItemFacts DEF Listed, Pick!UpRow, Pick!DownRow, Pick!Highlight
  <2>2. CASE Pick!UpRow
    <3>1. choice > 0 /\ Pick!Highlight(choice - 1)
      BY <2>2 DEF Pick!UpRow
    <3>2. choice - 1 \in 0..M - 1 /\ choice - 1 # choice
      BY ONLY <2>1, <3>1
    <3> QED BY <1>3, <3>1, <3>2
  <2>3. CASE Pick!DownRow
    <3>1. choice < M - 1 /\ Pick!Highlight(choice + 1)
      BY <2>3 DEF Pick!DownRow, M
    <3>2. choice + 1 \in 0..M - 1 /\ choice + 1 # choice
      BY ONLY <2>1, <3>1
    <3> QED BY <1>3, <3>1, <3>2
  <2> QED BY <1>8, <2>2, <2>3
<1>9. CASE Pick!KeyLetter
  <2>1. PICK k \in {Letter[e] : e \in Pick!Entry} :
               \E r \in Pick!WithLetter(k) \ {choice} : Pick!Highlight(r)
    BY <1>9 DEF Pick!KeyLetter
  <2>2. PICK r \in Pick!WithLetter(k) \ {choice} : Pick!Highlight(r)
    BY <2>1
  <2>3. r \in 0..M - 1 /\ r # choice
    BY <2>2 DEF Pick!WithLetter, M
  <2> QED BY <1>3, <2>2, <2>3
<1>10. CASE Pick!Select
  <2>1. CASE Pick!Current \in Comment
    BY <1>1, <1>10, <2>1 DEF Pick!Select
  <2>2. CASE Pick!Current \notin Comment
    <3>1. open /\ picked' = Pick!Current /\ Pick!Gone
      BY <1>10, <2>2 DEF Pick!Select
    <3>2. scroll \in Nat /\ choice \in 0..M - 1 /\ scroll + M <= C /\ C \in Nat /\ M \in Nat
      BY <3>1, ItemFacts DEF Listed
    <3>3. (scroll + choice) + 1 \in 1..C
      BY ONLY <3>2
    <3>4. Pick!Current \in Pick!Entry
      BY <3>3, ItemFacts DEF Pick!Current, Pick!Item
    <3> QED BY <1>2, <2>2, <3>1, <3>4
  <2> QED BY <2>1, <2>2
<1>11. CASE Pick!Escape
  BY <1>0, <1>2, <1>11 DEF Pick!Escape
<1>12. CASE UNCHANGED Pick!vars
  BY <1>12 DEF Pick!vars, Listed, AreRows
<1> QED BY <1>4, <1>5, <1>6, <1>7, <1>8, <1>9, <1>10, <1>11, <1>12 DEF Pick!Next

LEMMA ListedIsInView ==
    ASSUME PickSetting, Listed
    PROVE  Pick!ListInView
<1>1. SUFFICES ASSUME open PROVE Pick!ListInView
  BY DEF Pick!ListInView
<1>2. /\ scroll \in Nat /\ choice \in 0..M - 1 /\ scroll + M <= C
      /\ list = [i \in 1..M |-> RowAt(i, scroll, choice, picked)]
  BY <1>1 DEF Listed, AreRows
<1>3. ASSUME NEW i \in 1..M
      PROVE  RowAt(i, scroll, choice, picked)
             = [item |-> Items[scroll + i], x |-> Items[scroll + i] = picked, lit |-> i - 1 = choice]
  <2>1. CASE i - 1 = choice
    BY <2>1 DEF RowAt, RowFor
  <2>2. CASE i - 1 # choice
    BY <2>2 DEF RowAt, RowFor
  <2> QED BY <2>1, <2>2
<1>4. list = [i \in 1..M |->
                [item |-> Items[scroll + i], x |-> Items[scroll + i] = picked, lit |-> i - 1 = choice]]
  BY ONLY <1>2, <1>3
<1> QED BY <1>2, <1>4 DEF Pick!ListInView, M, C, Pick!count

LEMMA PickInit ==
    ASSUME Pick!Init
    PROVE  Listed
BY DEF Pick!Init, Listed

(***************************************************************************)
(* The rows of menuconfig's list of a choice's values are its items from   *)
(* the scroll position on, with the highlight and the X where they belong, *)
(* though a key redraws no more than two of them.                          *)
(***************************************************************************)
THEOREM PickListInView ==
    ASSUME PickSetting
    PROVE  Pick!Spec => []Pick!ListInView
<1>1. Listed /\ [Pick!Next]_Pick!vars => Listed'
  BY ListedNext
<1>2. Listed => Pick!ListInView
  BY ListedIsInView
<1> QED BY <1>1, <1>2, PickInit, PTL DEF Pick!Spec

LEMMA PickDoesAsSeen ==
    ASSUME PickSetting, Listed, [Pick!Next]_Pick!vars
    PROVE  Pick!PickIsHighlit \/ UNCHANGED Pick!vars
<1>1. ASSUME open
      PROVE  /\ scroll \in Nat /\ choice \in 0..M - 1 /\ scroll + M <= C /\ C \in Nat /\ M \in Nat
             /\ (scroll + choice) + 1 \in 1..C /\ scroll + (choice + 1) = (scroll + choice) + 1
             /\ choice + 1 \in 1..M /\ (choice + 1) - 1 = choice
  <2>1. scroll \in Nat /\ choice \in 0..M - 1 /\ scroll + M <= C /\ C \in Nat /\ M \in Nat
    BY <1>1, ItemFacts DEF Listed
  <2> QED BY ONLY <2>1
<1>2. ASSUME picked' # picked, Pick!Next PROVE list[choice + 1].item = picked'
  <2>1. Pick!Select /\ Pick!Current \notin Comment
    BY <1>2 DEF Pick!Next, Pick!Open, Pick!Resize, Pick!Up, Pick!Down, Pick!UpRow, Pick!DownRow,
                Pick!KeyLetter, Pick!Highlight, Pick!Select, Pick!Help, Pick!Escape, Pick!Shown, Pick!Keeps
  <2>2. open /\ picked' = Items[(scroll + choice) + 1]
    BY <2>1 DEF Pick!Select, Pick!Current, Pick!Item
  <2>3. list[choice + 1] = RowAt(choice + 1, scroll, choice, picked)
    BY <1>1, <2>2 DEF Listed, AreRows
  <2>4. list[choice + 1] = RowFor(Items[(scroll + choice) + 1], picked, TRUE)
    BY <1>1, <2>2, <2>3 DEF RowAt
  <2> QED BY <2>2, <2>4 DEF RowFor
<1>3. ASSUME Pick!Up \/ Pick!UpRow PROVE scroll' + choice' = scroll + choice - 1
  <2>1. open /\ ((scroll' = scroll - 1 /\ choice' = choice) \/ (scroll' = scroll /\ choice' = choice - 1))
    BY <1>3 DEF Pick!Up, Pick!UpRow, Pick!Highlight
  <2>2. scroll \in Nat /\ choice \in 0..M - 1
    BY <1>1, <2>1
  <2> QED BY ONLY <2>1, <2>2
<1>4. ASSUME Pick!Down \/ Pick!DownRow PROVE scroll' + choice' = scroll + choice + 1
  <2>1. open /\ ((scroll' = scroll + 1 /\ choice' = choice) \/ (scroll' = scroll /\ choice' = choice + 1))
    BY <1>4 DEF Pick!Down, Pick!DownRow, Pick!Highlight
  <2>2. scroll \in Nat /\ choice \in 0..M - 1
    BY <1>1, <2>1
  <2> QED BY ONLY <2>1, <2>2
<1>5. ASSUME Pick!Help, Pick!Current \notin Comment PROVE Pick!Current' = Pick!Current
  <2>1. PICK e : e = Pick!Current
    OBVIOUS
  <2>2. open /\ Pick!Shown(e)
    BY <1>5, <2>1 DEF Pick!Help, Pick!Symbol
  <2>3. e \in Pick!Entry \ Comment
    BY <1>1, <1>5, <2>1, <2>2, ItemFacts DEF Pick!Current, Pick!Item
  <2>4. scroll' + choice' = Pick!Place(e) /\ Items[Pick!Place(e) + 1] = e
    BY <2>2, <2>3, ListedShown, Placed DEF Listed
  <2> QED BY <2>1, <2>4 DEF Pick!Current, Pick!Item
<1> QED BY <1>2, <1>3, <1>4, <1>5 DEF Pick!PickIsHighlit

(***************************************************************************)
(* What is picked is what the screen shows highlighted, a key moves the    *)
(* highlight by one item, and the help text of a symbol leaves it where it *)
(* was.                                                                    *)
(***************************************************************************)
THEOREM PickIsAsSeen ==
    ASSUME PickSetting
    PROVE  Pick!Spec => [][Pick!PickIsHighlit]_Pick!vars
<1>1. Listed /\ [Pick!Next]_Pick!vars => Listed'
  BY ListedNext
<1>2. Listed /\ [Pick!Next]_Pick!vars => [Pick!PickIsHighlit]_Pick!vars
  BY PickDoesAsSeen
<1> QED BY <1>1, <1>2, PickInit, PTL DEF Pick!Spec

-----------------------------------------------------------------------------
(***************************************************************************)
(* Menus.  A function defined by recursion over the entries exists, since  *)
(* there is no first number up to which there is none; so the list of a    *)
(* menu is one, of entries.                                                *)
(***************************************************************************)
MenuSetting == Menus!EntriesAssumption /\ Menus!HeightsAssumption
Entries == Seq(Menus!Entry)

\* What the nth entry makes of the list of those before it
Longer(shown, names, n) == IF MenuOrder[n] \in shown THEN Append(names, MenuOrder[n]) ELSE names
IsList(f, shown, k) ==
    /\ f \in [0..k -> Entries]
    /\ f = [n \in 0..k |-> IF n = 0 THEN <<>> ELSE Longer(shown, f[n - 1], n)]

LEMMA LongerIsList ==
    ASSUME MenuSetting, NEW shown, NEW names \in Entries, NEW n \in 1..Len(MenuOrder)
    PROVE  Longer(shown, names, n) \in Entries
<1>1. MenuOrder \in Entries
  BY DEF MenuSetting, Menus!EntriesAssumption, Entries
<1> QED BY <1>1 DEF Longer, Entries

LEMMA ListTo ==
    ASSUME MenuSetting, NEW shown, NEW k \in 0..Len(MenuOrder)
    PROVE  \E f : IsList(f, shown, k)
<1>0. MenuOrder \in Entries /\ Len(MenuOrder) \in Nat
  BY DEF MenuSetting, Menus!EntriesAssumption, Entries
<1> DEFINE Lacking == {n \in 0..Len(MenuOrder) : ~\E f : IsList(f, shown, n)}
<1>1. ASSUME Lacking # {} PROVE FALSE
  <2>0. Lacking \subseteq Nat /\ Lacking # {}
    BY ONLY <1>0, <1>1
  <2>1. PICK n \in Lacking : \A m \in Lacking : n <= m
    <3> HIDE DEF Lacking
    <3> QED BY ONLY <2>0, LeastOf
  <2>2. n \in Nat /\ n <= Len(MenuOrder) /\ ~\E f : IsList(f, shown, n)
    BY <1>0
  <2>3. CASE n = 0
    <3>1. PICK g : g = [i \in 0..0 |-> <<>>]
      OBVIOUS
    <3>2. g \in [0..0 -> Entries] /\ \A i \in 0..0 : i = 0 /\ g[i] = <<>>
      <4>1. <<>> \in Entries
        BY EmptySeq DEF Entries
      <4>2. \A i \in 0..0 : i = 0
        OBVIOUS
      <4> QED BY <3>1, <4>1, <4>2
    <3>3. g = [i \in 0..0 |-> IF i = 0 THEN <<>> ELSE Longer(shown, g[i - 1], i)]
      BY <3>2
    <3> QED BY <2>2, <2>3, <3>2, <3>3 DEF IsList
  <2>4. CASE n > 0
    <3>1. n - 1 \in 0..Len(MenuOrder) /\ n - 1 \in 0..n - 1 /\ n \in 1..Len(MenuOrder)
          /\ ~(n <= n - 1) /\ n # 0
      BY <1>0, <2>2, <2>4
    <3>2. PICK f : IsList(f, shown, n - 1)
      BY <2>1, <3>1
    <3>3. f \in [0..n - 1 -> Entries]
          /\ \A i \in 0..n - 1 : f[i] = IF i = 0 THEN <<>> ELSE Longer(shown, f[i - 1], i)
      BY <3>2 DEF IsList
    <3>4. PICK g : g = [i \in 0..n |-> IF i = n THEN Longer(shown, f[n - 1], n) ELSE f[i]]
      OBVIOUS
    <3>5. Longer(shown, f[n - 1], n) \in Entries
      BY <3>1, <3>3, LongerIsList
    <3>6. g \in [0..n -> Entries] /\ g[n] = Longer(shown, f[n - 1], n)
          /\ \A i \in 0..n - 1 : g[i] = f[i]
      BY <2>2, <3>1, <3>3, <3>4, <3>5
    <3>7. ASSUME NEW i \in 0..n
          PROVE  g[i] = IF i = 0 THEN <<>> ELSE Longer(shown, g[i - 1], i)
      <4>1. CASE i = n
        BY <3>1, <3>6, <4>1
      <4>2. CASE i # n
        <5>1. i \in 0..n - 1 /\ (i # 0 => i - 1 \in 0..n - 1)
          BY <2>2, <4>2
        <5> QED BY <3>3, <3>6, <5>1
      <4> QED BY <4>1, <4>2
    <3>8. g = [i \in 0..n |-> IF i = 0 THEN <<>> ELSE Longer(shown, g[i - 1], i)]
      BY <3>6, <3>7
    <3> QED BY <2>2, <3>6, <3>8 DEF IsList
  <2> QED BY <2>2, <2>3, <2>4
<1> QED BY <1>1

LEMMA ListsAreSeqs ==
    ASSUME MenuSetting, NEW shown, NEW g,
           g = [n \in 0..Len(MenuOrder) |-> IF n = 0 THEN <<>> ELSE Longer(shown, g[n - 1], n)]
    PROVE  \A n \in 0..Len(MenuOrder) : g[n] \in Entries
<1>0. MenuOrder \in Entries /\ Len(MenuOrder) \in Nat
  BY DEF MenuSetting, Menus!EntriesAssumption, Entries
<1> DEFINE Wrong == {n \in 0..Len(MenuOrder) : g[n] \notin Entries}
<1>1. ASSUME Wrong # {} PROVE FALSE
  <2>0. Wrong \subseteq Nat /\ Wrong # {}
    BY ONLY <1>0, <1>1
  <2>1. PICK n \in Wrong : \A m \in Wrong : n <= m
    <3> HIDE DEF Wrong
    <3> QED BY ONLY <2>0, LeastOf
  <2>2. n \in 0..Len(MenuOrder) /\ g[n] \notin Entries /\ n # 0
    BY EmptySeq DEF Entries
  <2>3. n - 1 \in 0..Len(MenuOrder) /\ n \in 1..Len(MenuOrder) /\ ~(n <= n - 1)
    BY <1>0, <2>2
  <2>4. g[n - 1] \in Entries
    BY <2>1, <2>3
  <2>5. g[n] = Longer(shown, g[n - 1], n)
    BY <2>2
  <2> QED BY ONLY <2>2, <2>3, <2>4, <2>5, LongerIsList, MenuSetting
<1> QED BY <1>1

LEMMA BuildIsList ==
    ASSUME MenuSetting, NEW menu
    PROVE  Menus!Build(menu) \in Entries
<1>0. MenuOrder \in Entries /\ Len(MenuOrder) \in 0..Len(MenuOrder)
      /\ \A n \in 1..Len(MenuOrder) : MenuOrder[n] \in Menus!Entry
  BY DEF MenuSetting, Menus!EntriesAssumption, Entries
<1> DEFINE shown == {e \in Menus!Entry : Menu[e] = menu /\ Menus!Visible(e)}
           made(f) == [n \in 0..Len(MenuOrder) |->
                         IF n = 0 THEN <<>>
                         ELSE IF Menu[MenuOrder[n]] = menu /\ Menus!Visible(MenuOrder[n])
                              THEN Append(f[n - 1], MenuOrder[n])
                         ELSE f[n - 1]]
<1>1. PICK f : IsList(f, shown, Len(MenuOrder))
  BY <1>0, ListTo
<1>2. ASSUME NEW g PROVE made(g) = [n \in 0..Len(MenuOrder) |->
                                      IF n = 0 THEN <<>> ELSE Longer(shown, g[n - 1], n)]
  <2>1. ASSUME NEW n \in 0..Len(MenuOrder), n # 0
        PROVE  MenuOrder[n] \in shown <=> Menu[MenuOrder[n]] = menu /\ Menus!Visible(MenuOrder[n])
    BY <1>0, <2>1
  <2> QED BY <2>1 DEF Longer
<1>3. f = made(f)
  BY <1>1, <1>2 DEF IsList
<1>4. PICK g : g = CHOOSE h : h = made(h)
  OBVIOUS
<1>5. g = made(g)
  BY <1>3, <1>4
<1>6. Menus!Build(menu) = g[Len(MenuOrder)]
  BY <1>4 DEF Menus!Build
<1> HIDE DEF made
<1>7. \A n \in 0..Len(MenuOrder) : g[n] \in Entries
  BY <1>2, <1>5, ListsAreSeqs
<1> QED BY <1>0, <1>6, <1>7

\* Where a box of max rows may be in a list of n, with which of them chosen
Within(s, c, max, n) ==
    s \in Nat /\ c \in Nat /\ s + max <= n /\ (n # 0 => c < max) /\ (n = 0 => c = 0)

LEMMA Placing ==
    ASSUME NEW n \in Nat, NEW h \in Nat \ {0}, NEW s \in Nat, NEW first,
           NEW c \in Nat, n # 0 => c < n, n = 0 => c = 0,
           NEW p, p = Menus!Place(c, s, n, Menus!Smaller(h, n), first)
    PROVE  /\ Within(p.scroll, p.choice, Menus!Smaller(h, n), n)
           /\ p.scroll + p.choice = c
           /\ first = 0 \/ s = 0 => p.first = p.scroll
<1>1. PICK max : max = Menus!Smaller(h, n)
  OBVIOUS
<1>2. max \in Nat /\ max <= n /\ (n # 0 => max # 0)
  BY ONLY <1>1, h \in Nat \ {0}, n \in Nat DEF Menus!Smaller
<1>3. PICK half : half = max \div 2
  OBVIOUS
<1>4. half \in Nat /\ 2 * half <= max /\ max <= 2 * half + 1
  BY ONLY <1>2, <1>3
<1>5. PICK m : m = Menus!Middle(c, n, max)
  OBVIOUS
<1>6. m = IF c >= n - half THEN n - max ELSE c - half
  BY <1>3, <1>5 DEF Menus!Middle
<1>7. CASE s <= c /\ s + max > c /\ s + max <= n
  <2>1. p.first = s /\ p.scroll = s /\ p.choice = c - s
    BY <1>1, <1>7 DEF Menus!Place
  <2> QED BY ONLY <1>1, <1>2, <1>7, <2>1, n \in Nat, s \in Nat, c \in Nat, n # 0 => c < n DEF Within
<1>8. CASE ~(s <= c /\ s + max > c /\ s + max <= n) /\ c >= max
  <2>1. p.first = m /\ p.scroll = m /\ p.choice = c - m
    BY <1>1, <1>5, <1>8 DEF Menus!Place
  <2> QED BY ONLY <1>1, <1>2, <1>4, <1>6, <1>8, <2>1, n \in Nat, c \in Nat,
            n # 0 => c < n, n = 0 => c = 0 DEF Within
<1>9. CASE ~(s <= c /\ s + max > c /\ s + max <= n) /\ ~(c >= max)
  <2>1. p.first = first /\ p.scroll = 0 /\ p.choice = c
    BY <1>1, <1>9 DEF Menus!Place
  <2> QED BY ONLY <1>1, <1>2, <1>9, <2>1, n \in Nat, c \in Nat, s \in Nat, n = 0 => c = 0 DEF Within
<1> QED BY <1>7, <1>8, <1>9

\* What the rows show of a list, with one highlighted or with none
RowOf(names, item, lit) == [item |-> names[item], lit |-> lit]
RowsOf(names, s, c, h) ==
    [r \in 1..h |-> IF r <= Menus!Smaller(h, Len(names)) THEN RowOf(names, s + r, r - 1 = c) ELSE Menus!Blank]

Places == {Root} \cup Menus!Entry \cup {Menu[e] : e \in Menus!Entry}
Calls == [menu : Places, active : Menus!Entry \cup {NoEntry}, s_scroll : Nat]

(***************************************************************************)
(* The box is within the list however it came about; its rows are those of *)
(* the list unless it has been resized while a scroll position was saved.  *)
(***************************************************************************)
AsListed ==
    /\ height \in Nat \ {0} /\ items \in Entries /\ frames \in Seq(Calls)
    /\ state \in {"conf", "box"} => frames # <<>>
    /\ state = "box" => Within(scroll, choice, Menus!Smaller(height, Len(items)), Len(items))
    /\ state = "box" /\ Menus!Fits => rows = RowsOf(items, scroll, choice, height)
    /\ Menus!Fits => state # "crashed"

LEMMA ListedInView ==
    ASSUME MenuSetting, AsListed
    PROVE  Menus!RowsShowItems
<1>1. height \in Nat \ {0} /\ Len(items) \in Nat /\ Menus!max_choice = Menus!Smaller(height, Len(items))
  BY DEF AsListed, Menus!max_choice, Menus!count, Menus!Smaller, Entries
<1>2. ASSUME Menus!Fits, state = "box"
      PROVE  \A r \in 1..height :
                rows[r] = IF r <= Menus!max_choice
                          THEN [item |-> items[scroll + r], lit |-> r - 1 = choice] ELSE Menus!Blank
  BY <1>1, <1>2 DEF AsListed, RowsOf, RowOf
<1>3. ASSUME state = "box"
      PROVE  /\ scroll >= 0 /\ scroll + Menus!max_choice <= Menus!count
             /\ choice >= 0 /\ (Menus!count # 0 => choice < Menus!max_choice)
  BY <1>1, <1>3 DEF AsListed, Within, Menus!count
<1> QED BY <1>2, <1>3 DEF AsListed, Menus!RowsShowItems

LEMMA MenuInit == MenuSetting /\ Menus!Init => AsListed /\ resized = FALSE
<1> SUFFICES ASSUME MenuSetting, Menus!Init PROVE AsListed /\ resized = FALSE
  OBVIOUS
<1>1. Menus!Frame(Root, NoEntry) \in Calls
  BY DEF Menus!Frame, Calls, Places
<1>2. frames \in Seq(Calls) /\ frames # <<>>
  BY <1>1 DEF Menus!Init
<1>3. items \in Entries
  BY EmptySeq DEF Menus!Init, Entries
<1> QED BY <1>2, <1>3 DEF Menus!Init, AsListed, MenuSetting, Menus!HeightsAssumption

-----------------------------------------------------------------------------
\* Where the box opens
LEMMA ChosenItem ==
    ASSUME NEW names \in Entries, NEW selected, NEW c \in Nat,
           Len(names) # 0 => c < Len(names), Len(names) = 0 => c = 0,
           NEW d, d = Menus!Chosen(names, selected, c)
    PROVE  /\ d \in Nat /\ (Len(names) # 0 => d < Len(names)) /\ (Len(names) = 0 => d = 0)
           /\ selected \in Menus!Range(names) => names[d + 1] = selected
<1>1. Len(names) \in Nat /\ DOMAIN names = 1..Len(names)
  BY DEF Entries
<1>2. CASE \E i \in DOMAIN names : names[i] = selected
  <2>1. PICK i : i = CHOOSE j \in DOMAIN names : names[j] = selected
    OBVIOUS
  <2>2. i \in DOMAIN names /\ names[i] = selected
    BY <1>2, <2>1
  <2>3. d = i - 1
    BY <1>2, <2>1 DEF Menus!Chosen
  <2>4. i \in 1..Len(names) /\ d + 1 = i
    BY <1>1, <2>2, <2>3
  <2> QED BY ONLY <1>1, <2>2, <2>3, <2>4
<1>3. CASE ~\E i \in DOMAIN names : names[i] = selected
  <2>1. d = c
    BY <1>3 DEF Menus!Chosen
  <2>2. selected \notin Menus!Range(names)
    BY <1>3 DEF Menus!Range
  <2> QED BY <2>1, <2>2
<1> QED BY <1>2, <1>3

LEMMA Drawing ==
    ASSUME NEW names \in Entries, NEW h \in Nat \ {0}, NEW first, NEW c \in Nat,
           Len(names) # 0 => c < Len(names), Len(names) = 0 => c = 0,
           frames \in Seq(Calls), frames # <<>>, Menus!Draw(names, h, first, c)
    PROVE  /\ state' \in {"box", "crashed"}
           /\ state' = "box" => /\ Within(scroll', choice', Menus!Smaller(h, Len(names)), Len(names))
                                /\ Head(frames).active \in Menus!Range(names)
                                     => names[(scroll' + choice') + 1] = Head(frames).active
           /\ first = 0 \/ Head(frames).s_scroll = 0
                => state' = "box" /\ rows' = RowsOf(names, scroll', choice', h)
<1>1. PICK n, max, f : n = Len(names) /\ max = Menus!Smaller(h, n) /\ f = Head(frames)
  OBVIOUS
<1>2. f \in Calls /\ f.s_scroll \in Nat /\ n \in Nat
  <2>1. f \in Calls
    BY ONLY <1>1, frames \in Seq(Calls), frames # <<>>
  <2>2. n \in Nat
    BY ONLY <1>1, names \in Entries DEF Entries
  <2> QED BY ONLY <2>1, <2>2 DEF Calls
<1>3. PICK d : d = Menus!Chosen(names, f.active, c)
  OBVIOUS
<1>4. /\ d \in Nat /\ (n # 0 => d < n) /\ (n = 0 => d = 0)
      /\ f.active \in Menus!Range(names) => names[d + 1] = f.active
  BY <1>1, <1>3, ChosenItem
<1>5. PICK p : p = Menus!Place(d, f.s_scroll, n, max, first)
  OBVIOUS
<1>6. Menus!Show(names, h, max, p)
  BY <1>1, <1>3, <1>5 DEF Menus!Draw
<1>7. /\ Within(p.scroll, p.choice, max, n) /\ p.scroll + p.choice = d
      /\ first = 0 \/ f.s_scroll = 0 => p.first = p.scroll
  BY <1>1, <1>2, <1>4, <1>5, Placing
<1>8. scroll' = p.scroll /\ choice' = p.choice /\ state' \in {"box", "crashed"}
  BY <1>6 DEF Menus!Show
<1>9. ASSUME p.first = p.scroll PROVE state' = "box" /\ rows' = RowsOf(names, scroll', choice', h)
  <2>1. ~(p.first + max > n)
    <3>1. p.scroll + max <= n /\ p.scroll \in Nat
      BY <1>7 DEF Within
    <3>2. max \in Nat
      BY ONLY <1>1, <1>2, h \in Nat \ {0} DEF Menus!Smaller
    <3> QED BY ONLY <1>2, <1>9, <3>1, <3>2
  <2>2. state' = "box"
        /\ rows' = [r \in 1..h |-> IF r <= max THEN [item |-> names[p.first + r], lit |-> r - 1 = p.choice]
                                   ELSE Menus!Blank]
    BY <1>1, <1>6, <2>1 DEF Menus!Show
  <2> QED BY <1>1, <1>8, <1>9, <2>2 DEF RowsOf, RowOf
<1> QED BY <1>1, <1>4, <1>7, <1>8, <1>9

LEMMA ListedOpen ==
    ASSUME MenuSetting, AsListed, Menus!Open
    PROVE  AsListed' /\ (Head(frames).active \in Menus!Range(items') => Menus!Current' = Head(frames).active)
<1>1. /\ state = "conf" /\ items' = Menus!Build(Head(frames).menu)
      /\ Menus!Draw(items', height, 0, 0) /\ resized' = FALSE /\ frames' = frames /\ height' = height
  BY DEF Menus!Open
<1>2. items' \in Entries /\ frames \in Seq(Calls) /\ frames # <<>> /\ height \in Nat \ {0}
  BY <1>1, BuildIsList DEF AsListed
<1>3. PICK names : names = items'
  OBVIOUS
<1>4. Len(names) \in Nat
  BY <1>2, <1>3 DEF Entries
<1>5. /\ state' = "box" /\ Within(scroll', choice', Menus!Smaller(height, Len(names)), Len(names))
      /\ rows' = RowsOf(names, scroll', choice', height)
      /\ Head(frames).active \in Menus!Range(names) => names[(scroll' + choice') + 1] = Head(frames).active
  BY <1>1, <1>2, <1>3, <1>4, Drawing
<1> QED BY <1>1, <1>2, <1>3, <1>5 DEF AsListed, Menus!Current, Menus!Item

LEMMA ListedResize ==
    ASSUME MenuSetting, AsListed, Menus!Resize
    PROVE  AsListed'
<1>1. /\ state = "box" /\ Menus!Draw(items, height', first_item, choice) /\ height' \in MenuHeights
      /\ resized' = TRUE /\ items' = items /\ frames' = frames
  BY DEF Menus!Resize
<1>2. /\ items \in Entries /\ frames \in Seq(Calls) /\ frames # <<>> /\ height \in Nat \ {0}
      /\ Within(scroll, choice, Menus!Smaller(height, Len(items)), Len(items))
  BY <1>1 DEF AsListed
<1>3. height' \in Nat \ {0}
  BY <1>1 DEF MenuSetting, Menus!HeightsAssumption
<1>4. choice \in Nat /\ (Len(items) # 0 => choice < Len(items)) /\ (Len(items) = 0 => choice = 0)
  BY <1>2 DEF Within, Menus!Smaller, Entries
<1>5. PICK h : h = height'
  OBVIOUS
<1>6. /\ state' \in {"box", "crashed"}
      /\ state' = "box" => Within(scroll', choice', Menus!Smaller(h, Len(items)), Len(items))
      /\ Head(frames).s_scroll = 0 => state' = "box" /\ rows' = RowsOf(items, scroll', choice', h)
  BY <1>1, <1>2, <1>3, <1>4, <1>5, Drawing
<1> QED BY <1>1, <1>2, <1>3, <1>5, <1>6 DEF AsListed, Menus!Fits

-----------------------------------------------------------------------------
\* The box as a key finds it, and its rows with one printed anew or scrolled
Boxed(s, c, rs) == [scroll |-> s, choice |-> c, rows |-> rs]
WithRow(rs, r, x) == [rs EXCEPT ![r] = x]
RowsAbove(s, n, rs) ==
    [r \in 1..height |-> IF r <= n THEN RowOf(items, (s - n) + r, FALSE) ELSE rs[r - n]]
RowsBelow(s, n, rs) ==
    [r \in 1..height |-> IF r > height - n THEN RowOf(items, (s + n) + r, FALSE) ELSE rs[r + n]]

M0 == Menus!Smaller(height, Len(items))
Unlit(s) == RowsOf(items, s, 0 - 1, height)

LEMMA SizeOfBox ==
    ASSUME height \in Nat \ {0}, items \in Entries
    PROVE  /\ Len(items) \in Nat /\ M0 \in Nat /\ M0 <= Len(items) /\ M0 <= height
           /\ (M0 < Len(items) => M0 = height) /\ (Len(items) # 0 => M0 # 0)
           /\ Menus!max_choice = M0 /\ Menus!count = Len(items)
<1>1. Len(items) \in Nat
  BY ONLY items \in Entries DEF Entries
<1> QED BY ONLY <1>1, height \in Nat \ {0} DEF M0, Menus!Smaller, Menus!max_choice, Menus!count

LEMMA RowsChosen ==
    ASSUME height \in Nat \ {0}, items \in Entries, NEW s, NEW c, Within(s, c, M0, Len(items)),
           Len(items) # 0
    PROVE  /\ WithRow(RowsOf(items, s, c, height), c + 1, RowOf(items, (s + c) + 1, FALSE)) = Unlit(s)
           /\ WithRow(Unlit(s), c + 1, RowOf(items, (s + c) + 1, TRUE)) = RowsOf(items, s, c, height)
<1>1. s \in Nat /\ c \in Nat /\ c < M0 /\ M0 \in Nat /\ M0 <= height
  BY SizeOfBox DEF Within
<1>2. c + 1 \in 1..height /\ c + 1 <= M0 /\ s + (c + 1) = (s + c) + 1 /\ (c + 1) - 1 = c
      /\ \A r \in 1..height : r # c + 1 => r - 1 # c
  BY ONLY <1>1, height \in Nat \ {0}
<1>3. \A r \in 1..height : r - 1 # 0 - 1
  BY ONLY height \in Nat \ {0}
<1>4. PICK f, u : f = RowsOf(items, s, c, height) /\ u = Unlit(s)
  OBVIOUS
<1>5. /\ f = [r \in 1..height |-> IF r <= M0 THEN RowOf(items, s + r, r - 1 = c) ELSE Menus!Blank]
      /\ u = [r \in 1..height |-> IF r <= M0 THEN RowOf(items, s + r, FALSE) ELSE Menus!Blank]
  BY <1>3, <1>4 DEF RowsOf, Unlit, M0
<1>6. WithRow(f, c + 1, RowOf(items, (s + c) + 1, FALSE)) = u
  BY ONLY <1>2, <1>5 DEF WithRow
<1>7. WithRow(u, c + 1, RowOf(items, (s + c) + 1, TRUE)) = f
  BY ONLY <1>2, <1>5 DEF WithRow
<1> QED BY <1>4, <1>6, <1>7

LEMMA RowsScrolled ==
    ASSUME height \in Nat \ {0}, items \in Entries, NEW s \in Nat, s + M0 <= Len(items), NEW n \in Nat
    PROVE  /\ n <= s /\ (n = 0 \/ M0 = height) => RowsAbove(s, n, Unlit(s)) = Unlit(s - n)
           /\ s + n + M0 <= Len(items) => RowsBelow(s, n, Unlit(s)) = Unlit(s + n)
<1>1. M0 \in Nat /\ M0 <= height /\ Len(items) \in Nat /\ (M0 < Len(items) => M0 = height)
  BY SizeOfBox
<1>2. PICK u : u = Unlit(s)
  OBVIOUS
<1>3. \A t : Unlit(t) = [r \in 1..height |-> IF r <= M0 THEN RowOf(items, t + r, FALSE) ELSE Menus!Blank]
  <2>1. \A r \in 1..height : r - 1 # 0 - 1
    BY ONLY height \in Nat \ {0}
  <2> QED BY <2>1 DEF Unlit, RowsOf, M0
<1>4. ASSUME n <= s, n = 0 \/ M0 = height, NEW r \in 1..height
      PROVE  (IF r <= n THEN RowOf(items, (s - n) + r, FALSE) ELSE u[r - n])
               = IF r <= M0 THEN RowOf(items, (s - n) + r, FALSE) ELSE Menus!Blank
  <2>1. CASE r <= n
    <3>1. r <= M0
      BY ONLY <1>1, <1>4, <2>1, height \in Nat \ {0}, n \in Nat
    <3> QED BY <2>1, <3>1
  <2>2. CASE ~(r <= n)
    <3>1. r - n \in 1..height /\ (r - n <= M0 <=> r <= M0) /\ s + (r - n) = (s - n) + r
      BY ONLY <1>1, <1>4, <2>2, height \in Nat \ {0}, n \in Nat, s \in Nat
    <3> QED BY <1>2, <1>3, <2>2, <3>1
  <2> QED BY <2>1, <2>2
<1>5. ASSUME s + n + M0 <= Len(items), NEW r \in 1..height
      PROVE  (IF r > height - n THEN RowOf(items, (s + n) + r, FALSE) ELSE u[r + n])
               = IF r <= M0 THEN RowOf(items, (s + n) + r, FALSE) ELSE Menus!Blank
  <2>0. n = 0 \/ M0 = height
    BY ONLY <1>1, <1>5, n \in Nat, s \in Nat
  <2>1. CASE r > height - n
    <3>1. r <= M0
      BY ONLY <1>1, <2>0, <2>1, height \in Nat \ {0}, n \in Nat, r \in 1..height
    <3> QED BY <2>1, <3>1
  <2>2. CASE ~(r > height - n)
    <3>1. r + n \in 1..height /\ (r + n <= M0 <=> r <= M0) /\ s + (r + n) = (s + n) + r
      BY ONLY <1>1, <2>0, <2>2, height \in Nat \ {0}, n \in Nat, s \in Nat, r \in 1..height
    <3> QED BY <1>2, <1>3, <2>2, <3>1
  <2> QED BY <2>1, <2>2
<1>6. ASSUME n <= s, n = 0 \/ M0 = height PROVE RowsAbove(s, n, u) = Unlit(s - n)
  BY <1>3, <1>4, <1>6 DEF RowsAbove
<1>7. ASSUME s + n + M0 <= Len(items) PROVE RowsBelow(s, n, u) = Unlit(s + n)
  BY <1>3, <1>5, <1>7 DEF RowsBelow
<1> QED BY <1>2, <1>6, <1>7

\* What the keys make of a box
InBox == state = "box" /\ Len(items) # 0

LEMMA BoxFacts ==
    ASSUME AsListed, InBox
    PROVE  /\ height \in Nat \ {0} /\ items \in Entries
           /\ Within(scroll, choice, M0, Len(items)) /\ scroll \in Nat /\ choice \in Nat /\ choice < M0
           /\ scroll + M0 <= Len(items) /\ Len(items) \in Nat /\ M0 \in Nat
           /\ M0 <= height /\ (M0 < Len(items) => M0 = height)
           /\ Menus!max_choice = M0 /\ Menus!count = Len(items)
<1>1. /\ height \in Nat \ {0} /\ items \in Entries
      /\ Within(scroll, choice, M0, Len(items))
  BY DEF AsListed, InBox, M0
<1> QED BY <1>1, SizeOfBox DEF Within, InBox

LEMMA PlainBox ==
    ASSUME AsListed, InBox
    PROVE  \E rs : /\ Menus!Plain = Boxed(scroll, choice, rs)
                   /\ Menus!Fits => rs = Unlit(scroll)
<1>1. PICK rs : rs = WithRow(rows, choice + 1, RowOf(items, (scroll + choice) + 1, FALSE))
  OBVIOUS
<1>2. Menus!Plain = Boxed(scroll, choice, rs)
  BY <1>1 DEF Menus!Plain, Menus!PrintItem, Menus!Box, Menus!Lit, Menus!Item, Boxed, WithRow, RowOf
<1>3. ASSUME Menus!Fits PROVE rs = Unlit(scroll)
  <2>1. rows = RowsOf(items, scroll, choice, height)
    BY <1>3 DEF AsListed, InBox
  <2> QED BY <1>1, <2>1, BoxFacts, RowsChosen DEF InBox
<1> QED BY <1>2, <1>3

LEMMA AboveBox ==
    ASSUME NEW s \in Nat, NEW c, NEW rs, NEW n \in Nat, height \in Nat
    PROVE  Menus!Above(Boxed(s, c, rs), n) = Boxed(s - n, c, RowsAbove(s, n, rs))
<1>1. ASSUME NEW r \in 1..height PROVE Menus!Lit(s - n + r - 1, FALSE) = RowOf(items, (s - n) + r, FALSE)
  <2>1. (s - n + r - 1) + 1 = (s - n) + r
    BY ONLY s \in Nat, n \in Nat, height \in Nat, r \in 1..height
  <2> QED BY <2>1 DEF Menus!Lit, Menus!Item, RowOf
<1>2. [r \in 1..height |-> IF r <= n THEN Menus!Lit(s - n + r - 1, FALSE) ELSE rs[r - n]] = RowsAbove(s, n, rs)
  BY <1>1 DEF RowsAbove
<1>3. PICK b : b = Boxed(s, c, rs)
  OBVIOUS
<1>4. b = [scroll |-> s, choice |-> c, rows |-> rs] /\ b.scroll = s /\ b.choice = c /\ b.rows = rs
  BY <1>3 DEF Boxed
<1>5. Menus!Above(b, n) = [b EXCEPT !.scroll = s - n, !.rows = RowsAbove(s, n, rs)]
  BY <1>2, <1>4 DEF Menus!Above
<1> QED BY ONLY <1>3, <1>4, <1>5 DEF Boxed

LEMMA BelowBox ==
    ASSUME NEW s \in Nat, NEW c, NEW rs, NEW n \in Nat, height \in Nat
    PROVE  Menus!Below(Boxed(s, c, rs), n) = Boxed(s + n, c, RowsBelow(s, n, rs))
<1>1. ASSUME NEW r \in 1..height PROVE Menus!Lit(s + n + r - 1, FALSE) = RowOf(items, (s + n) + r, FALSE)
  <2>1. (s + n + r - 1) + 1 = (s + n) + r
    BY ONLY s \in Nat, n \in Nat, height \in Nat, r \in 1..height
  <2> QED BY <2>1 DEF Menus!Lit, Menus!Item, RowOf
<1>2. [r \in 1..height |-> IF r > height - n THEN Menus!Lit(s + n + r - 1, FALSE) ELSE rs[r + n]]
        = RowsBelow(s, n, rs)
  BY <1>1 DEF RowsBelow
<1>3. PICK b : b = Boxed(s, c, rs)
  OBVIOUS
<1>4. b = [scroll |-> s, choice |-> c, rows |-> rs] /\ b.scroll = s /\ b.choice = c /\ b.rows = rs
  BY <1>3 DEF Boxed
<1>5. Menus!Below(b, n) = [b EXCEPT !.scroll = s + n, !.rows = RowsBelow(s, n, rs)]
  BY <1>2, <1>4 DEF Menus!Below
<1> QED BY ONLY <1>3, <1>4, <1>5 DEF Boxed

\* A key leaves the box as it is but for its place, in which the rows are
\* those of the list.
LEMMA ListedMoved ==
    ASSUME AsListed, InBox, NEW s, NEW c, NEW rs, Within(s, c, M0, Len(items)),
           Menus!Fits => rs = Unlit(s), Menus!Moved(Boxed(s, c, rs))
    PROVE  AsListed' /\ scroll' = s /\ choice' = c
<1>1. /\ scroll' = s /\ choice' = c
      /\ rows' = WithRow(rs, c + 1, RowOf(items, (s + c) + 1, TRUE))
      /\ UNCHANGED <<on, all, frames, items, height, first_item, resized, state>>
  BY DEF Menus!Moved, Menus!PrintItem, Menus!Lit, Menus!Item, Boxed, WithRow, RowOf
<1>2. height \in Nat \ {0} /\ items \in Entries
  BY BoxFacts
<1>3. ASSUME Menus!Fits PROVE rows' = RowsOf(items, s, c, height)
  BY <1>1, <1>2, <1>3, RowsChosen DEF InBox
<1>4. Menus!Fits' <=> Menus!Fits
  BY <1>1 DEF Menus!Fits
<1>5. Within(scroll', choice', Menus!Smaller(height', Len(items')), Len(items'))
  BY <1>1 DEF M0
<1> QED BY <1>1, <1>3, <1>4, <1>5 DEF AsListed, InBox

LEMMA ListedKeyUp ==
    ASSUME AsListed, Menus!KeyUp
    PROVE  /\ AsListed'
           /\ scroll' + choice' = (IF scroll + choice > 0 THEN scroll + choice - 1 ELSE 0)
<1>0. InBox /\ Menus!Moved(Menus!Up(Menus!Plain))
  BY DEF Menus!KeyUp, Menus!Shown, Menus!count, InBox
<1>1. PICK rs : Menus!Plain = Boxed(scroll, choice, rs) /\ (Menus!Fits => rs = Unlit(scroll))
  BY <1>0, PlainBox
<1>2. PICK b : b = Boxed(scroll, choice, rs)
  OBVIOUS
<1>3. b.scroll = scroll /\ b.choice = choice /\ b = [scroll |-> scroll, choice |-> choice, rows |-> rs]
  BY <1>2 DEF Boxed
<1>4. CASE choice < 2 /\ scroll > 0
  <2>1. Menus!Up(b) = Boxed(scroll - 1, choice, RowsAbove(scroll, 1, rs))
    <3>1. Menus!Up(b) = Menus!Above(b, 1)
      BY <1>3, <1>4 DEF Menus!Up
    <3>2. 1 \in Nat /\ scroll \in Nat /\ height \in Nat
      BY <1>0, BoxFacts
    <3> QED BY <1>2, <3>1, <3>2, AboveBox
  <2>2. Within(scroll - 1, choice, M0, Len(items))
    BY <1>0, <1>4, BoxFacts DEF Within
  <2>3. ASSUME Menus!Fits PROVE RowsAbove(scroll, 1, rs) = Unlit(scroll - 1)
    <3>1. 1 \in Nat /\ 1 <= scroll /\ M0 = height
      BY <1>0, <1>4, BoxFacts
    <3> QED BY <1>0, <1>1, <2>3, <3>1, BoxFacts, RowsScrolled
  <2>4. AsListed' /\ scroll' = scroll - 1 /\ choice' = choice
    BY <1>0, <1>1, <1>2, <2>1, <2>2, <2>3, ListedMoved
  <2> QED BY <1>0, <1>4, <2>4, BoxFacts
<1>5. CASE ~(choice < 2 /\ scroll > 0)
  <2>1. PICK c : c = IF choice > 0 THEN choice - 1 ELSE 0
    OBVIOUS
  <2>2. Menus!Up(b) = Boxed(scroll, c, rs)
    BY <1>3, <1>5, <2>1 DEF Menus!Up, Boxed
  <2>3. Within(scroll, c, M0, Len(items))
    BY <1>0, <2>1, BoxFacts DEF Within
  <2>4. AsListed' /\ scroll' = scroll /\ choice' = c
    BY <1>0, <1>1, <1>2, <2>2, <2>3, ListedMoved
  <2> QED BY <1>0, <1>5, <2>1, <2>4, BoxFacts
<1> QED BY <1>4, <1>5

LEMMA ListedKeyDown ==
    ASSUME AsListed, Menus!KeyDown
    PROVE  /\ AsListed'
           /\ scroll' + choice'
                = (IF scroll + choice < Menus!count - 1 THEN scroll + choice + 1 ELSE Menus!count - 1)
<1>0. InBox /\ Menus!Moved(Menus!Down(Menus!Plain))
  BY DEF Menus!KeyDown, Menus!Shown, Menus!count, InBox
<1>1. PICK rs : Menus!Plain = Boxed(scroll, choice, rs) /\ (Menus!Fits => rs = Unlit(scroll))
  BY <1>0, PlainBox
<1>2. PICK b : b = Boxed(scroll, choice, rs)
  OBVIOUS
<1>3. b.scroll = scroll /\ b.choice = choice /\ b = [scroll |-> scroll, choice |-> choice, rows |-> rs]
  BY <1>2 DEF Boxed
<1>4. CASE choice > M0 - 3 /\ scroll + M0 < Len(items)
  <2>1. Menus!Down(b) = Boxed(scroll + 1, choice, RowsBelow(scroll, 1, rs))
    <3>1. Menus!Down(b) = Menus!Below(b, 1)
      BY <1>0, <1>3, <1>4, BoxFacts DEF Menus!Down
    <3>2. 1 \in Nat /\ scroll \in Nat /\ height \in Nat
      BY <1>0, BoxFacts
    <3> QED BY <1>2, <3>1, <3>2, BelowBox
  <2>2. Within(scroll + 1, choice, M0, Len(items))
    BY <1>0, <1>4, BoxFacts DEF Within
  <2>3. ASSUME Menus!Fits PROVE RowsBelow(scroll, 1, rs) = Unlit(scroll + 1)
    <3>1. 1 \in Nat /\ scroll + 1 + M0 <= Len(items)
      BY <1>0, <1>4, BoxFacts
    <3> QED BY <1>0, <1>1, <2>3, <3>1, BoxFacts, RowsScrolled
  <2>4. AsListed' /\ scroll' = scroll + 1 /\ choice' = choice
    BY <1>0, <1>1, <1>2, <2>1, <2>2, <2>3, ListedMoved
  <2> QED BY <1>0, <1>4, <2>4, BoxFacts
<1>5. CASE ~(choice > M0 - 3 /\ scroll + M0 < Len(items))
  <2>1. PICK c : c = IF choice < M0 - 1 THEN choice + 1 ELSE choice
    OBVIOUS
  <2>2. Menus!Down(b) = Boxed(scroll, c, rs)
    BY <1>0, <1>3, <1>5, <2>1, BoxFacts DEF Menus!Down, Boxed
  <2>3. Within(scroll, c, M0, Len(items))
    BY <1>0, <2>1, BoxFacts DEF Within
  <2>4. AsListed' /\ scroll' = scroll /\ choice' = c
    BY <1>0, <1>1, <1>2, <2>2, <2>3, ListedMoved
  <2> QED BY <1>0, <1>5, <2>1, <2>4, BoxFacts
<1> QED BY <1>4, <1>5

LEMMA ListedPageUp ==
    ASSUME AsListed, Menus!KeyPageUp
    PROVE  AsListed'
<1>0. InBox /\ Menus!Moved(Menus!PageUp(Menus!Plain))
  BY DEF Menus!KeyPageUp, Menus!Shown, Menus!count, InBox
<1>1. PICK rs : Menus!Plain = Boxed(scroll, choice, rs) /\ (Menus!Fits => rs = Unlit(scroll))
  BY <1>0, PlainBox
<1>2. PICK b : b = Boxed(scroll, choice, rs)
  OBVIOUS
<1>3. b.scroll = scroll
  BY <1>2 DEF Boxed
<1>4. PICK n : n = Menus!Smaller(M0, scroll)
  OBVIOUS
<1>5. PICK c : c = choice - Menus!Smaller(M0 - n, choice)
  OBVIOUS
<1>6. n \in Nat /\ n <= scroll /\ (n = 0 \/ M0 = height) /\ Within(scroll - n, c, M0, Len(items))
  <2>1. /\ M0 \in Nat /\ Len(items) \in Nat /\ scroll \in Nat /\ choice \in Nat
        /\ scroll + M0 <= Len(items) /\ choice < M0 /\ (M0 < Len(items) => M0 = height)
    BY <1>0, BoxFacts
  <2>2. n \in Nat /\ n <= M0 /\ n <= scroll /\ (n = 0 \/ M0 = height)
    BY ONLY <1>4, <2>1 DEF Menus!Smaller
  <2>3. c \in Nat /\ c < M0
    BY ONLY <1>5, <2>1, <2>2 DEF Menus!Smaller
  <2> QED BY ONLY <2>1, <2>2, <2>3 DEF Within
<1>7. Menus!PageUp(b) = Boxed(scroll - n, c, RowsAbove(scroll, n, rs))
  <2>1. Menus!Above(b, n) = Boxed(scroll - n, choice, RowsAbove(scroll, n, rs))
    BY <1>0, <1>2, <1>6, AboveBox, BoxFacts
  <2>2. Menus!max_choice = M0
    BY <1>0, BoxFacts
  <2>3. Menus!PageUp(b) = [Menus!Above(b, n) EXCEPT !.choice = @ - Menus!Smaller(M0 - n, @)]
    BY <1>3, <1>4, <2>2 DEF Menus!PageUp
  <2> QED BY <1>5, <2>1, <2>3 DEF Boxed
<1>8. Menus!Fits => RowsAbove(scroll, n, rs) = Unlit(scroll - n)
  BY <1>0, <1>1, <1>6, BoxFacts, RowsScrolled
<1> QED BY <1>0, <1>1, <1>2, <1>6, <1>7, <1>8, ListedMoved

LEMMA ListedPageDown ==
    ASSUME AsListed, Menus!KeyPageDown
    PROVE  AsListed'
<1>0. InBox /\ Menus!Moved(Menus!PageDown(Menus!Plain))
  BY DEF Menus!KeyPageDown, Menus!Shown, Menus!count, InBox
<1>1. PICK rs : Menus!Plain = Boxed(scroll, choice, rs) /\ (Menus!Fits => rs = Unlit(scroll))
  BY <1>0, PlainBox
<1>2. PICK b : b = Boxed(scroll, choice, rs)
  OBVIOUS
<1>3. b.scroll = scroll
  BY <1>2 DEF Boxed
<1>4. PICK n : n = Menus!Smaller(M0, Len(items) - M0 - scroll)
  OBVIOUS
<1>5. PICK c : c = choice + Menus!Smaller(M0 - n, M0 - 1 - choice)
  OBVIOUS
<1>6. n \in Nat /\ scroll + n + M0 <= Len(items) /\ Within(scroll + n, c, M0, Len(items))
  <2>1. /\ M0 \in Nat /\ Len(items) \in Nat /\ scroll \in Nat /\ choice \in Nat
        /\ scroll + M0 <= Len(items) /\ choice < M0
    BY <1>0, BoxFacts
  <2>2. n \in Nat /\ n <= M0 /\ n <= Len(items) - M0 - scroll
    BY ONLY <1>4, <2>1 DEF Menus!Smaller
  <2>3. c \in Nat /\ c < M0
    BY ONLY <1>5, <2>1, <2>2 DEF Menus!Smaller
  <2> QED BY ONLY <2>1, <2>2, <2>3 DEF Within
<1>7. Menus!PageDown(b) = Boxed(scroll + n, c, RowsBelow(scroll, n, rs))
  <2>1. Menus!Below(b, n) = Boxed(scroll + n, choice, RowsBelow(scroll, n, rs))
    BY <1>0, <1>2, <1>6, BelowBox, BoxFacts
  <2>2. Menus!max_choice = M0 /\ Menus!count = Len(items)
    BY <1>0, BoxFacts
  <2>3. Menus!PageDown(b) = [Menus!Below(b, n) EXCEPT !.choice = @ + Menus!Smaller(M0 - n, M0 - 1 - @)]
    BY <1>3, <1>4, <2>2 DEF Menus!PageDown
  <2> QED BY <1>5, <2>1, <2>3 DEF Boxed
<1>8. Menus!Fits => RowsBelow(scroll, n, rs) = Unlit(scroll + n)
  BY <1>0, <1>1, <1>6, BoxFacts, RowsScrolled
<1> QED BY <1>0, <1>1, <1>2, <1>6, <1>7, <1>8, ListedMoved

LEMMA ListedLetter ==
    ASSUME AsListed, Menus!KeyLetter
    PROVE  AsListed'
<1>0. PICK k : InBox /\ Menus!WithLetter(k) # {} /\ Menus!Moved(Menus!Hotkey(Menus!Plain, k))
  BY DEF Menus!KeyLetter, Menus!Shown, Menus!count, InBox
<1>1. PICK rs : Menus!Plain = Boxed(scroll, choice, rs) /\ (Menus!Fits => rs = Unlit(scroll))
  BY <1>0, PlainBox
<1>2. PICK b : b = Boxed(scroll, choice, rs)
  OBVIOUS
<1>3. PICK S : S = Menus!Next0(Menus!WithLetter(k))
  OBVIOUS
<1>4. S \subseteq 0..M0 - 1 /\ S # {} /\ S \subseteq Nat
  <2>1. Menus!WithLetter(k) \subseteq 0..M0 - 1
    BY <1>0, BoxFacts DEF Menus!WithLetter
  <2>2. S \subseteq Menus!WithLetter(k) /\ S # {}
    BY <1>0, <1>3 DEF Menus!Next0
  <2> QED BY <2>1, <2>2
<1>5. PICK c : c = CHOOSE r \in S : \A q \in S : r <= q
  OBVIOUS
<1>6. c \in S
  <2>1. \E r \in S : \A q \in S : r <= q
    BY ONLY <1>4, LeastOf
  <2> QED BY <1>5, <2>1
<1>7. Within(scroll, c, M0, Len(items))
  <2>1. c \in Nat /\ c < M0
    BY <1>0, <1>4, <1>6, BoxFacts
  <2> QED BY <1>0, <2>1, BoxFacts DEF Within, InBox
<1>8. Menus!Hotkey(b, k) = Boxed(scroll, c, rs)
  <2>1. Menus!Hotkey(b, k) = [b EXCEPT !.choice = c]
    BY <1>3, <1>5 DEF Menus!Hotkey
  <2> QED BY ONLY <1>2, <2>1 DEF Boxed
<1> QED BY <1>0, <1>1, <1>2, <1>7, <1>8, ListedMoved

-----------------------------------------------------------------------------
\* The keys that end the box
LEMMA ListedEnds ==
    ASSUME MenuSetting, AsListed, NEW stack \in Seq(Calls), stack # <<>>, Menus!Ends(stack)
    PROVE  AsListed'
<1>1. frames' = stack /\ state' = "conf" /\ items' = <<>> /\ height' = height /\ resized' = FALSE
  BY DEF Menus!Ends, Menus!Gone
<1>2. items' \in Entries
  BY <1>1, EmptySeq DEF Entries
<1> QED BY <1>1, <1>2 DEF AsListed

LEMMA CallsAre ==
    ASSUME MenuSetting, AsListed, state = "box"
    PROVE  /\ Menus!Top \in Calls /\ Tail(frames) \in Seq(Calls)
           /\ Menus!Selected \in Menus!Entry \cup {NoEntry}
           /\ Len(items) # 0 => Menus!Current \in Menus!Entry
<1>1. /\ frames \in Seq(Calls) /\ frames # <<>> /\ items \in Entries
      /\ Within(scroll, choice, Menus!Smaller(height, Len(items)), Len(items))
  BY DEF AsListed
<1>2. Head(frames) \in Calls /\ Tail(frames) \in Seq(Calls)
  BY ONLY <1>1
<1>3. ASSUME Len(items) # 0 PROVE Menus!Current \in Menus!Entry
  <2>1. InBox
    BY <1>3 DEF InBox
  <2>2. (scroll + choice) + 1 \in 1..Len(items)
    BY <2>1, BoxFacts
  <2> QED BY <1>1, <2>2 DEF Menus!Current, Menus!Item, Entries
<1>4. Menus!Selected \in Menus!Entry \cup {NoEntry}
  BY <1>3 DEF Menus!Selected, Menus!count
<1>5. scroll \in Nat
  BY <1>1 DEF Within
<1>6. Menus!Top \in Calls
  BY <1>2, <1>4, <1>5 DEF Menus!Top, Calls
<1> QED BY <1>2, <1>3, <1>4, <1>6

LEMMA ListedBoxEnds ==
    ASSUME MenuSetting, AsListed,
           \/ Menus!EnterMenu \/ Menus!SetYes \/ Menus!SetNo \/ Menus!OtherBox \/ Menus!ShowAll
           \/ Menus!Jump
    PROVE  AsListed'
<1>0. state = "box"
  BY DEF Menus!EnterMenu, Menus!SetYes, Menus!SetNo, Menus!OtherBox, Menus!ShowAll, Menus!Jump, Menus!Ends
<1>1. Menus!Top \in Calls /\ Tail(frames) \in Seq(Calls)
  BY <1>0, CallsAre
<1>2. ASSUME NEW f \in Calls
      PROVE  <<f, Menus!Top>> \o Tail(frames) \in Seq(Calls) \ {<<>>}
  <2>1. <<f, Menus!Top>> \in Seq(Calls) /\ Len(<<f, Menus!Top>>) = 2
    BY <1>1
  <2> QED BY ONLY <1>1, <2>1
<1>3. <<Menus!Top>> \o Tail(frames) \in Seq(Calls) \ {<<>>}
  <2>1. <<Menus!Top>> \in Seq(Calls) /\ Len(<<Menus!Top>>) = 1
    BY <1>1
  <2> QED BY ONLY <1>1, <2>1
<1>4. CASE Menus!SetYes \/ Menus!SetNo \/ Menus!OtherBox \/ Menus!ShowAll
  <2>1. Menus!Ends(<<Menus!Top>> \o Tail(frames))
    BY <1>4 DEF Menus!SetYes, Menus!SetNo, Menus!OtherBox, Menus!ShowAll
  <2> QED BY <1>3, <2>1, ListedEnds
<1>5. CASE Menus!EnterMenu
  <2>1. Menus!Current \in Menus!Entry
    BY <1>0, <1>5, CallsAre DEF Menus!EnterMenu, Menus!Is, Menus!count
  <2>2. Menus!Frame(Menus!Current, NoEntry) \in Calls
    BY <2>1 DEF Menus!Frame, Calls, Places
  <2>3. Menus!Ends(<<Menus!Frame(Menus!Current, NoEntry), Menus!Top>> \o Tail(frames))
    BY <1>5 DEF Menus!EnterMenu
  <2> QED BY <1>2, <2>2, <2>3, ListedEnds
<1>6. CASE Menus!Jump
  <2>1. PICK e \in Menus!Entry : Menus!Ends(<<Menus!Frame(Menu[e], e), Menus!Top>> \o Tail(frames))
    BY <1>6 DEF Menus!Jump
  <2>2. Menus!Frame(Menu[e], e) \in Calls
    BY DEF Menus!Frame, Calls, Places
  <2> QED BY <1>2, <2>1, <2>2, ListedEnds
<1> QED BY <1>4, <1>5, <1>6

LEMMA ListedLeave ==
    ASSUME MenuSetting, AsListed, Menus!Leave \/ Menus!Start
    PROVE  AsListed'
<1>1. items' = <<>> /\ height' = height /\ resized' = FALSE
  BY DEF Menus!Leave, Menus!Start, Menus!Gone
<1>2. items' \in Entries
  BY <1>1, EmptySeq DEF Entries
<1>3. CASE Menus!Leave
  <2>1. /\ frames \in Seq(Calls) /\ frames # <<>> /\ frames' = Tail(frames)
        /\ state' = IF Len(frames) = 1 THEN "off" ELSE "conf"
    BY <1>3 DEF Menus!Leave, AsListed
  <2>2. PICK t, n : t = Tail(frames) /\ n = Len(frames)
    OBVIOUS
  <2>3. t \in Seq(Calls) /\ Len(t) = n - 1 /\ n \in Nat
    BY <2>1, <2>2, HeadTailProperties
  <2>4. n # 1 => t # <<>>
    BY ONLY <2>3
  <2>5. frames' = t /\ state' = IF n = 1 THEN "off" ELSE "conf"
    BY <2>1, <2>2
  <2> QED BY <1>1, <1>2, <2>3, <2>4, <2>5 DEF AsListed
<1>4. CASE Menus!Start
  <2>1. Menus!Frame(Root, NoEntry) \in Calls
    BY DEF Menus!Frame, Calls, Places
  <2>2. frames' \in Seq(Calls) /\ frames' # <<>> /\ state' = "conf"
    BY <1>4, <2>1 DEF Menus!Start
  <2> QED BY <1>1, <1>2, <2>2 DEF AsListed
<1> QED BY <1>3, <1>4

LEMMA AsListedNext == MenuSetting /\ AsListed /\ [Menus!Next]_Menus!vars => AsListed'
<1> SUFFICES ASSUME MenuSetting, AsListed, [Menus!Next]_Menus!vars PROVE AsListed'
  OBVIOUS
<1>1. CASE UNCHANGED Menus!vars
  BY <1>1 DEF AsListed, Menus!vars, Menus!place, Menus!Fits
<1> QED BY <1>1, ListedOpen, ListedResize, ListedKeyUp, ListedKeyDown, ListedPageUp, ListedPageDown,
           ListedLetter, ListedBoxEnds, ListedLeave DEF Menus!Next

(***************************************************************************)
(* What a menu's rows show: the items from the scroll position on, and     *)
(* which of them the user acts on (dialog_menu of lxdialog/menubox.c).     *)
(***************************************************************************)
THEOREM MenuRowsShowItems ==
    ASSUME MenuSetting
    PROVE  Menus!Spec => []Menus!RowsShowItems
<1>1. Menus!Init => AsListed
  BY MenuInit
<1>2. AsListed /\ [Menus!Next]_Menus!vars => AsListed'
  BY AsListedNext
<1>3. AsListed => Menus!RowsShowItems
  BY ListedInView
<1> QED BY <1>1, <1>2, <1>3, PTL DEF Menus!Spec

(***************************************************************************)
(* The entry acted on is highlighted when the menu is drawn again, while   *)
(* it is there, and a key moves the highlight by one (conf of mconf.c).    *)
(***************************************************************************)
LEMMA HighlightKept ==
    ASSUME MenuSetting, AsListed, [Menus!Next]_Menus!vars
    PROVE  Menus!HighlightStays
<1>1. ASSUME state = "conf", state' = "box", Head(frames).active \in Menus!Range(items')
      PROVE  Menus!Current' = Head(frames).active
  <2>1. Menus!Open
    BY <1>1 DEF Menus!Next, Menus!vars, Menus!Resize, Menus!KeyUp, Menus!KeyDown, Menus!KeyPageUp,
                Menus!KeyPageDown, Menus!KeyLetter, Menus!Shown, Menus!EnterMenu, Menus!SetYes, Menus!SetNo,
                Menus!OtherBox, Menus!ShowAll, Menus!Jump, Menus!Ends, Menus!Leave, Menus!Start
  <2> QED BY <1>1, <2>1, ListedOpen
<1> QED BY <1>1, ListedKeyUp, ListedKeyDown DEF Menus!HighlightStays

THEOREM MenuHighlightStays ==
    ASSUME MenuSetting
    PROVE  Menus!Spec => [][Menus!HighlightStays]_Menus!vars
<1>1. Menus!Init => AsListed
  BY MenuInit
<1>2. AsListed /\ [Menus!Next]_Menus!vars => AsListed'
  BY AsListedNext
<1>3. AsListed /\ [Menus!Next]_Menus!vars => [Menus!HighlightStays]_Menus!vars
  BY HighlightKept
<1> QED BY <1>1, <1>2, <1>3, PTL DEF Menus!Spec
-----------------------------------------------------------------------------
-----------------------------------------------------------------------------
(***************************************************************************)
(* Texts.  A page begins at some line, which the flags, the length and the *)
(* rows agree on, and which is never so late that the results of a search  *)
(* leave rows empty but the last.                                          *)
(***************************************************************************)
TextSetting == Texts!TextsAssumption /\ Texts!HeightsAssumption /\ Texts!JumpAssumption
AllTexts == Results \cup OtherTexts

LEMMA TextFacts ==
    ASSUME TextSetting, NEW t \in AllTexts
    PROVE  /\ t.lines \in Nat \ {0} /\ t.newline \in BOOLEAN /\ (t.newline \/ t.lines <= 2)
           /\ t \in Results => t.newline
  BY DEF TextSetting, AllTexts, Texts!TextsAssumption, Texts!IsText

\* The line a page of h rows begins at once the lines of a result are counted
Settled(t, p, h) ==
    IF t \in Results /\ p + h > t.lines THEN IF t.lines - h + 1 > 0 THEN t.lines - h + 1 ELSE 0 ELSE p

\* The page from line p on
OnPage(t, h, p) ==
    /\ page = Texts!Smaller(p + h, t.lines) /\ begin_reached = (p = 0)
    /\ end_reached = (p + h > t.lines \/ (p + h = t.lines /\ ~t.newline))
    /\ page_length = Texts!Smaller(h, Texts!ToEnd(t, p))
    /\ rows = [r \in 1..h |-> Texts!LineAt(t, p + r - 1)]
    /\ keys = IF t \in Results THEN Texts!Keyed(t, p, page) ELSE {}

LEMMA Backwards ==
    ASSUME TextSetting, NEW t \in AllTexts, NEW p \in 0..t.lines, NEW b, NEW e, NEW n \in Int,
           n > 0 \/ p > 0,
           NEW m, m = IF p = t.lines /\ e THEN n - 1 ELSE n,
           NEW q, q = IF n <= 0 THEN p ELSE IF m >= p THEN 0 ELSE p - m,
           NEW v, v = Texts!BackLines(t, Texts!View(p, b, e), n)
    PROVE  q \in 0..t.lines /\ v.page = q /\ v.begin = (q = 0)
<1>1. t.lines \in Nat \ {0} /\ p \in Nat /\ p <= t.lines
  BY TextFacts
<1>2. PICK w : w = Texts!View(p, b, e)
  OBVIOUS
<1>3. w.page = p /\ w.end = e /\ w = [page |-> p, begin |-> b, end |-> e]
  BY <1>2 DEF Texts!View
<1>4. CASE n <= 0
  <2>1. v = [w EXCEPT !.begin = FALSE]
    BY <1>2, <1>4 DEF Texts!BackLines
  <2>2. v.page = p /\ v.begin = FALSE
    BY ONLY <1>3, <2>1
  <2>3. q = p /\ q # 0
    BY ONLY <1>1, <1>4, n > 0 \/ p > 0, n \in Int, q = IF n <= 0 THEN p ELSE IF m >= p THEN 0 ELSE p - m
  <2> QED BY <1>1, <2>2, <2>3
<1>5. CASE ~(n <= 0)
  <2>1. v.page = (IF m >= p THEN 0 ELSE p - m) /\ v.begin = (m >= p)
    BY <1>2, <1>3, <1>5 DEF Texts!BackLines, Texts!View
  <2>2. m \in Nat
    <3>1. m = n \/ m = n - 1
      OBVIOUS
    <3> QED BY ONLY <1>5, <3>1, n \in Int
  <2>3. q = IF m >= p THEN 0 ELSE p - m
    BY <1>5
  <2>4. (q = 0 <=> m >= p) /\ q \in 0..t.lines
    BY ONLY <1>1, <2>2, <2>3
  <2> QED BY <2>1, <2>3, <2>4
<1> QED BY <1>4, <1>5

LEMMA BackIsView ==
    ASSUME NEW t, NEW p, NEW b, NEW e, NEW n,
           NEW v, v = Texts!BackLines(t, Texts!View(p, b, e), n)
    PROVE  v = Texts!View(v.page, v.begin, v.end)
<1>1. \E x, y, z : v = [page |-> x, begin |-> y, end |-> z]
  <2>1. CASE n <= 0
    <3>1. v = [Texts!View(p, b, e) EXCEPT !.begin = FALSE]
      BY <2>1 DEF Texts!BackLines
    <3>2. v = [page |-> p, begin |-> FALSE, end |-> e]
      BY <3>1 DEF Texts!View
    <3> QED BY <3>2
  <2>2. CASE ~(n <= 0)
    BY <2>2 DEF Texts!BackLines, Texts!View
  <2> QED BY <2>1, <2>2
<1> QED BY <1>1 DEF Texts!View

LEMMA Settling ==
    ASSUME TextSetting, NEW t \in AllTexts, NEW p \in 0..t.lines, NEW v, v.page = p, v.begin = (p = 0),
           v = Texts!View(v.page, v.begin, v.end), NEW h \in Nat \ {0},
           NEW w, w = Texts!Settle(t, v, h)
    PROVE  /\ w.page = Settled(t, p, h) /\ w.begin = (w.page = 0) /\ w.page \in 0..t.lines
           /\ Texts!GetLines(t, v, h).page = Texts!Smaller(p + h, t.lines)
<1>1. t.lines \in Nat \ {0} /\ p \in Nat /\ p <= t.lines /\ (t \in Results => t.newline)
  BY TextFacts
<1>2. PICK g : g = Texts!GetLines(t, v, h)
  OBVIOUS
<1>3. v = [page |-> p, begin |-> (p = 0), end |-> v.end]
  BY DEF Texts!View
<1>4. g = Texts!View(Texts!Smaller(p + h, t.lines), p = 0, p + h > t.lines \/ (p + h = t.lines /\ ~t.newline))
  BY <1>2, <1>3 DEF Texts!GetLines, Texts!View
<1>5. g.page = Texts!Smaller(p + h, t.lines)
  BY <1>4 DEF Texts!View
<1>6. CASE t \notin Results
  <2>1. w = v
    BY <1>6 DEF Texts!Settle
  <2> QED BY <1>1, <1>2, <1>5, <1>6, <2>1 DEF Settled
<1>7. CASE t \in Results
  <2>1. PICK s, e : s = Texts!Smaller(p + h, t.lines) /\ e = (p + h > t.lines)
    OBVIOUS
  <2>9. e <=> p + h > t.lines
    BY <2>1
  <2>2. s \in 0..t.lines /\ s = (IF p + h > t.lines THEN t.lines ELSE p + h)
    BY ONLY <1>1, <2>1, h \in Nat \ {0} DEF Texts!Smaller
  <2>3. g = Texts!View(s, p = 0, e)
    BY <1>1, <1>4, <1>7, <2>1
  <2>4. w = Texts!BackLines(t, Texts!View(s, p = 0, e), h)
    BY <1>2, <1>7, <2>3 DEF Texts!Settle
  <2>5. PICK m, q : /\ m = IF s = t.lines /\ e THEN h - 1 ELSE h
                    /\ q = IF h <= 0 THEN s ELSE IF m >= s THEN 0 ELSE s - m
    OBVIOUS
  <2>6. h \in Int /\ h > 0
    OBVIOUS
  <2>7. q \in 0..t.lines /\ w.page = q /\ w.begin = (q = 0)
    BY <2>2, <2>4, <2>5, <2>6, Backwards
  <2>8. q = Settled(t, p, h)
    BY ONLY <1>1, <1>7, <2>2, <2>5, <2>6, <2>9, h \in Nat \ {0} DEF Settled
  <2> QED BY <1>2, <1>5, <2>7, <2>8
<1> QED BY <1>6, <1>7

LEMMA Pages ==
    ASSUME TextSetting, NEW t \in AllTexts, NEW p \in 0..t.lines, NEW v, v.page = p, v.begin = (p = 0),
           v = Texts!View(v.page, v.begin, v.end), NEW h \in Nat \ {0}, Texts!PrintPage(t, v, h)
    PROVE  OnPage(t, h, Settled(t, p, h))' /\ Settled(t, p, h) \in 0..t.lines /\ state' = "box"
<1>1. t.lines \in Nat \ {0} /\ p \in Nat /\ p <= t.lines
  BY TextFacts
<1>2. PICK w, q : w = Texts!Settle(t, v, h) /\ q = Settled(t, p, h)
  OBVIOUS
<1>3. /\ w.page = q /\ w.begin = (q = 0) /\ q \in 0..t.lines
      /\ Texts!GetLines(t, v, h).page = Texts!Smaller(p + h, t.lines)
  BY <1>2, Settling
<1>4. w = [page |-> w.page, begin |-> w.begin, end |-> w.end]
  <2>1. CASE t \in Results
    <3>1. PICK g : g = Texts!GetLines(t, v, h)
      OBVIOUS
    <3>2. w = Texts!BackLines(t, g, h) /\ ~(h <= 0)
      BY <1>2, <2>1, <3>1 DEF Texts!Settle
    <3>3. \E a, b, e : w = [page |-> a, begin |-> b, end |-> e]
      BY <3>2 DEF Texts!BackLines, Texts!View
    <3> QED BY ONLY <3>3
  <2>2. CASE t \notin Results
    <3>1. w = v
      BY <1>2, <2>2 DEF Texts!Settle
    <3> QED BY <3>1 DEF Texts!View
  <2> QED BY <2>1, <2>2
<1>5. PICK g : g = Texts!GetLines(t, w, h)
  OBVIOUS
<1>6. /\ g.page = Texts!Smaller(q + h, t.lines)
      /\ g.end = (q + h > t.lines \/ (q + h = t.lines /\ ~t.newline))
  BY <1>3, <1>4, <1>5 DEF Texts!GetLines
<1>7. /\ page' = g.page /\ begin_reached' = w.begin /\ end_reached' = g.end
      /\ page_length' = Texts!Smaller(h, Texts!ToEnd(t, w.page))
      /\ rows' = [r \in 1..h |-> Texts!LineAt(t, w.page + r - 1)]
      /\ keys' = IF t \in Results THEN Texts!Keyed(t, w.page, Texts!Smaller(p + h, t.lines)) ELSE {}
      /\ state' = "box"
  BY <1>2, <1>3, <1>5 DEF Texts!PrintPage, Texts!Printed
<1>8. ASSUME t \in Results PROVE Texts!Smaller(p + h, t.lines) = Texts!Smaller(q + h, t.lines)
  BY ONLY <1>1, <1>2, <1>8, h \in Nat \ {0} DEF Texts!Smaller, Settled
<1>9. OnPage(t, h, q)'
  BY <1>3, <1>6, <1>7, <1>8 DEF OnPage
<1> QED BY <1>2, <1>3, <1>7, <1>9

(***************************************************************************)
(* Keys follow each other: two lines that have the same one are at least   *)
(* JUMP_NB jumps apart, and JUMP_NB jumps in a row have all of them.       *)
(***************************************************************************)
LEMMA Remainders ==
    ASSUME NEW n \in Nat \ {0}, NEW a \in Nat
    PROVE  /\ a % n \in 0..n - 1
           /\ \A b \in Nat : a < b /\ a % n = b % n => b - a >= n
           /\ \A k \in 0..n - 1 : \E b \in a..a + n - 1 : b % n = k
<1>1. ASSUME NEW b \in Nat PROVE b % n \in 0..n - 1 /\ b \div n \in Nat /\ b = n * (b \div n) + (b % n)
  BY ONLY n \in Nat \ {0}, b \in Nat
<1>2. ASSUME NEW b \in Nat, a < b, a % n = b % n PROVE b - a >= n
  <2>1. PICK x, y, r : x = a \div n /\ y = b \div n /\ r = a % n
    OBVIOUS
  <2>2. x \in Nat /\ y \in Nat /\ r \in Nat /\ a = n * x + r /\ b = n * y + r
    BY <1>1, <1>2, <2>1
  <2>3. b - a = n * (y - x)
    BY ONLY <2>2, n \in Nat
  <2>4. y - x > 0
    <3>1. ASSUME y <= x PROVE n * y <= n * x
      BY ONLY <2>2, <3>1, n \in Nat
    <3> QED BY ONLY <1>2, <2>2, <3>1, n \in Nat
  <2>5. y - x >= 1
    BY ONLY <2>2, <2>4
  <2> QED BY ONLY <2>2, <2>3, <2>5, n \in Nat \ {0}
<1>3. ASSUME NEW k \in 0..n - 1 PROVE \E b \in a..a + n - 1 : b % n = k
  <2>1. PICK x, r : x = a \div n /\ r = a % n
    OBVIOUS
  <2>2. x \in Nat /\ r \in 0..n - 1 /\ a = n * x + r
    BY <1>1, <2>1
  <2>3. ASSUME NEW z \in Nat, NEW b \in Nat, b = n * z + k PROVE b % n = k
    <3>1. PICK y, s : y = b \div n /\ s = b % n
      OBVIOUS
    <3>2. y \in Nat /\ s \in 0..n - 1 /\ b = n * y + s
      BY <1>1, <3>1
    <3>3. n * (y - z) = k - s
      BY ONLY <2>3, <3>2, n \in Nat \ {0}, z \in Nat, k \in 0..n - 1
    <3>4. y - z < 1
      <4>1. ASSUME y - z >= 1 PROVE n * (y - z) >= n
        BY ONLY <3>2, <4>1, z \in Nat, n \in Nat \ {0}
      <4> QED BY ONLY <3>2, <3>3, <4>1, n \in Nat \ {0}, z \in Nat, k \in 0..n - 1
    <3>5. z - y < 1
      <4>1. ASSUME z - y >= 1 PROVE n * (z - y) >= n
        BY ONLY <3>2, <4>1, z \in Nat, n \in Nat \ {0}
      <4>2. n * (z - y) = s - k
        BY ONLY <2>3, <3>2, n \in Nat \ {0}, z \in Nat, k \in 0..n - 1
      <4> QED BY ONLY <3>2, <4>1, <4>2, n \in Nat \ {0}, z \in Nat, k \in 0..n - 1
    <3>6. y = z
      BY ONLY <3>2, <3>4, <3>5, z \in Nat
    <3> QED BY ONLY <2>3, <3>1, <3>2, <3>6, n \in Nat \ {0}, z \in Nat, k \in 0..n - 1
  <2>4. CASE k >= r
    <3>1. a + (k - r) \in a..a + n - 1 /\ a + (k - r) \in Nat /\ a + (k - r) = n * x + k
      BY ONLY <2>2, <2>4, n \in Nat \ {0}, a \in Nat, k \in 0..n - 1
    <3> QED BY <2>2, <2>3, <3>1
  <2>5. CASE k < r
    <3>1. PICK b : b = (a + n) - (r - k)
      OBVIOUS
    <3>2. b \in a..a + n - 1 /\ b \in Nat
      BY ONLY <2>2, <2>5, <3>1, n \in Nat \ {0}, a \in Nat, k \in 0..n - 1
    <3>3. n * (x + 1) = n * x + n /\ x + 1 \in Nat
      BY ONLY <2>2, n \in Nat \ {0}
    <3>4. b = n * (x + 1) + k
      BY ONLY <2>2, <3>1, <3>3, n \in Nat \ {0}, a \in Nat, k \in 0..n - 1
    <3> QED BY <2>3, <3>2, <3>3, <3>4
  <2>6. k \in Int /\ r \in Int
    BY <2>2
  <2> QED BY <2>4, <2>5, <2>6
<1> QED BY <1>1, <1>2, <1>3

\* The jumps that are on a page
OnRows(t, p, q) == {i \in DOMAIN t.jumps : p <= t.jumps[i] /\ t.jumps[i] < q}

LEMMA KeysOnRows ==
    ASSUME TextSetting, NEW t \in Results, NEW p \in Nat, NEW q \in Nat
    PROVE  LET ks == Texts!Keyed(t, p, q)
           IN  /\ \A k \in ks : k.line \in p..q - 1 /\ k.key \in 0..JUMP_NB - 1
               /\ \A k, l \in ks : k.key = l.key => k = l
               /\ \/ {k.key : k \in ks} = 0..JUMP_NB - 1
                  \/ {k.line : k \in ks} = {t.jumps[i] : i \in OnRows(t, p, q)}
<1> DEFINE ks == Texts!Keyed(t, p, q)
           here == OnRows(t, p, q)
           first == {i \in here : i - JUMP_NB \notin here}
<1>1. /\ JUMP_NB \in Nat \ {0} /\ DOMAIN t.jumps \subseteq Nat \ {0}
      /\ \A i \in DOMAIN t.jumps : t.jumps[i] \in Int /\ 1..i \subseteq DOMAIN t.jumps
      /\ \A i, j \in DOMAIN t.jumps : i < j => t.jumps[i] < t.jumps[j]
  <2>1. t.jumps \in Seq(0..t.lines - 1) /\ t.lines \in Nat
    BY DEF TextSetting, Texts!TextsAssumption, Texts!IsText
  <2>2. DOMAIN t.jumps = 1..Len(t.jumps) /\ Len(t.jumps) \in Nat
        /\ \A i \in DOMAIN t.jumps : t.jumps[i] \in Int
    <3>1. PICK s, S : s = t.jumps /\ S = 0..t.lines - 1
      OBVIOUS
    <3>2. s \in Seq(S)
      BY <2>1, <3>1
    <3>3. DOMAIN s = 1..Len(s) /\ Len(s) \in Nat /\ \A i \in DOMAIN s : s[i] \in S
      BY ONLY <3>2
    <3> QED BY <2>1, <3>1, <3>3
  <2>3. \A i \in DOMAIN t.jumps : 1..i \subseteq DOMAIN t.jumps
    <3>1. ASSUME NEW n \in Nat, NEW i \in 1..n PROVE 1..i \subseteq 1..n
      BY ONLY n \in Nat, i \in 1..n
    <3> QED BY <2>2, <3>1
  <2> QED BY <2>2, <2>3 DEF TextSetting, Texts!TextsAssumption, Texts!JumpAssumption
<1>2. ks = {[line |-> t.jumps[i], key |-> (i - 1) % JUMP_NB] : i \in first}
  BY DEF Texts!Keyed, Texts!KeyOf, OnRows
<1>3. \A i \in here : i \in Nat \ {0} /\ i \in DOMAIN t.jumps /\ p <= t.jumps[i] /\ t.jumps[i] < q
  BY <1>1 DEF OnRows
\* What is between two jumps on the page is on it.
<1>4. ASSUME NEW i \in here, NEW j \in here, NEW k \in Nat, i <= k, k <= j PROVE k \in here
  <2>1. k \in 1..j /\ k \in DOMAIN t.jumps
    BY <1>1, <1>3, <1>4
  <2>2. t.jumps[i] <= t.jumps[k] /\ t.jumps[k] <= t.jumps[j]
    BY <1>1, <1>3, <1>4, <2>1
  <2>3. p <= t.jumps[k] /\ t.jumps[k] < q
    BY <1>1, <1>3, <2>1, <2>2
  <2> QED BY <2>1, <2>3 DEF OnRows
<1> HIDE DEF ks, here
<1>5. \A k \in ks : \E i \in first : k = [line |-> t.jumps[i], key |-> (i - 1) % JUMP_NB]
  BY <1>2
<1>6. ASSUME NEW k \in ks PROVE k.line \in p..q - 1 /\ k.key \in 0..JUMP_NB - 1
  <2>1. PICK i \in first : k = [line |-> t.jumps[i], key |-> (i - 1) % JUMP_NB]
    BY <1>5
  <2>2. i \in here /\ i - 1 \in Nat
    BY <1>3
  <2>3. (i - 1) % JUMP_NB \in 0..JUMP_NB - 1
    BY <1>1, <2>2, Remainders
  <2> QED BY <1>1, <1>3, <2>1, <2>2, <2>3
<1>7. ASSUME NEW i \in first, NEW j \in first, i < j PROVE (i - 1) % JUMP_NB # (j - 1) % JUMP_NB
  <2>1. i \in here /\ j \in here /\ i \in Nat \ {0} /\ j \in Nat \ {0} /\ j - JUMP_NB \notin here
    BY <1>3
  <2>2. ASSUME (i - 1) % JUMP_NB = (j - 1) % JUMP_NB PROVE FALSE
    <3>1. i - 1 \in Nat /\ j - 1 \in Nat /\ i - 1 < j - 1
      BY <1>7, <2>1
    <3>2. (j - 1) - (i - 1) >= JUMP_NB
      BY <1>1, <2>2, <3>1, Remainders
    <3>3. i <= j - JUMP_NB /\ j - JUMP_NB <= j /\ j - JUMP_NB \in Nat
      BY <1>1, <2>1, <3>2
    <3> QED BY <1>4, <2>1, <3>3
  <2> QED BY <2>2
<1>8. ASSUME NEW k \in ks, NEW l \in ks, k.key = l.key PROVE k = l
  <2>1. PICK i \in first : k = [line |-> t.jumps[i], key |-> (i - 1) % JUMP_NB]
    BY <1>5
  <2>2. PICK j \in first : l = [line |-> t.jumps[j], key |-> (j - 1) % JUMP_NB]
    BY <1>5
  <2>3. (i - 1) % JUMP_NB = (j - 1) % JUMP_NB
    BY <1>8, <2>1, <2>2
  <2>4. i \in Nat /\ j \in Nat
    BY <1>3
  <2>5. i = j
    BY <1>7, <2>3, <2>4
  <2> QED BY <2>1, <2>2, <2>5
<1>9. CASE here = first
  <2>1. {k.line : k \in ks} = {t.jumps[i] : i \in here}
    <3>1. ASSUME NEW k \in ks PROVE \E i \in here : k.line = t.jumps[i]
      BY <1>5, <1>9
    <3>2. ASSUME NEW i \in here PROVE \E k \in ks : k.line = t.jumps[i]
      <4>1. [line |-> t.jumps[i], key |-> (i - 1) % JUMP_NB] \in ks
        BY <1>2, <1>9
      <4> QED BY <4>1
    <3> QED BY <3>1, <3>2
  <2> QED BY <1>6, <1>8, <2>1 DEF ks, here
<1>10. CASE here # first
  <2>1. PICK j \in here : j - JUMP_NB \in here
    BY <1>10
  <2>2. here \subseteq Nat /\ here # {}
    BY <1>3, <2>1
  <2>3. PICK a \in here : \A i \in here : a <= i
    BY ONLY <2>2, LeastOf
  <2>4. a \in Nat \ {0} /\ j \in Nat \ {0} /\ a <= j - JUMP_NB
    <3>1. a \in Nat \ {0} /\ j \in Nat \ {0}
      BY <1>3, <2>1, <2>3
    <3> QED BY ONLY <2>1, <2>3, <3>1
  <2>5. ASSUME NEW i \in a..a + JUMP_NB - 1 PROVE i \in first
    <3>1. i \in Nat /\ a <= i /\ i <= j /\ ~(a <= i - JUMP_NB)
      BY ONLY <1>1, <2>4, i \in a..a + JUMP_NB - 1
    <3>2. i \in here
      BY <1>4, <2>1, <2>3, <3>1
    <3> QED BY <2>3, <3>1, <3>2
  <2>6. ASSUME NEW n \in 0..JUMP_NB - 1 PROVE \E k \in ks : k.key = n
    <3>1. PICK b \in (a - 1)..(a - 1) + JUMP_NB - 1 : b % JUMP_NB = n
      <4>1. a - 1 \in Nat
        BY <2>4
      <4> QED BY <1>1, <4>1, Remainders
    <3>2. b + 1 \in a..a + JUMP_NB - 1 /\ (b + 1) - 1 = b
      BY ONLY <1>1, <2>4, <3>1
    <3>3. [line |-> t.jumps[b + 1], key |-> ((b + 1) - 1) % JUMP_NB] \in ks
      BY <1>2, <2>5, <3>2
    <3> QED BY <3>1, <3>2, <3>3
  <2>7. {k.key : k \in ks} = 0..JUMP_NB - 1
    BY <1>6, <2>6
  <2> QED BY <1>6, <1>8, <2>7 DEF ks, here
<1> QED BY <1>9, <1>10

-----------------------------------------------------------------------------
\* Where a page may begin
Begins(t, h, p) == p \in 0..t.lines /\ (t \in Results => p = 0 \/ p + h <= t.lines + 1)

AsPrinted ==
    /\ lines \in TextHeights /\ text \in AllTexts /\ vscroll \in Nat
    /\ state = "box" => \E p \in Nat : Begins(text, Texts!boxh, p) /\ OnPage(text, Texts!boxh, p)

LEMMA BoxHeight ==
    ASSUME TextSetting, NEW n \in TextHeights
    PROVE  n - 8 \in Nat \ {0} /\ n - 4 \in Nat \ {0} /\ n \in Nat
<1>1. n \in Nat /\ n > 8
  BY DEF TextSetting, Texts!HeightsAssumption
<1> QED BY ONLY <1>1

LEMMA SettledBegins ==
    ASSUME TextSetting, NEW t \in AllTexts, NEW p \in 0..t.lines, NEW h \in Nat \ {0}
    PROVE  Begins(t, h, Settled(t, p, h)) /\ Settled(t, p, h) \in Nat
<1>1. t.lines \in Nat \ {0} /\ p \in Nat /\ p <= t.lines
  BY TextFacts
<1> QED BY ONLY <1>1, h \in Nat \ {0} DEF Begins, Settled

\* The line the rows begin with
LEMMA FirstIs ==
    ASSUME TextSetting, text \in AllTexts, NEW h \in Nat \ {0}, NEW p \in 0..text.lines
    PROVE  Texts!First([r \in 1..h |-> Texts!LineAt(text, p + r - 1)]) = p
<1>1. text.lines \in Nat \ {0} /\ p \in Nat /\ p <= text.lines
  BY TextFacts
<1>2. PICK rs : rs = [r \in 1..h |-> Texts!LineAt(text, p + r - 1)]
  OBVIOUS
<1>3. rs[1] = Texts!LineAt(text, p)
  <2>1. 1 \in 1..h /\ p + 1 - 1 = p
    BY ONLY <1>1, h \in Nat \ {0}
  <2> QED BY <1>2, <2>1
<1>4. Texts!LineAt(text, p) = IF p < text.lines THEN p ELSE 0 - 1
  BY DEF Texts!LineAt, Texts!NoLine
<1>5. Texts!First(rs) = p
  BY ONLY <1>1, <1>3, <1>4 DEF Texts!First, Texts!NoLine
<1> QED BY <1>2, <1>5

LEMMA PrintedInView ==
    ASSUME TextSetting, AsPrinted
    PROVE  Texts!TextInView
<1> SUFFICES ASSUME state = "box" PROVE Texts!TextInView
  BY DEF Texts!TextInView
<1>20. PICK h, N : h = Texts!boxh /\ N = text.lines
  OBVIOUS
<1>1. PICK p \in Nat :
        h = Texts!boxh /\ N = text.lines /\ Begins(text, h, p) /\ OnPage(text, h, p)
  BY <1>20 DEF AsPrinted
<1>2. h \in Nat \ {0} /\ text \in AllTexts
  BY <1>1, BoxHeight DEF AsPrinted, Texts!boxh
<1>3. /\ N \in Nat \ {0} /\ p <= N /\ p \in 0..text.lines
      /\ (text \in Results => text.newline /\ (p = 0 \/ p + h <= N + 1))
  BY <1>1, <1>2, TextFacts DEF Begins
<1>4. rows = [r \in 1..h |-> Texts!LineAt(text, p + r - 1)]
  BY <1>1 DEF OnPage
<1>5. Texts!First(rows) = p
  BY <1>2, <1>3, <1>4, FirstIs
<1>6. \A r \in 1..h : rows[r] = IF p + r - 1 < N THEN p + r - 1 ELSE Texts!NoLine
  BY <1>1, <1>4 DEF Texts!LineAt
<1>7. begin_reached <=> p = 0
  BY <1>1 DEF OnPage
<1>8. ASSUME ~end_reached PROVE page = p + h /\ page_length = h
  <2>1. ~(p + h > N \/ (p + h = N /\ ~text.newline)) /\ page = Texts!Smaller(p + h, N)
        /\ page_length = Texts!Smaller(h, Texts!ToEnd(text, p))
    BY <1>1, <1>8 DEF OnPage
  <2>2. Texts!ToEnd(text, p) = (IF text.newline \/ p = N THEN N - p + 1 ELSE N - p)
    BY <1>1 DEF Texts!ToEnd
  <2> QED BY ONLY <1>1, <1>2, <1>3, <2>1, <2>2 DEF Texts!Smaller
<1>9. \A k \in keys : k.line \in Texts!Range(rows)
  <2>1. CASE text \in Results
    <3>1. page \in Nat /\ page <= p + h /\ page <= N
      BY ONLY <1>1, <1>2, <1>3 DEF OnPage, Texts!Smaller
    <3>2. ASSUME NEW k \in keys PROVE k.line \in p..page - 1
      BY <1>1, <2>1, <3>1, <3>2, KeysOnRows DEF OnPage
    <3>3. ASSUME NEW l \in p..page - 1 PROVE l \in Texts!Range(rows)
      <4>1. (l - p) + 1 \in 1..h /\ p + ((l - p) + 1) - 1 = l /\ l < N
        BY ONLY <1>1, <1>2, <1>3, <3>1, l \in p..page - 1
      <4>2. rows[(l - p) + 1] = l
        BY <1>6, <4>1
      <4> QED BY <1>4, <4>1, <4>2 DEF Texts!Range
    <3> QED BY <3>2, <3>3
  <2>2. CASE text \notin Results
    BY <1>1, <2>2 DEF OnPage
  <2> QED BY <2>1, <2>2
<1>10. ASSUME text \in Results
       PROVE  \/ {k.key : k \in keys} = 0..JUMP_NB - 1
              \/ {k.line : k \in keys} = Texts!Range(text.jumps) \cap Texts!Range(rows)
  <2>1. page \in Nat /\ page = (IF p + h < N THEN p + h ELSE N)
    BY ONLY <1>1, <1>2, <1>3 DEF OnPage, Texts!Smaller
  <2>2. \/ {k.key : k \in keys} = 0..JUMP_NB - 1
        \/ {k.line : k \in keys} = {text.jumps[i] : i \in OnRows(text, p, page)}
    BY <1>1, <1>10, <2>1, KeysOnRows DEF OnPage
  <2>3. ASSUME NEW i \in DOMAIN text.jumps
        PROVE  i \in OnRows(text, p, page) <=> text.jumps[i] \in Texts!Range(rows)
    <3>1. PICK l : l = text.jumps[i]
      OBVIOUS
    <3>2. l \in 0..N - 1
      BY <1>1, <1>10, <3>1 DEF TextSetting, Texts!TextsAssumption, Texts!IsText
    <3>3. ASSUME p <= l, l < page PROVE l \in Texts!Range(rows)
      <4>1. (l - p) + 1 \in 1..h /\ p + ((l - p) + 1) - 1 = l
        BY ONLY <1>1, <1>2, <1>3, <2>1, <3>2, <3>3
      <4>2. rows[(l - p) + 1] = l
        BY <1>3, <1>6, <3>2, <4>1
      <4> QED BY <1>4, <4>1, <4>2 DEF Texts!Range
    <3>4. ASSUME l \in Texts!Range(rows) PROVE p <= l /\ l < page
      <4>1. PICK r \in 1..h : l = rows[r]
        BY <1>4, <3>4 DEF Texts!Range
      <4>2. l = IF p + r - 1 < N THEN p + r - 1 ELSE 0 - 1
        BY <1>6, <4>1 DEF Texts!NoLine
      <4> QED BY ONLY <1>1, <1>2, <1>3, <2>1, <3>2, <4>2, r \in 1..h
    <3> QED BY <3>1, <3>3, <3>4 DEF OnRows
  <2>4. {text.jumps[i] : i \in OnRows(text, p, page)} = Texts!Range(text.jumps) \cap Texts!Range(rows)
    <3>1. OnRows(text, p, page) \subseteq DOMAIN text.jumps
      BY DEF OnRows
    <3> QED BY <2>3, <3>1 DEF Texts!Range
  <2> QED BY <2>2, <2>4
<1>11. \A k, l \in keys : k.key = l.key => k = l
  <2>1. CASE text \in Results
    <3>1. page \in Nat
      BY ONLY <1>1, <1>2, <1>3 DEF OnPage, Texts!Smaller
    <3> QED BY <1>1, <2>1, <3>1, KeysOnRows DEF OnPage
  <2>2. CASE text \notin Results
    BY <1>1, <2>2 DEF OnPage
  <2> QED BY <2>1, <2>2
<1>12. {k.line : k \in keys} \subseteq Texts!Range(rows)
  BY <1>9
<1>13. DOMAIN rows = 1..h
  BY <1>4
<1>14. \A r \in DOMAIN rows :
          rows[r] = (IF Texts!First(rows) + r - 1 < text.lines THEN Texts!First(rows) + r - 1 ELSE Texts!NoLine)
  BY <1>1, <1>5, <1>6, <1>13
<1>15. ~end_reached => page = Texts!First(rows) + Texts!boxh /\ page_length = Texts!boxh
  BY <1>1, <1>5, <1>8
<1> QED BY <1>5, <1>7, <1>10, <1>11, <1>12, <1>14, <1>15 DEF Texts!TextInView

LEMMA TextInit == TextSetting /\ Texts!Init => AsPrinted
  BY DEF TextSetting, Texts!Init, AsPrinted, AllTexts

RowsFrom(t, h, p) == [r \in 1..h |-> Texts!LineAt(t, p + r - 1)]

\* A view that is printed
LEMMA PrintedNext ==
    ASSUME TextSetting, NEW t \in AllTexts, NEW h \in Nat \ {0}, NEW p \in 0..t.lines,
           NEW v, v.page = p, v.begin = (p = 0), v = Texts!View(v.page, v.begin, v.end),
           Texts!PrintPage(t, v, h), text' = t, lines' \in TextHeights, h = lines' - 8, vscroll' \in Nat
    PROVE  AsPrinted' /\ rows' = RowsFrom(t, h, Settled(t, p, h))
<1>1. PICK q : q = Settled(t, p, h)
  OBVIOUS
<1>2. OnPage(t, h, q)' /\ q \in 0..t.lines
  BY <1>1, Pages
<1>3. Begins(t, h, q) /\ q \in Nat
  BY <1>1, SettledBegins
<1>4. rows' = RowsFrom(t, h, q)
  BY <1>2 DEF OnPage, RowsFrom
<1>5. Texts!boxh' = h
  BY DEF Texts!boxh
<1>6. OnPage(text, Texts!boxh, q)' /\ Begins(text, Texts!boxh, q)'
  BY <1>2, <1>3, <1>5 DEF OnPage, Begins
<1> QED BY <1>1, <1>3, <1>4, <1>6 DEF AsPrinted

LEMMA PageFacts ==
    ASSUME TextSetting, AsPrinted, NEW h, h = Texts!boxh, NEW N, N = text.lines, NEW p \in Nat,
           Begins(text, h, p), OnPage(text, h, p)
    PROVE  /\ text \in AllTexts /\ N \in Nat \ {0} /\ h \in Nat \ {0} /\ p <= N
           /\ lines \in TextHeights /\ vscroll \in Nat
           /\ page = (IF p + h < N THEN p + h ELSE N) /\ page \in Nat \ {0} /\ page \in 0..text.lines
           /\ (begin_reached <=> p = 0) /\ begin_reached \in BOOLEAN
           /\ page_length \in Nat \ {0} /\ end_reached \in BOOLEAN
           /\ ~end_reached => p + h <= N
           /\ text.newline => /\ end_reached <=> p + h > N
                              /\ page_length = IF h < N - p + 1 THEN h ELSE N - p + 1
           /\ text \in Results => p = 0 \/ p + h <= N + 1
<1>1. lines \in TextHeights /\ text \in AllTexts /\ vscroll \in Nat
  BY DEF AsPrinted
<1>2. N \in Nat \ {0} /\ h \in Nat \ {0} /\ text.newline \in BOOLEAN
  BY <1>1, BoxHeight, TextFacts DEF Texts!boxh
<1>3. p <= N /\ (text \in Results => p = 0 \/ p + h <= N + 1)
  BY <1>2 DEF Begins
<1>4. page = (IF p + h < N THEN p + h ELSE N)
  BY DEF OnPage, Texts!Smaller
<1>5. page \in Nat \ {0} /\ page \in 0..N
  BY ONLY <1>2, <1>3, <1>4, p \in Nat
<1>6. (begin_reached <=> p = 0) /\ begin_reached \in BOOLEAN
  BY DEF OnPage
<1>7. (end_reached <=> p + h > N \/ (p + h = N /\ ~text.newline)) /\ end_reached \in BOOLEAN
  BY DEF OnPage
<1>8. PICK e : e = Texts!ToEnd(text, p)
  OBVIOUS
<1>9. page_length = (IF h < e THEN h ELSE e)
      /\ e = (IF text.newline \/ p = N THEN N - p + 1 ELSE N - p)
  BY <1>8 DEF OnPage, Texts!Smaller, Texts!ToEnd
<1>10. page_length \in Nat \ {0}
  BY ONLY <1>2, <1>3, <1>9, p \in Nat
<1>11. ~end_reached => p + h <= N
  BY ONLY <1>2, <1>7, p \in Nat
<1>12. text.newline => (end_reached <=> p + h > N)
  BY <1>7
<1>13. text.newline => page_length = IF h < N - p + 1 THEN h ELSE N - p + 1
  BY <1>9
<1> QED BY <1>1, <1>2, <1>3, <1>4, <1>5, <1>6, <1>7, <1>10, <1>11, <1>12, <1>13

\* Back from the page that is shown
LEMMA GoneBack ==
    ASSUME TextSetting, AsPrinted, NEW h, h = Texts!boxh, NEW N, N = text.lines, NEW p \in Nat,
           Begins(text, h, p), OnPage(text, h, p), NEW n \in Int, Texts!GoBack(n),
           NEW m, m = IF page = N /\ end_reached THEN n - 1 ELSE n,
           NEW q, q = IF n <= 0 THEN page ELSE IF m >= page THEN 0 ELSE page - m
    PROVE  AsPrinted' /\ q \in 0..N /\ rows' = RowsFrom(text, h, Settled(text, q, h))
<1>1. /\ text \in AllTexts /\ h \in Nat \ {0} /\ page \in 0..text.lines /\ page > 0
      /\ lines \in TextHeights /\ vscroll \in Nat
  BY PageFacts
<1>2. PICK v : v = Texts!BackLines(text, Texts!Now, n)
  OBVIOUS
<1>3. Texts!PrintPage(text, v, h) /\ text' = text /\ lines' = lines /\ vscroll' = vscroll
  BY <1>2 DEF Texts!GoBack, Texts!Pages
<1>4. v = Texts!BackLines(text, Texts!View(page, begin_reached, end_reached), n)
  BY <1>2 DEF Texts!Now
<1>5. q \in 0..text.lines /\ v.page = q /\ v.begin = (q = 0)
  BY <1>1, <1>4, Backwards
<1>6. v = Texts!View(v.page, v.begin, v.end)
  BY <1>4, BackIsView
<1>7. h = lines' - 8
  BY <1>3 DEF Texts!boxh
<1> QED BY <1>1, <1>3, <1>5, <1>6, <1>7, PrintedNext

LEMMA ViewFrom ==
    ASSUME NEW k \in Nat, NEW b \in BOOLEAN, NEW e, b <=> k = 0, NEW v, v = Texts!View(k, b, e)
    PROVE  v.page = k /\ v.begin = (k = 0) /\ v = Texts!View(v.page, v.begin, v.end)
<1>1. v.page = k /\ v.begin = b /\ v.end = e
  BY DEF Texts!View
<1>2. v = Texts!View(v.page, v.begin, v.end)
  BY <1>1
<1>3. b = (k = 0)
  OBVIOUS
<1> QED BY <1>1, <1>2, <1>3

LEMMA PrintedOpen ==
    ASSUME TextSetting, AsPrinted, Texts!Open \/ Texts!SearchAgain
    PROVE  AsPrinted'
<1>1. PICK t, h : t = text' /\ h = Texts!boxh
  OBVIOUS
<1>2. /\ t \in AllTexts /\ text' = t /\ lines' = lines /\ lines \in TextHeights /\ vscroll \in Nat
      /\ vscroll' \in Nat
      /\ Texts!Opened(t, 0) \/ Texts!Opened(t, vscroll)
  BY <1>1 DEF Texts!Open, Texts!SearchAgain, AsPrinted, AllTexts
<1>3. h \in Nat \ {0} /\ h = lines' - 8 /\ lines' \in TextHeights
  BY <1>1, <1>2, BoxHeight DEF Texts!boxh
<1>4. t.lines \in Nat \ {0}
  BY <1>2, TextFacts
<1>5. PICK skip \in Nat : Texts!Opened(t, skip)
  BY <1>2
<1>6. CASE skip = 0
  <2>0. PICK k, b, e : k = 0 /\ b = TRUE /\ e = FALSE
    OBVIOUS
  <2>1. PICK v : v = Texts!View(k, b, e)
    OBVIOUS
  <2>2. Texts!PrintPage(t, v, h)
    BY <1>1, <1>5, <1>6, <2>0, <2>1 DEF Texts!Opened
  <2>3. k \in 0..t.lines /\ k \in Nat /\ b \in BOOLEAN /\ (b <=> k = 0)
    BY <1>4, <2>0
  <2>4. v.page = k /\ v.begin = (k = 0) /\ v = Texts!View(v.page, v.begin, v.end)
    BY <2>1, <2>3, ViewFrom
  <2> QED BY <1>2, <1>3, <2>2, <2>3, <2>4, PrintedNext
<1>7. CASE skip # 0
  <2>1. PICK v, w, p : /\ v = Texts!View(0, FALSE, FALSE) /\ w = Texts!GetLines(t, v, skip)
                       /\ p = Texts!Smaller(0 + skip, t.lines)
    OBVIOUS
  <2>2. Texts!PrintPage(t, w, h)
    BY <1>1, <1>5, <1>7, <2>1 DEF Texts!Opened
  <2>3. p \in 0..t.lines /\ p # 0
    BY ONLY <1>4, <1>7, <2>1, skip \in Nat DEF Texts!Smaller
  <2>4. v = [page |-> 0, begin |-> FALSE, end |-> FALSE] /\ v.page = 0
    BY <2>1 DEF Texts!View
  <2>5. w = [v EXCEPT !.page = p, !.end = v.page + skip > t.lines \/ (v.page + skip = t.lines /\ ~t.newline)]
    BY <2>1, <2>4 DEF Texts!GetLines
  <2>6. \E e : w = [page |-> p, begin |-> FALSE, end |-> e]
    BY ONLY <2>4, <2>5
  <2>7. w.page = p /\ w.begin = (p = 0) /\ w = Texts!View(w.page, w.begin, w.end)
    <3>0. PICK b : b = FALSE
      OBVIOUS
    <3>1. PICK e : w = Texts!View(p, b, e)
      BY <2>6, <3>0 DEF Texts!View
    <3>2. p \in Nat
      BY ONLY <1>4, <2>3
    <3>3. b \in BOOLEAN /\ (b <=> p = 0)
      BY <2>3, <3>0
    <3> QED BY <3>1, <3>2, <3>3, ViewFrom
  <2> QED BY <1>2, <1>3, <2>2, <2>3, <2>7, PrintedNext
<1> QED BY <1>6, <1>7

LEMMA PrintedKeys ==
    ASSUME TextSetting, AsPrinted,
           \/ Texts!KeyHome \/ Texts!KeyEnd \/ Texts!KeyPageDown
           \/ Texts!KeyUp \/ Texts!KeyPageUp \/ Texts!KeyDown \/ Texts!KeySideways
    PROVE  AsPrinted'
<1>0. state = "box"
  BY DEF Texts!KeyHome, Texts!KeyEnd, Texts!KeyPageDown, Texts!KeyUp, Texts!KeyPageUp, Texts!KeyDown,
         Texts!KeySideways
<1>20. PICK h, N : h = Texts!boxh /\ N = text.lines
  OBVIOUS
<1>1. PICK p \in Nat :
        h = Texts!boxh /\ N = text.lines /\ Begins(text, h, p) /\ OnPage(text, h, p)
  BY <1>20, <1>0 DEF AsPrinted
<1>2. /\ text \in AllTexts /\ N \in Nat \ {0} /\ h \in Nat \ {0} /\ lines \in TextHeights /\ vscroll \in Nat
      /\ page \in Nat \ {0} /\ page \in 0..text.lines /\ page_length \in Nat \ {0}
  BY <1>1, PageFacts
<1>3. ASSUME NEW n \in Int, Texts!GoBack(n) PROVE AsPrinted'
  <2>1. PICK m : m = IF page = N /\ end_reached THEN n - 1 ELSE n
    OBVIOUS
  <2>2. PICK q : q = IF n <= 0 THEN page ELSE IF m >= page THEN 0 ELSE page - m
    OBVIOUS
  <2> QED BY <1>1, <1>3, <2>1, <2>2, GoneBack
<1>4. CASE Texts!KeyUp \/ Texts!KeyPageUp \/ Texts!KeyDown \/ Texts!KeySideways
  <2>1. page_length + 1 \in Int /\ page_length + h \in Int /\ page_length - 1 \in Int /\ page_length \in Int
    BY ONLY <1>2
  <2> QED BY <1>1, <1>3, <1>4, <2>1 DEF Texts!KeyUp, Texts!KeyPageUp, Texts!KeyDown, Texts!KeySideways
<1>5. ASSUME NEW v, NEW k \in 0..text.lines, v.page = k, v.begin = (k = 0),
             v = Texts!View(v.page, v.begin, v.end), Texts!Pages(v)
      PROVE  AsPrinted'
  <2>1. Texts!PrintPage(text, v, h) /\ text' = text /\ lines' = lines /\ vscroll' = vscroll
    BY <1>1, <1>5 DEF Texts!Pages
  <2>2. h = lines' - 8
    BY <1>1, <2>1 DEF Texts!boxh
  <2> QED BY <1>2, <1>5, <2>1, <2>2, PrintedNext
<1>6. CASE Texts!KeyHome
  <2>1. PICK k, b : k = 0 /\ b = TRUE
    OBVIOUS
  <2>2. PICK v : v = Texts!View(k, b, end_reached)
    OBVIOUS
  <2>3. Texts!Pages(v)
    BY <1>6, <2>1, <2>2 DEF Texts!KeyHome
  <2>4. k \in 0..text.lines /\ k \in Nat /\ b \in BOOLEAN /\ (b <=> k = 0)
    BY <1>1, <1>2, <2>1
  <2>5. v.page = k /\ v.begin = (k = 0) /\ v = Texts!View(v.page, v.begin, v.end)
    BY <2>2, <2>4, ViewFrom
  <2> QED BY <1>5, <2>3, <2>4, <2>5
<1>7. CASE Texts!KeyPageDown
  <2>1. PICK b : b = FALSE
    OBVIOUS
  <2>2. PICK v : v = Texts!View(page, b, end_reached)
    OBVIOUS
  <2>3. Texts!Pages(v)
    BY <1>7, <2>1, <2>2 DEF Texts!KeyPageDown
  <2>4. page \in 0..text.lines /\ page \in Nat /\ b \in BOOLEAN /\ (b <=> page = 0)
    BY <1>2, <2>1
  <2>5. v.page = page /\ v.begin = (page = 0) /\ v = Texts!View(v.page, v.begin, v.end)
    BY <2>2, <2>4, ViewFrom
  <2> QED BY <1>5, <2>3, <2>4, <2>5
<1>8. CASE Texts!KeyEnd
  <2>0. PICK e : e = TRUE
    OBVIOUS
  <2>1. PICK v : v = Texts!BackLines(text, Texts!View(text.lines, begin_reached, e), h)
    OBVIOUS
  <2>2. Texts!Pages(v)
    BY <1>1, <1>8, <2>0, <2>1 DEF Texts!KeyEnd
  <2>3. PICK m : m = IF text.lines = text.lines /\ e THEN h - 1 ELSE h
    OBVIOUS
  <2>4. PICK q : q = IF h <= 0 THEN text.lines ELSE IF m >= text.lines THEN 0 ELSE text.lines - m
    OBVIOUS
  <2>5. h \in Int /\ h > 0 /\ text.lines \in 0..text.lines
    BY <1>1, <1>2
  <2>6. q \in 0..text.lines /\ v.page = q /\ v.begin = (q = 0)
    BY <1>2, <2>1, <2>3, <2>4, <2>5, Backwards
  <2>7. v = Texts!View(v.page, v.begin, v.end)
    BY <2>1, BackIsView
  <2> QED BY <1>5, <2>2, <2>6, <2>7
<1> QED BY <1>4, <1>6, <1>7, <1>8

LEMMA PrintedResize ==
    ASSUME TextSetting, AsPrinted, Texts!Resize \/ Texts!JumpKey
    PROVE  AsPrinted'
<1>0. state = "box"
  BY DEF Texts!Resize, Texts!JumpKey
<1>20. PICK h, N : h = Texts!boxh /\ N = text.lines
  OBVIOUS
<1>1. PICK p \in Nat :
        h = Texts!boxh /\ N = text.lines /\ Begins(text, h, p) /\ OnPage(text, h, p)
  BY <1>20, <1>0 DEF AsPrinted
<1>2. /\ text \in AllTexts /\ lines \in TextHeights /\ vscroll \in Nat /\ N \in Nat \ {0}
      /\ page \in Nat \ {0} /\ page \in 0..text.lines /\ page_length \in Nat \ {0}
  BY <1>1, PageFacts
<1>3. ASSUME NEW n \in Nat \ {0}, NEW v, v = Texts!BackLines(text, Texts!Now, n)
      PROVE  v.page \in 0..text.lines /\ v.begin = (v.page = 0) /\ v = Texts!View(v.page, v.begin, v.end)
  <2>1. v = Texts!BackLines(text, Texts!View(page, begin_reached, end_reached), n)
    BY <1>3 DEF Texts!Now
  <2>2. PICK m : m = IF page = text.lines /\ end_reached THEN n - 1 ELSE n
    OBVIOUS
  <2>3. PICK q : q = IF n <= 0 THEN page ELSE IF m >= page THEN 0 ELSE page - m
    OBVIOUS
  <2>4. n \in Int /\ n > 0
    OBVIOUS
  <2> QED BY <1>2, <2>1, <2>2, <2>3, <2>4, Backwards, BackIsView
<1>4. CASE Texts!Resize
  <2>1. PICK v : v = Texts!BackLines(text, Texts!Now, lines - 4)
    OBVIOUS
  <2>2. /\ Texts!PrintPage(text, v, lines' - 8) /\ lines' \in TextHeights
        /\ text' = text /\ vscroll' = vscroll
    BY <1>4, <2>1 DEF Texts!Resize
  <2>3. lines - 4 \in Nat \ {0} /\ lines' - 8 \in Nat \ {0}
    BY <1>2, <2>2, BoxHeight
  <2>4. v.page \in 0..text.lines /\ v.begin = (v.page = 0) /\ v = Texts!View(v.page, v.begin, v.end)
    BY <1>3, <2>1, <2>3
  <2> QED BY <1>2, <2>2, <2>3, <2>4, PrintedNext
<1>5. CASE Texts!JumpKey
  <2>1. PICK v : v = Texts!BackLines(text, Texts!Now, page_length)
    OBVIOUS
  <2>2. vscroll' = v.page /\ state' = "search" /\ text' = text /\ lines' = lines
    BY <1>5, <2>1 DEF Texts!JumpKey
  <2>3. v.page \in 0..text.lines
    BY <1>2, <1>3, <2>1
  <2>4. v.page \in Nat
    BY <1>1, <1>2, <2>3
  <2> QED BY <1>2, <2>2, <2>4 DEF AsPrinted
<1> QED BY <1>4, <1>5

LEMMA AsPrintedNext == TextSetting /\ AsPrinted /\ [Texts!Next]_Texts!vars => AsPrinted'
<1> SUFFICES ASSUME TextSetting, AsPrinted, [Texts!Next]_Texts!vars PROVE AsPrinted'
  OBVIOUS
<1>1. CASE UNCHANGED Texts!vars
  BY <1>1 DEF AsPrinted, Texts!vars, Texts!view, Texts!boxh, Begins, OnPage
<1>2. CASE Texts!Leave
  BY <1>2 DEF AsPrinted, Texts!Leave
<1> QED BY <1>1, <1>2, PrintedOpen, PrintedKeys, PrintedResize DEF Texts!Next

\* Where going back n lines comes to
BackTo(n, h, N) ==
    LET m == IF page = N /\ end_reached THEN n - 1 ELSE n
    IN  IF n <= 0 THEN page ELSE IF m >= page THEN 0 ELSE page - m

LEMMA ComesTo ==
    ASSUME TextSetting, AsPrinted, state = "box", text.newline,
           NEW n \in Int, Texts!GoBack(n),
           NEW h, h = Texts!boxh, NEW N, N = text.lines, NEW p \in Nat, Begins(text, h, p), OnPage(text, h, p),
           NEW s \in Nat, Settled(text, BackTo(n, h, N), h) = s
    PROVE  Texts!First(rows') = s /\ rows' = RowsFrom(text, h, s)
<1>1. PICK m : m = IF page = N /\ end_reached THEN n - 1 ELSE n
  OBVIOUS
<1>2. PICK q : q = IF n <= 0 THEN page ELSE IF m >= page THEN 0 ELSE page - m
  OBVIOUS
<1>3. q \in 0..N /\ rows' = RowsFrom(text, h, Settled(text, q, h))
  BY <1>1, <1>2, GoneBack
<1>4. BackTo(n, h, N) = q
  BY <1>1, <1>2 DEF BackTo
<1>5. text \in AllTexts /\ h \in Nat \ {0}
  BY PageFacts
<1>6. Begins(text, h, s) /\ rows' = RowsFrom(text, h, s)
  BY <1>3, <1>4, <1>5, SettledBegins
<1> QED BY <1>5, <1>6, FirstIs DEF Begins, RowsFrom

LEMMA KeysMove == TextSetting /\ AsPrinted => Texts!TextMoves
<1> SUFFICES ASSUME TextSetting, AsPrinted, state = "box", text.newline PROVE Texts!TextMoves
  BY DEF Texts!TextMoves
<1>20. PICK h, N, L : h = Texts!boxh /\ N = text.lines /\ L = page_length
  OBVIOUS
<1>1. PICK p \in Nat :
        h = Texts!boxh /\ N = text.lines /\ L = page_length /\ Begins(text, h, p) /\ OnPage(text, h, p)
  BY <1>20 DEF AsPrinted
<1>2. /\ text \in AllTexts /\ N \in Nat \ {0} /\ h \in Nat \ {0} /\ p <= N
      /\ page = (IF p + h < N THEN p + h ELSE N)
      /\ (begin_reached <=> p = 0)
      /\ (end_reached <=> p + h > N)
      /\ L = (IF h < N - p + 1 THEN h ELSE N - p + 1)
      /\ text \in Results => p = 0 \/ p + h <= N + 1
  BY <1>1, PageFacts
<1>3. \A q : Settled(text, q, h) =
        IF text \in Results /\ q + h > N THEN IF N - h + 1 > 0 THEN N - h + 1 ELSE 0 ELSE q
  BY <1>1 DEF Settled
<1>4. Texts!First(rows) = p /\ rows = RowsFrom(text, h, p)
  BY <1>1, <1>2, FirstIs DEF OnPage, RowsFrom
<1>5. ASSUME Texts!KeyUp PROVE Texts!First(rows') = p - 1
  <2>1. L + 1 \in Int /\ p - 1 \in Nat /\ Texts!GoBack(L + 1)
    BY <1>1, <1>2, <1>5 DEF Texts!KeyUp
  <2>2. BackTo(L + 1, h, N) = p - 1
    BY ONLY <1>2, <2>1, p \in Nat DEF BackTo
  <2>3. Settled(text, p - 1, h) = p - 1
    BY ONLY <1>2, <1>3, <2>1, p \in Nat
  <2> QED BY <1>1, <2>1, <2>2, <2>3, ComesTo
<1>6. ASSUME Texts!KeyPageUp PROVE Texts!First(rows') = IF p > h THEN p - h ELSE 0
  <2>1. L + h \in Int /\ p > 0 /\ Texts!GoBack(L + h)
    BY <1>1, <1>2, <1>6 DEF Texts!KeyPageUp
  <2>2. PICK s : s = IF p > h THEN p - h ELSE 0
    OBVIOUS
  <2>3. s \in Nat /\ BackTo(L + h, h, N) = s
    BY ONLY <1>2, <2>1, <2>2, p \in Nat DEF BackTo
  <2>4. Settled(text, s, h) = s
    BY ONLY <1>2, <1>3, <2>1, <2>2, p \in Nat
  <2> QED BY <1>1, <2>1, <2>2, <2>3, <2>4, ComesTo
<1>7. ASSUME Texts!KeyDown PROVE Texts!First(rows') = p + 1
  <2>1. L - 1 \in Int /\ p + h <= N /\ Texts!GoBack(L - 1)
    BY <1>1, <1>2, <1>7 DEF Texts!KeyDown
  <2>2. p + 1 \in Nat /\ BackTo(L - 1, h, N) = p + 1
    BY ONLY <1>2, <2>1, p \in Nat DEF BackTo
  <2>3. Settled(text, p + 1, h) = p + 1
    BY ONLY <1>2, <1>3, <2>1, p \in Nat
  <2> QED BY <1>1, <2>1, <2>2, <2>3, ComesTo
<1>8. ASSUME Texts!KeySideways PROVE rows' = rows
  <2>1. L \in Int /\ Texts!GoBack(L)
    BY <1>1, <1>2, <1>8 DEF Texts!KeySideways
  <2>2. BackTo(L, h, N) = p
    BY ONLY <1>2, <2>1, p \in Nat DEF BackTo
  <2>3. Settled(text, p, h) = p
    BY ONLY <1>2, <1>3, <2>1, p \in Nat
  <2> QED BY <1>1, <1>4, <2>1, <2>2, <2>3, ComesTo
<1> QED BY <1>1, <1>4, <1>5, <1>6, <1>7, <1>8 DEF Texts!TextMoves

\* What the box of texts shows is a page, from a line of the text on
\* (dialog_textbox), whatever the texts, the heights and the keys.
THEOREM TextIsInView == ASSUME TextSetting PROVE Texts!Spec => []Texts!TextInView
<1>1. Texts!Init => AsPrinted
  BY TextInit
<1>2. AsPrinted /\ [Texts!Next]_Texts!vars => AsPrinted'
  BY AsPrintedNext
<1>3. AsPrinted => Texts!TextInView
  BY PrintedInView
<1> QED BY <1>1, <1>2, <1>3, PTL DEF Texts!Spec

\* And the keys move the page as their names say (back_lines, from where
\* get_line has come to).
THEOREM TextMovesAsTold == ASSUME TextSetting PROVE Texts!Spec => [][Texts!TextMoves]_Texts!vars
<1>1. Texts!Init => AsPrinted
  BY TextInit
<1>2. AsPrinted /\ [Texts!Next]_Texts!vars => AsPrinted'
  BY AsPrintedNext
<1>3. AsPrinted /\ [Texts!Next]_Texts!vars => [Texts!TextMoves]_Texts!vars
  BY KeysMove
<1> QED BY <1>1, <1>2, <1>3, PTL DEF Texts!Spec

-----------------------------------------------------------------------------
(***************************************************************************)
(* make: auto.conf and its headers say what .config does, for any symbols  *)
(* and any kills.  What conf has written by each step is fixed by the      *)
(* values it has in memory, and auto.conf, which the next run is compared  *)
(* with, is behind every header that was not touched.                      *)
(***************************************************************************)
MakeSetting == Derives!ParentAssumption /\ Derives!NewAssumption /\ Derives!WordAssumption

\* A line of .config as auto.conf has it
LineOf(x) == IF x = "n" THEN Derives!None ELSE x

LEMMA AutoOfConfig ==
    ASSUME NEW v, NEW s \in Derives!Symbol
    PROVE  Derives!AutoLines(v)[s] = LineOf(Derives!Config(v)[s])
  BY DEF Derives!AutoLines, Derives!Config, LineOf, Derives!None

-----------------------------------------------------------------------------
(***************************************************************************)
(* What is written, step by step.                                          *)
(***************************************************************************)
Steps ==
    /\ pc \in {"off", "made", "ask", "split", "header", "auto"}
    /\ fresh => pc \in {"off", "made"}
    /\ fresh => header = auto /\ \A s \in Derives!Symbol : auto[s] = LineOf(config[s])
    /\ pc \in {"split", "header", "auto"} => config = Derives!Config(mem)
    /\ pc \in {"header", "auto"} => tmp = Derives!AutoLines(mem)
    /\ pc = "auto" => header = tmp

LEMMA StepsInit == Derives!Init => Steps
  BY DEF Derives!Init, Steps

LEMMA StepsNext == Steps /\ [Derives!Next]_Derives!vars => Steps'
<1> SUFFICES ASSUME Steps, [Derives!Next]_Derives!vars PROVE Steps'
  OBVIOUS
<1> USE DEF Steps
<1>1. CASE Derives!Configure BY <1>1 DEF Derives!Configure
<1>2. CASE Derives!TakeOld BY <1>2 DEF Derives!TakeOld
<1>3. CASE Derives!Make BY <1>3 DEF Derives!Make
<1>4. CASE Derives!ReadConfig BY <1>4 DEF Derives!ReadConfig
<1>5. CASE Derives!Ask BY <1>5 DEF Derives!Ask
<1>6. CASE Derives!Abort BY <1>6 DEF Derives!Abort, Derives!Stop
<1>7. CASE Derives!WriteConfig BY <1>7 DEF Derives!WriteConfig
<1>8. ASSUME NEW s \in Derives!Symbol, Derives!Split(s) PROVE Steps' BY <1>8 DEF Derives!Split
<1>9. CASE Derives!SplitFails BY <1>9 DEF Derives!SplitFails, Derives!Stop
<1>10. CASE Derives!WriteTmp BY <1>10 DEF Derives!WriteTmp
<1>11. CASE Derives!RenameHeader BY <1>11 DEF Derives!RenameHeader
<1>12. CASE Derives!RenameAuto
  <2>1. \A s \in Derives!Symbol : Derives!AutoLines(mem)[s] = LineOf(Derives!Config(mem)[s])
    BY AutoOfConfig
  <2> QED BY <1>12, <2>1 DEF Derives!RenameAuto
<1>13. CASE Derives!Build BY <1>13 DEF Derives!Build, Derives!Stop
<1>14. CASE Derives!Kill BY <1>14 DEF Derives!Kill, Derives!Stop
<1>15. CASE UNCHANGED Derives!vars BY <1>15 DEF Derives!vars
<1> QED BY <1>1, <1>2, <1>3, <1>4, <1>5, <1>6, <1>7, <1>8, <1>9, <1>10, <1>11, <1>12,
           <1>13, <1>14, <1>15 DEF Derives!Next

(***************************************************************************)
(* An auto.conf that make takes for up to date says, with its header, what *)
(* .config does (the order of the renames in conf_write_autoconf).         *)
(***************************************************************************)
THEOREM AutoIsWhole == Derives!Spec => []Derives!FreshIsWhole
<1>1. Steps => Derives!FreshIsWhole
  BY DEF Steps, Derives!FreshIsWhole, LineOf
<1> QED BY StepsInit, StepsNext, <1>1, PTL DEF Derives!Spec

-----------------------------------------------------------------------------
(***************************************************************************)
(* What is touched covers the way from what was compiled to auto.conf and  *)
(* to autoconf.h, whichever of the two is ahead, and, for the symbols      *)
(* conf_split_config is done with, from auto.conf to what is written next. *)
(***************************************************************************)
Touches ==
    /\ \A s \in Derives!Symbol : auto[s] # "n"
    /\ \A s \in Derives!Symbol : s \notin touched => auto[s] = compiled[s] /\ header[s] = compiled[s]
    /\ pc = "split" =>
         \A s \in Derives!Symbol : s \notin todo \cup touched => Derives!AutoLines(mem)[s] = auto[s]
    /\ pc \in {"header", "auto"} =>
         \A s \in Derives!Symbol : s \notin touched => Derives!AutoLines(mem)[s] = auto[s]

LEMMA TouchesInit == Derives!Init => Touches
  BY DEF Derives!Init, Touches, Derives!Nothing, Derives!None

LEMMA TouchesNext == Steps /\ Touches /\ [Derives!Next]_Derives!vars => Touches'
<1> SUFFICES ASSUME Steps, Touches, [Derives!Next]_Derives!vars PROVE Touches'
  OBVIOUS
<1> USE DEF Touches
<1>1. CASE Derives!Configure BY <1>1 DEF Derives!Configure
<1>2. CASE Derives!TakeOld BY <1>2 DEF Derives!TakeOld
<1>3. CASE Derives!Make BY <1>3 DEF Derives!Make
<1>4. CASE Derives!ReadConfig BY <1>4 DEF Derives!ReadConfig
<1>5. CASE Derives!Ask BY <1>5 DEF Derives!Ask
<1>6. CASE Derives!Abort BY <1>6 DEF Derives!Abort, Derives!Stop
<1>7. CASE Derives!WriteConfig BY <1>7 DEF Derives!WriteConfig
<1>8. ASSUME NEW s \in Derives!Symbol, Derives!Split(s) PROVE Touches'
  <2>1. ~Derives!Differs(s) => Derives!AutoLines(mem)[s] = auto[s]
    BY DEF Derives!Differs, Derives!AutoLines, Derives!None
  <2> QED BY <1>8, <2>1 DEF Derives!Split
<1>9. CASE Derives!SplitFails BY <1>9 DEF Derives!SplitFails, Derives!Stop
<1>10. CASE Derives!WriteTmp BY <1>10 DEF Derives!WriteTmp
<1>11. CASE Derives!RenameHeader BY <1>11 DEF Derives!RenameHeader, Steps
<1>12. CASE Derives!RenameAuto
  <2>1. \A s \in Derives!Symbol : Derives!AutoLines(mem)[s] # "n"
    BY DEF Derives!AutoLines, Derives!None
  <2> QED BY <1>12, <2>1 DEF Derives!RenameAuto, Steps
<1>13. CASE Derives!Build BY <1>13 DEF Derives!Build, Derives!Stop, Steps
<1>14. CASE Derives!Kill BY <1>14 DEF Derives!Kill, Derives!Stop
<1>15. CASE UNCHANGED Derives!vars BY <1>15 DEF Derives!vars
<1> QED BY <1>1, <1>2, <1>3, <1>4, <1>5, <1>6, <1>7, <1>8, <1>9, <1>10, <1>11, <1>12,
           <1>13, <1>14, <1>15 DEF Derives!Next

(***************************************************************************)
(* The header of every symbol whose value is not the one that was compiled *)
(* in has been touched, whatever conf was interrupted in.                  *)
(***************************************************************************)
THEOREM Touched == Derives!Spec => []Derives!TouchedIfChanged
<1>1. Touches => Derives!TouchedIfChanged
  BY DEF Touches, Derives!TouchedIfChanged
<1> QED BY StepsInit, StepsNext, TouchesInit, TouchesNext, <1>1, PTL DEF Derives!Spec

-----------------------------------------------------------------------------
(***************************************************************************)
(* Without a terminal conf goes on only if .config has a line for each     *)
(* symbol that is to have one, and then writes what it has read: what make *)
(* has included stays what .config says.                                   *)
(***************************************************************************)
\* .config is that of some values, or lacks one symbol.
From(v) ==
    \/ config = Derives!Config(v)
    \/ \E s \in Derives!Symbol : config = [Derives!Config(v) EXCEPT ![s] = Derives!None]

\* What conf has once it has read .config
HasRead ==
    /\ mem = [s \in Derives!Symbol |-> IF config[s] = Derives!None THEN Derives!Default(s) ELSE config[s]]
    /\ asked = {s \in Derives!Symbol : config[s] = Derives!None}

Included ==
    /\ \E v \in Derives!Values : From(v)
    /\ pc # "off" /\ ~terminal => parsed = config
    /\ pc = "ask" => mem \in Derives!Values
    /\ pc = "ask" /\ ~terminal => HasRead
    /\ Derives!BuiltAsDerived

LEMMA IncludedInit == Derives!Init => Included
<1> SUFFICES ASSUME Derives!Init PROVE Included
  OBVIOUS
<1>1. \A s \in Derives!Symbol : Derives!Nothing[s] = LineOf(Derives!Nothing[s])
  BY DEF Derives!Nothing, LineOf, Derives!None
<1>2. \E v \in Derives!Values : From(v)
  BY DEF Derives!Init, From
<1> QED BY <1>1, <1>2 DEF Derives!Init, Included, Derives!BuiltAsDerived, LineOf

\* conf gives up if it would decide on a symbol that shows: what is on decides
\* what is written, and all of that is known.
LEMMA WritesWhatItReads ==
    ASSUME MakeSetting, Included, pc = "ask", ~terminal, \A s \in asked : ~Derives!Visible(s)
    PROVE  Derives!Config(mem) = config
<1>1. (\E v \in Derives!Values : From(v)) /\ HasRead
  BY DEF Included
<1>0. PICK v \in Derives!Values : From(v)
  BY <1>1
<1>2. \A s \in Derives!Symbol : Parent[s] \in Derives!Symbol /\ Parent[Parent[s]] = Parent[s]
  BY DEF MakeSetting, Derives!ParentAssumption, Derives!Symbol
<1>3. \A s \in Derives!Symbol : Parent[s] \notin asked
  BY <1>2, <1>1 DEF Derives!Visible, Derives!Written
<1>4. \A s \in Derives!Symbol : 
        config[Parent[s]] # Derives!None /\ mem[Parent[s]] = config[Parent[s]]
  BY <1>1, <1>2, <1>3 DEF HasRead
<1>5. /\ config = [s \in Derives!Symbol |-> config[s]]
      /\ \A s \in Derives!Symbol : config[s] \in {Derives!None, Derives!Config(v)[s]}
  BY <1>0 DEF From, Derives!Config
<1>6. \A s \in Derives!Symbol : config[Parent[s]] = v[Parent[s]]
  BY <1>2, <1>4, <1>5 DEF Derives!Config
<1>7. \A s \in Derives!Symbol : s \in Derives!Written(mem) <=> s \in Derives!Written(v)
  BY <1>4, <1>6 DEF Derives!Written
<1>8. ASSUME NEW s \in Derives!Symbol PROVE Derives!Config(mem)[s] = config[s]
  <2>1. CASE s \in Derives!Written(mem)
    <3>1. s \notin asked
      BY <2>1 DEF Derives!Visible
    <3>2. mem[s] = config[s]
      BY <1>1, <3>1 DEF HasRead
    <3> QED BY <2>1, <3>2 DEF Derives!Config
  <2>2. CASE s \notin Derives!Written(mem)
    BY <2>2, <1>5, <1>7 DEF Derives!Config
  <2> QED BY <2>1, <2>2
<1> QED BY <1>5, <1>8 DEF Derives!Config

LEMMA ReadsValues ==
    ASSUME MakeSetting, NEW v \in Derives!Values, From(v), NEW m,
           m = [s \in Derives!Symbol |-> IF config[s] = Derives!None THEN Derives!Default(s) ELSE config[s]]
    PROVE  m \in Derives!Values
<1>1. ASSUME NEW s \in Derives!Symbol PROVE Derives!Default(s) \in Derives!ValuesOf(s)
  BY DEF MakeSetting, Derives!WordAssumption, Derives!Default, Derives!ValuesOf
<1>2. ASSUME NEW s \in Derives!Symbol PROVE m[s] \in Derives!ValuesOf(s)
  <2>1. config[s] = Derives!None \/ config[s] = v[s]
    BY DEF From, Derives!Config
  <2>2. v[s] \in Derives!ValuesOf(s)
    BY DEF Derives!Values
  <2> QED BY <1>1, <2>1, <2>2
<1>3. \A s \in Derives!Symbol : Derives!ValuesOf(s) \subseteq {"n", "y"} \cup Word
  BY DEF Derives!ValuesOf
<1> QED BY <1>2, <1>3 DEF Derives!Values

LEMMA IncludedNext ==
    ASSUME MakeSetting, Steps, Included, [Derives!Next]_Derives!vars
    PROVE  Included'
<1> USE DEF Included, Derives!BuiltAsDerived
<1>1. CASE Derives!Configure
  <2>1. PICK v \in Derives!Values : config' = Derives!Config(v)
    BY <1>1 DEF Derives!Configure
  <2>2. From(v)'
    BY <2>1 DEF From
  <2> QED BY <1>1, <2>2 DEF Derives!Configure
<1>2. CASE Derives!TakeOld
  <2>1. PICK v \in Derives!Values, s \in New : config' = [Derives!Config(v) EXCEPT ![s] = Derives!None]
    BY <1>2 DEF Derives!TakeOld
  <2>2. From(v)'
    BY <2>1 DEF From, MakeSetting, Derives!NewAssumption
  <2> QED BY <1>2, <2>2 DEF Derives!TakeOld
<1> USE DEF From
<1>3. CASE Derives!Make BY <1>3 DEF Derives!Make
<1>4. CASE Derives!ReadConfig
  <2>1. mem' \in Derives!Values
    BY <1>4, ReadsValues DEF Derives!ReadConfig
  <2> QED BY <1>4, <2>1 DEF Derives!ReadConfig, HasRead
<1>5. CASE Derives!Ask
  <2>1. PICK s \in asked : /\ Derives!Visible(s)
                           /\ \E x \in Derives!ValuesOf(s) : mem' = [mem EXCEPT ![s] = x]
    BY <1>5 DEF Derives!Ask
  <2>2. PICK x \in Derives!ValuesOf(s) : mem' = [mem EXCEPT ![s] = x]
    BY <2>1
  <2>3. mem \in Derives!Values /\ s \in Derives!Symbol
    BY <1>5, <2>1 DEF Derives!Ask, Derives!Visible, Derives!Written
  <2>4. x \in {"n", "y"} \cup Word
    BY DEF Derives!ValuesOf
  <2>5. mem' \in Derives!Values
    BY ONLY <2>2, <2>3, <2>4 DEF Derives!Values
  <2> QED BY <1>5, <2>5 DEF Derives!Ask
<1>6. CASE Derives!Abort BY <1>6 DEF Derives!Abort, Derives!Stop
<1>7. CASE Derives!WriteConfig
  <2>1. ~terminal => config' = config
    BY <1>7, WritesWhatItReads DEF Derives!WriteConfig
  <2>2. (\E v \in Derives!Values : From(v))'
    BY <1>7 DEF Derives!WriteConfig
  <2> QED BY <1>7, <2>1, <2>2 DEF Derives!WriteConfig
<1>8. ASSUME NEW s \in Derives!Symbol, Derives!Split(s) PROVE Included' BY <1>8 DEF Derives!Split
<1>9. CASE Derives!SplitFails BY <1>9 DEF Derives!SplitFails, Derives!Stop
<1>10. CASE Derives!WriteTmp BY <1>10 DEF Derives!WriteTmp
<1>11. CASE Derives!RenameHeader BY <1>11 DEF Derives!RenameHeader
<1>12. CASE Derives!RenameAuto BY <1>12 DEF Derives!RenameAuto
<1>13. CASE Derives!Build
  <2>1. ~terminal => \A s \in Derives!Symbol : auto[s] = LineOf(parsed[s])
    BY <1>13 DEF Derives!Build, Steps
  <2> QED BY <1>13, <2>1 DEF Derives!Build, Derives!Stop, LineOf
<1>14. CASE Derives!Kill BY <1>14 DEF Derives!Kill, Derives!Stop
<1>15. CASE UNCHANGED Derives!vars BY <1>15 DEF Derives!vars, HasRead
<1> QED BY <1>1, <1>2, <1>3, <1>4, <1>5, <1>6, <1>7, <1>8, <1>9, <1>10, <1>11, <1>12,
           <1>13, <1>14, <1>15 DEF Derives!Next

(***************************************************************************)
(* Where conf cannot ask, make builds what auto.conf was derived from,     *)
(* though it has included .config before conf ran.                         *)
(***************************************************************************)
THEOREM Derived ==
    ASSUME MakeSetting
    PROVE  Derives!Spec => []Derives!BuiltAsDerived
<1>1. Derives!Init => Included
  BY IncludedInit
<1>2. Steps /\ Included /\ [Derives!Next]_Derives!vars => Included'
  BY IncludedNext
<1>3. Included => Derives!BuiltAsDerived
  BY DEF Included
<1> QED BY StepsInit, StepsNext, <1>1, <1>2, <1>3, PTL DEF Derives!Spec

(***************************************************************************)
(* The three together, with or without a terminal: what make builds is     *)
(* what conf_write_autoconf derived from .config, each header of a changed *)
(* symbol is touched, and an auto.conf that make does not run conf for     *)
(* says what .config does.                                                 *)
(***************************************************************************)
THEOREM MakeIsCurrent ==
    ASSUME MakeSetting
    PROVE  Derives!Spec => []Derives!DerivedIsCurrent
<1>1. Derives!FreshIsWhole /\ Derives!TouchedIfChanged /\ Derives!BuiltAsDerived => Derives!DerivedIsCurrent
  BY DEF Derives!DerivedIsCurrent
<1>2. Derives!Spec => []Derives!BuiltAsDerived
  BY Derived
<1> QED BY <1>1, <1>2, AutoIsWhole, Touched, PTL

-----------------------------------------------------------------------------
(***************************************************************************)
(* Front ends: what is proved of the module KFront holds of its instances. *)
(***************************************************************************)
KP == INSTANCE KFront_proofs WITH
    Config <- DotConfig, FrontEnd <- Killing.all, Loading <- Killing.loading,
    Saving <- Killing.saving, SavingAs <- Killing.as,
    Faults <- {"open", "kill", "absent"}

LEMMA KillsSetting == KP!Setting
  BY FrontsAssumption DEF KP!Setting, Kills!OrderAssumption, KP!OrderAssumption, Kills!ConfigAssumption,
         KP!ConfigAssumption, Kills!FrontEndAssumption, KP!FrontEndAssumption, Kills!Symbol, KP!Symbol,
         Kills!Range, KP!Range

LEMMA KillsInit == Kills!Init => KP!Init
  BY DEF Kills!Init, KP!Init, Kills!Files, KP!Files, Kills!NoFile, KP!NoFile, Kills!Symbol, KP!Symbol,
         Kills!Nothing, KP!Nothing, Kills!File, KP!File, Kills!Lines, KP!Lines, Kills!Value, KP!Value,
         Kills!Range, KP!Range

LEMMA Killsvars == Kills!vars = KP!vars
  BY DEF Kills!vars, KP!vars, Kills!disk, KP!disk, Kills!symbols, KP!symbols

LEMMA KillsSavedIsWhole == Kills!SavedIsWhole <=> KP!SavedIsWhole
  BY DEF Kills!SavedIsWhole, KP!SavedIsWhole, Kills!Nothing, KP!Nothing, Kills!File, KP!File

LEMMA KillsNothingLost == Kills!NothingLost <=> KP!NothingLost
  BY DEF Kills!NothingLost, KP!NothingLost, Kills!Kept, KP!Kept, Kills!File, KP!File, Kills!Lines, KP!Lines

LEMMA KillsAskedFirst == Kills!AskedFirst <=> KP!AskedFirst
  BY DEF Kills!AskedFirst, KP!AskedFirst, Kills!Kept, KP!Kept, Kills!File, KP!File, Kills!Lines,
         KP!Lines

LEMMA KillsKillLeavesOne == Kills!KillLeavesOne <=> KP!KillLeavesOne
  BY DEF Kills!KillLeavesOne, KP!KillLeavesOne

LEMMA KillsNext == Kills!Next => KP!Next
<1> SUFFICES ASSUME Kills!Next PROVE KP!Next
  OBVIOUS
<1>1. Kills!Start => KP!Start
  BY DEF Kills!Start, KP!Start, Kills!ReadFile, KP!ReadFile, Kills!Symbol, KP!Symbol, Kills!Nothing,
         KP!Nothing, Kills!disk, KP!disk, Kills!ValueIn, KP!ValueIn, Kills!Range, KP!Range
<1>2. Kills!Draw => KP!Draw
  BY DEF Kills!Draw, KP!Draw, Kills!Symbol, KP!Symbol, Kills!disk, KP!disk, Kills!Range, KP!Range
<1>3. Kills!Edit => KP!Edit
  BY DEF Kills!Edit, KP!Edit, Kills!Value, KP!Value, Kills!disk, KP!disk
<1>4. Kills!Save => KP!Save
  BY DEF Kills!Save, KP!Save, Kills!BeginWrite, KP!BeginWrite, Kills!Terminal, KP!Terminal, Kills!File,
         KP!File, Kills!Frame, KP!Frame, Kills!Nothing, KP!Nothing
<1>5. Kills!OpenFails => KP!OpenFails
  BY DEF Kills!OpenFails, KP!OpenFails, Kills!vars, KP!vars, Kills!disk, KP!disk, Kills!symbols, KP!symbols
<1>6. Kills!WriteNext => KP!WriteNext
  BY DEF Kills!WriteNext, KP!WriteNext, Kills!Top, KP!Top, Kills!disk, KP!disk
<1>7. Kills!Close => KP!Close
  BY DEF Kills!Close, KP!Close, Kills!Top, KP!Top, Kills!File, KP!File, Kills!symbols, KP!symbols
<1>8. Kills!RenameOld => KP!RenameOld
  BY DEF Kills!RenameOld, KP!RenameOld, Kills!Top, KP!Top, Kills!NoFile, KP!NoFile, Kills!symbols, KP!symbols
<1>9. Kills!RenameNew => KP!RenameNew
  BY DEF Kills!RenameNew, KP!RenameNew, Kills!Top, KP!Top, Kills!Flushed, KP!Flushed, Kills!NoFile, KP!NoFile,
         Kills!Lines, KP!Lines, Kills!Terminal, KP!Terminal, Kills!Return, KP!Return, Kills!File, KP!File
<1>10. Kills!RenameFails => KP!RenameFails
  BY DEF Kills!RenameFails, KP!RenameFails, Kills!Top, KP!Top, Kills!Return, KP!Return, Kills!disk, KP!disk,
         Kills!symbols, KP!symbols
<1>11. Kills!Quit => KP!Quit
  BY DEF Kills!Quit, KP!Quit, Kills!disk, KP!disk, Kills!symbols, KP!symbols
<1>12. Kills!AnswerYes => KP!AnswerYes
  BY DEF Kills!AnswerYes, KP!AnswerYes, Kills!BeginWrite, KP!BeginWrite, Kills!File, KP!File, Kills!Frame,
         KP!Frame, Kills!Nothing, KP!Nothing
<1>13. Kills!AnswerNo => KP!AnswerNo
  BY DEF Kills!AnswerNo, KP!AnswerNo, Kills!disk, KP!disk, Kills!symbols, KP!symbols
<1>14. Kills!Escape => KP!Escape
  BY DEF Kills!Escape, KP!Escape, Kills!disk, KP!disk, Kills!symbols, KP!symbols
<1>15. Kills!Signal => KP!Signal
  BY DEF Kills!Signal, KP!Signal, Kills!disk, KP!disk, Kills!symbols, KP!symbols
<1>16. Kills!Kill => KP!Kill
  BY DEF Kills!Kill, KP!Kill, Kills!NoFile, KP!NoFile, Kills!Symbol, KP!Symbol, Kills!Nothing, KP!Nothing,
         Kills!Range, KP!Range
<1>17. ASSUME NEW n \in Name, Kills!Load(n) PROVE KP!Load(n)
  BY <1>17 DEF Kills!Load, KP!Load, Kills!Symbol, KP!Symbol, Kills!ValueIn, KP!ValueIn, Kills!Terminal,
               KP!Terminal, Kills!Range, KP!Range, Kills!disk, KP!disk
<1>18. ASSUME NEW n \in Name, Kills!LoadFails(n) PROVE KP!LoadFails(n)
  BY <1>18 DEF Kills!LoadFails, KP!LoadFails, Kills!disk, KP!disk
<1>19. ASSUME NEW n \in Name, Kills!SaveAs(n) PROVE KP!SaveAs(n)
  BY <1>19 DEF Kills!SaveAs, KP!SaveAs, Kills!BeginWrite, KP!BeginWrite, Kills!File, KP!File, Kills!Frame,
               KP!Frame, Kills!Nothing, KP!Nothing
<1> QED BY <1>1, <1>2, <1>3, <1>4, <1>5, <1>6, <1>7, <1>8, <1>9, <1>10, <1>11, <1>12, <1>13, <1>14, <1>15,
           <1>16, <1>17, <1>18, <1>19 DEF Kills!Next, KP!Next

SP == INSTANCE KFront_proofs WITH
    Config <- DotConfig, FrontEnd <- Signalling.all, Loading <- Signalling.loading,
    Saving <- Signalling.saving, SavingAs <- Signalling.as,
    Faults <- {"signal"}

LEMMA SignalsSetting == SP!Setting
  BY FrontsAssumption DEF SP!Setting, Kills!OrderAssumption, Signals!OrderAssumption, SP!OrderAssumption,
         Kills!ConfigAssumption, Signals!ConfigAssumption, SP!ConfigAssumption, Kills!FrontEndAssumption,
         Signals!FrontEndAssumption, SP!FrontEndAssumption, Kills!Symbol, Signals!Symbol, SP!Symbol,
         Kills!Range, Signals!Range, SP!Range

LEMMA SignalsInit == Signals!Init => SP!Init
  BY DEF Signals!Init, SP!Init, Signals!Files, SP!Files, Signals!NoFile, SP!NoFile, Signals!Symbol, SP!Symbol,
         Signals!Nothing, SP!Nothing, Signals!File, SP!File, Signals!Lines, SP!Lines, Signals!Value, SP!Value,
         Signals!Range, SP!Range

LEMMA Signalsvars == Signals!vars = SP!vars
  BY DEF Signals!vars, SP!vars, Signals!disk, SP!disk, Signals!symbols, SP!symbols

LEMMA SignalsAskedFirst == Signals!AskedFirst <=> SP!AskedFirst
  BY DEF Signals!AskedFirst, SP!AskedFirst, Signals!Kept, SP!Kept, Signals!File, SP!File, Signals!Lines,
         SP!Lines

LEMMA SignalsNext == Signals!Next => SP!Next
<1> SUFFICES ASSUME Signals!Next PROVE SP!Next
  OBVIOUS
<1>1. Signals!Start => SP!Start
  BY DEF Signals!Start, SP!Start, Signals!ReadFile, SP!ReadFile, Signals!Symbol, SP!Symbol, Signals!Nothing,
         SP!Nothing, Signals!disk, SP!disk, Signals!ValueIn, SP!ValueIn, Signals!Range, SP!Range
<1>2. Signals!Draw => SP!Draw
  BY DEF Signals!Draw, SP!Draw, Signals!Symbol, SP!Symbol, Signals!disk, SP!disk, Signals!Range, SP!Range
<1>3. Signals!Edit => SP!Edit
  BY DEF Signals!Edit, SP!Edit, Signals!Value, SP!Value, Signals!disk, SP!disk
<1>4. Signals!Save => SP!Save
  BY DEF Signals!Save, SP!Save, Signals!BeginWrite, SP!BeginWrite, Signals!Terminal, SP!Terminal,
         Signals!File, SP!File, Signals!Frame, SP!Frame, Signals!Nothing, SP!Nothing
<1>5. Signals!OpenFails => SP!OpenFails
  BY DEF Signals!OpenFails, SP!OpenFails, Signals!vars, SP!vars, Signals!disk, SP!disk, Signals!symbols,
         SP!symbols
<1>6. Signals!WriteNext => SP!WriteNext
  BY DEF Signals!WriteNext, SP!WriteNext, Signals!Top, SP!Top, Signals!disk, SP!disk
<1>7. Signals!Close => SP!Close
  BY DEF Signals!Close, SP!Close, Signals!Top, SP!Top, Signals!File, SP!File, Signals!symbols, SP!symbols
<1>8. Signals!RenameOld => SP!RenameOld
  BY DEF Signals!RenameOld, SP!RenameOld, Signals!Top, SP!Top, Signals!NoFile, SP!NoFile, Signals!symbols,
         SP!symbols
<1>9. Signals!RenameNew => SP!RenameNew
  BY DEF Signals!RenameNew, SP!RenameNew, Signals!Top, SP!Top, Signals!Flushed, SP!Flushed, Signals!NoFile,
         SP!NoFile, Signals!Lines, SP!Lines, Signals!Terminal, SP!Terminal, Signals!Return, SP!Return,
         Signals!File, SP!File
<1>10. Signals!RenameFails => SP!RenameFails
  BY DEF Signals!RenameFails, SP!RenameFails, Signals!Top, SP!Top, Signals!Return, SP!Return, Signals!disk,
         SP!disk, Signals!symbols, SP!symbols
<1>11. Signals!Quit => SP!Quit
  BY DEF Signals!Quit, SP!Quit, Signals!disk, SP!disk, Signals!symbols, SP!symbols
<1>12. Signals!AnswerYes => SP!AnswerYes
  BY DEF Signals!AnswerYes, SP!AnswerYes, Signals!BeginWrite, SP!BeginWrite, Signals!File, SP!File,
         Signals!Frame, SP!Frame, Signals!Nothing, SP!Nothing
<1>13. Signals!AnswerNo => SP!AnswerNo
  BY DEF Signals!AnswerNo, SP!AnswerNo, Signals!disk, SP!disk, Signals!symbols, SP!symbols
<1>14. Signals!Escape => SP!Escape
  BY DEF Signals!Escape, SP!Escape, Signals!disk, SP!disk, Signals!symbols, SP!symbols
<1>15. Signals!Signal => SP!Signal
  BY DEF Signals!Signal, SP!Signal, Signals!disk, SP!disk, Signals!symbols, SP!symbols
<1>16. Signals!Kill => SP!Kill
  BY DEF Signals!Kill, SP!Kill, Signals!NoFile, SP!NoFile, Signals!Symbol, SP!Symbol, Signals!Nothing,
         SP!Nothing, Signals!Range, SP!Range
<1>17. ASSUME NEW n \in Name, Signals!Load(n) PROVE SP!Load(n)
  BY <1>17 DEF Signals!Load, SP!Load, Signals!Symbol, SP!Symbol, Signals!ValueIn, SP!ValueIn,
               Signals!Terminal, SP!Terminal, Signals!Range, SP!Range, Signals!disk, SP!disk
<1>18. ASSUME NEW n \in Name, Signals!LoadFails(n) PROVE SP!LoadFails(n)
  BY <1>18 DEF Signals!LoadFails, SP!LoadFails, Signals!disk, SP!disk
<1>19. ASSUME NEW n \in Name, Signals!SaveAs(n) PROVE SP!SaveAs(n)
  BY <1>19 DEF Signals!SaveAs, SP!SaveAs, Signals!BeginWrite, SP!BeginWrite, Signals!File, SP!File,
               Signals!Frame, SP!Frame, Signals!Nothing, SP!Nothing
<1> QED BY <1>1, <1>2, <1>3, <1>4, <1>5, <1>6, <1>7, <1>8, <1>9, <1>10, <1>11, <1>12, <1>13, <1>14, <1>15,
           <1>16, <1>17, <1>18, <1>19 DEF Signals!Next, SP!Next

RP == INSTANCE KFront_proofs WITH
    Config <- DotConfig, FrontEnd <- Renaming.all, Loading <- Renaming.loading,
    Saving <- Renaming.saving, SavingAs <- Renaming.as,
    Faults <- {"rename"}

LEMMA RenamesSetting == RP!Setting
  BY FrontsAssumption DEF RP!Setting, Kills!OrderAssumption, Renames!OrderAssumption, RP!OrderAssumption,
         Kills!ConfigAssumption, Renames!ConfigAssumption, RP!ConfigAssumption, Kills!FrontEndAssumption,
         Renames!FrontEndAssumption, RP!FrontEndAssumption, Kills!Symbol, Renames!Symbol, RP!Symbol,
         Kills!Range, Renames!Range, RP!Range

LEMMA RenamesInit == Renames!Init => RP!Init
  BY DEF Renames!Init, RP!Init, Renames!Files, RP!Files, Renames!NoFile, RP!NoFile, Renames!Symbol, RP!Symbol,
         Renames!Nothing, RP!Nothing, Renames!File, RP!File, Renames!Lines, RP!Lines, Renames!Value, RP!Value,
         Renames!Range, RP!Range

LEMMA Renamesvars == Renames!vars = RP!vars
  BY DEF Renames!vars, RP!vars, Renames!disk, RP!disk, Renames!symbols, RP!symbols

LEMMA RenamesAskedFirst == Renames!AskedFirst <=> RP!AskedFirst
  BY DEF Renames!AskedFirst, RP!AskedFirst, Renames!Kept, RP!Kept, Renames!File, RP!File, Renames!Lines,
         RP!Lines

LEMMA RenamesNothingLost == Renames!NothingLost <=> RP!NothingLost
  BY DEF Renames!NothingLost, RP!NothingLost, Renames!Kept, RP!Kept, Renames!File, RP!File, Renames!Lines,
         RP!Lines

LEMMA RenamesKillLeavesOne == Renames!KillLeavesOne <=> RP!KillLeavesOne
  BY DEF Renames!KillLeavesOne, RP!KillLeavesOne

LEMMA RenamesNext == Renames!Next => RP!Next
<1> SUFFICES ASSUME Renames!Next PROVE RP!Next
  OBVIOUS
<1>1. Renames!Start => RP!Start
  BY DEF Renames!Start, RP!Start, Renames!ReadFile, RP!ReadFile, Renames!Symbol, RP!Symbol, Renames!Nothing,
         RP!Nothing, Renames!disk, RP!disk, Renames!ValueIn, RP!ValueIn, Renames!Range, RP!Range
<1>2. Renames!Draw => RP!Draw
  BY DEF Renames!Draw, RP!Draw, Renames!Symbol, RP!Symbol, Renames!disk, RP!disk, Renames!Range, RP!Range
<1>3. Renames!Edit => RP!Edit
  BY DEF Renames!Edit, RP!Edit, Renames!Value, RP!Value, Renames!disk, RP!disk
<1>4. Renames!Save => RP!Save
  BY DEF Renames!Save, RP!Save, Renames!BeginWrite, RP!BeginWrite, Renames!Terminal, RP!Terminal,
         Renames!File, RP!File, Renames!Frame, RP!Frame, Renames!Nothing, RP!Nothing
<1>5. Renames!OpenFails => RP!OpenFails
  BY DEF Renames!OpenFails, RP!OpenFails, Renames!vars, RP!vars, Renames!disk, RP!disk, Renames!symbols,
         RP!symbols
<1>6. Renames!WriteNext => RP!WriteNext
  BY DEF Renames!WriteNext, RP!WriteNext, Renames!Top, RP!Top, Renames!disk, RP!disk
<1>7. Renames!Close => RP!Close
  BY DEF Renames!Close, RP!Close, Renames!Top, RP!Top, Renames!File, RP!File, Renames!symbols, RP!symbols
<1>8. Renames!RenameOld => RP!RenameOld
  BY DEF Renames!RenameOld, RP!RenameOld, Renames!Top, RP!Top, Renames!NoFile, RP!NoFile, Renames!symbols,
         RP!symbols
<1>9. Renames!RenameNew => RP!RenameNew
  BY DEF Renames!RenameNew, RP!RenameNew, Renames!Top, RP!Top, Renames!Flushed, RP!Flushed, Renames!NoFile,
         RP!NoFile, Renames!Lines, RP!Lines, Renames!Terminal, RP!Terminal, Renames!Return, RP!Return,
         Renames!File, RP!File
<1>10. Renames!RenameFails => RP!RenameFails
  BY DEF Renames!RenameFails, RP!RenameFails, Renames!Top, RP!Top, Renames!Return, RP!Return, Renames!disk,
         RP!disk, Renames!symbols, RP!symbols
<1>11. Renames!Quit => RP!Quit
  BY DEF Renames!Quit, RP!Quit, Renames!disk, RP!disk, Renames!symbols, RP!symbols
<1>12. Renames!AnswerYes => RP!AnswerYes
  BY DEF Renames!AnswerYes, RP!AnswerYes, Renames!BeginWrite, RP!BeginWrite, Renames!File, RP!File,
         Renames!Frame, RP!Frame, Renames!Nothing, RP!Nothing
<1>13. Renames!AnswerNo => RP!AnswerNo
  BY DEF Renames!AnswerNo, RP!AnswerNo, Renames!disk, RP!disk, Renames!symbols, RP!symbols
<1>14. Renames!Escape => RP!Escape
  BY DEF Renames!Escape, RP!Escape, Renames!disk, RP!disk, Renames!symbols, RP!symbols
<1>15. Renames!Signal => RP!Signal
  BY DEF Renames!Signal, RP!Signal, Renames!disk, RP!disk, Renames!symbols, RP!symbols
<1>16. Renames!Kill => RP!Kill
  BY DEF Renames!Kill, RP!Kill, Renames!NoFile, RP!NoFile, Renames!Symbol, RP!Symbol, Renames!Nothing,
         RP!Nothing, Renames!Range, RP!Range
<1>17. ASSUME NEW n \in Name, Renames!Load(n) PROVE RP!Load(n)
  BY <1>17 DEF Renames!Load, RP!Load, Renames!Symbol, RP!Symbol, Renames!ValueIn, RP!ValueIn,
               Renames!Terminal, RP!Terminal, Renames!Range, RP!Range, Renames!disk, RP!disk
<1>18. ASSUME NEW n \in Name, Renames!LoadFails(n) PROVE RP!LoadFails(n)
  BY <1>18 DEF Renames!LoadFails, RP!LoadFails, Renames!disk, RP!disk
<1>19. ASSUME NEW n \in Name, Renames!SaveAs(n) PROVE RP!SaveAs(n)
  BY <1>19 DEF Renames!SaveAs, RP!SaveAs, Renames!BeginWrite, RP!BeginWrite, Renames!File, RP!File,
               Renames!Frame, RP!Frame, Renames!Nothing, RP!Nothing
<1> QED BY <1>1, <1>2, <1>3, <1>4, <1>5, <1>6, <1>7, <1>8, <1>9, <1>10, <1>11, <1>12, <1>13, <1>14, <1>15,
           <1>16, <1>17, <1>18, <1>19 DEF Renames!Next, RP!Next

-----------------------------------------------------------------------------
(***************************************************************************)
(* All together: a behaviour of KDisk is one of the component it is about. *)
(***************************************************************************)
LEMMA WhatStays == [Next]_vars => what' = what
  BY DEF Next, NextMenu, NextText, NextPick, NextInput, NextForm, NextKills, NextSignals, NextRenames,
     NextMake, vars

LEMMA MenusStep == [Next]_vars /\ what = "menu" => [Menus!Next]_Menus!vars /\ (what = "menu")'
<1> SUFFICES ASSUME [Next]_vars, what = "menu" PROVE [Menus!Next]_Menus!vars
  BY WhatStays
<1>1. CASE NextMenu
  BY <1>1 DEF NextMenu
<1>2. CASE UNCHANGED vars
  BY <1>2 DEF vars, session, boxes, menus, Menus!vars, Menus!place
<1> QED BY <1>1, <1>2 DEF Next, NextText, NextPick, NextInput, NextForm, NextMake, NextKills, NextSignals,
           NextRenames

LEMMA MenusOnly == Spec /\ what = "menu" => Menus!Spec
<1>1. Init /\ what = "menu" => Menus!Init
  BY DEF Init
<1> QED BY <1>1, MenusStep, PTL DEF Spec, Menus!Spec

LEMMA MenusNever == [Next]_vars /\ ~(what = "menu") => ~(what = "menu")'
  BY WhatStays

LEMMA TextsStep == [Next]_vars /\ what = "text" => [Texts!Next]_Texts!vars /\ (what = "text")'
<1> SUFFICES ASSUME [Next]_vars, what = "text" PROVE [Texts!Next]_Texts!vars
  BY WhatStays
<1>1. CASE NextText
  BY <1>1 DEF NextText
<1>2. CASE UNCHANGED vars
  BY <1>2 DEF vars, boxes, texts, Texts!vars, Texts!view
<1> QED BY <1>1, <1>2 DEF Next, NextMenu, NextPick, NextInput, NextForm, NextMake, NextKills, NextSignals,
           NextRenames

LEMMA TextsOnly == Spec /\ what = "text" => Texts!Spec
<1>1. Init /\ what = "text" => Texts!Init
  BY DEF Init
<1> QED BY <1>1, TextsStep, PTL DEF Spec, Texts!Spec

LEMMA TextsNever == [Next]_vars /\ ~(what = "text") => ~(what = "text")'
  BY WhatStays

LEMMA PickStep == [Next]_vars /\ what = "pick" => [Pick!Next]_Pick!vars /\ (what = "pick")'
<1> SUFFICES ASSUME [Next]_vars, what = "pick" PROVE [Pick!Next]_Pick!vars
  BY WhatStays
<1>1. CASE NextPick
  BY <1>1 DEF NextPick
<1>2. CASE UNCHANGED vars
  BY <1>2 DEF vars, boxes, Pick!vars
<1> QED BY <1>1, <1>2 DEF Next, NextMenu, NextText, NextInput, NextForm, NextMake, NextKills, NextSignals,
           NextRenames

LEMMA PickOnly == Spec /\ what = "pick" => Pick!Spec
<1>1. Init /\ what = "pick" => Pick!Init
  BY DEF Init
<1> QED BY <1>1, PickStep, PTL DEF Spec, Pick!Spec

LEMMA PickNever == [Next]_vars /\ ~(what = "pick") => ~(what = "pick")'
  BY WhatStays

LEMMA InputStep == [Next]_vars /\ what = "input" => [Input!Next]_Input!vars /\ (what = "input")'
<1> SUFFICES ASSUME [Next]_vars, what = "input" PROVE [Input!Next]_Input!vars
  BY WhatStays
<1>1. CASE NextInput
  BY <1>1 DEF NextInput
<1>2. CASE UNCHANGED vars
  BY <1>2 DEF vars, boxes, fields, Input!vars, Input!field
<1> QED BY <1>1, <1>2 DEF Next, NextMenu, NextText, NextPick, NextForm, NextMake, NextKills, NextSignals,
           NextRenames

LEMMA InputOnly == Spec /\ what = "input" => Input!Spec
<1>1. Init /\ what = "input" => Input!Init
  BY DEF Init
<1> QED BY <1>1, InputStep, PTL DEF Spec, Input!Spec

LEMMA InputNever == [Next]_vars /\ ~(what = "input") => ~(what = "input")'
  BY WhatStays

LEMMA FormStep == [Next]_vars /\ what = "form" => [Form!Next]_Form!vars /\ (what = "form")'
<1> SUFFICES ASSUME [Next]_vars, what = "form" PROVE [Form!Next]_Form!vars
  BY WhatStays
<1>1. CASE NextForm
  BY <1>1 DEF NextForm
<1>2. CASE UNCHANGED vars
  BY <1>2 DEF vars, boxes, forms, Form!vars
<1> QED BY <1>1, <1>2 DEF Next, NextMenu, NextText, NextPick, NextInput, NextMake, NextKills, NextSignals,
           NextRenames

LEMMA FormOnly == Spec /\ what = "form" => Form!Spec
<1>1. Init /\ what = "form" => Form!Init
  BY DEF Init
<1> QED BY <1>1, FormStep, PTL DEF Spec, Form!Spec

LEMMA FormNever == [Next]_vars /\ ~(what = "form") => ~(what = "form")'
  BY WhatStays

LEMMA DerivesStep == [Next]_vars /\ what = "make" => [Derives!Next]_Derives!vars /\ (what = "make")'
<1> SUFFICES ASSUME [Next]_vars, what = "make" PROVE [Derives!Next]_Derives!vars
  BY WhatStays
<1>1. CASE NextMake
  BY <1>1 DEF NextMake
<1>2. CASE UNCHANGED vars
  BY <1>2 DEF vars, run, derived, Derives!vars
<1> QED BY <1>1, <1>2 DEF Next, NextMenu, NextText, NextPick, NextInput, NextForm, NextKills, NextSignals,
           NextRenames

LEMMA DerivesOnly == Spec /\ what = "make" => Derives!Spec
<1>1. Init /\ what = "make" => Derives!Init
  BY DEF Init
<1> QED BY <1>1, DerivesStep, PTL DEF Spec, Derives!Spec

LEMMA DerivesNever == [Next]_vars /\ ~(what = "make") => ~(what = "make")'
  BY WhatStays

LEMMA KillsStep == [Next]_vars /\ what = "kills" => [KP!Next]_KP!vars /\ (what = "kills")'
<1> SUFFICES ASSUME [Next]_vars, what = "kills" PROVE [KP!Next]_KP!vars
  BY WhatStays
<1>1. CASE NextKills
  BY <1>1, KillsNext DEF NextKills
<1>2. CASE UNCHANGED vars
  BY <1>2 DEF vars, run, session, others, KP!vars, KP!disk, KP!symbols
<1> QED BY <1>1, <1>2 DEF Next, NextMenu, NextText, NextPick, NextInput, NextForm, NextMake, NextSignals,
           NextRenames

LEMMA KillsOnly == Spec /\ what = "kills" => KP!Spec
<1>1. Init /\ what = "kills" => KP!Init
  BY KillsInit DEF Init
<1> QED BY <1>1, KillsStep, PTL DEF Spec, KP!Spec

LEMMA KillsNever == [Next]_vars /\ ~(what = "kills") => ~(what = "kills")'
  BY WhatStays

LEMMA SignalsStep == [Next]_vars /\ what = "signals" => [SP!Next]_SP!vars /\ (what = "signals")'
<1> SUFFICES ASSUME [Next]_vars, what = "signals" PROVE [SP!Next]_SP!vars
  BY WhatStays
<1>1. CASE NextSignals
  BY <1>1, SignalsNext DEF NextSignals
<1>2. CASE UNCHANGED vars
  BY <1>2 DEF vars, run, session, others, SP!vars, SP!disk, SP!symbols
<1> QED BY <1>1, <1>2 DEF Next, NextMenu, NextText, NextPick, NextInput, NextForm, NextMake, NextKills,
           NextRenames

LEMMA SignalsOnly == Spec /\ what = "signals" => SP!Spec
<1>1. Init /\ what = "signals" => SP!Init
  BY SignalsInit DEF Init
<1> QED BY <1>1, SignalsStep, PTL DEF Spec, SP!Spec

LEMMA SignalsNever == [Next]_vars /\ ~(what = "signals") => ~(what = "signals")'
  BY WhatStays

LEMMA RenamesStep == [Next]_vars /\ what = "renames" => [RP!Next]_RP!vars /\ (what = "renames")'
<1> SUFFICES ASSUME [Next]_vars, what = "renames" PROVE [RP!Next]_RP!vars
  BY WhatStays
<1>1. CASE NextRenames
  BY <1>1, RenamesNext DEF NextRenames
<1>2. CASE UNCHANGED vars
  BY <1>2 DEF vars, run, session, others, RP!vars, RP!disk, RP!symbols
<1> QED BY <1>1, <1>2 DEF Next, NextMenu, NextText, NextPick, NextInput, NextForm, NextMake, NextKills,
           NextSignals

LEMMA RenamesOnly == Spec /\ what = "renames" => RP!Spec
<1>1. Init /\ what = "renames" => RP!Init
  BY RenamesInit DEF Init
<1> QED BY <1>1, RenamesStep, PTL DEF Spec, RP!Spec

LEMMA RenamesNever == [Next]_vars /\ ~(what = "renames") => ~(what = "renames")'
  BY WhatStays

LEMMA KillsCareful ==
    KP!Setting /\ KP!Careful /\ "signal" \notin {"open", "kill", "absent"} /\ "qconf" \notin Killing.as
  BY KillsSetting, SavesAssumption DEF KP!Careful

LEMMA SignalsCareful == SP!Setting /\ SP!Careful
  BY SignalsSetting DEF SP!Careful

LEMMA RenamesCareful == RP!Setting /\ RP!Careful /\ "signal" \notin {"rename"}
  BY RenamesSetting, SavesAssumption DEF RP!Careful

\* conf_write: what the user is told was written is in the file, with all the
\* values he saw, whatever was loaded, edited, killed or could not be opened.
THEOREM SavedIsThere == Spec => []SavedIsWhole
<1>1. KP!Spec => []KP!SavedIsWhole
  BY KillsCareful, KP!Saved
<1>2. KP!SavedIsWhole => SavedIsWhole
  BY KillsSavedIsWhole DEF SavedIsWhole
<1>3. ~(what = "kills") => SavedIsWhole
  BY DEF SavedIsWhole
<1> QED BY <1>1, <1>2, <1>3, KillsOnly, KillsNever, PTL DEF Spec

\* What is edited, loaded and saved is in a file when a front end lets the user
\* quit without asking (sym_change_count of confdata.c), whatever is killed,
\* fails or is interrupted by SIGINT, unless all it did since was to look for a
\* file that is not there; and, where there is no SIGINT, when it has said that
\* it saved.
THEOREM EditsKept == Spec => []EditsAreKept
<1>1. Spec => [](what = "kills" => Kills!AskedFirst /\ Kills!NothingLost)
  <2>1. KP!Spec => [](KP!AskedFirst /\ KP!NothingLost)
    BY KillsCareful, KP!Asked, KP!NotLost, PTL
  <2>2. KP!AskedFirst /\ KP!NothingLost => Kills!AskedFirst /\ Kills!NothingLost
    BY KillsAskedFirst, KillsNothingLost
  <2> QED BY <2>1, <2>2, KillsOnly, KillsNever, PTL DEF Spec
<1>2. Spec => [](what = "renames" => Renames!AskedFirst /\ Renames!NothingLost)
  <2>1. RP!Spec => [](RP!AskedFirst /\ RP!NothingLost)
    BY RenamesCareful, RP!Asked, RP!NotLost, PTL
  <2>2. RP!AskedFirst /\ RP!NothingLost => Renames!AskedFirst /\ Renames!NothingLost
    BY RenamesAskedFirst, RenamesNothingLost
  <2> QED BY <2>1, <2>2, RenamesOnly, RenamesNever, PTL DEF Spec
<1>3. Spec => [](what = "signals" => Signals!AskedFirst)
  <2>1. SP!Spec => []SP!AskedFirst
    BY SignalsCareful, SP!Asked
  <2>2. SP!AskedFirst => Signals!AskedFirst
    BY SignalsAskedFirst
  <2> QED BY <2>1, <2>2, SignalsOnly, SignalsNever, PTL DEF Spec
<1> QED BY <1>1, <1>2, <1>3, PTL DEF EditsAreKept

\* The order of the renames at the end of conf_write leaves a whole .config or
\* a whole .config.old, wherever it is killed, and where a rename fails.
THEOREM OneIsLeft == Spec => []KillLeavesOne
<1>1. KP!Spec => []KP!KillLeavesOne
  BY KillsCareful, KP!OneLeft
<1>2. RP!Spec => []RP!KillLeavesOne
  BY RenamesCareful, RP!OneLeft
<1>3. KP!KillLeavesOne => Kills!KillLeavesOne
  BY KillsKillLeavesOne
<1>4. RP!KillLeavesOne => Renames!KillLeavesOne
  BY RenamesKillLeavesOne
<1>5. Spec => [](what = "kills" => Kills!KillLeavesOne)
  BY <1>1, <1>3, KillsOnly, KillsNever, PTL DEF Spec
<1>6. Spec => [](what = "renames" => Renames!KillLeavesOne)
  BY <1>2, <1>4, RenamesOnly, RenamesNever, PTL DEF Spec
<1> QED BY <1>5, <1>6, PTL DEF KillLeavesOne

\* make takes auto.conf for up to date only if it says what .config does, and
\* compiles again whatever is for another value than it says
\* (conf_split_config, conf_write_autoconf).
THEOREM DerivedCurrent == Spec => []DerivedIsCurrent
<1>1. MakeSetting
  BY MakeAssumption DEF MakeSetting
<1>2. Derives!Spec => []Derives!DerivedIsCurrent
  BY <1>1, MakeIsCurrent
<1>3. Derives!DerivedIsCurrent => DerivedIsCurrent
  BY DEF DerivedIsCurrent
<1>4. ~(what = "make") => DerivedIsCurrent
  BY DEF DerivedIsCurrent
<1> QED BY <1>2, <1>3, <1>4, DerivesOnly, DerivesNever, PTL DEF Spec

LEMMA Settings == MenuSetting /\ TextSetting /\ PickSetting
  BY MenusAssumption, TextsAssumption, PickAssumption DEF MenuSetting, TextSetting, PickSetting

\* The rows of menus, of texts and of a choice, and the cells of the fields,
\* show what they are about, after any keys and any changes of size.
THEOREM ScreenRight == Spec => []ScreenIsRight
<1>1. Menus!Spec => []Menus!RowsShowItems
  BY Settings, MenuRowsShowItems
<1>2. Texts!Spec => []Texts!TextInView
  BY Settings, TextIsInView
<1>3. Pick!Spec => []Pick!ListInView
  BY Settings, PickListInView
<1>4. Input!Spec => []Input!InputInView
  BY InputAssumption, InputFieldInView
<1>5. Form!Spec => []Form!FormInView
  BY FormAssumption, FormFieldInView
<1>6. Spec => [](what = "menu" => Menus!RowsShowItems)
  BY <1>1, MenusOnly, MenusNever, PTL DEF Spec
<1>7. Spec => [](what = "text" => Texts!TextInView)
  BY <1>2, TextsOnly, TextsNever, PTL DEF Spec
<1>8. Spec => [](what = "pick" => Pick!ListInView)
  BY <1>3, PickOnly, PickNever, PTL DEF Spec
<1>9. Spec => [](what = "input" => Input!InputInView)
  BY <1>4, InputOnly, InputNever, PTL DEF Spec
<1>10. Spec => [](what = "form" => Form!FormInView)
  BY <1>5, FormOnly, FormNever, PTL DEF Spec
<1> QED BY <1>6, <1>7, <1>8, <1>9, <1>10, PTL DEF ScreenIsRight

LEMMA MenusSame == [Next]_vars /\ what = "menu" /\ UNCHANGED Menus!vars => UNCHANGED vars
<1> SUFFICES ASSUME NextMenu, UNCHANGED Menus!vars PROVE UNCHANGED vars
  BY DEF Next, NextText, NextPick, NextInput, NextForm, NextMake, NextKills, NextSignals, NextRenames
<1> QED BY DEF NextMenu, vars, Menus!vars, Menus!place, session, boxes, menus

LEMMA TextsSame == [Next]_vars /\ what = "text" /\ UNCHANGED Texts!vars => UNCHANGED vars
<1> SUFFICES ASSUME NextText, UNCHANGED Texts!vars PROVE UNCHANGED vars
  BY DEF Next, NextMenu, NextPick, NextInput, NextForm, NextMake, NextKills, NextSignals, NextRenames
<1> QED BY DEF NextText, vars, Texts!vars, Texts!view, session, boxes, texts

LEMMA PickSame == [Next]_vars /\ what = "pick" /\ UNCHANGED Pick!vars => UNCHANGED vars
<1> SUFFICES ASSUME NextPick, UNCHANGED Pick!vars PROVE UNCHANGED vars
  BY DEF Next, NextMenu, NextText, NextInput, NextForm, NextMake, NextKills, NextSignals, NextRenames
<1> QED BY DEF NextPick, vars, Pick!vars, session, boxes

LEMMA InputIsSame == Input!Spec => [][Input!Entry!Next]_Input!Entry!vars
<1>1. Input!DigitsAssumption
  BY InputAssumption
<1> QED BY <1>1, InputIsEntry, PTL DEF Input!Entry!Spec

LEMMA FormIsSame == Form!Spec => [][Form!Entry!Next]_Form!Entry!vars
<1>1. Form!DigitsAssumption
  BY FormAssumption
<1> QED BY <1>1, FormIsEntry, PTL DEF Form!Entry!Spec

\* A key does what its name says to what is on the screen, and what is set is
\* what was highlit; both fields are the one of KEntry (dialog_menu,
\* dialog_textbox, dialog_checklist, dialog_inputbox; nconf's inputbox).
THEOREM KeysAsSeen == Spec => KeysDoAsSeen
<1>1. Menus!Spec => [][Menus!HighlightStays]_Menus!vars
  BY Settings, MenuHighlightStays
<1>2. Texts!Spec => [][Texts!TextMoves]_Texts!vars
  BY Settings, TextMovesAsTold
<1>3. Pick!Spec => [][Pick!PickIsHighlit]_Pick!vars
  BY Settings, PickIsAsSeen
<1>4. [Next]_vars /\ what = "menu" /\ [Menus!HighlightStays]_Menus!vars
        => [what = "menu" => Menus!HighlightStays]_vars
  BY MenusSame
<1>5. ~(what = "menu") => [what = "menu" => Menus!HighlightStays]_vars
  OBVIOUS
<1>6. Spec => [][what = "menu" => Menus!HighlightStays]_vars
  BY <1>1, <1>4, <1>5, MenusStep, MenusOnly, MenusNever, PTL DEF Spec
<1>7. [Next]_vars /\ what = "text" /\ [Texts!TextMoves]_Texts!vars
        => [what = "text" => Texts!TextMoves]_vars
  BY TextsSame
<1>8. ~(what = "text") => [what = "text" => Texts!TextMoves]_vars
  OBVIOUS
<1>9. Spec => [][what = "text" => Texts!TextMoves]_vars
  BY <1>2, <1>7, <1>8, TextsStep, TextsOnly, TextsNever, PTL DEF Spec
<1>10. [Next]_vars /\ what = "pick" /\ [Pick!PickIsHighlit]_Pick!vars
        => [what = "pick" => Pick!PickIsHighlit]_vars
  BY PickSame
<1>11. ~(what = "pick") => [what = "pick" => Pick!PickIsHighlit]_vars
  OBVIOUS
<1>12. Spec => [][what = "pick" => Pick!PickIsHighlit]_vars
  BY <1>3, <1>10, <1>11, PickStep, PickOnly, PickNever, PTL DEF Spec
<1>13. [Input!Entry!Next]_Input!Entry!vars
        => [what = "input" => Input!Entry!Next \/ UNCHANGED Input!Entry!vars]_vars
  OBVIOUS
<1>14. ~(what = "input") => [what = "input" => Input!Entry!Next \/ UNCHANGED Input!Entry!vars]_vars
  OBVIOUS
<1>15. Spec => [][what = "input" => Input!Entry!Next \/ UNCHANGED Input!Entry!vars]_vars
  BY InputIsSame, <1>13, <1>14, InputStep, InputOnly, InputNever, PTL DEF Spec
<1>16. [Form!Entry!Next]_Form!Entry!vars
        => [what = "form" => Form!Entry!Next \/ UNCHANGED Form!Entry!vars]_vars
  OBVIOUS
<1>17. ~(what = "form") => [what = "form" => Form!Entry!Next \/ UNCHANGED Form!Entry!vars]_vars
  OBVIOUS
<1>18. Spec => [][what = "form" => Form!Entry!Next \/ UNCHANGED Form!Entry!vars]_vars
  BY FormIsSame, <1>16, <1>17, FormStep, FormOnly, FormNever, PTL DEF Spec
<1> QED BY <1>6, <1>9, <1>12, <1>15, <1>18, PTL DEF KeysDoAsSeen
=============================================================================
