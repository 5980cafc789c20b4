---------------------------- MODULE KFront_proofs ----------------------------
(***************************************************************************)
(* What the front ends of kconfig do with what a user enters: for any      *)
(* number of symbols and files, any kills, and failures to open a file,    *)
(* what they save, say that they have saved, and leave behind.             *)
(***************************************************************************)
EXTENDS KFront, SequenceTheorems, TLAPS

Setting == OrderAssumption /\ ConfigAssumption /\ FrontEndAssumption

(***************************************************************************)
(* The disk does not get full, and where a rename may fail, every save is  *)
(* the last thing a front end does: conf_write has taken the marks from    *)
(* the symbols by then, and a second one would leave them out.             *)
(***************************************************************************)
Careful ==
    /\ "full" \notin Faults
    /\ "rename" \in Faults => Saving = {} /\ SavingAs = {} /\ "qconf" \notin FrontEnd

N == Len(Order)
Values == [Symbol -> Value]
Line == Symbol \X Value

LEMMA OrderFacts ==
    ASSUME Setting
    PROVE  /\ N \in Nat /\ DOMAIN Order = 1..N
           /\ \A i \in 1..N : Order[i] \in Symbol
           /\ \A s \in Symbol : \E i \in 1..N : Order[i] = s
           /\ \A i, j \in 1..N : Order[i] = Order[j] => i = j
<1>1. Order \in Seq(Symbol) /\ \A i, j \in DOMAIN Order : Order[i] = Order[j] => i = j
    BY DEF Setting, OrderAssumption
<1>2. N \in Nat /\ DOMAIN Order = 1..N /\ \A i \in 1..N : Order[i] \in Symbol
    BY <1>1 DEF N
<1>3. \A s \in Symbol : \E i \in DOMAIN Order : Order[i] = s
    BY DEF Symbol, Range
<1> QED BY <1>1, <1>2, <1>3

(***************************************************************************)
(* The lines of the symbols from the (a+1)st to the bth, and the symbols   *)
(* that are left after the jth.                                            *)
(***************************************************************************)
Piece(m, a, b) == [i \in 1..(b - a) |-> <<Order[a + i], m[Order[a + i]]>>]
LeftFrom(j) == [i \in 1..(N - j) |-> Order[j + i]]

LEMMA PieceIs ==
    ASSUME Setting, NEW m \in Values, NEW a \in 0..N, NEW b \in 0..N
    PROVE  /\ Piece(m, a, b) \in Seq(Line)
           /\ Len(Piece(m, a, b)) = IF b <= a THEN 0 ELSE b - a
           /\ \A i \in 1..(b - a) : Piece(m, a, b)[i] = <<Order[a + i], m[Order[a + i]]>>
           /\ b <= a => Piece(m, a, b) = <<>>
<1> DEFINE p == Piece(m, a, b)
<1>0. N \in Nat /\ \A i \in 1..N : Order[i] \in Symbol
    BY OrderFacts
<1>1. \A i \in 1..(b - a) : a + i \in 1..N /\ Order[a + i] \in Symbol /\ m[Order[a + i]] \in Value
    BY <1>0 DEF Values
<1>2. /\ DOMAIN p = 1..(b - a)
      /\ \A i \in 1..(b - a) : p[i] = <<Order[a + i], m[Order[a + i]]>>
    BY DEF Piece
<1>4. p = [i \in 1..(b - a) |-> p[i]]
    BY <1>2 DEF Piece
<1> HIDE DEF p
<1>3. ASSUME NEW i \in 1..(b - a) PROVE p[i] \in Line
    <2>1. p[i] = <<Order[a + i], m[Order[a + i]]>>
        BY <1>2
    <2>2. Order[a + i] \in Symbol /\ m[Order[a + i]] \in Value
        BY <1>1
    <2> QED BY <2>1, <2>2 DEF Line
<1>5. CASE b <= a
    <2>1. 1..(b - a) = {} /\ 1..(b - a) = 1..0
        BY <1>0, <1>5
    <2>2. p = <<>>
        BY <1>4, <2>1
    <2> QED BY <1>5, <2>1, <2>2 DEF p
<1>6. CASE ~(b <= a)
    <2>1. b - a \in Nat
        BY <1>0, <1>6
    <2>2. p \in [1..(b - a) -> Line]
        BY <1>3, <1>4
    <2>3. p \in Seq(Line) /\ Len(p) = b - a
        BY <2>1, <2>2
    <2> QED BY <1>2, <1>6, <2>3 DEF p
<1> QED BY <1>5, <1>6

LEMMA PieceGrows ==
    ASSUME Setting, NEW m \in Values, NEW a \in 0..N, NEW b \in a..(N - 1)
    PROVE  Piece(m, a, b) \o <<<<Order[b + 1], m[Order[b + 1]]>>>> = Piece(m, a, b + 1)
<1>0. N \in Nat /\ b \in 0..N /\ b + 1 \in 0..N /\ \A i \in 1..N : Order[i] \in Symbol
    BY OrderFacts
<1>1. PICK p : p = Piece(m, a, b)
    OBVIOUS
<1>2. PICK q : q = Piece(m, a, b + 1)
    OBVIOUS
<1>9. PICK c : c = b + 1
    OBVIOUS
<1>10. c \in 0..N /\ a \in Int /\ b \in Int /\ a <= b /\ c - a = (b - a) + 1 /\ b - a \in Nat
    BY <1>0, <1>9
<1>11. /\ p \in Seq(Line) /\ Len(p) = IF b <= a THEN 0 ELSE b - a
       /\ \A i \in 1..(b - a) : p[i] = <<Order[a + i], m[Order[a + i]]>>
    BY <1>0, <1>1, PieceIs
<1>12. /\ q \in Seq(Line) /\ Len(q) = IF c <= a THEN 0 ELSE c - a
       /\ \A i \in 1..(c - a) : q[i] = <<Order[a + i], m[Order[a + i]]>>
    BY <1>2, <1>9, <1>10, PieceIs
<1>3. p \in Seq(Line) /\ Len(p) = b - a /\ q \in Seq(Line) /\ Len(q) = (b - a) + 1
    BY <1>9, <1>10, <1>11, <1>12
<1>4. \A i \in 1..(b - a) : p[i] = q[i]
    <2> SUFFICES ASSUME NEW i \in 1..(b - a) PROVE p[i] = q[i]
        OBVIOUS
    <2>1. i \in 1..(c - a)
        BY <1>10
    <2> QED BY <1>11, <1>12, <2>1
<1>5. q[(b - a) + 1] = <<Order[b + 1], m[Order[b + 1]]>>
    <2>1. (b - a) + 1 \in 1..(c - a) /\ a + ((b - a) + 1) = b + 1
        BY <1>9, <1>10
    <2> QED BY <1>12, <2>1
<1>6. PICK x : x = <<Order[b + 1], m[Order[b + 1]]>>
    OBVIOUS
<1>7. x \in Line
    BY <1>0, <1>6 DEF Values, Line
<1>8. p \o <<x>> = q
    <2>1. p \o <<x>> \in Seq(Line) /\ Len(p \o <<x>>) = Len(q)
        BY <1>3, <1>7
    <2>2. \A i \in 1..Len(q) : (p \o <<x>>)[i] = q[i]
        <3> SUFFICES ASSUME NEW i \in 1..Len(q) PROVE (p \o <<x>>)[i] = q[i]
            OBVIOUS
        <3>1. CASE i \in 1..(b - a)
            BY <1>3, <1>4, <1>7, <3>1
        <3>2. CASE i = (b - a) + 1
            <4>1. (p \o <<x>>)[Len(p) + 1] = x
                BY <1>3, <1>7
            <4> QED BY <1>3, <1>5, <1>6, <3>2, <4>1
        <3> QED BY <1>3, <1>10, <3>1, <3>2
    <2> QED BY <1>3, <2>1, <2>2
<1> QED BY <1>1, <1>2, <1>6, <1>8

LEMMA PieceOfAll ==
    ASSUME Setting, NEW m \in Values
    PROVE  Piece(m, 0, N) = Lines(m) /\ Lines(m) \in Seq(Line) /\ Len(Lines(m)) = N
<1>0. N \in Nat /\ DOMAIN Order = 1..N
    BY OrderFacts
<1>1. Piece(m, 0, N) = [i \in 1..N |-> <<Order[i], m[Order[i]]>>]
    BY <1>0 DEF Piece
<1>2. Piece(m, 0, N) = Lines(m)
    BY <1>0, <1>1 DEF Lines
<1>3. 0 \in 0..N /\ N \in 0..N
    BY <1>0
<1>4. Piece(m, 0, N) \in Seq(Line) /\ Len(Piece(m, 0, N)) = IF N <= 0 THEN 0 ELSE N - 0
    BY <1>3, PieceIs
<1> QED BY <1>0, <1>2, <1>4

LEMMA LeftIs ==
    ASSUME Setting, NEW j \in 0..N
    PROVE  /\ LeftFrom(j) \in Seq(Symbol) /\ Len(LeftFrom(j)) = N - j
           /\ LeftFrom(j) = <<>> <=> j = N
           /\ j # N => Head(LeftFrom(j)) = Order[j + 1] /\ Tail(LeftFrom(j)) = LeftFrom(j + 1)
           /\ LeftFrom(0) = Order
<1>0. N \in Nat /\ DOMAIN Order = 1..N /\ Order \in Seq(Symbol) /\ \A i \in 1..N : Order[i] \in Symbol
    BY OrderFacts DEF Setting, OrderAssumption
<1>1. \A k \in 0..N : /\ LeftFrom(k) \in Seq(Symbol) /\ Len(LeftFrom(k)) = N - k
                      /\ \A i \in 1..(N - k) : LeftFrom(k)[i] = Order[k + i]
    <2> SUFFICES ASSUME NEW k \in 0..N
                 PROVE  /\ LeftFrom(k) \in Seq(Symbol) /\ Len(LeftFrom(k)) = N - k
                        /\ \A i \in 1..(N - k) : LeftFrom(k)[i] = Order[k + i]
        OBVIOUS
    <2>1. N - k \in Nat /\ \A i \in 1..(N - k) : Order[k + i] \in Symbol
        BY <1>0
    <2>2. LeftFrom(k) \in [1..(N - k) -> Symbol]
        BY <2>1 DEF LeftFrom
    <2> QED BY <2>1, <2>2 DEF LeftFrom
<1>2. LeftFrom(j) = <<>> <=> j = N
    <2>1. PICK l : l = LeftFrom(j)
        OBVIOUS
    <2>2. l \in Seq(Symbol) /\ Len(l) = N - j
        BY <1>1, <2>1
    <2>3. l = <<>> <=> Len(l) = 0
        BY <2>2
    <2> QED BY <1>0, <2>1, <2>2, <2>3
<1>3. LeftFrom(0) = Order
    <2>1. LeftFrom(0) = [i \in 1..N |-> Order[i]]
        BY <1>0 DEF LeftFrom
    <2> QED BY <1>0, <2>1
<1>4. ASSUME j # N
      PROVE  Head(LeftFrom(j)) = Order[j + 1] /\ Tail(LeftFrom(j)) = LeftFrom(j + 1)
    <2>1. PICK l : l = LeftFrom(j)
        OBVIOUS
    <2>2. PICK r : r = LeftFrom(j + 1)
        OBVIOUS
    <2>3. j + 1 \in 0..N
        BY <1>0, <1>4
    <2>4. /\ l \in Seq(Symbol) /\ Len(l) = N - j /\ \A i \in 1..(N - j) : l[i] = Order[j + i]
          /\ r \in Seq(Symbol) /\ Len(r) = N - (j + 1)
          /\ \A i \in 1..(N - (j + 1)) : r[i] = Order[(j + 1) + i]
        BY <1>1, <2>1, <2>2, <2>3
    <2>5. Len(l) # 0 /\ Head(l) = Order[j + 1]
        BY <1>0, <1>4, <2>4
    <2>6. Tail(l) \in Seq(Symbol) /\ Len(Tail(l)) = Len(r)
        BY <1>0, <1>4, <2>4
    <2>7. \A i \in 1..Len(r) : Tail(l)[i] = r[i]
        BY <1>0, <1>4, <2>4
    <2>8. Tail(l) = r
        BY <2>4, <2>6, <2>7
    <2> QED BY <2>1, <2>2, <2>5, <2>8
<1> QED BY <1>1, <1>2, <1>3, <1>4

-----------------------------------------------------------------------------
(***************************************************************************)
(* The types of the variables, and what a step does to the frames.         *)
(***************************************************************************)
FileType == [there : BOOLEAN, lines : Seq(Line)]
FrameType == [to : Name, asked : Name, why : {"save", "exit"}, stage : {"write", "old", "new"},
              left : Seq(Symbol), out : Seq(Line)]

Types ==
    /\ files \in [Name -> FileType] /\ old \in [Name -> FileType] /\ tmp \in FileType
    /\ mem \in Values /\ valid \subseteq Symbol /\ write \subseteq Symbol
    /\ changed \in BOOLEAN /\ forgotten \in BOOLEAN /\ handler \in BOOLEAN
    /\ filename \in Name /\ front \in FrontEnd
    /\ pc \in {"off", "main", "asked", "write"}
    /\ frames \in Seq(FrameType) /\ (pc = "write" => frames # <<>>)
    /\ whole \subseteq Name

LEMMA FileTyped ==
    /\ NoFile \in FileType /\ File(<<>>) \in FileType
    /\ \A l \in Seq(Line) : File(l) \in FileType
BY DEF NoFile, File, FileType

LEMMA ReadTyped ==
    ASSUME NEW l \in Seq(Line)
    PROVE  [s \in Symbol |-> ValueIn(l, s)] \in Values
<1>1. ASSUME NEW s \in Symbol PROVE ValueIn(l, s) \in Value
    <2>1. CASE \E x \in Range(l) : x[1] = s
        <3>1. (CHOOSE x \in Range(l) : x[1] = s) \in Range(l)
            BY <2>1
        <3>2. Range(l) \subseteq Line
            BY DEF Range
        <3>3. (CHOOSE x \in Range(l) : x[1] = s)[2] \in Value
            BY <3>1, <3>2 DEF Line
        <3> QED BY <2>1, <3>3 DEF ValueIn
    <2>2. CASE ~\E x \in Range(l) : x[1] = s
        BY <2>2 DEF ValueIn, Value
    <2> QED BY <2>1, <2>2
<1> QED BY <1>1 DEF Values

LEMMA FrameTyped ==
    ASSUME Setting, NEW n \in Name, NEW a \in Name, NEW w \in {"save", "exit"}
    PROVE  /\ Frame(n, a, w) \in FrameType
           /\ Frame(n, a, w).to = n /\ Frame(n, a, w).asked = a /\ Frame(n, a, w).why = w
           /\ Frame(n, a, w).stage = "write" /\ Frame(n, a, w).left = Order
           /\ Frame(n, a, w).out = <<>>
<1>1. Order \in Seq(Symbol) /\ <<>> \in Seq(Line)
    BY DEF Setting, OrderAssumption
<1> QED BY <1>1 DEF Frame, FrameType

LEMMA NotEmpty ==
    ASSUME NEW S, NEW f \in Seq(S), f # <<>>
    PROVE  Len(f) \in Nat \ {0} /\ f[1] \in S /\ 1 \in DOMAIN f /\ DOMAIN f = 1..Len(f)
OBVIOUS

LEMMA SecondIs ==
    ASSUME NEW S, NEW f \in Seq(S), Len(f) = 2
    PROVE  f[1] \in S /\ f[2] \in S
<1>1. \A i \in 1..Len(f) : f[i] \in S
    OBVIOUS
<1>2. 1 \in 1..Len(f) /\ 2 \in 1..Len(f)
    OBVIOUS
<1> QED BY <1>1, <1>2

Pushed(x, f) == <<x>> \o f
Staged(f, s) == [f EXCEPT ![1].stage = s]
Stepped(f, line) == [f EXCEPT ![1].left = Tail(@), ![1].out = @ \o line]

LEMMA PushedIs ==
    ASSUME NEW x \in FrameType, NEW f \in Seq(FrameType)
    PROVE  /\ Pushed(x, f) \in Seq(FrameType) /\ Len(Pushed(x, f)) = Len(f) + 1
           /\ Pushed(x, f)[1] = x /\ Pushed(x, f) # <<>>
           /\ Len(f) = 1 => Pushed(x, f)[2] = f[1]
BY DEF Pushed

LEMMA StagedIs ==
    ASSUME NEW f \in Seq(FrameType), f # <<>>, NEW s \in {"write", "old", "new"}
    PROVE  /\ Staged(f, s) \in Seq(FrameType) /\ Len(Staged(f, s)) = Len(f) /\ Staged(f, s) # <<>>
           /\ Staged(f, s)[1] = [f[1] EXCEPT !.stage = s]
           /\ Staged(f, s)[1].stage = s /\ Staged(f, s)[1].to = f[1].to
           /\ Staged(f, s)[1].asked = f[1].asked /\ Staged(f, s)[1].why = f[1].why
           /\ Len(f) = 2 => Staged(f, s)[2] = f[2]
<1>1. Len(f) \in Nat \ {0} /\ f[1] \in FrameType /\ 1 \in DOMAIN f /\ DOMAIN f = 1..Len(f)
    BY NotEmpty
<1>2. PICK g : g = [f[1] EXCEPT !.stage = s]
    OBVIOUS
<1>3. g \in FrameType /\ g.stage = s /\ g.to = f[1].to /\ g.asked = f[1].asked /\ g.why = f[1].why
    BY <1>1, <1>2 DEF FrameType
<1>4. Staged(f, s) = [f EXCEPT ![1] = g]
    BY <1>2 DEF Staged
<1>5. Staged(f, s) \in Seq(FrameType) /\ Len(Staged(f, s)) = Len(f) /\ Staged(f, s)[1] = g
    BY <1>1, <1>3, <1>4
<1>6. Len(f) = 2 => Staged(f, s)[2] = f[2]
    BY <1>1, <1>4
<1> QED BY <1>1, <1>2, <1>3, <1>5, <1>6

LEMMA SteppedIs ==
    ASSUME NEW f \in Seq(FrameType), f # <<>>, f[1].left # <<>>, NEW line \in Seq(Line)
    PROVE  /\ Stepped(f, line) \in Seq(FrameType) /\ Len(Stepped(f, line)) = Len(f)
           /\ Stepped(f, line) # <<>>
           /\ Stepped(f, line)[1].left = Tail(f[1].left)
           /\ Stepped(f, line)[1].out = f[1].out \o line
           /\ Stepped(f, line)[1].stage = f[1].stage /\ Stepped(f, line)[1].to = f[1].to
           /\ Stepped(f, line)[1].asked = f[1].asked /\ Stepped(f, line)[1].why = f[1].why
           /\ Len(f) = 2 => Stepped(f, line)[2] = f[2]
<1>1. Len(f) \in Nat \ {0} /\ f[1] \in FrameType /\ 1 \in DOMAIN f /\ DOMAIN f = 1..Len(f)
    BY NotEmpty
<1>2. PICK g : g = [f[1] EXCEPT !.left = Tail(@), !.out = @ \o line]
    OBVIOUS
<1>3. Tail(f[1].left) \in Seq(Symbol) /\ f[1].out \o line \in Seq(Line)
    BY <1>1 DEF FrameType
<1>4. /\ g \in FrameType /\ g.stage = f[1].stage /\ g.to = f[1].to /\ g.asked = f[1].asked
      /\ g.why = f[1].why /\ g.left = Tail(f[1].left) /\ g.out = f[1].out \o line
    BY <1>1, <1>2, <1>3 DEF FrameType
<1>5. Stepped(f, line) = [f EXCEPT ![1] = g]
    BY <1>1, <1>2 DEF Stepped
<1>6. Stepped(f, line) \in Seq(FrameType) /\ Len(Stepped(f, line)) = Len(f) /\ Stepped(f, line)[1] = g
    BY <1>1, <1>4, <1>5
<1>7. Len(f) = 2 => Stepped(f, line)[2] = f[2]
    BY <1>1, <1>5
<1> QED BY <1>1, <1>4, <1>6, <1>7

LEMMA TopIs ==
    ASSUME Types, pc = "write"
    PROVE  Top = frames[1] /\ Top \in FrameType /\ frames \in Seq(FrameType) /\ frames # <<>>
BY NotEmpty DEF Types, Top

\* The symbol of this line, and whether there is one for it
Next1 == Head(frames[1].left)
Marked == IF Next1 \in valid THEN write ELSE write \cup {Next1}
LineOfNext == IF Next1 \in Marked THEN <<<<Next1, mem[Next1]>>>> ELSE <<>>

LEMMA WriteNextIs ==
    ASSUME Types, WriteNext
    PROVE  /\ pc = "write" /\ frames[1].stage = "write" /\ frames[1].left # <<>>
           /\ Next1 \in Symbol /\ LineOfNext \in Seq(Line)
           /\ valid' = valid \cup {Next1} /\ write' = Marked \ {Next1}
           /\ frames' = Stepped(frames, LineOfNext)
           /\ UNCHANGED <<disk, mem, changed, forgotten, filename, front, pc, handler, saved, ended, whole>>
<1>1. pc = "write" /\ Top.stage = "write" /\ Top.left # <<>>
    BY DEF WriteNext
<1>2. Top = frames[1] /\ frames[1] \in FrameType
    BY <1>1, TopIs
<1>3. frames[1].left \in Seq(Symbol) /\ frames[1].left # <<>>
    BY <1>1, <1>2 DEF FrameType
<1>4. Next1 \in Symbol
    BY <1>3 DEF Next1
<1>5. LineOfNext \in Seq(Line)
    <2>1. <<Next1, mem[Next1]>> \in Line
        BY <1>4 DEF Types, Values, Line
    <2> QED BY <2>1 DEF LineOfNext
<1>6. valid' = valid \cup {Next1} /\ write' = Marked \ {Next1}
    BY <1>2 DEF WriteNext, Next1, Marked
<1>7. frames' = Stepped(frames, LineOfNext)
    BY <1>2 DEF WriteNext, Next1, Marked, LineOfNext, Stepped
<1>8. UNCHANGED <<disk, mem, changed, forgotten, filename, front, pc, handler, saved, ended, whole>>
    BY DEF WriteNext
<1> QED BY <1>1, <1>2, <1>3, <1>4, <1>5, <1>6, <1>7, <1>8

\* The symbols as a step leaves them
Symbols ==
    /\ mem \in Values /\ valid \subseteq Symbol /\ write \subseteq Symbol
    /\ changed \in BOOLEAN /\ forgotten \in BOOLEAN

LEMMA NextSymbols ==
    ASSUME Setting, Types, [Next]_vars
    PROVE  Symbols'
<1> USE DEF Types, Symbols
<1>1. [s \in Symbol |-> "n"] \in Values
    BY DEF Values, Value
<1>2. ASSUME NEW n \in Name PROVE [s \in Symbol |-> ValueIn(files[n].lines, s)] \in Values
    BY ReadTyped DEF FileType
<1>3. CASE Start
    <2>1. CASE files[Config].there
        BY <1>2, <1>3, <2>1 DEF Start, ReadFile, Setting, ConfigAssumption
    <2>2. CASE ~files[Config].there
        BY <1>1, <1>3, <2>2 DEF Start
    <2> QED BY <2>1, <2>2
<1>4. CASE Draw
    BY <1>4 DEF Draw
<1>5. CASE Edit
    <2>1. PICK s \in valid, x \in Value : mem' = [mem EXCEPT ![s] = x]
        BY <1>5 DEF Edit
    <2> QED BY <1>5, <2>1 DEF Edit, Values
<1>6. ASSUME NEW n \in Name, Load(n) PROVE Symbols'
    BY <1>2, <1>6 DEF Load
<1>7. ASSUME NEW n \in Name, LoadFails(n) PROVE Symbols'
    BY <1>7 DEF LoadFails
<1>8. ASSUME NEW n, NEW a, NEW w, BeginWrite(n, a, w) PROVE Symbols'
    BY <1>8 DEF BeginWrite
<1>9. CASE WriteNext
    <2>1. write' = write \ {Next1} \/ write' = (write \cup {Next1}) \ {Next1}
        BY <1>9, WriteNextIs DEF Marked
    <2> QED BY <1>9, <2>1, WriteNextIs
<1>10. CASE RenameNew \/ Kill
    BY <1>1, <1>10 DEF RenameNew, Kill
<1>11. CASE \/ OpenFails \/ Close \/ RenameOld \/ RenameFails \/ Quit \/ AnswerNo \/ Escape \/ Signal
            \/ UNCHANGED vars
    BY <1>11 DEF OpenFails, Close, RenameOld, RenameFails, Quit, AnswerNo, Escape, Signal, vars, symbols
<1> QED BY <1>3, <1>4, <1>5, <1>6, <1>7, <1>8, <1>9, <1>10, <1>11
        DEF Next, Save, SaveAs, AnswerYes

\* The files as a step leaves them
Disk ==
    /\ files \in [Name -> FileType] /\ old \in [Name -> FileType] /\ tmp \in FileType
    /\ whole \subseteq Name

LEMMA FlushedTyped ==
    ASSUME Types, NEW f \in Flushed(tmp)
    PROVE  f \in FileType
<1>1. tmp \in FileType /\ tmp.lines \in Seq(Line) /\ frames \in Seq(FrameType)
    BY DEF Types, FileType
<1>2. CASE f = tmp
    BY <1>1, <1>2
<1>3. CASE f # tmp
    <2>1. Len(frames) = 2
          /\ f = File(frames[2].out \o SubSeq(tmp.lines, Len(frames[2].out) + 1, Len(tmp.lines)))
        BY <1>3 DEF Flushed
    <2>2. frames[2] \in FrameType
        <3>1. Len(frames) = 2
            BY <2>1
        <3> QED BY <1>1, <3>1, SecondIs
    <2>3. frames[2].out \in Seq(Line)
        BY <2>2 DEF FrameType
    <2>4. SubSeq(tmp.lines, Len(frames[2].out) + 1, Len(tmp.lines)) \in Seq(Line)
        BY <1>1, <2>3
    <2>5. frames[2].out \o SubSeq(tmp.lines, Len(frames[2].out) + 1, Len(tmp.lines)) \in Seq(Line)
        BY <2>3, <2>4
    <2> QED BY <2>1, <2>5, FileTyped
<1> QED BY <1>2, <1>3

LEMMA NextDisk ==
    ASSUME Setting, Types, [Next]_vars
    PROVE  Disk'
<1> USE DEF Types, Disk
<1>1. ASSUME NEW n, NEW a, NEW w, BeginWrite(n, a, w) PROVE Disk'
    BY <1>1, FileTyped DEF BeginWrite
<1>2. CASE Close
    <2>1. Top.out \in Seq(Line)
        BY <1>2, TopIs DEF Close, FrameType
    <2>2. PICK k \in 0..Len(Top.out) : tmp' = File(SubSeq(Top.out, 1, k))
        BY <1>2 DEF Close
    <2>3. SubSeq(Top.out, 1, k) \in Seq(Line)
        BY <2>1
    <2> QED BY <1>2, <2>2, <2>3, FileTyped DEF Close
<1>3. CASE RenameOld
    <2>1. Top.to \in Name
        BY <1>3, TopIs DEF RenameOld, FrameType
    <2> QED BY <1>3, <2>1, FileTyped DEF RenameOld
<1>4. CASE RenameNew
    <2>1. Top.to \in Name
        BY <1>4, TopIs DEF RenameNew, FrameType
    <2>2. PICK f \in Flushed(tmp) : files' = [files EXCEPT ![Top.to] = f]
        BY <1>4 DEF RenameNew
    <2>3. f \in FileType
        BY FlushedTyped
    <2> QED BY <1>4, <2>1, <2>2, <2>3, FileTyped DEF RenameNew
<1>5. CASE Kill
    BY <1>5, FileTyped DEF Kill
<1>6. CASE \/ Start \/ Draw \/ Edit \/ OpenFails \/ WriteNext \/ RenameFails \/ Quit \/ AnswerNo
           \/ Escape \/ Signal \/ UNCHANGED vars
    BY <1>6 DEF Start, Draw, Edit, OpenFails, WriteNext, RenameFails, Quit, AnswerNo, Escape, Signal,
           vars, disk
<1>7. ASSUME NEW n \in Name, Load(n) \/ LoadFails(n) PROVE Disk'
    BY <1>7 DEF Load, LoadFails, disk
<1> QED BY <1>1, <1>2, <1>3, <1>4, <1>5, <1>6, <1>7 DEF Next, Save, SaveAs, AnswerYes

Control ==
    /\ handler \in BOOLEAN /\ filename \in Name /\ front \in FrontEnd
    /\ pc \in {"off", "main", "asked", "write"}
    /\ frames \in Seq(FrameType) /\ (pc = "write" => frames # <<>>)

LEMMA NextControl ==
    ASSUME Setting, Types, [Next]_vars
    PROVE  Control'
<1> USE DEF Types, Control
<1>0. Config \in Name /\ <<>> \in Seq(FrameType)
    BY DEF Setting, ConfigAssumption
<1>1. ASSUME NEW n \in Name, NEW a \in Name, NEW w \in {"save", "exit"}, BeginWrite(n, a, w),
             UNCHANGED <<filename, handler>>
      PROVE  Control'
    <2>1. frames' = Pushed(Frame(n, a, w), frames)
        BY <1>1 DEF BeginWrite, Pushed
    <2>2. Frame(n, a, w) \in FrameType
        BY FrameTyped
    <2>3. frames' \in Seq(FrameType) /\ frames' # <<>>
        BY <2>1, <2>2, PushedIs DEF Types
    <2> QED BY <1>1, <2>3 DEF BeginWrite
<1>2. CASE Save
    BY <1>0, <1>1, <1>2 DEF Save
<1>3. ASSUME NEW n \in Name, SaveAs(n) PROVE Control'
    BY <1>0, <1>1, <1>3 DEF SaveAs
<1>4. CASE AnswerYes
    BY <1>1, <1>4 DEF AnswerYes
<1>5. CASE WriteNext
    <2>1. frames' \in Seq(FrameType) /\ frames' # <<>>
        BY <1>5, WriteNextIs, SteppedIs
    <2> QED BY <1>5, <2>1, WriteNextIs
<1>6. CASE Close
    <2>1. frames' = Staged(frames, "old")
        BY <1>6 DEF Close, Staged
    <2>2. frames' \in Seq(FrameType) /\ frames' # <<>>
        BY <1>6, <2>1, TopIs, StagedIs DEF Close
    <2> QED BY <1>6, <2>2 DEF Close
<1>7. CASE RenameOld
    <2>1. frames' = Staged(frames, "new")
        BY <1>7 DEF RenameOld, Staged
    <2>2. frames' \in Seq(FrameType) /\ frames' # <<>>
        BY <1>7, <2>1, TopIs, StagedIs DEF RenameOld
    <2> QED BY <1>7, <2>2 DEF RenameOld
<1>8. CASE RenameNew
    <2>1. Top.to \in Name
        BY <1>8, TopIs DEF RenameNew, FrameType
    <2> QED BY <1>0, <1>8, <2>1 DEF RenameNew, Return
<1>9. CASE RenameFails
    BY <1>0, <1>9 DEF RenameFails, Return
<1>10. CASE Kill \/ AnswerNo \/ Escape \/ Signal
    BY <1>0, <1>10 DEF Kill, AnswerNo, Escape, Signal
<1>11. CASE Start \/ Draw \/ Edit \/ OpenFails \/ Quit \/ UNCHANGED vars
    BY <1>0, <1>11 DEF Start, Draw, Edit, OpenFails, Quit, vars
<1>12. ASSUME NEW n \in Name, Load(n) \/ LoadFails(n) PROVE Control'
    BY <1>12 DEF Load, LoadFails
<1> QED BY <1>2, <1>3, <1>4, <1>5, <1>6, <1>7, <1>8, <1>9, <1>10, <1>11, <1>12 DEF Next

LEMMA NextTypes ==
    ASSUME Setting, Types, [Next]_vars
    PROVE  Types'
BY NextSymbols, NextDisk, NextControl DEF Types, Symbols, Disk, Control

-----------------------------------------------------------------------------
(***************************************************************************)
(* How far conf_write has come.  The symbols of Order up to the kth have   *)
(* lost their SYMBOL_WRITE; of the others, those that are still valid have *)
(* it, so that they will get their lines.                                  *)
(***************************************************************************)
Written(v, w, k) ==
    \A i \in 1..N : IF i <= k THEN Order[i] \in v /\ Order[i] \notin w
                             ELSE Order[i] \in v => Order[i] \in w

\* A conf_write that the signal handler has interrupted after k symbols
Reached(f, k, m) == IF f.stage = "write" THEN f.out = Piece(m, 0, k) ELSE k = N

\* What the next conf_write is called over, and what the one that runs is over
Under(f, h, k, m) == \/ f = <<>> /\ k = 0
                     \/ Len(f) = 1 /\ h /\ Reached(f[1], k, m)
Over(f, h, k, m) == \/ Len(f) = 1 /\ k = 0
                    \/ Len(f) = 2 /\ h /\ Reached(f[2], k, m)

Most(a, b) == IF a <= b THEN b ELSE a

(***************************************************************************)
(* The conf_write that runs, when the first k symbols were written by the  *)
(* one it interrupted: they get no lines any more.                         *)
(***************************************************************************)
Writing(f, k, v, w, m, t) ==
    \E j \in 0..N :
        /\ Written(v, w, Most(j, k))
        /\ f.stage = "write" => f.left = LeftFrom(j) /\ f.out = Piece(m, k, j)
        /\ f.stage # "write" => j = N /\ t = File(Piece(m, k, N))

Inv ==
    /\ handler => front = "mconf" /\ pc \in {"asked", "write"} /\ "signal" \in Faults
    /\ pc \in {"off", "main"} => frames = <<>>
    /\ pc = "main" /\ changed => Written(valid, write, 0)
    /\ pc \in {"asked", "write"} => changed
    /\ pc = "asked" => \E k \in 0..N : Under(frames, handler, k, mem) /\ Written(valid, write, k)
    /\ pc = "write" => \E k \in 0..N : /\ Over(frames, handler, k, mem)
                                       /\ Writing(frames[1], k, valid, write, mem, tmp)
    /\ pc = "write" /\ (handler \/ "rename" \in Faults) => frames[1].why = "exit"
    /\ pc = "write" /\ "qconf" \notin SavingAs => frames[1].asked = frames[1].to
    /\ pc = "write" => saved = Nothing

LEMMA BeginIs ==
    ASSUME Setting, Types, NEW k \in 0..N, Under(frames, handler, k, mem),
           IF changed THEN Written(valid, write, k) ELSE k = 0 /\ frames = <<>>,
           NEW n \in Name, NEW a \in Name, NEW w \in {"save", "exit"}, BeginWrite(n, a, w),
           UNCHANGED handler
    PROVE  /\ pc' = "write" /\ changed' /\ saved' = Nothing
           /\ frames'[1].why = w /\ frames'[1].to = n /\ frames'[1].asked = a
           /\ Over(frames', handler', k, mem')
           /\ Writing(frames'[1], k, valid', write', mem', tmp')
<1>1. frames' = Pushed(Frame(n, a, w), frames) /\ mem' = mem /\ write' = write
    BY DEF BeginWrite, Pushed
<1>2. pc' = "write" /\ saved' = Nothing /\ changed'
    BY DEF BeginWrite, Types
<1>3. Frame(n, a, w) \in FrameType /\ frames \in Seq(FrameType)
    BY FrameTyped DEF Types
<1>4. /\ frames'[1] = Frame(n, a, w) /\ Len(frames') = Len(frames) + 1
      /\ Len(frames) = 1 => frames'[2] = frames[1]
    BY <1>1, <1>3, PushedIs
<1>5. /\ frames'[1].why = w /\ frames'[1].to = n /\ frames'[1].asked = a
      /\ frames'[1].stage = "write" /\ frames'[1].left = Order /\ frames'[1].out = <<>>
    BY <1>4, FrameTyped
<1>6. Over(frames', handler', k, mem')
    <2>1. CASE frames = <<>> /\ k = 0
        <3>1. Len(frames') = 1
            BY <1>4, <2>1
        <3> QED BY <2>1, <3>1 DEF Over
    <2>2. CASE Len(frames) = 1 /\ handler /\ Reached(frames[1], k, mem)
        BY <1>1, <1>4, <2>2 DEF Over
    <2> QED BY <2>1, <2>2 DEF Under
<1>7. Written(valid', write', k)
    <2>1. CASE changed
        BY <1>1, <2>1 DEF BeginWrite
    <2>2. CASE ~changed
        <3>1. valid' = {} /\ k = 0
            BY <2>2 DEF BeginWrite
        <3> QED BY <3>1 DEF Written
    <2> QED BY <2>1, <2>2
<1>8. N \in Nat /\ 0 \in 0..N /\ Most(0, k) = k
    BY OrderFacts DEF Most
<1>9. Piece(mem, k, 0) = <<>> /\ LeftFrom(0) = Order
    BY <1>8, PieceIs, LeftIs DEF Types
<1>10. Writing(frames'[1], k, valid', write', mem', tmp')
    BY <1>1, <1>5, <1>7, <1>8, <1>9 DEF Writing
<1> QED BY <1>2, <1>5, <1>6, <1>10

LEMMA StepIs ==
    ASSUME Setting, Types, WriteNext, NEW k \in 0..N, Writing(frames[1], k, valid, write, mem, tmp)
    PROVE  Writing(frames'[1], k, valid', write', mem', tmp')
<1>0. /\ N \in Nat /\ \A i \in 1..N : Order[i] \in Symbol
      /\ \A i, l \in 1..N : Order[i] = Order[l] => i = l
    BY OrderFacts
<1>1. PICK j \in 0..N : /\ Written(valid, write, Most(j, k))
                        /\ frames[1].left = LeftFrom(j) /\ frames[1].out = Piece(mem, k, j)
    BY WriteNextIs DEF Writing
<1>2. j # N
    BY <1>1, LeftIs, WriteNextIs
<1>3. j + 1 \in 1..N /\ j + 1 \in 0..N
    BY <1>0, <1>2
<1>4. Next1 = Order[j + 1] /\ Tail(frames[1].left) = LeftFrom(j + 1)
    BY <1>1, <1>2, LeftIs DEF Next1
<1>5. /\ frames'[1].left = LeftFrom(j + 1) /\ frames'[1].out = Piece(mem, k, j) \o LineOfNext
      /\ frames'[1].stage = "write" /\ mem' = mem
      /\ valid' = valid \cup {Next1} /\ write' = Marked \ {Next1}
    BY <1>1, <1>4, WriteNextIs, SteppedIs DEF Types
<1>6. CASE j < k
    <2>1. Most(j, k) = k /\ Most(j + 1, k) = k /\ j + 1 <= k
        BY <1>0, <1>6 DEF Most
    <2>2. Next1 \in valid /\ Next1 \notin write
        BY <1>1, <1>3, <1>4, <2>1 DEF Written
    <2>3. LineOfNext = <<>> /\ valid' = valid /\ write' = write
        BY <1>5, <2>2 DEF LineOfNext, Marked
    <2>4. Piece(mem, k, j) \o LineOfNext = Piece(mem, k, j + 1)
        <3>1. Piece(mem, k, j) = <<>> /\ Piece(mem, k, j + 1) = <<>>
            BY <1>0, <1>3, <1>6, <2>1, PieceIs DEF Types
        <3> QED BY <2>3, <3>1
    <2> QED BY <1>1, <1>3, <1>5, <2>1, <2>3, <2>4 DEF Writing
<1>7. CASE ~(j < k)
    <2>1. Most(j, k) = j /\ Most(j + 1, k) = j + 1 /\ j \in k..(N - 1)
        BY <1>0, <1>2, <1>7 DEF Most
    <2>2. Next1 \in valid => Next1 \in write
        BY <1>0, <1>1, <1>3, <1>4, <2>1 DEF Written
    <2>3. Next1 \in Marked /\ write \subseteq Marked /\ Marked \subseteq write \cup {Next1}
        BY <2>2 DEF Marked
    <2>4. frames'[1].out = Piece(mem, k, j + 1)
        <3>1. LineOfNext = <<<<Order[j + 1], mem[Order[j + 1]]>>>>
            BY <1>4, <2>3 DEF LineOfNext
        <3> QED BY <1>5, <2>1, <3>1, PieceGrows DEF Types
    <2>5. Written(valid', write', j + 1)
        <3> SUFFICES ASSUME NEW i \in 1..N
                     PROVE  IF i <= j + 1 THEN Order[i] \in valid' /\ Order[i] \notin write'
                            ELSE Order[i] \in valid' => Order[i] \in write'
            BY DEF Written
        <3>1. CASE i = j + 1
            BY <1>0, <1>4, <1>5, <3>1
        <3>2. CASE i # j + 1
            <4>1. Order[i] # Next1
                BY <1>0, <1>3, <1>4, <3>2
            <4>2. IF i <= j THEN Order[i] \in valid /\ Order[i] \notin write
                  ELSE Order[i] \in valid => Order[i] \in write
                BY <1>1, <2>1 DEF Written
            <4>3. i <= j + 1 <=> i <= j
                BY <1>0, <3>2
            <4> QED BY <1>5, <2>3, <4>1, <4>2, <4>3
        <3> QED BY <3>1, <3>2
    <2> QED BY <1>3, <1>5, <2>1, <2>4, <2>5 DEF Writing
<1> QED BY <1>6, <1>7

LEMMA CloseIs ==
    ASSUME Setting, Careful, Types, Close, NEW k \in 0..N, Writing(frames[1], k, valid, write, mem, tmp)
    PROVE  Writing(frames'[1], k, valid', write', mem', tmp')
<1>1. frames[1].stage = "write" /\ frames[1].left = <<>> /\ frames[1] \in FrameType
    BY TopIs DEF Close
<1>2. N \in Nat
    BY OrderFacts
<1>3. Written(valid, write, Most(N, k)) /\ frames[1].out = Piece(mem, k, N)
    BY <1>1, LeftIs DEF Writing
<1>4. tmp' = File(frames[1].out)
    <2>1. PICK o : o = frames[1].out
        OBVIOUS
    <2>2. o \in Seq(Line)
        BY <1>1, <2>1 DEF FrameType
    <2>3. tmp' = File(SubSeq(o, 1, Len(o)))
        BY <2>1, TopIs DEF Close, Careful
    <2>4. SubSeq(o, 1, Len(o)) = o
        BY <2>2
    <2> QED BY <2>1, <2>3, <2>4
<1>5. frames'[1].stage = "old"
    BY TopIs, StagedIs DEF Close, Staged
<1>6. UNCHANGED <<valid, write, mem>>
    BY DEF Close, symbols
<1> QED BY <1>2, <1>3, <1>4, <1>5, <1>6 DEF Writing

LEMMA InitInv == Setting /\ Init => Types /\ Inv
<1> SUFFICES ASSUME Setting, Init PROVE Types /\ Inv
    OBVIOUS
<1>1. \A m \in Values : File(Lines(m)) \in FileType
    BY PieceOfAll, FileTyped
<1>2. Files \subseteq FileType
    BY <1>1, FileTyped DEF Files, Values
<1>3. files \in [Name -> FileType] /\ old \in [Name -> FileType] /\ tmp \in FileType
    BY <1>2, FileTyped DEF Init
<1>4. mem \in Values /\ filename \in Name
    BY DEF Init, Values, Value, Setting, ConfigAssumption
<1>5. Types
    <2>1. valid \subseteq Symbol /\ write \subseteq Symbol /\ whole \subseteq Name /\ frames \in Seq(FrameType)
        BY DEF Init
    <2>2. changed \in BOOLEAN /\ forgotten \in BOOLEAN /\ handler \in BOOLEAN /\ front \in FrontEnd /\ pc = "off"
        BY DEF Init
    <2> QED BY <1>3, <1>4, <2>1, <2>2 DEF Types
<1>6. Inv
    BY DEF Init, Inv
<1> QED BY <1>5, <1>6

\* The front end begins to save.
LEMMA NextBegins ==
    ASSUME Setting, Careful, Types, Inv, Save \/ AnswerYes \/ \E n \in Name : SaveAs(n)
    PROVE  Inv'
<1>0. Config \in Name /\ filename \in Name /\ front \in FrontEnd /\ N \in Nat /\ 0 \in 0..N
    BY OrderFacts DEF Setting, ConfigAssumption, Types
<1>1. ASSUME NEW k \in 0..N, Under(frames, handler, k, mem),
             IF changed THEN Written(valid, write, k) ELSE k = 0 /\ frames = <<>>,
             NEW n \in Name, NEW a \in Name, NEW w \in {"save", "exit"}, BeginWrite(n, a, w),
             UNCHANGED handler,
             handler \/ "rename" \in Faults => w = "exit",
             "qconf" \notin SavingAs => a = n
      PROVE  Inv'
    <2>1. /\ pc' = "write" /\ changed' /\ saved' = Nothing
          /\ frames'[1].why = w /\ frames'[1].to = n /\ frames'[1].asked = a
          /\ Over(frames', handler', k, mem')
          /\ Writing(frames'[1], k, valid', write', mem', tmp')
        BY <1>1, BeginIs
    <2>2. handler' => front' = "mconf" /\ "signal" \in Faults
        BY <1>1 DEF Inv, BeginWrite
    <2> QED BY <1>1, <2>1, <2>2 DEF Inv
<1>2. ASSUME pc = "main", NEW n \in Name, NEW a \in Name, BeginWrite(n, a, "save"), UNCHANGED handler,
             "rename" \notin Faults, "qconf" \notin SavingAs => a = n
      PROVE  Inv'
    <2>1. frames = <<>> /\ ~handler /\ (changed => Written(valid, write, 0))
        BY <1>2 DEF Inv
    <2>2. Under(frames, handler, 0, mem)
        BY <2>1 DEF Under
    <2> QED BY <1>0, <1>1, <1>2, <2>1, <2>2
<1>3. CASE Save
    <2>1. front \in Saving /\ pc = "main" /\ UNCHANGED handler
        BY <1>3 DEF Save
    <2>2. "rename" \notin Faults
        BY <2>1 DEF Careful
    <2>3. PICK n \in Name : BeginWrite(n, n, "save")
        BY <1>0, <1>3 DEF Save
    <2> QED BY <1>2, <2>1, <2>2, <2>3
<1>4. ASSUME NEW n \in Name, SaveAs(n) PROVE Inv'
    <2>1. front \in SavingAs /\ pc = "main" /\ UNCHANGED handler
        BY <1>4 DEF SaveAs
    <2>2. "rename" \notin Faults
        BY <2>1 DEF Careful
    <2>3. PICK t \in Name : BeginWrite(t, n, "save") /\ ("qconf" \notin SavingAs => t = n)
        BY <1>0, <1>4, <2>1 DEF SaveAs
    <2> QED BY <1>2, <2>1, <2>2, <2>3
<1>5. CASE AnswerYes
    <2>1. pc = "asked" /\ UNCHANGED handler /\ BeginWrite(filename, filename, "exit")
        BY <1>5 DEF AnswerYes
    <2>2. changed
        BY <2>1 DEF Inv
    <2>3. PICK k \in 0..N : Under(frames, handler, k, mem) /\ Written(valid, write, k)
        BY <2>1 DEF Inv
    <2> QED BY <1>0, <1>1, <2>1, <2>2, <2>3
<1> QED BY <1>3, <1>4, <1>5

\* The steps of conf_write
LEMMA NextWrites ==
    ASSUME Setting, Careful, Types, Inv, WriteNext \/ Close \/ RenameOld
    PROVE  Inv'
<1>1. PICK k \in 0..N : Over(frames, handler, k, mem) /\ Writing(frames[1], k, valid, write, mem, tmp)
    BY DEF Inv, WriteNext, Close, RenameOld
<1>2. /\ UNCHANGED <<mem, changed, front, pc, handler, saved>> /\ pc = "write"
      /\ Len(frames') = Len(frames) /\ (Len(frames) = 2 => frames'[2] = frames[2])
      /\ frames'[1].why = frames[1].why /\ frames'[1].to = frames[1].to
      /\ frames'[1].asked = frames[1].asked
      /\ Writing(frames'[1], k, valid', write', mem', tmp')
    <2>1. CASE WriteNext
        BY <1>1, <2>1, WriteNextIs, SteppedIs, StepIs DEF Types
    <2>2. CASE Close
        <3>1. frames' = Staged(frames, "old") /\ pc = "write"
            BY <2>2 DEF Close, Staged
        <3> QED BY <1>1, <2>2, <3>1, TopIs, StagedIs, CloseIs DEF Close, symbols
    <2>3. CASE RenameOld
        <3>1. frames' = Staged(frames, "new") /\ pc = "write" /\ frames[1].stage = "old"
            BY <2>3, TopIs DEF RenameOld, Staged
        <3>2. frames'[1].stage = "new"
            BY <3>1, TopIs, StagedIs
        <3>3. UNCHANGED <<mem, valid, write, tmp>>
            BY <2>3 DEF RenameOld, symbols
        <3>4. Writing(frames'[1], k, valid', write', mem', tmp')
            BY <1>1, <3>1, <3>2, <3>3 DEF Writing
        <3> QED BY <2>3, <3>1, <3>4, TopIs, StagedIs DEF RenameOld, symbols
    <2> QED BY <2>1, <2>2, <2>3
<1>3. Over(frames', handler', k, mem')
    BY <1>1, <1>2 DEF Over
<1> QED BY <1>1, <1>2, <1>3 DEF Inv

\* conf_write returns.
LEMMA NextReturns ==
    ASSUME Setting, Careful, Types, Inv, RenameNew \/ RenameFails
    PROVE  Inv'
<1>1. CASE RenameNew
    <2>1. /\ frames' = <<>> /\ handler' = FALSE /\ pc' \in {"off", "main"} /\ changed' = FALSE
        BY <1>1 DEF RenameNew, Return
    <2> QED BY <2>1 DEF Inv
<1>2. CASE RenameFails
    <2>1. frames[1].why = "exit" /\ front # "qconf" /\ Top = frames[1]
        BY <1>2, TopIs DEF RenameFails, Inv, Careful, Types
    <2>2. frames' = <<>> /\ handler' = FALSE /\ pc' = "off"
        BY <1>2, <2>1 DEF RenameFails, Return
    <2> QED BY <2>2 DEF Inv
<1> QED BY <1>1, <1>2

LEMMA NextSignal ==
    ASSUME Setting, Careful, Types, Inv, Signal
    PROVE  Inv'
<1>0. N \in Nat /\ 0 \in 0..N /\ UNCHANGED <<valid, write, changed, mem, front, tmp>>
    BY OrderFacts DEF Signal, symbols, disk
<1>1. CASE ~changed
    BY <1>1 DEF Inv, Signal
<1>2. CASE changed /\ pc = "main"
    <2>1. frames' = <<>> /\ pc' = "asked" /\ Written(valid, write, 0)
        BY <1>2 DEF Inv, Signal
    <2>2. Under(frames', handler', 0, mem')
        BY <2>1 DEF Under
    <2> QED BY <1>0, <1>2, <2>1, <2>2 DEF Inv, Signal
<1>3. CASE changed /\ pc = "write"
    <2>1. frames' = frames /\ pc' = "asked" /\ handler' /\ ~handler
        BY <1>3 DEF Signal
    <2>2. PICK k \in 0..N : Over(frames, handler, k, mem) /\ Writing(frames[1], k, valid, write, mem, tmp)
        BY <1>3 DEF Inv
    <2>3. k = 0 /\ Len(frames) = 1
        BY <2>1, <2>2 DEF Over
    <2>4. PICK j \in 0..N :
              /\ Written(valid, write, Most(j, k))
              /\ frames[1].stage = "write" => frames[1].left = LeftFrom(j) /\ frames[1].out = Piece(mem, k, j)
              /\ frames[1].stage # "write" => j = N /\ tmp = File(Piece(mem, k, N))
        BY <2>2 DEF Writing
    <2>5. Most(j, k) = j
        BY <1>0, <2>3 DEF Most
    <2>6. Under(frames', handler', j, mem') /\ Written(valid', write', j)
        BY <1>0, <2>1, <2>3, <2>4, <2>5 DEF Under, Reached
    <2> QED BY <1>0, <1>3, <2>1, <2>6 DEF Inv, Signal
<1> QED BY <1>1, <1>2, <1>3 DEF Signal

LEMMA NextInv ==
    ASSUME Setting, Careful, Types, Inv, [Next]_vars
    PROVE  Inv'
<1>1. CASE Start
    <2>1. /\ pc' = "main" /\ UNCHANGED <<frames, handler>> /\ pc = "off"
          /\ valid' = {} \/ (valid' = Symbol /\ write' = Symbol)
        BY <1>1 DEF Start, ReadFile
    <2>2. Written(valid', write', 0)
        BY <2>1, OrderFacts DEF Written
    <2> QED BY <2>1, <2>2 DEF Inv
<1>2. CASE Draw
    <2>1. /\ pc = "main" /\ UNCHANGED <<frames, handler, pc, changed>>
          /\ \E s \in Symbol : valid' = valid \cup {s} /\ write' = write \cup {s}
        BY <1>2 DEF Draw
    <2>2. Written(valid, write, 0) => Written(valid', write', 0)
        BY <2>1, OrderFacts DEF Written
    <2> QED BY <2>1, <2>2 DEF Inv
<1>3. CASE Edit
    <2>1. pc = "main" /\ UNCHANGED <<frames, handler, pc>> /\ valid' = {}
        BY <1>3 DEF Edit
    <2>2. Written(valid', write', 0)
        BY <2>1, OrderFacts DEF Written
    <2> QED BY <2>1, <2>2 DEF Inv
<1>4. ASSUME NEW n \in Name, Load(n) PROVE Inv'
    <2>1. pc = "main" /\ UNCHANGED <<frames, handler, pc>> /\ valid' = Symbol /\ write' = Symbol
        BY <1>4 DEF Load
    <2>2. Written(valid', write', 0)
        BY <2>1, OrderFacts DEF Written
    <2> QED BY <2>1, <2>2 DEF Inv
<1>5. ASSUME NEW n \in Name, LoadFails(n) PROVE Inv'
    BY <1>5 DEF LoadFails, Inv
<1>6. CASE Quit
    <2>1. frames = <<>> /\ frames' = frames /\ handler' = handler /\ ~handler /\ N \in Nat
        BY <1>6, OrderFacts DEF Quit, Inv
    <2>2. CASE changed
        <3>1. /\ Written(valid, write, 0) /\ UNCHANGED <<valid, write, changed>> /\ pc' = "asked"
              /\ 0 \in 0..N
            BY <1>6, <2>1, <2>2 DEF Quit, Inv, symbols
        <3>2. Under(frames', handler', 0, mem')
            BY <2>1 DEF Under
        <3> QED BY <2>1, <2>2, <3>1, <3>2 DEF Inv
    <2>3. CASE ~changed
        BY <1>6, <2>1, <2>3 DEF Quit, Inv
    <2> QED BY <2>2, <2>3
<1>7. CASE AnswerNo \/ Kill
    BY <1>7 DEF AnswerNo, Kill, Inv
<1>8. CASE Escape
    <2>1. CASE handler
        BY <1>8, <2>1 DEF Escape, Inv
    <2>2. CASE ~handler
        <3>1. PICK k \in 0..N : Under(frames, handler, k, mem) /\ Written(valid, write, k)
            BY <1>8 DEF Escape, Inv
        <3>2. k = 0
            BY <2>2, <3>1 DEF Under
        <3> QED BY <1>8, <2>2, <3>1, <3>2 DEF Escape, Inv, symbols
    <2> QED BY <2>1, <2>2
<1>9. CASE OpenFails \/ UNCHANGED vars
    BY <1>9 DEF OpenFails, vars, disk, symbols, Inv
<1> QED BY <1>1, <1>2, <1>3, <1>4, <1>5, <1>6, <1>7, <1>8, <1>9, NextBegins, NextWrites,
           NextReturns, NextSignal DEF Next

-----------------------------------------------------------------------------
(***************************************************************************)
(* What is on the disk: a file that is there has all the symbols, or is    *)
(* one that a signal has spoiled, in which some symbol has no line, so     *)
(* that conf_read will take it for changed.                                *)
(***************************************************************************)
Partial(l) == \E s \in Symbol : \A x \in Range(l) : x[1] # s
Full(l) == \E m \in Values : l = Lines(m)

FilesInv ==
    \A n \in Name : files[n].there =>
        /\ Full(files[n].lines) \/ Partial(files[n].lines)
        /\ "signal" \notin Faults => Full(files[n].lines)

LEMMA PieceLacks ==
    ASSUME Setting, NEW m \in Values, NEW k \in 1..N
    PROVE  Partial(Piece(m, k, N))
<1>0. /\ N \in Nat /\ \A i \in 1..N : Order[i] \in Symbol
      /\ \A i, j \in 1..N : Order[i] = Order[j] => i = j
    BY OrderFacts
<1>1. PICK p : p = Piece(m, k, N)
    OBVIOUS
<1>2. DOMAIN p = 1..(N - k) /\ \A i \in 1..(N - k) : p[i][1] = Order[k + i]
    BY <1>1 DEF Piece
<1>3. 1 \in 1..N /\ Order[1] \in Symbol
    BY <1>0
<1>4. ASSUME NEW x \in Range(p) PROVE x[1] # Order[1]
    <2>1. PICK i \in 1..(N - k) : x = p[i]
        BY <1>2 DEF Range
    <2>2. k + i \in 1..N /\ k + i # 1
        BY <1>0
    <2> QED BY <1>0, <1>2, <1>3, <2>1, <2>2
<1> QED BY <1>1, <1>3, <1>4 DEF Partial

\* What is flushed at exit comes before what the signal handler has saved.
LEMMA FlushLacks ==
    ASSUME Setting, NEW m \in Values, NEW k \in 1..(N - 1)
    PROVE  LET o == Piece(m, 0, k)
               l == Piece(m, k, N)
           IN  Partial(o \o SubSeq(l, Len(o) + 1, Len(l)))
<1>0. /\ N \in Nat /\ \A i \in 1..N : Order[i] \in Symbol
      /\ \A i, j \in 1..N : Order[i] = Order[j] => i = j
    BY OrderFacts
<1>1. PICK o : o = Piece(m, 0, k)
    OBVIOUS
<1>2. PICK l : l = Piece(m, k, N)
    OBVIOUS
<1>3. 0 \in 0..N /\ k \in 0..N /\ N \in 0..N /\ k \in Nat \ {0} /\ k < N
    BY <1>0
<1>4. /\ o \in Seq(Line) /\ Len(o) = k
      /\ \A i \in 1..k : o[i][1] = Order[i]
    <2>1. o \in Seq(Line) /\ Len(o) = IF k <= 0 THEN 0 ELSE k - 0
        BY <1>1, <1>3, PieceIs
    <2>2. \A i \in 1..k : i \in 1..(k - 0) /\ 0 + i = i
        BY <1>3
    <2>3. \A i \in 1..(k - 0) : o[i] = <<Order[0 + i], m[Order[0 + i]]>>
        BY <1>1 DEF Piece
    <2>4. \A i \in 1..k : o[i] = <<Order[i], m[Order[i]]>>
        BY <2>2, <2>3
    <2> QED BY <1>3, <2>1, <2>4
<1>5. /\ l \in Seq(Line) /\ Len(l) = N - k
      /\ \A i \in 1..(N - k) : l[i][1] = Order[k + i]
    <2>1. /\ l \in Seq(Line) /\ Len(l) = IF N <= k THEN 0 ELSE N - k
          /\ \A i \in 1..(N - k) : l[i] = <<Order[k + i], m[Order[k + i]]>>
        BY <1>2, <1>3, PieceIs
    <2> QED BY <1>3, <2>1
<1>6. PICK r : r = SubSeq(l, k + 1, N - k)
    OBVIOUS
<1>7. /\ r \in Seq(Line) /\ \A i \in 1..Len(r) : k + i \in 1..(N - k) /\ r[i] = l[k + i]
    <2>1. PICK b : b = N - k
        OBVIOUS
    <2>2. k \in Nat /\ b \in Nat /\ l \in Seq(Line) /\ Len(l) = b /\ r = SubSeq(l, k + 1, b)
        BY <1>3, <1>5, <1>6, <2>1
    <2>3. r \in Seq(Line) /\ Len(r) = IF k + 1 <= b THEN b - k ELSE 0
        BY ONLY <2>2
    <2>4. \A i \in 1..Len(r) : r[i] = l[k + i]
        BY ONLY <2>2, <2>3
    <2>5. \A i \in 1..Len(r) : k + i \in 1..b
        BY ONLY <2>2, <2>3
    <2> QED BY <2>1, <2>3, <2>4, <2>5
<1>8. ASSUME NEW x \in Range(o \o r) PROVE x[1] # Order[k + 1]
    <2>1. PICK i \in DOMAIN (o \o r) : x = (o \o r)[i]
        BY DEF Range
    <2>2. i \in 1..(k + Len(r)) /\ Len(r) \in Nat
        BY <1>4, <1>7, <2>1
    <2>3. k + 1 \in 1..N
        BY <1>3
    <2>4. CASE i <= k
        <3>1. x = o[i] /\ i \in 1..k /\ i \in 1..N
            BY <1>3, <1>4, <1>7, <2>1, <2>2, <2>4
        <3> QED BY <1>0, <1>3, <1>4, <2>3, <3>1
    <2>5. CASE ~(i <= k)
        <3>1. PICK d : d = i - k
            OBVIOUS
        <3>2. d \in 1..Len(r) /\ x = r[d]
            BY <1>3, <1>4, <1>7, <2>1, <2>2, <2>5, <3>1
        <3>3. k + d \in 1..(N - k) /\ x = l[k + d]
            BY <1>7, <3>2
        <3>4. x[1] = Order[k + (k + d)]
            BY <1>5, <3>3
        <3>5. k + (k + d) \in 1..N /\ k + (k + d) # k + 1
            BY <1>3, <3>2, <3>3
        <3> QED BY <1>0, <2>3, <3>4, <3>5
    <2> QED BY <2>4, <2>5
<1>9. Order[k + 1] \in Symbol
    BY <1>0, <1>3
<1>10. Partial(o \o r)
    BY <1>8, <1>9 DEF Partial
<1> QED BY <1>1, <1>2, <1>4, <1>5, <1>6, <1>10

LEMMA RenamedIs ==
    ASSUME Setting, Types, Inv, RenameNew
    PROVE  /\ frames[1].to \in Name /\ Top = frames[1] /\ pc = "write"
           /\ \E f \in FileType :
                  /\ files' = [files EXCEPT ![frames[1].to] = f]
                  /\ f.there => Full(f.lines) \/ Partial(f.lines)
                  /\ ~handler => f = File(Lines(mem))
<1>0. pc = "write" /\ Top = frames[1] /\ frames[1].to \in Name /\ frames[1].stage = "new"
    BY TopIs DEF RenameNew, FrameType
<1>1. PICK f \in Flushed(tmp) : files' = [files EXCEPT ![frames[1].to] = f]
    BY <1>0 DEF RenameNew
<1>2. f \in FileType
    BY FlushedTyped
<1>3. PICK k \in 0..N : Over(frames, handler, k, mem) /\ Writing(frames[1], k, valid, write, mem, tmp)
    BY <1>0 DEF Inv
<1>4. tmp = File(Piece(mem, k, N)) /\ mem \in Values
    BY <1>0, <1>3 DEF Writing, Types
<1>5. Piece(mem, 0, N) = Lines(mem) /\ Full(Lines(mem))
    BY <1>4, PieceOfAll DEF Full
<1>6. ~handler => f = File(Lines(mem))
    <2>1. ~handler => Len(frames) = 1 /\ k = 0
        BY <1>3 DEF Over
    <2> QED BY <1>4, <1>5, <2>1 DEF Flushed
<1>7. Full(f.lines) \/ Partial(f.lines)
    <2>0. N \in Nat /\ File(Piece(mem, k, N)).lines = Piece(mem, k, N)
        BY OrderFacts DEF File
    <2>1. CASE f = tmp
        <3>1. CASE k = 0
            BY <1>4, <1>5, <2>0, <2>1, <3>1
        <3>2. CASE k # 0
            <4>1. k \in 1..N
                BY <2>0, <3>2
            <4> QED BY <1>4, <2>0, <2>1, <4>1, PieceLacks
        <3> QED BY <3>1, <3>2
    <2>2. CASE f # tmp
        <3>1. /\ Len(frames) = 2 /\ frames[2].stage = "write"
              /\ f = File(frames[2].out \o SubSeq(tmp.lines, Len(frames[2].out) + 1, Len(tmp.lines)))
            BY <2>2 DEF Flushed
        <3>2. frames[2].out = Piece(mem, 0, k)
            BY <1>3, <3>1 DEF Over, Reached
        <3>3. PICK o : o = Piece(mem, 0, k)
            OBVIOUS
        <3>4. PICK l : l = Piece(mem, k, N)
            OBVIOUS
        <3>5. f.lines = o \o SubSeq(l, Len(o) + 1, Len(l))
            BY <1>4, <2>0, <3>1, <3>2, <3>3, <3>4 DEF File
        <3>6. 0 \in 0..N /\ N \in 0..N
            BY <2>0
        <3>7. o \in Seq(Line) /\ l \in Seq(Line)
            BY <1>4, <3>3, <3>4, <3>6, PieceIs
        <3>8. CASE k = 0
            <4>1. o = <<>> /\ l = Lines(mem)
                BY <1>4, <1>5, <3>3, <3>4, <3>6, <3>8, PieceIs
            <4>2. o \o SubSeq(l, Len(o) + 1, Len(l)) = l
                BY <3>7, <4>1
            <4> QED BY <1>5, <3>5, <4>1, <4>2
        <3>9. CASE k = N
            <4>1. l = <<>> /\ o = Lines(mem)
                BY <1>4, <1>5, <3>3, <3>4, <3>6, <3>9, PieceIs
            <4>2. Len(l) = 0 /\ Len(o) + 1 > Len(l) /\ Len(o) \in Nat
                BY <3>7, <4>1
            <4>3. SubSeq(l, Len(o) + 1, Len(l)) = <<>>
                BY <3>7, <4>2
            <4>4. o \o <<>> = o
                BY <3>7
            <4> QED BY <1>5, <3>5, <4>1, <4>3, <4>4
        <3>10. CASE k # 0 /\ k # N
            <4>1. k \in 1..(N - 1)
                BY <2>0, <3>10
            <4>2. Partial(o \o SubSeq(l, Len(o) + 1, Len(l)))
                BY <1>4, <3>3, <3>4, <4>1, FlushLacks
            <4> QED BY <3>5, <4>2
        <3> QED BY <3>8, <3>9, <3>10
    <2> QED BY <2>1, <2>2
<1> QED BY <1>0, <1>1, <1>2, <1>6, <1>7

LEMMA InitFiles == Setting /\ Init => FilesInv
<1> SUFFICES ASSUME Setting, Init, NEW n \in Name, files[n].there PROVE Full(files[n].lines)
    BY DEF FilesInv
<1>1. files[n] \in Files
    BY DEF Init
<1> QED BY <1>1 DEF Files, NoFile, File, Full, Values

LEMMA NextFiles ==
    ASSUME Setting, Types, Inv, FilesInv, [Next]_vars
    PROVE  FilesInv'
<1>1. CASE RenameNew
    <2>1. PICK f \in FileType : /\ files' = [files EXCEPT ![frames[1].to] = f]
                                /\ f.there => Full(f.lines) \/ Partial(f.lines)
                                /\ ~handler => f = File(Lines(mem))
        BY <1>1, RenamedIs
    <2>2. /\ files' = [files EXCEPT ![frames[1].to] = f]
          /\ f.there => Full(f.lines) \/ Partial(f.lines)
        BY <2>1, Zenon
    <2>3. "signal" \notin Faults => Full(f.lines)
        <3>1. "signal" \notin Faults => ~handler
            BY Zenon DEF Inv
        <3>2. "signal" \notin Faults => f = File(Lines(mem))
            BY <2>1, <3>1, Zenon
        <3>3. mem \in Values /\ File(Lines(mem)).lines = Lines(mem)
            BY DEF Types, File
        <3>4. f = File(Lines(mem)) => Full(f.lines)
            BY <3>3 DEF Full
        <3> QED BY <3>2, <3>4, Zenon
    <2>4. files \in [Name -> FileType]
        BY DEF Types
    <2>5. SUFFICES ASSUME NEW n \in Name, files'[n].there
                   PROVE  /\ Full(files'[n].lines) \/ Partial(files'[n].lines)
                          /\ "signal" \notin Faults => Full(files'[n].lines)
        BY DEF FilesInv, Full, Partial
    <2>6. files'[n] = f \/ files'[n] = files[n]
        BY <2>2, <2>4
    <2>7. CASE files'[n] = f
        BY <2>2, <2>3, <2>5, <2>7
    <2>8. CASE files'[n] = files[n]
        BY <2>5, <2>8 DEF FilesInv
    <2> QED BY <2>6, <2>7, <2>8
<1>2. CASE RenameOld
    <2>1. \A n \in Name : files'[n] = files[n] \/ files'[n] = NoFile
        BY <1>2 DEF RenameOld, Types
    <2> QED BY <2>1 DEF FilesInv, NoFile, Full, Partial
<1>3. CASE ~RenameNew /\ ~RenameOld
    <2>1. files' = files
        BY <1>3 DEF Next, Start, Draw, Edit, Save, OpenFails, Load, LoadFails, SaveAs, WriteNext, Close,
           RenameFails, Quit, AnswerYes, AnswerNo, Escape, Signal, Kill, BeginWrite, vars, disk
    <2> QED BY <2>1 DEF FilesInv, Full, Partial
<1> QED BY <1>1, <1>2, <1>3

-----------------------------------------------------------------------------
(***************************************************************************)
(* What the user is told was saved.                                        *)
(***************************************************************************)
LEMMA NextSaved ==
    ASSUME Setting, Careful, "signal" \notin Faults, "qconf" \notin SavingAs,
           Types, Inv, SavedIsWhole, [Next]_vars
    PROVE  SavedIsWhole'
<1>1. CASE RenameNew
    <2>1. ~handler /\ frames[1].asked = frames[1].to /\ frames[1].to \in Name /\ Top = frames[1]
        BY <1>1, RenamedIs DEF Inv
    <2>2. files' = [files EXCEPT ![frames[1].to] = File(Lines(mem))]
        BY <1>1, <2>1, RenamedIs
    <2>3. saved' = [name |-> frames[1].to, lines |-> Lines(mem)]
        BY <1>1, <2>1 DEF RenameNew
    <2> QED BY <2>1, <2>2, <2>3 DEF SavedIsWhole, Types
<1>2. CASE pc = "write" /\ ~RenameNew
    <2>1. saved' = Nothing
        BY <1>2 DEF Inv, Next, Start, Draw, Edit, Save, OpenFails, Load, LoadFails, SaveAs, WriteNext, Close,
           RenameOld, RenameFails, Quit, AnswerYes, AnswerNo, Escape, Signal, Kill, BeginWrite, vars
    <2> QED BY <2>1 DEF SavedIsWhole
<1>3. CASE pc # "write"
    <2>1. saved' = Nothing \/ (saved' = saved /\ files' = files)
        BY <1>3 DEF Next, Start, Draw, Edit, Save, OpenFails, Load, LoadFails, SaveAs, WriteNext, Close,
           RenameOld, RenameNew, RenameFails, Quit, AnswerYes, AnswerNo, Escape, Signal, Kill, BeginWrite,
           vars, disk
    <2> QED BY <2>1 DEF SavedIsWhole
<1> QED BY <1>1, <1>2, <1>3

\* When a front end says it has written a file (conf_write has returned), the
\* file it names has every symbol with the value the user saw, whatever was
\* drawn, edited and loaded before and however often the program was killed;
\* but for qconf, which names the file it was given and writes .config.
THEOREM Saved ==
    ASSUME Setting, Careful, "signal" \notin Faults, "qconf" \notin SavingAs
    PROVE  Spec => []SavedIsWhole
<1>1. Init => Types /\ Inv /\ SavedIsWhole
    BY InitInv DEF Init, SavedIsWhole
<1>2. Types /\ Inv /\ [Next]_vars => Types' /\ Inv'
    BY NextTypes, NextInv
<1>3. Types /\ Inv /\ SavedIsWhole /\ [Next]_vars => SavedIsWhole'
    BY NextSaved
<1> QED BY <1>1, <1>2, <1>3, PTL DEF Spec

(***************************************************************************)
(* What is left of a save that was killed.                                 *)
(***************************************************************************)
LEMMA NextLeaves ==
    ASSUME Setting, "signal" \notin Faults, Types, Inv, FilesInv, KillLeavesOne, [Next]_vars
    PROVE  KillLeavesOne'
<1>0. /\ Len(Order) = N /\ \A m \in Values : Len(Lines(m)) = N
      /\ mem \in Values /\ files \in [Name -> FileType] /\ old \in [Name -> FileType]
      /\ whole \subseteq Name
    BY PieceOfAll DEF N, Types
<1>1. CASE RenameNew
    <2>1. ~handler /\ frames[1].to \in Name /\ Top = frames[1]
        BY <1>1, RenamedIs DEF Inv
    <2>2. files' = [files EXCEPT ![frames[1].to] = File(Lines(mem))]
        BY <1>1, <2>1, RenamedIs
    <2>3. whole' = whole \cup {frames[1].to} /\ old' = old
        BY <1>1, <2>1 DEF RenameNew
    <2>4. \A n \in Name : IF n = frames[1].to THEN Len(files'[n].lines) = N ELSE files'[n] = files[n]
        BY <1>0, <2>1, <2>2 DEF File
    <2> QED BY <1>0, <2>1, <2>3, <2>4 DEF KillLeavesOne
<1>2. CASE RenameOld
    <2>1. PICK n \in Name : \/ UNCHANGED <<old, files>>
                            \/ /\ files[n].there /\ old' = [old EXCEPT ![n] = files[n]]
                               /\ files' = [files EXCEPT ![n] = NoFile]
        BY <1>2, TopIs DEF RenameOld, FrameType
    <2>2. whole' = whole
        BY <1>2 DEF RenameOld
    <2>3. files[n].there => Len(files[n].lines) = N
        BY <1>0 DEF FilesInv, Full
    <2>4. CASE UNCHANGED <<old, files>>
        BY <2>2, <2>4 DEF KillLeavesOne
    <2>5. CASE ~UNCHANGED <<old, files>>
        <3>1. \A x \in Name : IF x = n THEN Len(old'[x].lines) = N
                              ELSE files'[x] = files[x] /\ old'[x] = old[x]
            BY <1>0, <2>1, <2>3, <2>5
        <3> QED BY <1>0, <2>2, <3>1 DEF KillLeavesOne
    <2> QED BY <2>4, <2>5
<1>3. CASE ~RenameNew /\ ~RenameOld
    <2>1. UNCHANGED <<files, old, whole>>
        BY <1>3 DEF Next, Start, Draw, Edit, Save, OpenFails, Load, LoadFails, SaveAs, WriteNext, Close,
           RenameFails, Quit, AnswerYes, AnswerNo, Escape, Signal, Kill, BeginWrite, vars, disk
    <2> QED BY <2>1 DEF KillLeavesOne
<1> QED BY <1>1, <1>2, <1>3

\* The two renames of conf_write never leave a user without a whole file: once
\* there was one, it or its .old is whole, wherever a kill comes and whichever
\* rename or open fails.
THEOREM OneLeft ==
    ASSUME Setting, Careful, "signal" \notin Faults
    PROVE  Spec => []KillLeavesOne
<1>1. Init => KillLeavesOne
    <2> SUFFICES ASSUME Init, NEW n \in Name, files[n].there PROVE Len(files[n].lines) = Len(Order)
        BY DEF Init, KillLeavesOne
    <2>1. Full(files[n].lines)
        <3>1. files[n] \in Files
            BY DEF Init
        <3> QED BY <3>1 DEF Files, NoFile, File, Full, Values
    <2> QED BY <2>1, PieceOfAll DEF Full, N
<1>2. Init => Types /\ Inv /\ FilesInv
    BY InitInv, InitFiles
<1>3. Types /\ Inv /\ FilesInv /\ [Next]_vars => Types' /\ Inv' /\ FilesInv'
    BY NextTypes, NextInv, NextFiles
<1>4. Types /\ Inv /\ FilesInv /\ KillLeavesOne /\ [Next]_vars => KillLeavesOne'
    BY NextLeaves
<1> QED BY <1>1, <1>2, <1>3, <1>4, PTL DEF Spec

(***************************************************************************)
(* What a front end that has ended leaves in the files.                    *)
(***************************************************************************)
LEMMA ReadIsFull ==
    ASSUME Setting, NEW l \in Seq(Line), Full(l) \/ Partial(l),
           NEW v, v = [s \in Symbol |-> ValueIn(l, s)],
           ~\E s \in Symbol : \A x \in Range(l) : x[1] # s
    PROVE  v \in Values /\ l = Lines(v)
<1>0. /\ N \in Nat /\ DOMAIN Order = 1..N /\ \A i \in 1..N : Order[i] \in Symbol
      /\ \A s \in Symbol : \E i \in 1..N : Order[i] = s
    BY OrderFacts
<1>1. PICK m \in Values : l = Lines(m)
    BY DEF Full, Partial
<1>2. \A i \in 1..N : l[i] = <<Order[i], m[Order[i]]>>
    BY <1>0, <1>1 DEF Lines
<1>3. DOMAIN l = 1..N
    BY <1>0, <1>1 DEF Lines
<1>4. ASSUME NEW s \in Symbol PROVE ValueIn(l, s) = m[s]
    <2>1. \E x \in Range(l) : x[1] = s
        OBVIOUS
    <2>2. PICK y : y = CHOOSE x \in Range(l) : x[1] = s
        OBVIOUS
    <2>3. y \in Range(l) /\ y[1] = s
        BY <2>1, <2>2
    <2>4. PICK i \in 1..N : y = l[i]
        BY <1>3, <2>3 DEF Range
    <2>5. y[2] = m[s]
        BY <1>2, <2>3, <2>4
    <2> QED BY <2>1, <2>2, <2>5 DEF ValueIn
<1>5. v = m
    BY <1>1, <1>4 DEF Values
<1> QED BY <1>1, <1>5

LEMMA ReadIsKept ==
    ASSUME Setting, Types, FilesInv, NEW n \in Name, files[n].there, UNCHANGED files,
           mem' = [s \in Symbol |-> ValueIn(files[n].lines, s)],
           ~\E s \in Symbol : \A x \in Range(files[n].lines) : x[1] # s
    PROVE  Kept'
<1>1. files[n] \in FileType /\ files[n].lines \in Seq(Line)
    BY DEF Types, FileType
<1>2. files[n].lines = Lines(mem')
    BY <1>1, ReadIsFull DEF FilesInv
<1>3. files'[n] = File(Lines(mem'))
    BY <1>1, <1>2 DEF FileType, File
<1> QED BY <1>3 DEF Kept, Lines

LEMMA SavedIsKept ==
    ASSUME Setting, Types, Inv, RenameNew, ~handler
    PROVE  Kept'
<1>1. files' = [files EXCEPT ![frames[1].to] = File(Lines(mem))] /\ frames[1].to \in Name
    BY RenamedIs
<1>2. files'[frames[1].to] = File(Lines(mem)) /\ mem' = mem
    BY <1>1 DEF Types, RenameNew
<1>3. files'[frames[1].to] = File(Lines(mem'))
    BY <1>2
<1> QED BY <1>1, <1>3 DEF Kept, Lines

Unedited == pc = "main" /\ ~changed => Kept \/ forgotten

LEMMA NextUnedited ==
    ASSUME Setting, Types, Inv, FilesInv, Unedited, [Next]_vars
    PROVE  Unedited'
<1> SUFFICES ASSUME pc' = "main", ~changed' PROVE Kept' \/ forgotten'
    BY DEF Unedited
<1>1. CASE Start
    <2>1. files[Config].there /\ Config \in Name /\ ReadFile(files[Config]) /\ UNCHANGED files
        BY <1>1 DEF Start, disk, Setting, ConfigAssumption
    <2> QED BY <2>1, ReadIsKept DEF ReadFile
<1>2. ASSUME NEW n \in Name, Load(n) PROVE Kept'
    <2>1. files[n].there /\ UNCHANGED files
          /\ mem' = [s \in Symbol |-> ValueIn(files[n].lines, s)]
        BY <1>2 DEF Load, disk
    <2>2. ~\E s \in Symbol : \A x \in Range(files[n].lines) : x[1] # s
        BY <1>2 DEF Load
    <2> QED BY <2>1, <2>2, ReadIsKept
<1>3. CASE Draw \/ OpenFails \/ UNCHANGED vars
    <2>1. pc = "main" /\ ~changed /\ UNCHANGED <<files, mem, forgotten>>
        BY <1>3 DEF Draw, OpenFails, vars, disk, symbols
    <2> QED BY <2>1 DEF Unedited, Kept, Lines
<1>4. CASE RenameNew
    <2>1. ~handler
        BY <1>4, RenamedIs DEF RenameNew, Return, Inv
    <2> QED BY <1>4, <2>1, SavedIsKept
<1>5. CASE RenameFails \/ Escape \/ Edit
    BY <1>5 DEF RenameFails, Escape, Edit, Inv, symbols, Types
<1>6. CASE Save \/ AnswerYes \/ \E n \in Name : SaveAs(n)
    BY <1>6 DEF Save, AnswerYes, SaveAs, BeginWrite
<1>8. ASSUME NEW n \in Name, LoadFails(n) PROVE Kept' \/ forgotten'
    <2>1. pc = "main" /\ forgotten' = (forgotten \/ changed) /\ UNCHANGED <<files, mem>>
        BY <1>8 DEF LoadFails, disk
    <2> QED BY <2>1 DEF Unedited, Kept, Lines
<1>7. CASE WriteNext \/ Close \/ RenameOld \/ Quit \/ AnswerNo \/ Signal \/ Kill
    BY <1>7 DEF WriteNext, Close, RenameOld, Quit, AnswerNo, Signal, Kill, symbols
<1> QED BY <1>1, <1>2, <1>3, <1>4, <1>5, <1>6, <1>7, <1>8 DEF Next

LEMMA NextAsked ==
    ASSUME Setting, Types, Inv, FilesInv, Unedited, AskedFirst, [Next]_vars
    PROVE  AskedFirst'
<1> SUFFICES ASSUME pc' = "off", ended' = "unasked" PROVE Kept' \/ forgotten'
    BY DEF AskedFirst
<1>1. CASE Quit \/ Signal
    <2>1. pc = "main" /\ ~changed /\ UNCHANGED <<files, mem, forgotten>>
        BY <1>1 DEF Quit, Signal, Inv, disk, symbols
    <2> QED BY <2>1 DEF Unedited, Kept, Lines
<1>2. CASE UNCHANGED vars
    BY <1>2 DEF vars, disk, symbols, AskedFirst, Kept, Lines
<1>3. CASE RenameNew \/ RenameFails
    BY <1>3 DEF RenameNew, RenameFails, Return
<1>4. CASE ~Quit /\ ~Signal /\ ~RenameNew /\ ~RenameFails /\ ~UNCHANGED vars
    BY <1>4 DEF Next, Start, Draw, Edit, Save, OpenFails, Load, LoadFails, SaveAs, WriteNext, Close,
       RenameOld, AnswerYes, AnswerNo, Escape, Kill, BeginWrite
<1> QED BY <1>1, <1>2, <1>3, <1>4

\* The change count is right: a front end that quits, or that SIGINT ends,
\* without asking to save has in memory what one of the files says, even when
\* the signal comes in conf_write and whatever is killed or fails, unless the
\* last it did was to load a file that is not there, which resets the count.
THEOREM Asked ==
    ASSUME Setting, Careful
    PROVE  Spec => []AskedFirst
<1>1. Init => Types /\ Inv /\ FilesInv /\ Unedited /\ AskedFirst
    BY InitInv, InitFiles DEF Init, Unedited, AskedFirst
<1>2. Types /\ Inv /\ FilesInv /\ [Next]_vars => Types' /\ Inv' /\ FilesInv'
    BY NextTypes, NextInv, NextFiles
<1>3. Types /\ Inv /\ FilesInv /\ Unedited /\ [Next]_vars => Unedited'
    BY NextUnedited
<1>4. Types /\ Inv /\ FilesInv /\ Unedited /\ AskedFirst /\ [Next]_vars => AskedFirst'
    BY NextAsked
<1> QED BY <1>1, <1>2, <1>3, <1>4, PTL DEF Spec

LEMMA NextLost ==
    ASSUME Setting, "signal" \notin Faults, Types, Inv, NothingLost, [Next]_vars
    PROVE  NothingLost'
<1>0. ~handler
    BY DEF Inv
<1> SUFFICES ASSUME pc' = "off", ended' \in {"saved", "escaped"} PROVE Kept'
    BY DEF NothingLost
<1>1. CASE RenameNew
    BY <1>0, <1>1, SavedIsKept
<1>2. CASE UNCHANGED vars
    BY <1>2 DEF vars, disk, symbols, NothingLost, Kept, Lines
<1>3. CASE RenameFails \/ Escape
    BY <1>0, <1>3 DEF RenameFails, Return, Escape
<1>4. CASE ~RenameNew /\ ~RenameFails /\ ~Escape /\ ~UNCHANGED vars
    BY <1>4 DEF Next, Start, Draw, Edit, Save, OpenFails, Load, LoadFails, SaveAs, WriteNext, Close,
       RenameOld, Quit, AnswerYes, AnswerNo, Signal, Kill, BeginWrite
<1> QED BY <1>1, <1>2, <1>3, <1>4

\* A front end that was told to save on the way out, and has not said that it
\* could not, has left its values in a file; SIGINT in the middle of conf_write
\* is another matter.
THEOREM NotLost ==
    ASSUME Setting, Careful, "signal" \notin Faults
    PROVE  Spec => []NothingLost
<1>1. Init => Types /\ Inv /\ NothingLost
    BY InitInv DEF Init, NothingLost
<1>2. Types /\ Inv /\ [Next]_vars => Types' /\ Inv'
    BY NextTypes, NextInv
<1>3. Types /\ Inv /\ NothingLost /\ [Next]_vars => NothingLost'
    BY NextLost
<1> QED BY <1>1, <1>2, <1>3, PTL DEF Spec
=============================================================================
