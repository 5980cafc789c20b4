------------------------------- MODULE KExpr -------------------------------
(***************************************************************************)
(* The dependency expressions of kconfig (support/kconfig/expr.c): their   *)
(* three-valued value, and the operators that rewrite them.  The code      *)
(* rewrites trees in place; an operator here returns the new tree.         *)
(***************************************************************************)
EXTENDS Naturals, Sequences

CONSTANTS
    Tristate,   \* symbols of type S_TRISTATE
    Boolean     \* symbols of type S_BOOLEAN

ASSUME TypesAssumption == Tristate \cap Boolean = {}

\* symbol_yes, symbol_mod and symbol_no, and the values of a tristate
Const == {"y", "m", "n"}
No == 0
Mod == 1
Yes == 2
ConstVal == [c \in Const |-> CASE c = "y" -> Yes [] c = "m" -> Mod [] c = "n" -> No]

Symbol(s) == <<"symbol", s>>
Not(e) == <<"not", e>>
Equal(s, t) == <<"equal", s, t>>
Unequal(s, t) == <<"unequal", s, t>>
And(e, f) == <<"and", e, f>>
Or(e, f) == <<"or", e, f>>
Null == <<"null">>

Op(e) == e[1]
Left(e) == e[2]
Right(e) == e[3]

Binary(e) == Op(e) \in {"and", "or"}
Leaf(e) == Op(e) \in {"symbol", "equal", "unequal"}
\* The symbol an "and" or an "or" does not change with
Neutral(op) == Symbol(IF op = "and" THEN "y" ELSE "n")

IsYes(e) == e \in {Null, Symbol("y")}
IsNo(e) == e = Symbol("n")

AllocAnd(e, f) == IF e = Null THEN f ELSE IF f = Null THEN e ELSE And(e, f)
AllocOr(e, f) == IF e = Null THEN f ELSE IF f = Null THEN e ELSE Or(e, f)

-----------------------------------------------------------------------------
MinOf(a, b) == IF a < b THEN a ELSE b
MaxOf(a, b) == IF a > b THEN a ELSE b

\* expr_calc_value; v gives the symbols their values
RECURSIVE Value(_, _)
Value(e, v) ==
    LET val(s) == IF s \in Const THEN ConstVal[s] ELSE v[s]
    IN  CASE Op(e) = "null" -> Yes
          [] Op(e) = "symbol" -> val(Left(e))
          [] Op(e) = "and" -> MinOf(Value(Left(e), v), Value(Right(e), v))
          [] Op(e) = "or" -> MaxOf(Value(Left(e), v), Value(Right(e), v))
          [] Op(e) = "not" -> Yes - Value(Left(e), v)
          [] Op(e) = "equal" -> IF val(Left(e)) = val(Right(e)) THEN Yes ELSE No
          [] Op(e) = "unequal" -> IF val(Left(e)) = val(Right(e)) THEN No ELSE Yes

RECURSIVE ContainsSymbol(_, _)
ContainsSymbol(e, s) ==
    CASE Binary(e) -> ContainsSymbol(Left(e), s) \/ ContainsSymbol(Right(e), s)
      [] Op(e) = "symbol" -> Left(e) = s
      [] Op(e) \in {"equal", "unequal"} -> s \in {Left(e), Right(e)}
      [] Op(e) = "not" -> ContainsSymbol(Left(e), s)
      [] OTHER -> FALSE

RECURSIVE DependsSymbol(_, _)
DependsSymbol(e, s) ==
    CASE Op(e) = "and" -> DependsSymbol(Left(e), s) \/ DependsSymbol(Right(e), s)
      [] Op(e) = "symbol" -> Left(e) = s
      [] Op(e) = "equal" -> Left(e) = s /\ Right(e) \in {"y", "m"}
      [] Op(e) = "unequal" -> Left(e) = s /\ Right(e) = "n"
      [] OTHER -> FALSE

-----------------------------------------------------------------------------
\* Both operands have been through EliminateYn.
YnAnd(e, f) ==
    IF Symbol("n") \in {e, f} THEN Symbol("n")
    ELSE IF e = Symbol("y") THEN f ELSE IF f = Symbol("y") THEN e ELSE And(e, f)
YnOr(e, f) ==
    IF e = Symbol("n") THEN f ELSE IF e = Symbol("y") THEN e
    ELSE IF f = Symbol("n") THEN e ELSE IF f = Symbol("y") THEN f ELSE Or(e, f)

RECURSIVE EliminateYn(_)
EliminateYn(e) ==
    CASE Op(e) = "and" -> YnAnd(EliminateYn(Left(e)), EliminateYn(Right(e)))
      [] Op(e) = "or" -> YnOr(EliminateYn(Left(e)), EliminateYn(Right(e)))
      [] OTHER -> e

\* expr_eliminate_eq and expr_eq: operands that both trees have, at any depth
\* of operators of one type, become neutral; equal trees lose them all.
RECURSIVE Eq(_, _), EliminateEqOf(_, _, _)
EliminateEqOf(op, e, f) ==
    IF Op(e) = op THEN
        LET l == EliminateEqOf(op, Left(e), f)
            r == EliminateEqOf(op, Right(e), l[2])
        IN  <<<<op, l[1], r[1]>>, r[2]>>
    ELSE IF Op(f) = op THEN
        LET l == EliminateEqOf(op, e, Left(f))
            r == EliminateEqOf(op, l[1], Right(f))
        IN  <<r[1], <<op, l[2], r[2]>>>>
    ELSE IF Eq(e, f) /\ e \notin {Symbol("y"), Symbol("n")}
    THEN <<Neutral(op), Neutral(op)>>
    ELSE <<e, f>>

\* Of a pair, by the operator of its left tree, then by that of its right one
EqByLeft(e, f) == IF Binary(e) THEN EliminateEqOf(Op(e), e, f) ELSE <<e, f>>
EqByRight(x) ==
    IF Op(x[1]) # Op(x[2]) /\ Binary(x[2]) THEN EliminateEqOf(Op(x[2]), x[1], x[2]) ELSE x
YnOfBoth(x) == <<EliminateYn(x[1]), EliminateYn(x[2])>>

EliminateEq(e, f) ==
    IF Null \in {e, f} THEN <<e, f>> ELSE YnOfBoth(EqByRight(EqByLeft(e, f)))

OneSymbol(x) == Op(x[1]) = "symbol" /\ x[1] = x[2]

Eq(e, f) ==
    /\ Op(e) = Op(f)
    /\ CASE Leaf(e) -> e = f
         [] Op(e) = "not" -> Eq(Left(e), Left(f))
         [] Binary(e) -> OneSymbol(EliminateEq(e, f))
         [] OTHER -> FALSE

-----------------------------------------------------------------------------
\* FOO!=n => FOO
RECURSIVE TransBool(_)
TransBool(e) ==
    CASE Binary(e) -> <<Op(e), TransBool(Left(e)), TransBool(Right(e))>>
      [] Op(e) = "not" -> Not(TransBool(Left(e)))
      [] Op(e) = "unequal" /\ Left(e) \in Tristate /\ Right(e) = "n" -> Symbol(Left(e))
      [] OTHER -> e

Opposite(op) == CASE op = "equal" -> "unequal" [] op = "unequal" -> "equal"
                  [] op = "and" -> "or" [] op = "or" -> "and"

\* A comparison of a boolean symbol: is it e, when it is equal to c?
BooleanTest(e, equal) ==
    LET s == Left(e) c == Right(e)
    IN  CASE c = "m" -> Symbol(IF equal THEN "n" ELSE "y")
          [] c = (IF equal THEN "y" ELSE "n") -> Symbol(s)
          [] c = (IF equal THEN "n" ELSE "y") -> Not(Symbol(s))
          [] OTHER -> e

RECURSIVE Transform(_)
\* Mutant: the operator under a negation stays
TransformNotKeepsOp(e) ==
    CASE Op(e) = "not" -> Transform(Left(e))
      [] Op(e) \in {"equal", "unequal"} -> <<Opposite(Op(e)), Left(e), Right(e)>>
      [] Binary(e) -> Transform(<<Op(e), Not(Left(e)), Not(Right(e))>>)
      [] e = Symbol("y") -> Symbol("n")
      [] e = Symbol("m") -> Symbol("m")
      [] e = Symbol("n") -> Symbol("y")
      [] OTHER -> Not(e)

TransformNot(e) ==      \* of Not(e), e transformed
    CASE Op(e) = "not" -> Transform(Left(e))
      [] Op(e) \in {"equal", "unequal"} -> <<Opposite(Op(e)), Left(e), Right(e)>>
      [] Binary(e) -> Transform(<<Opposite(Op(e)), Not(Left(e)), Not(Right(e))>>)
      [] e = Symbol("y") -> Symbol("n")
      [] e = Symbol("m") -> Symbol("m")
      [] e = Symbol("n") -> Symbol("y")
      [] OTHER -> Not(e)

Transform(e) ==
    CASE Binary(e) -> <<Op(e), Transform(Left(e)), Transform(Right(e))>>
      [] Op(e) = "not" -> TransformNot(Transform(Left(e)))
      [] Op(e) \in {"equal", "unequal"} /\ Left(e) \in Boolean ->
            BooleanTest(e, Op(e) = "equal")
      [] OTHER -> e

\* e = sym or e # sym as an expression without operands that are "m"
RECURSIVE TransCompare(_, _, _)
TransCompare(e, type, c) ==
    LET signed(f) == IF type = "unequal" THEN Not(f) ELSE f
        l == TransCompare(Left(e), "equal", c)
        r == TransCompare(Right(e), "equal", c)
    IN  CASE Op(e) = "null" -> signed(Symbol(c))
          [] Binary(e) -> signed(CASE c = "y" -> <<Op(e), l, r>>
                                   [] c = "n" -> <<Opposite(Op(e)), l, r>>
                                   [] OTHER -> e)
          [] Op(e) = "not" -> TransCompare(Left(e), Opposite(type), c)
          [] Op(e) \in {"equal", "unequal"} ->
                (CASE c = "y" -> signed(e)
                   [] c = "m" -> Symbol(IF type = "equal" THEN "n" ELSE "y")
                   [] c = "n" -> IF type = "equal" THEN Not(e) ELSE e)
          [] Op(e) = "symbol" -> <<type, Left(e), c>>

-----------------------------------------------------------------------------
\* What two operands of an "or" or an "and" are worth together, or Null
Joinable(e, f) ==
    /\ Leaf(e) \/ (Op(e) = "not" /\ Leaf(Left(e)))
    /\ Leaf(f) \/ (Op(f) = "not" /\ Op(Left(f)) = "symbol")
    /\ LET s(g) == IF Op(g) = "not" THEN Left(Left(g)) ELSE Left(g)
       IN  s(e) = s(f) /\ s(e) \in Boolean \cup Tristate
OfSymbol(e) == IF Op(e) = "not" THEN Left(Left(e)) ELSE Left(e)

JoinOr(e, f) ==
    IF Eq(e, f) THEN e
    ELSE IF ~Joinable(e, f) THEN Null
    ELSE LET s == OfSymbol(e)
         IN  CASE s \in Tristate /\ Op(e) = "equal" /\ Op(f) = "equal"
                  /\ {Right(e), Right(f)} \subseteq Const ->
                    Unequal(s, CHOOSE c \in Const : c \notin {Right(e), Right(f)})
               [] s \in Boolean /\ {e, f} = {Symbol(s), Not(Symbol(s))} -> Symbol("y")
               [] OTHER -> Null

JoinAnd(e, f) ==
    IF Eq(e, f) THEN e
    ELSE IF ~Joinable(e, f) THEN Null
    ELSE LET s == OfSymbol(e)
             both == {e, f}
             symbol == Symbol(s) \in both
         IN  CASE symbol /\ Equal(s, "y") \in both -> Equal(s, "y")
               [] symbol /\ Unequal(s, "n") \in both -> Symbol(s)
               [] symbol /\ Unequal(s, "m") \in both -> Equal(s, "y")
               [] s \notin Tristate -> Null
               [] /\ {Op(e), Op(f)} = {"equal", "unequal"}
                  /\ {Right(e), Right(f)} \subseteq Const ->
                    IF Right(e) = Right(f) THEN Symbol("n")
                    ELSE Equal(s, Right(IF Op(e) = "equal" THEN e ELSE f))
               [] /\ Op(e) = "unequal" /\ Op(f) = "unequal"
                  /\ {Right(e), Right(f)} \subseteq Const ->
                    Equal(s, CHOOSE c \in Const : c \notin {Right(e), Right(f)})
               [] OTHER -> Null

Join(op, e, f) == IF op = "or" THEN JoinOr(e, f) ELSE JoinAnd(e, f)

-----------------------------------------------------------------------------
\* A place in a tree is a sequence of 2 (left) and 3 (right).
RECURSIVE At(_, _), Put(_, _, _)
At(t, p) == IF p = <<>> THEN t ELSE At(t[Head(p)], Tail(p))
Put(t, p, e) ==
    IF p = <<>> THEN e ELSE [t EXCEPT ![Head(p)] = Put(t[Head(p)], Tail(p), e)]

\* The places, left to right, of the operands of an op at place p
RECURSIVE Operands(_, _, _)
Operands(op, t, p) ==
    IF Op(At(t, p)) = op
    THEN Operands(op, t, p \o <<2>>) \o Operands(op, t, p \o <<3>>)
    ELSE <<p>>

\* A tree being reduced, and whether trans_count has moved
Red(t, c) == [tree |-> t, moved |-> c]

\* expr_eliminate_dups1: of two operands that join, the first becomes neutral
\* and the second is what they join to.
Joined(op, r, p, q, j) ==
    IF j = Null THEN r ELSE Red(Put(Put(r.tree, p, Neutral(op)), q, j), TRUE)
JoinAt(op, r, p, q) == Joined(op, r, p, q, Join(op, At(r.tree, p), At(r.tree, q)))

RECURSIVE Dups1(_, _, _, _)
Dups1(op, r, p, q) ==
    LET e == At(r.tree, p)
    IN  IF Op(e) = op
        THEN Dups1(op, Dups1(op, r, p \o <<2>>, q), p \o <<3>>, q)
        ELSE IF Op(At(r.tree, q)) = op
        THEN Dups1(op, Dups1(op, r, p, q \o <<2>>), p, q \o <<3>>)
        ELSE IF p = q THEN r
        ELSE JoinAt(op, IF Binary(e) THEN Dups1(Op(e), r, p, p) ELSE r, p, q)

\* expr_extract_eq: what e and f have in common, or Null, and what is left
RECURSIVE ExtractEq(_, _, _, _)
ExtractEq(op, x, e, f) ==
    IF Op(e) = op THEN
        LET l == ExtractEq(op, x, Left(e), f)
            r == ExtractEq(op, l[1], Right(e), l[3])
        IN  <<r[1], <<op, l[2], r[2]>>, r[3]>>
    ELSE IF Op(f) = op THEN
        LET l == ExtractEq(op, x, e, Left(f))
            r == ExtractEq(op, l[1], l[2], Right(f))
        IN  <<r[1], r[2], <<op, l[3], r[3]>>>>
    ELSE IF Eq(e, f)
    THEN <<IF x = Null THEN e ELSE <<op, x, e>>, Neutral(op), Neutral(op)>>
    ELSE <<x, e, f>>

\* What is left of e without the operands of f
LeftOf(e, x) == IF x[1] = Null THEN e ELSE EliminateYn(x[2])
Remainder(op, e, f) == LeftOf(e, ExtractEq(op, Null, e, f))

\* expr_eliminate_dups2: (FOO || BAR) && (!FOO && !BAR) -> n and
\* (FOO && BAR) || (!FOO || !BAR) -> y
Contradict(op, e, f) == Remainder(op, Transform(Not(e)), f) = Neutral(op)
Resolved(op, r, p, q) ==
    IF Contradict(op, At(r.tree, p), At(r.tree, q))
    THEN Red(Put(r.tree, p, Symbol(IF op = "and" THEN "n" ELSE "y")), TRUE)
    ELSE r

RECURSIVE Dups2(_, _, _, _), Dups2Under(_, _, _, _)
Dups2(op, r, p, q) ==
    IF Op(At(r.tree, p)) = op
    THEN Dups2(op, Dups2(op, r, p \o <<2>>, q), p \o <<3>>, q)
    ELSE Dups2Under(op, IF Op(At(r.tree, q)) = op
                        THEN Dups2(op, Dups2(op, r, p, q \o <<2>>), p, q \o <<3>>)
                        ELSE r, p, q)

Dups2Under(op, r, p, q) ==      \* the operand at p is no op
    IF p = q \/ ~Binary(At(r.tree, p)) THEN r
    ELSE Resolved(op, Dups2(Op(At(r.tree, p)), r, p, p), p, q)

RECURSIVE EliminateDups(_), WhileMoved(_)
WhileMoved(r) == IF r.moved THEN EliminateDups(EliminateYn(r.tree)) ELSE r.tree
EliminateDups(e) ==
    IF ~Binary(e) THEN e
    ELSE WhileMoved(Dups2(Op(e), Dups1(Op(e), Red(e, FALSE), <<>>, <<>>), <<>>, <<>>))

-----------------------------------------------------------------------------
\* expr_get_leftmost_symbol
RECURSIVE Leftmost(_)
Leftmost(e) == IF Op(e) \in {"null", "symbol"} THEN e ELSE Leftmost(Left(e))

\* expr_simplify_unmet_dep: the symbols of e, a rev_dep, that select although
\* the direct dependencies f are not met
RECURSIVE SimplifyUnmetDep(_, _)
SimplifyUnmetDep(e, f) ==
    CASE Op(e) = "or" ->
            AllocAnd(SimplifyUnmetDep(Left(e), f), SimplifyUnmetDep(Right(e), f))
      [] Op(e) = "and" ->
            IF Eq(EliminateDups(And(e, f)), e) THEN Null ELSE Leftmost(e)
      [] OTHER -> Leftmost(e)
=============================================================================
