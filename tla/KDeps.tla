------------------------------- MODULE KDeps -------------------------------
(***************************************************************************)
(* What menu_finalize (support/kconfig/menu.c) does to the dependencies of *)
(* a menu entry with the operators of KExpr: they are transformed, joined  *)
(* with those of the parent, rid of duplicates, made boolean; and a later  *)
(* entry is put under an earlier one when its dependencies, compared with  *)
(* "n", contain all those of the earlier one.                              *)
(***************************************************************************)
EXTENDS KExpr

CONSTANTS
    Parsed,     \* dependencies as the parser builds them
    Parents     \* the same, of the entry above

VARIABLES
    was,        \* the dependencies as they were parsed
    base,       \* those of the entry above
    dep,        \* what the entry's have become
    above,      \* what those of the entry above have become
    stage       \* how far menu_finalize is with the entry

vars == <<was, base, dep, above, stage>>

Init ==
    /\ was \in Parsed /\ base \in Parents
    /\ dep = was /\ above = base
    /\ stage = "parsed"

\* basedep = expr_transform(menu->dep), for both entries
TransformDep ==
    /\ stage = "parsed"
    /\ dep' = Transform(dep)
    /\ above' = Transform(above)
    /\ stage' = "transformed"
    /\ UNCHANGED <<was, base>>

\* basedep = expr_eliminate_dups(expr_alloc_and(parentdep, basedep))
JoinParent ==
    /\ stage = "transformed"
    /\ dep' = EliminateDups(AllocAnd(above, dep))
    /\ above' = EliminateDups(above)
    /\ stage' = "joined"
    /\ UNCHANGED <<was, base>>

\* An entry that only follows the other one
Reduce ==
    /\ stage = "transformed"
    /\ dep' = EliminateDups(dep)
    /\ above' = EliminateDups(above)
    /\ stage' = "reduced"
    /\ UNCHANGED <<was, base>>

\* dep = expr_trans_bool(dep), the symbol not being a tristate
MakeBool ==
    /\ stage = "reduced"
    /\ dep' = TransBool(dep)
    /\ above' = TransBool(above)
    /\ stage' = "bool"
    /\ UNCHANGED <<was, base>>

\* Whether dep, compared with "n", contains all that is in above
Compare(e) == EliminateDups(Transform(TransCompare(e, "unequal", "n")))
\* Mutant: the entry that is looked at is the wrong one
CompareWithOther ==
    /\ stage = "bool"
    /\ \E r \in {EliminateEq(Compare(dep), Compare(above))} : dep' = r[1] /\ above' = r[2]
    /\ stage' = IF IsYes(dep') THEN "under" ELSE "next to"
    /\ UNCHANGED <<was, base>>

CompareWith ==
    /\ stage = "bool"
    /\ \E r \in {EliminateEq(Compare(dep), Compare(above))} : dep' = r[1] /\ above' = r[2]
    /\ stage' = IF IsYes(above') THEN "under" ELSE "next to"
    /\ UNCHANGED <<was, base>>

Finished ==
    /\ stage \in {"joined", "under", "next to"}
    /\ UNCHANGED vars

Next == TransformDep \/ JoinParent \/ Reduce \/ MakeBool \/ CompareWith \/ Finished

Spec == Init /\ [][Next]_vars

-----------------------------------------------------------------------------
\* The values the symbols may have
Valuations == {v \in [Tristate \cup Boolean -> {No, Mod, Yes}] :
                  \A s \in Boolean : v[s] # Mod}

Same(e, f) == \A v \in Valuations : Value(e, v) = Value(f, v)

RECURSIVE Normal(_)
Normal(e) ==
    CASE Binary(e) -> Normal(Left(e)) /\ Normal(Right(e))
      [] Op(e) = "not" -> Op(Left(e)) = "symbol" /\ Left(Left(e)) \notin Const
      [] Op(e) \in {"equal", "unequal"} -> Left(e) \notin Boolean \/ Right(e) \notin Const
      [] OTHER -> TRUE

(***************************************************************************)
(* expr_transform leaves negations on symbols only, and no comparison of a *)
(* boolean symbol: the rewriting that follows relies on it.                *)
(***************************************************************************)
NormalForm == stage \in {"transformed", "joined", "reduced"} => Normal(dep)

(***************************************************************************)
(* expr_transform and expr_eliminate_dups do not change what the           *)
(* dependencies are worth, whatever the values of the symbols.             *)
(***************************************************************************)
SameValue ==
    /\ stage \in {"transformed", "reduced"} => Same(dep, was) /\ Same(above, base)
    /\ stage = "joined" =>
        \A v \in Valuations : Value(dep, v) = MinOf(Value(base, v), Value(was, v))

(***************************************************************************)
(* With tristate symbols the duplicates (FOO || BAR) && (!FOO && !BAR) and *)
(* their dual go although they may be worth "m": nothing but an "m" is     *)
(* ever lost, and none by expr_transform.                                  *)
(***************************************************************************)
OnlyModLost ==
    /\ stage = "transformed" => Same(dep, was)
    /\ stage = "reduced" =>
        \A v \in Valuations :
            Value(dep, v) # Value(was, v) => Value(was, v) = Mod

(***************************************************************************)
(* expr_trans_bool makes FOO!=n into FOO, which is worth less if FOO is    *)
(* "m"; but a boolean symbol is visible for "m" too, so that no dependency *)
(* is met or missed for it.                                                *)
(***************************************************************************)
SameTruth ==
    stage = "bool" =>
        \A v \in Valuations :
            Value(dep, v) = No <=> Value(EliminateDups(Transform(was)), v) = No

(***************************************************************************)
(* An entry that menu_finalize puts under another one has its dependencies *)
(* met only when those of the other one are: a menu entry is not hidden    *)
(* with an entry that it does not depend on.                               *)
(***************************************************************************)
UnderDepends ==
    stage = "under" =>
        \A v \in Valuations : Value(was, v) # No => Value(base, v) # No

(***************************************************************************)
(* Two expressions that expr_eq takes for equal are worth the same.        *)
(***************************************************************************)
EqIsSame == Eq(dep, above) => Same(dep, above)

(***************************************************************************)
(* When a symbol with the direct dependencies "was" is selected by "base"  *)
(* although they are not met, the warning sym_calc_value prints names a    *)
(* symbol that selects it.                                                 *)
(***************************************************************************)
UnmetIsNamed ==
    stage = "reduced" =>
        \A v \in Valuations :
            Value(dep, v) = No /\ Value(above, v) # No =>
                SimplifyUnmetDep(above, dep) # Null
=============================================================================
