----------------------------- MODULE KSamples -----------------------------
(***************************************************************************)
(* Small Kconfig files: a choice whose values come and go, selections and  *)
(* defaults, numbers with ranges that depend on one another.               *)
(***************************************************************************)
EXTENDS KConfFile

Entry(kind, s, dep, parent) ==
    [kind |-> kind, sym |-> s, prompt |-> kind # "if", if |-> Null, dep |-> dep,
     visibility |-> Null, defaults |-> <<>>, ranges |-> <<>>, selects |-> <<>>,
     optional |-> kind # "choice", parent |-> parent]
Config(s, dep, parent) == Entry("config", s, dep, parent)
Is(x, c) == [value |-> x, if |-> c]
On(c) == Is(Symbol("y"), c)

\* A choice of A and, with D, of B; with A, E is on by default.
ChoiceTree ==
    <<Config("D", Null, 0),
      [Entry("choice", "C", Null, 0) EXCEPT !.defaults = <<Is(Symbol("B"), Null)>>],
      Config("A", Null, 2), Config("B", Symbol("D"), 2),
      [Config("E", Null, 0) EXCEPT !.prompt = FALSE, !.defaults = <<On(Symbol("A"))>>]>>

\* The choice may be off; E shows it.
OptionalTree ==
    <<Config("E", Null, 0),
      [Entry("choice", "C", Symbol("E"), 0) EXCEPT !.optional = TRUE],
      Config("A", Null, 2), Config("B", Null, 2)>>

\* D selects A, which needs E; B has a prompt only with A.
SelectTree ==
    <<[Config("D", Null, 0) EXCEPT !.selects = <<[target |-> "A", if |-> Null]>>,
                                   !.defaults = <<On(Symbol("E"))>>],
      [Config("A", Symbol("E"), 0) EXCEPT !.prompt = FALSE, !.defaults = <<On(Symbol("E"))>>],
      [Config("B", Null, 0) EXCEPT !.if = Symbol("A"), !.defaults = <<On(Not(Symbol("D")))>>],
      Config("E", Null, 0)>>

\* I is at most J; both are shown with D.
NumberTree ==
    <<Config("D", Null, 0),
      [Config("I", Symbol("D"), 0) EXCEPT
          !.defaults = <<Is(NumberConst(1), Null)>>,
          !.ranges = <<[low |-> NumberConst(1), high |-> Symbol("J"), if |-> Null]>>],
      [Config("J", Null, 0) EXCEPT
          !.defaults = <<Is(NumberConst(2), Null)>>,
          !.ranges = <<[low |-> NumberConst(1), high |-> NumberConst(3), if |-> Null]>>]>>

\* A menu that is shown with D, which asks for more
MenuTree ==
    <<[Entry("menu", NoSymbol, Symbol("D"), 0) EXCEPT !.prompt = TRUE],
      Config("A", Null, 1), Config("B", Symbol("A"), 1),
      Config("D", Null, 0), Config("E", Not(Symbol("B")), 0)>>

Named == [choice |-> ChoiceTree, optional |-> OptionalTree, select |-> SelectTree,
          number |-> NumberTree, menu |-> MenuTree]
ParsedSamples ==
    LET conf_parse(n) == Table(Named[n])
    IN  [n \in DOMAIN Named |-> conf_parse(n)]

FilesOf(n) ==
    {<<>>} \cup
    CASE n = "choice" -> {<<Line("A", Yes), Line("B", Yes), Line(NoSymbol, Yes)>>}
      [] n = "optional" -> {<<Line("E", Yes), Line("A", Yes), Line("B", No)>>}
      [] n = "select" -> {<<Line("A", No), Line("B", Yes), Line("D", Yes)>>}
      [] n = "menu" -> {<<Line("D", Yes), Line("E", Yes)>>}
      [] n = "number" -> {<<Line("D", Yes), Line("I", 2), Line("J", 3)>>}
=============================================================================
