-------------------------------- MODULE MCMenu --------------------------------
(* Kconfig files over three symbols and a choice: every combination of a few  *)
(* conditions, inside nothing, an "if", a menu or a choice.                   *)
EXTENDS MenuTree

MCOrder == <<"A", "B", "C", "CH">>

S(x) == expr_alloc_symbol(x)

And(x, y) == expr_alloc_and(x, y)

\* conditions an entry after A may carry
Conds == {NULL, S("A"), expr_alloc_one(S("A")), expr_alloc_comp("UNEQUAL", "A", "n"),
          expr_alloc_two("OR", S("A"), S("C")), expr_alloc_two("OR", S("A"), expr_alloc_one(S("A"))),
          expr_alloc_one(expr_alloc_two("AND", S("A"), S("C")))}

Few == {NULL, S("A"), S("B"), expr_alloc_one(S("A"))}

Depends(e) == IF e = NULL THEN << >> ELSE << <<"depends", e>> >>

Config(s, t, e) == << <<"config", s>>, <<"type", t>>, <<"prompt", NULL>> >> \o Depends(e)

\* a list of entries wrapped into nothing, an if, a menu with "visible if", a choice
Wraps(b, e) ==
  {b,
   << <<"if", e>> >> \o b \o << <<"end">> >>,
   << <<"menu">>, <<"visible", e>>, <<"begin">> >> \o b \o << <<"end">> >>,
   << <<"choice", "CH">>, <<"prompt", e>>, <<"begin">> >> \o b \o << <<"end">> >>,
   << <<"choice", "CH">>, <<"type", "tristate">>, <<"prompt", NULL>>, <<"optional">>, <<"begin">> >>
      \o b \o << <<"end">> >>}

\* A, then B and C one after the other, B with a condition, C with one and a select
FlatFiles ==
  {Config("A", "boolean", NULL) \o << <<"menuconfig">> >> \o Config("B", tb, e)
     \o << <<"config", "C">>, <<"type", "boolean">>, <<"prompt", f>> >> :
       tb \in {"boolean", "tristate"}, e \in Conds, f \in Few}
  \cup {Config("A", "boolean", e) \o Config("B", "boolean", NULL)
          \o << <<"select", "A", g>> >> \o Config("C", "boolean", f) \o << <<"default", h, NULL>> >> :
       e \in {NULL, S("B"), S("C")}, f \in Few, g \in {NULL, S("C")}, h \in {S("n"), S("A"), S("B")}}

WrappedFiles ==
  UNION {Wraps(Config("B", t, e) \o Config("C", "boolean", f), g) :
           t \in {"boolean", "tristate"}, e \in Few, f \in {NULL, S("A"), S("B")}, g \in {S("A"), S("C")}}

\* B after A, where A itself has a condition
ChainFiles ==
  {Config("C", "boolean", NULL) \o Config("A", "boolean", c) \o Config("B", t, And(e, f)) :
     c \in {S("C"), expr_alloc_one(S("C"))}, t \in {"boolean", "tristate"},
     e \in Conds, f \in {NULL, S("C"), expr_alloc_one(S("C"))}}

\* lists within lists, an entry defined twice, and 'm' in a condition
NestedFiles ==
  {Config("A", "boolean", NULL) \o << <<"option", "modules">>, <<"if", e>>, <<"if", f>> >>
     \o Config("B", "tristate", g) \o << <<"end">> >> \o Config("C", "boolean", h)
     \o << <<"range", "A", "A", NULL>>, <<"end">> >> \o Config("C", "boolean", e)
     \o << <<"option", "allnoconfig_y">> >> :
       e \in Few, f \in {S("A"), S("C")}, g \in {NULL, S("m"), expr_alloc_one(S("m"))},
       h \in {NULL, S("B"), And(S("A"), S("m"))}}

\* A and B, one of them inside an if or both in a choice, select C
SelectFiles ==
  LET Sel(s, t, e, g) ==
        Config(s, t, e) \o << <<"select", "C", g>> >>
      Inside(e, b) == IF e = NULL THEN b ELSE << <<"if", e>> >> \o b \o << <<"end">> >>
  IN  {Sel("A", "boolean", e, NULL) \o Inside(f, Sel("B", t, NULL, g)) \o Config("C", "tristate", h) :
         e \in {NULL, S("B")}, f \in Few, t \in {"boolean", "tristate"},
         g \in {NULL, S("A"), expr_alloc_one(S("A"))}, h \in {NULL, S("A")}}
      \cup UNION {{w \o Config("C", "boolean", f) :
                      w \in Wraps(Sel("A", "boolean", e, NULL) \o Sel("B", "boolean", NULL, g), f)} :
                    e \in {NULL, S("C")}, g \in {NULL, expr_alloc_one(S("A"))},
                    f \in {S("A"), S("C")}}

MCOrders == {f \in [1..4 -> SymNames] : ToSet(f) = SymNames}

MCFiles == SelectFiles \cup ChainFiles \cup NestedFiles \cup FlatFiles \cup {Config("A", "boolean", NULL) \o w : w \in WrappedFiles}
                     \cup {w \o Config("A", "boolean", S("B")) \o << <<"comment">> >> : w \in WrappedFiles}
===============================================================================
