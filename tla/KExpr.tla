-------------------------------- MODULE KExpr --------------------------------
(* Dependency expressions of the configuration tool: kconfig/expr.c.          *)
(*                                                                            *)
(* An expression is a tuple that starts with its type (expr.h: E_OR, E_AND,   *)
(* E_NOT, E_EQUAL, E_UNEQUAL, E_SYMBOL); NULL is the absent expression, which *)
(* counts as yes.  A symbol is its name; ty[s] is its type, with "const" for  *)
(* the unknown type of a symbol that carries SYMBOL_CONST.  The C functions   *)
(* that rewrite a tree in place through two pointers into it (the macros e1   *)
(* and e2) are operators on a tree and two PATHS into it, so that writing     *)
(* through one pointer is seen through the other, and "e1 == e2" is equality  *)
(* of paths.                                                                  *)
EXTENDS Naturals, Sequences, FiniteSets

\* enum tristate
no == 0
mod == 1
yes == 2

\* EXPR_AND, EXPR_OR and EXPR_NOT of expr.h
EXPR_AND(a, b) == IF a < b THEN a ELSE b

EXPR_OR(a, b) == IF a > b THEN a ELSE b

EXPR_NOT(a) == 2 - a

\* symbol_yes, symbol_mod and symbol_no: the constants of the language
Tri(name) == CASE name = "y" -> yes [] name = "m" -> mod [] name = "n" -> no

Constants == {"y", "m", "n"}

------------------------------------------------------------------------------
\* F of the value of x, which is computed once
With(x, F(_)) == CHOOSE r \in {F(y) : y \in {x}} : TRUE

(* Nodes and their constructors.                                              *)
NULL == << >>

Type(e) == e[1]

Is(e, t) == e # NULL /\ e[1] = t

IsSym(e, s) == Is(e, "SYMBOL") /\ e[2] = s

expr_alloc_symbol(s) == <<"SYMBOL", s>>

expr_alloc_one(e) == <<"NOT", e>>

expr_alloc_two(type, l, r) == <<type, l, r>>

expr_alloc_comp(type, s1, s2) == <<type, s1, s2>>

expr_alloc_and(l, r) == IF l = NULL THEN r ELSE IF r = NULL THEN l ELSE <<"AND", l, r>>

expr_alloc_or(l, r) == IF l = NULL THEN r ELSE IF r = NULL THEN l ELSE <<"OR", l, r>>

Comparison(e) == e # NULL /\ Type(e) \in {"EQUAL", "UNEQUAL"}

Junction(e) == e # NULL /\ Type(e) \in {"AND", "OR"}

expr_is_yes(e) == e = NULL \/ IsSym(e, "y")

expr_is_no(e) == IsSym(e, "n")

\* what the pointer at path p points to, and the tree after a write through it
RECURSIVE At(_, _)
At(e, p) == IF p = << >> THEN e ELSE At(e[1 + p[1]], Tail(p))

RECURSIVE Put(_, _, _)
Put(e, p, x) == IF p = << >> THEN x
                ELSE [e EXCEPT ![1 + p[1]] = Put(@, Tail(p), x)]

Left(p) == Append(p, 1)

Right(p) == Append(p, 2)

\* the neutral element of an operator: what a removed operand is replaced by
Neutral(type) == expr_alloc_symbol(IF type = "OR" THEN "n" ELSE "y")

Absorbing(type) == expr_alloc_symbol(IF type = "OR" THEN "y" ELSE "n")

\* Mutant: a neutral operand on the right is left in place
RECURSIVE EliminateYnLeft(_)
EliminateYnLeft(e) ==
  IF ~Junction(e) THEN e
  ELSE LET l == EliminateYnLeft(e[2])
           r == EliminateYnLeft(e[3])
       IN  IF l = Absorbing(e[1]) THEN l ELSE IF l = Neutral(e[1]) THEN r
           ELSE IF r = Absorbing(e[1]) THEN r ELSE <<e[1], l, r>>

\* constant operands are folded away, bottom up
RECURSIVE expr_eliminate_yn(_)
expr_eliminate_yn(e) ==
  IF ~Junction(e) THEN e
  ELSE LET l == expr_eliminate_yn(e[2])
           r == expr_eliminate_yn(e[3])
       IN  IF l = Absorbing(e[1]) THEN l
           ELSE IF l = Neutral(e[1]) THEN r
           ELSE IF r = Absorbing(e[1]) THEN r
           ELSE IF r = Neutral(e[1]) THEN l
           ELSE <<e[1], l, r>>

------------------------------------------------------------------------------
(* Equality of two expressions up to the order and repetition of operands:    *)
(* the operands that occur in both are replaced by the neutral element, and   *)
(* what is left over must be the same constant.                               *)
RECURSIVE expr_eq(_, _)
RECURSIVE ElimEq(_, _, _, _)

\* two operands that are taken out: equal, and not the same constant
SameLeaf(e1, e2) == ~(e1 = e2 /\ (IsSym(e1, "y") \/ IsSym(e1, "n"))) /\ expr_eq(e1, e2)

\* __expr_eliminate_eq: t is the pair of trees, p1 and p2 paths into them
ElimEq(type, t, p1, p2) ==
  IF At(t[1], p1)[1] = type
  THEN ElimEq(type, ElimEq(type, t, Left(p1), p2), Right(p1), p2)
  ELSE IF At(t[2], p2)[1] = type
  THEN ElimEq(type, ElimEq(type, t, p1, Left(p2)), p1, Right(p2))
  ELSE IF SameLeaf(At(t[1], p1), At(t[2], p2))
  THEN <<Put(t[1], p1, Neutral(type)), Put(t[2], p2, Neutral(type))>>
  ELSE t

expr_eliminate_eq(t) ==
  IF t[1] = NULL \/ t[2] = NULL THEN t
  ELSE With(IF Junction(t[1]) THEN ElimEq(t[1][1], t, << >>, << >>) ELSE t, LAMBDA a :
       With(IF a[1][1] # a[2][1] /\ Junction(a[2])
            THEN ElimEq(a[2][1], a, << >>, << >>) ELSE a, LAMBDA b :
       <<expr_eliminate_yn(b[1]), expr_eliminate_yn(b[2])>>))

\* the same constant is left of both
NothingLeft(t) == Type(t[1]) = "SYMBOL" /\ t[1] = t[2]

\* Mutant: the operands of two negations are not compared
EqNotOnly(e1, e2) ==
  /\ e1[1] = e2[1]
  /\ CASE Comparison(e1) \/ Type(e1) = "SYMBOL" -> e1 = e2
       [] Type(e1) = "NOT" -> TRUE
       [] Junction(e1) -> NothingLeft(expr_eliminate_eq(<<e1, e2>>))

expr_eq(e1, e2) ==
  /\ e1[1] = e2[1]
  /\ CASE Comparison(e1) \/ Type(e1) = "SYMBOL" -> e1 = e2
       [] Type(e1) = "NOT" -> expr_eq(e1[2], e2[2])
       [] Junction(e1) -> NothingLeft(expr_eliminate_eq(<<e1, e2>>))

------------------------------------------------------------------------------
(* Joining two operands of one || or && into a single one.                    *)
\* bool FOO!=n => FOO (the test in the code is for S_TRISTATE)
TransBoolHit(ty, e) == Is(e, "UNEQUAL") /\ ty[e[2]] = "tristate" /\ e[3] = "n"

RECURSIVE expr_trans_bool(_, _)
expr_trans_bool(ty, e) ==
  CASE e = NULL -> NULL
    [] Is(e, "NOT") -> <<"NOT", expr_trans_bool(ty, e[2])>>
    [] Junction(e) ->
         <<e[1], expr_trans_bool(ty, e[2]), expr_trans_bool(ty, e[3])>>
    [] TransBoolHit(ty, e) -> expr_alloc_symbol(e[2])
    [] OTHER -> e

\* the symbol both operands are about, or NULL when they cannot be joined
JoinSym(e1, e2) ==
  LET s1 == IF Is(e1, "NOT") THEN IF Junction(e1[2]) \/ Is(e1[2], "NOT") THEN NULL
                                  ELSE <<e1[2][2]>>
            ELSE IF Junction(e1) THEN NULL ELSE <<e1[2]>>
      s2 == IF Is(e2, "NOT") THEN IF Is(e2[2], "SYMBOL") THEN <<e2[2][2]>> ELSE NULL
            ELSE IF Junction(e2) THEN NULL ELSE <<e2[2]>>
  IN  IF s1 = s2 THEN s1 ELSE NULL

\* the two operands are of these types, in either order
Either(e1, e2, P(_, _)) == P(e1, e2) \/ P(e2, e1)

\* both compare with the same operator, with the two values v and w
Both(op, v, w, e1, e2) == /\ Is(e1, op) /\ Is(e2, op)
                          /\ {e1[3], e2[3]} = {v, w}

\* one operand is the symbol itself, the other compares it by op with v
SymAnd(op, v, e1, e2) ==
  LET P(a, b) == Is(a, "SYMBOL") /\ Is(b, op) /\ b[3] = v IN Either(e1, e2, P)

NotAndSym(a, b) == Is(a, "NOT") /\ Is(a[2], "SYMBOL") /\ Is(b, "SYMBOL")

JoinOrOf(ty, s, e1, e2) ==
  IF ty[s] = "boolean"
  THEN IF Either(e1, e2, NotAndSym) THEN expr_alloc_symbol("y") ELSE NULL
  ELSE CASE Both("EQUAL", "y", "m", e1, e2) -> expr_alloc_comp("UNEQUAL", s, "n")
         [] Both("EQUAL", "y", "n", e1, e2) -> expr_alloc_comp("UNEQUAL", s, "m")
         [] Both("EQUAL", "m", "n", e1, e2) -> expr_alloc_comp("UNEQUAL", s, "y")
         [] OTHER -> NULL

\* both operands are about the boolean or tristate symbol js
Joinable(ty, js) == js # NULL /\ ty[js[1]] \in {"boolean", "tristate"}

expr_join_or(ty, e1, e2) ==
  LET js == JoinSym(e1, e2)
  IN  IF expr_eq(e1, e2) THEN e1
      ELSE IF Joinable(ty, js) THEN JoinOrOf(ty, js[1], e1, e2) ELSE NULL

\* (a='b') && (a!='c') -> 'b'='c' ? 'n' : a='b', for constants b and c
EqAndNe(ty, s, eq, ne) ==
  IF eq[3] # ne[3] THEN expr_alloc_comp("EQUAL", s, eq[3]) ELSE expr_alloc_symbol("n")

JoinAndOf(ty, s, e1, e2) ==
  LET Consts == ty[e1[3]] = "const" /\ ty[e2[3]] = "const"
  IN  IF SymAnd("EQUAL", "y", e1, e2) THEN expr_alloc_comp("EQUAL", s, "y")
      ELSE IF SymAnd("UNEQUAL", "n", e1, e2) THEN expr_alloc_symbol(s)
      ELSE IF SymAnd("UNEQUAL", "m", e1, e2) THEN expr_alloc_comp("EQUAL", s, "y")
      ELSE IF ty[s] # "tristate" THEN NULL
      ELSE CASE Is(e1, "EQUAL") /\ Is(e2, "UNEQUAL") /\ Consts -> EqAndNe(ty, s, e1, e2)
             [] Is(e1, "UNEQUAL") /\ Is(e2, "EQUAL") /\ Consts -> EqAndNe(ty, s, e2, e1)
             [] Both("UNEQUAL", "y", "n", e1, e2) -> expr_alloc_comp("EQUAL", s, "m")
             [] Both("UNEQUAL", "y", "m", e1, e2) -> expr_alloc_comp("EQUAL", s, "n")
             [] Both("UNEQUAL", "m", "n", e1, e2) -> expr_alloc_comp("EQUAL", s, "y")
             [] OTHER -> NULL

expr_join_and(ty, e1, e2) ==
  LET js == JoinSym(e1, e2)
  IN  IF expr_eq(e1, e2) THEN e1
      ELSE IF Joinable(ty, js) THEN JoinAndOf(ty, js[1], e1, e2) ELSE NULL

------------------------------------------------------------------------------
(* Negations are pushed down to the symbols, and comparisons of a boolean     *)
(* symbol with a constant become the symbol, its negation or a constant.      *)
RECURSIVE expr_transform(_, _)

\* E_EQUAL and E_UNEQUAL
TransformComp(ty, e) ==
  LET s == expr_alloc_symbol(e[2])
      eq == Is(e, "EQUAL")
  IN  IF ty[e[2]] # "boolean" \/ e[3] \notin Constants THEN e
      ELSE CASE e[3] = "n" -> IF eq THEN expr_alloc_one(s) ELSE s
             [] e[3] = "m" -> expr_alloc_symbol(IF eq THEN "n" ELSE "y")
             [] e[3] = "y" -> IF eq THEN s ELSE expr_alloc_one(s)

\* Mutant: a negation is distributed without turning || into &&
TransformNotSameOp(ty, x) ==
  IF Junction(x)
  THEN expr_transform(ty, <<x[1], expr_alloc_one(x[2]), expr_alloc_one(x[3])>>)
  ELSE IF Type(x) = "EQUAL" THEN <<"UNEQUAL", x[2], x[3]>> ELSE expr_alloc_one(x)

\* E_NOT, its operand x already transformed
TransformNot(ty, x) ==
  CASE Type(x) = "NOT" -> expr_transform(ty, x[2])
    [] Type(x) = "EQUAL" -> <<"UNEQUAL", x[2], x[3]>>
    [] Type(x) = "UNEQUAL" -> <<"EQUAL", x[2], x[3]>>
    [] Type(x) = "OR" ->
         expr_transform(ty, <<"AND", expr_alloc_one(x[2]), expr_alloc_one(x[3])>>)
    [] Type(x) = "AND" ->
         expr_transform(ty, <<"OR", expr_alloc_one(x[2]), expr_alloc_one(x[3])>>)
    [] x = expr_alloc_symbol("y") -> expr_alloc_symbol("n")
    [] x = expr_alloc_symbol("m") -> expr_alloc_symbol("m")
    [] x = expr_alloc_symbol("n") -> expr_alloc_symbol("y")
    [] OTHER -> expr_alloc_one(x)

expr_transform(ty, e) ==
  CASE e = NULL -> NULL
    [] Is(e, "SYMBOL") -> e
    [] Comparison(e) -> TransformComp(ty, e)
    [] Is(e, "NOT") -> TransformNot(ty, expr_transform(ty, e[2]))
    [] Junction(e) ->
         <<e[1], expr_transform(ty, e[2]), expr_transform(ty, e[3])>>

\* expr_extract_eq: the operands common to both trees of t are taken out of them
\* and collected in t[3]
RECURSIVE ExtractEq(_, _, _, _)
ExtractEq(type, t, p1, p2) ==
  IF At(t[1], p1)[1] = type
  THEN ExtractEq(type, ExtractEq(type, t, Left(p1), p2), Right(p1), p2)
  ELSE IF At(t[2], p2)[1] = type
  THEN ExtractEq(type, ExtractEq(type, t, p1, Left(p2)), p1, Right(p2))
  ELSE IF ~expr_eq(At(t[1], p1), At(t[2], p2)) THEN t
  ELSE <<Put(t[1], p1, Neutral(type)), Put(t[2], p2, Neutral(type)),
         IF t[3] = NULL THEN At(t[1], p1) ELSE <<type, t[3], At(t[1], p1)>>>>

\* expr_extract_eq_and and expr_extract_eq_or
expr_extract_eq(type, e1, e2) ==
  With(ExtractEq(type, <<e1, e2, NULL>>, << >>, << >>), LAMBDA t :
       IF t[3] = NULL THEN t
       ELSE <<expr_eliminate_yn(t[1]), expr_eliminate_yn(t[2]), t[3]>>)

------------------------------------------------------------------------------
(* Duplicate operands.  Both passes work on one tree through two pointers     *)
(* into it, at first both to its root; n is trans_count.                      *)
\* the operands at p1 and p2 are joined into one when that is possible
JoinAt(ty, type, t, p1, p2) ==
  With(IF type = "OR" THEN expr_join_or(ty, At(t.e, p1), At(t.e, p2))
       ELSE expr_join_and(ty, At(t.e, p1), At(t.e, p2)), LAMBDA j :
       IF j = NULL THEN t
       ELSE [e |-> Put(Put(t.e, p1, Neutral(type)), p2, j), n |-> t.n + 1])

RECURSIVE Dups1(_, _, _, _, _)
Dups1(ty, type, t, p1, p2) ==
  IF At(t.e, p1)[1] = type
  THEN Dups1(ty, type, Dups1(ty, type, t, Left(p1), p2), Right(p1), p2)
  ELSE IF At(t.e, p2)[1] = type
  THEN Dups1(ty, type, Dups1(ty, type, t, p1, Left(p2)), p1, Right(p2))
  ELSE IF p1 = p2 THEN t
  ELSE JoinAt(ty, type, IF Junction(At(t.e, p1)) THEN Dups1(ty, At(t.e, p1)[1], t, p1, p1)
                        ELSE t, p1, p2)

\* the operand at p1, of the other type dual, is absorbed when the rest at p2 contains
\* its negation
AbsorbAt(ty, dual, t, p1, p2) ==
  LET Dead(x) == IF dual = "AND" THEN expr_is_yes(x[1]) ELSE expr_is_no(x[1])
  IN  IF Dead(expr_extract_eq(dual, expr_transform(ty, expr_alloc_one(At(t.e, p1))),
                              At(t.e, p2)))
      THEN [e |-> Put(t.e, p1, Absorbing(dual)), n |-> t.n + 1]
      ELSE t

\* an operand whose negation is a part of the rest absorbs the whole.  The code does not
\* return after it has gone through the operands of the second pointer.
RECURSIVE Dups2(_, _, _, _, _)
Dups2(ty, type, t, p1, p2) ==
  IF At(t.e, p1)[1] = type
  THEN Dups2(ty, type, Dups2(ty, type, t, Left(p1), p2), Right(p1), p2)
  ELSE With(IF At(t.e, p2)[1] # type THEN t
            ELSE Dups2(ty, type, Dups2(ty, type, t, p1, Left(p2)), p1, Right(p2)), LAMBDA v :
       IF p1 = p2 \/ ~Junction(At(v.e, p1)) THEN v
       ELSE AbsorbAt(ty, IF Is(At(v.e, p1), "OR") THEN "AND" ELSE "OR",
                     Dups2(ty, At(v.e, p1)[1], v, p1, p1), p1, p2))

RECURSIVE expr_eliminate_dups(_, _)
expr_eliminate_dups(ty, e) ==
  IF ~Junction(e) THEN e
  ELSE With(Dups2(ty, e[1], Dups1(ty, e[1], [e |-> e, n |-> 0], << >>, << >>), << >>, << >>),
            LAMBDA t :
       IF t.n = 0 THEN t.e ELSE expr_eliminate_dups(ty, expr_eliminate_yn(t.e)))

------------------------------------------------------------------------------
RECURSIVE expr_contains_symbol(_, _)
expr_contains_symbol(dep, sym) ==
  CASE dep = NULL -> FALSE
    [] Is(dep, "SYMBOL") -> dep[2] = sym
    [] Comparison(dep) -> sym \in {dep[2], dep[3]}
    [] Is(dep, "NOT") -> expr_contains_symbol(dep[2], sym)
    [] Junction(dep) -> \/ expr_contains_symbol(dep[2], sym)
                                      \/ expr_contains_symbol(dep[3], sym)

\* dep can only be other than no when sym is
RECURSIVE expr_depends_symbol(_, _)
expr_depends_symbol(dep, sym) ==
  /\ dep # NULL
  /\ \/ Is(dep, "AND") /\ (expr_depends_symbol(dep[2], sym) \/ expr_depends_symbol(dep[3], sym))
     \/ IsSym(dep, sym)
     \/ Is(dep, "EQUAL") /\ dep[2] = sym /\ dep[3] \in {"y", "m"}
     \/ Is(dep, "UNEQUAL") /\ dep[2] = sym /\ dep[3] = "n"

\* Mutant: the comparison is not turned around under a negation
KeepType(type) == type

\* a comparison under a negation
Flip(type) == IF type = "EQUAL" THEN "UNEQUAL" ELSE "EQUAL"

\* an expression for "e type sym", sym a constant
RECURSIVE expr_trans_compare(_, _, _)
expr_trans_compare(e, type, sym) ==
  LET neg(x) == IF type = "UNEQUAL" THEN expr_alloc_one(x) ELSE x
      \* for sym = m the code leaves a conjunction or a disjunction as it is
      pair(t) == IF sym = "m" THEN e
                 ELSE <<t, expr_trans_compare(e[2], "EQUAL", sym),
                           expr_trans_compare(e[3], "EQUAL", sym)>>
  IN  CASE e = NULL -> neg(expr_alloc_symbol(sym))
        [] Is(e, "AND") -> neg(pair(IF sym = "y" THEN "AND" ELSE "OR"))
        [] Is(e, "OR") -> neg(pair(IF sym = "y" THEN "OR" ELSE "AND"))
        [] Is(e, "NOT") ->
             expr_trans_compare(e[2], Flip(type), sym)
        [] Is(e, "SYMBOL") -> expr_alloc_comp(type, e[2], sym)
        [] Comparison(e) ->
             CASE sym = "m" -> expr_alloc_symbol(IF type = "EQUAL" THEN "n" ELSE "y")
               [] sym = "y" -> neg(e)
               [] sym = "n" -> IF type = "EQUAL" THEN expr_alloc_one(e) ELSE e

\* val[s] is the pair of the tristate and the string value of symbol s
RECURSIVE expr_calc_value(_, _)
expr_calc_value(val, e) ==
  CASE e = NULL -> yes
    [] Is(e, "SYMBOL") -> val[e[2]].tri
    [] Is(e, "AND") -> EXPR_AND(expr_calc_value(val, e[2]), expr_calc_value(val, e[3]))
    [] Is(e, "OR") -> EXPR_OR(expr_calc_value(val, e[2]), expr_calc_value(val, e[3]))
    [] Is(e, "NOT") -> EXPR_NOT(expr_calc_value(val, e[2]))
    [] Is(e, "EQUAL") -> IF val[e[2]].str = val[e[3]].str THEN yes ELSE no
    [] Is(e, "UNEQUAL") -> IF val[e[2]].str = val[e[3]].str THEN no ELSE yes

\* the leaf that the warning about an unmet dependency names.  The loop follows
\* left.expr down to a symbol; on a comparison that field is not an expression.
RECURSIVE expr_get_leftmost_symbol(_)
expr_get_leftmost_symbol(e) ==
  CASE e = NULL -> NULL
    [] Is(e, "SYMBOL") -> e
    [] Comparison(e) -> <<"WILD">>
    [] Junction(e) \/ Is(e, "NOT") -> expr_get_leftmost_symbol(e[2])

\* e2 adds nothing to e1: this part of the selecting expression is not to blame
MetBy(ty, e1, e2) == expr_eq(expr_eliminate_dups(ty, expr_alloc_and(e1, e2)), e1)

RECURSIVE expr_simplify_unmet_dep(_, _, _)
expr_simplify_unmet_dep(ty, e1, e2) ==
  CASE Type(e1) = "OR" -> expr_alloc_and(expr_simplify_unmet_dep(ty, e1[2], e2),
                                         expr_simplify_unmet_dep(ty, e1[3], e2))
    [] Type(e1) = "AND" ->
         expr_get_leftmost_symbol(IF MetBy(ty, e1, e2) THEN NULL ELSE e1)
    [] OTHER -> expr_get_leftmost_symbol(e1)

------------------------------------------------------------------------------
(* Printing, as the sequence of tokens handed to fn.                          *)
\* Mutant: no parentheses around an || inside an &&
CompareTypeNotOnly(t1, t2) == t1 = "NOT" /\ t2 \in {"AND", "OR"}

\* an expression of type t2 inside one of type t1 needs parentheses
expr_compare_type(t1, t2) == \/ t1 \in {"EQUAL", "UNEQUAL"} /\ t2 \in {"NOT", "AND", "OR"}
                             \/ t1 = "NOT" /\ t2 \in {"AND", "OR"}
                             \/ t1 = "AND" /\ t2 = "OR"

Wrapped(wrap, body) == IF wrap THEN <<"(">> \o body \o <<")">> ELSE body

RECURSIVE expr_print(_, _)
expr_print(e, prevtoken) ==
  IF e = NULL THEN <<"y">>
  ELSE Wrapped(expr_compare_type(prevtoken, e[1]),
         CASE Type(e) = "SYMBOL" -> <<e[2]>>
           [] Type(e) = "NOT" -> <<"!">> \o expr_print(e[2], "NOT")
           [] Type(e) = "EQUAL" -> <<e[2], "=", e[3]>>
           [] Type(e) = "UNEQUAL" -> <<e[2], "!=", e[3]>>
           [] Type(e) = "OR" -> expr_print(e[2], "OR") \o <<"||">> \o expr_print(e[3], "OR")
           [] Type(e) = "AND" -> expr_print(e[2], "AND") \o <<"&&">> \o expr_print(e[3], "AND"))
=============================================================================
