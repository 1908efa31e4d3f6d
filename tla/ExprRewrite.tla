----------------------------- MODULE ExprRewrite -----------------------------
(* An expression on its way through the rewriting functions of kconfig/expr.c *)
(* in any order, as menu_finalize applies them: expr_transform, and the loop  *)
(* of expr_eliminate_dups taken apart into its two passes and the removal of  *)
(* constants, so that each pass can be judged by itself.                      *)
EXTENDS KExpr

CONSTANTS SymTy,   \* the type of every symbol, constants included
          Start    \* the expressions to begin with

VARIABLES orig,    \* the expression as it was parsed
          e,       \* the expression as it is now
          pc,      \* where the loop of expr_eliminate_dups stands
          n,       \* trans_count
          exact    \* the second pass has not replaced anything yet

vars == <<orig, e, pc, n, exact>>

Syms == {s \in DOMAIN SymTy : SymTy[s] # "const"}

Init == /\ orig \in Start /\ e = orig
        /\ pc = "idle" /\ n = 0 /\ exact = TRUE

Transform == /\ pc = "idle"
             /\ e' = expr_transform(SymTy, e)
             /\ UNCHANGED <<orig, pc, n, exact>>

\* while (1) { trans_count = 0; switch (e->type) ... expr_eliminate_dups1
FirstPass == /\ pc \in {"idle", "loop"} /\ Junction(e)
             /\ LET t == Dups1(SymTy, e[1], [e |-> e, n |-> 0], << >>, << >>)
                IN  e' = t.e /\ n' = t.n
             /\ pc' = "second"
             /\ UNCHANGED <<orig, exact>>

SecondPass == /\ pc = "second"
              /\ LET t == Dups2(SymTy, e[1], [e |-> e, n |-> n], << >>, << >>)
                 IN  /\ e' = t.e /\ n' = t.n
                     /\ exact' = (exact /\ t.n = n)
                     /\ pc' = IF t.n = 0 THEN "idle" ELSE "yn"
              /\ UNCHANGED orig

EliminateYn == /\ pc = "yn"
               /\ e' = expr_eliminate_yn(e)
               /\ pc' = IF Junction(e') THEN "loop" ELSE "idle"
               /\ n' = 0
               /\ UNCHANGED <<orig, exact>>

Next == Transform \/ FirstPass \/ SecondPass \/ EliminateYn

Spec == Init /\ [][Next]_vars

------------------------------------------------------------------------------
(* The reference: values of an expression under every assignment.             *)
Name(v) == CASE v = no -> "n" [] v = mod -> "m" [] v = yes -> "y"

Values(s) == IF SymTy[s] = "boolean" THEN {no, yes} ELSE {no, mod, yes}

\* what sym_calc_value may have left in the symbols, constants included
Assignments ==
  LET AsVal(f) == [s \in DOMAIN SymTy |->
                     IF s \in Syms THEN [tri |-> f[s], str |-> Name(f[s])]
                     ELSE [tri |-> Tri(s), str |-> s]]
  IN  {AsVal(f) : f \in {g \in [Syms -> {no, mod, yes}] : \A s \in Syms : g[s] \in Values(s)}}

TwoValued == {a \in Assignments : \A s \in Syms : a[s].tri # mod}

\* 'm' as an operand; an expression without one has two values on TwoValued
RECURSIVE UsesMod(_)
UsesMod(x) == \/ IsSym(x, "m")
              \/ Is(x, "NOT") /\ UsesMod(x[2])
              \/ Junction(x) /\ (UsesMod(x[2]) \/ UsesMod(x[3]))

Same(e1, e2, on) == \A a \in on : expr_calc_value(a, e1) = expr_calc_value(a, e2)

\* the grammar of zconf.y: || binds weaker than &&, both to the left, ! strongest
RECURSIVE ParseTail(_, _, _)
RECURSIVE ParseLevel(_, _, _)

\* level "OR" or "AND": an operand and then (operator operand)*; the result is the
\* expression and the position after it
ParseLevel(toks, i, level) ==
  IF level = "OR" THEN ParseTail(toks, ParseLevel(toks, i, "AND"), "OR")
  ELSE IF level = "AND" THEN ParseTail(toks, ParseLevel(toks, i, "NOT"), "AND")
  ELSE CASE toks[i] = "!" -> LET x == ParseLevel(toks, i + 1, "NOT")
                             IN  <<expr_alloc_one(x[1]), x[2]>>
         [] toks[i] = "(" -> LET x == ParseLevel(toks, i + 1, "OR") IN <<x[1], x[2] + 1>>
         [] OTHER -> IF i + 1 <= Len(toks) /\ toks[i + 1] \in {"=", "!="}
                     THEN <<expr_alloc_comp(IF toks[i + 1] = "=" THEN "EQUAL" ELSE "UNEQUAL",
                                            toks[i], toks[i + 2]), i + 3>>
                     ELSE <<expr_alloc_symbol(toks[i]), i + 1>>

ParseTail(toks, x, level) ==
  IF x[2] <= Len(toks) /\ toks[x[2]] = (IF level = "OR" THEN "||" ELSE "&&")
  THEN LET y == ParseLevel(toks, x[2] + 1, IF level = "OR" THEN "AND" ELSE "NOT")
       IN  ParseTail(toks, <<expr_alloc_two(level, x[1], y[1]), y[2]>>, level)
  ELSE x

Parse(toks) == ParseLevel(toks, 1, "OR")

RECURSIVE Normal(_)
Normal(x) == CASE Is(x, "NOT") -> Is(x[2], "SYMBOL") /\ x[2][2] \in Syms
               [] Junction(x) -> Normal(x[2]) /\ Normal(x[3])
               [] OTHER -> Comparison(x) => ~(SymTy[x[2]] = "boolean" /\ x[3] \in Constants)

(* Rewriting (expr.c:237-777) never changes what a dependency means: the      *)
(* expression has the value it was parsed with under every assignment of the  *)
(* symbols, for as long as only expr_transform, the first pass and the        *)
(* removal of constants have rewritten it; where the second pass has replaced *)
(* an operand, still for every assignment and expression without 'm'.         *)
MeaningKept == IF exact THEN Same(orig, e, Assignments)
               ELSE ~UsesMod(orig) => Same(orig, e, TwoValued)

(* expr_eq (expr.c:195) answers yes only for two operands that have the same  *)
(* value under every assignment, and does answer yes for the operands of an   *)
(* && or || in the other order: the folding of menus relies on both.          *)
EqSound == Junction(e) => /\ expr_eq(e[2], e[3]) => Same(e[2], e[3], Assignments)
                          /\ expr_eq(e, <<e[1], e[3], e[2]>>)

(* After expr_transform (expr.c:642) a negation stands only in front of a     *)
(* symbol that is no constant, no boolean symbol is compared with a constant, *)
(* and transforming again changes nothing.                                    *)
TransformNormal == LET f == expr_transform(SymTy, e)
                   IN  Normal(f) /\ expr_transform(SymTy, f) = f

(* expr_print (expr.c:1055) puts parentheses wherever the grammar needs them: *)
(* what it prints, read again by zconf.y's grammar, has the same value.       *)
PrintParses == LET x == Parse(expr_print(e, "NONE"))
               IN  x[2] = Len(expr_print(e, "NONE")) + 1 /\ Same(e, x[1], Assignments)

(* expr_trans_compare (expr.c:883) builds an expression that says "e = sym"   *)
(* or "e != sym" for sym = y or n, wherever 'm' plays no part.                *)
CompareMeans ==
  ~UsesMod(e) => \A t \in {"EQUAL", "UNEQUAL"}, s \in {"y", "n"}, a \in TwoValued :
    (expr_calc_value(a, expr_trans_compare(e, t, s)) = yes)
       <=> ((expr_calc_value(a, e) = Tri(s)) <=> (t = "EQUAL"))

(* When expr_depends_symbol (expr.c:803) says that e depends on a symbol, e   *)
(* cannot be other than n while the symbol is n; when expr_contains_symbol    *)
(* says that it does not occur, its value does not matter.  menu_finalize     *)
(* folds an entry into the menu of a symbol on these two answers.             *)
DependsSound ==
  \A s \in Syms :
    /\ expr_depends_symbol(e, s) =>
         \A a \in Assignments : a[s].tri = no => expr_calc_value(a, e) = no
    /\ ~expr_contains_symbol(e, s) =>
         \A a \in Assignments, v \in Values(s) :
           expr_calc_value([a EXCEPT ![s] = [tri |-> v, str |-> Name(v)]], e)
             = expr_calc_value(a, e)

(* expr_trans_bool (expr.c:323), which menu_finalize applies to the           *)
(* conditions of a symbol that is not tristate, may turn y into m but never   *)
(* makes a condition n that was not, nor the other way round.                 *)
TransBoolKeepsNo ==
  LET f == expr_transform(SymTy, e)
  IN  \A a \in Assignments : (expr_calc_value(a, expr_trans_bool(SymTy, f)) = no)
                               <=> (expr_calc_value(a, f) = no)

RECURSIVE HasComparison(_)
HasComparison(x) == \/ Comparison(x)
                    \/ Is(x, "NOT") /\ HasComparison(x[2])
                    \/ Junction(x) /\ (HasComparison(x[2]) \/ HasComparison(x[3]))

(* The warning about an unmet dependency (expr_simplify_unmet_dep,            *)
(* expr.c:1030) names symbols of the selecting expression only, and names one *)
(* whenever that expression can hold while the dependency does not.           *)
(* Expressions with comparisons are left out: there the loop at expr.c:1020   *)
(* reads a symbol as an expression.                                           *)
UnmetNamesSelectors ==
  Junction(e) /\ ~HasComparison(e) =>
    LET u == expr_simplify_unmet_dep(SymTy, e[2], e[3])
    IN  /\ \A s \in Syms : expr_contains_symbol(u, s) => expr_contains_symbol(e[2], s)
        /\ u = NULL => \A a \in Assignments : expr_calc_value(a, e[2]) <= expr_calc_value(a, e[3])

(* The yes and no of expr_eq, expr_depends_symbol and expr_contains_symbol can *)
(* be relied on.                                                              *)
AnswersSound == EqSound /\ DependsSound

(* The rewritings made for a purpose beside the dependencies themselves, for  *)
(* menu_finalize, the search and the warnings, mean what they are made for.   *)
SideRewritingsMean ==
  TransformNormal /\ CompareMeans /\ TransBoolKeepsNo /\ UnmetNamesSelectors

RECURSIVE Size(_)
Size(x) == IF Is(x, "NOT") THEN 1 + Size(x[2])
           ELSE IF Junction(x) THEN 1 + Size(x[2]) + Size(x[3]) ELSE 1

(* The loop of expr_eliminate_dups (expr.c:625) ends: a round that does not   *)
(* leave the loop leaves a strictly smaller expression behind.                *)
DupsShrinks == [][pc = "yn" => Size(e') < Size(e)]_vars
=============================================================================
