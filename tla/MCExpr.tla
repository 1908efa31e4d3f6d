-------------------------------- MODULE MCExpr --------------------------------
(* Small instances of ExprRewrite: one boolean and one or two tristate        *)
(* symbols, and expressions of one operator over every leaf or of three       *)
(* operators over symbols and their negations.                                *)
EXTENDS ExprRewrite

MCSymTy == [s \in {"B", "T", "y", "m", "n"} |->
              CASE s = "B" -> "boolean" [] s = "T" -> "tristate" [] OTHER -> "const"]

LeafSyms == {expr_alloc_symbol(s) : s \in DOMAIN MCSymTy}

Comparisons == {expr_alloc_comp(op, s, c) : op \in {"EQUAL", "UNEQUAL"},
                                            s \in {"B", "T"}, c \in {"y", "m", "n"}}

Leaves == LeafSyms \cup Comparisons

Negated(S) == S \cup {expr_alloc_one(x) : x \in S}

Pairs(S, R) == {expr_alloc_two(op, x, y) : op \in {"AND", "OR"}, x \in S, y \in R}

Literals == Negated({expr_alloc_symbol("B"), expr_alloc_symbol("T")})

\* every leaf against every leaf; three operators over literals
MCStart == Pairs(Negated(Leaves), Leaves)
             \cup Pairs(Negated(Pairs(Literals, Literals)), Pairs(Literals, Literals) \cup Leaves)
==============================================================================
