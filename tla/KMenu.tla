-------------------------------- MODULE KMenu --------------------------------
(* The menu tree of the configuration tool: what the parser's actions         *)
(* (zconf.y) build by calling kconfig/menu.c, how menu_finalize propagates    *)
(* dependencies and arranges the tree, and the search for recursive           *)
(* dependencies (symbol.c).                                                   *)
(*                                                                            *)
(* Everything the parser builds is one record d, passed from call to call:    *)
(*   d.menus   the entries, the root first; kids is the list/next chain       *)
(*   d.props   the properties, in the order they were made                    *)
(*   d.syms    the symbols; props is the chain of a symbol's properties       *)
(*   d.cur     current_entry,  d.top  current_menu,  d.modules  modules_sym   *)
(* Texts, files and line numbers, and the warnings that need them, are left   *)
(* out; a prompt is a property with a text.                                   *)
EXTENDS KExpr, SequencesExt

CONSTANT Order   \* the symbols, in the order of for_all_symbols

None == ""       \* no symbol, and no modules_sym yet

SymNames == ToSet(Order)

NewSym == [type |-> "unknown", props |-> << >>, choice |-> FALSE, choiceval |-> FALSE,
           optional |-> FALSE, auto |-> FALSE, allno |-> FALSE,
           values |-> << >>, of |-> None, dir |-> NULL, rev |-> NULL]

NewMenu(sym, parent) == [sym |-> sym, parent |-> parent, kids |-> << >>, dep |-> NULL,
                         prompt |-> 0, visibility |-> NULL]

\* the types as expr.c sees them
Ty(d) == [s \in SymNames \cup Constants |->
            IF s \in Constants THEN "const" ELSE d.syms[s].type]

------------------------------------------------------------------------------
(* The calls of the parser.                                                   *)
\* change 'm' into 'm' && MODULES
RECURSIVE menu_check_dep(_, _)
menu_check_dep(d, e) ==
  CASE e = NULL -> NULL
    [] Is(e, "NOT") -> <<"NOT", menu_check_dep(d, e[2])>>
    [] Junction(e) -> <<e[1], menu_check_dep(d, e[2]), menu_check_dep(d, e[3])>>
    [] IsSym(e, "m") -> expr_alloc_and(e, expr_alloc_symbol(d.modules))
    [] OTHER -> e

menu_add_dep(d, e) ==
  [d EXCEPT !.menus[d.cur].dep = expr_alloc_and(@, menu_check_dep(d, e))]

menu_set_type(d, m, type) ==
  LET s == d.menus[m].sym
  IN  IF d.syms[s].type = "unknown" THEN [d EXCEPT !.syms[s].type = type] ELSE d

\* the conditions of "visible if" of all menus around entry m
RECURSIVE Visibilities(_, _, _)
Visibilities(d, m, e) ==
  IF d.menus[m].parent = 0 THEN e
  ELSE LET up == d.menus[m].parent
       IN  Visibilities(d, up, expr_alloc_and(e, d.menus[up].visibility))

\* prop_alloc and menu_add_prop
menu_add_prop(d, type, expr, dep, hasPrompt) ==
  LET s   == d.menus[d.cur].sym
      n   == Len(d.props) + 1
      vis == menu_check_dep(d, dep)
      p   == [type |-> type, menu |-> d.cur, expr |-> expr,
              visible |-> IF hasPrompt /\ type = "prompt" THEN Visibilities(d, d.cur, vis)
                          ELSE vis]
      d1  == [d EXCEPT !.props = Append(@, p),
                       !.menus[d.cur].prompt = IF hasPrompt THEN n ELSE @]
  IN  IF s = None THEN d1 ELSE [d1 EXCEPT !.syms[s].props = Append(@, n)]

menu_add_prompt(d, type, dep) == menu_add_prop(d, type, NULL, dep, TRUE)

menu_add_expr(d, type, expr, dep) == menu_add_prop(d, type, expr, dep, FALSE)

menu_add_symbol(d, type, sym, dep) == menu_add_expr(d, type, expr_alloc_symbol(sym), dep)

menu_add_entry(d, sym) ==
  LET n  == Len(d.menus) + 1
      d1 == [d EXCEPT !.menus = Append([@ EXCEPT ![d.top].kids = Append(@, n)],
                                       NewMenu(sym, d.top)),
                      !.cur = n]
  IN  IF sym = None THEN d1 ELSE menu_add_symbol(d1, "symbol", sym, NULL)

menu_add_menu(d) == [d EXCEPT !.top = d.cur]

menu_end_menu(d) == [d EXCEPT !.top = d.menus[d.top].parent]

menu_add_visibility(d, e) == [d EXCEPT !.menus[d.cur].visibility = expr_alloc_and(@, e)]

\* the options "modules" and "allnoconfig_y"
menu_add_option(d, opt) ==
  LET s == d.menus[d.cur].sym
  IN  IF opt = "modules" THEN [d EXCEPT !.modules = s]
      ELSE [d EXCEPT !.syms[s].allno = TRUE]

\* conf_parse up to zconfparse: _menu_init and the prompt of the root
EmptyTree ==
  menu_add_prompt([menus |-> <<NewMenu(None, 0)>>, props |-> << >>,
                   syms |-> [s \in SymNames |-> NewSym],
                   cur |-> 1, top |-> 1, modules |-> None], "menu", NULL)

\* one statement of a Kconfig file: the actions of the grammar in zconf.y
Statement(d, st) ==
  CASE st[1] = "config" -> LET d1 == menu_add_entry(d, st[2])
                           IN  [d1 EXCEPT !.syms[st[2]].optional = TRUE]
    [] st[1] = "type" -> menu_set_type(d, d.cur, st[2])
    [] st[1] = "prompt" -> menu_add_prompt(d, "prompt", st[2])
    [] st[1] = "default" -> menu_add_expr(d, "default", st[2], st[3])
    [] st[1] = "select" -> menu_add_symbol(d, "select", st[2], st[3])
    [] st[1] = "range" -> menu_add_expr(d, "range", <<"RANGE", st[2], st[3]>>, st[4])
    [] st[1] = "depends" -> menu_add_dep(d, st[2])
    [] st[1] = "option" -> menu_add_option(d, st[2])
    [] st[1] = "menuconfig" -> [d EXCEPT !.props[d.menus[d.cur].prompt].type = "menu"]
    [] st[1] = "choice" -> LET d1 == menu_add_entry(d, st[2])
                           IN  menu_add_expr([d1 EXCEPT !.syms[st[2]].choice = TRUE,
                                                        !.syms[st[2]].auto = TRUE],
                                             "choice", NULL, NULL)
    [] st[1] = "optional" -> [d EXCEPT !.syms[d.menus[d.cur].sym].optional = TRUE]
    [] st[1] = "if" -> menu_add_menu(menu_add_dep(menu_add_entry(d, None), st[2]))
    [] st[1] = "menu" -> menu_add_prompt(menu_add_entry(d, None), "menu", NULL)
    [] st[1] = "comment" -> menu_add_prompt(menu_add_entry(d, None), "comment", NULL)
    [] st[1] = "visible" -> menu_add_visibility(d, st[2])
    [] st[1] = "begin" -> menu_add_menu(d)
    [] st[1] = "end" -> menu_end_menu(d)

------------------------------------------------------------------------------
(* menu_finalize.                                                             *)
RECURSIVE menu_finalize(_, _)
RECURSIVE FinalizeFrom(_, _, _)
RECURSIVE FoldFrom(_, _, _, _, _)
RECURSIVE ArrangeFrom(_, _, _)

VisOf(d, m) == d.props[d.menus[m].prompt].visible

HasPrompt(d, m) == d.menus[m].prompt # 0

IsChoice(d, s) == s # None /\ d.syms[s].choice

\* a choice without a type takes that of its first typed value, and then the values
\* without one take the type of the choice
ChoiceTypes(d, m) ==
  LET s     == d.menus[m].sym
      kids  == SelectSeq(d.menus[m].kids, LAMBDA k : d.menus[k].sym # None)
      typed == SelectSeq(kids, LAMBDA k : d.syms[d.menus[k].sym].type # "unknown")
      d1    == IF typed = << >> THEN d
               ELSE menu_set_type(d, m, d.syms[d.menus[typed[1]].sym].type)
  IN  FoldLeft(LAMBDA x, k : menu_set_type(x, k, x.syms[s].type), d1, kids)

\* Mutant: the entries of a choice or of a menu inherit the bare dependency
ParentDepBare(d, m) == d.menus[m].dep

ParentDep(d, m) == IF IsChoice(d, d.menus[m].sym) THEN expr_alloc_symbol(d.menus[m].sym)
                   ELSE IF HasPrompt(d, m) THEN VisOf(d, m) ELSE d.menus[m].dep

\* Mutant: the last select counts
SelectedLast(rev, s, cond) == expr_alloc_and(expr_alloc_symbol(s), cond)

\* s selects the symbol that was selected by rev
SelectedBy(rev, s, cond) == expr_alloc_or(rev, expr_alloc_and(expr_alloc_symbol(s), cond))

\* a condition under another one
AndDeps(d, dep, e) == expr_eliminate_dups(Ty(d), expr_alloc_and(dep, expr_transform(Ty(d), e)))

\* what one property n of entry m inherits from the entry's dependency
InheritProp(d, m, basedep, n) ==
  LET s == d.menus[m].sym
      Bool(e) == IF s # None /\ d.syms[s].type # "tristate" THEN expr_trans_bool(Ty(d), e) ELSE e
      WithVisible(vis) ==
        IF d.props[n].type # "select" THEN [d EXCEPT !.props[n].visible = vis]
        ELSE [d EXCEPT !.props[n].visible = vis,
                       !.syms[d.props[n].expr[2]].rev = SelectedBy(@, s, vis)]
  IN  IF d.props[n].menu # m THEN d
      ELSE With(Bool(AndDeps(d, basedep, d.props[n].visible)), WithVisible)

\* an entry inherits the dependency of the one around it
Inherit(d, parentdep, m) ==
  LET s   == d.menus[m].sym
      own == IF s # None THEN d.syms[s].props
             ELSE IF HasPrompt(d, m) THEN <<d.menus[m].prompt>> ELSE << >>
  IN  With(AndDeps(d, parentdep, d.menus[m].dep), LAMBDA basedep :
        FoldLeft(LAMBDA x, n : InheritProp(x, m, basedep, n),
                 [d EXCEPT !.menus[m].dep = basedep], own))

\* for (menu = parent->list; menu; menu = menu->next) menu_finalize(menu): the chain
\* gets shorter when an entry takes the next ones into its own list
FinalizeFrom(d, m, i) ==
  IF i > Len(d.menus[m].kids) THEN d
  ELSE FinalizeFrom(menu_finalize(d, d.menus[m].kids[i]), m, i + 1)

FinalizeList(d, m) ==
  LET d1 == IF IsChoice(d, d.menus[m].sym) THEN ChoiceTypes(d, m) ELSE d
      pd == ParentDep(d1, m)
  IN  FinalizeFrom(FoldLeft(LAMBDA x, k : Inherit(x, pd, k), d1, d1.menus[m].kids), m, 1)

NotNo(d, e) == LET t == Ty(d)
               IN  expr_eliminate_dups(t, expr_transform(t, expr_trans_compare(e, "UNEQUAL", "n")))

\* Mutant: an entry that only mentions the symbol is taken
BelongsToMentioned(d, m, k, basedep) ==
  expr_contains_symbol(IF HasPrompt(d, k) THEN VisOf(d, k) ELSE d.menus[k].dep, d.menus[m].sym)

\* entry k, which follows m, belongs into a submenu of m
BelongsTo(d, m, k, basedep) ==
  LET s   == d.menus[m].sym
      dep == IF HasPrompt(d, k) THEN VisOf(d, k) ELSE d.menus[k].dep
  IN  /\ expr_contains_symbol(dep, s)
      /\ \/ expr_depends_symbol(dep, s)
         \/ expr_is_yes(expr_eliminate_eq(<<NotNo(d, dep), basedep>>)[2])

\* Mutant: the entries that were taken stay in the list they came from
FoldFromKeep(d, m, i, j, basedep) ==
  LET kids == d.menus[d.menus[m].parent].kids
  IN  IF j <= Len(kids) /\ BelongsTo(d, m, kids[j], basedep)
      THEN FoldFrom([menu_finalize(d, kids[j]) EXCEPT !.menus[kids[j]].parent = m],
                    m, i, j + 1, basedep)
      ELSE [d EXCEPT !.menus[m].kids = SubSeq(kids, i + 1, j - 1)]

\* the loop that takes the entries after m: i is the position of m in up's chain, j
\* the position of the next candidate
FoldFrom(d, m, i, j, basedep) ==
  LET up   == d.menus[m].parent
      kids == d.menus[up].kids
      d1   == [menu_finalize(d, kids[j]) EXCEPT !.menus[kids[j]].parent = m]
  IN  IF j <= Len(kids) /\ BelongsTo(d, m, kids[j], basedep)
      THEN FoldFrom(d1, m, i, j + 1, basedep)
      ELSE [d EXCEPT !.menus[m].kids = SubSeq(kids, i + 1, j - 1),
                     !.menus[up].kids = SubSeq(kids, 1, i) \o SubSeq(kids, j, Len(kids))]

FoldFollowing(d, m) ==
  LET up == d.menus[m].parent
      i  == CHOOSE x \in 1..Len(d.menus[up].kids) : d.menus[up].kids[x] = m
  IN  With(FoldFrom(d, m, i, i + 1, NotNo(d, IF HasPrompt(d, m) THEN VisOf(d, m) ELSE NULL)),
           LAMBDA d1 : [d1 EXCEPT !.syms[d.menus[m].sym].dir = expr_alloc_or(@, d1.menus[m].dep)])

\* entry k becomes a value of the choice s.  A boolean value of a tristate choice
\* must depend on the choice being y.
ChoiceValue(d, s, k) ==
  LET v    == d.menus[k].sym
      isY  == expr_alloc_comp("EQUAL", s, "y")
      more == d.syms[s].type = "tristate" /\ d.syms[v].type # "tristate"
      Own(n) == n \in ToSet(d.syms[v].props) /\ d.props[n].menu = k
      d1   == IF ~more THEN d
              ELSE [d EXCEPT !.menus[k].dep = expr_alloc_and(isY, @),
                             !.props = [n \in DOMAIN @ |->
                                IF Own(n) THEN [@[n] EXCEPT !.visible = expr_alloc_and(isY, @)]
                                ELSE @[n]]]
      d2   == menu_add_symbol([d1 EXCEPT !.cur = k], "choice", s, NULL)
  IN  [d2 EXCEPT !.syms[v].choiceval = TRUE, !.syms[v].of = s,
                 !.syms[s].values = Append(@, v)]

\* the last loop over the list of m: values of a choice, and the entries of a list
\* without a prompt move up behind it
ArrangeFrom(d, m, i) ==
  LET kids == d.menus[m].kids
      k    == kids[i]
      s    == d.menus[m].sym
      v    == d.menus[k].sym
      d1   == IF IsChoice(d, s) /\ v # None /\ ~d.syms[v].choiceval
              THEN ChoiceValue(d, s, k) ELSE d
      below == d1.menus[k].kids
      d2   == IF below = << >> \/ HasPrompt(d1, k) THEN d1
              ELSE [d1 EXCEPT !.menus = [x \in DOMAIN @ |->
                      CASE x = m -> [@[x] EXCEPT !.kids = SubSeq(kids, 1, i) \o below
                                                            \o SubSeq(kids, i + 1, Len(kids))]
                        [] x = k -> [@[x] EXCEPT !.kids = << >>]
                        [] x \in ToSet(below) -> [@[x] EXCEPT !.parent = m]
                        [] OTHER -> @[x]]]
  IN  IF i > Len(kids) THEN d ELSE ArrangeFrom(d2, m, i + 1)

\* a symbol that is not optional is at least m where its prompt is visible
ImplyMod(d, m) ==
  LET s == d.menus[m].sym
  IN  IF s = None \/ ~HasPrompt(d, m) THEN d
      ELSE IF d.syms[s].optional THEN d
      ELSE [d EXCEPT !.syms[s].rev =
              expr_alloc_or(@, expr_alloc_and(VisOf(d, m), expr_alloc_symbol("m")))]

menu_finalize(d, m) ==
  ImplyMod(ArrangeFrom(IF d.menus[m].kids # << >> THEN FinalizeList(d, m)
                       ELSE IF d.menus[m].sym # None THEN FoldFollowing(d, m)
                       ELSE d, m, 1), m)

------------------------------------------------------------------------------
(* sym_check_deps: a depth-first search.  st.check and st.checked are the     *)
(* flags SYMBOL_CHECK and SYMBOL_CHECKED, st.found that a recursive           *)
(* dependency was reported, st.res the symbol that was returned.              *)
RECURSIVE sym_check_deps(_, _, _)
RECURSIVE SymsOf(_)

\* the symbols of an expression, in the order in which it is walked
SymsOf(e) == CASE e = NULL -> << >>
               [] Is(e, "SYMBOL") -> <<e[2]>>
               [] Is(e, "NOT") -> SymsOf(e[2])
               [] Comparison(e) -> <<e[2], e[3]>>
               [] Junction(e) -> SymsOf(e[2]) \o SymsOf(e[3])

\* the symbols that sym_check_sym_deps goes through for symbol s
DepsOf(d, s) ==
  LET Of(n) == LET p == d.props[n]
               IN  IF p.type \in {"choice", "select"} THEN << >>
                   ELSE SymsOf(p.visible)
                        \o (IF p.type = "default" /\ ~d.syms[s].choice THEN SymsOf(p.expr)
                            ELSE << >>)
  IN  SymsOf(d.syms[s].rev)
        \o FlattenSeq([i \in 1..Len(d.syms[s].props) |-> Of(d.syms[s].props[i])])

\* sym_check_sym_deps with sym_check_expr_deps: the first symbol that is returned ends it
sym_check_sym_deps(d, st, s) ==
  FoldLeft(LAMBDA x, t : IF x.res # None \/ t \in Constants THEN x
                         ELSE sym_check_deps(d, x, t), st, DepsOf(d, s))

\* Mutant: the values of the choice are not marked while it is checked
ChoiceDepsUnmarked(d, st, c) ==
  FoldLeft(LAMBDA x, v : IF x.res # None THEN x ELSE sym_check_sym_deps(d, x, v),
           [st EXCEPT !.checked = @ \cup {c}], <<c>> \o d.syms[c].values)

sym_check_choice_deps(d, st, c) ==
  LET vals == ToSet(d.syms[c].values)
      Check(x, s) == IF x.res # None THEN x
                     ELSE [sym_check_sym_deps(d, x, s) EXCEPT !.check = @ \ {c}]
      all == FoldLeft(Check, [st EXCEPT !.check = @ \cup vals \cup {c},
                                        !.checked = @ \cup vals \cup {c}],
                      <<c>> \o d.syms[c].values)
  IN  [all EXCEPT !.check = @ \ vals, !.res = IF @ \in vals THEN c ELSE @]

sym_check_deps(d, st, s) ==
  LET r == IF d.syms[s].choiceval THEN sym_check_deps(d, st, d.syms[s].of)
           ELSE IF d.syms[s].choice THEN sym_check_choice_deps(d, st, s)
           ELSE LET x == sym_check_sym_deps(d, [st EXCEPT !.check = @ \cup {s},
                                                          !.checked = @ \cup {s}], s)
                IN  [x EXCEPT !.check = @ \ {s}]
  IN  IF s \in st.check THEN [st EXCEPT !.found = TRUE, !.res = s]
      ELSE IF s \in st.checked THEN st
      ELSE [r EXCEPT !.res = IF @ = s THEN None ELSE @]

NotChecked == [check |-> {}, checked |-> {}, found |-> FALSE, res |-> None, err |-> FALSE]

\* the loop of conf_parse over all symbols, in the order of their hashes; err: zconfnerrs
\* was counted up
CheckAll(d, order) ==
  FoldLeft(LAMBDA x, s : LET y == sym_check_deps(d, [x EXCEPT !.res = None], s)
                         IN  [y EXCEPT !.err = @ \/ y.res # None],
           NotChecked, order)

\* conf_parse: without an option "modules" the constant n stands for it
Parsed(d) == menu_finalize(IF d.modules = None THEN [d EXCEPT !.modules = "n"] ELSE d, 1)

conf_parse(file) == Parsed(FoldLeft(Statement, EmptyTree, file))
=============================================================================
