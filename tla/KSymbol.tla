------------------------------- MODULE KSymbol -------------------------------
(* The values of configuration symbols: kconfig/symbol.c.                     *)
(*                                                                            *)
(* d is the tree conf_parse built (KMenu).  S is what a running tool keeps    *)
(* for every symbol and passes from call to call:                             *)
(*   tri, str   curr: the value; for a choice, str is the chosen symbol       *)
(*   vis, dir, rev      visible, dir_dep.tri, rev_dep.tri                     *)
(*   pv         visible.tri of every prompt                                   *)
(*   valid, write, need the flags SYMBOL_VALID, SYMBOL_WRITE and              *)
(*              SYMBOL_NEED_SET_CHOICE_VALUES, as sets of symbols             *)
(*   user, auto def[S_DEF_USER] and def[S_DEF_AUTO]: the symbols that have    *)
(*              one (SYMBOL_DEF_...), its tristate and its string or symbol   *)
(*   modval     modules_val;  changed  sym_change_count is not 0              *)
(* SYMBOL_CHANGED and MENU_CHANGED only tell a front end what to redraw and   *)
(* are left out.                                                              *)
EXTENDS KMenu, Integers

CONSTANTS Text,        \* what the strings in use are as numbers, see Numeric
          DecStr(_),   \* sprintf "%lld"
          HexStr(_)    \* sprintf "0x%llx"

\* Text[t]: strtoll in base 10 and 16, whether sym_string_valid accepts it as an int
\* and as a hex value, the same text with 0x in front, and its characters
Numeric == [dec : Int, hex : Int, isInt : BOOLEAN, isHex : BOOLEAN, withHex : STRING,
            chars : Seq(STRING)]

ASSUME TextsAreKnown == Text \in [DOMAIN Text -> Numeric]

BoolTypes == {"boolean", "tristate"}

NumTypes == {"int", "hex"}

NoString == "(null)"   \* the string of a symbol that was given none

\* a name that is no symbol is a constant: y, m, n, a number or a quoted text
TriOf(S, s) == IF s \in SymNames THEN S.tri[s] ELSE IF s \in Constants THEN Tri(s) ELSE no

StrOf(S, s) == IF s \in SymNames THEN S.str[s] ELSE s

NoDefs == [has |-> {}, tri |-> [s \in SymNames |-> no],
           val |-> [s \in SymNames |-> NoString]]

\* the symbols of a program that has just parsed its Kconfig file
FreshSymbols(d) ==
  [tri |-> [s \in SymNames |-> no], str |-> [s \in SymNames |-> None],
   vis |-> [s \in SymNames |-> no], dir |-> [s \in SymNames |-> no],
   rev |-> [s \in SymNames |-> no], pv |-> [n \in DOMAIN d.props |-> no],
   valid |-> {}, write |-> {}, need |-> {}, user |-> NoDefs, auto |-> NoDefs,
   foreign |-> {}, modval |-> no, changed |-> TRUE]

\* F called for the elements of seq one after the other, x passed from call to call
Fold(F(_, _), x, seq) ==
  LET after[i \in 0..Len(seq)] == IF i = 0 THEN x
                                  ELSE With(after[i - 1], LAMBDA y : F(y, seq[i]))
  IN  after[Len(seq)]

sym_has_value(S, s) == s \in S.user.has

sym_get_type(d, S, s) ==
  IF /\ d.syms[s].type = "tristate"
     /\ (d.syms[s].choiceval /\ S.vis[s] = yes) \/ S.modval = no
  THEN "boolean" ELSE d.syms[s].type

sym_is_changable(S, s) == S.vis[s] > S.rev[s]

sym_get_string_value(d, S, s) ==
  IF s \notin SymNames THEN s
  ELSE IF d.syms[s].type \in BoolTypes
  THEN CASE S.tri[s] = no -> "n"
         [] S.tri[s] = mod -> IF TriOf(S, d.modules) = no THEN "n" ELSE "m"
         [] S.tri[s] = yes -> "y"
  ELSE S.str[s]

------------------------------------------------------------------------------
RECURSIVE sym_calc_value(_, _, _)

\* expr_calc_value calculates every symbol of the expression, none is skipped
CalcSyms(d, S, e) == Fold(LAMBDA X, s : sym_calc_value(d, X, s), S, SymsOf(e))

\* the tristate value of e in S, its symbols calculated
ValueIn(d, S, e) ==
  expr_calc_value([s \in STRING |-> [tri |-> TriOf(S, s), str |-> sym_get_string_value(d, S, s)]], e)

\* the properties of s of the given types, in order
PropsOf(d, s, types) == SelectSeq(d.syms[s].props, LAMBDA n : d.props[n].type \in types)

\* a condition of a symbol, calculated; an absent one counts as given
Condition(d, S, e, absent) ==
  With(CalcSyms(d, S, e), LAMBDA X :
       [S |-> X, v |-> IF e = NULL THEN absent ELSE ValueIn(d, X, e)])

\* the first property of s of a type whose condition holds (0: none), and S after the
\* conditions up to it were calculated
FirstVisible(d, S, s, type) ==
  LET Try(x, n) == IF x.n # 0 THEN x
                   ELSE With(Condition(d, x.S, d.props[n].visible, yes), LAMBDA c :
                             [S |-> c.S, n |-> IF c.v # no THEN n ELSE 0, v |-> c.v])
  IN  Fold(Try, [S |-> S, n |-> 0, v |-> no], PropsOf(d, s, {type}))

\* visible.tri of every prompt
CalcPrompts(d, S, s) ==
  Fold(LAMBDA X, n : With(Condition(d, X, d.props[n].visible, yes),
                          LAMBDA c : [c.S EXCEPT !.pv[n] = c.v]),
       S, PropsOf(d, s, {"prompt", "menu"}))

\* the greatest of them is the symbol's
CalcVisible(d, S, s) ==
  LET v == Fold(LAMBDA t, n : EXPR_OR(t, S.pv[n]), no, PropsOf(d, s, {"prompt", "menu"}))
  IN  [S EXCEPT !.vis[s] = IF v = mod /\ (d.syms[s].type # "tristate" \/ S.modval = no)
                           THEN yes ELSE v]

CalcDirDep(d, S, s) ==
  With(Condition(d, S, d.syms[s].dir, yes), LAMBDA c :
       [c.S EXCEPT !.dir[s] = IF c.v = mod THEN yes ELSE c.v])

CalcRevDep(d, S, s) ==
  With(Condition(d, S, d.syms[s].rev, no), LAMBDA c :
       [c.S EXCEPT !.rev[s] = IF c.v = mod /\ sym_get_type(d, c.S, s) = "boolean"
                              THEN yes ELSE c.v])

sym_calc_visibility(d, S, s) ==
  With(CalcVisible(d, CalcPrompts(d, S, s), s), LAMBDA X :
       IF d.syms[s].choiceval THEN X ELSE CalcRevDep(d, CalcDirDep(d, X, s), s))

\* the default of a choice: the first of its defaults that is visible, else its first
\* visible value, else none
sym_choice_default(d, S, s) ==
  LET Try(x, n) ==
        IF x.v # None THEN x
        ELSE With(Condition(d, x.S, d.props[n].visible, yes), LAMBDA c :
                  [S |-> c.S, v |-> IF c.v # no /\ c.S.vis[d.props[n].expr[2]] # no
                                    THEN d.props[n].expr[2] ELSE None])
      Seen(X) == SelectSeq(d.syms[s].values, LAMBDA t : X.vis[t] # no)
  IN  With(Fold(Try, [S |-> S, v |-> None], PropsOf(d, s, {"default"})), LAMBDA x :
           IF x.v # None \/ Seen(x.S) = << >> THEN x ELSE [x EXCEPT !.v = Seen(x.S)[1]])

\* the visibilities of the values are calculated, the choice counts as set by the user
\* only when all its visible values are
CalcChoiceValues(d, S, s) ==
  With(Fold(LAMBDA X, v : sym_calc_visibility(d, X, v), S, d.syms[s].values), LAMBDA X :
       IF \A v \in ToSet(d.syms[s].values) : X.vis[v] # no => v \in X.user.has
       THEN X ELSE [X EXCEPT !.user.has = @ \ {s}])

\* Mutant: the user's choice is kept whether or not it can be seen
CalcChoiceKeeps(d, S, s) ==
  LET Default(x) == IF x.v = None THEN [x.S EXCEPT !.str[s] = None, !.tri[s] = no]
                    ELSE [x.S EXCEPT !.str[s] = x.v]
      Chosen(X) == IF X.user.val[s] \in SymNames THEN [X EXCEPT !.str[s] = X.user.val[s]]
                   ELSE With(sym_choice_default(d, X, s), Default)
  IN  With(CalcChoiceValues(d, S, s), Chosen)

sym_calc_choice(d, S, s) ==
  LET Default(x) == IF x.v = None THEN [x.S EXCEPT !.str[s] = None, !.tri[s] = no]
                    ELSE [x.S EXCEPT !.str[s] = x.v]
      Chosen(X) == LET u == X.user.val[s]
                   IN  IF u \in SymNames /\ X.vis[u] # no THEN [X EXCEPT !.str[s] = u]
                       ELSE With(sym_choice_default(d, X, s), Default)
  IN  With(CalcChoiceValues(d, S, s), Chosen)

\* sym_get_range_val, once t is calculated: strtoll of its value
RangeVal(d, S, t, base) ==
  LET own == IF t \in SymNames THEN d.syms[t].type ELSE "unknown"
  IN  IF (IF own \in NumTypes THEN own ELSE base) = "int" THEN Text[StrOf(S, t)].dec
      ELSE Text[StrOf(S, t)].hex

\* the range in force for s, or << >>; sym_get_range_prop
RangeOf(d, S, s) ==
  LET Ends(e, X) == [S |-> X, range |-> <<RangeVal(d, X, e[2], d.syms[s].type),
                                          RangeVal(d, X, e[3], d.syms[s].type)>>]
  IN  With(FirstVisible(d, S, s, "range"), LAMBDA r :
           IF r.n = 0 THEN [S |-> r.S, range |-> << >>]
           ELSE With(Fold(LAMBDA X, t : sym_calc_value(d, X, t), r.S, Tail(d.props[r.n].expr)),
                     LAMBDA X : Ends(d.props[r.n].expr, X)))

\* a text as a number of the symbol's base
NumOf(d, s, str) == IF d.syms[s].type = "int" THEN Text[str].dec ELSE Text[str].hex

\* a number as a text of the symbol's base
StrFor(d, s, num) == IF d.syms[s].type = "int" THEN DecStr(num) ELSE HexStr(num)

\* Mutant: only the lower end of the range is enforced
ValidateLower(d, S, s) ==
  IF d.syms[s].type \notin NumTypes THEN S
  ELSE With(RangeOf(d, S, s), LAMBDA r :
            IF r.range = << >> \/ NumOf(d, s, S.str[s]) >= r.range[1] THEN r.S
            ELSE [r.S EXCEPT !.str[s] = StrFor(d, s, r.range[1])])

\* a number outside its range is replaced by the end it is beyond
sym_validate_range(d, S, s) ==
  LET num == NumOf(d, s, S.str[s])
      Within(r) == r = << >> \/ (r[1] <= num /\ num <= r[2])
  IN  IF d.syms[s].type \notin NumTypes THEN S
      ELSE With(RangeOf(d, S, s), LAMBDA r :
                IF Within(r.range) THEN r.S
                ELSE [r.S EXCEPT !.str[s] =
                        StrFor(d, s, IF num < r.range[1] THEN r.range[1] ELSE r.range[2])])

\* the values of the choice that have none from the user are n
set_all_choice_values(d, S, c) ==
  [S EXCEPT !.user.tri = Fold(LAMBDA u, v : IF v \in S.user.has THEN u ELSE [u EXCEPT ![v] = no],
                              @, d.syms[c].values),
            !.user.has = @ \cup {c}, !.valid = @ \ {c}, !.need = @ \ {c}]

Written(S, s) == [S EXCEPT !.write = @ \cup {s}]

\* the tristate default of s, S with SYMBOL_WRITE set when there is one
TriDefault(d, S, s) ==
  LET Value(e, v, X) == [S |-> X, v |-> EXPR_AND(ValueIn(d, X, e), v)]
  IN  With(FirstVisible(d, S, s, "default"), LAMBDA df :
           IF df.n = 0 THEN [S |-> df.S, v |-> no]
           ELSE With(Written(CalcSyms(d, df.S, d.props[df.n].expr), s),
                     LAMBDA X : Value(d.props[df.n].expr, df.v, X)))

\* the new value of a boolean or tristate symbol
CalcTri(d, S, s) ==
  LET S1 == IF S.vis[s] # no \/ S.rev[s] # no THEN Written(S, s) ELSE S
      Set(X, v) == [X EXCEPT !.tri[s] = IF v = mod /\ sym_get_type(d, X, s) = "boolean"
                                        THEN yes ELSE v]
  IN  IF d.syms[s].choiceval /\ S.vis[s] = yes
      THEN Set(S, IF S.str[d.syms[s].of] = s THEN yes ELSE no)
      ELSE With(IF S.vis[s] # no /\ sym_has_value(S, s)
                THEN [S |-> Written(S, s), v |-> EXPR_AND(S.user.tri[s], S.vis[s])]
                ELSE IF d.syms[s].choice THEN [S |-> S1, v |-> no]
                ELSE TriDefault(d, S1, s),
                LAMBDA t : Set(t.S, EXPR_OR(t.v, t.S.rev[s])))

\* the new value of a string or number
CalcStr(d, S, s) ==
  LET S1 == IF S.vis[s] # no THEN Written(S, s) ELSE S
      Default(df) == LET t == d.props[df.n].expr[2]
                     IN  With(sym_calc_value(d, Written(df.S, s), t),
                              LAMBDA X : [X EXCEPT !.str[s] = StrOf(X, t)])
  IN  IF S.vis[s] # no /\ sym_has_value(S, s) THEN [S1 EXCEPT !.str[s] = S.user.val[s]]
      ELSE With(FirstVisible(d, S1, s, "default"), LAMBDA df :
                IF df.n = 0 THEN df.S ELSE Default(df))

\* what a choice passes on to its values, and what is never written
AfterCalc(d, S, s) ==
  LET seen == {v \in ToSet(d.syms[s].values) : S.vis[v] # no}
      S1 == IF d.syms[s].choice /\ s \in S.write THEN [S EXCEPT !.write = @ \cup seen] ELSE S
      S2 == IF d.syms[s].auto THEN [S1 EXCEPT !.write = @ \ {s}] ELSE S1
  IN  IF s \in S2.need THEN set_all_choice_values(d, S2, s) ELSE S2

\* a value of a choice that still has to be given its values has that done first
SettleFirst(d, S, s) ==
  IF d.syms[s].choiceval /\ s \in S.need
  THEN sym_calc_value(d, [S EXCEPT !.need = @ \ {s}], d.syms[s].of) ELSE S

CalcOwn(d, S, s) == IF d.syms[s].type \in BoolTypes THEN CalcTri(d, S, s) ELSE CalcStr(d, S, s)

CalcChosen(d, S, s) == IF d.syms[s].choice /\ S.tri[s] = yes THEN sym_calc_choice(d, S, s) ELSE S

NoteModules(d, S, s) == IF d.modules = s THEN [S EXCEPT !.modval = S.tri[s]] ELSE S

sym_calc_value(d, S, s) ==
  LET Flags(X) == [X EXCEPT !.valid = @ \cup {s},
                            !.write = IF d.syms[s].choiceval THEN @ ELSE @ \ {s}]
      Empty(X) == [X EXCEPT !.tri[s] = no, !.str[s] = None]
  IN  IF s \notin SymNames \/ s \in S.valid THEN S
      ELSE IF d.syms[s].type = "unknown"
      THEN [S EXCEPT !.valid = @ \cup {s}, !.str[s] = s, !.tri[s] = no]
      ELSE With(Flags(SettleFirst(d, S, s)), LAMBDA S1 :
           With(Empty(sym_calc_visibility(d, S1, s)), LAMBDA S2 :
           With(CalcOwn(d, S2, s), LAMBDA S3 :
           With(CalcChosen(d, S3, s), LAMBDA S4 :
           With(sym_validate_range(d, S4, s), LAMBDA S5 :
           AfterCalc(d, NoteModules(d, S5, s), s))))))

CalcAll(d, S) == Fold(LAMBDA X, s : sym_calc_value(d, X, s), S, Order)

------------------------------------------------------------------------------
(* Setting values.  A result is a record: whether the call succeeded, and S.  *)
\* Mutant: nothing is noted as changed
ClearUncounted(d, S) == sym_calc_value(d, [S EXCEPT !.valid = {}], d.modules)

sym_clear_all_valid(d, S) ==
  sym_calc_value(d, [S EXCEPT !.valid = {}, !.changed = TRUE], d.modules)

sym_tristate_within_range(d, S, s, val) ==
  /\ S.vis[s] # no
  /\ sym_get_type(d, S, s) \in BoolTypes
  /\ ~(sym_get_type(d, S, s) = "boolean" /\ val = mod)
  /\ S.vis[s] > S.rev[s]
  /\ IF d.syms[s].choiceval /\ S.vis[s] = yes THEN val = yes
     ELSE S.rev[s] <= val /\ val <= S.vis[s]

\* Mutant: the cached values are kept
SetTristateNoClear(d, S, s, val) ==
  IF S.tri[s] # val /\ ~sym_tristate_within_range(d, S, s, val) THEN [ok |-> FALSE, S |-> S]
  ELSE [ok |-> TRUE, S |-> [S EXCEPT !.user.has = @ \cup {s}, !.user.tri[s] = val, !.tri[s] = val,
                                     !.changed = TRUE]]

\* setting a value of a choice also makes it the choice's, and gives every visible
\* value of that choice a value from the user
sym_set_tristate_value(d, S, s, val) ==
  LET old  == S.tri[s]
      c    == d.syms[s].of
      pick == d.syms[s].choiceval /\ val = yes
      S1   == [S EXCEPT !.user.has = @ \cup {s}
                          \cup (IF pick THEN {c} \cup {v \in ToSet(d.syms[c].values) : S.vis[v] # no}
                                ELSE {}),
                        !.user.val = IF pick THEN [@ EXCEPT ![c] = s] ELSE @,
                        !.user.tri[s] = val]
  IN  IF old # val /\ ~sym_tristate_within_range(d, S, s, val)
      THEN [ok |-> FALSE, S |-> S]
      ELSE [ok |-> TRUE, S |-> IF old # val THEN sym_clear_all_valid(d, S1) ELSE S1]

\* the next value in the order n, m, y that can be set
RECURSIVE ToggleFrom(_, _, _, _, _)
ToggleFrom(d, S, s, old, v) ==
  LET new == (v + 1) % 3
  IN  With(sym_set_tristate_value(d, S, s, new), LAMBDA r :
           IF r.ok \/ new = old THEN r.S ELSE ToggleFrom(d, S, s, old, new))

sym_toggle_tristate_value(d, S, s) == ToggleFrom(d, S, s, S.tri[s], S.tri[s])

sym_string_valid(d, s, str) ==
  CASE d.syms[s].type = "string" -> TRUE
    [] d.syms[s].type = "int" -> Text[str].isInt
    [] d.syms[s].type = "hex" -> Text[str].isHex
    [] d.syms[s].type \in BoolTypes -> str \in Constants
    [] OTHER -> FALSE

sym_string_within_range(d, S, s, str) ==
  LET Within(r) == r = << >> \/ (r[1] <= NumOf(d, s, str) /\ NumOf(d, s, str) <= r[2])
  IN  IF d.syms[s].type \in BoolTypes
      THEN [ok |-> str \in Constants /\ sym_tristate_within_range(d, S, s, Tri(str)), S |-> S]
      ELSE IF d.syms[s].type \notin NumTypes \/ ~sym_string_valid(d, s, str)
      THEN [ok |-> d.syms[s].type = "string", S |-> S]
      ELSE With(RangeOf(d, S, s), LAMBDA r : [ok |-> Within(r.range), S |-> r.S])

sym_set_string_value(d, S, s, str) ==
  LET new == IF d.syms[s].type = "hex" THEN Text[str].withHex ELSE str
      Store(X) == [X EXCEPT !.user.has = @ \cup {s}, !.user.val[s] = new]
  IN  IF d.syms[s].type \in BoolTypes
      THEN IF str \in Constants THEN sym_set_tristate_value(d, S, s, Tri(str))
           ELSE [ok |-> FALSE, S |-> S]
      ELSE With(sym_string_within_range(d, S, s, str), LAMBDA r :
           IF ~r.ok THEN r
           ELSE IF new = str /\ S.user.val[s] = str THEN [ok |-> TRUE, S |-> Store(r.S)]
           ELSE [ok |-> TRUE, S |-> sym_clear_all_valid(d, Store(r.S))])

\* a tristate default as a text: a boolean symbol, or one while modules are off, has no m
TriText(d, S, s, t) ==
  LET yesForMod == \/ ~d.syms[s].choiceval /\ TriOf(S, d.modules) = no
                   \/ d.syms[s].type = "boolean"
  IN  CASE t = no -> "n"
        [] t = mod -> IF yesForMod THEN "y" ELSE "m"
        [] t = yes -> "y"

\* the value s would have without one from the user: what a minimal config leaves out
sym_get_string_default(d, S, s) ==
  LET Text0(n, v, X) ==
        IF d.syms[s].type \in BoolTypes
        THEN TriText(d, X, s, EXPR_OR(IF n = 0 THEN no
                                      ELSE EXPR_AND(ValueIn(d, X, d.props[n].expr), v), X.rev[s]))
        ELSE IF n = 0 THEN "" ELSE StrOf(X, d.props[n].expr[2])
  IN  With(FirstVisible(d, sym_calc_value(d, sym_calc_visibility(d, S, s), d.modules),
                        s, "default"), LAMBDA df :
      With(IF df.n = 0 THEN df.S ELSE CalcSyms(d, df.S, d.props[df.n].expr), LAMBDA X :
           [S |-> X, str |-> Text0(df.n, df.v, X)]))
=============================================================================
