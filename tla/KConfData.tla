------------------------------ MODULE KConfData ------------------------------
(* Configuration files: kconfig/confdata.c, the part without the file system. *)
(*                                                                            *)
(* A file is a record: whether it is there, and its lines.  A line is a       *)
(* record: the symbol, the characters after "=", and whether they begin with  *)
(* a quote; "# CONFIG_X is not set" is the line with the value n.  Comments   *)
(* and empty lines are left out.                                              *)
EXTENDS KSymbol

NoFile == [there |-> FALSE, lines |-> << >>]

\* the characters of a string in use, and the string of a sequence of characters
CharsOf(t) == Text[t].chars

TextOf(cs) == CHOOSE t \in DOMAIN Text : Text[t].chars = cs

\* Mutant: only the quote is escaped
EscapeQuote(cs) ==
  FlattenSeq([i \in DOMAIN cs |-> IF cs[i] = "quote" THEN <<"back", cs[i]>> ELSE <<cs[i]>>])

\* what stands between the quotes: a quote and a backslash get a backslash in front
sym_escape_string_value(cs) ==
  FlattenSeq([i \in DOMAIN cs |-> IF cs[i] \in {"quote", "back"} THEN <<"back", cs[i]>>
                                  ELSE <<cs[i]>>])

\* the loop over strpbrk: a backslash is removed and the character after it taken as it
\* is, up to the quote that ends the string; not ok: there is none.  (A backslash at the
\* very end lets the loop run past the line; no file of the model has one.)
RECURSIVE Unescape(_)
Unescape(cs) ==
  IF cs = << >> THEN [ok |-> FALSE, cs |-> << >>]
  ELSE IF Head(cs) = "quote" THEN [ok |-> TRUE, cs |-> << >>]
  ELSE LET rest == IF Head(cs) = "back" THEN Tail(cs) ELSE cs
           more == Unescape(Tail(rest))
       IN  [ok |-> more.ok, cs |-> <<Head(rest)>> \o more.cs]

\* the line conf_write_symbol prints for a value
PrintLine(d, s, val) ==
  IF d.syms[s].type = "string"
  THEN [sym |-> s, quoted |-> TRUE,
        val |-> sym_escape_string_value(CharsOf(val)) \o <<"quote">>]
  ELSE [sym |-> s, quoted |-> FALSE, val |-> CharsOf(val)]

------------------------------------------------------------------------------
(* Reading.  def is "user" or "auto"; a result is S and whether a warning was *)
(* given.                                                                     *)
\* the tristate a line can give a symbol of this type, or none
LineTri(type, line) ==
  CASE ~line.quoted /\ line.val = <<"y">> -> <<yes>>
    [] ~line.quoted /\ line.val = <<"n">> -> <<no>>
    [] ~line.quoted /\ line.val = <<"m">> /\ type = "tristate" -> <<mod>>
    [] OTHER -> << >>

\* bad: the value was refused, with a warning unless this is the file of the last build
conf_set_sym_val(d, x, def, s, line) ==
  LET type == d.syms[s].type
      t    == LineTri(type, line)
      u    == Unescape(line.val)
      str  == TextOf(IF type = "string" THEN u.cs ELSE line.val)
      bad  == [x EXCEPT !.bad = TRUE, !.warn = @ \/ def = "user"]
      took == [x EXCEPT !.bad = FALSE]
  IN  CASE type \in BoolTypes ->
             IF t = << >> THEN bad
             ELSE [took EXCEPT !.S[def].has = @ \cup {s}, !.S[def].tri[s] = t[1]]
        [] type = "string" /\ ~line.quoted -> took
        [] type = "string" /\ line.quoted /\ ~u.ok -> bad
        [] type = "string" /\ line.quoted /\ u.ok ->
             [took EXCEPT !.S[def].has = @ \cup {s}, !.S[def].val[s] = str]
        [] type \in NumTypes ->
             IF line.quoted \/ ~sym_string_valid(d, s, str) THEN bad
             ELSE [took EXCEPT !.S[def].has = @ \cup {s}, !.S[def].val[s] = str]
        [] OTHER -> took

\* setsym: a value of a choice that was read makes the choice's value
SetChoice(d, x, def, s) ==
  LET c == d.syms[s].of
      t == x.S[def].tri[s]
      u == x.S[def].tri[c]
      y == CASE t = no -> x
             [] t = mod -> IF u = yes THEN [x EXCEPT !.S[def].has = @ \ {c}, !.warn = TRUE] ELSE x
             [] t = yes -> [x EXCEPT !.S[def].val[c] = s, !.warn = @ \/ u # no]
  IN  IF ~d.syms[s].choiceval THEN x
      ELSE [y EXCEPT !.S[def].tri[c] = EXPR_OR(@, t)]

\* sym_find: the Kconfig file has the symbol; the files of the model define every symbol
\* they mention
Known(d, s) == s \in SymNames /\ d.syms[s].type # "unknown"

\* one line.  A symbol that the Kconfig file does not have counts as a change, and in
\* the file of the last build is entered as a string, unless its value is quoted: then
\* its type stays S_OTHER, for which no value is valid.
ReadLine(d, x, def, line) ==
  LET s   == line.sym
      x1  == [x EXCEPT !.warn = @ \/ s \in x.S[def].has]
  IN  IF ~Known(d, s)
      THEN IF def = "user" THEN [x EXCEPT !.S.changed = TRUE]
           ELSE IF line.quoted THEN x ELSE [x EXCEPT !.S.foreign = @ \cup {s}]
      ELSE With(IF line.quoted \/ line.val # <<"n">> THEN conf_set_sym_val(d, x1, def, s, line)
                ELSE IF d.syms[s].type \notin BoolTypes THEN [x1 EXCEPT !.bad = FALSE]
                ELSE [x1 EXCEPT !.S[def].has = @ \cup {s}, !.S[def].tri[s] = no, !.bad = FALSE],
                LAMBDA x2 : IF x2.bad THEN x2 ELSE SetChoice(d, x2, def, s))

\* the values of an earlier read are dropped, a choice counts as having one
Forget(d, S, def) ==
  [S EXCEPT ![def] = [NoDefs EXCEPT !.has = {c \in SymNames : d.syms[c].choice}],
            !.valid = {}, !.foreign = IF def = "auto" THEN {} ELSE @]

\* the result for a file that is there; the callers test for that first
conf_read_simple(d, S, file, def) ==
  LET x == Fold(LAMBDA y, line : ReadLine(d, y, def, line),
                    [S |-> Forget(d, S, def), warn |-> FALSE, bad |-> FALSE], file.lines)
  IN  [x EXCEPT !.S = sym_calc_value(d, @, d.modules)]

\* the calculated value of s agrees with the one that was read
AgreesWithFile(d, S, s) ==
  IF sym_has_value(S, s) /\ s \in S.write
  THEN IF d.syms[s].type \in BoolTypes THEN S.user.tri[s] = S.tri[s]
       ELSE S.str[s] = S.user.val[s]
  ELSE ~sym_has_value(S, s) /\ s \notin S.write

\* the second loop of conf_read: values that are not visible are forgotten, unless the
\* file and the Kconfig file disagree, and so are numbers out of range
DropValue(d, x, s) ==
  LET S1 == IF x.S.vis[s] = no /\ ~x.unsaved THEN [x.S EXCEPT !.user.has = @ \ {s}] ELSE x.S
  IN  IF ~sym_has_value(x.S, s) \/ d.syms[s].choiceval THEN x
      ELSE IF d.syms[s].type \in BoolTypes \cup {"unknown"} THEN [x EXCEPT !.S = S1]
      ELSE With(sym_string_within_range(d, S1, s, S1.user.val[s]), LAMBDA r :
                IF r.ok THEN [x EXCEPT !.S = r.S]
                ELSE [S |-> [r.S EXCEPT !.valid = @ \ {s}, !.user.has = @ \ {s}],
                      unsaved |-> TRUE])

\* the two loops of conf_read over the symbols
Compare(d, S) ==
  LET plain == {s \in SymNames : ~d.syms[s].choice /\ ~d.syms[s].auto}
  IN  With(CalcAll(d, S), LAMBDA X :
           Fold(LAMBDA x, s : DropValue(d, x, s),
                [S |-> X, unsaved |-> \E s \in plain : ~AgreesWithFile(d, X, s)], Order))

\* conf_read of a file that is there
ReadConfig(d, S, file) ==
  With(conf_read_simple(d, [S EXCEPT !.changed = FALSE], file, "user"), LAMBDA x :
  With(Compare(d, x.S), LAMBDA y : [y.S EXCEPT !.changed = @ \/ x.warn \/ y.unsaved]))

\* conf_read of one that is not: the name given (the changes are forgotten before the
\* file is tried), or none given, which counts as a change
conf_read(d, S, file, named) ==
  IF file.there THEN ReadConfig(d, S, file)
  ELSE IF named THEN [S EXCEPT !.changed = FALSE]
  ELSE sym_calc_value(d, [S EXCEPT !.changed = TRUE], d.modules)

------------------------------------------------------------------------------
(* The tree below an entry, and what of it is visible.                        *)
RECURSIVE menu_is_visible(_, _, _)
RECURSIVE Preorder(_, _)

\* the condition of the prompt of m, for a symbol by calculating it
CalcPrompt(d, S, m) ==
  LET mm == d.menus[m]
  IN  IF mm.sym # None THEN sym_calc_value(d, S, mm.sym)
      ELSE With(Condition(d, S, d.props[mm.prompt].visible, yes),
                LAMBDA c : [c.S EXCEPT !.pv[mm.prompt] = c.v])

\* a result is S and the answer.  An entry whose own prompt is hidden is visible when one
\* below it is, and then its symbol counts as set by the user.
menu_is_visible(d, S, m) ==
  LET mm == d.menus[m]
      Below(X) == Fold(LAMBDA x, k : IF x.v THEN x ELSE menu_is_visible(d, x.S, k),
                       [S |-> X, v |-> FALSE], mm.kids)
      SetByUser(x) == IF x.v THEN [x EXCEPT !.S.user.has = @ \cup {mm.sym}] ELSE x
      Answer(X) == IF X.pv[mm.prompt] # no THEN [S |-> X, v |-> TRUE]
                   ELSE IF mm.sym = None THEN [S |-> X, v |-> FALSE]
                   ELSE IF X.tri[mm.sym] = no THEN [S |-> X, v |-> FALSE]
                   ELSE With(Below(X), SetByUser)
  IN  IF mm.prompt = 0 THEN [S |-> S, v |-> FALSE]
      ELSE With(Condition(d, S, mm.visibility, yes), LAMBDA c :
                IF c.v = no THEN [S |-> c.S, v |-> FALSE]
                ELSE With(CalcPrompt(d, c.S, m), Answer))

\* the order in which the loops over list, next and parent reach the entries below m
Preorder(d, m) ==
  FlattenSeq([i \in DOMAIN d.menus[m].kids |->
                <<d.menus[m].kids[i]>> \o Preorder(d, d.menus[m].kids[i])])

RECURSIVE menu_get_parent_menu(_, _)
menu_get_parent_menu(d, m) ==
  IF m = 1 THEN 1
  ELSE IF HasPrompt(d, m) /\ d.props[d.menus[m].prompt].type = "menu" THEN m
  ELSE menu_get_parent_menu(d, d.menus[m].parent)

------------------------------------------------------------------------------
(* Writing: what goes into the file, and S afterwards.                        *)
\* the loop body of conf_write: writing a symbol takes its SYMBOL_WRITE away
WriteEntry(d, x, m) ==
  LET s == d.menus[m].sym
      Add(X) == IF d.syms[s].type = "unknown" THEN x.lines
                ELSE Append(x.lines, PrintLine(d, s, sym_get_string_value(d, X, s)))
  IN  IF s = None THEN [x EXCEPT !.S = menu_is_visible(d, @, m).S]
      ELSE IF d.syms[s].choice THEN x
      ELSE With(sym_calc_value(d, x.S, s), LAMBDA X :
                IF s \notin X.write THEN [x EXCEPT !.S = X]
                ELSE [S |-> [X EXCEPT !.write = @ \ {s}], lines |-> Add(X)])

\* the text conf_write writes; what was saved before has no SYMBOL_WRITE left, so that
\* without a change everything is calculated again
ConfigText(d, S) ==
  Fold(LAMBDA x, m : WriteEntry(d, x, m),
           [S |-> IF S.changed THEN S ELSE sym_clear_all_valid(d, S), lines |-> << >>],
           Preorder(d, 1))

\* a value of a choice that is the default of the choice
RedundantValue(d, S, s) ==
  IF ~d.syms[s].choiceval THEN [S |-> S, v |-> FALSE]
  ELSE With(sym_choice_default(d, S, d.syms[s].of), LAMBDA x :
            [S |-> x.S, v |-> /\ ~d.syms[d.syms[s].of].optional /\ x.v = s
                              /\ d.syms[s].type = "boolean" /\ S.tri[s] = yes])

\* Mutant: a value of a choice is left out if it is y
RedundantYes(d, S, s) ==
  IF ~sym_is_changable(S, s) \/ (d.syms[s].choiceval /\ S.tri[s] = yes) THEN [S |-> S, v |-> TRUE]
  ELSE With(sym_get_string_default(d, S, s), LAMBDA df :
            [S |-> df.S, v |-> sym_get_string_value(d, S, s) = df.str])

\* the line can be left out of a minimal config: the value cannot be changed or is the
\* default, for a value of a choice that of the choice
Redundant(d, S, s) ==
  IF ~sym_is_changable(S, s) THEN [S |-> S, v |-> TRUE]
  ELSE With(sym_get_string_default(d, S, s), LAMBDA df :
            IF sym_get_string_value(d, S, s) = df.str THEN [S |-> df.S, v |-> TRUE]
            ELSE RedundantValue(d, df.S, s))

WriteDefEntry(d, x, m) ==
  LET s == d.menus[m].sym
      Add(X) == Append(x.lines, PrintLine(d, s, sym_get_string_value(d, X, s)))
  IN  IF s = None THEN [x EXCEPT !.S = menu_is_visible(d, @, m).S]
      ELSE IF d.syms[s].choice THEN x
      ELSE With(sym_calc_value(d, x.S, s), LAMBDA X :
           IF s \notin X.write THEN [x EXCEPT !.S = X]
           ELSE With(Redundant(d, [X EXCEPT !.write = @ \ {s}], s), LAMBDA r :
                [S |-> r.S, lines |-> IF r.v THEN x.lines ELSE Add(r.S)]))

\* conf_write_defconfig
DefconfigText(d, S) ==
  Fold(LAMBDA x, m : WriteDefEntry(d, x, m),
           [S |-> sym_clear_all_valid(d, S), lines |-> << >>], Preorder(d, 1))

\* the symbols conf_write_autoconf writes: the ones with SYMBOL_WRITE, no choices
AutoSyms(d, S) == SelectSeq(Order, LAMBDA s : s \in S.write)

\* auto.conf: kconfig_print_symbol with skip_unset
AutoText(d, S) ==
  LET set == SelectSeq(AutoSyms(d, S), LAMBDA s : ~(d.syms[s].type \in BoolTypes
                                                    /\ sym_get_string_value(d, S, s) = "n"))
  IN  [i \in DOMAIN set |-> PrintLine(d, set[i], sym_get_string_value(d, S, set[i]))]

\* autoconf.h: header_print_symbol, what each macro is defined as; a module is defined
\* under another name
HeaderText(d, S) ==
  LET Def(s) == LET v == sym_get_string_value(d, S, s)
                IN  CASE d.syms[s].type \in BoolTypes ->
                           IF v = "n" THEN {} ELSE {<<s, IF v = "m" THEN "module" ELSE "1">>}
                      [] d.syms[s].type = "hex" -> {<<s, Text[v].withHex>>}
                      [] OTHER -> {<<s, v>>}
  IN  UNION {Def(s) : s \in ToSet(AutoSyms(d, S))}

\* tristate.conf
TristateText(d, S) ==
  {<<s, sym_get_string_value(d, S, s)>> :
     s \in {t \in ToSet(AutoSyms(d, S)) : /\ d.syms[t].type = "tristate"
                                          /\ sym_get_string_value(d, S, t) # "n"}}

\* Mutant: a symbol that is no longer written is not looked at
ChangedWritten(d, S, s) ==
  s \in S.write /\ IF d.syms[s].type \in BoolTypes THEN S.tri[s] # S.auto.tri[s]
                   ELSE S.str[s] # S.auto.val[s]

\* the value of s differs from the one of the last build, S.auto
ChangedSinceBuild(d, S, s) ==
  IF s \in S.write
  THEN IF s \in S.auto.has
       THEN IF d.syms[s].type \in BoolTypes THEN S.tri[s] # S.auto.tri[s]
            ELSE S.str[s] # S.auto.val[s]
       ELSE d.syms[s].type \in BoolTypes => S.tri[s] # no
  ELSE s \in S.auto.has

\* conf_split_config: S, and the symbols whose file under include/config is written
conf_split_config(d, S, auto) ==
  With(CalcAll(d, IF auto.there THEN conf_read_simple(d, S, auto, "auto").S ELSE S), LAMBDA X :
       [S |-> X,
        touch |-> {s \in SymNames : ~d.syms[s].auto /\ ChangedSinceBuild(d, X, s)} \cup X.foreign])

------------------------------------------------------------------------------
(* Values for all symbols at once.                                            *)
\* what a mode gives a symbol that has no value; rnd is what rand() yields for it
NewValue(d, mode, s, rnd) ==
  CASE mode = "allyes" -> yes
    [] mode = "allmod" -> mod
    [] mode = "allno" -> IF d.syms[s].allno THEN yes ELSE no
    [] mode = "rand" -> rnd[s]

\* the symbols the first loop of conf_set_all_new_symbols gives a value
NewSyms(d, S) == {s \in SymNames : /\ ~sym_has_value(S, s) /\ s \notin S.valid
                                   /\ sym_get_type(d, S, s) \in BoolTypes}

\* Mutant: the symbols are given values without being marked
SetNewUnmarked(d, S, mode, rnd) ==
  LET new == NewSyms(d, S)
  IN  IF mode = "alldef" THEN [S |-> S, changed |-> new # {}]
      ELSE [S |-> [S EXCEPT !.user.tri = [s \in SymNames |-> IF s \in new THEN NewValue(d, mode, s, rnd)
                                                             ELSE @[s]]],
            changed |-> new # {}]

\* that loop; a choice is given none at random, and def_default changes nothing
SetNew(d, S, mode, rnd) ==
  LET new == NewSyms(d, S)
      flag == {s \in new : ~(d.syms[s].choice /\ mode = "rand")}
  IN  IF mode = "alldef" THEN [S |-> S, changed |-> new # {}]
      ELSE [S |-> [S EXCEPT !.user.has = @ \cup flag,
                            !.user.tri = [s \in SymNames |-> IF s \in new THEN NewValue(d, mode, s, rnd)
                                                             ELSE @[s]]],
            changed |-> new # {}]

\* one value of the choice, the picked one, is y, the others n
randomize_choice_values(d, S, c, pick) ==
  LET vals == ToSet(d.syms[c].values)
  IN  [S EXCEPT !.user.tri = [s \in SymNames |-> IF s = pick THEN yes
                                                 ELSE IF s \in vals THEN no ELSE @[s]],
                !.user.val[c] = pick, !.user.has = @ \cup vals \cup {c},
                !.valid = @ \ (vals \cup {c})]

\* the last loop over the choices that have no value; pick[c] is the value rand() yields
SettleChoice(d, x, mode, c, pick) ==
  IF sym_has_value(x.S, c) \/ ~d.syms[c].choice THEN x
  ELSE With(sym_calc_value(d, x.S, c), LAMBDA X :
       IF mode # "rand" THEN [S |-> set_all_choice_values(d, X, c), changed |-> TRUE]
       ELSE IF X.tri[c] # yes THEN [S |-> X, changed |-> FALSE]
       ELSE [S |-> randomize_choice_values(d, X, c, pick[c]), changed |-> TRUE])

\* all choices without a value, and all values of choices, are to be settled when they
\* are calculated
NeedValues(d, S) ==
  [S EXCEPT !.need = @ \cup {s \in SymNames : (d.syms[s].choice /\ ~sym_has_value(S, s))
                                                \/ d.syms[s].choiceval}]

conf_set_all_new_symbols(d, S, mode, rnd, pick) ==
  With(SetNew(d, S, mode, rnd), LAMBDA x :
  With(sym_clear_all_valid(d, x.S), LAMBDA X :
       Fold(LAMBDA y, c : SettleChoice(d, y, mode, c, pick),
            [S |-> IF mode = "rand" THEN X ELSE NeedValues(d, X), changed |-> x.changed], Order)))
=============================================================================
