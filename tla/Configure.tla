------------------------------ MODULE Configure ------------------------------
(* "make menuconfig" and its relatives: the tools that configure the kernel,  *)
(* one after the other, over the same files, and what they promise.           *)
EXTENDS ConfTool, MConf

Next == Main \/ Walk \/ MenuUi \/ conf_write \/ conf_write_autoconf \/ Kill \/ Upgrade

Spec == Init /\ [][Next]_vars

Running == pc # "idle"

ReadBack(file) == ReadConfig(d, FreshSymbols(d), file)

LineOf(file, s) == SelectSeq(file.lines, LAMBDA l : l.sym = s)

\* a complete .config is put in place
Saves == fs'.saved # fs.saved

------------------------------------------------------------------------------
\* the values a symbol would get if nothing were cached
Recalculated == CalcAll(d, [S EXCEPT !.valid = {}])

\* a tristate choice was set to y, and calculating it took that setting away again: a
\* visible value of it has none from the user (sym_calc_choice, symbol.c:297).  It is y
\* until everything is calculated again, then m.
Wavering == \E c \in SymNames : /\ d.syms[c].choice /\ sym_get_type(d, S, c) = "tristate"
                               /\ S.tri[c] = yes /\ ~sym_has_value(S, c)

\* While keys are pressed, a value that counts as calculated is the one that calculating
\* everything again gives: sym_clear_all_valid is called wherever a value another one
\* depends on may have changed (symbol.c:462, 493 and 637).  The exceptions are a wavering
\* choice, and a text that is typed again after a read had dropped it for being out of
\* range: it is the old one, so that nothing is calculated (symbol.c:677).
CacheFresh ==
  pc = "ui" /\ ~Wavering /\ ui.retyped = {} => \E R \in {Recalculated} :
    \A s \in S.valid : /\ S.tri[s] = R.tri[s] /\ S.str[s] = R.str[s]
                       /\ S.vis[s] = R.vis[s] /\ S.rev[s] = R.rev[s]

\* A choice that is y has exactly one value that is y, if any value can be seen at all,
\* and the others are n: sym_calc_choice and the values take turns in setting each other
\* (symbol.c:281, 388, 400), and a select of a value does not raise it beside the chosen one.
ChoiceExactlyOne ==
  pc \in {"ui", "write", "autoconf"} => \E R \in {Recalculated} :
    \A c \in SymNames :
      d.syms[c].choice /\ R.tri[c] = yes /\ (\E w \in ToSet(d.syms[c].values) : R.vis[w] # no)
      => Cardinality({v \in ToSet(d.syms[c].values) : R.tri[v] = yes}) = 1

\* what a symbol that cannot be m gets for m
Lift(R, s, v) == IF v = mod /\ sym_get_type(d, R, s) = "boolean" THEN yes ELSE v

ValueOr(R, e, absent) == IF e = NULL THEN absent ELSE ValueIn(d, R, e)

\* a value of a choice cannot be selected (symbol.c:226)
Selected(R, s) == IF d.syms[s].choiceval THEN no ELSE ValueOr(R, d.syms[s].rev, no)

TriFits(R, s) ==
  /\ R.tri[s] >= Selected(R, s)
  /\ R.tri[s] <= Lift(R, s, EXPR_OR(Selected(R, s), ValueOr(R, d.syms[s].dir, yes)))
  /\ sym_has_value(R, s) /\ R.vis[s] # no =>
       R.tri[s] <= Lift(R, s, EXPR_OR(Selected(R, s), R.vis[s]))

\* the ends of the first range of s whose condition holds, or << >>
EndsOf(R, s) ==
  LET ranges == SelectSeq(PropsOf(d, s, {"range"}),
                          LAMBDA n : ValueOr(R, d.props[n].visible, yes) # no)
      Side(i) == RangeVal(d, R, d.props[Head(ranges)].expr[i], d.syms[s].type)
  IN  IF ranges = << >> THEN << >> ELSE <<Side(2), Side(3)>>

EmptyRange(R, s) == EndsOf(R, s) # << >> /\ EndsOf(R, s)[1] > EndsOf(R, s)[2]

SomeRangeEmpty(R) == \E s \in SymNames : d.syms[s].type \in NumTypes /\ EmptyRange(R, s)

NumFits(R, s) ==
  EndsOf(R, s) # << >> /\ ~EmptyRange(R, s) =>
    NumOf(d, s, R.str[s]) \in EndsOf(R, s)[1]..EndsOf(R, s)[2]

\* Calculating the symbols in the order in which they are looked at ends in values that
\* fit together.  A symbol is at least what selects it; it is more than its dependencies
\* allow, or, if the user's value counts, more than its prompt does, only when it is
\* selected (a default does not need a prompt); and a number lies between the ends of the
\* first range whose condition holds, other symbols among them (symbol.c:155, 209, 400),
\* unless the lower end is above the upper one.
ValuesFit ==
  pc \in {"ui", "write", "autoconf"} => \E R \in {Recalculated} : \A s \in SymNames :
    /\ d.syms[s].type \in BoolTypes => TriFits(R, s)
    /\ d.syms[s].type \in NumTypes => NumFits(R, s)

\* Whatever fails, and wherever a tool is killed, the last configuration that was written
\* completely is found in .config or in .config.old (conf_write, confdata.c:823-838), as
\* long as KCONFIG_OVERWRITECONFIG does not have .config written in place.
ConfigKept == "overwrite" \notin Faults[kc] => fs.saved \in {fs.config, fs.configOld}

\* what autoconf.h holds for the lines of auto.conf
HeaderOf(file) ==
  {LET l == file.lines[i]
       v == IF l.quoted THEN TextOf(Unescape(l.val).cs) ELSE TextOf(l.val)
   IN  CASE d.syms[l.sym].type \in BoolTypes -> <<l.sym, IF v = "m" THEN "module" ELSE "1">>
         [] d.syms[l.sym].type = "hex" -> <<l.sym, Text[v].withHex>>
         [] OTHER -> <<l.sym, v>> : i \in DOMAIN file.lines}

\* "This must be the last step, kbuild has a dependency on auto.conf and this marks the
\* successful completion of the previous steps." (confdata.c:1016): when auto.conf is the
\* newest file, autoconf.h defines what it says, and it says what .config says.
AutoConfMarksCompletion ==
  fs.done => /\ fs.header = HeaderOf(fs.auto)
             /\ fs.config.there => ToSet(fs.auto.lines) =
                  {l \in ToSet(fs.config.lines) :
                     ~(d.syms[l.sym].type \in BoolTypes /\ l.val = <<"n">>)}

\* the Kconfig file has no s any more, and the last auto.conf has a quoted value for it
GoneString(s) == ~Known(d, s) /\ \E i \in DOMAIN LineOf(fs.auto, s) : LineOf(fs.auto, s)[i].quoted

\* When auto.conf is replaced, the file under include/config of every symbol whose value
\* differs from the one in the auto.conf that goes has been written since (conf_split_config),
\* even if tools were killed and configurations changed in between.
\* A string that the Kconfig file no longer has is the exception: its type stays S_OTHER,
\* which for_all_symbols passes over (confdata.c:153, 372; expr.h:88).
TouchedCoversChange ==
  [][fs'.auto # fs.auto => \A s \in SymNames :
       LineOf(fs.auto, s) # LineOf(fs'.auto, s) => s \in fs.touched \/ GoneString(s)]_vars

\* the lines without those of choice values that cannot be seen: SYMBOL_WRITE, once given
\* to a choice value, is taken away only by a write (symbol.c:351)
Kept(lines, R) == SelectSeq(lines, LAMBDA l : ~(d.syms[l.sym].choiceval /\ R.vis[l.sym] = no))

\* A .config that was saved reads back as it was: the tool that reads it sees no need to
\* write it again, and if it does, the lines are the same (conf_read and conf_write), but
\* for those of hidden choice values.  The exceptions are the save of a mconf that has
\* failed to save before, when nothing was set in between: SYMBOL_WRITE is gone and no line
\* is written (confdata.c:805, 830; mconf.c:938-944); and a range whose ends contradict
\* each other, of which no number is (confdata.c:463).
SaveLoadStable ==
  [][Saves /\ ~ui.failed => \E R \in {ReadBack(fs'.saved)} :
       \/ SomeRangeEmpty(R)
       \/ /\ ConfigText(d, R).lines = Kept(fs'.saved.lines, R)
          /\ R.changed => fs'.saved.lines # Kept(fs'.saved.lines, R)]_vars

FileSaysAll == \E x \in {ConfigText(d, S)} : Kept(x.lines, x.S) = Kept(fs[ui.file].lines, x.S)

\* the count does not tell the truth after a file to load was not there (confdata.c:418),
\* after a failed save (confdata.c:805, 830), after a text that is typed again
\* (symbol.c:677), and while a choice wavers (symbol.c:297)
Miscounted == ui.missing \/ ui.failed \/ ui.retyped # {} \/ Wavering

\* mconf leaves without asking only if the file it last saved, or found when it started,
\* says what its symbols say: the change count is kept through every way of setting,
\* reading and writing (confdata.c:1027), but for the cases that Miscounted names.
TruthfulChange == pc \in {"ui", "left"} /\ ~S.changed /\ ~Miscounted => FileSaysAll

\* the symbol of a visible entry can be set, and nobody has set it
Unset(syms, s) == /\ ~sym_has_value(syms, s)
                  /\ sym_is_changable(syms, s) \/ (d.syms[s].choice /\ syms.tri[s] = yes)

\* When oldconfig and silentoldconfig go on to write, there is no symbol left that could
\* be asked for: each has a value from the user or from the file (check_conf, conf.c:420).
NoNewLeft ==
  run.mode \in {"old", "silentold"} /\ pc \in {"write", "autoconf"} =>
    \A i \in DOMAIN Preorder(d, 1) :
      \E v \in {menu_is_visible(d, S, Preorder(d, 1)[i])} :
        v.v /\ SymOf(Preorder(d, 1)[i]) # None => ~Unset(v.S, SymOf(Preorder(d, 1)[i]))

\* A minimal configuration stands for the whole one: defconfig turns the file savedefconfig
\* wrote into the configuration it was made from (confdata.c:668, symbol.c:693).
DefconfigRoundTrip ==
  [][pc = "savedef" /\ fs'.def # fs.def =>
       \E R \in {ReadConfig(d, FreshSymbols(d), fs'.def)} :
         ConfigText(d, conf_set_all_new_symbols(d, R, "alldef", << >>, << >>).S).lines
           = ConfigText(d, S).lines]_vars

\* randconfig ends: every round but the last gives a value to a symbol that had none
\* (conf.c:662, confdata.c:1122).
RandEnds ==
  [][pc = "rand" /\ pc' = "rand" =>
       Cardinality(S'.user.has) > Cardinality(S.user.has)]_vars
=============================================================================
