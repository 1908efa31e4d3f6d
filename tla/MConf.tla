-------------------------------- MODULE MConf --------------------------------
(* The full-screen tool, kconfig/mconf.c: what the open menu lists, what the  *)
(* keys do to the listed entries, and saving, loading and leaving.            *)
(* ui.open is the stack of open menus, ui.all is show_all_options, and        *)
(* ui.counted is child_count # 0: it is counted up, and never reset.          *)
EXTENDS ConfSession

\* the tags of build_conf: "m" a menu, "t" a value to set, "s" a text, ":" nothing to do
ItemTags == {"m", "t", "s", ":"}

RECURSIVE build_conf(_, _, _, _)

\* menu_is_empty, for its effects on the symbols
Emptiness(syms, m) ==
  Fold(LAMBDA y, k : IF y.v THEN y ELSE menu_is_visible(d, y.S, k),
           [S |-> syms, v |-> FALSE], d.menus[m].kids).S

Item(x, syms, tag, m) == [S |-> syms, items |-> Append(x.items, <<tag, m>>)]

\* the entries of m one after the other: the last visible one that is the chosen value
ChosenEntry(syms, m) ==
  LET Look(x, k) == With(menu_is_visible(d, x.S, k), LAMBDA v :
                         [S |-> v.S, def |-> IF v.v /\ d.menus[k].sym = syms.str[d.menus[m].sym]
                                             THEN k ELSE x.def])
  IN  Fold(Look, [S |-> syms, def |-> 0], d.menus[m].kids)

\* what build_conf lists below the entry m goes to, k the entries
Into(x, at, all, kids) == Fold(LAMBDA y, k : build_conf(y, at, all, k), x, kids)

\* the line of a choice: the chosen entry is opened below it when the choice is y
ListChoice(x, at, all, m) ==
  LET s == d.menus[m].sym
      Below(c) == IF c.S.tri[s] # yes THEN d.menus[m].kids
                  ELSE IF c.def = 0 THEN << >>
                  ELSE IF d.menus[c.def].kids = << >> THEN << >> ELSE <<c.def>>
  IN  With(ChosenEntry(x.S, m), LAMBDA c :
           Into(Item(x, c.S, IF sym_is_changable(c.S, s) \/ c.def # 0 THEN "t" ELSE ":", m),
                at, all, Below(c)))

\* the line of a symbol; what is below it is not listed when it is a menu of its own
ListSym(x, at, all, m) ==
  LET s   == d.menus[m].sym
      tag == CASE m = at \/ (d.syms[s].choiceval /\ x.S.tri[s] = yes) -> ":"
               [] d.syms[s].type \in BoolTypes -> "t"
               [] OTHER -> "s"
      own == HasPrompt(d, m) /\ d.props[d.menus[m].prompt].type = "menu" /\ m # at /\ tag # "s"
  IN  Into(Item(x, IF own THEN Emptiness(x.S, m) ELSE x.S, tag, m), at, all,
           IF own THEN << >> ELSE d.menus[m].kids)

\* the line of a menu or a comment
ListMenu(x, at, all, m) ==
  IF d.props[d.menus[m].prompt].type = "menu" THEN Item(x, Emptiness(x.S, m), "m", m)
  ELSE Into(Item(x, x.S, ":", m), at, all, d.menus[m].kids)

\* at is the menu that is open, x the symbols and the items so far
build_conf(x, at, all, m) ==
  LET s == d.menus[m].sym
      Line(y) == IF s # None /\ IsChoice(d, s) THEN ListChoice(y, at, all, m)
                 ELSE IF s # None THEN ListSym(y, at, all, m)
                 ELSE IF m = at THEN Into(y, at, all, d.menus[m].kids)
                 ELSE ListMenu(y, at, all, m)
  IN  With(menu_is_visible(d, x.S, m), LAMBDA v :
           IF (IF all THEN ~HasPrompt(d, m) ELSE ~v.v) THEN [x EXCEPT !.S = v.S]
           ELSE Line([x EXCEPT !.S = v.S]))

Current == Last(ui.open)

SymOf(m) == d.menus[m].sym

\* an entry that counts: of the open menu's own lines only the one of a choice does
Counts(items) == \E i \in DOMAIN items : items[i][2] # Current \/ IsChoice(d, SymOf(Current))

\* no value was set since all symbols were written: setting one clears SYMBOL_VALID
AsWritten ==
  \A m \in DOMAIN d.menus : SymOf(m) = None \/ IsChoice(d, SymOf(m)) \/ SymOf(m) \in S.valid

\* the top of the loop in conf: the open menu is listed, the symbols are calculated for
\* it.  The menu is left at once if no entry was ever counted; a submenu was opened from
\* an entry that counted, so that only the first menu is left like this.
List ==
  /\ pc = "list"
  /\ \E x \in {build_conf([S |-> S, items |-> << >>], Current, ui.all, Current)} :
       /\ S' = x.S
       /\ ui' = [ui EXCEPT !.items = x.items, !.counted = @ \/ Counts(x.items),
                           !.failed = @ /\ AsWritten, !.retyped = @ \cap S.valid]
       /\ pc' = IF ui.counted \/ Counts(x.items) THEN "ui" ELSE "left"
  /\ UNCHANGED <<kc, tree, run, tasks, fs, runs>>

------------------------------------------------------------------------------
StartMConf ==
  /\ pc = "idle" /\ runs < MaxRuns /\ "mconf" \in Modes[kc]
  /\ runs' = runs + 1 /\ pc' = "list" /\ run' = [NoRun EXCEPT !.mode = "mconf"]
  /\ S' = conf_read(d, FreshSymbols(d), fs.config, FALSE)
  /\ ui' = [NoUi EXCEPT !.open = <<1>>]
  /\ UNCHANGED <<kc, tree, tasks, fs>>

\* a key is pressed, after which the menu u is listed again
Key(u) == /\ pc = "ui" /\ ui.keys < MaxKeys
          /\ ui' = [u EXCEPT !.items = << >>, !.keys = @ + 1]
          /\ UNCHANGED <<kc, tree, tasks, runs>>

Relist == pc' = "list" /\ UNCHANGED <<run, fs>>

Listed(tag) == {ui.items[i][2] : i \in {j \in DOMAIN ui.items : ui.items[j][1] = tag}}

\* the keys Y, N and M; a Y that is out of range sets m
PressYes ==
  /\ Key(ui) /\ Relist
  /\ \E m \in Listed("t") : \E r \in {sym_set_tristate_value(d, S, SymOf(m), yes)} :
       S' = IF r.ok THEN r.S ELSE sym_set_tristate_value(d, S, SymOf(m), mod).S

PressNoOrMod ==
  /\ Key(ui) /\ Relist
  /\ \E m \in Listed("t"), v \in {no, mod} : S' = sym_set_tristate_value(d, S, SymOf(m), v).S

PressSpace ==
  /\ Key(ui) /\ Relist
  /\ \E m \in Listed("t") : S' = sym_toggle_tristate_value(d, S, SymOf(m))

\* conf_choice: one of the visible entries of a choice that is y
PickValue ==
  /\ Key(ui) /\ Relist
  /\ \E m \in Listed("t") :
       /\ IsChoice(d, SymOf(m)) /\ S.tri[SymOf(m)] = yes
       /\ \E k \in ToSet(d.menus[m].kids) : \E v \in {menu_is_visible(d, S, k)} :
            /\ v.v /\ SymOf(k) # None
            /\ S' = sym_set_tristate_value(d, v.S, SymOf(k), yes).S

\* s has no value from the user, and str is what one it had was
Dropped(s, str) == ~sym_has_value(S, s) /\ S.user.val[s] = str

\* conf_string
EnterText ==
  /\ Relist
  /\ \E m \in Listed("s"), str \in Answers :
       /\ Key([ui EXCEPT !.retyped = IF Dropped(SymOf(m), str) THEN @ \cup {SymOf(m)} ELSE @])
       /\ \E r \in {sym_set_string_value(d, S, SymOf(m), str)} : r.ok /\ S' = r.S

\* a menu, or a symbol with a menu below it, is opened
OpenMenu ==
  /\ \E m \in Listed("m") \cup
              {k \in Listed("t") : /\ ~(IsChoice(d, SymOf(k)) /\ S.tri[SymOf(k)] = yes)
                                   /\ d.props[d.menus[k].prompt].type = "menu"} :
       Key([ui EXCEPT !.open = Append(@, m)])
  /\ Relist /\ S' = S

CloseMenu == Len(ui.open) > 1 /\ Key([ui EXCEPT !.open = Front(@)]) /\ Relist /\ S' = S

ShowAll == "showall" \in Modes[kc] /\ Key([ui EXCEPT !.all = ~@]) /\ Relist /\ S' = S

conf_save == /\ Key(ui) /\ pc' = "write" /\ S' = S /\ fs' = fs
             /\ \E name \in {"config", "alt"} : run' = [run EXCEPT !.target = name]

\* a file that was loaded counts as changed
conf_load == /\ Relist
             /\ \E name \in {"config", "alt"} :
                  /\ fs[name].there
                  /\ Key([ui EXCEPT !.file = name, !.missing = FALSE, !.failed = FALSE,
                                     !.retyped = {}])
                  /\ S' = [ReadConfig(d, S, fs[name]) EXCEPT !.changed = TRUE]

\* a file that is not there: "File does not exist!"
LoadMissing == /\ "missing" \in Faults[kc] /\ Relist
               /\ \E name \in {"config", "alt"} :
                    ~fs[name].there /\ S' = conf_read(d, S, fs[name], TRUE)
               /\ Key([ui EXCEPT !.missing = TRUE])

\* handle_exit, called when the first menu is left or SIGINT arrives: without a change
\* nothing is asked; else yes saves, no does not, and the escape key goes back
Leaving == pc = "left" \/ (pc = "ui" /\ (Len(ui.open) = 1 \/ "sigint" \in Faults[kc]))

ExitUnchanged == Leaving /\ ~S.changed /\ Exit

ExitSave == /\ Leaving /\ S.changed
            /\ pc' = "write" /\ run' = [run EXCEPT !.target = ui.file]
            /\ ui' = [ui EXCEPT !.leaving = TRUE, !.items = << >>]
            /\ UNCHANGED <<kc, tree, S, tasks, fs, runs>>

ExitDiscard == Leaving /\ S.changed /\ Exit

MenuUi == \/ StartMConf \/ List \/ PressYes \/ PressNoOrMod \/ PressSpace \/ PickValue
          \/ EnterText \/ OpenMenu \/ CloseMenu \/ ShowAll \/ conf_save \/ conf_load
          \/ LoadMissing \/ ExitUnchanged \/ ExitSave \/ ExitDiscard
=============================================================================
