------------------------------- MODULE ConfTool -------------------------------
(* The line-oriented tool, kconfig/conf.c: what main does for each mode, and  *)
(* the walk over the menus that asks for values.  tasks holds the calls still *)
(* to be made, the next one first:                                            *)
(*   <<"conf", m>>, <<"check", m>>   conf and check_conf of entry m           *)
(*   <<"sym", m>>, <<"string", m>>   conf_sym and conf_string: a question     *)
(*   <<"state", m, new>>, <<"list", m, new>>   conf_choice after its conf_sym *)
(*              and its loop; new is what is_new was when it was called       *)
EXTENDS ConfSession

SeedModes == {"allno", "allyes", "allmod", "alldef", "rand"}

WalkModes == {"oldask", "old", "silentold", "listnew", "olddef"}

Calls(what, m) == [i \in DOMAIN d.menus[m].kids |-> <<what, d.menus[m].kids[i]>>]

\* the tool runs on with these symbols
Begin(mode, syms, tty, next) ==
  /\ runs' = runs + 1 /\ pc' = next /\ S' = syms
  /\ run' = [NoRun EXCEPT !.mode = mode, !.sync = mode = "silentold", !.tty = tty]
  /\ tasks' = IF next = "walk" THEN <<IF mode = "oldask" THEN <<"conf", 1>> ELSE <<"check", 1>> >>
              ELSE << >>
  /\ UNCHANGED <<kc, tree, ui, fs>>

\* main up to the switch that asks or sets values.  A call that ends before is one that
\* changes nothing: no .config for silentoldconfig, a changed configuration when
\* KCONFIG_NOSILENTUPDATE forbids the update, no file for defconfig.
StartWalk ==
  /\ pc = "idle" /\ runs < MaxRuns
  /\ \E mode \in Modes[kc] \cap WalkModes, tty \in BOOLEAN :
       /\ mode = "silentold" => fs.config.there
       /\ mode # "silentold" => tty
       /\ Begin(mode, conf_read(d, FreshSymbols(d), fs.config, FALSE), tty, "walk")

StartDefconfig ==
  /\ pc = "idle" /\ runs < MaxRuns /\ "defconfig" \in Modes[kc] /\ fs.def.there
  /\ LET S1 == ReadConfig(d, FreshSymbols(d), fs.def)
     IN  Begin("defconfig", conf_set_all_new_symbols(d, S1, "alldef", << >>, << >>).S, TRUE, "write")

StartSavedef ==
  /\ pc = "idle" /\ runs < MaxRuns /\ "savedef" \in Modes[kc]
  /\ Begin("savedef", conf_read(d, FreshSymbols(d), fs.config, FALSE), TRUE, "savedef")

\* KCONFIG_ALLCONFIG names the file alt, or is not set
Seeded(seed) == IF seed THEN conf_read_simple(d, FreshSymbols(d), fs.alt, "user").S
                ELSE FreshSymbols(d)

StartAll ==
  /\ pc = "idle" /\ runs < MaxRuns
  /\ \E mode \in Modes[kc] \cap SeedModes, seed \in BOOLEAN :
       /\ seed => fs.alt.there
       /\ IF mode = "rand" THEN Begin(mode, Seeded(seed), TRUE, "rand")
          ELSE Begin(mode, conf_set_all_new_symbols(d, Seeded(seed), mode, << >>, << >>).S,
                     TRUE, "write")

\* while (conf_set_all_new_symbols(def_random)): rand() yields any value, for a symbol that
\* is no tristate n or y, and any value of a choice
RandRound ==
  /\ pc = "rand"
  /\ \E rnd \in {f \in [NewSyms(d, S) -> {no, mod, yes}] :
                   \A s \in DOMAIN f : f[s] = mod => d.syms[s].type = "tristate"},
        pick \in {f \in [{c \in SymNames : d.syms[c].choice} -> SymNames] :
                   \A c \in DOMAIN f : f[c] \in ToSet(d.syms[c].values)} :
       LET x == conf_set_all_new_symbols(d, S, "rand", rnd, pick)
       IN  /\ S' = x.S /\ pc' = IF x.changed THEN "rand" ELSE "write"
  /\ UNCHANGED <<kc, tree, run, tasks, ui, fs, runs>>

------------------------------------------------------------------------------
Walking == pc = "walk" /\ tasks # << >>

Top == Head(tasks)

At1(what) == Walking /\ Top[1] = what

Sym(m) == d.menus[m].sym

\* the walk goes on with these calls in place of the first one
Then(calls, syms) == /\ tasks' = calls \o Tail(tasks) /\ S' = syms
                     /\ UNCHANGED <<kc, tree, pc, ui, fs, runs>>

Quiet == run.mode \in {"silentold", "listnew", "olddef"}

\* the calls conf makes for a visible entry
CallsOf(m, syms) ==
  LET s == Sym(m)
      new == ~sym_has_value(syms, s)
  IN  IF HasPrompt(d, m) /\ d.props[d.menus[m].prompt].type = "menu" /\ Quiet /\ run.root # m
      THEN << <<"check", m>> >>
      ELSE IF s = None THEN Calls("conf", m)
      ELSE IF d.syms[s].choice
      THEN (IF sym_is_changable(syms, s) THEN << <<"sym", m>> >> ELSE << >>)
             \o << <<"state", m, new>> >>
      ELSE << <<IF d.syms[s].type \in BoolTypes THEN "sym" ELSE "string", m>> >>
             \o Calls("conf", m)

Conf == /\ At1("conf")
        /\ \E v \in {menu_is_visible(d, S, Top[2])} :
             Then(IF v.v THEN CallsOf(Top[2], v.S) ELSE << >>, v.S)
        /\ UNCHANGED run

\* the entry has a value to be asked for
IsNew(syms, s) == /\ ~sym_has_value(syms, s)
                  /\ \/ sym_is_changable(syms, s)
                     \/ d.syms[s].choice /\ syms.tri[s] = yes

CheckConf ==
  /\ At1("check")
  /\ \E v \in {menu_is_visible(d, S, Top[2])} :
       LET m == Top[2]
           ask == /\ v.v /\ Sym(m) # None /\ run.mode \in {"old", "silentold"}
                  /\ IsNew(v.S, Sym(m))
           root == menu_get_parent_menu(d, m)
       IN  /\ Then((IF ask THEN << <<"conf", root>> >> ELSE << >>)
                     \o (IF v.v THEN Calls("check", m) ELSE << >>), v.S)
           /\ run' = IF ask THEN [run EXCEPT !.again = TRUE, !.root = root] ELSE run

\* conf_askvalue puts no question: the value cannot be changed, or is there already
NotAsked(s) == \/ ~sym_is_changable(S, s)
               \/ run.mode \in {"old", "silentold"} /\ sym_has_value(S, s)

SkipQuestion == /\ Walking /\ Top[1] \in {"sym", "string"} /\ NotAsked(Sym(Top[2]))
                /\ Then(<< >>, S) /\ UNCHANGED run

\* the entries of m that are visible and have a symbol
Shown(m) ==
  LET Look(x, k) == With(menu_is_visible(d, x.S, k), LAMBDA v :
                         [S |-> v.S, kids |-> IF v.v /\ Sym(k) # None THEN Append(x.kids, k)
                                              ELSE x.kids])
  IN  Fold(Look, [S |-> S, kids |-> << >>], d.menus[m].kids)

\* somebody has to answer in conf_choice: not when one value alone can be chosen, or one
\* has been before
AsksFor(kids) == (Top[3] \/ run.mode = "oldask") /\ Len(kids) # 1

\* somebody has to answer
NeedsUser == \/ Walking /\ Top[1] \in {"sym", "string"} /\ ~NotAsked(Sym(Top[2]))
             \/ At1("list") /\ AsksFor(Shown(Top[2]).kids)

\* check_stdin: input or output is redirected, nobody could answer
Abort == NeedsUser /\ ~run.tty /\ Exit

\* an answer that is not accepted brings the question again; an empty line, and the end
\* of the input, stand for the present value
AskSym == /\ At1("sym") /\ ~NotAsked(Sym(Top[2])) /\ run.tty
          /\ \E v \in {no, mod, yes} :
               LET r == sym_set_tristate_value(d, S, Sym(Top[2]), v)
               IN  r.ok /\ Then(<< >>, r.S)
          /\ UNCHANGED run

AskString == /\ At1("string") /\ ~NotAsked(Sym(Top[2])) /\ run.tty
             /\ \E str \in Answers \cup {sym_get_string_value(d, S, Sym(Top[2]))} :
                  LET r == sym_set_string_value(d, S, Sym(Top[2]), str)
                  IN  r.ok /\ Then(<< >>, r.S)
             /\ UNCHANGED run

\* conf_choice once the state of the choice is settled
ChoiceState ==
  /\ At1("state")
  /\ LET m  == Top[2]
         S1 == sym_calc_value(d, S, Sym(m))
     IN  Then(CASE S1.tri[Sym(m)] = no -> << >>
                [] S1.tri[Sym(m)] = mod -> Calls("conf", m)
                [] S1.tri[Sym(m)] = yes -> << <<"list", m, Top[3]>> >>, S1)
  /\ UNCHANGED run

\* the value is set, and what is below it is asked for
Choose(syms, k) == Then(Calls("conf", k), sym_set_tristate_value(d, syms, Sym(k), yes).S)

ChoiceList ==
  /\ At1("list")
  /\ \E x \in {Shown(Top[2])} : \E k \in ToSet(x.kids) :
       /\ AsksFor(x.kids) => run.tty
       /\ AsksFor(x.kids) \/ Len(x.kids) = 1 \/ Sym(k) = x.S.str[Sym(Top[2])]
       /\ Choose(x.S, k)
  /\ UNCHANGED run

\* Mutant: one walk is enough
WalkOnce == run.mode = "oldask"

\* the end of a walk: after oldaskconfig the new symbols are asked for, and a walk that
\* asked for something is followed by another one
WalkAgain == run.mode = "oldask" \/ run.again

EndWalk == /\ pc = "walk" /\ tasks = << >>
           /\ IF WalkAgain
              THEN /\ tasks' = << <<"check", 1>> >> /\ pc' = pc
                   /\ run' = [run EXCEPT !.again = FALSE,
                                         !.mode = IF @ = "oldask" THEN "silentold" ELSE @]
              ELSE /\ tasks' = << >> /\ run' = run
                   /\ pc' = IF run.mode = "listnew" THEN "end"
                            ELSE IF run.sync /\ ~S.changed THEN "autoconf" ELSE "write"
           /\ UNCHANGED <<kc, tree, S, ui, fs, runs>>

End == pc = "end" /\ Exit

Savedef == /\ pc = "savedef"
           /\ fs' = [fs EXCEPT !.def = File(DefconfigText(d, S).lines)]
           /\ Gone

Walk == \/ Conf \/ CheckConf \/ SkipQuestion \/ Abort \/ AskSym
        \/ AskString \/ ChoiceState \/ ChoiceList \/ EndWalk

Main == StartWalk \/ StartDefconfig \/ StartSavedef \/ StartAll \/ RandRound \/ End \/ Savedef
=============================================================================
