------------------------------ MODULE MCConfigure ------------------------------
(* Kconfig files for Configure: the one of this repository, and small ones    *)
(* with modules, selects, choices and ranges, each with a later version.      *)
EXTENDS Configure

MCOrder == <<"MODULES", "A", "B", "C", "CH", "X", "Y", "N", "V", "H">>

Y1(x) == expr_alloc_symbol(x)

Config(s, t) == << <<"config", s>>, <<"type", t>>, <<"prompt", NULL>> >>

Default(v) == << <<"default", Y1(v), NULL>> >>

Depends(e) == << <<"depends", e>> >>

Choice(body) == << <<"choice", "CH">>, <<"type", "boolean">>, <<"prompt", NULL>>, <<"begin">> >>
                  \o body \o << <<"end">> >>

Menu(body) == << <<"menu">>, <<"begin">> >> \o body \o << <<"end">> >>

\* Kconfig and kernel/Kconfig: LINUX_HOST is X, VERSION V, MAX_THREADS N,
\* DEFAULT_THREAD_STACK_SIZE H, DEBUG_ASSERT A; later a second platform Y
Chinix(platforms) ==
  Menu(Choice(<< <<"default", Y1("X"), NULL>> >> \o platforms))
    \o Menu(Config("V", "string") \o Default("0.1") \o Config("N", "int") \o Default("10")
              \o Config("H", "hex") \o Default("0x1000"))
    \o Menu(Config("A", "boolean") \o Default("n"))

\* modules, and a select by a symbol that can be m
Modular(extra) ==
  Config("MODULES", "boolean") \o << <<"option", "modules">> >>
    \o Config("A", "tristate") \o << <<"select", "B", NULL>>, <<"menuconfig">> >>
    \o Config("B", "tristate") \o Depends(Y1("C"))
    \o Config("C", "boolean") \o extra

\* a choice behind a symbol that selects one of its values, and a number whose range
\* depends on it
Chosen(lower, upper) ==
  Config("A", "boolean") \o << <<"select", "Y", NULL>> >>
    \o Choice(Config("X", "boolean") \o Config("Y", "boolean") \o Depends(Y1("A")))
    \o Config("N", "int") \o << <<"range", lower, upper, Y1("A")>> >> \o Default("10")

\* the upper end is a number that can be set, also below the lower end
Limited == Chosen("5", "H") \o Config("H", "int") \o Default("10")

\* a choice that can be m, a symbol that selects one of its values, and one without a
\* prompt that is y as far as its dependency allows
Mixed ==
  Config("MODULES", "boolean") \o << <<"option", "modules">> >>
    \o Config("A", "tristate") \o << <<"select", "Y", NULL>> >>
    \o << <<"choice", "CH">>, <<"type", "tristate">>, <<"prompt", NULL>>, <<"begin">> >>
    \o Config("X", "tristate") \o Config("Y", "tristate") \o << <<"end">> >>
    \o << <<"config", "B">>, <<"type", "tristate">> >> \o Default("y") \o Depends(Y1("A"))

\* a text and a hex number
Texts == Menu(Config("V", "string") \o Default("0.1") \o Config("H", "hex") \o Default("0x1000"))

\* symbols of each kind, and what is left of them: one that nobody is asked for
Full == Texts \o Config("N", "int") \o Default("10") \o Config("A", "boolean")

Rest == << <<"config", "H">>, <<"type", "hex">> >> \o Default("0x1000")

MCKconfigs == <<Chinix(Config("X", "boolean")),
                Chinix(Config("X", "boolean") \o Config("Y", "boolean")),
                Modular(<< >>),
                Modular(<< <<"default", Y1("A"), NULL>> >>),
                Chosen("1", "10"), Limited,
                Modular(<< >>), Modular(<< <<"default", Y1("A"), NULL>> >>),
                Chosen("1", "10"), Chosen("1", "5"), Texts,
                Full, Rest, Mixed>>

MCNewer == <<2, 0, 4, 0, 6, 0, 8, 0, 10, 0, 0, 13, 0, 0>>

Num(t, dec, hex, int, isHex, with, cs) ==
  [dec |-> dec, hex |-> hex, isInt |-> int, isHex |-> isHex, withHex |-> with, chars |-> cs]

MCText ==
  [t \in {"", "y", "m", "n", "0.1", "a\"b", "10", "5", "1", "3", "0x1000", "0x10", "0x5", "0x3", "1000"} |->
     CASE t = "" -> Num(t, 0, 0, FALSE, FALSE, "0x", << >>)
       [] t \in {"y", "m", "n"} -> Num(t, 0, 0, FALSE, FALSE, t, <<t>>)
       [] t = "0.1" -> Num(t, 0, 0, FALSE, FALSE, t, <<"0", ".", "1">>)
       [] t = "a\"b" -> Num(t, 0, 10, FALSE, FALSE, t, <<"a", "quote", "back">>)
       [] t = "10" -> Num(t, 10, 16, TRUE, TRUE, "0x10", <<"10">>)
       [] t = "5" -> Num(t, 5, 5, TRUE, TRUE, "0x5", <<"5">>)
       [] t = "1" -> Num(t, 1, 1, TRUE, TRUE, "0x1", <<"1">>)
       [] t = "3" -> Num(t, 3, 3, TRUE, TRUE, "0x3", <<"3">>)
       [] t = "1000" -> Num(t, 1000, 4096, TRUE, TRUE, "0x1000", <<"1000">>)
       [] t = "0x1000" -> Num(t, 0, 4096, FALSE, TRUE, t, <<"0x", "1000">>)
       [] t = "0x10" -> Num(t, 0, 16, FALSE, TRUE, t, <<"0x", "10">>)
       [] t = "0x5" -> Num(t, 0, 5, FALSE, TRUE, t, <<"0x", "5">>)
       [] t = "0x3" -> Num(t, 0, 3, FALSE, TRUE, t, <<"0x", "3">>)]

MCDecStr(n) == CASE n = 10 -> "10" [] n = 5 -> "5" [] n = 1 -> "1" [] n = 3 -> "3"
                 [] n = 0 -> "0" [] n = 1000 -> "1000"

MCHexStr(n) == CASE n = 16 -> "0x10" [] n = 5 -> "0x5" [] n = 4096 -> "0x1000"

Line(s, v) == [sym |-> s, quoted |-> FALSE, val |-> CharsOf(v)]

Text1(s, v) == [sym |-> s, quoted |-> TRUE, val |-> sym_escape_string_value(CharsOf(v)) \o <<"quote">>]

Start(k, config) == [kc |-> k, config |-> config, alt |-> NoFile, def |-> NoFile,
                     auto |-> NoFile, header |-> {}]

\* the files of a build are there
Built(k, config, header) == [Start(k, config) EXCEPT !.auto = config, !.header = header]

MenuStarts == {Start(1, NoFile),
             Start(3, File(<<Line("MODULES", "y"), Line("A", "m"), Line("C", "y")>>)),
             Built(5, File(<<Line("A", "y"), Line("Y", "y"), Line("N", "3")>>),
                   {<<"A", "1">>, <<"Y", "1">>, <<"N", "3">>}),
             Built(12, File(<<Text1("V", "0.1"), Line("H", "0x10"), Line("N", "3"),
                              Line("A", "y")>>),
                   {<<"A", "1">>, <<"N", "3">>, <<"V", "0.1">>, <<"H", "0x10">>}),
             Start(14, File(<<Line("MODULES", "y"), Line("A", "m"), Line("X", "m")>>))}

Minimal(k, lines) == [Start(k, NoFile) EXCEPT !.def = File(lines), !.alt = File(lines)]

\* a configuration from before there was a C
Early == <<Line("MODULES", "y"), Line("A", "m")>>

ToolStarts == {[Minimal(7, Early) EXCEPT !.config = File(Early)],
               Minimal(9, <<Line("A", "y"), Line("Y", "y")>>),
               Minimal(11, <<Line("H", "0x10")>>)}

MCStarts == MenuStarts \cup ToolStarts

\* the menus with the first six and the last three, the tools without one with the others
MCModes ==
  LET Tools == WalkModes \cup SeedModes \cup {"defconfig", "savedef"}
  IN  [k \in DOMAIN MCKconfigs |->
         CASE k \in 1..6 \cup 12..14 -> {"mconf", "silentold", "showall"}
           [] k \in 7..8  -> Tools \ {"oldask"}
           [] k \in 9..11 -> Tools]

\* where values depend on each other most, no call fails
MCFaults ==
  [k \in DOMAIN MCKconfigs |->
     CASE k \in 1..2         -> {"kill", "fopen", "sigint"}
       [] k \in 3..8 \cup {14} -> {}
       [] k \in 9..11        -> {"fopen", "rename", "overwrite"}
       [] k \in 12..13       -> {"kill", "rename", "missing"}]

MCAnswers == {"3", "a\"b", "1000"}
=============================================================================
