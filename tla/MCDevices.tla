------------------------------ MODULE MCDevices ------------------------------
(* Directives and messages for Devices. *)
EXTENDS Devices

Num(spec, conv, arg) == [spec |-> spec, conv |-> conv, arg |-> arg]

\* the flags and widths of the kernel's own formats, scaled, and others
Specs == { << >>, <<"3">>, <<"0", "4">>, <<"+", "3">>, <<" ", "0", "4">>, <<"-", "4">>, <<"#">>, <<".", "4">>,
           <<"h">>, <<"h", "h">>, <<"0", "3", "l">>, <<"0", "6", "l", "l">>, <<"z">> }

MCFormats ==
  {Num(s, c, a) : s \in Specs, c \in {"d", "u", "x", "X", "p"}, a \in 0..127}
    \cup {Num(s, c, <<"a", "b">>) : s \in Specs, c \in {"c", "s", "%", "q"}}

\* a number and a line end; a long line; an empty line; a tab and a backspace
MCMessages ==
  { << [text |-> <<"a">>], Num(<< >>, "d", 1), [text |-> <<"\r", "\n">>] >>,
    << [text |-> <<"b", "b", "b", "b">>] >>,
    << [text |-> <<"\n">>] >>,
    << [text |-> <<"c", "\t", "BS">>] >> }
==============================================================================
