-------------------------------- MODULE Printf --------------------------------
(* _printf_driver (libc/printf.c): what a format and its arguments print.  A   *)
(* format is a sequence of items: [text |-> s], or a directive: the characters *)
(* of its flags and width, its conversion and its argument, a number (the raw  *)
(* contents of a register) or a text.  Texts are sequences of characters.      *)
(* Integers have a few bits: CharBits in a char and so on up to long long.     *)
EXTENDS Integers, SequencesExt

CONSTANTS CharBits, ShortBits, IntBits, LongBits

Pow(b) == 2^b

hextable      == <<"0","1","2","3","4","5","6","7","8","9","a","b","c","d","e","f">>
hextable_caps == <<"0","1","2","3","4","5","6","7","8","9","A","B","C","D","E","F">>

Digit == [c \in ToSet(SubSeq(hextable, 1, 10)) |-> CHOOSE i \in 0..9 : hextable[i + 1] = c]

Twice(f, once, twice) == f \cup {once} \cup (IF once \in f THEN {twice} ELSE {})

\* next_format: one character of a directive before its conversion.
Format(f, c) ==
  CASE c \in DOMAIN Digit ->
         [flags |-> IF c = "0" /\ f.num = 0 THEN f.flags \cup {"LEADZERO"} ELSE f.flags,
          num   |-> 10 * f.num + Digit[c]]
    [] c = "." -> f
    [] c = "-" -> [f EXCEPT !.flags = @ \cup {"LEFTFORMAT"}]
    [] c = "+" -> [f EXCEPT !.flags = @ \cup {"SHOWSIGN"}]
    [] c = " " -> [f EXCEPT !.flags = @ \cup {"BLANKPOS"}]
    [] c = "#" -> [f EXCEPT !.flags = @ \cup {"ALT"}]
    [] c = "l" -> [f EXCEPT !.flags = Twice(@, "LONG", "LONGLONG")]
    [] c = "h" -> [f EXCEPT !.flags = Twice(@, "HALF", "HALFHALF")]
    [] c \in {"z", "j", "t"} -> [f EXCEPT !.flags = @ \cup {"SIZET"}]

Parsed(spec) == FoldLeft(Format, [flags |-> {}, num |-> 0], spec)

\* the width of the type that va_arg is asked for
ArgBits(flags) ==
  CASE flags \cap {"LONG", "LONGLONG"} # {} -> LongBits
    [] "HALFHALF" \in flags -> CharBits
    [] "HALF" \in flags -> ShortBits
    [] "SIZET" \in flags -> LongBits
    [] OTHER -> IntBits

\* The number a register means: unsigned, and as two's complement.
Unsigned(raw, bits) == raw % Pow(bits)
Signed(raw, bits) ==
  IF Unsigned(raw, bits) >= Pow(bits - 1) THEN Unsigned(raw, bits) - Pow(bits)
  ELSE Unsigned(raw, bits)

Digits(n, base, table) ==
  LET of[k \in Nat] == IF k < base THEN <<table[k + 1]>>
                       ELSE Append(of[k \div base], table[(k % base) + 1])
  IN  of[n]

\* n is an unsigned long long: a negative number has been widened into it.
longlong_to_string(n, flags) ==
  LET negative == "SIGNED" \in flags /\ n >= Pow(LongBits - 1)
  IN  [s    |-> Digits(IF negative THEN Pow(LongBits) - n ELSE n, 10, hextable),
       sign |-> CASE negative -> <<"-">>
                  [] ~negative /\ "SHOWSIGN" \in flags -> <<"+">>
                  [] ~negative /\ "SHOWSIGN" \notin flags /\ "BLANKPOS" \in flags -> <<" ">>
                  [] OTHER -> << >>]

longlong_to_hexstring(n, flags) ==
  Digits(n, 16, IF "CAPS" \in flags THEN hextable_caps ELSE hextable)

Times(k, c) == [i \in 1..(IF k > 0 THEN k ELSE 0) |-> c]

\* Mutant: the sign takes no column of the width.
_output_string_wide(f, sign, s) ==
  IF "LEFTFORMAT" \in f.flags THEN s \o Times(f.num - Len(s), " ")
  ELSE LET pad == Times(f.num - Len(s), IF "LEADZERO" \in f.flags THEN "0" ELSE " ")
       IN  IF "LEADZERO" \in f.flags THEN sign \o pad \o s ELSE pad \o sign \o s

\* Pads a text to the width; a sign takes one column of it.
_output_string(f, sign, s) ==
  IF "LEFTFORMAT" \in f.flags THEN s \o Times(f.num - Len(s), " ")
  ELSE LET width == IF sign # << >> /\ f.num > 0 THEN f.num - 1 ELSE f.num
           pad == Times(width - Len(s), IF "LEADZERO" \in f.flags THEN "0" ELSE " ")
       IN  IF "LEADZERO" \in f.flags THEN sign \o pad \o s ELSE pad \o sign \o s

With(f, more) == [f EXCEPT !.flags = @ \cup more]

Decimal(f, n) ==
  LET r == longlong_to_string(n, f.flags) IN _output_string(f, r.sign, r.s)

Hex(f, n) ==
  (IF "ALT" \in f.flags THEN <<"0", IF "CAPS" \in f.flags THEN "X" ELSE "x">> ELSE << >>)
    \o _output_string(f, << >>, longlong_to_hexstring(n, f.flags))

Directive(f, conv, arg) ==
  CASE conv = "%" -> <<"%">>
    [] conv = "c" -> arg
    [] conv = "s" -> _output_string([f EXCEPT !.flags = @ \ {"LEADZERO"}], << >>, arg)
    [] conv \in {"d", "i"} ->
         Decimal(With(f, {"SIGNED"}), Unsigned(Signed(arg, ArgBits(f.flags)), LongBits))
    [] conv = "u" -> Decimal(f, Unsigned(arg, ArgBits(f.flags)))
    [] conv = "p" -> Hex(With(f, {"LONG", "ALT"}), Unsigned(arg, LongBits))
    [] conv = "X" -> Hex(With(f, {"CAPS"}), Unsigned(arg, ArgBits(f.flags)))
    [] conv = "x" -> Hex(f, Unsigned(arg, ArgBits(f.flags)))
    [] OTHER -> <<"%", conv>>

Printed(item) ==
  IF "text" \in DOMAIN item THEN item.text
  ELSE Directive(Parsed(item.spec), item.conv, item.arg)

_printf_driver(fmt) == FlattenSeq([i \in DOMAIN fmt |-> Printed(fmt[i])])

------------------------------------------------------------------------------
Value(s, table) ==
  FoldLeft(LAMBDA n, c : Len(table) * n + (CHOOSE i \in DOMAIN table : table[i] = c) - 1, 0, s)

\* Directives the reference below is about: the others (a sign with '-', a width with '#'
\* or %p, a precision) are not printed as in C, see README.
Regular(item) ==
  /\ item.conv \in {"d", "u", "x", "X"}
  /\ "." \notin ToSet(item.spec) /\ "#" \notin ToSet(item.spec)
  /\ item.conv = "d" => "-" \notin ToSet(item.spec)
  /\ item.conv # "d" => {"+", " "} \cap ToSet(item.spec) = {}

\* Blanks, a sign, zeros, digits, blanks: the digits are the number the argument has in its
\* type, without a zero in front, the sign says what it must, and nothing is cut off or
\* wider than the width asks for.
Meant(item, out) ==
  LET f      == Parsed(item.spec)
      number == IF item.conv = "d" THEN Signed(item.arg, ArgBits(f.flags))
                ELSE Unsigned(item.arg, ArgBits(f.flags))
      table  == CASE item.conv \in {"d", "u"} -> SubSeq(hextable, 1, 10)
                  [] item.conv = "x" -> hextable [] OTHER -> hextable_caps
      sign   == CASE number < 0 -> <<"-">>
                  [] number >= 0 /\ "+" \in ToSet(item.spec) -> <<"+">>
                  [] number >= 0 /\ "+" \notin ToSet(item.spec) /\ " " \in ToSet(item.spec) -> <<" ">>
                  [] OTHER -> << >>
  IN \E l, z, r \in 0..Len(out) :
       \E s \in {SubSeq(out, l + Len(sign) + z + 1, Len(out) - r)} :
         /\ out = Times(l, " ") \o sign \o Times(z, "0") \o s \o Times(r, " ")
         /\ s # << >> /\ ToSet(s) \subseteq ToSet(table)
         /\ Value(s, table) = IF number < 0 THEN 0 - number ELSE number
         /\ s[1] = "0" => Len(s) = 1
         /\ l + z + r = (IF f.num > Len(s) + Len(sign) THEN f.num - Len(s) - Len(sign) ELSE 0)
         /\ l > 0 => {"LEADZERO", "LEFTFORMAT"} \cap f.flags = {}
         /\ z > 0 => "LEADZERO" \in f.flags
         /\ r > 0 => "LEFTFORMAT" \in f.flags
===============================================================================
