------------------------------- MODULE Console -------------------------------
(* The VGA text console (driver/console/console.c) and the serial line        *)
(* (driver/uart/uart.c).  The frame buffer is linear, as in the code: a       *)
(* cursor that has left the window writes into a neighbouring cell.           *)
EXTENDS Integers, SequencesExt

CONSTANTS FRAME_WIDTH, FRAME_HEIGHT, TAB   \* TAB is 8 in the code

ASSUME WindowIsThere == {FRAME_WIDTH, FRAME_HEIGHT, TAB} \subseteq Nat \ {0}

VARIABLES fb, cs, uart

consoleVars == <<fb, cs, uart>>

\* the window: x1 and y1 are 0
x2 == FRAME_WIDTH - 1
y2 == FRAME_HEIGHT - 1

ANCHOR_BUF(x, y) == FRAME_WIDTH * y + x

\* cells of the window, and those beside it a cursor can reach
Cells == (0 - TAB)..(ANCHOR_BUF(x2, y2) + TAB)

\* clear_console and place
console_init == /\ fb = [a \in Cells |-> " "]
                /\ cs = [x |-> 0, y |-> 0]
                /\ uart = << >>

\* Every row moves up by one; the last one is filled with the attribute and no character.
scroll(b) ==
  [a \in Cells |->
     IF a \in 0..ANCHOR_BUF(x2, y2 - 1) THEN b[a + FRAME_WIDTH]
     ELSE IF a \in ANCHOR_BUF(0, y2)..ANCHOR_BUF(x2, y2) THEN "NUL"
     ELSE b[a]]

NewLine(b, x, y) ==
  IF y = y2 THEN [fb |-> scroll(b), x |-> x, y |-> y] ELSE [fb |-> b, x |-> x, y |-> y + 1]

\* Rounds up to a multiple of TAB.
Boundary(x) == ((x + TAB - 1) \div TAB) * TAB

\* What console_putc(c) does when it has found the cursor at x, y.
console_putc(b, c, x, y) ==
  CASE c = "\t" -> IF x + TAB >= x2 + 1 THEN NewLine(b, 0, y)
                   ELSE [fb |-> b, x |-> Boundary(x + TAB), y |-> y]
    [] c = "\r" -> [fb |-> b, x |-> 0, y |-> y]
    [] c = "\n" -> NewLine(b, x, y)
    [] c = "BS" -> [fb |-> [b EXCEPT ![ANCHOR_BUF(x - 1, y)] = " "], x |-> x - 1, y |-> y]
    [] OTHER -> LET shown == [b EXCEPT ![ANCHOR_BUF(x, y)] = c]
                IN  IF x + 1 >= x2 + 1 THEN NewLine(shown, 0, y)
                    ELSE [fb |-> shown, x |-> x + 1, y |-> y]

\* The characters console_put_str gives to console_putc, in their order, and whether
\* uart_putc gets each of them too.
console_put_str(text) ==
  FlattenSeq([i \in DOMAIN text |->
    IF text[i] = "\n" THEN << <<"\r", FALSE>>, <<"\n", TRUE>> >> ELSE << <<text[i], TRUE>> >>])

------------------------------------------------------------------------------
\* A sheet of paper of any length that the text is written on, from the first character
\* on: a line feed is a new line, and so is the end of a line.
Paper(text) ==
  LET blank == [x \in 0..x2 |-> " "]
      feed(p) == [rows |-> IF p.y = Len(p.rows) THEN Append(p.rows, blank) ELSE p.rows,
                  x |-> 0, y |-> p.y + 1]
      write(p, c) ==
        CASE c = "\n" -> feed(p)
          [] c = "\r" -> [p EXCEPT !.x = 0]
          [] OTHER -> LET q == [p EXCEPT !.rows[p.y] = [@ EXCEPT ![p.x] = c], !.x = @ + 1]
                      IN  IF q.x > x2 THEN feed(q) ELSE q
  IN  FoldLeft(write, [rows |-> <<blank>>, x |-> 0, y |-> 1], text)

\* The window shows the end of the paper, and the cursor is where the next character goes.
ShowsEndOf(text) ==
  \E p \in {Paper(text)} : \E top \in {IF p.y > FRAME_HEIGHT THEN p.y - FRAME_HEIGHT ELSE 0} :
    /\ cs = [x |-> p.x, y |-> p.y - 1 - top]
    /\ \A x \in 0..x2, y \in 0..y2 :
         (IF fb[ANCHOR_BUF(x, y)] = "NUL" THEN " " ELSE fb[ANCHOR_BUF(x, y)])
           = (IF y < Len(p.rows) THEN p.rows[top + y + 1][x] ELSE " ")
==============================================================================
