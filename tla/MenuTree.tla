------------------------------- MODULE MenuTree -------------------------------
(* The parser at work on a Kconfig file, statement by statement, and then     *)
(* conf_parse's last steps: menu_finalize and the search for recursive        *)
(* dependencies.  The reference is the tree as it stood in the file.          *)
EXTENDS KMenu

CONSTANTS Files,   \* the Kconfig files, each a sequence of statements
          Orders   \* the orders in which the search may come upon the symbols

ASSUME OrdersHaveAll ==
  \A order \in Orders : ToSet(order) = SymNames /\ Len(order) = Cardinality(SymNames)

VARIABLES pc,      \* "read", "done" once finalized, "checked" after the search
          file,    \* the statements still to be read
          d,       \* what the parser has built
          raw,     \* the tree as the file has it, before menu_finalize
          checked  \* the result of the search

vars == <<pc, file, d, raw, checked>>

Init == /\ file \in Files /\ pc = "read"
        /\ d = EmptyTree /\ raw = EmptyTree /\ checked = NotChecked

Read == /\ pc = "read" /\ file # << >>
        /\ d' = Statement(d, Head(file)) /\ file' = Tail(file)
        /\ UNCHANGED <<pc, raw, checked>>

Finalize == /\ pc = "read" /\ file = << >>
            /\ raw' = d /\ d' = Parsed(d) /\ pc' = "done"
            /\ UNCHANGED <<file, checked>>

CheckDeps == /\ pc = "done"
             /\ (\E order \in Orders : checked' = CheckAll(d, order)) /\ pc' = "checked"
             /\ UNCHANGED <<file, d, raw>>

Next == Read \/ Finalize \/ CheckDeps

Spec == Init /\ [][Next]_vars

------------------------------------------------------------------------------
Name(v) == CASE v = no -> "n" [] v = mod -> "m" [] v = yes -> "y"

\* every assignment of n and y to the symbols that have a type
Assignments ==
  {[s \in SymNames \cup Constants |->
      IF s \in Constants THEN [tri |-> Tri(s), str |-> s]
      ELSE [tri |-> f[s], str |-> Name(f[s])] ] : f \in [SymNames -> {no, yes}]}

Holds(a, e) == expr_calc_value(a, e) # no

Done == pc # "read"

Entries == DOMAIN d.menus

Count(s, x) == Cardinality({i \in DOMAIN s : s[i] = x})

\* what a prompt of entry m asks for, from the file: its own condition, the
\* dependencies of the entry, "visible if" and the conditions of everything around it
RECURSIVE Around(_, _)
Around(a, m) ==
  LET up == raw.menus[m].parent
  IN  /\ Holds(a, raw.menus[m].dep)
      /\ \/ up = 0
         \/ IsChoice(raw, raw.menus[up].sym) /\ a[raw.menus[up].sym].tri # no
         \/ ~IsChoice(raw, raw.menus[up].sym) /\ Around(a, up)

(* Rearranging (menu.c:314-425: the folding of entries into submenus and the  *)
(* lifting of lists without a prompt) loses no entry, duplicates none, and    *)
(* leaves every parent pointer at the list that holds the entry.              *)
TreeIntact ==
  \A m \in Entries \ {1} :
    /\ \A p \in Entries : Count(d.menus[p].kids, m) = IF p = d.menus[m].parent THEN 1 ELSE 0
    /\ Done => \E p \in Entries : p < m /\ p = d.menus[m].parent

(* After menu_finalize (menu.c:314-330) the prompt of an entry is visible     *)
(* exactly when its own condition, its dependencies and those of every menu,  *)
(* "if" and choice around it in the file hold, whatever transformations the   *)
(* conditions went through on the way.                                        *)
DependenciesInherited ==
  Done => \A m \in Entries \ {1} : HasPrompt(d, m) =>
    \A a \in Assignments :
      Holds(a, VisOf(d, m))
        <=> (Holds(a, raw.props[raw.menus[m].prompt].visible) /\ Around(a, m))

(* A symbol is selected (menu.c:332-336) exactly when one of the symbols with *)
(* a select of it is set and the select's condition, that symbol's            *)
(* dependencies and those of what is around it hold: one select adds to the   *)
(* others.  A choice is no target: it is at least m without one.              *)
SelectsCollected ==
  Done => \A t \in {s \in SymNames : ~d.syms[s].choice}, a \in Assignments :
    (d.syms[t].rev # NULL /\ Holds(a, d.syms[t].rev))
      <=> \E s \in SymNames : a[s].tri # no /\
            \E i \in DOMAIN raw.syms[s].props :
              LET p == raw.props[raw.syms[s].props[i]]
              IN  p.type = "select" /\ p.expr[2] = t /\ Holds(a, p.visible) /\ Around(a, p.menu)

(* An entry that menu_finalize puts below a symbol (menu.c:346-374) is never  *)
(* visible while that symbol is n and its own prompt hidden: the front ends   *)
(* do not descend there.                                                      *)
NothingHidden ==
  Done => \A m \in Entries \ {1} :
    LET p == d.menus[m].parent
        s == d.menus[p].sym
    IN  HasPrompt(d, m) /\ s # None /\ HasPrompt(d, p) =>
          \A a \in Assignments : Holds(a, VisOf(d, m)) => a[s].tri # no \/ Holds(a, VisOf(d, p))

\* the dependency graph with a choice and its values as one node
Node(s) == IF d.syms[s].choiceval THEN d.syms[s].of ELSE s

DirectDeps(s) == {t \in ToSet(DepsOf(d, s)) : t \notin Constants}

\* s needs t; a value needs its own choice, which is no recursion
Edge(x, y) == \E s, t \in SymNames :
                /\ Node(s) = x /\ Node(t) = y /\ t \in DirectDeps(s)
                /\ ~(d.syms[s].choiceval /\ t = d.syms[s].of)

RECURSIVE Reach(_)
Reach(S) == LET next == S \cup {y \in SymNames : \E x \in S : Edge(x, y)}
            IN  IF next = S THEN S ELSE Reach(next)

(* sym_check_deps (symbol.c:1255) reports a recursive dependency exactly when *)
(* some symbol's value depends on itself, a choice and its values taken       *)
(* together, in whatever order the hashes bring the symbols; no flag is left. *)
RecursionFound ==
  pc = "checked" =>
    /\ checked.check = {}
    /\ checked.found <=> \E x \in SymNames : x \in Reach({y \in SymNames : Edge(x, y)})
===============================================================================
