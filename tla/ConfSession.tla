----------------------------- MODULE ConfSession -----------------------------
(* The configuration tools and the files they share: the state of a running   *)
(* tool, and how confdata.c replaces files, one system call after the other,  *)
(* so that a tool may fail or be killed between two of them.                  *)
EXTENDS KConfData

CONSTANTS Kconfigs,   \* the Kconfig files, old and new ones
          Newer,      \* the version that follows each of them, 0 for none
          Starts,     \* what a history begins with: Kconfig file and other files
          Modes,      \* what the tools are called for, with each Kconfig file
          Faults,     \* what may happen then: "fopen", "rename" (a call fails), "kill",
                      \* "overwrite", "missing" (a file to load is not there), "sigint"
          Answers,    \* what a user types for a string or a number
          MaxRuns,    \* bound on the number of calls of a tool
          MaxKeys     \* bound on the number of keys pressed in one call of mconf

VARIABLES kc,     \* the Kconfig file in place
          tree,   \* what every tool parses from it, see KMenu
          pc,     \* "idle", or what the running tool does next
          run,    \* the tool's mode and flags
          S,      \* the tool's symbols, see KSymbol
          tasks,  \* conf.c: the calls that are still to be made
          ui,     \* mconf.c: the open menus, the items listed, and its file name
          fs,     \* the files, and what make sees of their times
          runs    \* calls so far

vars == <<kc, tree, pc, run, S, tasks, ui, fs, runs>>

d == tree

File(lines) == [there |-> TRUE, lines |-> lines]

NoRun == [mode |-> "none", sync |-> FALSE, tty |-> TRUE, root |-> 1, again |-> FALSE,
          todo |-> << >>, target |-> "config"]

\* missing, failed and retyped are no state of mconf, they say what went wrong: a file to
\* load was not there, and since then none was loaded or saved; saving failed in the last
\* rename, and the symbols have not been calculated again; the symbols that were given the
\* text a read had dropped, and have not been calculated again
NoUi == [open |-> << >>, items |-> << >>, file |-> "config", all |-> FALSE, leaving |-> FALSE,
         counted |-> FALSE, missing |-> FALSE, failed |-> FALSE,
         retyped |-> {}, keys |-> 0]

NoSymbols == FreshSymbols([props |-> << >>])

\* the files: config and alt with their backups, def (the minimal one), auto.conf,
\* autoconf.h and tristate.conf (as sets) and the three they are written to first.
\* touched: the symbols whose file under include/config is newer than auto.conf;
\* done: auto.conf is newer than .config and the Kconfig files; saved: the last .config
\* that was written completely
NoFiles == [config |-> NoFile, alt |-> NoFile, configOld |-> NoFile, altOld |-> NoFile,
            tmp |-> NoFile, def |-> NoFile, auto |-> NoFile, header |-> {}, tristate |-> {},
            tmpAuto |-> NoFile, tmpHeader |-> {}, tmpTristate |-> {},
            touched |-> {}, done |-> FALSE, saved |-> NoFile]

OldOf(name) == IF name = "config" THEN "configOld" ELSE "altOld"

Init == /\ pc = "idle" /\ run = NoRun /\ tasks = << >> /\ ui = NoUi
        /\ S = NoSymbols /\ runs = 0
        /\ \E x \in Starts :
             /\ kc = x.kc /\ tree = conf_parse(Kconfigs[kc])
             /\ fs = [NoFiles EXCEPT !.config = x.config, !.alt = x.alt, !.def = x.def,
                                     !.auto = x.auto, !.header = x.header, !.saved = x.config]

\* the process ends: by exit, or killed
Gone == /\ pc' = "idle" /\ run' = NoRun /\ S' = NoSymbols /\ tasks' = << >> /\ ui' = NoUi
        /\ UNCHANGED <<kc, tree, runs>>

Exit == Gone /\ UNCHANGED fs

Kill == /\ "kill" \in Faults[kc] /\ pc # "idle"
        /\ Gone /\ UNCHANGED fs

\* a new version of the Kconfig files
Upgrade == /\ pc = "idle" /\ Newer[kc] # 0
           /\ kc' = Newer[kc] /\ tree' = conf_parse(Kconfigs[Newer[kc]])
           /\ fs' = [fs EXCEPT !.done = FALSE]
           /\ UNCHANGED <<pc, run, S, tasks, ui, runs>>

\* what a tool does when conf_write has returned
AfterWrite == IF run.mode = "mconf" /\ ~ui.leaving THEN "list"
              ELSE IF run.sync THEN "autoconf" ELSE "gone"

\* conf_write returns 0, with these files and symbols; a file that mconf saved to is the
\* one it will offer next
Succeeds(files, syms) ==
  /\ fs' = files
  /\ IF AfterWrite = "gone" THEN Gone
     ELSE /\ pc' = AfterWrite /\ S' = [syms EXCEPT !.changed = FALSE]
          /\ ui' = [ui EXCEPT !.file = run.target, !.missing = FALSE]
          /\ UNCHANGED <<kc, tree, run, tasks, runs>>

\* conf_write returns 1: conf exits; mconf exits as well when it was about to, else it
\* shows the error and goes on
Fails(u) == IF AfterWrite = "list"
            THEN pc' = "list" /\ ui' = u /\ UNCHANGED <<kc, tree, run, S, tasks, fs, runs>>
            ELSE Exit

------------------------------------------------------------------------------
(* conf_write(run.target).                                                    *)
WriteFails == /\ pc = "write" /\ "fopen" \in Faults[kc]
              /\ Fails(ui)

\* without a change, everything is calculated again for the file
Recalculates == ui' = IF S.changed THEN ui ELSE [ui EXCEPT !.failed = FALSE, !.retyped = {}]

\* Mutant: the file itself is written
WriteTmpDirect ==
  /\ pc = "write"
  /\ \E x \in {ConfigText(d, S)} :
       S' = x.S /\ fs' = [fs EXCEPT !.tmp = File(x.lines), ![run.target] = File(<< >>)]
  /\ pc' = "rename" /\ Recalculates /\ UNCHANGED <<kc, tree, run, tasks, runs>>

WriteTmp == /\ pc = "write"
            /\ \E x \in {ConfigText(d, S)} :
                 S' = x.S /\ fs' = [fs EXCEPT !.tmp = File(x.lines)]
            /\ pc' = "rename" /\ Recalculates /\ UNCHANGED <<kc, tree, run, tasks, runs>>

\* rename(newname, dirname): its result is not looked at
RenameOld ==
  /\ pc = "rename"
  /\ \/ fs' = IF fs[run.target].there
              THEN [fs EXCEPT ![OldOf(run.target)] = fs[run.target], ![run.target] = NoFile]
              ELSE fs
     \/ "rename" \in Faults[kc] /\ fs' = fs
  /\ pc' = "rename2" /\ UNCHANGED <<kc, tree, run, S, tasks, ui, runs>>

\* the new file is in place: make sees that .config is newer than auto.conf
Placed(files, text) ==
  IF run.target = "config" THEN [files EXCEPT !.config = text, !.saved = text, !.done = FALSE]
  ELSE [files EXCEPT !.alt = text]

RenameNew == /\ pc = "rename2"
             /\ Succeeds([Placed(fs, fs.tmp) EXCEPT !.tmp = NoFile], S)

RenameFails == /\ pc = "rename2" /\ "rename" \in Faults[kc]
               /\ Fails([ui EXCEPT !.failed = TRUE])

\* KCONFIG_OVERWRITECONFIG: the file itself is opened for writing, then written
OverwriteOpen == /\ pc = "write" /\ "overwrite" \in Faults[kc]
                 /\ fs' = [fs EXCEPT ![run.target] = File(<< >>),
                                     !.done = @ /\ run.target # "config"]
                 /\ pc' = "overwrite" /\ Recalculates
                 /\ UNCHANGED <<kc, tree, run, S, tasks, runs>>

OverwriteText == /\ pc = "overwrite"
                 /\ \E x \in {ConfigText(d, S)} : Succeeds(Placed(fs, File(x.lines)), x.S)

conf_write == \/ WriteFails \/ WriteTmp \/ RenameOld \/ RenameNew \/ RenameFails
              \/ OverwriteOpen \/ OverwriteText

------------------------------------------------------------------------------
(* conf_write_autoconf.                                                       *)
\* auto.conf is read for the comparison, and the files to be touched are found
Split == /\ pc = "autoconf"
         /\ \E x \in {conf_split_config(d, sym_clear_all_valid(d, S), fs.auto)} :
              /\ S' = x.S
              /\ run' = [run EXCEPT !.todo = SetToSeq(x.touch)]
         /\ pc' = "touch" /\ UNCHANGED <<kc, tree, tasks, ui, fs, runs>>

Touch == /\ pc = "touch" /\ run.todo # << >>
         /\ fs' = [fs EXCEPT !.touched = @ \cup {Head(run.todo)}]
         /\ run' = [run EXCEPT !.todo = Tail(@)]
         /\ UNCHANGED <<kc, tree, pc, S, tasks, ui, runs>>

\* a file or one of the three temporary ones cannot be opened
AutoFails == /\ pc = "touch" /\ "fopen" \in Faults[kc]
             /\ Exit

WriteAuto == /\ pc = "touch" /\ run.todo = << >>
             /\ fs' = [fs EXCEPT !.tmpAuto = File(AutoText(d, S)), !.tmpHeader = HeaderText(d, S),
                                 !.tmpTristate = TristateText(d, S)]
             /\ pc' = "header" /\ UNCHANGED <<kc, tree, run, S, tasks, ui, runs>>

\* Mutant: auto.conf is put in place first
RenameAutoFirst == /\ pc = "header"
                   /\ fs' = [fs EXCEPT !.auto = fs.tmpAuto, !.done = TRUE]
                   /\ pc' = "tristate" /\ UNCHANGED <<kc, tree, run, S, tasks, ui, runs>>

RenameHeader == /\ pc = "header"
                /\ fs' = [fs EXCEPT !.header = fs.tmpHeader, !.tmpHeader = {}]
                /\ pc' = "tristate" /\ UNCHANGED <<kc, tree, run, S, tasks, ui, runs>>

RenameTristate == /\ pc = "tristate"
                  /\ fs' = [fs EXCEPT !.tristate = fs.tmpTristate, !.tmpTristate = {}]
                  /\ pc' = "auto" /\ UNCHANGED <<kc, tree, run, S, tasks, ui, runs>>

\* this must be the last step: it marks the completion of the others
RenameAuto == /\ pc = "auto"
              /\ fs' = [fs EXCEPT !.auto = fs.tmpAuto, !.tmpAuto = NoFile, !.done = TRUE,
                                  !.touched = {}]
              /\ Gone

AutoRenameFails == /\ pc \in {"header", "tristate", "auto"} /\ "rename" \in Faults[kc]
                   /\ Exit

conf_write_autoconf == \/ Split \/ Touch \/ AutoFails \/ WriteAuto \/ RenameHeader
                       \/ RenameTristate \/ RenameAuto \/ AutoRenameFails
=============================================================================
