--------------------------------- MODULE Cli ---------------------------------
(***************************************************************************)
(* The shell: its line editor, cli_readline.c, with the completion of      *)
(* command.c, and the loop that runs the lines, cli_simple.c, cli.c and    *)
(* the table of commands of command.c.                                     *)
(*                                                                         *)
(* The editor keeps a line and writes characters to a terminal; what the   *)
(* terminal then shows is modelled too: a row of cells and a cursor.       *)
(* A character is a string.  What buf holds beyond eol_num is never read,  *)
(* so that buf is a sequence of eol_num characters here.                   *)
(***************************************************************************)
EXTENDS Integers, SequencesExt, FiniteSetsExt

CONSTANTS
  Sessions,     \* chars: the characters a user types; len: the size of the
                \* buffer; lines: how many lines are entered; keys: which
                \* of the other keys the user has
  CmdNames,     \* the names in the table of commands, in its order
  Prompt,       \* the prompt, a sequence of characters
  HIST_MAX,     \* lines in the history
  CONFIG_SYS_MAXARGS,  \* words of a command
  CMDV_MAX      \* places for the names that may complete a word

ASSUME ReadlineAssumption == HIST_MAX \in Nat \ {0, 1} /\ CMDV_MAX \in Nat \ {0, 1}

VARIABLE line   \* session; buf, num, insert, esc_save; hist_list,
                \* hist_add_idx, hist_cur, hist_max; entered: the lines
                \* that were added to the history; cells, col: the row of
                \* the terminal and the place of its cursor

BACKSPACE == "BS"
BELL == "BEL"
NEWLINE == "LF"
ESC == "ESC"

NoLine == <<"no line">>    \* the null pointer of hist_prev and hist_next

-----------------------------------------------------------------------------
(* The terminal. *)

(* A blank at the end of the row is like a cell that nothing was put in.   *)
Trimmed(cells) ==
  SubSeq(cells, 1, Max({0} \cup {i \in DOMAIN cells : cells[i] # " "}))

Cell(cells, i, c) ==
  Trimmed([j \in 1 .. Max({i, Len(cells)}) |->
             IF j = i THEN c ELSE IF j <= Len(cells) THEN cells[j] ELSE " "])

putc(s, c) ==
  CASE c = BELL      -> s
    [] c = BACKSPACE -> [s EXCEPT !.col = IF @ = 0 THEN 0 ELSE @ - 1]
    [] c = NEWLINE   -> [s EXCEPT !.col = 0, !.cells = <<>>]
    [] OTHER         -> [s EXCEPT !.cells = Cell(@, s.col + 1, c), !.col = @ + 1]

puts(s, str) == FoldLeft(putc, s, str)

Times(n, c) == [i \in 1 .. n |-> c]

-----------------------------------------------------------------------------
(* The history. *)

hist_init(session) ==
  [session |-> session, buf |-> <<>>, num |-> 0, insert |-> TRUE, esc_save |-> <<>>,
   hist_list |-> [i \in 0 .. HIST_MAX - 1 |-> <<>>],
   hist_add_idx |-> 0, hist_cur |-> 0 - 1, hist_max |-> 0, entered |-> <<>>,
   cells |-> <<>>, col |-> 0]

cread_add_to_hist(s) ==
  LET next == IF s.hist_add_idx + 1 >= HIST_MAX THEN 0 ELSE s.hist_add_idx + 1
  IN  [s EXCEPT !.hist_list[s.hist_add_idx] = s.buf, !.hist_add_idx = next,
                !.hist_max = Max({@, next}), !.entered = Append(@, s.buf)]

(* Each gives the state with the new hist_cur, and the line.               *)
hist_prev(s) ==
  LET cur == IF s.hist_cur - 1 < 0 THEN s.hist_max ELSE s.hist_cur - 1
  IN  IF s.hist_cur < 0 \/ cur = s.hist_add_idx THEN [state |-> s, line |-> NoLine]
      ELSE [state |-> [s EXCEPT !.hist_cur = cur], line |-> s.hist_list[cur]]

hist_next(s) ==
  LET cur == IF s.hist_cur + 1 > s.hist_max THEN 0 ELSE s.hist_cur + 1
  IN  IF s.hist_cur < 0 \/ s.hist_cur = s.hist_add_idx THEN [state |-> s, line |-> NoLine]
      ELSE [state |-> [s EXCEPT !.hist_cur = cur],
            line  |-> IF cur = s.hist_add_idx THEN <<>> ELSE s.hist_list[cur]]

-----------------------------------------------------------------------------
(* Editing. *)

FromNum(s) == SubSeq(s.buf, s.num + 1, Len(s.buf))

BEGINNING_OF_LINE(s) == [puts(s, Times(s.num, BACKSPACE)) EXCEPT !.num = 0]

ERASE_TO_EOL(s) ==
  LET n == Len(s.buf) - s.num
  IN  [puts(s, Times(n, " ") \o Times(n, BACKSPACE)) EXCEPT !.buf = SubSeq(@, 1, s.num)]

REFRESH_TO_EOL(s) == [puts(s, FromNum(s)) EXCEPT !.num = Len(s.buf)]

cread_add_char(s, ichar) ==
  LET inserted == InsertAt(s.buf, s.num + 1, ichar)
      replaced == Append(SubSeq(s.buf, 1, s.num), ichar)
                    \o SubSeq(s.buf, s.num + 2, Len(s.buf))
      tail     == SubSeq(inserted, s.num + 1, Len(inserted))
  IN  IF (s.insert \/ s.num = Len(s.buf)) /\ Len(s.buf) > s.session.len - 1
        THEN putc(s, BELL)
      ELSE IF s.insert
        THEN [puts(s, tail \o Times(Len(tail) - 1, BACKSPACE))
                EXCEPT !.buf = inserted, !.num = @ + 1]
      ELSE [putc(s, ichar) EXCEPT !.buf = replaced, !.num = @ + 1]

cread_add_str(s, str) == FoldLeft(cread_add_char, s, str)

(* Fault: the cursor does not come back over the blank. *)
DeleteAt_short(s, i) ==
  LET tail == SubSeq(s.buf, i + 1, Len(s.buf))
  IN  [puts(s, Append(tail, " ") \o Times(Len(tail), BACKSPACE)) EXCEPT
         !.buf = RemoveAt(@, i), !.num = i - 1]

(* The i-th character is deleted; the cursor is there.                     *)
DeleteAt(s, i) ==
  LET tail == SubSeq(s.buf, i + 1, Len(s.buf))
  IN  [puts(s, Append(tail, " ") \o Times(Len(tail) + 1, BACKSPACE)) EXCEPT
         !.buf = RemoveAt(@, i), !.num = i - 1]

Delete(s) == IF s.num < Len(s.buf) THEN DeleteAt(s, s.num + 1) ELSE s
Rubout(s) == IF s.num > 0 THEN DeleteAt(putc(s, BACKSPACE), s.num) ELSE s
Forward(s) == IF s.num < Len(s.buf) THEN [putc(s, s.buf[s.num + 1]) EXCEPT !.num = @ + 1] ELSE s
Backward(s) == IF s.num > 0 THEN [putc(s, BACKSPACE) EXCEPT !.num = @ - 1] ELSE s

(* The line gives way to one of the history.                               *)
Recalled(found) ==
  LET empty == ERASE_TO_EOL(BEGINNING_OF_LINE(found.state))
  IN  IF found.line = NoLine THEN putc(found.state, BELL)
      ELSE REFRESH_TO_EOL([empty EXCEPT !.buf = found.line])

-----------------------------------------------------------------------------
(* Completion. *)

BlankAt(str, i) == str[i] \in {" ", "\t"}

(* The words of str, as make_argv cuts them: at most argvsz - 1.           *)
make_argv(str, argvsz) ==
  LET starts == {i \in DOMAIN str : ~BlankAt(str, i) /\ (i = 1 \/ BlankAt(str, i - 1))}
      end(i) == Max({j \in i .. Len(str) : \A k \in i .. j : ~BlankAt(str, k)})
      words  == [n \in 1 .. Cardinality(starts) |->
                   LET i == CHOOSE k \in starts : Cardinality({m \in starts : m <= k}) = n
                   IN  SubSeq(str, i, end(i))]
  IN  SubSeq(words, 1, Min({argvsz - 1, Len(words)}))

(* A name is compared up to the first dot of what the user wrote.          *)
UpToDot(cmd) ==
  LET dots == {i \in DOMAIN cmd : cmd[i] = "."}
  IN  IF dots = {} THEN cmd ELSE SubSeq(cmd, 1, Min(dots) - 1)

Matches(names, cmd) == SelectSeq(names, LAMBDA name : IsPrefix(UpToDot(cmd), name))

Cramped(names) ==
  IF Len(names) <= CMDV_MAX - 2 THEN names
  ELSE Append(SubSeq(names, 1, CMDV_MAX - 2), <<".", ".", ".">>)

(* Commands have no completion of their own for their arguments.           *)
complete_cmdv(argv, last_char) ==
  IF argv = <<>> THEN Cramped(CmdNames)
  ELSE IF Len(argv) > 1 \/ last_char = " " THEN <<>>
  ELSE Cramped(Matches(CmdNames, argv[1]))

find_common_prefix(names) ==
  LET common == {n \in 0 .. Len(names[1]) :
                   \A i \in DOMAIN names : IsPrefix(SubSeq(names[1], 1, n), names[i])}
  IN  Max(common)

(* The names fit in one row of the terminal, and it goes to the next.      *)
print_argv(s, names) ==
  puts(s, <<NEWLINE>> \o FoldLeft(LAMBDA row, name : row \o <<" ">> \o name, <<" ">>, names)
            \o <<NEWLINE>>)

(* What completes the line, if it fits; else the names are shown.          *)
cmd_auto_complete(s) ==
  LET argv  == make_argv(s.buf, CONFIG_SYS_MAXARGS + 1)
      names == complete_cmdv(argv, IF s.buf = <<>> THEN "" ELSE Last(s.buf))
      k     == Len(argv[Len(argv)])
      j     == find_common_prefix(names)
      more  == IF Len(names) = 1 THEN Append(SubSeq(names[1], k + 1, Len(names[1])), " ")
               ELSE SubSeq(names[1], k + 1, j)
  IN  IF names = <<>> THEN IF Len(argv) > 1 THEN s ELSE putc(s, BELL)
      ELSE IF Len(names) = 1 \/ (j # 0 /\ j > k)
        THEN IF s.num + Len(more) >= s.session.len - 2 THEN putc(s, BELL)
             ELSE [puts(s, more \o IF Len(names) = 1 THEN <<>> ELSE <<BELL>>) EXCEPT
                     !.buf = @ \o more, !.num = @ + Len(more)]
      ELSE puts(print_argv(s, names), Prompt \o s.buf)

Tab(s) == IF s.num < Len(s.buf) THEN putc(s, BELL) ELSE cmd_auto_complete(s)

-----------------------------------------------------------------------------
(* cread_line takes a key. *)

(* A line is read for the prompt. *)
cli_readline(s) ==
  puts([s EXCEPT !.buf = <<>>, !.num = 0, !.insert = TRUE, !.esc_save = <<>>], Prompt)

LineEntered(s) ==
  LET out == putc(s, NEWLINE)
      in  == IF s.buf = <<>> \/ s.buf[1] = "!" THEN out ELSE cread_add_to_hist(out)
  IN  cli_readline([in EXCEPT !.hist_cur = in.hist_add_idx])

(* What a key does outside the sequences of the escape key.                *)
KeyPressed(s, ichar) ==
  CASE ichar = "\r"           -> s
    [] ichar = ESC            -> [s EXCEPT !.esc_save = <<ESC>>]
    [] ichar = "^A"           -> BEGINNING_OF_LINE(s)
    [] ichar = "^C"           -> cli_readline(putc(s, NEWLINE))
    [] ichar = "^F"           -> Forward(s)
    [] ichar = "^B"           -> Backward(s)
    [] ichar = "^D"           -> Delete(s)
    [] ichar = "^K"           -> ERASE_TO_EOL(s)
    [] ichar = "^E"           -> REFRESH_TO_EOL(s)
    [] ichar = "^O"           -> [s EXCEPT !.insert = ~@]
    [] ichar \in {"^X", "^U"} -> ERASE_TO_EOL(BEGINNING_OF_LINE(s))
    [] ichar \in {"DEL", "^H"} -> Rubout(s)
    [] ichar = "^P"           -> Recalled(hist_prev(s))
    [] ichar = "^N"           -> Recalled(hist_next(s))
    [] ichar = "\t"           -> Tab(s)
    [] OTHER                  -> cread_add_char(s, ichar)

ArrowKey == [D |-> "^B", C |-> "^F", H |-> "^A", A |-> "^P", B |-> "^N"]

(* In a sequence: the escape key alone, or it and a bracket, came before.  *)
KeyInSequence(s, ichar) ==
  LET ended == [s EXCEPT !.esc_save = <<>>]
  IN  IF ichar = "\r" THEN s
      ELSE IF Len(s.esc_save) = 1
        THEN IF ichar = "[" THEN [s EXCEPT !.esc_save = <<ESC, "[">>]
             ELSE cread_add_str(ended, s.esc_save)
      ELSE IF ichar \in DOMAIN ArrowKey THEN KeyPressed(ended, ArrowKey[ichar])
      ELSE cread_add_str(ended, Append(s.esc_save, ichar))

(* The keys that come next: letters of arrows only in their sequences.     *)
Keys(s) ==
  s.session.chars
    \cup (IF s.esc_save = <<>> THEN s.session.keys
          ELSE IF Len(s.esc_save) = 1 THEN {"["} ELSE DOMAIN ArrowKey)

EndOfLine == Len(line.entered) < line.session.lines /\ line' = LineEntered(line)

Key ==
  \E ichar \in Keys(line) :
    line' = IF line.esc_save = <<>> THEN KeyPressed(line, ichar)
            ELSE KeyInSequence(line, ichar)

-----------------------------------------------------------------------------

LineInit == \E session \in Sessions : line = cli_readline(hist_init(session))

LineNext == EndOfLine \/ Key

LineSpec == LineInit /\ [][LineNext]_line

-----------------------------------------------------------------------------

(* After every key the terminal shows the prompt, the line and nothing     *)
(* else, with its cursor where the next character goes in the line.        *)
ScreenShowsLine ==
  /\ line.col = Len(Prompt) + line.num
  /\ line.cells = Trimmed(Prompt \o line.buf)

(* The lines that a user gets who asks for earlier ones from hist_cur on.  *)
RECURSIVE LinesBack(_)
LinesBack(s) ==
  LET found == hist_prev(s)
  IN  IF found.line = NoLine THEN <<>> ELSE <<found.line>> \o LinesBack(found.state)

(* The history gives the last lines in their order, one less than it has   *)
(* places once it is full, and goes the same way back.                     *)
HistoryInOrder ==
  LET n     == Min({Len(line.entered), HIST_MAX - 1})
      last  == SubSeq(line.entered, Len(line.entered) - n + 1, Len(line.entered))
      start == [line EXCEPT !.hist_cur = line.hist_add_idx]
      up    == hist_prev(line)
  IN  /\ line.entered # <<>> => LinesBack(start) = Reverse(last)
      /\ up.line # NoLine => hist_next(up.state).state.hist_cur = line.hist_cur
-----------------------------------------------------------------------------
(***************************************************************************)
(* The loop: a line is cut at semicolons, its macros are replaced, and     *)
(* what remains is cut into words, of which the first names a command,     *)
(* perhaps shortened.  An empty line repeats the line before.  What the    *)
(* commands do, but for help, and whether they fail is left open.          *)
(***************************************************************************)

CONSTANTS
  CONFIG_SYS_CBSIZE,  \* the size of the copies of a line
  Repeatable,     \* the commands that an empty line repeats
  Listing,        \* the command that lists the others and looks for ^C
  MaxArgs,        \* MaxArgs[name]: how many words name may have
  Letters,        \* the letters of names, in the order of the alphabet
  LineChars,      \* what lines are made of
  LineMax         \* the longest line

ASSUME SimpleAssumption ==
  /\ CONFIG_SYS_MAXARGS \in Nat \ {0} /\ CONFIG_SYS_CBSIZE \in Nat \ {0}
  /\ MaxArgs \in [Range(CmdNames) -> Nat]
  /\ Repeatable \subseteq Range(CmdNames) /\ LineMax \in Nat

VARIABLE shell  \* typed: the line that was read last; last: lastcommand; rc;
                \* ran: the commands the last line called, each as its words;
                \* repeating: it was an empty line

Dollar == "$"
Quote == "'"
Backslash == "\\"
Semicolon == ";"

-----------------------------------------------------------------------------
(* Commands. *)

FullMatch(names, cmd) == {i \in DOMAIN names : names[i] = UpToDot(cmd)}

NoCommand == <<>>

(* The first name that matches in full, or the only one that cmd begins.   *)
find_cmd_tbl(cmd, names) ==
  LET full    == FullMatch(names, cmd)
      matches == Matches(names, cmd)
  IN  IF full # {} THEN names[Min(full)]
      ELSE IF Len(matches) = 1 THEN matches[1] ELSE NoCommand

find_cmd(cmd) == find_cmd_tbl(cmd, CmdNames)

(* The calls of one command end as how says, those of others well.        *)
Ending == [of : Range(CmdNames), how : {"FAILS"}] \cup [of : {Listing}, how : {"OK", "BREAKS"}]

NothingRan == [ran |-> <<>>, ok |-> TRUE, repeatable |-> TRUE, stopped |-> FALSE]

cmd_process(argv, ending) ==
  LET cmd == find_cmd(argv[1])
      how == IF ending.of = cmd THEN ending.how ELSE "OK"
  IN  IF cmd = NoCommand THEN [NothingRan EXCEPT !.ok = FALSE]
      ELSE IF Len(argv) > MaxArgs[cmd] THEN [NothingRan EXCEPT !.ok = FALSE]
      ELSE [ran |-> <<<<cmd>> \o Tail(argv)>>, ok |-> how = "OK",
            repeatable |-> cmd \in Repeatable, stopped |-> how = "BREAKS"]

(* strcmp gives the order of names. *)
Code(c) == CHOOSE i \in DOMAIN Letters : Letters[i] = c

strcmp_above(s, t) ==
  LET differ == {i \in 1 .. Min({Len(s), Len(t)}) : s[i] # t[i]}
  IN  IF differ = {} THEN Len(s) > Len(t) ELSE Code(s[Min(differ)]) > Code(t[Min(differ)])

Bubbled(names, j) ==
  IF strcmp_above(names[j], names[j + 1])
    THEN [names EXCEPT ![j] = names[j + 1], ![j + 1] = names[j]]
  ELSE names

(* The names that help lists: passes over the list, each shorter by one.   *)
_do_help(names) ==
  FoldLeft(LAMBDA sorted, i : FoldLeft(Bubbled, sorted, [j \in 1 .. Len(names) - i |-> j]),
           names, [i \in 1 .. Len(names) - 1 |-> i])

-----------------------------------------------------------------------------
(* From a line to words. *)

(* The place of the first semicolon from str on that ends a command, or    *)
(* the place after the line.                                               *)
Separator(line_, str) ==
  LET escaped(i) == i > 1 /\ line_[i - 1] = Backslash
      quoted(i)  == Cardinality({j \in str .. i : line_[j] = Quote /\ ~escaped(j)}) % 2 = 1
  IN  Min({Len(line_) + 1} \cup
          {i \in str + 1 .. Len(line_) : line_[i] = Semicolon /\ ~quoted(i) /\ ~escaped(i)})

(* The commands of a line. *)
Pieces(line_) ==
  LET f[str \in 1 .. Len(line_) + 1] ==
        IF str > Len(line_) THEN <<>>
        ELSE LET sep == Separator(line_, str)
             IN  <<SubSeq(line_, str, sep - 1)>> \o f[Min({sep + 1, Len(line_) + 1})]
  IN  f[1]

(* One character of process_macros; state as there.  There is no           *)
(* environment: a macro is replaced by nothing.                            *)
MacroChar(m, c) ==
  LET plain == m.prev # Backslash
      out(str) == [m EXCEPT !.output = @ \o str, !.prev = c]
      to(n)    == [m EXCEPT !.state = n, !.prev = c]
  IN  IF m.state # 3 /\ c = Backslash /\ plain THEN [m EXCEPT !.prev = c]
      ELSE CASE m.state = 0 -> IF c = Quote /\ plain THEN to(3)
                               ELSE IF c = Dollar /\ plain THEN to(1) ELSE out(<<c>>)
             [] m.state = 1 -> IF c \in {"(", "{"} THEN to(2)
                               ELSE [out(<<Dollar, c>>) EXCEPT !.state = 0]
             [] m.state = 2 -> IF c \in {")", "}"} THEN to(0) ELSE to(2)
             [] m.state = 3 -> IF c = Quote /\ plain THEN to(0) ELSE out(<<c>>)

process_macros(input) ==
  FoldLeft(MacroChar, [state |-> 0, prev |-> "", output |-> <<>>], input).output

cli_simple_parse_line(str) == make_argv(str, CONFIG_SYS_MAXARGS + 1)

cli_simple_run_command(cmd, ending) ==
  LET join(r, s) == [ran |-> r.ran \o s.ran, ok |-> r.ok /\ s.ok,
                     repeatable |-> r.repeatable /\ s.repeatable, stopped |-> s.stopped]
      run(r, piece) ==
        LET argv == cli_simple_parse_line(process_macros(piece))
        IN  IF r.stopped THEN r
            ELSE IF argv = <<>> THEN [r EXCEPT !.ok = FALSE]
            ELSE join(r, cmd_process(argv, ending))
      all == FoldLeft(run, NothingRan, Pieces(cmd))
  IN  IF cmd = <<>> \/ Len(cmd) >= CONFIG_SYS_CBSIZE THEN [ran |-> <<>>, rc |-> 0 - 1]
      ELSE [ran |-> all.ran, rc |-> IF ~all.ok THEN 0 - 1 ELSE IF all.repeatable THEN 1 ELSE 0]

-----------------------------------------------------------------------------
(* The loop. *)

cli_init == [typed |-> <<>>, last |-> <<>>, rc |-> 1, ran |-> <<>>, repeating |-> FALSE]

(* A line that fails, or that is not to be repeated, is forgotten.         *)
Forgetting(s) == IF s.rc <= 0 THEN [s EXCEPT !.last = <<>>] ELSE s

LineRead(typed, ending) ==
  LET cmd    == IF typed = <<>> THEN shell.last ELSE typed
      result == cli_simple_run_command(cmd, ending)
  IN  shell' = Forgetting([typed |-> typed, last |-> cmd, rc |-> result.rc,
                           ran |-> result.ran, repeating |-> typed = <<>>])

(* The user broke the line off: nothing runs. *)
Interrupted ==
  shell' = Forgetting([shell EXCEPT !.typed = <<>>, !.ran = <<>>, !.repeating = FALSE])

(* The first line is any; then the user repeats it or breaks lines off.    *)
cli_simple_loop ==
  \/ \E n \in 1 .. LineMax, ending \in Ending :
       \E typed \in [1 .. n -> LineChars] : shell = cli_init /\ LineRead(typed, ending)
  \/ \E ending \in Ending : LineRead(<<>>, ending)
  \/ Interrupted

ShellInit == shell = cli_init

ShellNext == cli_simple_loop

ShellSpec == ShellInit /\ [][ShellNext]_shell

-----------------------------------------------------------------------------

(* An empty line runs only commands that may be repeated, whatever lines   *)
(* failed or were broken off before.                                       *)
RepeatsOnlyRepeatable ==
  shell.repeating => \A i \in DOMAIN shell.ran : shell.ran[i][1] \in Repeatable

Escaped(str) == FlattenSeq([i \in DOMAIN str |-> <<Backslash, str[i]>>])
Quoted(str) == <<Quote>> \o str \o <<Quote>>

(* What the user escapes, character by character, or puts in quotes is     *)
(* neither cut nor replaced: the two passes over the line, for semicolons  *)
(* and for macros, agree on what is protected.                             *)
ProtectionHolds ==
  LET str == shell.typed
  IN  /\ Backslash \notin Range(str) =>
           /\ str # <<>> => Pieces(Escaped(str)) = <<Escaped(str)>>
           /\ process_macros(Escaped(str)) = str
      /\ {Backslash, Quote} \cap Range(str) = {} =>
           /\ Pieces(Quoted(str)) = <<Quoted(str)>>
           /\ process_macros(Quoted(str)) = str

(* Help lists every command, in the order of the alphabet, in whatever     *)
(* order the table has them.                                               *)
HelpListsAll ==
  shell = cli_init => \A p \in Permutations(DOMAIN CmdNames) :
    LET listed == _do_help([i \in DOMAIN CmdNames |-> CmdNames[p[i]]])
    IN  /\ Range(listed) = Range(CmdNames)
        /\ \A i \in 1 .. Len(listed) - 1 : strcmp_above(listed[i + 1], listed[i])
=============================================================================
