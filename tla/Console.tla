------------------------------ MODULE Console -------------------------------
(***************************************************************************)
(* From keys to commands: the keyboard driver's Shift flag, the shell's    *)
(* line buffer, its echo on the terminal, and the parsing of the line.     *)
(* Every key is handled in one interrupt, under SHELL, and is one step.    *)
(* Lines that others print, core::init after the shell is up and the timer *)
(* at any time, are steps too, and go to the same serial line.             *)
(*                                                                         *)
(* A character is a model value; the words "write", "cat" and "rm" count   *)
(* as one character each.  What a command does to the files is module Vfs, *)
(* which mutexes it takes is module Kernel.                                *)
(***************************************************************************)
EXTENDS Integers, Sequences, FiniteSets

CONSTANTS
  MAX_LINE_LEN,
  ShiftKeys,     \* the shift keys of the keyboard
  ExtendedKeys,  \* keys whose codes it wraps in shift codes: PrintScreen, and the grey keys under Num Lock
  Keys,          \* its printable keys
  Plain, Shifted \* decode_printable: what each key types

Space == " "
BS    == "BS"

Characters == {Plain[k] : k \in Keys} \cup {Shifted[k] : k \in Keys}

ASSUME ConsoleAssumption ==
  /\ Plain \in [Keys -> Characters] /\ Shifted \in [Keys -> Characters]
  /\ IsFiniteSet(ShiftKeys) /\ ShiftKeys \cap ExtendedKeys = {}
  /\ MAX_LINE_LEN \in Nat \ {0} /\ Space \in Characters /\ BS \notin Characters

VARIABLES
  held,           \* shift keys and extended keys that are down
  SHIFT_PRESSED,
  initialized,    \* Shell::initialized
  booting,        \* core::init has lines left to print
  line_buffer,
  len,
  terminal,       \* the terminal's line right of the prompt, and its cursor
  torn,           \* history: how much of the line was typed before others last printed into it
  command         \* what the last key has executed

vars == <<held, SHIFT_PRESSED, initialized, booting, line_buffer, len, terminal, torn, command>>

keyboard == <<held, SHIFT_PRESSED>>
startup  == <<initialized, booting>>

Nothing == [line |-> <<>>, call |-> "none", path |-> <<>>, text |-> <<>>]

NUL == "NUL"

AfterPrompt == [text |-> <<>>, cursor |-> 0]

Init ==
  /\ held = {} /\ SHIFT_PRESSED = FALSE
  /\ initialized = FALSE /\ booting = TRUE
  /\ line_buffer = [k \in 1 .. MAX_LINE_LEN |-> NUL] /\ len = 0
  /\ terminal = AfterPrompt /\ torn = 0
  /\ command = Nothing

-----------------------------------------------------------------------------
(* The terminal at the other end of the serial line                        *)

Put(t, c) ==
  IF c = BS THEN [t EXCEPT !.cursor = IF @ > 0 THEN @ - 1 ELSE 0]
  ELSE [text   |-> SubSeq(t.text, 1, t.cursor) \o <<c>> \o SubSeq(t.text, t.cursor + 2, Len(t.text)),
        cursor |-> t.cursor + 1]

\* print!("\x08 \x08")
Erased(t) == Put(Put(Put(t, BS), Space), BS)

-----------------------------------------------------------------------------
(* execute_command: what is called with which arguments                    *)

Line == INSTANCE LineEditor WITH line <- SubSeq(line_buffer, 1, len), submitted <- command.line

Blanks(s) == {k \in DOMAIN s : Line!Blank(s[k])}

\* s up to its k-th character, which is left out, and s after it
Before(s, k) == SubSeq(s, 1, k - 1)
After(s, k)  == SubSeq(s, k + 1, Len(s))

First(ks) == CHOOSE k \in ks : \A j \in ks : k <= j
Final(ks) == CHOOSE k \in ks : \A j \in ks : j <= k

\* split_whitespace().next(), and what comes after it
Word(s) ==
  LET t == Line!Trim(s) IN IF Blanks(t) = {} THEN t ELSE Before(t, First(Blanks(t)))
Rest(s) ==
  LET t == Line!Trim(s) IN IF Blanks(t) = {} THEN <<>> ELSE After(t, First(Blanks(t)))

Call(s, name, path, text) == [line |-> s, call |-> name, path |-> path, text |-> text]

\* Mutant: rsplit_once
Write_LastBlank(s) ==
  LET args == After(s, 1)
  IN  IF Len(s) = 1 \/ Blanks(After(args, 1)) = {} THEN Call(s, "usage", <<>>, <<>>)
      ELSE LET a == After(s, 2) IN Call(s, "write", Before(a, Final(Blanks(a))), After(a, Final(Blanks(a))))

\* strip_prefix("write "), split_once(' ')
Write(s) ==
  LET args == After(s, 2)
  IN  IF Len(s) = 1 \/ Blanks(args) = {} THEN Call(s, "usage", <<>>, <<>>)
      ELSE Call(s, "write", Before(args, First(Blanks(args))), After(args, First(Blanks(args))))

\* cat, rm: the next part of split_whitespace
FileArgument(s, name) ==
  IF Rest(s) = <<>> THEN Call(s, "usage", <<>>, <<>>) ELSE Call(s, name, Word(Rest(s)), <<>>)

ExecuteCommand(s) ==
  CASE Word(s) = <<"write">> -> Write(s)
    [] Word(s) = <<"cat">>   -> FileArgument(s, "read")
    [] Word(s) = <<"rm">>    -> FileArgument(s, "remove")
    [] OTHER                 -> Call(s, "other", <<>>, <<>>)

-----------------------------------------------------------------------------
(* Keys: keyboard::decode_scancode and Shell::on_key                       *)

Initialize ==
  /\ ~ initialized /\ initialized' = TRUE
  /\ UNCHANGED <<keyboard, booting, line_buffer, len, terminal, torn, command>>

\* println! outside the shell: what has been typed is left behind on another
\* line, and typing goes on in the first column.
OthersPrint == terminal' = AfterPrompt /\ torn' = len

\* One of the lines from "kernel initialized" to "interrupts enabled"
BootLine ==
  /\ initialized /\ booting /\ booting' \in BOOLEAN
  /\ OthersPrint
  /\ UNCHANGED <<keyboard, initialized, line_buffer, len, command>>

\* on_tick of the timer, every 100 ticks from interrupts::init on
UptimeReport ==
  /\ OthersPrint
  /\ UNCHANGED <<keyboard, startup, line_buffer, len, command>>

ShiftDown == held \cap ShiftKeys # {}

\* A make code of a shift key; while the key stays down it may be repeated.
ShiftMake(key) ==
  /\ held' = held \cup {key}
  /\ SHIFT_PRESSED' = TRUE
  /\ UNCHANGED <<startup, line_buffer, len, terminal, torn, command>>

\* Mutant: one of the two break codes is taken for any other release
ShiftBreak_OneCode(key) ==
  /\ key \in held /\ held' = held \ {key}
  /\ SHIFT_PRESSED' = (SHIFT_PRESSED /\ key # CHOOSE k \in ShiftKeys : TRUE)
  /\ UNCHANGED <<startup, line_buffer, len, terminal, torn, command>>

ShiftBreak(key) ==
  /\ key \in held /\ held' = held \ {key}
  /\ SHIFT_PRESSED' = FALSE
  /\ UNCHANGED <<startup, line_buffer, len, terminal, torn, command>>

\* An extended key goes down.  Before its own code the keyboard says, each time
\* behind a prefix 0xE0 that decode_scancode takes for a release, that Shift is
\* down if no shift key is, and, if one is, nothing or that it is up.  (Ctrl and
\* Alt, under which PrintScreen has other codes, are not held.)
ExtendedMake(key) ==
  /\ held' = held \cup {key}
  /\ SHIFT_PRESSED' \in IF ShiftDown THEN {SHIFT_PRESSED, FALSE} ELSE {TRUE}
  /\ UNCHANGED <<startup, line_buffer, len, terminal, torn, command>>

\* And it takes that back when the key goes up.
ExtendedBreak(key) ==
  /\ key \in held /\ held' = held \ {key}
  /\ SHIFT_PRESSED' \in IF ShiftDown THEN {SHIFT_PRESSED, TRUE} ELSE {FALSE}
  /\ UNCHANGED <<startup, line_buffer, len, terminal, torn, command>>

\* on_key before the shell is up
IgnoredKey == ~ initialized /\ UNCHANGED vars

\* alpha, and the choices of decode_printable
Decoded(key) == IF SHIFT_PRESSED THEN Shifted[key] ELSE Plain[key]

Char(key) ==
  /\ initialized
  /\ IF len < MAX_LINE_LEN
     THEN /\ line_buffer' = [line_buffer EXCEPT ![len + 1] = Decoded(key)]
          /\ len' = len + 1
          /\ terminal' = Put(terminal, Decoded(key)) /\ UNCHANGED torn
     ELSE /\ len' = 0                   \* input too long
          /\ terminal' = AfterPrompt /\ torn' = 0
          /\ UNCHANGED line_buffer
  /\ command' = Nothing
  /\ UNCHANGED <<keyboard, startup>>

Shorten == len' = len - 1 /\ torn' = IF torn < len THEN torn ELSE len - 1

\* Mutant: the cursor moves back and the character stays
Backspace_NoErase ==
  /\ initialized
  /\ IF len > 0 THEN Shorten /\ terminal' = Put(terminal, BS) ELSE UNCHANGED <<len, terminal, torn>>
  /\ command' = Nothing
  /\ UNCHANGED <<keyboard, startup, line_buffer>>

Backspace ==
  /\ initialized
  /\ IF len > 0
     THEN Shorten /\ terminal' = Erased(terminal)
     ELSE UNCHANGED <<len, terminal, torn>>
  /\ command' = Nothing
  /\ UNCHANGED <<keyboard, startup, line_buffer>>

ExecuteCurrentLine(s) ==
  /\ command' = IF s = <<>> THEN Nothing ELSE ExecuteCommand(s)
  /\ len' = 0

\* Mutant: the line is taken to end at the first zero byte
Enter_UpToZero ==
  /\ initialized
  /\ ExecuteCurrentLine(Line!Trim(SelectSeq(line_buffer, LAMBDA c : c # NUL)))
  /\ terminal' = AfterPrompt /\ torn' = 0
  /\ UNCHANGED <<keyboard, startup, line_buffer>>

Enter ==
  /\ initialized
  /\ ExecuteCurrentLine(Line!Trim(SubSeq(line_buffer, 1, len)))
  /\ terminal' = AfterPrompt /\ torn' = 0
  /\ UNCHANGED <<keyboard, startup, line_buffer>>

Next ==
  \/ Initialize \/ BootLine \/ UptimeReport
  \/ \E key \in ShiftKeys : ShiftMake(key) \/ ShiftBreak(key)
  \/ \E key \in ExtendedKeys : ExtendedMake(key) \/ ExtendedBreak(key)
  \/ IgnoredKey
  \/ \E key \in Keys : Char(key)
  \/ Backspace \/ Enter

Spec == Init /\ [][Next]_vars

-----------------------------------------------------------------------------
(* Properties                                                              *)

(* What the user sees is what Enter executes: the terminal shows the bytes *)
(* of the buffer up to len, and nothing behind the cursor, through any     *)
(* typing, erasing and overrunning of the line.  A line that boot or the   *)
(* timer prints into the typing pushes the beginning out of sight and does *)
(* no more: what is typed and erased after it is still shown as it is,     *)
(* even when the erasing reaches back to what is out of sight.             *)
TerminalShowsLine ==
  /\ terminal.cursor = len - torn
  /\ SubSeq(terminal.text, 1, terminal.cursor) = SubSeq(line_buffer, torn + 1, len)
  /\ \A k \in terminal.cursor + 1 .. Len(terminal.text) : Line!Blank(terminal.text[k])

(* The reused buffer with its length behaves as a line: bytes of an        *)
(* earlier line behind the length never come back into one that is         *)
(* executed, and every way out of a line starts an empty one.              *)
ImplementsLineEditor == Line!Spec

(* Shift is never stuck: it is off once all keys that the keyboard sends   *)
(* shift codes for are up, in whatever order they went down and came up,   *)
(* although decode_scancode has one flag for all of them.                  *)
ShiftNotStuck == SHIFT_PRESSED => held # {}

(* Shift-modified input behaves consistently (src/docs/development/        *)
(* testing.md:50): a key types its shifted character exactly while a shift *)
(* key is down.                                                            *)
ShiftFollowsKeys == SHIFT_PRESSED <=> ShiftDown

(* cat, rm and write never touch a file other than the one that the second *)
(* word of the line names, although write splits the line at single blanks *)
(* and the others at any: a path that is not that word is the empty one,   *)
(* which normalize_path refuses.  A text that write gets is never empty.   *)
CommandsNameTheirFile ==
  command.call \in {"read", "remove", "write"} =>
    /\ command.path \in {<<>>, Word(Rest(command.line))}
    /\ command.call # "write" => command.path # <<>>
    /\ command.call = "write" => Line!Trim(command.text) # <<>>
=============================================================================
