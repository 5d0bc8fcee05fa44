----------------------------- MODULE LineEditor -----------------------------
(****************************************************************************)
(* The console of the device, ports/rp2040/main.c: the loop of main() that *)
(* edits a command in a buffer of fixed size, keeps a history of commands  *)
(* and draws on a terminal that it cannot read back.  The terminal is      *)
(* modelled by what it does with the bytes it is sent: a character         *)
(* replaces the one under its cursor, \b moves the cursor, \r\033[2K       *)
(* clears the row.  The row is what stands after the prompt; it is wide    *)
(* enough for every line.                                                  *)
(****************************************************************************)
EXTENDS Naturals, Sequences, SequencesExt

CONSTANTS
    Size,               \* CONSOLE_LINE_SIZE
    HISTORY_COUNT,
    Letters,            \* printable characters, [ A B C D among them
    EraseKeys,          \* what the terminal sends for Backspace: BS, DEL or both
    ReplLine, ExitLine, \* the commands `repl` and `exit`
    MaxEntered          \* bound of the model: lines entered

VARIABLES
    line,               \* the Size cells of the buffer
    length, cursor,
    history,            \* the history_count stored commands
    history_index,
    escape_state,
    repl_mode,
    screen,             \* the row of the terminal and its cursor
    entered             \* every line that was executed so far

editorVars == <<line, length, cursor, history, history_index, escape_state, repl_mode,
                screen, entered>>
buffer == <<line, length, cursor>>

NUL == "nul"
ESC == "esc"
CtrlC == "ctrl-c"
Enter == "enter"
BS == "bs"              \* 8
DEL == "del"            \* 127, which is not less than 32
Keys == Letters \cup {ESC, CtrlC, Enter} \cup EraseKeys

\* The C string in the buffer.
Content == SubSeq(line, 1, length)
Terminated(s) == SubSeq(s, 1, (CHOOSE n \in DOMAIN s : s[n] = NUL /\ \A k \in 1..(n - 1) : s[k] # NUL) - 1)

LEFT == "left"          \* \b

ASSUME EditorAssumption ==
  /\ Size \in Nat \ {0, 1} /\ HISTORY_COUNT \in Nat \ {0}
  /\ Letters \cap {NUL, ESC, CtrlC, Enter, BS, DEL, LEFT} = {}
  /\ EraseKeys \subseteq {BS, DEL}

\* The terminal.  It shows nothing for DEL.
Blank == [row |-> <<>>, column |-> 0]
Put(scr, c) ==
    IF c = DEL THEN scr
    ELSE IF c = LEFT THEN [scr EXCEPT !.column = IF @ = 0 THEN 0 ELSE @ - 1]
    ELSE [row |-> SubSeq(scr.row, 1, scr.column) \o <<c>>
                      \o SubSeq(scr.row, scr.column + 2, Len(scr.row)),
          column |-> scr.column + 1]
Sent(scr, bytes) ==
    LET shown[n \in 0..Len(bytes)] == IF n = 0 THEN scr ELSE Put(shown[n - 1], bytes[n])
    IN  shown[Len(bytes)]
Back(n) == [k \in 1..n |-> LEFT]

EditorInit ==
    /\ line = [k \in 1..Size |-> NUL]
    /\ length = 0 /\ cursor = 0
    /\ history = <<>> /\ history_index = 0
    /\ escape_state = 0
    /\ repl_mode = FALSE
    /\ screen = Blank
    /\ entered = <<>>

\* memmove(line + to, line + from, count), in cells counted from 0.
Moved(cells, to, from, count) ==
    [k \in 1..Size |-> IF k > to /\ k <= to + count THEN cells[k - to + from] ELSE cells[k]]

history_store(stored, text) ==
    IF text = <<>> \/ (stored # <<>> /\ Last(stored) = text) THEN stored
    ELSE Append(IF Len(stored) = HISTORY_COUNT THEN Tail(stored) ELSE stored, text)

history_load(index) ==
    LET text == IF index >= Len(history) THEN <<>> ELSE history[index + 1] IN
    /\ history_index' = index
    /\ length' = Len(text)
    /\ cursor' = Len(text)
    /\ line' = [k \in 1..Size |-> IF k <= Len(text) THEN text[k]
                                  ELSE IF k = Len(text) + 1 THEN NUL ELSE line[k]]
    /\ screen' = Sent(Blank, text)       \* redraw_line()

\* The escape sequences of the cursor keys.
Escape(byte) ==
    /\ escape_state = 1
    /\ escape_state' = IF byte = "[" THEN 2 ELSE 0
    /\ UNCHANGED <<buffer, history, history_index, repl_mode, screen, entered>>

CursorKey(byte) ==
    /\ escape_state = 2
    /\ escape_state' = 0
    /\ UNCHANGED <<history, repl_mode, entered>>
    /\ \/ /\ byte = "A" /\ history_index > 0
          /\ history_load(history_index - 1)
       \/ /\ byte = "B" /\ history_index < Len(history)
          /\ history_load(history_index + 1)
       \/ /\ byte = "C" /\ cursor < length
          /\ screen' = Sent(screen, <<line[cursor + 1]>>)
          /\ cursor' = cursor + 1
          /\ UNCHANGED <<line, length, history_index>>
       \/ /\ byte = "D" /\ cursor > 0
          /\ screen' = Sent(screen, <<LEFT>>)
          /\ cursor' = cursor - 1
          /\ UNCHANGED <<line, length, history_index>>
       \/ /\ ~ \/ byte = "A" /\ history_index > 0
               \/ byte = "B" /\ history_index < Len(history)
               \/ byte = "C" /\ cursor < length
               \/ byte = "D" /\ cursor > 0
          /\ UNCHANGED <<buffer, history_index, screen>>

StartEscape ==
    /\ escape_state' = 1
    /\ UNCHANGED <<buffer, history, history_index, repl_mode, screen, entered>>

\* A new prompt with an empty line; the rest of the buffer keeps its bytes.
FreshLine == /\ length' = 0 /\ cursor' = 0
             /\ line' = [line EXCEPT ![1] = NUL]
             /\ screen' = Blank

Cancel == /\ FreshLine
          /\ history_index' = Len(history)
          /\ UNCHANGED <<history, escape_state, repl_mode, entered>>

\* execute_repl_line() and pphp_p2sh_execute() are other components; what they
\* change here is the mode.
ExecuteLine ==
    LET text == Terminated([line EXCEPT ![length + 1] = NUL]) IN
    /\ Len(entered) < MaxEntered
    /\ entered' = Append(entered, text)
    /\ history' = history_store(history, text)
    /\ history_index' = Len(history')
    /\ repl_mode' = IF repl_mode THEN text # ExitLine ELSE text = ReplLine
    /\ FreshLine
    /\ UNCHANGED escape_state

\* Mutant: the blank that covers the last character is not sent.
EraseNoBlank ==
    LET shorter == Moved(line, cursor - 1, cursor, length - cursor) IN
    /\ line' = [shorter EXCEPT ![length] = NUL]
    /\ cursor' = cursor - 1
    /\ length' = length - 1
    /\ screen' = Sent(screen, <<LEFT>> \o SubSeq(line', cursor' + 1, length')
                              \o Back(length' - cursor'))
    /\ UNCHANGED <<history, history_index, escape_state, repl_mode, entered>>

Erase ==
    LET shorter == Moved(line, cursor - 1, cursor, length - cursor) IN
    /\ line' = [shorter EXCEPT ![length] = NUL]
    /\ cursor' = cursor - 1
    /\ length' = length - 1
    /\ screen' = Sent(screen, <<LEFT>> \o SubSeq(line', cursor' + 1, length') \o <<" ">>
                              \o Back(length' - cursor' + 1))
    /\ UNCHANGED <<history, history_index, escape_state, repl_mode, entered>>

Insert(byte) ==
    LET longer == Moved(line, cursor + 1, cursor, length - cursor) IN
    /\ line' = [longer EXCEPT ![cursor + 1] = byte, ![length + 2] = NUL]
    /\ cursor' = cursor + 1
    /\ length' = length + 1
    /\ screen' = Sent(screen, SubSeq(line', cursor', length') \o Back(length' - cursor'))
    /\ UNCHANGED <<history, history_index, escape_state, repl_mode, entered>>

LineHasRoom == length + 1 < Size

\* One turn of the loop of main() with a byte of the console.
Press(byte) ==
    \/ Escape(byte)
    \/ CursorKey(byte)
    \/ /\ escape_state = 0
       /\ \/ byte = ESC /\ StartEscape
          \/ byte = CtrlC /\ Cancel
          \/ byte = Enter /\ ExecuteLine
          \/ byte \in {BS, DEL} /\ cursor # 0 /\ Erase
          \/ /\ byte \in Letters \/ (byte = DEL /\ cursor = 0)
             /\ LineHasRoom
             /\ Insert(byte)

EditorNext == \E byte \in Keys : Press(byte)
EditorSpec == EditorInit /\ [][EditorNext]_editorVars

----------------------------------------------------------------------------

\* The buffer holds a C string and the cursors stay inside what they index.
BufferIsString ==
    /\ line \in [1..Size -> Letters \cup {NUL, DEL}]
    /\ length < Size /\ cursor \in 0..length
    /\ line[length + 1] = NUL
    /\ Len(history) <= HISTORY_COUNT /\ history_index \in 0..Len(history)
    /\ escape_state \in 0..2 /\ repl_mode \in BOOLEAN

\* The user sees the line that would be executed, and the cursor where the next
\* character will go: after every insertion and deletion in the middle, every
\* movement and every walk through the history.
ScreenMatches ==
    /\ Len(screen.row) >= length
    /\ SubSeq(screen.row, 1, length) = Content
    /\ \A k \in (length + 1)..Len(screen.row) : screen.row[k] = " "
    /\ screen.column = cursor

\* The lines entered, without the empty ones and immediate repetitions.
Remembered ==
    LET kept[n \in 0..Len(entered)] ==
          IF n = 0 THEN <<>>
          ELSE IF entered[n] = <<>> \/ (kept[n - 1] # <<>> /\ Last(kept[n - 1]) = entered[n])
               THEN kept[n - 1]
               ELSE Append(kept[n - 1], entered[n])
    IN  kept[Len(entered)]

\* The history is what was entered last, in order.
HistoryIsRecent ==
    history = SubSeq(Remembered, IF Len(Remembered) > HISTORY_COUNT
                               THEN Len(Remembered) - HISTORY_COUNT + 1 ELSE 1, Len(Remembered))

\* The keys edit the text before and after the cursor as keys of an editor do.
Editor == INSTANCE TextEditor WITH before <- SubSeq(line, 1, cursor),
                                   after <- SubSeq(line, cursor + 1, length),
                                   past <- entered,
                                   Characters <- Letters \cup {DEL},
                                   Capacity <- Size - 1
IsTextEditor == Editor!Spec

\* Keys edit the text as TextEditor says, the screen shows it, and the history
\* remembers it, when the buffer and the history are full too.
EditsText == IsTextEditor /\ [](BufferIsString /\ ScreenMatches /\ HistoryIsRecent)
=============================================================================
