------------------------------- MODULE Console -------------------------------
(***************************************************************************)
(* io.c and write(): the cursor and the screen, shared by the processes    *)
(* that write, the keyboard interrupt that echoes the key at the top left, *)
(* and the idle task, which prints with interrupts enabled: a key can come *)
(* between any two statements of its printc.                               *)
(***************************************************************************)
EXTENDS KeyBuffer, SequencesExt

CONSTANTS
  NUM_COLUMNS, NUM_ROWS,
  NL,          \* '\n'
  NUL,         \* what char_map has for keys without a character
  Texts,       \* what processes write: sequences of characters, never empty
  IdleText,    \* what cpu_idle prints: no new line
  MaxWritten   \* bound: characters written

ASSUME ConsoleAssumption ==
  /\ NUM_COLUMNS \in Nat /\ NUM_COLUMNS > 1 /\ NUM_ROWS \in Nat \ {0}
  /\ MaxWritten \in Nat /\ NL \notin Keys      \* char_map has no new line
  /\ \A i \in DOMAIN IdleText : IdleText[i] # NL
  /\ Texts \cup {IdleText} \subseteq Seq(UNION {Range(text) : text \in Texts \cup {IdleText}})

VARIABLES
  console,   \* the cursor [x, y], and the screen: a function of cells
  printing,  \* cpu_idle: characters printed, statement of printc, address computed
  written    \* history: all characters written, echoes aside

screenVars == <<console, printing, written>>
vars       == <<screenVars, bufferVars>>

Cell(c) == c.y * NUM_COLUMNS + c.x

Init ==
  /\ BufferInit
  /\ \E row \in 0 .. NUM_ROWS - 1 :
       console = [x |-> 0, y |-> row, screen |-> [k \in 0 .. NUM_COLUMNS * NUM_ROWS - 1 |-> " "]]
  /\ printing = [done |-> 0, at |-> "off", cell |-> 0]
  /\ written = <<>>

-----------------------------------------------------------------------------
NewLine(c) == [c EXCEPT !.x = 0, !.y = (@ + 1) % NUM_ROWS]

Advance(c) == IF c.x + 1 >= NUM_COLUMNS THEN NewLine(c) ELSE [c EXCEPT !.x = @ + 1]

Store(c, k, ch) == [c EXCEPT !.screen = [@ EXCEPT ![k] = ch]]

printc(c, ch) == IF ch = NL THEN NewLine(c) ELSE Store(Advance(c), Cell(c), ch)

\* Variant: the cursor stays behind the echo.
printc_xy_Moves(c, mx, my, ch) == printc([c EXCEPT !.x = mx, !.y = my], ch)

\* The cursor is put back.
printc_xy(c, mx, my, ch) ==
  [printc([c EXCEPT !.x = mx, !.y = my], ch) EXCEPT !.x = c.x, !.y = c.y]

\* What sys_write copies, piece by piece (UserCopies).  Interrupts are off: one step.
sys_write_console(text) ==
  /\ printing.at = "off" /\ Len(written) + Len(text) <= MaxWritten
  /\ console' = FoldLeft(printc, console, text)
  /\ written' = written \o text
  /\ UNCHANGED <<printing, bufferVars>>

\* keyboard_rutine: the key is echoed, then stored.
Key(c) ==
  /\ console' = printc_xy(console, 0, 0, IF c = NUL THEN "C" ELSE c)
  /\ Write(c)
  /\ UNCHANGED <<printing, written>>

\* sys_read_keyboard takes a key.
ReadKey == printing.at = "off" /\ Read /\ UNCHANGED screenVars

-----------------------------------------------------------------------------
(* cpu_idle: nobody is ready, sti, printk.  Once it runs, the only process *)
(* that can be woken is a reader, whose first key halts the kernel         *)
(* (ReadReturns): nobody writes any more.                                  *)

IdleStarts ==
  /\ printing.at = "off"
  /\ printing' = [printing EXCEPT !.at = "address"]
  /\ UNCHANGED <<console, written, bufferVars>>

\* The three parts of its printc: address, cursor, store.
IdleAddress ==
  /\ printing.at = "address" /\ printing.done < Len(IdleText)
  /\ printing' = [printing EXCEPT !.at = "cursor", !.cell = Cell(console)]
  /\ UNCHANGED <<console, written, bufferVars>>

IdleCursor ==
  /\ printing.at = "cursor"
  /\ console' = Advance(console)
  /\ printing' = [printing EXCEPT !.at = "store"]
  /\ UNCHANGED <<written, bufferVars>>

IdleStore ==
  /\ printing.at = "store"
  /\ LET ch == IdleText[printing.done + 1]
     IN  console' = Store(console, printing.cell, ch) /\ written' = Append(written, ch)
  /\ printing' = [printing EXCEPT !.at = "address", !.done = @ + 1]
  /\ UNCHANGED bufferVars

Next ==
  \/ \E text \in Texts : sys_write_console(text)
  \/ \E c \in Keys : Key(c)
  \/ ReadKey
  \/ IdleStarts \/ IdleAddress \/ IdleCursor \/ IdleStore

Spec == Init /\ [][Next]_vars

-----------------------------------------------------------------------------
\* The characters since the last new line.
LastLine ==
  LET ends == {0} \cup {i \in DOMAIN written : written[i] = NL}
  IN  SubSeq(written, (CHOOSE i \in ends : \A j \in ends : j <= i) + 1, Len(written))

\* Between two characters, what was written since the line began stands left
\* of the cursor, in order, complete and without gaps, whatever pieces it came
\* in and whatever keys were echoed meanwhile; only the echo's cell may differ.
TextInPlace ==
  printing.at \in {"off", "address"} =>
    /\ console.x = Len(LastLine) % NUM_COLUMNS
    /\ \A i \in 1 .. console.x :
         LET k == Cell(console) - i
         IN  k # 0 => console.screen[k] = written[Len(written) + 1 - i]

=============================================================================
