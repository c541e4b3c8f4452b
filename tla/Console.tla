------------------------------ MODULE Console -------------------------------
(***************************************************************************)
(* Text output: kprintf and its numbers (printf.c), the framebuffer        *)
(* terminal (vterm.c), the coloured messages of kok.c and kerror.c and the  *)
(* last words of assert.c.  Threads print one character per step; another   *)
(* one may run whenever interrupts are enabled.                             *)
(*                                                                         *)
(* A format with its arguments is a message: a sequence of characters and   *)
(* of numbers to convert.  The framebuffer keeps its pixels, with small     *)
(* glyphs, since what wrapping and scrolling leave behind is pixels.        *)
(***************************************************************************)
EXTENDS Integers, Sequences, SequencesExt, FiniteSetsExt

CONSTANTS
  NULL,
  Writers,       \* the threads that print
  Plain,         \* bound: the messages given to kprintf,
  Errors,        \* those given to kerror,
  OkText,        \* that of kok,
  AssertText,    \* and that of __assert, before the line number
  AssertLines,   \* bound: the line numbers of failed assertions
  Unwritten,     \* the characters an unwritten byte of the stack may be
  Bits,          \* the width of the numbers
  width, height, \* of the framebuffer in pixels,
  GlyphW, GlyphH,\* of a glyph: 8 by 16 in the code,
  Glyph,         \* and the pixels of the glyph of each character
  MaxPrinted     \* bound: no call is made after that many characters

VARIABLES
  framebuffer, cursor_x, cursor_y, fg_color,
  interrupts,       \* the CPU's interrupt flag
  kprintf_spinlock, \* the lock and
  had_interrupt,    \* the flag it keeps
  current,          \* the running thread
  pc, job,          \* where each thread is, and what it still has to print
  text,             \* the characters left of the message being printed
  log,              \* history: each character printed, with its colour: what
                    \* the serial port receives
  said              \* history: the messages, in the order they took the lock

consoleVars == <<framebuffer, cursor_x, cursor_y, fg_color, interrupts, kprintf_spinlock,
                 had_interrupt, current, pc, job, text, log, said>>

-----------------------------------------------------------------------------
(* Conversions.                                                             *)

newline == "newline"

Digits == <<"0", "1", "2", "3", "4", "5", "6", "7", "8", "9", "a", "b", "c", "d", "e", "f">>

\* The digits of n, the least one first, as the loops of kprintnp and utoa
\* produce them: at least one.
LeastFirst(n, base) ==
  LET digits[k \in 0 .. n] ==
        <<Digits[(k % base) + 1]>> \o (IF k < base THEN <<>> ELSE digits[k \div base])
  IN digits[n]

-----------------------------------------------------------------------------
(* Faulty variants of definitions below, named by what is wrong with them.  *)

clears_below_last(fb) ==
  [p \in DOMAIN fb |-> IF p[2] >= (height \div GlyphH) * GlyphH THEN "black" ELSE fb[p]]

-----------------------------------------------------------------------------
\* kprintnp fills its buffer from index 1 on and prints from the last index but
\* one down to index 0, which was never written.
kprintnp(num, base, w, pad) ==
  LET digits == LeastFirst(num, base)
      filled == digits \o [i \in 1 .. w - Len(digits) |-> pad]
      buffer == <<NULL>> \o filled
  IN Reverse(Front(buffer))

\* kprintns: the smallest number is its own negation, and right as an unsigned.
kprintns(num, base) ==
  IF num < 0 THEN <<"-">> \o kprintnp((-num) % (2 ^ Bits), base, 0, " ")
  ELSE kprintnp(num, base, 0, " ")

\* utoa of assert.c reverses the digits in place.
utoa(n) == Reverse(LeastFirst(n, 10))

\* The switch of kprintf.  A character of a message stands for itself.
Converted(item) ==
  CASE item.conv = "c" -> <<item.char>>
    [] item.conv = "u" -> kprintnp(item.num, item.base, item.width, item.pad)
    [] item.conv = "d" -> kprintns(item.num, item.base)
    [] item.conv = "line" -> utoa(item.num)

Formatted(message) == FlattenSeq([i \in 1 .. Len(message) |-> Converted(message[i])])

-----------------------------------------------------------------------------
(* The terminal.                                                            *)

Pixels == (0 .. width - 1) \X (0 .. height - 1)

\* vterm_init and vterm_clear.
Init ==
  /\ framebuffer = [p \in Pixels |-> "black"]
  /\ cursor_x = 0 /\ cursor_y = 0
  /\ fg_color = "white"
  /\ interrupts = FALSE
  /\ kprintf_spinlock = FALSE /\ had_interrupt = FALSE
  /\ current \in Writers
  /\ pc = [t \in Writers |-> "idle"]
  /\ job = [t \in Writers |-> NULL]
  /\ text = <<>> /\ log = <<>> /\ said = <<>>

\* The rows vterm_scroll clears are the last ones of the framebuffer.
Cleared(fb) == [p \in DOMAIN fb |-> IF p[2] >= height - GlyphH THEN "black" ELSE fb[p]]

vterm_scroll(fb) ==
  Cleared([p \in DOMAIN fb |-> IF p[2] < height - GlyphH THEN fb[<<p[1], p[2] + GlyphH>>] ELSE fb[p]])

Drawn(fb, c, x, y) ==
  [p \in DOMAIN fb |-> IF <<p[1] - x, p[2] - y>> \in Glyph[c] THEN fg_color ELSE fb[p]]

vterm_putc(c) ==
  LET wraps == c = newline \/ cursor_x + GlyphW > width
      below == IF wraps THEN cursor_y + GlyphH ELSE cursor_y
      scrolls == wraps /\ below + GlyphH > height
      x == IF wraps THEN 0 ELSE cursor_x
      y == IF scrolls THEN below - GlyphH ELSE below
      fb == IF scrolls THEN vterm_scroll(framebuffer) ELSE framebuffer
  IN /\ cursor_y' = y
     /\ cursor_x' = IF c = newline THEN 0 ELSE x + GlyphW
     /\ framebuffer' = IF c = newline THEN fb ELSE Drawn(fb, c, x, y)

-----------------------------------------------------------------------------
(* Threads.                                                                 *)

screen == <<framebuffer, cursor_x, cursor_y>>
locking == <<interrupts, kprintf_spinlock, had_interrupt>>

At(t, label) == current = t /\ pc[t] = label
Goto(t, label) == pc' = [pc EXCEPT ![t] = label]

\* A call of the thread: messages, their colour or NULL, and whether it halts.
Call(t, messages, fg, halts) ==
  /\ At(t, "idle")
  /\ Len(log) < MaxPrinted
  /\ job' = [job EXCEPT ![t] = [left |-> messages, fg |-> fg, halts |-> halts, found |-> NULL]]
  /\ Goto(t, IF fg = NULL THEN "lock" ELSE "colour")
  /\ UNCHANGED <<screen, fg_color, locking, current, text, log, said>>

kprintf(t) == \E m \in Plain : Call(t, <<m>>, NULL, FALSE)

kok(t) == Call(t, <<OkText>>, "green", FALSE)

kerror(t) == \E m \in Errors : Call(t, <<m>>, "red", FALSE)

\* __assert reports with one kerror after the other and halts.
__assert(t) == \E n \in AssertLines : Call(t, <<AssertText, <<[conv |-> "line", num |-> n]>>>>, "red", TRUE)

SetColour(t) ==
  /\ At(t, "colour")
  /\ fg_color' = job[t].fg
  /\ Goto(t, "lock")
  /\ UNCHANGED <<screen, locking, current, job, text, log, said>>

\* spinlock_acquire notes in the lock whether interrupts are enabled, ...
SaveFlag(t) ==
  /\ At(t, "lock")
  /\ had_interrupt' = interrupts
  /\ job' = [job EXCEPT ![t].found = interrupts]
  /\ Goto(t, "cli")
  /\ UNCHANGED <<screen, fg_color, interrupts, kprintf_spinlock, current, text, log, said>>

\* The lock is taken by t, with this as the flag it keeps.
Taken(t, flag) ==
  /\ At(t, "cli")
  /\ ~kprintf_spinlock
  /\ interrupts' = FALSE
  /\ kprintf_spinlock' = TRUE
  /\ had_interrupt' = flag
  /\ text' = Formatted(Head(job[t].left))
  /\ said' = Append(said, Head(job[t].left))
  /\ Goto(t, "print")
  /\ UNCHANGED <<screen, fg_color, current, job, log>>

\* A faulty variant of the next step: the flag is read once it is cleared.
saved_after_cli(t) == Taken(t, FALSE)

\* ... disables them, and takes the lock; after that no one else runs, so that
\* no one ever finds it taken.
Acquire(t) == Taken(t, had_interrupt)

\* kputc.  An unwritten byte is whatever the stack held.
kputc(t) ==
  /\ At(t, "print")
  /\ text # <<>>
  /\ \E c \in IF Head(text) = NULL THEN Unwritten ELSE {Head(text)} :
       /\ vterm_putc(c)
       /\ log' = Append(log, <<c, fg_color>>)
  /\ text' = Tail(text)
  /\ UNCHANGED <<fg_color, locking, current, pc, job, said>>

Release(t) ==
  /\ At(t, "print")
  /\ text = <<>>
  /\ kprintf_spinlock' = FALSE
  /\ interrupts' = (had_interrupt \/ interrupts)
  /\ job' = [job EXCEPT ![t].left = Tail(@)]
  /\ Goto(t, IF job[t].fg = NULL THEN "idle" ELSE "restore")
  /\ UNCHANGED <<screen, fg_color, had_interrupt, current, text, log, said>>

\* The colour is white again; __assert goes on or halts.
Restore(t) ==
  /\ At(t, "restore")
  /\ fg_color' = "white"
  /\ Goto(t, IF job[t].left # <<>> THEN "colour" ELSE IF job[t].halts THEN "halted" ELSE "idle")
  /\ interrupts' = (interrupts /\ (job[t].halts => job[t].left # <<>>))
  /\ UNCHANGED <<screen, kprintf_spinlock, had_interrupt, current, job, text, log, said>>

\* kmain enables interrupts, once.
enable_interrupt(t) ==
  /\ At(t, "idle")
  /\ ~interrupts
  /\ interrupts' = TRUE
  /\ UNCHANGED <<screen, fg_color, kprintf_spinlock, had_interrupt, current, pc, job, text, log, said>>

Preempt ==
  /\ interrupts
  /\ current' \in Writers \ {current}
  /\ UNCHANGED <<screen, fg_color, locking, pc, job, text, log, said>>

Next ==
  \/ \E t \in Writers : kprintf(t) \/ kok(t) \/ kerror(t) \/ __assert(t) \/ SetColour(t)
                        \/ SaveFlag(t) \/ Acquire(t) \/ kputc(t) \/ Release(t) \/ Restore(t) \/ enable_interrupt(t)
  \/ Preempt

-----------------------------------------------------------------------------
Columns == width \div GlyphW
Rows == height \div GlyphH

\* Where the line that character i of the log is on starts.
LineStart(i) == Max({0} \cup { j \in 1 .. i - 1 : log[j][1] = newline })

\* A line of n characters takes at least one row.
RowsOf(n) == IF n = 0 THEN 1 ELSE (n + Columns - 1) \div Columns

\* The rows taken by the lines that end before position i of the log.
RowsAbove(i) ==
  MapThenSumSet(LAMBDA j : RowsOf(j - LineStart(j) - 1), { j \in 1 .. i : log[j][1] = newline })

\* The row and column character i belongs at, were the screen unlimited.
RowOf(i) == RowsAbove(LineStart(i)) + (i - LineStart(i) - 1) \div Columns
ColumnOf(i) == (i - LineStart(i) - 1) % Columns

\* The number of rows that have left the screen.
Scrolled ==
  LET n == Len(log) + 1
      k == n - LineStart(n) - 1
  IN Max({0, RowsAbove(LineStart(n)) + RowsOf(k) - Rows})

\* The screen always shows the last rows of everything printed, wrapped at the
\* last whole column, in the colour each character was printed with, and
\* nothing else: no step of vterm_putc or vterm_scroll leaves a remnant of what
\* was there, also where the framebuffer is no multiple of the glyphs.
ScreenShowsTail ==
  LET top == Scrolled
      shown == { i \in 1 .. Len(log) : log[i][1] # newline /\ RowOf(i) >= top }
      ink == UNION { { <<<<GlyphW * ColumnOf(i) + d[1], GlyphH * (RowOf(i) - top) + d[2]>>, log[i][2]>>
                       : d \in Glyph[log[i][1]] } : i \in shown }
  IN ink = { <<p, framebuffer[p]>> : p \in { q \in Pixels : framebuffer[q] # "black" } }

\* The number n in full: its digits in the base, the highest place first, after
\* as many pad characters as the width asks for.
Places(n, base) == Min({ k \in 1 .. Bits : n < base ^ k })
InFull(n, base, w, pad) ==
  LET places == Max({w, Places(n, base)})
  IN [j \in 1 .. places |->
        LET place == places - j
        IN IF place >= Places(n, base) THEN pad ELSE Digits[((n \div base ^ place) % base) + 1]]

\* The text of the messages said, given what becomes of an item.
Whole(Text(_)) == FlattenSeq([i \in 1 .. Len(said) |-> FlattenSeq([k \in 1 .. Len(said[i]) |-> Text(said[i][k])])])

\* The messages of kprintf reach the console one after the other and whole,
\* whatever threads print them and wherever they are preempted: what is out is
\* the converted text of the messages in the order they took kprintf_spinlock,
\* the last one perhaps only up to a point, with the line number of an assertion
\* in full; and the interrupt flag that the lock's owner will put back is the one
\* it found, though all threads keep it in the same place.
MessagesWhole ==
  LET whole == Whole(LAMBDA item : IF item.conv = "line" THEN InFull(item.num, 10, 1, "0") ELSE Converted(item))
  IN /\ Len(log) \leq Len(whole)
     /\ \A i \in 1 .. Len(log) : whole[i] \in {NULL, log[i][1]}
     /\ ~kprintf_spinlock => Len(log) = Len(whole)
     /\ \A t \in Writers : pc[t] = "print" => had_interrupt = job[t].found

\* What formats such as "Exception Number: %u" and "RIP: 0x%016lx" of isr.c say:
\* each number is printed in full.  It does not hold: kprintnp leaves out the
\* highest place of the padded number and ends with a byte it never wrote.
NumbersPrinted ==
  LET whole == Whole(LAMBDA item :
        CASE item.conv = "c" -> <<item.char>>
          [] item.conv = "u" -> InFull(item.num, item.base, item.width, item.pad)
          [] item.conv = "d" -> (IF item.num < 0 THEN <<"-">> ELSE <<>>)
                                \o InFull(IF item.num < 0 THEN -item.num ELSE item.num, item.base, 1, " ")
          [] item.conv = "line" -> InFull(item.num, 10, 1, "0"))
  IN ~kprintf_spinlock => [i \in 1 .. Len(log) |-> log[i][1]] = whole
=============================================================================
