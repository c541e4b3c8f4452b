----------------------------- MODULE MCServices -----------------------------
(***************************************************************************)
(* The services of the kernel that share no state with each other here, one *)
(* after the other: part says which one a behaviour is about.  The others   *)
(* stay as init left them (the slabs, the hash table, the page tables, the  *)
(* interrupts, the clock and the processes, which this module extends) or   *)
(* do not exist (the instances).                                            *)
(* The constants are small ones that still reach every case: a slab of one  *)
(* object and one of several, two keys with the same hash, a page that      *)
(* shares some of its tables with another, lines of both interrupt          *)
(* controllers, a clock whose fields carry and whose counter wraps, a       *)
(* screen that is no multiple of the glyphs.                                *)
(***************************************************************************)
EXTENDS Slab, Hashtable, PageTables, Interrupts, SystemClock, Processes

CONSTANT Parts   \* the services that are looked at

VARIABLES part,
  framebuffer, cursor_x, cursor_y, fg_color, interrupts, kprintf_spinlock, had_interrupt,
  printing, at, job, text, log, said,
  memory, ptr, last,
  step, ready, sti, hcf, early

-----------------------------------------------------------------------------
(* Values of the constants of the modules extended.                         *)

SlabObjectSize == [one |-> 2032, three |-> 1352]
SlabMemoryMap ==
  << [usable |-> TRUE, base |-> 0, length |-> 1], [usable |-> TRUE, base |-> 2, length |-> 4],
     [usable |-> FALSE, base |-> 6, length |-> 9], [usable |-> TRUE, base |-> 16, length |-> 4] >>

HashOfKeys == [a |-> 5, b |-> 5, c |-> 3, d |-> 2]

TablePages == {<<0, 0, 0, 0>>, <<0, 1, 0, 1>>, <<1, 0, 0, 0>>, <<1, 0, 1, 0>>, <<2, 0, 0, 0>>}
TableBootPml4 == [i \in {1, 2} |-> IF i = 1 THEN 2 ELSE NULL]
TableBootTables ==
  [f \in {2, 3, 4} |-> [i \in {0, 1, 2} |-> IF i # 0 THEN NULL ELSE IF f = 4 THEN 100 ELSE f + 1]]
TableGarbage == [i \in {0, 1, 2} |-> 1]

RingOfThreads == [k |-> 0, l |-> 0, u |-> 3]

ClockLimits == <<3, 2, 2, 2>>

ThreadOwner == [t \in Threads |-> 0]

-----------------------------------------------------------------------------
Letter(c) == [conv |-> "c", char |-> c]

V == INSTANCE Console WITH
  Writers <- {"k", "l"}, current <- printing, pc <- at,
  Plain <- { <<Letter("a")>>,
             <<[conv |-> "u", num |-> 5, base |-> 2, width |-> 4, pad |-> "0"]>>,
             <<[conv |-> "d", num |-> -8, base |-> 2]>> },
  Errors <- { <<Letter("b"), Letter("newline")>> },
  OkText <- <<Letter("a"), Letter("newline")>>,
  AssertText <- <<Letter("b")>>, AssertLines <- {12},
  Unwritten <- {"a", "newline"}, Bits <- 4,
  width <- 5, height <- 5, GlyphW <- 2, GlyphH <- 2,
  Glyph <- [c \in {"a", "b", "-", "0", "1", "2"} |->
              IF c \in {"a", "0"} THEN {<<0, 0>>, <<1, 1>>} ELSE {<<0, 1>>, <<1, 1>>}],
  MaxPrinted <- 4

T == INSTANCE Strings WITH Size <- 5, Bytes <- {0, 1, 2}

B == INSTANCE Boot WITH halted <- hcf

-----------------------------------------------------------------------------
(* The variables of the instances, and their values in a part not looked at. *)

consoleVars == <<framebuffer, cursor_x, cursor_y, fg_color, interrupts, kprintf_spinlock,
                 had_interrupt, printing, at, job, text, log, said>>
stringVars == <<memory, ptr, last>>
bootVars == <<step, ready, sti, hcf, early>>

No_console ==
  /\ framebuffer = NULL /\ cursor_x = NULL /\ cursor_y = NULL /\ fg_color = NULL
  /\ interrupts = NULL /\ kprintf_spinlock = NULL /\ had_interrupt = NULL /\ printing = NULL
  /\ at = NULL /\ job = NULL /\ text = NULL /\ log = NULL
  /\ said = NULL

No_strings ==
  /\ memory = NULL /\ ptr = NULL /\ last = NULL

No_boot ==
  /\ step = NULL /\ ready = NULL /\ sti = NULL /\ hcf = NULL /\ early = NULL

Init ==
  /\ part \in Parts
  /\ SlabInit /\ TableInit /\ PageInit /\ CpuInit /\ ClockInit /\ ProcessInit
  /\ IF part = "console" THEN V!Init ELSE No_console
  /\ IF part = "strings" THEN T!Init ELSE No_strings
  /\ IF part = "boot" THEN B!Init ELSE No_boot

Next ==
  \/ part = "slab" /\ SlabNext
     /\ UNCHANGED <<part, tableVars, pageVars, cpuVars, clockVars, consoleVars, stringVars, processVars, bootVars>>
  \/ part = "hashtable" /\ TableNext
     /\ UNCHANGED <<part, slabVars, pageVars, cpuVars, clockVars, consoleVars, stringVars, processVars, bootVars>>
  \/ part = "pages" /\ PageNext
     /\ UNCHANGED <<part, slabVars, tableVars, cpuVars, clockVars, consoleVars, stringVars, processVars, bootVars>>
  \/ part = "cpu" /\ CpuNext
     /\ UNCHANGED <<part, slabVars, tableVars, pageVars, clockVars, consoleVars, stringVars, processVars, bootVars>>
  \/ part = "clock" /\ ClockNext
     /\ UNCHANGED <<part, slabVars, tableVars, pageVars, cpuVars, consoleVars, stringVars, processVars, bootVars>>
  \/ part = "console" /\ V!Next
     /\ UNCHANGED <<part, slabVars, tableVars, pageVars, cpuVars, clockVars, stringVars, processVars, bootVars>>
  \/ part = "strings" /\ T!Next
     /\ UNCHANGED <<part, slabVars, tableVars, pageVars, cpuVars, clockVars, consoleVars, processVars, bootVars>>
  \/ part = "processes" /\ ProcessNext
     /\ UNCHANGED <<part, slabVars, tableVars, pageVars, cpuVars, clockVars, consoleVars, stringVars, bootVars>>
  \/ part = "boot" /\ B!Next
     /\ UNCHANGED <<part, slabVars, tableVars, pageVars, cpuVars, clockVars, consoleVars, stringVars, processVars>>

vars == <<part, slabVars, tableVars, pageVars, cpuVars, clockVars, consoleVars, stringVars, processVars, bootVars>>

Spec == Init /\ [][Next]_vars

ThreadSymmetry == Permutations(Threads)

-----------------------------------------------------------------------------
\* Console: the screen shows the last rows of what was printed.
ScreenShowsTail == part = "console" => V!ScreenShowsTail

\* Console: messages come out whole, one after the other.
MessagesWhole == part = "console" => V!MessagesWhole

\* Console: numbers come out as the formats say.
NumbersPrinted == part = "console" => V!NumbersPrinted

\* Strings: every function of mem.c and string.c does what it is for.
CallsExact == part = "strings" => T!CallsExact

\* Boot: what interrupts and later steps of kmain use is initialised.
BootOrdered == part = "boot" => B!BootOrdered
=============================================================================
