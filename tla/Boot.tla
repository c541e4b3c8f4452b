-------------------------------- MODULE Boot --------------------------------
(***************************************************************************)
(* kmain of main.c: the parts of the kernel are initialised one after the   *)
(* other, each with the help of earlier ones, and from enable_interrupt on  *)
(* the timer's interrupt strikes between any two steps.                     *)
(*                                                                         *)
(* A step is a call of kmain.  What it uses are the parts whose functions   *)
(* or tables its code touches, calls of calls included; what it gives are   *)
(* the parts that may be used once it has returned.  Memory is enough for   *)
(* the boot: init_processes and init_vfs do not check what kmalloc returns. *)
(***************************************************************************)
EXTENDS Integers, Sequences

VARIABLES
  step,       \* the place in kmain
  ready,      \* the parts initialised so far
  sti,        \* whether interrupts are enabled
  halted,     \* whether kmain called hcf
  early       \* history: the uses of a part before it was ready, and by whom

bootVars == <<step, ready, sti, halted, early>>

-----------------------------------------------------------------------------
(* A faulty variant of kmain: interrupts are enabled before threads exist.  *)

interrupts_too_early ==
  <<"boot_info", "vterm_init", "banner", "g_hhdm_offset", "init_mmu", "init_pmm", "init_vmm", "init_kheap",
    "init_serial", "init_gdt", "init_idt", "pic_remap", "init_pit", "init_system_clock", "init_ps2",
    "init_syscalls", "enable_interrupt", "init_processes", "init_threading", "init_kprintf_spinlock",
    "init_vfs", "test_scheduler">>

-----------------------------------------------------------------------------
kmain ==
  <<"boot_info", "vterm_init", "banner", "g_hhdm_offset", "init_mmu", "init_pmm", "init_vmm", "init_kheap",
    "init_serial", "init_gdt", "init_idt", "pic_remap", "init_pit", "init_system_clock", "init_ps2",
    "init_syscalls", "init_processes", "init_threading", "init_kprintf_spinlock",
    "init_vfs", "enable_interrupt", "test_scheduler">>

Init ==
  /\ step = 1 /\ ready = {}
  /\ sti = FALSE /\ halted = FALSE /\ early = {}

\* The user uses some parts; those that are not ready are kept.
Used(user, parts) == early' = early \cup ({user} \X (parts \ ready))

\* The call c of kmain returns, ...
Done(c, uses, gives) ==
  /\ ~halted /\ step \leq Len(kmain) /\ kmain[step] = c
  /\ step' = step + 1
  /\ ready' = ready \cup gives
  /\ Used(c, uses)
  /\ sti' = (sti \/ c = "enable_interrupt")
  /\ UNCHANGED halted

\* ... or ends in hcf, which disables interrupts and stays there.
hcf(c, uses) ==
  /\ ~halted /\ step \leq Len(kmain) /\ kmain[step] = c
  /\ halted' = TRUE /\ sti' = FALSE
  /\ Used(c, uses)
  /\ UNCHANGED <<step, ready>>

\* What kprintf, kok and kerror draw on: kputc waits for the serial port and then
\* draws.  Their spinlock is clear from the start.
Printing == {"serial", "vterm"}

\* The boot loader's answers: any of them may be missing.
boot_info ==
  \/ Done("boot_info", {}, {"framebuffer", "hhdm", "memmap", "module"})
  \/ hcf("boot_info", {})

\* A framebuffer larger than FB_WIDTH x FB_HEIGHT is refused.
vterm_init ==
  \/ Done("vterm_init", {"framebuffer"}, {"vterm"})
  \/ hcf("vterm_init", {"framebuffer"})

\* kmain prints its name.
banner == Done("banner", Printing, {})

hhdm_offset == Done("g_hhdm_offset", {"hhdm"}, {"g_hhdm_offset"})

init_mmu == Done("init_mmu", Printing \cup {"memmap"}, {"mmu"})

\* There may be no usable region.
init_pmm ==
  \/ Done("init_pmm", Printing \cup {"mmu", "g_hhdm_offset"}, {"pmm"})
  \/ hcf("init_pmm", Printing \cup {"mmu"})

init_vmm == Done("init_vmm", Printing \cup {"mmu", "pmm", "g_hhdm_offset"}, {"vmm"})

init_kheap == Done("init_kheap", Printing \cup {"pmm", "vmm"}, {"kheap"})

\* kmain ignores the result of init_serial.
init_serial ==
  \/ Done("init_serial", Printing, {"serial"})
  \/ Done("init_serial", Printing, {})

init_gdt == Done("init_gdt", Printing, {"gdt"})

\* The gates name the code segment of gdt_setup.
init_idt == Done("init_idt", Printing \cup {"gdt"}, {"idt"})

pic_remap == Done("pic_remap", {}, {"pic"})

init_pit == Done("init_pit", Printing, {"pit"})

init_system_clock == Done("init_system_clock", Printing, {"clock"})

\* The controller has to answer: ps2_read and ps2_write wait for it.
init_ps2 == Done("init_ps2", Printing, {"ps2"})

init_syscalls == Done("init_syscalls", Printing \cup {"idt"}, {"syscalls"})

\* The mutexes it takes note kernel->current_thread as their owner.
init_processes == Done("init_processes", Printing \cup {"kheap", "threads"}, {"processes"})

\* The idle thread may not be created.
init_threading ==
  \/ Done("init_threading", Printing \cup {"kheap", "processes"}, {"threads"})
  \/ hcf("init_threading", Printing \cup {"kheap", "processes"})

init_kprintf_spinlock == Done("init_kprintf_spinlock", Printing, {})

init_vfs == Done("init_vfs", Printing \cup {"kheap"}, {"vfs"})

enable_interrupt == Done("enable_interrupt", {}, {})

\* Two processes that print for ever, or hcf.
test_scheduler ==
  \/ Done("test_scheduler", {"kheap", "processes", "threads"}, {})
  \/ hcf("test_scheduler", Printing \cup {"kheap", "processes", "threads"})

\* irq_handler: the gate and its segment, the controllers, scheduler_tick with
\* clean_up, which frees, and timer_handler.
irq_handler ==
  /\ sti
  /\ Used("irq_handler", {"gdt", "idt", "pic", "threads", "processes", "kheap", "clock"})
  /\ UNCHANGED <<step, ready, sti, halted>>

Next ==
  \/ boot_info \/ vterm_init \/ banner \/ hhdm_offset \/ init_mmu \/ init_pmm \/ init_vmm \/ init_kheap
  \/ init_serial \/ init_gdt \/ init_idt \/ pic_remap \/ init_pit \/ init_system_clock \/ init_ps2
  \/ init_syscalls \/ init_processes \/ init_threading \/ init_kprintf_spinlock \/ init_vfs
  \/ enable_interrupt \/ test_scheduler \/ irq_handler

-----------------------------------------------------------------------------
\* Of all the parts of the kernel only two are used before kmain has initialised
\* them: the serial port, by everything that prints before init_serial or after
\* it failed, and current_thread, which init_processes reads as NULL.  An
\* interrupt never meets a part that is not ready, during or after the boot; and
\* a boot that ends has left no part uninitialised but, perhaps, the serial port.
BootOrdered ==
  /\ \A use \in early : use[2] = "serial" \/ use = <<"init_processes", "threads">>
  /\ step > Len(kmain) =>
       ready \cup {"serial"} = {"framebuffer", "hhdm", "memmap", "module", "vterm", "g_hhdm_offset", "mmu",
         "pmm", "vmm", "kheap", "serial", "gdt", "idt", "pic", "pit", "clock", "ps2", "syscalls",
         "processes", "threads", "vfs"}
=============================================================================
