----------------------------- MODULE Interrupts -----------------------------
(***************************************************************************)
(* What the CPU goes through between two instructions of a thread: the      *)
(* interrupt controllers (pic.c), the gates and stubs of idt.c and isr.asm, *)
(* irq_handler, the copy of registers by context_switch.asm, the way into   *)
(* isr_handler, and the system calls of syscall.asm and syscall.c.          *)
(*                                                                         *)
(* A stack frame is the list of its words from the lowest address up, and a *)
(* context_t gives names to them by position: whether the two agree is the  *)
(* question.  Which thread scheduler_tick chooses is left open here.        *)
(***************************************************************************)
EXTENDS Integers, Sequences, SequencesExt, Null

CONSTANTS
  CpuThreads,   \* the threads,
  Ring,         \* and the privilege of each, 0 or 3
  Lines,        \* bound: the interrupt lines in use
  Exceptions,   \* bound: the exceptions that happen
  Calls         \* bound: the system call numbers used

\* There is a kernel thread; the lines are those of two controllers, and the
\* exceptions are those below the lines.
ASSUME CpuAssumption ==
  /\ Ring \in [CpuThreads -> {0, 3}] /\ \E t \in CpuThreads : Ring[t] = 0
  /\ Lines \subseteq 0 .. 15 /\ Exceptions \subseteq 0 .. 31

VARIABLES
  regs,       \* the CPU's registers; of rflags only the interrupt flag
  own,        \* each thread's registers as the thread itself knows them
  context,    \* the context_t of each thread
  current,    \* kernel->current_thread
  frame,      \* the interrupt frame on the stack, or <<>> in a thread,
  handled,    \* and whether irq_handler is done with it
  sys,        \* the system call in progress, or <<>>
  requested,  \* the lines that ask for an interrupt,
  inService,  \* those the controllers wait for an EOI for,
  masked,     \* and those they ignore
  stopped     \* NULL, or the context isr_handler has when it ends in hcf

cpuVars == <<regs, own, context, current, frame, handled, sys, requested, inService, masked, stopped>>

-----------------------------------------------------------------------------
(* Faulty variants of definitions below, named by what is wrong with them.  *)

rsi_rdi_swapped ==
  <<"rax", "rbx", "rcx", "rdx", "rdi", "rsi", "rbp", "r8", "r9", "r10", "r11", "r12", "r13", "r14", "r15">>
first_controller_only(s, i) == s \ { l \in s : l < 8 /\ \A k \in s : l \leq k }
no_code_for_faults == {8, 10, 11, 12}
overwritten_first ==
  << <<"rdi", "rax">>, <<"rsi", "rdi">>, <<"rdx", "rsi">>, <<"rcx", "rdx">>, <<"r8", "r10">>, <<"r9", "r8">> >>

-----------------------------------------------------------------------------
(* The machine.                                                             *)

\* The order of context_t, from the lowest address.
context_t ==
  <<"r15", "r14", "r13", "r12", "r11", "r10", "r9", "r8", "rbp", "rdi", "rsi", "rdx", "rcx", "rbx", "rax",
    "int_no", "err_code", "rip", "cs", "rflags", "rsp", "ss">>

\* What the stubs push, first to last, and pop again.
Pushed ==
  <<"rax", "rbx", "rcx", "rdx", "rsi", "rdi", "rbp", "r8", "r9", "r10", "r11", "r12", "r13", "r14", "r15">>

Popped ==
  <<"r15", "r14", "r13", "r12", "r11", "r10", "r9", "r8", "rbp", "rdi", "rsi", "rdx", "rcx", "rbx", "rax">>

Gprs == ToSet(Popped)

\* What the CPU pushes by itself, from the lowest address, and iretq pops.
ByCpu == <<"rip", "cs", "rflags", "rsp", "ss">>

Registers == Gprs \cup ToSet(ByCpu)

KERNEL_CODE64 == 8
KERNEL_DATA64 == 16
USER_CODE64 == 27
USER_DATA64 == 35

\* gdt_setup: the access bytes of entries 1 to 4.  Bit 3 tells code from data.
gdt_setup == <<154, 146, 242, 250>>

IsCode(selector) == (gdt_setup[selector \div 8] \div 8) % 2 = 1

\* The registers thread t computes with, k telling its moments apart.
Computed(t, k) ==
  [r \in Registers |->
     CASE r = "cs" -> IF Ring[t] = 3 THEN USER_CODE64 ELSE KERNEL_CODE64
       [] r = "ss" -> IF Ring[t] = 3 THEN USER_DATA64 ELSE KERNEL_DATA64
       [] r = "rflags" -> TRUE
       [] OTHER -> <<t, r, k>>]

ZeroWord == <<0, "zero", 0>>

\* thread_create: a cleared context with entry point, stack and arguments.
Created(t) ==
  [r \in Registers |->
     IF r \in {"rip", "rsp", "rdi", "rsi", "cs", "ss", "rflags"} THEN Computed(t, 0)[r] ELSE ZeroWord]

Booted == CHOOSE t \in CpuThreads : Ring[t] = 0

\* init_idt and init_syscalls: the least privileged ring that may use the gate of
\* each vector with an int instruction, and no gate for the other vectors.
init_idt == [v \in 0 .. 255 |-> IF v \in 0 .. 19 \cup 32 .. 47 THEN 0 ELSE NULL]

init_syscalls == [init_idt EXCEPT ![128] = 3]

HasGate(v) == init_syscalls[v] # NULL

MayCall(t, v) == HasGate(v) /\ Ring[t] \leq init_syscalls[v]

\* pic_remap: the vectors of the two controllers, all but the timer's masked.
pic_remap ==
  [i \in 0 .. 15 |-> [vector |-> IF i < 8 THEN 32 + i ELSE 40 + (i - 8), masked |-> i # 0]]

CpuInit ==
  /\ own = [t \in CpuThreads |-> Created(t)]
  /\ context = [t \in CpuThreads |-> [f \in ToSet(context_t) |-> IF f \in Registers THEN Created(t)[f] ELSE 0]]
  /\ current = Booted
  /\ regs = Created(Booted)
  /\ frame = <<>> /\ handled = FALSE /\ sys = <<>> /\ stopped = NULL
  /\ requested = {} /\ inService = {}
  /\ masked = { i \in Lines : pic_remap[i].masked }

InThread == frame = <<>> /\ sys = <<>> /\ stopped = NULL

\* The thread computes.
Compute ==
  /\ InThread
  /\ regs' = Computed(current, 1)
  /\ own' = [own EXCEPT ![current] = regs']
  /\ UNCHANGED <<context, current, frame, handled, sys, requested, inService, masked, stopped>>

-----------------------------------------------------------------------------
(* Interrupts.                                                              *)

\* The first controller gets the lines of the second one through line 2.
Cascade == 2

\* A device asks for service.
Raise(i) ==
  /\ stopped = NULL /\ i \notin requested /\ i # Cascade
  /\ requested' = requested \cup {i}
  /\ UNCHANGED <<regs, own, context, current, frame, handled, sys, inService, masked, stopped>>

pic_mask_irq(i) ==
  /\ InThread /\ masked' = masked \cup {i} /\ masked' # masked
  /\ UNCHANGED <<regs, own, context, current, frame, handled, sys, requested, inService, stopped>>

pic_mask_all ==
  /\ InThread /\ masked' = Lines /\ masked' # masked
  /\ UNCHANGED <<regs, own, context, current, frame, handled, sys, requested, inService, stopped>>

pic_unmask_irq(i) ==
  /\ InThread /\ masked' = masked \ {i} /\ masked' # masked
  /\ UNCHANGED <<regs, own, context, current, frame, handled, sys, requested, inService, stopped>>

Priority(i) == IF i >= 8 THEN 8 * Cascade + (i - 8) ELSE 8 * i

Offered(i) ==
  /\ i \in requested \ masked
  /\ i >= 8 => Cascade \notin masked
  /\ \A s \in inService : Priority(i) < Priority(s)

\* The frame of vector v: the CPU's words, and an error code for some
\* exceptions, then what the stub adds and pushes.
ErrorStubs == {8, 10, 11, 12, 13, 14}

ErrorCode == 1

HasErrorCode(v) == v \in {8, 10, 11, 12, 13, 14, 17}

FrameOf(v) ==
  Reverse([i \in DOMAIN Pushed |-> regs[Pushed[i]]])
  \o <<v>> \o (IF v \in ErrorStubs THEN <<>> ELSE <<0>>)
  \o (IF HasErrorCode(v) THEN <<ErrorCode>> ELSE <<>>)
  \o [i \in DOMAIN ByCpu |-> regs[ByCpu[i]]]

Interrupted(v) ==
  /\ frame' = FrameOf(v) /\ handled' = FALSE
  /\ regs' = [regs EXCEPT !["rflags"] = FALSE, !["cs"] = KERNEL_CODE64]

\* A line gets through to the CPU, ...
Deliver(i) ==
  /\ InThread /\ regs["rflags"] /\ Offered(i)
  /\ HasGate(pic_remap[i].vector)
  /\ Interrupted(pic_remap[i].vector)
  /\ requested' = requested \ {i}
  /\ inService' = inService \cup (IF i >= 8 THEN {i, Cascade} ELSE {i})
  /\ UNCHANGED <<own, context, current, sys, masked, stopped>>

\* ... or the thread gives up the CPU with int 0x20, which its gate allows to
\* ring 0 only.
Yield ==
  /\ InThread /\ MayCall(current, 32)
  /\ Interrupted(32)
  /\ UNCHANGED <<own, context, current, sys, requested, inService, masked, stopped>>

\* pic_send_eoi: each controller drops its highest line in service.
HighestOf(s) == { l \in s : \A k \in s : l \leq k }

pic_send_eoi(s, i) ==
  s \ (HighestOf({ l \in s : l < 8 }) \cup (IF i >= 8 THEN HighestOf({ l \in s : l >= 8 }) ELSE {}))

ContextOf(f) == [n \in ToSet(context_t) |-> f[CHOOSE i \in DOMAIN context_t : context_t[i] = n]]

\* context_switch: all the words for ring 0; for ring 3 all but two of them, with
\* the user's selectors and interrupts enabled.
context_switch(f, c, ring) ==
  [i \in DOMAIN f |->
     LET n == context_t[i] IN
     CASE ring = 3 /\ n \in {"int_no", "err_code"} -> f[i]
       [] ring = 3 /\ n = "cs"     -> USER_CODE64
       [] ring = 3 /\ n = "ss"     -> USER_DATA64
       [] ring = 3 /\ n = "rflags" -> TRUE
       [] OTHER -> c[n]]

\* irq_handler: the EOI first; line 0 is scheduler_tick, which saves the frame
\* and puts the context of thread t in its place.  (The keyboard's handler reads
\* a byte, and the other lines have none.)
irq_handler(t) ==
  LET i == ContextOf(frame)["int_no"] - 32 IN
  /\ frame # <<>> /\ ~handled
  /\ inService' = pic_send_eoi(inService, i)
  /\ IF i = 0
     THEN /\ context' = [context EXCEPT ![current] = ContextOf(frame)]
          /\ current' = t
          /\ frame' = context_switch(frame, context'[t], Ring[t])
     ELSE t = current /\ UNCHANGED <<context, current, frame>>
  /\ handled' = TRUE
  /\ UNCHANGED <<regs, own, sys, requested, masked, stopped>>

\* The end of irq_common_stub: the pops, and iretq.
Restored(f) ==
  [r \in Registers |->
     IF r \in Gprs THEN f[CHOOSE i \in DOMAIN Popped : Popped[i] = r]
     ELSE f[Len(Popped) + 2 + CHOOSE i \in DOMAIN ByCpu : ByCpu[i] = r]]

\* iretq to a selector that is no code segment is a general protection fault, in
\* the stub; what isr_handler then gets is not looked at.
Refused == [int_no |-> 13]

Return ==
  /\ handled /\ handled' = FALSE
  /\ regs' = Restored(frame)
  /\ frame' = <<>>
  /\ stopped' = IF IsCode(Restored(frame)["cs"]) THEN NULL ELSE Refused
  /\ UNCHANGED <<own, context, current, sys, requested, inService, masked>>

\* isr_handler gets the context of the exception v of a thread, reports it and
\* stops.  The report is left out: how numbers come out is Console's, RAX to RDI
\* are not those of the context but what the CPU has in the middle of the handler,
\* and the memory around rip, rsp and rbp is not modelled.
isr_handler(v) ==
  /\ InThread /\ HasGate(v)
  /\ stopped' = ContextOf(FrameOf(v))
  /\ UNCHANGED <<regs, own, context, current, frame, handled, sys, requested, inService, masked>>

-----------------------------------------------------------------------------
(* System calls.                                                            *)

Move(r, m) == [r EXCEPT ![m[1]] = r[m[2]]]

\* Six moves, one after the other.
Moved(r, m) == Move(Move(Move(Move(Move(Move(r, m[1]), m[2]), m[3]), m[4]), m[5]), m[6])

\* The C arguments of syscall(num, arg1, ..., arg6), the last one on the stack.
Arguments(n) == [i \in 1 .. 7 |-> IF i = 1 THEN <<"num", n>> ELSE <<"arg", i - 1>>]

CRegisters == <<"rdi", "rsi", "rdx", "rcx", "r8", "r9">>

Loaded(r, n) ==
  [x \in Registers |-> IF x \in ToSet(CRegisters)
                       THEN Arguments(n)[CHOOSE i \in DOMAIN CRegisters : CRegisters[i] = x] ELSE r[x]]

\* syscall, up to int 0x80.
WrapperMoves ==
  << <<"rax", "rdi">>, <<"rdi", "rsi">>, <<"rsi", "rdx">>, <<"rdx", "rcx">>, <<"r10", "r8">>, <<"r8", "r9">> >>

Wrapped(r, n) == [Moved(Loaded(r, n), WrapperMoves) EXCEPT !["r9"] = Arguments(n)[7]]

\* syscall_entry saves these, first to last, ...
Saved == <<"rbx", "rcx", "rdx", "rsi", "rdi", "rbp", "r8", "r9", "r10", "r11", "r12", "r13", "r14", "r15">>

\* ... puts the arguments aside and then where C expects them, ...
AsideMoves ==
  << <<"rbx", "rdi">>, <<"r11", "rsi">>, <<"r12", "rdx">>, <<"r13", "r10">>, <<"r14", "r8">>, <<"r15", "r9">> >>

EntryMoves ==
  << <<"rdi", "rax">>, <<"rsi", "rbx">>, <<"rdx", "r11">>, <<"rcx", "r12">>, <<"r8", "r13">>, <<"r9", "r14">> >>

\* ... and calls syscall_handler with the sixth one on the stack.
syscall(n) ==
  LET user == Wrapped(regs, n)
      entry == Moved(Moved(user, AsideMoves), EntryMoves)
  IN
  /\ InThread /\ MayCall(current, 128)
  /\ sys' = [num |-> n, user |-> user,
             saved |-> [i \in DOMAIN Saved |-> user[Saved[i]]],
             got |-> [i \in 1 .. 7 |-> IF i = 7 THEN entry["r15"] ELSE entry[CRegisters[i]]]]
  /\ regs' = entry
  /\ UNCHANGED <<own, context, current, frame, handled, requested, inService, masked, stopped>>

\* syscall_handler: no number has a handler, so the result is always -1.  C may
\* leave anything in the registers it does not preserve.
Result == <<"result", -1>>

SyscallReturn ==
  LET clobbered == [r \in Registers |->
        CASE r = "rax" -> Result
          [] r \in {"rcx", "rdx", "rsi", "rdi", "r8", "r9", "r10", "r11"} -> <<"clobbered">>
          [] OTHER -> regs[r]]
  IN
  /\ sys # <<>>
  /\ regs' = [r \in Registers |->
       IF r \in ToSet(Saved) THEN sys.saved[CHOOSE i \in DOMAIN Saved : Saved[i] = r] ELSE clobbered[r]]
  /\ own' = [own EXCEPT ![current] = [sys.user EXCEPT !["rax"] = Result]]
  /\ sys' = <<>>
  /\ UNCHANGED <<context, current, frame, handled, requested, inService, masked, stopped>>

CpuNext ==
  \/ Compute
  \/ \E i \in Lines : Raise(i) \/ Deliver(i) \/ pic_mask_irq(i) \/ pic_unmask_irq(i)
  \/ pic_mask_all \/ Yield \/ Return \/ SyscallReturn
  \/ \E t \in CpuThreads : irq_handler(t)
  \/ \E v \in Exceptions : isr_handler(v)
  \/ \E n \in Calls : syscall(n)

CpuSpec == CpuInit /\ [][CpuNext]_cpuVars

-----------------------------------------------------------------------------
\* A thread that goes on after any number of interrupts, switches and system
\* calls finds its own registers, all of them; so does the frame that iretq
\* refuses for a ring-3 thread.
RegistersKept == frame = <<>> /\ sys = <<>> => regs = own[current]

\* While a thread runs no line waits for an EOI: a line lost in service would
\* hold up itself and all lines behind it for ever.
NothingInService == frame = <<>> => inService = {}

\* The context that a stub hands to isr_handler is that of the exception: its
\* number, the error code the CPU gave or 0, every register of the thread as it
\* was, and so the privilege, for both kinds of stubs.
ContextExact ==
  stopped # NULL /\ stopped # Refused =>
    /\ stopped["int_no"] \in Exceptions
    /\ stopped["err_code"] = IF HasErrorCode(stopped["int_no"]) THEN ErrorCode ELSE 0
    /\ \A r \in Registers : stopped[r] = regs[r]
    /\ stopped["cs"] % 4 = Ring[current]

\* syscall_handler gets the number and the six arguments of syscall in order.
SyscallArguments == sys # <<>> => sys.got = Arguments(sys.num)

-----------------------------------------------------------------------------
(* The inductive invariant behind the theorems of MachineProofs.            *)

\* What no handler changes of the registers of thread t.
Own(t, r) ==
  /\ r = [x \in Registers |-> r[x]]
  /\ \A x \in {"cs", "ss", "rflags"} : r[x] = Computed(t, 0)[x]

ThreadsSound ==
  /\ current \in CpuThreads
  /\ own = [t \in CpuThreads |-> own[t]] /\ context = [t \in CpuThreads |-> context[t]]
  /\ \A t \in CpuThreads : Own(t, own[t])

\* A thread that is not on the CPU has its registers in its context.
AwayKept ==
  \A t \in CpuThreads \ {current} : \A r \in Registers : context[t][r] = own[t][r]

\* In an interrupt, iretq would restore the registers of the thread that goes on.
FrameSound ==
  /\ frame # <<>> =>
       /\ DOMAIN frame = DOMAIN context_t
       /\ Restored(frame) = own[current]
       /\ sys = <<>> /\ stopped = NULL
  /\ frame = <<>> => ~handled

\* Before irq_handler, the lines in service are those of its interrupt, if it is
\* not that of an int instruction.
ServiceSound ==
  LET i == frame[16] - 32 IN
  IF frame = <<>> \/ handled THEN inService = {}
  ELSE /\ frame[16] \in Int
       /\ inService \in {{}, IF i >= 8 THEN {i, Cascade} ELSE {i}}

\* In a system call, what is neither saved nor the result is untouched.
SyscallSound ==
  sys # <<>> =>
    /\ frame = <<>> /\ stopped = NULL
    /\ Own(current, sys.user)
    /\ \A i \in DOMAIN Saved : sys.saved[i] = sys.user[Saved[i]]
    /\ \A r \in ToSet(ByCpu) : regs[r] = sys.user[r]
    /\ sys.got = Arguments(sys.num)

CpuInv ==
  /\ ThreadsSound /\ AwayKept /\ FrameSound /\ ServiceSound /\ SyscallSound
  /\ RegistersKept
=============================================================================
