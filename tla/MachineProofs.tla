---------------------------- MODULE MachineProofs ---------------------------
(***************************************************************************)
(* The machine below the threads.  Interrupts, switches and system calls    *)
(* keep the registers of every thread, whatever threads, lines and calls    *)
(* there are; and the clock is right for every limit of the fields, every   *)
(* width of a byte and every range of the counter.                          *)
(***************************************************************************)
EXTENDS Interrupts, SystemClock, SequenceTheorems, TLAPS

-----------------------------------------------------------------------------
(* The words of a stack frame and the names context_t gives to them.        *)

\* context_t names 22 words, each differently.
LEMMA ContextWords ==
  /\ DOMAIN context_t = 1 .. 22
  /\ \A i, j \in 1 .. 22 : context_t[i] = context_t[j] => i = j
  /\ context_t[16] = "int_no" /\ context_t[17] = "err_code"
BY DEF context_t

\* The stubs pop the words in the order of context_t, up to the two that iretq
\* does not see, ...
LEMMA PoppedWords ==
  /\ DOMAIN Popped = 1 .. 15 /\ Len(Popped) = 15 /\ DOMAIN ByCpu = 1 .. 5
  /\ \A i \in 1 .. 15 : Popped[i] = context_t[i]
  /\ \A i \in 1 .. 5 : ByCpu[i] = context_t[17 + i]
BY DEF context_t, Popped, ByCpu

\* ... and push them in the opposite order.
LEMMA PushedWords ==
  /\ DOMAIN Pushed = 1 .. 15
  /\ \A i \in 1 .. 15 : Pushed[16 - i] = context_t[i]
BY DEF context_t, Pushed

\* The registers are the words of context_t but those two.
LEMMA RegisterPlaces ==
  /\ Gprs = { context_t[i] : i \in 1 .. 15 }
  /\ Registers = { context_t[i] : i \in 1 .. 15 \cup 18 .. 22 }
  /\ ToSet(context_t) = { context_t[i] : i \in 1 .. 22 }
  /\ ToSet(ByCpu) = { context_t[i] : i \in 18 .. 22 }
<1>1. /\ Gprs = { context_t[i] : i \in 1 .. 15 } 
      /\ ToSet(context_t) = { context_t[i] : i \in 1 .. 22 }
  BY PoppedWords, ContextWords DEF Gprs, ToSet
<1>2. ToSet(ByCpu) = { context_t[i] : i \in 18 .. 22 }
  <2>1. \A i \in 18 .. 22 : i - 17 \in 1 .. 5 /\ ByCpu[i - 17] = context_t[i]
    BY PoppedWords
  <2> QED BY <2>1, PoppedWords DEF ToSet
<1> QED BY <1>1, <1>2 DEF Registers

\* Looking up a word of a list without repetition finds its place.
LEMMA PlaceOf ==
  ASSUME NEW s, \A i, j \in DOMAIN s : s[i] = s[j] => i = j, NEW i \in DOMAIN s
  PROVE  (CHOOSE j \in DOMAIN s : s[j] = s[i]) = i
OBVIOUS

\* A handler finds each word of the frame under its name, ...
LEMMA ContextWord ==
  ASSUME NEW f, NEW i \in 1 .. 22
  PROVE  ContextOf(f)[context_t[i]] = f[i]
BY ContextWords, PlaceOf, RegisterPlaces DEF ContextOf

\* ... and the end of the stub restores each register from its place.
LEMMA RestoredWord ==
  ASSUME NEW f
  PROVE  /\ Restored(f) = [r \in Registers |-> Restored(f)[r]]
         /\ \A i \in 1 .. 15 \cup 18 .. 22 : Restored(f)[context_t[i]] = f[i]
<1>1. ASSUME NEW i \in 1 .. 15 PROVE Restored(f)[context_t[i]] = f[i]
  <2>1. (CHOOSE j \in DOMAIN Popped : Popped[j] = Popped[i]) = i
    BY PlaceOf, PoppedWords, ContextWords
  <2> QED BY <2>1, PoppedWords, RegisterPlaces DEF Restored
<1>2. ASSUME NEW i \in 18 .. 22 PROVE Restored(f)[context_t[i]] = f[i]
  <2>1. i - 17 \in 1 .. 5 /\ ByCpu[i - 17] = context_t[i]
    BY PoppedWords
  <2>2. \A a, b \in 1 .. 5 : ByCpu[a] = ByCpu[b] => a = b
    <3>1. \A a \in 1 .. 5 : 17 + a \in 1 .. 22
      OBVIOUS
    <3> QED BY <3>1, PoppedWords, ContextWords
  <2>3. (CHOOSE j \in DOMAIN ByCpu : ByCpu[j] = context_t[i]) = i - 17
    BY PlaceOf, <2>1, <2>2, PoppedWords
  <2>4. context_t[i] \notin Gprs /\ context_t[i] \in Registers
    BY RegisterPlaces, ContextWords
  <2>5. Restored(f)[context_t[i]] = f[Len(Popped) + 2 + (CHOOSE j \in DOMAIN ByCpu : ByCpu[j] = context_t[i])]
    BY <2>4 DEF Restored
  <2>6. Len(Popped) + 2 + (i - 17) = i
    BY PoppedWords
  <2> QED BY <2>3, <2>5, <2>6
<1>3. Restored(f) = [r \in Registers |-> Restored(f)[r]]
  BY DEF Restored
<1> QED BY <1>1, <1>2, <1>3

\* The frame of an interrupt, or of an exception whose stub agrees with the CPU
\* about the error code.
LEMMA FrameWords ==
  ASSUME NEW v, v # 17
  PROVE  LET f == FrameOf(v) IN
         /\ DOMAIN f = 1 .. 22
         /\ \A i \in 1 .. 15 \cup 18 .. 22 : f[i] = regs[context_t[i]]
         /\ f[16] = v
         /\ f[17] = IF HasErrorCode(v) THEN ErrorCode ELSE 0
<1> DEFINE a == Reverse([i \in DOMAIN Pushed |-> regs[Pushed[i]]])
           e == IF HasErrorCode(v) THEN ErrorCode ELSE 0
           b == [i \in DOMAIN ByCpu |-> regs[ByCpu[i]]]
           A == { regs[Pushed[i]] : i \in 1 .. 15 }
           U == A \cup {v, e} \cup { regs[ByCpu[i]] : i \in 1 .. 5 }
<1>1. a \in Seq(U) /\ Len(a) = 15 /\ \A i \in 1 .. 15 : a[i] = regs[context_t[i]]
  <2> DEFINE p == [i \in DOMAIN Pushed |-> regs[Pushed[i]]]
  <2>1. p \in Seq(U) /\ Len(p) = 15 /\ \A i \in 1 .. 15 : p[i] = regs[Pushed[i]]
    BY PushedWords
  <2>2. a = [i \in 1 .. 15 |-> p[(15 - i) + 1]]
    BY <2>1 DEF Reverse
  <2>3. \A i \in 1 .. 15 : (15 - i) + 1 \in 1 .. 15 /\ (15 - i) + 1 = 16 - i
    OBVIOUS
  <2>4. \A i \in 1 .. 15 : a[i] = regs[context_t[i]] /\ a[i] \in U
    BY <2>1, <2>2, <2>3, PushedWords
  <2> HIDE DEF p, U
  <2> HIDE DEF a
  <2>5. a = [i \in 1 .. 15 |-> a[i]]
    BY <2>2
  <2>6. a \in Seq(U) /\ Len(a) = 15
    BY <2>4, <2>5, SeqDef
  <2> QED BY <2>4, <2>6
<1>2. b \in Seq(U) /\ Len(b) = 5 /\ \A i \in 1 .. 5 : b[i] = regs[context_t[17 + i]]
  BY PoppedWords
<1>3. v \in U /\ e \in U
  OBVIOUS
<1> HIDE DEF U
<1>4. FrameOf(v) = ((a \o <<v>>) \o <<e>>) \o b
  <2>1. a \o <<v>> \in Seq(U) /\ <<>> \in Seq(U) /\ <<e>> \in Seq(U)
    BY <1>1, <1>3, ConcatProperties
  <2>2. (a \o <<v>>) \o <<e>> \in Seq(U)
    BY <2>1, ConcatProperties
  <2>3. /\ (a \o <<v>>) \o <<>> = a \o <<v>>
        /\ ((a \o <<v>>) \o <<e>>) \o <<>> = (a \o <<v>>) \o <<e>>
    BY <2>1, <2>2, ConcatEmptySeq
  <2> HIDE DEF a, b
  <2>4. CASE HasErrorCode(v)
    <3>1. v \in ErrorStubs /\ e = ErrorCode
      BY <2>4 DEF HasErrorCode, ErrorStubs
    <3> QED BY <3>1, <2>3, <2>4 DEF FrameOf, a, b
  <2>5. CASE ~HasErrorCode(v)
    <3>1. v \notin ErrorStubs /\ e = 0
      BY <2>5 DEF HasErrorCode, ErrorStubs
    <3> QED BY <3>1, <2>3, <2>5 DEF FrameOf, a, b
  <2> QED BY <2>4, <2>5
<1> HIDE DEF a, b, e
<1>5. PICK vs, es : vs = <<v>> /\ es = <<e>>
  OBVIOUS
<1>6. vs \in Seq(U) /\ Len(vs) = 1 /\ vs[1] = v /\ es \in Seq(U) /\ Len(es) = 1 /\ es[1] = e
  BY <1>3, <1>5
<1>7. PICK c, d, f : c = a \o vs /\ d = c \o es /\ f = FrameOf(v)
  OBVIOUS
<1>8. f = d \o b
  BY <1>4, <1>5, <1>7
<1>9. 15 + Len(vs) = 16 /\ 16 + Len(es) = 17 /\ 17 + Len(b) = 22
  BY <1>2, <1>6
<1>10. /\ c \in Seq(U) /\ Len(c) = 16
       /\ \A i \in 1 .. 16 : c[i] = IF i <= 15 THEN a[i] ELSE vs[i - 15]
  <2>1. /\ c \in Seq(U) /\ Len(c) = Len(a) + Len(vs)
        /\ \A i \in 1 .. Len(a) + Len(vs) : c[i] = IF i <= Len(a) THEN a[i] ELSE vs[i - Len(a)]
    <3>1. a \in Seq(U) /\ vs \in Seq(U) /\ c = a \o vs
      BY <1>1, <1>6, <1>7
    <3> QED BY <3>1, ConcatProperties, Zenon
  <2>2. Len(a) = 15 /\ 15 + Len(vs) = 16
    BY <1>9, <1>1
  <2> QED BY <2>1, <2>2, Zenon
<1>11. /\ d \in Seq(U) /\ Len(d) = 17
       /\ \A i \in 1 .. 17 : d[i] = IF i <= 16 THEN c[i] ELSE es[i - 16]
  <2>1. /\ d \in Seq(U) /\ Len(d) = Len(c) + Len(es)
        /\ \A i \in 1 .. Len(c) + Len(es) : d[i] = IF i <= Len(c) THEN c[i] ELSE es[i - Len(c)]
    <3>1. c \in Seq(U) /\ es \in Seq(U) /\ d = c \o es
      BY <1>6, <1>7, <1>10
    <3> QED BY <3>1, ConcatProperties, Zenon
  <2>2. Len(c) = 16 /\ 16 + Len(es) = 17
    BY <1>9, <1>10
  <2> QED BY <2>1, <2>2, Zenon
<1>12. /\ f \in Seq(U) /\ Len(f) = 22
       /\ \A i \in 1 .. 22 : f[i] = IF i <= 17 THEN d[i] ELSE b[i - 17]
  <2>1. /\ f \in Seq(U) /\ Len(f) = Len(d) + Len(b)
        /\ \A i \in 1 .. Len(d) + Len(b) : f[i] = IF i <= Len(d) THEN d[i] ELSE b[i - Len(d)]
    <3>1. d \in Seq(U) /\ b \in Seq(U) /\ f = d \o b
      BY <1>2, <1>8, <1>11
    <3> QED BY <3>1, ConcatProperties, Zenon
  <2>2. Len(d) = 17 /\ 17 + Len(b) = 22
    BY <1>9, <1>11
  <2> QED BY <2>1, <2>2, Zenon
<1>13. /\ \A i \in 1 .. 15 : f[i] = a[i]
       /\ f[16] = vs[1] /\ f[17] = es[1]
       /\ \A i \in 18 .. 22 : f[i] = b[i - 17]
  <2>1. /\ \A i \in 1 .. 16 : c[i] = IF i <= 15 THEN a[i] ELSE vs[i - 15]
        /\ \A i \in 1 .. 17 : d[i] = IF i <= 16 THEN c[i] ELSE es[i - 16]
        /\ \A i \in 1 .. 22 : f[i] = IF i <= 17 THEN d[i] ELSE b[i - 17]
    BY <1>10, <1>11, <1>12
  <2>2. \A i \in 1 .. 15 : f[i] = d[i] /\ d[i] = c[i] /\ c[i] = a[i]
    BY <2>1
  <2>3. f[16] = d[16] /\ d[16] = c[16] /\ c[16] = vs[16 - 15]
    BY <2>1
  <2>4. f[17] = d[17] /\ d[17] = es[17 - 16]
    BY <2>1
  <2>5. \A i \in 18 .. 22 : f[i] = b[i - 17]
    BY <2>1
  <2> QED BY <2>2, <2>3, <2>4, <2>5
<1>14. DOMAIN f = 1 .. 22
  BY <1>12, LenProperties
<1>15. ASSUME NEW i \in 18 .. 22 PROVE f[i] = regs[context_t[i]]
  <2>1. i - 17 \in 1 .. 5 /\ 17 + (i - 17) = i
    OBVIOUS
  <2>2. b[i - 17] = regs[context_t[17 + (i - 17)]]
    BY <2>1, <1>2, Zenon
  <2> QED BY <2>1, <2>2, <1>13
<1> QED BY <1>1, <1>6, <1>13, <1>14, <1>15, <1>7 DEF e

\* The frame of an interrupt restores what the CPU had.
LEMMA FrameRestores ==
  ASSUME NEW v, v # 17, regs = [r \in Registers |-> regs[r]]
  PROVE  Restored(FrameOf(v)) = regs
<1>1. \A i \in 1 .. 15 \cup 18 .. 22 : Restored(FrameOf(v))[context_t[i]] = regs[context_t[i]]
  BY FrameWords, RestoredWord
<1>2. \A r \in Registers : Restored(FrameOf(v))[r] = regs[r]
  BY <1>1, RegisterPlaces
<1> QED BY <1>2, RestoredWord

-----------------------------------------------------------------------------
(* The registers of a system call.                                          *)

\* The registers by name.
LEMMA RegisterNames ==
  /\ ToSet(ByCpu) = {"rip", "cs", "rflags", "rsp", "ss"}
  /\ Registers = {"r15", "r14", "r13", "r12", "r11", "r10", "r9", "r8", "rbp", "rdi", "rsi", "rdx", "rcx",
                  "rbx", "rax", "rip", "cs", "rflags", "rsp", "ss"}
<1>1. /\ ToSet(ByCpu) = { ByCpu[i] : i \in 1 .. 5 } /\ Gprs = { Popped[i] : i \in 1 .. 15 }
  BY PoppedWords DEF ToSet, Gprs
<1>2. { ByCpu[i] : i \in 1 .. 5 } = {"rip", "cs", "rflags", "rsp", "ss"}
  BY DEF ByCpu
<1>3. { Popped[i] : i \in 1 .. 15 } = {"r15", "r14", "r13", "r12", "r11", "r10", "r9", "r8", "rbp", "rdi", "rsi",
        "rdx", "rcx", "rbx", "rax"}
  BY DEF Popped
<1> QED BY <1>1, <1>2, <1>3 DEF Registers

\* The caller of syscall has the number and five arguments in registers, ...
LEMMA LoadedWords ==
  ASSUME NEW r, NEW n
  PROVE  LET l == Loaded(r, n) IN
         /\ l = [x \in Registers |-> l[x]]
         /\ l["rdi"] = Arguments(n)[1] /\ l["rsi"] = Arguments(n)[2] /\ l["rdx"] = Arguments(n)[3]
         /\ l["rcx"] = Arguments(n)[4] /\ l["r8"] = Arguments(n)[5] /\ l["r9"] = Arguments(n)[6]
         /\ \A x \in ToSet(ByCpu) : l[x] = r[x]
<1>1. /\ DOMAIN CRegisters = 1 .. 6 /\ \A i, j \in 1 .. 6 : CRegisters[i] = CRegisters[j] => i = j
      /\ CRegisters[1] = "rdi" /\ CRegisters[2] = "rsi" /\ CRegisters[3] = "rdx" /\ CRegisters[4] = "rcx"
      /\ CRegisters[5] = "r8" /\ CRegisters[6] = "r9"
  BY DEF CRegisters
<1>2. ToSet(CRegisters) = {"rdi", "rsi", "rdx", "rcx", "r8", "r9"}
  <2>1. ToSet(CRegisters) = { CRegisters[i] : i \in 1 .. 6 }
    BY <1>1 DEF ToSet
  <2> QED BY <2>1 DEF CRegisters
<1>3. ASSUME NEW i \in 1 .. 6 PROVE Loaded(r, n)[CRegisters[i]] = Arguments(n)[i]
  <2>1. (CHOOSE j \in DOMAIN CRegisters : CRegisters[j] = CRegisters[i]) = i
    BY <1>1, PlaceOf
  <2>2. CRegisters[i] \in Registers /\ CRegisters[i] \in ToSet(CRegisters)
    BY <1>1, <1>2, RegisterNames DEF ToSet
  <2> QED BY <2>1, <2>2 DEF Loaded
<1>4. \A x \in ToSet(ByCpu) : Loaded(r, n)[x] = r[x]
  BY <1>2, RegisterNames DEF Loaded
<1>5. Loaded(r, n) = [x \in Registers |-> Loaded(r, n)[x]]
  BY DEF Loaded
<1> QED BY <1>1, <1>3, <1>4, <1>5

\* ... the wrapper moves them to where syscall_entry expects them, overwriting none
\* before it is read, ...
LEMMA WrappedWords ==
  ASSUME NEW r, NEW n
  PROVE  LET u == Wrapped(r, n) IN
         /\ u = [x \in Registers |-> u[x]]
         /\ u["rax"] = Arguments(n)[1] /\ u["rdi"] = Arguments(n)[2] /\ u["rsi"] = Arguments(n)[3]
         /\ u["rdx"] = Arguments(n)[4] /\ u["r10"] = Arguments(n)[5] /\ u["r8"] = Arguments(n)[6]
         /\ u["r9"] = Arguments(n)[7]
         /\ \A x \in ToSet(ByCpu) : u[x] = r[x]
<1>1. PICK l : l = Loaded(r, n)
  OBVIOUS
<1>2. /\ l = [x \in Registers |-> l[x]]
      /\ l["rdi"] = Arguments(n)[1] /\ l["rsi"] = Arguments(n)[2] /\ l["rdx"] = Arguments(n)[3]
      /\ l["rcx"] = Arguments(n)[4] /\ l["r8"] = Arguments(n)[5] /\ l["r9"] = Arguments(n)[6]
      /\ \A x \in ToSet(ByCpu) : l[x] = r[x]
  BY <1>1, LoadedWords
<1>3. PICK w : w = Moved(l, WrapperMoves)
  OBVIOUS
<1>4. /\ w = [x \in Registers |-> w[x]]
      /\ w["rax"] = l["rdi"] /\ w["rdi"] = l["rsi"] /\ w["rsi"] = l["rdx"]
      /\ w["rdx"] = l["rcx"] /\ w["r10"] = l["r8"] /\ w["r8"] = l["r9"]
      /\ \A x \in {"rip", "cs", "rflags", "rsp", "ss"} : w[x] = l[x]
  BY <1>2, <1>3, RegisterNames DEF Moved, Move, WrapperMoves
<1>5. PICK u : u = [w EXCEPT !["r9"] = Arguments(n)[7]]
  OBVIOUS
<1>6. Wrapped(r, n) = u
  BY <1>1, <1>3, <1>5 DEF Wrapped
<1> HIDE DEF Arguments
<1>7. u = [x \in Registers |-> u[x]] /\ u["r9"] = Arguments(n)[7]
  BY <1>4, <1>5, RegisterNames
<1>8. \A x \in Registers \ {"r9"} : u[x] = w[x]
  BY <1>4, <1>5
<1>9. \A x \in {"rax", "rdi", "rsi", "rdx", "r10", "r8", "rip", "cs", "rflags", "rsp", "ss"} : u[x] = w[x]
  BY <1>8, RegisterNames
<1>10. \A x \in ToSet(ByCpu) : u[x] = r[x]
  BY <1>2, <1>4, <1>9, RegisterNames
<1>11. /\ u["rax"] = Arguments(n)[1] /\ u["rdi"] = Arguments(n)[2] /\ u["rsi"] = Arguments(n)[3]
       /\ u["rdx"] = Arguments(n)[4] /\ u["r10"] = Arguments(n)[5] /\ u["r8"] = Arguments(n)[6]
  BY <1>2, <1>4, <1>9
<1> QED BY <1>6, <1>7, <1>10, <1>11

\* ... and syscall_entry to where C does.
LEMMA EntryWords ==
  ASSUME NEW u, u = [x \in Registers |-> u[x]]
  PROVE  LET e == Moved(Moved(u, AsideMoves), EntryMoves) IN
         /\ e["rdi"] = u["rax"] /\ e["rsi"] = u["rdi"] /\ e["rdx"] = u["rsi"] /\ e["rcx"] = u["rdx"]
         /\ e["r8"] = u["r10"] /\ e["r9"] = u["r8"] /\ e["r15"] = u["r9"]
         /\ \A x \in ToSet(ByCpu) : e[x] = u[x]
<1>1. PICK a : a = Moved(u, AsideMoves)
  OBVIOUS
<1>2. /\ a = [x \in Registers |-> a[x]]
      /\ a["rbx"] = u["rdi"] /\ a["r11"] = u["rsi"] /\ a["r12"] = u["rdx"] /\ a["r13"] = u["r10"]
      /\ a["r14"] = u["r8"] /\ a["r15"] = u["r9"] /\ a["rax"] = u["rax"]
      /\ \A x \in {"rip", "cs", "rflags", "rsp", "ss"} : a[x] = u[x]
  BY <1>1, RegisterNames DEF Moved, Move, AsideMoves
<1>3. PICK e : e = Moved(a, EntryMoves)
  OBVIOUS
<1>4. /\ e["rdi"] = a["rax"] /\ e["rsi"] = a["rbx"] /\ e["rdx"] = a["r11"] /\ e["rcx"] = a["r12"]
      /\ e["r8"] = a["r13"] /\ e["r9"] = a["r14"] /\ e["r15"] = a["r15"]
      /\ \A x \in {"rip", "cs", "rflags", "rsp", "ss"} : e[x] = a[x]
  BY <1>2, <1>3, RegisterNames DEF Moved, Move, EntryMoves
<1> QED BY <1>1, <1>2, <1>3, <1>4, RegisterNames

-----------------------------------------------------------------------------
(* Interrupts.                                                              *)

\* What threads start with and compute with has the selectors of their ring.
LEMMA ComputedOwn ==
  ASSUME NEW t
  PROVE  /\ Own(t, Created(t)) /\ Own(t, Computed(t, 1))
         /\ Computed(t, 0)["cs"] = IF Ring[t] = 3 THEN USER_CODE64 ELSE KERNEL_CODE64
         /\ Computed(t, 0)["ss"] = IF Ring[t] = 3 THEN USER_DATA64 ELSE KERNEL_DATA64
         /\ Computed(t, 0)["rflags"] = TRUE
<1>1. ASSUME NEW k
      PROVE  /\ Computed(t, k)["cs"] = IF Ring[t] = 3 THEN USER_CODE64 ELSE KERNEL_CODE64
             /\ Computed(t, k)["ss"] = IF Ring[t] = 3 THEN USER_DATA64 ELSE KERNEL_DATA64
             /\ Computed(t, k)["rflags"] = TRUE
             /\ Computed(t, k) = [r \in Registers |-> Computed(t, k)[r]]
  BY RegisterNames DEF Computed
<1>2. \A x \in {"cs", "ss", "rflags"} : Created(t)[x] = Computed(t, 0)[x]
  BY RegisterNames DEF Created
<1>3. Created(t) = [r \in Registers |-> Created(t)[r]]
  BY DEF Created
<1>4. \A x \in {"cs", "ss", "rflags"} : Computed(t, 1)[x] = Computed(t, 0)[x]
  <2>1. /\ Computed(t, 1)["cs"] = Computed(t, 0)["cs"] /\ Computed(t, 1)["ss"] = Computed(t, 0)["ss"]
        /\ Computed(t, 1)["rflags"] = Computed(t, 0)["rflags"]
    BY RegisterNames DEF Computed
  <2> QED BY <2>1
<1>5. Own(t, Created(t))
  BY <1>2, <1>3 DEF Own
<1>6. Own(t, Computed(t, 1))
  BY <1>1, <1>4 DEF Own
<1> QED BY <1>1, <1>5, <1>6

\* The invariant holds at the start.
LEMMA CpuStart == CpuInit => CpuInv
<1> SUFFICES ASSUME CpuInit PROVE CpuInv
  OBVIOUS
<1>1. Booted \in CpuThreads
  BY CpuAssumption DEF Booted
<1>2. ThreadsSound
  BY <1>1, ComputedOwn DEF CpuInit, ThreadsSound
<1>3. AwayKept
  <2>1. Registers \subseteq ToSet(context_t)
    BY RegisterPlaces
  <2> QED BY <2>1 DEF CpuInit, AwayKept
<1>4. FrameSound /\ ServiceSound /\ SyscallSound /\ RegistersKept
  BY <1>1 DEF CpuInit, FrameSound, ServiceSound, SyscallSound, RegistersKept
<1> QED BY <1>2, <1>3, <1>4 DEF CpuInv

\* A frame is not the empty list.
LEMMA NotEmpty ==
  ASSUME NEW f, DOMAIN f = 1 .. 22
  PROVE  f # <<>>
<1>1. DOMAIN <<>> = {}
  OBVIOUS
<1>2. 1 \in 1 .. 22
  OBVIOUS
<1> QED BY <1>1, <1>2

\* An interrupt by a device or by an int instruction.
LEMMA InterruptedStep ==
  ASSUME CpuInv, InThread, NEW v \in Int, v # 17, Interrupted(v), UNCHANGED <<own, context, current, sys, stopped>>,
         inService' \in {{}, IF v - 32 >= 8 THEN {v - 32, Cascade} ELSE {v - 32}}
  PROVE  CpuInv'
<1>1. regs = own[current] /\ current \in CpuThreads /\ regs = [r \in Registers |-> regs[r]]
  BY DEF CpuInv, InThread, RegistersKept, ThreadsSound, Own
<1>2. /\ frame' = FrameOf(v) /\ ~handled' /\ sys' = <<>> /\ stopped' = NULL
      /\ own' = own /\ context' = context /\ current' = current
  BY DEF Interrupted, InThread
<1>3. DOMAIN frame' = 1 .. 22 /\ frame'[16] = v /\ Restored(frame') = own[current]
  BY <1>1, <1>2, FrameWords, FrameRestores
<1>4. frame' # <<>>
  BY <1>3, NotEmpty
<1>5. ThreadsSound' /\ AwayKept'
  BY <1>2 DEF CpuInv, ThreadsSound, AwayKept, Own
<1>6. FrameSound'
  <2>1. Restored(frame)' = Restored(frame')
    BY DEF Restored
  <2> QED BY <1>2, <1>3, <1>4, ContextWords DEF FrameSound
<1>7. ServiceSound'
  BY <1>2, <1>3, <1>4 DEF ServiceSound
<1>8. SyscallSound' /\ RegistersKept'
  BY <1>2, <1>4 DEF SyscallSound, RegistersKept
<1> QED BY <1>5, <1>6, <1>7, <1>8 DEF CpuInv

\* A device's line gets through: it is in service, with the cascade if it is the
\* second controller's.
LEMMA DeliverStep ==
  ASSUME CpuInv, NEW i \in Lines, Deliver(i)
  PROVE  CpuInv'
<1>1. i \in 0 .. 15
  BY CpuAssumption
<1>2. pic_remap[i].vector = 32 + i
  BY <1>1 DEF pic_remap
<1>3. inService = {}
  BY DEF CpuInv, ServiceSound, Deliver, InThread
<1>4. 32 + i \in Int /\ 32 + i # 17 /\ (32 + i) - 32 = i
  BY <1>1
<1>5. inService' = IF (32 + i) - 32 >= 8 THEN {(32 + i) - 32, Cascade} ELSE {(32 + i) - 32}
  BY <1>3, <1>4 DEF Deliver
<1>6. InThread /\ Interrupted(32 + i) /\ UNCHANGED <<own, context, current, sys, stopped>>
  BY <1>2 DEF Deliver
<1> QED BY <1>4, <1>5, <1>6, InterruptedStep

\* int 0x20 puts no line in service.
LEMMA YieldStep ==
  ASSUME CpuInv, Yield
  PROVE  CpuInv'
<1>1. inService' = {}
  BY DEF CpuInv, ServiceSound, Yield, InThread
<1>2. InThread /\ Interrupted(32) /\ UNCHANGED <<own, context, current, sys, stopped>>
  BY DEF Yield
<1> QED BY <1>1, <1>2, InterruptedStep

\* pic_send_eoi acknowledges a line at all the controllers it came through, and does
\* nothing for an int instruction.
LEMMA Acknowledged ==
  ASSUME NEW i \in Int, NEW s, s \in {{}, IF i >= 8 THEN {i, Cascade} ELSE {i}}
  PROVE  pic_send_eoi(s, i) = {}
<1>1. CASE s = {}
  BY <1>1 DEF pic_send_eoi
<1>2. CASE s = {i} /\ ~(i >= 8)
  <2>1. { l \in s : l < 8 } = {i} /\ HighestOf({i}) = {i}
    BY <1>2 DEF HighestOf
  <2> QED BY <1>2, <2>1 DEF pic_send_eoi
<1>3. CASE s = {i, Cascade} /\ i >= 8
  <2>1. { l \in s : l < 8 } = {Cascade} /\ { l \in s : l >= 8 } = {i}
    BY <1>3 DEF Cascade
  <2>2. HighestOf({Cascade}) = {Cascade} /\ HighestOf({i}) = {i}
    BY DEF HighestOf, Cascade
  <2> QED BY <1>3, <2>1, <2>2 DEF pic_send_eoi
<1> QED BY <1>1, <1>2, <1>3

\* context_switch puts the registers of the next thread into the frame.
LEMMA SwitchRestores ==
  ASSUME NEW t \in CpuThreads, NEW f, DOMAIN f = 1 .. 22, NEW c, NEW o, Own(t, o), \A r \in Registers : c[r] = o[r]
  PROVE  LET g == context_switch(f, c, Ring[t]) IN DOMAIN g = 1 .. 22 /\ Restored(g) = o
<1> DEFINE g == context_switch(f, c, Ring[t])
<1>1. DOMAIN g = 1 .. 22
  BY DEF context_switch
<1>2. ASSUME NEW i \in 1 .. 15 \cup 18 .. 22 PROVE g[i] = o[context_t[i]]
  <2>1. context_t[i] \in Registers /\ context_t[i] \notin {"int_no", "err_code"}
    BY RegisterPlaces, ContextWords
  <2>2. c[context_t[i]] = o[context_t[i]] /\ i \in DOMAIN f
    BY <2>1
  <2>3. Ring[t] = 3 => o["cs"] = USER_CODE64 /\ o["ss"] = USER_DATA64 /\ o["rflags"] = TRUE
    BY ComputedOwn DEF Own
  <2> QED BY <2>1, <2>2, <2>3 DEF context_switch
<1> HIDE DEF g
<1>3. \A r \in Registers : Restored(g)[r] = o[r]
  <2>1. \A i \in 1 .. 15 \cup 18 .. 22 : Restored(g)[context_t[i]] = o[context_t[i]]
    BY <1>2, RestoredWord
  <2> QED BY <2>1, RegisterPlaces
<1>4. Restored(g) = o
  <2>1. o = [r \in Registers |-> o[r]] /\ Restored(g) = [r \in Registers |-> Restored(g)[r]]
    BY RestoredWord DEF Own
  <2> QED BY <2>1, <1>3
<1> QED BY <1>1, <1>4 DEF g

\* irq_handler leaves nothing in service, saves the frame in the context of the
\* thread that had the CPU and fills it from that of the next one.
LEMMA HandlerStep ==
  ASSUME CpuInv, NEW t \in CpuThreads, irq_handler(t)
  PROVE  CpuInv'
<1>1. /\ frame # <<>> /\ ~handled /\ handled' /\ UNCHANGED <<regs, own, sys, stopped>>
      /\ DOMAIN frame = 1 .. 22 /\ Restored(frame) = own[current] /\ sys = <<>> /\ stopped = NULL
  BY ContextWords DEF irq_handler, CpuInv, FrameSound
<1>2. ContextOf(frame)["int_no"] = frame[16]
  BY ContextWord, ContextWords
<1>3. inService' = {}
  <2>1. frame[16] - 32 \in Int /\ inService' = pic_send_eoi(inService, frame[16] - 32)
    BY <1>1, <1>2 DEF CpuInv, ServiceSound, irq_handler
  <2>2. inService \in {{}, IF frame[16] - 32 >= 8 THEN {frame[16] - 32, Cascade} ELSE {frame[16] - 32}}
    BY <1>1 DEF CpuInv, ServiceSound
  <2> QED BY <2>1, <2>2, Acknowledged
<1>4. ThreadsSound' /\ AwayKept' /\ DOMAIN frame' = 1 .. 22 /\ Restored(frame') = own[current']
  <2>1. CASE frame[16] - 32 = 0
    <3>1. /\ context' = [context EXCEPT ![current] = ContextOf(frame)]
          /\ current' = t /\ frame' = context_switch(frame, context'[t], Ring[t])
      BY <2>1, <1>2 DEF irq_handler
    <3>2. \A r \in Registers : ContextOf(frame)[r] = own[current][r]
      <4>1. \A i \in 1 .. 15 \cup 18 .. 22 : ContextOf(frame)[context_t[i]] = Restored(frame)[context_t[i]]
        <5> TAKE i \in 1 .. 15 \cup 18 .. 22
        <5>1. i \in 1 .. 22
          OBVIOUS
        <5>2. ContextOf(frame)[context_t[i]] = frame[i]
          BY <5>1, ContextWord
        <5> QED BY <5>2, RestoredWord
      <4> QED BY <4>1, <1>1, RegisterPlaces
    <3>3. \A u \in CpuThreads : \A r \in Registers : context'[u][r] = own[u][r]
      BY <3>1, <3>2 DEF CpuInv, ThreadsSound, AwayKept
    <3>4. ThreadsSound' /\ AwayKept'
      BY <3>1, <3>3, <1>1 DEF CpuInv, ThreadsSound, AwayKept, Own
    <3>5. Own(t, own[t])
      BY DEF CpuInv, ThreadsSound
    <3>6. DOMAIN frame' = 1 .. 22 /\ Restored(frame') = own[t]
      <4> DEFINE c == context'[t]
      <4>1. \A r \in Registers : c[r] = own[t][r]
        BY <3>3
      <4>2. frame' = context_switch(frame, c, Ring[t])
        BY <3>1
      <4> HIDE DEF c
      <4> QED BY <4>1, <4>2, <3>5, <1>1, SwitchRestores
    <3> QED BY <3>1, <3>4, <3>6
  <2>2. CASE frame[16] - 32 # 0
    <3>1. UNCHANGED <<context, current, frame>>
      BY <2>2, <1>2 DEF irq_handler
    <3> QED BY <3>1, <1>1 DEF CpuInv, ThreadsSound, AwayKept, Own
  <2> QED BY <2>1, <2>2
<1>5. frame' # <<>>
  BY <1>4, NotEmpty
<1>6. FrameSound'
  <2>1. Restored(frame)' = Restored(frame')
    BY DEF Restored
  <2> QED BY <2>1, <1>1, <1>4, <1>5, ContextWords DEF FrameSound
<1>7. ServiceSound' /\ SyscallSound' /\ RegistersKept'
  BY <1>1, <1>3, <1>5 DEF ServiceSound, SyscallSound, RegistersKept
<1> QED BY <1>4, <1>6, <1>7 DEF CpuInv

\* The end of the stub gives the thread its registers.
LEMMA ReturnStep ==
  ASSUME CpuInv, Return
  PROVE  CpuInv'
<1>1. /\ frame # <<>> /\ Restored(frame) = own[current] /\ sys = <<>> /\ inService = {}
      /\ frame' = <<>> /\ ~handled' /\ regs' = Restored(frame)
      /\ UNCHANGED <<own, context, current, sys, inService>>
  BY DEF Return, CpuInv, FrameSound, ServiceSound
<1>2. ThreadsSound' /\ AwayKept'
  BY <1>1 DEF CpuInv, ThreadsSound, AwayKept, Own
<1> QED BY <1>1, <1>2 DEF CpuInv, FrameSound, ServiceSound, SyscallSound, RegistersKept

-----------------------------------------------------------------------------
(* System calls.                                                            *)

\* syscall_entry saves all registers but rax and those the CPU saves itself.
LEMMA SavedWords ==
  /\ DOMAIN Saved = 1 .. 14
  /\ \A i, j \in 1 .. 14 : Saved[i] = Saved[j] => i = j
  /\ Registers = ToSet(Saved) \cup {"rax"} \cup ToSet(ByCpu)
  /\ \A r \in ToSet(ByCpu) \cup {"rax"} : r \notin ToSet(Saved)
<1>1. DOMAIN Saved = 1 .. 14 /\ \A i, j \in 1 .. 14 : Saved[i] = Saved[j] => i = j
  BY DEF Saved
<1>2. ToSet(Saved) = {"rbx", "rcx", "rdx", "rsi", "rdi", "rbp", "r8", "r9", "r10", "r11", "r12", "r13", "r14", "r15"}
  <2>1. ToSet(Saved) = { Saved[i] : i \in 1 .. 14 }
    BY <1>1 DEF ToSet
  <2> QED BY <2>1 DEF Saved
<1> QED BY <1>1, <1>2, RegisterNames

\* A system call puts the arguments in place and keeps what it must give back.
LEMMA SyscallStep ==
  ASSUME CpuInv, NEW n, syscall(n)
  PROVE  CpuInv'
<1> DEFINE user == Wrapped(regs, n)
           entry == Moved(Moved(user, AsideMoves), EntryMoves)
           got == [i \in 1 .. 7 |-> IF i = 7 THEN entry["r15"] ELSE entry[CRegisters[i]]]
           saved == [i \in DOMAIN Saved |-> user[Saved[i]]]
<1>1. /\ sys' = [num |-> n, user |-> user, saved |-> saved, got |-> got] /\ regs' = entry
      /\ frame = <<>> /\ sys = <<>> /\ stopped = NULL /\ ~handled /\ inService = {}
      /\ UNCHANGED <<own, context, current, frame, handled, inService, stopped>>
  BY DEF syscall, InThread, CpuInv, FrameSound, ServiceSound
<1>2. regs = own[current] /\ Own(current, regs)
  BY <1>1 DEF CpuInv, RegistersKept, ThreadsSound
<1>3. user = [x \in Registers |-> user[x]] /\ \A x \in ToSet(ByCpu) : user[x] = regs[x]
  BY WrappedWords
<1>4. Own(current, user)
  <2>1. {"cs", "ss", "rflags"} \subseteq ToSet(ByCpu)
    BY RegisterNames
  <2> HIDE DEF user
  <2> QED BY <2>1, <1>2, <1>3 DEF Own
<1>5. /\ entry["rdi"] = user["rax"] /\ entry["rsi"] = user["rdi"] /\ entry["rdx"] = user["rsi"]
      /\ entry["rcx"] = user["rdx"] /\ entry["r8"] = user["r10"] /\ entry["r9"] = user["r8"]
      /\ entry["r15"] = user["r9"] /\ \A x \in ToSet(ByCpu) : entry[x] = user[x]
  <2> HIDE DEF user
  <2> QED BY <1>3, EntryWords
<1>6. got = Arguments(n)
  <2>1. /\ user["rax"] = Arguments(n)[1] /\ user["rdi"] = Arguments(n)[2] /\ user["rsi"] = Arguments(n)[3]
        /\ user["rdx"] = Arguments(n)[4] /\ user["r10"] = Arguments(n)[5] /\ user["r8"] = Arguments(n)[6]
        /\ user["r9"] = Arguments(n)[7]
    BY WrappedWords
  <2> HIDE DEF user, entry
  <2>2. /\ got[1] = Arguments(n)[1] /\ got[2] = Arguments(n)[2] /\ got[3] = Arguments(n)[3]
        /\ got[4] = Arguments(n)[4] /\ got[5] = Arguments(n)[5] /\ got[6] = Arguments(n)[6]
        /\ got[7] = Arguments(n)[7]
    BY <2>1, <1>5 DEF CRegisters
  <2>3. \A i \in 1 .. 7 : i = 1 \/ i = 2 \/ i = 3 \/ i = 4 \/ i = 5 \/ i = 6 \/ i = 7
    OBVIOUS
  <2>4. \A i \in 1 .. 7 : got[i] = Arguments(n)[i]
    BY <2>2, <2>3
  <2>5. got = [i \in 1 .. 7 |-> got[i]] /\ Arguments(n) = [i \in 1 .. 7 |-> Arguments(n)[i]]
    BY DEF Arguments
  <2> HIDE DEF got
  <2> QED BY <2>4, <2>5
<1> HIDE DEF user, entry, got
<1>7. SyscallSound'
  <2>1. /\ sys'.user = user /\ sys'.num = n /\ sys'.got = got /\ sys'.saved = saved
    BY <1>1
  <2>3. Own(current', sys'.user)
    BY <2>1, <1>1, <1>4
  <2>4. Own(current, sys.user)'
    BY <2>3 DEF Own, Computed
  <2>5. \A i \in DOMAIN Saved : sys'.saved[i] = sys'.user[Saved[i]]
    BY <2>1
  <2>6. \A r \in ToSet(ByCpu) : regs'[r] = sys'.user[r]
    BY <2>1, <1>1, <1>5
  <2>7. sys'.got = Arguments(sys'.num)
    BY <2>1, <1>6
  <2> QED BY <1>1, <2>4, <2>5, <2>6, <2>7 DEF SyscallSound, Arguments
<1>8. ThreadsSound' /\ AwayKept' /\ FrameSound' /\ ServiceSound'
  BY <1>1 DEF CpuInv, ThreadsSound, AwayKept, Own, FrameSound, ServiceSound
<1>9. RegistersKept'
  <2>1. DOMAIN sys' # {}
    BY <1>1
  <2>2. DOMAIN <<>> = {}
    OBVIOUS
  <2>3. sys' # <<>>
    BY <2>1, <2>2
  <2> QED BY <2>3 DEF RegistersKept
<1> QED BY <1>7, <1>8, <1>9 DEF CpuInv

\* Its return changes rax only, whatever the handler did to the registers.
LEMMA SyscallReturnStep ==
  ASSUME CpuInv, SyscallReturn
  PROVE  CpuInv'
<1>1. /\ sys # <<>> /\ sys' = <<>> /\ frame = <<>> /\ stopped = NULL /\ current \in CpuThreads
      /\ own' = [own EXCEPT ![current] = [sys.user EXCEPT !["rax"] = Result]]
      /\ UNCHANGED <<context, current, frame, handled, inService, stopped>>
  BY DEF SyscallReturn, CpuInv, SyscallSound, ThreadsSound
<1>2. /\ Own(current, sys.user) /\ \A i \in 1 .. 14 : sys.saved[i] = sys.user[Saved[i]]
      /\ \A r \in ToSet(ByCpu) : regs[r] = sys.user[r]
  BY <1>1, SavedWords DEF CpuInv, SyscallSound
<1> DEFINE o == [sys.user EXCEPT !["rax"] = Result]
<1>3. /\ o = [r \in Registers |-> o[r]] /\ o["rax"] = Result
      /\ \A r \in Registers \ {"rax"} : o[r] = sys.user[r]
  <2>1. sys.user = [r \in Registers |-> sys.user[r]] /\ "rax" \in Registers
    BY <1>2, RegisterNames DEF Own
  <2> QED BY <2>1
<1>4. own'[current] = o /\ \A t \in CpuThreads \ {current} : own'[t] = own[t]
  BY <1>1 DEF CpuInv, ThreadsSound
<1> HIDE DEF o
<1>5. Own(current, o)
  <2>1. {"cs", "ss", "rflags"} \subseteq Registers \ {"rax"}
    BY RegisterNames
  <2> QED BY <1>2, <1>3, <2>1 DEF Own
<1>6. regs' = o
  <2>1. regs' = [r \in Registers |-> regs'[r]]
    BY DEF SyscallReturn
  <2>2. ASSUME NEW i \in 1 .. 14 PROVE regs'[Saved[i]] = o[Saved[i]]
    <3>1. (CHOOSE j \in DOMAIN Saved : Saved[j] = Saved[i]) = i
      BY SavedWords, PlaceOf
    <3>2. Saved[i] \in ToSet(Saved) /\ Saved[i] \in Registers /\ Saved[i] # "rax"
      BY SavedWords DEF ToSet
    <3>3. regs'[Saved[i]] = sys.saved[i]
      BY <3>1, <3>2 DEF SyscallReturn
    <3> QED BY <3>2, <3>3, <1>2, <1>3
  <2>3. regs'["rax"] = o["rax"]
    <3>1. "rax" \in Registers /\ "rax" \notin ToSet(Saved)
      BY SavedWords
    <3> QED BY <3>1, <1>3 DEF SyscallReturn
  <2>4. ASSUME NEW r \in ToSet(ByCpu) PROVE regs'[r] = o[r]
    <3>1. r \in Registers /\ r \notin ToSet(Saved) /\ r \in {"rip", "cs", "rflags", "rsp", "ss"}
      BY SavedWords, RegisterNames
    <3>2. regs'[r] = regs[r]
      BY <3>1 DEF SyscallReturn
    <3> QED BY <3>1, <3>2, <1>2, <1>3
  <2>5. \A r \in Registers : regs'[r] = o[r]
    BY <2>2, <2>3, <2>4, SavedWords DEF ToSet
  <2> QED BY <2>1, <2>5, <1>3
<1>7. ThreadsSound'
  <2>1. \A t \in CpuThreads : Own(t, own'[t])
    BY <1>4, <1>5 DEF CpuInv, ThreadsSound
  <2>2. \A t \in CpuThreads : Own(t, own[t])'
    BY <2>1 DEF Own
  <2>3. own' = [t \in CpuThreads |-> own'[t]]
    BY <1>1 DEF CpuInv, ThreadsSound
  <2> QED BY <2>2, <2>3, <1>1 DEF CpuInv, ThreadsSound
<1>8. AwayKept' /\ FrameSound' /\ ServiceSound' /\ SyscallSound' /\ RegistersKept'
  BY <1>1, <1>4, <1>6 DEF CpuInv, AwayKept, FrameSound, ServiceSound, SyscallSound, RegistersKept
<1> QED BY <1>7, <1>8 DEF CpuInv

\* The thread on the CPU computes with its own registers.
LEMMA ComputeStep ==
  ASSUME CpuInv, Compute
  PROVE  CpuInv'
<1>1. /\ frame = <<>> /\ sys = <<>> /\ current \in CpuThreads /\ Own(current, Computed(current, 1))
      /\ own' = [own EXCEPT ![current] = regs'] /\ regs' = Computed(current, 1)
      /\ UNCHANGED <<context, current, frame, handled, sys, inService, stopped>>
  BY ComputedOwn DEF Compute, InThread, CpuInv, ThreadsSound
<1>2. own'[current] = regs' /\ \A t \in CpuThreads \ {current} : own'[t] = own[t]
  BY <1>1 DEF CpuInv, ThreadsSound
<1>3. ThreadsSound'
  <2>1. \A t \in CpuThreads : Own(t, own'[t])
    BY <1>1, <1>2 DEF CpuInv, ThreadsSound
  <2>2. \A t \in CpuThreads : Own(t, own[t])'
    BY <2>1 DEF Own
  <2>3. own' = [t \in CpuThreads |-> own'[t]]
    BY <1>1 DEF CpuInv, ThreadsSound
  <2> QED BY <2>2, <2>3, <1>1 DEF CpuInv, ThreadsSound
<1>4. AwayKept' /\ FrameSound' /\ ServiceSound' /\ SyscallSound' /\ RegistersKept'
  BY <1>1, <1>2 DEF CpuInv, AwayKept, FrameSound, ServiceSound, SyscallSound, RegistersKept
<1> QED BY <1>3, <1>4 DEF CpuInv

\* The other steps change lines, masks and whether the kernel stopped only.
LEMMA CpuUnchanged ==
  ASSUME CpuInv, UNCHANGED <<regs, own, context, current, frame, handled, sys, inService>>,
         frame # <<>> \/ sys # <<>> => UNCHANGED stopped
  PROVE  CpuInv'
<1>1. ThreadsSound' /\ AwayKept'
  BY DEF CpuInv, ThreadsSound, AwayKept, Own
<1>2. FrameSound' /\ ServiceSound' /\ SyscallSound' /\ RegistersKept'
  BY DEF CpuInv, FrameSound, ServiceSound, SyscallSound, RegistersKept, Own
<1> QED BY <1>1, <1>2 DEF CpuInv

\* Every step keeps the invariant.
LEMMA CpuStep == CpuInv /\ [CpuNext]_cpuVars => CpuInv'
<1> SUFFICES ASSUME CpuInv, [CpuNext]_cpuVars PROVE CpuInv'
  OBVIOUS
<1>1. CASE UNCHANGED cpuVars
  BY <1>1, CpuUnchanged DEF cpuVars
<1>2. CASE Compute
  BY <1>2, ComputeStep
<1>3. ASSUME NEW i \in Lines, Raise(i) \/ pic_mask_irq(i) \/ pic_unmask_irq(i) PROVE CpuInv'
  BY <1>3, CpuUnchanged DEF Raise, pic_mask_irq, pic_unmask_irq
<1>4. ASSUME NEW i \in Lines, Deliver(i) PROVE CpuInv'
  BY <1>4, DeliverStep
<1>5. CASE pic_mask_all
  BY <1>5, CpuUnchanged DEF pic_mask_all
<1>6. CASE Yield
  BY <1>6, YieldStep
<1>7. CASE Return
  BY <1>7, ReturnStep
<1>8. CASE SyscallReturn
  BY <1>8, SyscallReturnStep
<1>9. ASSUME NEW t \in CpuThreads, irq_handler(t) PROVE CpuInv'
  BY <1>9, HandlerStep
<1>10. ASSUME NEW v \in Exceptions, isr_handler(v) PROVE CpuInv'
  BY <1>10, CpuUnchanged DEF isr_handler, InThread
<1>11. ASSUME NEW n \in Calls, syscall(n) PROVE CpuInv'
  BY <1>11, SyscallStep
<1> QED BY <1>1, <1>2, <1>3, <1>4, <1>5, <1>6, <1>7, <1>8, <1>9, <1>10, <1>11 DEF CpuNext

-----------------------------------------------------------------------------
(* The properties.                                                          *)

\* The invariant of the interrupts and system calls.
LEMMA CpuInvariance == CpuSpec => []CpuInv
BY CpuStart, CpuStep, PTL DEF CpuSpec

\* Whatever interrupts (isr.asm), switches (context_switch.asm) and system calls
\* (syscall.asm) came in between, a thread goes on with its own registers, for any
\* threads, rings and lines.
THEOREM RegistersKeptHolds == CpuSpec => []RegistersKept
<1>1. CpuInv => RegistersKept
  BY DEF CpuInv
<1> QED BY <1>1, CpuInvariance, PTL

\* irq_handler acknowledges every interrupt at every controller that waits for it
\* (pic_send_eoi), so none is in service while a thread runs.
THEOREM NothingInServiceHolds == CpuSpec => []NothingInService
<1>1. CpuInv => NothingInService
  BY DEF CpuInv, ServiceSound, NothingInService
<1> QED BY <1>1, CpuInvariance, PTL

\* syscall_handler gets the number and the six arguments in order, through the
\* moves of syscall and syscall_entry.
THEOREM SyscallArgumentsHold == CpuSpec => []SyscallArguments
<1>1. CpuInv => SyscallArguments
  BY DEF CpuInv, SyscallSound, SyscallArguments
<1> QED BY <1>1, CpuInvariance, PTL

\* isr_handler gets the number of the exception that struck, its error code and the
\* registers of the thread, for all exceptions but alignment checks, whose stub
\* disagrees with the CPU about the error code and which nobody enables.
THEOREM ContextExactHolds == 17 \notin Exceptions => (CpuSpec => []ContextExact)
<1> SUFFICES ASSUME 17 \notin Exceptions PROVE CpuSpec => []ContextExact
  OBVIOUS
<1>1. CpuInit => ContextExact
  BY DEF CpuInit, ContextExact
<1>2. CpuInv /\ ContextExact /\ [CpuNext]_cpuVars => ContextExact'
  <2> SUFFICES ASSUME CpuInv, ContextExact, [CpuNext]_cpuVars PROVE ContextExact'
    OBVIOUS
  <2>1. ASSUME NEW v \in Exceptions, isr_handler(v) PROVE ContextExact'
    <3> DEFINE c == ContextOf(FrameOf(v))
    <3>1. v # 17 /\ UNCHANGED <<regs, current>> /\ regs = own[current] /\ Own(current, regs)
          /\ stopped' = c
          /\ current \in CpuThreads
      BY <2>1 DEF isr_handler, InThread, CpuInv, RegistersKept, ThreadsSound
    <3>2. \A i \in 1 .. 22 : c[context_t[i]] = FrameOf(v)[i]
      BY ContextWord
    <3> HIDE DEF c
    <3>3. c["int_no"] = v /\ c["err_code"] = IF HasErrorCode(v) THEN ErrorCode ELSE 0
      <4>1. c[context_t[16]] = FrameOf(v)[16] /\ c[context_t[17]] = FrameOf(v)[17]
        BY <3>2
      <4> QED BY <4>1, <3>1, FrameWords, ContextWords
    <3>4. \A r \in Registers : c[r] = regs[r]
      <4>1. \A i \in 1 .. 15 \cup 18 .. 22 : c[context_t[i]] = regs[context_t[i]]
        <5> TAKE i \in 1 .. 15 \cup 18 .. 22
        <5>1. i \in 1 .. 22
          OBVIOUS
        <5> QED BY <5>1, <3>1, <3>2, FrameWords
      <4> QED BY <4>1, RegisterPlaces
    <3>7. regs["cs"] % 4 = Ring[current]
      <4>1. regs["cs"] = IF Ring[current] = 3 THEN 27 ELSE 8
        BY <3>1, ComputedOwn DEF Own, USER_CODE64, KERNEL_CODE64
      <4>2. Ring[current] \in {0, 3}
        BY <3>1, CpuAssumption
      <4> QED BY <4>1, <4>2
    <3>8. c["cs"] = regs["cs"]
      BY <3>4, RegisterNames
    <3> QED BY <3>1, <3>3, <3>4, <3>7, <3>8 DEF ContextExact, HasErrorCode
  <2>2. CASE Return
    BY <2>2 DEF Return, ContextExact
  <2>3. ASSUME stopped' = NULL PROVE ContextExact'
    BY <2>3 DEF ContextExact
  <2>4. ASSUME NEW t \in CpuThreads, irq_handler(t) PROVE stopped' = NULL
    BY <2>4 DEF irq_handler, CpuInv, FrameSound
  <2>5. ASSUME SyscallReturn PROVE stopped' = NULL
    BY <2>5 DEF SyscallReturn, CpuInv, SyscallSound
  <2>6. ASSUME NEW i \in Lines, Raise(i) \/ pic_mask_irq(i) \/ pic_unmask_irq(i) \/ Deliver(i)
        PROVE  stopped' = NULL
    BY <2>6 DEF Raise, pic_mask_irq, pic_unmask_irq, Deliver, InThread
  <2>7. ASSUME Compute \/ Yield \/ pic_mask_all PROVE stopped' = NULL
    BY <2>7 DEF Compute, Yield, pic_mask_all, InThread
  <2>8. ASSUME NEW n \in Calls, syscall(n) PROVE stopped' = NULL
    BY <2>8 DEF syscall, InThread
  <2>9. CASE UNCHANGED cpuVars
    BY <2>9 DEF cpuVars, ContextExact
  <2> QED BY <2>1, <2>2, <2>3, <2>4, <2>5, <2>6, <2>7, <2>8, <2>9 DEF CpuNext
<1> QED BY <1>1, <1>2, CpuInvariance, PTL DEF CpuSpec

-----------------------------------------------------------------------------
(* Arithmetic.                                                              *)

\* What % and \div come to.
LEMMA Division ==
  ASSUME NEW a \in Int, NEW n \in Nat \ {0}
  PROVE  /\ a % n \in 0 .. n - 1 /\ a \div n \in Int
         /\ a = n * (a \div n) + (a % n)
BY SMT

\* A number that is 0 .. n - 1 away from a multiple of n has that remainder.
LEMMA Remainder ==
  ASSUME NEW n \in Nat \ {0}, NEW a \in Int, NEW k \in Int, NEW r \in 0 .. n - 1,
         a = n * k + r
  PROVE  a % n = r
<1> DEFINE q == a \div n
           m == a % n
<1>1. m \in 0 .. n - 1 /\ q \in Int /\ a = n * q + m
  BY Division
<1> HIDE DEF q, m
<1>2. n * (k - q) = m - r
  BY <1>1
<1>3. CASE k - q >= 1
  <2>1. n * (k - q) >= n
    BY <1>1, <1>3
  <2> QED
    BY <1>1, <1>2, <2>1
<1>4. CASE k - q \leq -1
  <2>1. n * (k - q) \leq -n
    BY <1>1, <1>4
  <2> QED
    BY <1>1, <1>2, <2>1
<1>5. CASE k = q
  BY <1>1, <1>5 DEF m
<1> QED
  BY <1>1, <1>3, <1>4, <1>5

\* The high bytes of x, as a number.
LEMMA HighByte ==
  ASSUME NEW b \in Nat \ {0}, NEW x \in Nat, NEW y \in Nat
  PROVE  /\ x \div b \in Nat /\ y \div b \in Nat
         /\ b * (x \div b) \in Int /\ b * (y \div b) \in Int
         /\ b * (x \div b) \leq x
         /\ y = x + 1 => b * (y \div b) >= b * (x \div b)
         /\ y = 0 => b * (y \div b) = 0
<1> DEFINE p == x \div b
           q == y \div b
           r == x % b
           s == y % b
<1>1. p \in Nat /\ q \in Nat /\ (y = 0 => q = 0)
  BY SMT
<1>2. r \in 0 .. b - 1 /\ s \in 0 .. b - 1 /\ x = b * p + r /\ y = b * q + s
  BY Division
<1> HIDE DEF p, q, r, s
<1>3. b * p \in Int /\ b * q \in Int /\ b * p \leq x /\ (y = 0 => b * q = 0)
  BY <1>1, <1>2
<1>4. ASSUME y = x + 1 PROVE b * q >= b * p
  <2>1. b * (q - p) = r + 1 - s
    BY <1>1, <1>2, <1>4
  <2>2. ASSUME q - p \leq -1 PROVE FALSE
    <3>1. b * (q - p) \leq -b
      BY <1>1, <2>2
    <3> QED
      BY <1>2, <2>1, <3>1
  <2>3. q >= p
    BY <1>1, <2>2
  <2> QED
    BY <1>1, <2>3
<1> QED
  BY <1>1, <1>3, <1>4 DEF p, q

\* A rounded quotient is off by at most half of the divisor.
LEMMA Rounding ==
  ASSUME NEW d \in Nat, NEW f \in Nat \ {0}
  PROVE  LET q == d \div f + (IF d % f > f \div 2 THEN 1 ELSE 0)
         IN  q \in 0 .. d \div f + 1 /\ 2 * (f * q - d) \in -f .. f
<1> DEFINE a == d \div f
           r == d % f
           h == f \div 2
<1>1. r \in 0 .. f - 1 /\ a \in Nat /\ d = f * a + r
  <2>1. r \in 0 .. f - 1 /\ a \in Int /\ d = f * a + r
    BY Division
  <2>2. a >= 0
    BY SMT
  <2> QED
    BY <2>1, <2>2
<1>2. h \in Nat /\ (f = 2 * h \/ f = 2 * h + 1)
  BY SMT
<1> HIDE DEF a, r, h
<1>3. CASE r > h
  <2>1. f * (a + 1) - d = f - r
    BY <1>1
  <2>2. 2 * (f - r) \in -f .. f
    BY <1>1, <1>2, <1>3
  <2> QED
    BY <1>1, <1>3, <2>1, <2>2 DEF a, r, h
<1>4. CASE ~(r > h)
  <2>1. f * (a + 0) - d = -r
    BY <1>1
  <2>2. 2 * (-r) \in -f .. f
    BY <1>1, <1>2, <1>4
  <2> QED
    BY <1>1, <1>4, <2>1, <2>2 DEF a, r, h
<1> QED
  BY <1>3, <1>4

\* The bytes copied so far.
LEMMA CopyBytes ==
  ASSUME NEW c \in Seq(Nat), Len(c) \leq 6
  PROVE  Len(c) \in 0 .. 6 /\ \A i \in 1 .. Len(c) : c[i] \in Nat
<1>1. Len(c) \in Nat /\ \A i \in 1 .. Len(c) : c[i] \in Nat
  OBVIOUS
<1>2. \A n \in Nat : n \leq 6 => n \in 0 .. 6
  OBVIOUS
<1> QED
  BY <1>1, <1>2, Zenon

-----------------------------------------------------------------------------
(* The fields.                                                              *)

\* The weights of the fields, each the one before times its limit.
LEMMA Weights ==
  ASSUME ClockConstants
  PROVE  /\ Weight[1] = 1
         /\ \A i \in 1 .. 5 : Weight[i] \in Nat \ {0}
         /\ \A i \in 1 .. 4 : Weight[i + 1] = Weight[i] * Limits[i]
<1> DEFINE a == Limits[1]
           b == Limits[2]
           c == Limits[3]
           d == Limits[4]
<1>1. a \in Nat \ {0} /\ b \in Nat \ {0} /\ c \in Nat \ {0} /\ d \in Nat \ {0}
  BY DEF ClockConstants
<1>2. /\ Weight[1] = 1 /\ Weight[2] = a /\ Weight[3] = a * b
      /\ Weight[4] = a * b * c /\ Weight[5] = a * b * c * d
  BY DEF Weight
<1> HIDE DEF a, b, c, d
<1>3. a * b \in Nat \ {0}
  BY <1>1
<1>4. (a * b) * c \in Nat \ {0}
  BY <1>1, <1>3
<1>5. ((a * b) * c) * d \in Nat \ {0}
  BY <1>1, <1>4
<1>6. \A i \in 1 .. 5 : Weight[i] \in Nat \ {0}
  BY <1>1, <1>2, <1>3, <1>4, <1>5
<1>7. /\ Weight[2] = Weight[1] * a /\ Weight[3] = Weight[2] * b
      /\ Weight[4] = Weight[3] * c /\ Weight[5] = Weight[4] * d
  BY <1>1, <1>2
<1>8. \A i \in 1 .. 4 : Weight[i + 1] = Weight[i] * Limits[i]
  <2> TAKE i \in 1 .. 4
  <2>1. i = 1 \/ i = 2 \/ i = 3 \/ i = 4
    OBVIOUS
  <2> QED
    BY <1>7, <2>1 DEF a, b, c, d
<1> QED
  BY <1>2, <1>6, <1>8

\* The fields from k on, as a number of ticks.
From(t, k) ==
  (IF k \leq 1 THEN Weight[1] * t[1] ELSE 0) + (IF k \leq 2 THEN Weight[2] * t[2] ELSE 0)
  + (IF k \leq 3 THEN Weight[3] * t[3] ELSE 0) + (IF k \leq 4 THEN Weight[4] * t[4] ELSE 0)
  + Weight[5] * t[5]

Times == { t \in [1 .. 5 -> Nat] : \A i \in 1 .. 4 : t[i] < Limits[i] }

\* The fields below k have reached their limits.
Full(t, k) == \A j \in 1 .. k - 1 : ~Below(t, j)

\* Each field after a tick.
LEMMA AdvancedField ==
  ASSUME ClockConstants, NEW t \in Times, NEW k \in 1 .. 5
  PROVE  /\ ~Full(t, k) => Advanced(t)[k] = t[k]
         /\ Full(t, k) /\ (k = 5 \/ Below(t, k)) => Advanced(t)[k] = t[k] + 1
         /\ Full(t, k) /\ k < 5 /\ ~Below(t, k) => Advanced(t)[k] = 0 /\ t[k] = Limits[k] - 1
<1> DEFINE carry == { i \in 1 .. 4 : \A j \in 1 .. i : ~Below(t, j) }
<1>1. Advanced(t)[k] = IF k \in carry THEN 0
                       ELSE IF \A j \in 1 .. k - 1 : j \in carry THEN t[k] + 1 ELSE t[k]
  BY DEF Advanced
<1>2. k \in carry <=> k < 5 /\ Full(t, k) /\ ~Below(t, k)
  BY DEF Full
<1>3. (\A j \in 1 .. k - 1 : j \in carry) <=> Full(t, k)
  BY DEF Full
<1>4. k < 5 /\ ~Below(t, k) => t[k] = Limits[k] - 1
  BY DEF Below, Times, ClockConstants
<1> HIDE DEF carry
<1> QED
  BY <1>1, <1>2, <1>3, <1>4

\* The fields from k on advance by one unit of k when all before are full, and
\* stay the same otherwise.
LEMMA Carry ==
  ASSUME ClockConstants, NEW t \in Times
  PROVE  /\ Advanced(t) \in Times
         /\ \A k \in 1 .. 5 :
              From(Advanced(t), k) = From(t, k) + (IF Full(t, k) THEN Weight[k] ELSE 0)
<1> DEFINE u == Advanced(t)
           w(i) == Weight[i]
           f(k) == From(u, k) = From(t, k) + (IF Full(t, k) THEN Weight[k] ELSE 0)
<1>1. /\ \A i \in 1 .. 5 : Weight[i] \in Nat \ {0}
      /\ \A i \in 1 .. 4 : Weight[i + 1] = Weight[i] * Limits[i]
  BY Weights
<1>2. \A k \in 1 .. 5 :
         /\ ~Full(t, k) => u[k] = t[k]
         /\ Full(t, k) /\ (k = 5 \/ Below(t, k)) => u[k] = t[k] + 1
         /\ Full(t, k) /\ k < 5 /\ ~Below(t, k) => u[k] = 0 /\ t[k] = Limits[k] - 1
  BY AdvancedField
<1>3. t \in [1 .. 5 -> Nat] /\ \A i \in 1 .. 4 : t[i] < Limits[i]
  BY DEF Times
<1>4. u \in [1 .. 5 -> Nat]
  <2>1. \A k \in 1 .. 5 : u[k] \in Nat
    BY <1>2, <1>3
  <2>2. u = [i \in 1 .. 5 |-> u[i]]
    BY DEF Advanced
  <2> HIDE DEF u
  <2> QED
    BY <2>1, <2>2
<1>5. \A i \in 1 .. 4 : u[i] < Limits[i]
  <2> TAKE i \in 1 .. 4
  <2>1. Limits[i] \in Nat \ {0} /\ t[i] \in Nat
    BY <1>3 DEF ClockConstants
  <2> QED
    BY <1>2, <1>3, <2>1 DEF Below
<1>6. u \in Times
  BY <1>4, <1>5 DEF Times
<1> HIDE DEF u
<1>7. \A k \in 1 .. 4 : From(u, k) = Weight[k] * u[k] + From(u, k + 1)
  <2> TAKE k \in 1 .. 4
  <2>1. \A i \in 1 .. 5 : Weight[i] * u[i] \in Nat
    BY <1>1, <1>4
  <2>2. k = 1 \/ k = 2 \/ k = 3 \/ k = 4
    OBVIOUS
  <2> QED
    BY <2>1, <2>2 DEF From
<1>8. \A k \in 1 .. 4 : From(t, k) = Weight[k] * t[k] + From(t, k + 1)
  <2> TAKE k \in 1 .. 4
  <2>1. \A i \in 1 .. 5 : Weight[i] * t[i] \in Nat
    BY <1>1, <1>3
  <2>2. k = 1 \/ k = 2 \/ k = 3 \/ k = 4
    OBVIOUS
  <2> QED
    BY <2>1, <2>2 DEF From
<1>9. \A k \in 1 .. 5 : From(u, k) \in Nat /\ From(t, k) \in Nat
  <2> TAKE k \in 1 .. 5
  <2>1. \A i \in 1 .. 5 : Weight[i] * t[i] \in Nat /\ Weight[i] * u[i] \in Nat
    BY <1>1, <1>3, <1>4
  <2> QED
    BY <2>1 DEF From
<1>10. f(5)
  <2>1. From(u, 5) = Weight[5] * u[5] /\ From(t, 5) = Weight[5] * t[5]
    <3>1. Weight[5] * u[5] \in Nat /\ Weight[5] * t[5] \in Nat
      BY <1>1, <1>3, <1>4
    <3> QED
      BY <3>1 DEF From
  <2>2. Weight[5] \in Nat /\ t[5] \in Nat /\ u[5] = IF Full(t, 5) THEN t[5] + 1 ELSE t[5]
    BY <1>1, <1>2, <1>3
  <2> QED
    BY <2>1, <2>2
<1>11. ASSUME NEW k \in 1 .. 4, f(k + 1)
       PROVE  f(k)
  <2>1. Full(t, k + 1) <=> Full(t, k) /\ ~Below(t, k)
    BY DEF Full
  <2>2. /\ Weight[k] \in Nat /\ Weight[k + 1] = Weight[k] * Limits[k] /\ Limits[k] \in Nat
        /\ t[k] \in Nat /\ u[k] \in Nat
        /\ From(u, k + 1) \in Nat /\ From(t, k + 1) \in Nat
    BY <1>1, <1>3, <1>4, <1>9 DEF ClockConstants
  <2>3. CASE ~Full(t, k)
    BY <1>2, <1>7, <1>8, <1>11, <2>1, <2>2, <2>3
  <2>4. CASE Full(t, k) /\ Below(t, k)
    <3>1. From(u, k + 1) = From(t, k + 1) /\ u[k] = t[k] + 1
      BY <1>2, <1>11, <2>1, <2>2, <2>4
    <3>2. From(u, k) = Weight[k] * (t[k] + 1) + From(t, k + 1) /\ From(t, k) = Weight[k] * t[k] + From(t, k + 1)
      BY <1>7, <1>8, <3>1
    <3>3. Weight[k] * (t[k] + 1) = Weight[k] * t[k] + Weight[k] /\ Weight[k] * t[k] \in Nat
      BY <2>2
    <3> QED
      BY <2>2, <2>4, <3>2, <3>3
  <2>5. CASE Full(t, k) /\ ~Below(t, k)
    <3>1. From(u, k + 1) = From(t, k + 1) + Weight[k] * Limits[k] /\ u[k] = 0 /\ t[k] = Limits[k] - 1
      BY <1>2, <1>11, <2>1, <2>2, <2>5
    <3>2. /\ From(u, k) = Weight[k] * 0 + From(t, k + 1) + Weight[k] * Limits[k]
          /\ From(t, k) = Weight[k] * (Limits[k] - 1) + From(t, k + 1)
      BY <1>7, <1>8, <2>2, <3>1
    <3> QED
      BY <2>2, <2>5, <3>2
  <2> QED
    BY <2>3, <2>4, <2>5
<1>12. f(4) /\ f(3) /\ f(2) /\ f(1)
  <2>1. f(4)
    BY <1>10, <1>11
  <2>2. f(3)
    BY <2>1, <1>11
  <2>3. f(2)
    BY <2>2, <1>11
  <2>4. f(1)
    BY <2>3, <1>11
  <2> QED
    BY <2>1, <2>2, <2>3, <2>4
<1>13. \A k \in 1 .. 5 : f(k)
  <2> TAKE k \in 1 .. 5
  <2>1. k = 1 \/ k = 2 \/ k = 3 \/ k = 4 \/ k = 5
    OBVIOUS
  <2> HIDE DEF f
  <2> QED
    BY <1>10, <1>12, <2>1
<1> QED
  BY <1>6, <1>13 DEF u

-----------------------------------------------------------------------------
(* What the bytes copied and the rest come to.                              *)

\* The terms of a sum of fields are natural numbers.
LEMMA Products ==
  ASSUME ClockConstants, NEW t \in [1 .. 5 -> Nat]
  PROVE  /\ \A i \in 1 .. 5 : Weight[i] \in Nat /\ t[i] \in Nat /\ Weight[i] * t[i] \in Nat
         /\ \A k \in 1 .. 5 : From(t, k) \in Nat
<1>1. \A i \in 1 .. 5 : Weight[i] \in Nat /\ t[i] \in Nat
  BY Weights
<1>2. \A i \in 1 .. 5 : Weight[i] * t[i] \in Nat
  BY <1>1
<1>3. \A k \in 1 .. 5 : From(t, k) \in Nat
  BY <1>2 DEF From
<1> QED
  BY <1>1, <1>2, <1>3

\* The ticks of a time are the sum of all its fields.
LEMMA TicksFrom ==
  ASSUME ClockConstants, NEW t \in [1 .. 5 -> Nat]
  PROVE  Ticks(t) = From(t, 1)
<1>1. Weight[1] = 1
  BY Weights
<1>2. \A i \in 1 .. 5 : Weight[i] \in Nat /\ t[i] \in Nat /\ Weight[i] * t[i] \in Nat
  BY Products
<1>3. Weight[1] * t[1] = t[1]
  BY <1>1, <1>2
<1> QED
  BY <1>2, <1>3 DEF Ticks, From

\* The copy completed, field by field: what is copied, and what is not.
LEMMA HybridFields ==
  ASSUME ClockConstants, NEW c, NEW n \in 0 .. 6, \A i \in 1 .. n : c[i] \in Nat, NEW t \in [1 .. 5 -> Nat]
  PROVE  Hybrid(c, n, t) =
           (IF n >= 1 THEN c[1] ELSE t[1] % Byte)
           + Byte * (IF n >= 2 THEN c[2] ELSE t[1] \div Byte)
           + Weight[2] * (IF n >= 3 THEN c[3] ELSE t[2])
           + Weight[3] * (IF n >= 4 THEN c[4] ELSE t[3])
           + Weight[4] * (IF n >= 5 THEN c[5] ELSE t[4])
           + Weight[5] * (IF n >= 6 THEN c[6] ELSE t[5])
BY DEF Hybrid, TimeBytes

\* The milliseconds without their low byte, and what follows them, never fall.
LEMMA HighBytesTick ==
  ASSUME ClockConstants, NEW t \in Times
  PROVE  LET u == Advanced(t) IN
         /\ u \in Times /\ t \in [1 .. 5 -> Nat] /\ u \in [1 .. 5 -> Nat]
         /\ \A k \in 1 .. 5 : From(u, k) \in Nat /\ From(t, k) \in Nat /\ From(u, k) >= From(t, k)
         /\ Byte * (u[1] \div Byte) + From(u, 2) >= Byte * (t[1] \div Byte) + From(t, 2)
<1> DEFINE u == Advanced(t)
<1>1. u \in Times /\ t \in [1 .. 5 -> Nat] /\ u \in [1 .. 5 -> Nat]
  BY Carry DEF Times
<1>2. \A k \in 1 .. 5 : From(u, k) = From(t, k) + (IF Full(t, k) THEN Weight[k] ELSE 0)
  BY Carry
<1>3. /\ \A k \in 1 .. 5 : From(u, k) \in Nat /\ From(t, k) \in Nat
      /\ \A k \in 1 .. 5 : Weight[k] \in Nat
  BY <1>1, Products, Weights
<1>4. Weight[2] = Limits[1]
  <2>1. Weight[1 + 1] = Weight[1] * Limits[1] /\ Weight[1] = 1 /\ Limits[1] \in Nat
    BY Weights DEF ClockConstants
  <2> QED
    BY <2>1
<1>5. /\ Full(t, 1)
      /\ Full(t, 2) <=> ~Below(t, 1)
      /\ Below(t, 1) => u[1] = t[1] + 1
      /\ ~Below(t, 1) => u[1] = 0 /\ t[1] = Limits[1] - 1
  <2>1. Full(t, 1) /\ (Full(t, 2) <=> ~Below(t, 1))
    BY DEF Full
  <2> QED
    BY <2>1, AdvancedField
<1>6. Byte \in Nat \ {0} /\ t[1] \in Nat /\ u[1] \in Nat /\ Limits[1] \in Nat \ {0}
  BY <1>1 DEF ClockConstants
<1> HIDE DEF u
<1>7. PICK x \in Nat, y \in Nat : x = t[1] /\ y = u[1]
  BY <1>6
<1> DEFINE p == Byte * (x \div Byte)
           q == Byte * (y \div Byte)
<1>8. p \in Int /\ q \in Int /\ p \leq x /\ (y = x + 1 => q >= p) /\ (y = 0 => q = 0)
  BY <1>6, HighByte
<1> HIDE DEF p, q
<1>9. q + From(u, 2) >= p + From(t, 2)
  <2>1. From(u, 2) = From(t, 2) + (IF Full(t, 2) THEN Limits[1] ELSE 0) /\ From(u, 2) \in Nat /\ From(t, 2) \in Nat
    BY <1>2, <1>3, <1>4
  <2>2. CASE Below(t, 1)
    BY <1>5, <1>7, <1>8, <2>1, <2>2
  <2>3. CASE ~Below(t, 1)
    BY <1>5, <1>6, <1>7, <1>8, <2>1, <2>3
  <2> QED
    BY <2>2, <2>3
<1>10. Byte * (u[1] \div Byte) + From(u, 2) >= Byte * (t[1] \div Byte) + From(t, 2)
  BY <1>7, <1>9 DEF p, q
<1>11. \A k \in 1 .. 5 : From(u, k) >= From(t, k)
  BY <1>2, <1>3
<1> QED
  BY <1>1, <1>3, <1>10, <1>11 DEF u

\* What is copied, as a number, and what the rest of the time t adds to it.
Copied(c, n) ==
  (IF n >= 1 THEN c[1] ELSE 0) + (IF n >= 2 THEN Byte * c[2] ELSE 0)
  + (IF n >= 3 THEN Weight[2] * c[3] ELSE 0) + (IF n >= 4 THEN Weight[3] * c[4] ELSE 0)
  + (IF n >= 5 THEN Weight[4] * c[5] ELSE 0) + (IF n >= 6 THEN Weight[5] * c[6] ELSE 0)

Rest(n, t) ==
  IF n = 0 THEN From(t, 1) ELSE IF n = 1 THEN Byte * (t[1] \div Byte) + From(t, 2)
  ELSE IF n \leq 5 THEN From(t, n) ELSE 0

\* A hybrid is what was copied plus what is still to be copied.
LEMMA HybridSplit ==
  ASSUME ClockConstants, NEW c, NEW n \in 0 .. 6, \A i \in 1 .. n : c[i] \in Nat,
         NEW t \in [1 .. 5 -> Nat]
  PROVE  /\ Copied(c, n) \in Nat /\ Rest(n, t) \in Nat
         /\ Hybrid(c, n, t) = Copied(c, n) + Rest(n, t)
<1>1. PICK x \in Nat : x = t[1]
  OBVIOUS
<1>2. PICK l \in Nat, h \in Nat : l = x % Byte /\ h = Byte * (x \div Byte) /\ l + h = x
  <2>1. Byte \in Nat \ {0}
    BY DEF ClockConstants
  <2>2. x \in Int
    OBVIOUS
  <2>3. x % Byte \in 0 .. Byte - 1 /\ x = Byte * (x \div Byte) + (x % Byte)
    BY <2>1, <2>2, Division
  <2>4. x \div Byte \in Nat /\ Byte * (x \div Byte) \in Int
    BY <2>1, HighByte
  <2>5. Byte * (x \div Byte) \in Nat
    BY <2>1, <2>4
  <2> QED
    BY <2>1, <2>3, <2>5
<1>3. PICK a \in Nat, b \in Nat, d \in Nat, e \in Nat :
        a = Weight[2] * t[2] /\ b = Weight[3] * t[3] /\ d = Weight[4] * t[4] /\ e = Weight[5] * t[5]
  <2>1. \A i \in 1 .. 5 : Weight[i] * t[i] \in Nat
    BY Products
  <2>2. Weight[2] * t[2] \in Nat /\ Weight[3] * t[3] \in Nat /\ Weight[4] * t[4] \in Nat /\ Weight[5] * t[5] \in Nat
    BY <2>1
  <2> QED
    BY <2>2
<1>4. /\ From(t, 1) = x + a + b + d + e /\ From(t, 2) = a + b + d + e /\ From(t, 3) = b + d + e
      /\ From(t, 4) = d + e /\ From(t, 5) = e
  <2>1. Weight[1] * t[1] = x
    BY <1>1, Weights
  <2>2. \A k \in 1 .. 5 : From(t, k) =
          (IF k \leq 1 THEN x ELSE 0) + (IF k \leq 2 THEN a ELSE 0) + (IF k \leq 3 THEN b ELSE 0)
          + (IF k \leq 4 THEN d ELSE 0) + e
    BY <1>3, <2>1 DEF From
  <2> QED
    BY <2>2
<1>5. PICK f1 \in Nat, f2 \in Nat, f3 \in Nat, f4 \in Nat, f5 \in Nat, f6 \in Nat :
        /\ f1 = IF n >= 1 THEN c[1] ELSE 0
        /\ f2 = IF n >= 2 THEN Byte * c[2] ELSE 0
        /\ f3 = IF n >= 3 THEN Weight[2] * c[3] ELSE 0
        /\ f4 = IF n >= 4 THEN Weight[3] * c[4] ELSE 0
        /\ f5 = IF n >= 5 THEN Weight[4] * c[5] ELSE 0
        /\ f6 = IF n >= 6 THEN Weight[5] * c[6] ELSE 0
  <2>1. \A w, v \in Nat : w * v \in Nat
    OBVIOUS
  <2>2. Byte \in Nat /\ Weight[2] \in Nat /\ Weight[3] \in Nat /\ Weight[4] \in Nat /\ Weight[5] \in Nat
    BY Weights DEF ClockConstants
  <2>3. /\ n >= 1 => c[1] \in Nat
        /\ n >= 2 => Byte * c[2] \in Nat
        /\ n >= 3 => Weight[2] * c[3] \in Nat
        /\ n >= 4 => Weight[3] * c[4] \in Nat
        /\ n >= 5 => Weight[4] * c[5] \in Nat
        /\ n >= 6 => Weight[5] * c[6] \in Nat
    BY <2>1, <2>2
  <2>4. /\ (IF n >= 1 THEN c[1] ELSE 0) \in Nat /\ (IF n >= 2 THEN Byte * c[2] ELSE 0) \in Nat
        /\ (IF n >= 3 THEN Weight[2] * c[3] ELSE 0) \in Nat /\ (IF n >= 4 THEN Weight[3] * c[4] ELSE 0) \in Nat
        /\ (IF n >= 5 THEN Weight[4] * c[5] ELSE 0) \in Nat /\ (IF n >= 6 THEN Weight[5] * c[6] ELSE 0) \in Nat
    BY <2>3
  <2> QED
    BY <2>4, Zenon
<1>6. Copied(c, n) = f1 + f2 + f3 + f4 + f5 + f6
  BY <1>5 DEF Copied
<1>7. Hybrid(c, n, t) =
        (IF n >= 1 THEN f1 ELSE l) + (IF n >= 2 THEN f2 ELSE h) + (IF n >= 3 THEN f3 ELSE a)
        + (IF n >= 4 THEN f4 ELSE b) + (IF n >= 5 THEN f5 ELSE d) + (IF n >= 6 THEN f6 ELSE e)
  <2>1. Hybrid(c, n, t) =
           (IF n >= 1 THEN c[1] ELSE t[1] % Byte)
           + Byte * (IF n >= 2 THEN c[2] ELSE t[1] \div Byte)
           + Weight[2] * (IF n >= 3 THEN c[3] ELSE t[2])
           + Weight[3] * (IF n >= 4 THEN c[4] ELSE t[3])
           + Weight[4] * (IF n >= 5 THEN c[5] ELSE t[4])
           + Weight[5] * (IF n >= 6 THEN c[6] ELSE t[5])
    BY HybridFields
  <2>2. (IF n >= 1 THEN c[1] ELSE t[1] % Byte) = IF n >= 1 THEN f1 ELSE l
    BY <1>1, <1>2, <1>5
  <2>3. Byte * (IF n >= 2 THEN c[2] ELSE t[1] \div Byte) = IF n >= 2 THEN f2 ELSE h
    <3>1. t[1] = x
      BY <1>1
    <3>2. CASE n >= 2
      BY <1>5, <3>2
    <3>3. CASE ~(n >= 2)
      BY <1>2, <3>1, <3>3
    <3> QED
      BY <3>2, <3>3
  <2>4. Weight[2] * (IF n >= 3 THEN c[3] ELSE t[2]) = IF n >= 3 THEN f3 ELSE a
    BY <1>3, <1>5
  <2>5. Weight[3] * (IF n >= 4 THEN c[4] ELSE t[3]) = IF n >= 4 THEN f4 ELSE b
    BY <1>3, <1>5
  <2>6. Weight[4] * (IF n >= 5 THEN c[5] ELSE t[4]) = IF n >= 5 THEN f5 ELSE d
    BY <1>3, <1>5
  <2>7. Weight[5] * (IF n >= 6 THEN c[6] ELSE t[5]) = IF n >= 6 THEN f6 ELSE e
    BY <1>3, <1>5
  <2> QED
    BY <2>1, <2>2, <2>3, <2>4, <2>5, <2>6, <2>7
<1>8. /\ (n < 1 => f1 = 0) /\ (n < 2 => f2 = 0) /\ (n < 3 => f3 = 0)
      /\ (n < 4 => f4 = 0) /\ (n < 5 => f5 = 0) /\ (n < 6 => f6 = 0)
  BY <1>5
<1>9. Rest(n, t) = (IF n >= 1 THEN 0 ELSE l) + (IF n >= 2 THEN 0 ELSE h) + (IF n >= 3 THEN 0 ELSE a)
        + (IF n >= 4 THEN 0 ELSE b) + (IF n >= 5 THEN 0 ELSE d) + (IF n >= 6 THEN 0 ELSE e)
  <2>1. n = 0 \/ n = 1 \/ n = 2 \/ n = 3 \/ n = 4 \/ n = 5 \/ n = 6
    OBVIOUS
  <2>2. Byte * (t[1] \div Byte) = h /\ l + h = x
    BY <1>1, <1>2
  <2> QED
    BY <1>4, <2>1, <2>2 DEF Rest
<1>10. Copied(c, n) + Rest(n, t) = Hybrid(c, n, t) /\ Copied(c, n) \in Nat /\ Rest(n, t) \in Nat
  BY <1>6, <1>7, <1>8, <1>9
<1> QED
  BY <1>10

\* A tick never lowers the copy.
LEMMA HybridTick ==
  ASSUME ClockConstants, NEW c, NEW n \in 0 .. 6, \A i \in 1 .. n : c[i] \in Nat, NEW t \in Times
  PROVE  /\ Hybrid(c, n, t) \in Nat /\ Hybrid(c, n, Advanced(t)) \in Nat
         /\ Hybrid(c, n, Advanced(t)) >= Hybrid(c, n, t)
<1> DEFINE u == Advanced(t)
<1>1. /\ t \in [1 .. 5 -> Nat] /\ u \in [1 .. 5 -> Nat]
      /\ \A k \in 1 .. 5 : From(u, k) >= From(t, k)
      /\ Byte * (u[1] \div Byte) + From(u, 2) >= Byte * (t[1] \div Byte) + From(t, 2)
  BY HighBytesTick
<1> HIDE DEF u
<1>3. Rest(n, u) >= Rest(n, t)
  BY <1>1 DEF Rest
<1>4. /\ Copied(c, n) \in Nat /\ Rest(n, t) \in Nat /\ Rest(n, u) \in Nat
      /\ Hybrid(c, n, t) = Copied(c, n) + Rest(n, t) /\ Hybrid(c, n, u) = Copied(c, n) + Rest(n, u)
  BY <1>1, HybridSplit
<1> QED
  BY <1>3, <1>4 DEF u

-----------------------------------------------------------------------------
(* The invariant.                                                           *)

\* init_system_clock.
LEMMA ClockStart ==
  ASSUME ClockConstants, ClockInit
  PROVE  ClockInv
<1>1. ClockTypes
  BY DEF ClockInit, ClockTypes, ClockConstants, Modulus
<1>2. FieldsSound
  <2>1. /\ time \in [1 .. 5 -> Nat] /\ elapsed = 0
        /\ time[1] = 0 /\ time[2] = 0 /\ time[3] = 0 /\ time[4] = 0 /\ time[5] = 0
    BY DEF ClockInit
  <2>2. \A i \in 1 .. 5 : Weight[i] \in Nat
    BY Weights
  <2>3. \A w \in Nat : w * 0 = 0
    OBVIOUS
  <2>4. Ticks(time) = 0
    BY <2>1, <2>2, <2>3 DEF Ticks
  <2>5. \A i \in 1 .. 4 : time[i] = 0 /\ Limits[i] \in Nat \ {0}
    BY <2>1 DEF ClockConstants
  <2> QED
    BY <2>1, <2>4, <2>5 DEF FieldsSound
<1>3. CopySound /\ DeadlineSound
  BY DEF ClockInit, CopySound, DeadlineSound
<1> QED
  BY <1>1, <1>2, <1>3 DEF ClockInv

\* A tick: the fields carry, the copy does not fall behind, and the counter and
\* the ticks left move against each other.
LEMMA TimerStep ==
  ASSUME ClockConstants, ClockInv, timer_handler
  PROVE  ClockInv'
<1>1. /\ time \in Times /\ time' = Advanced(time) /\ time' \in Times /\ elapsed \in Nat /\ elapsed' = elapsed + 1
      /\ UNCHANGED <<copy, since, deadline>> /\ since \in 0 .. elapsed
  BY Carry DEF ClockInv, ClockTypes, FieldsSound, timer_handler, Times
<1>2. monotonic_ms \in 0 .. Modulus - 1 /\ Modulus \in Nat \ {0} /\ Half \in Nat \ {0} /\ left \in Int
  BY DEF ClockInv, ClockTypes, ClockConstants, Modulus
<1>3. monotonic_ms' = IF monotonic_ms = Modulus - 1 THEN 0 ELSE monotonic_ms + 1
  <2>1. monotonic_ms' = (monotonic_ms + 1) % Modulus
    BY DEF timer_handler
  <2>2. PICK m \in 0 .. Modulus - 1 : m = monotonic_ms
    BY <1>2
  <2>3. CASE m = Modulus - 1
    <3>1. (m + 1) % Modulus = 0
      <4>1. m + 1 = Modulus * 1 + 0
        BY <1>2, <2>3
      <4> QED
        BY <1>2, <4>1, Remainder
    <3> QED
      BY <2>1, <2>2, <2>3, <3>1
  <2>4. CASE m # Modulus - 1
    <3>1. (m + 1) % Modulus = m + 1
      <4>1. m + 1 = Modulus * 0 + (m + 1) /\ m + 1 \in 0 .. Modulus - 1
        BY <1>2, <2>2, <2>4
      <4> QED
        BY <1>2, <4>1, Remainder
    <3> QED
      BY <2>1, <2>2, <2>4, <3>1
  <2> QED
    BY <2>3, <2>4
<1>4. left' = (IF deadline = NULL THEN 0 ELSE left - 1)
  BY DEF timer_handler
<1>5. ClockTypes'
  <2>1. time' \in [1 .. 5 -> Nat]
    BY <1>1 DEF Times
  <2>2. monotonic_ms' \in 0 .. Modulus - 1 /\ left' \in Int
    BY <1>2, <1>3, <1>4
  <2>3. elapsed' \in Nat /\ since' \in 0 .. elapsed'
    BY <1>1
  <2> QED
    BY <2>1, <2>2, <2>3 DEF ClockTypes, Modulus
<1>6. FieldsSound'
  <2>1. time \in [1 .. 5 -> Nat] /\ time' \in [1 .. 5 -> Nat] /\ \A i \in 1 .. 4 : time'[i] < Limits[i]
    BY <1>1 DEF Times
  <2>2. Ticks(time) = From(time, 1) /\ Ticks(time') = From(time', 1)
    BY <2>1, TicksFrom
  <2>3. From(time', 1) = From(time, 1) + 1
    <3>1. From(time', 1) = From(time, 1) + (IF Full(time, 1) THEN Weight[1] ELSE 0)
      BY <1>1, Carry
    <3>2. Full(time, 1) /\ Weight[1] = 1
      BY Weights DEF Full
    <3> QED
      BY <3>1, <3>2
  <2>4. Ticks(time) = elapsed
    BY DEF ClockInv, FieldsSound
  <2> QED
    BY <1>1, <2>1, <2>2, <2>3, <2>4 DEF FieldsSound, Ticks, Weight
<1>7. CopySound'
  <2> SUFFICES ASSUME copy' # NULL
               PROVE  /\ copy' \in Seq(Nat) /\ Len(copy') \leq 6
                      /\ Hybrid(copy', Len(copy'), time') >= since'
                      /\ elapsed' = since' => Hybrid(copy', Len(copy'), time') = since'
    BY DEF CopySound, Hybrid, Weight, TimeBytes
  <2>1. /\ copy \in Seq(Nat) /\ Len(copy) \leq 6 /\ copy' = copy /\ since' = since
        /\ Hybrid(copy, Len(copy), time) >= since
    BY <1>1 DEF ClockInv, CopySound
  <2>2. PICK n \in 0 .. 6 : n = Len(copy) /\ \A i \in 1 .. n : copy[i] \in Nat
    BY <2>1, CopyBytes
  <2>3. /\ Hybrid(copy, n, time) \in Nat /\ Hybrid(copy, n, Advanced(time)) \in Nat
        /\ Hybrid(copy, n, Advanced(time)) >= Hybrid(copy, n, time)
    BY <1>1, <2>2, HybridTick
  <2>4. Hybrid(copy, n, time') >= since
    BY <1>1, <2>1, <2>2, <2>3
  <2> QED
    BY <1>1, <2>1, <2>2, <2>4
<1>8. DeadlineSound'
  <2> SUFFICES ASSUME deadline # NULL
               PROVE  /\ deadline \in 0 .. Modulus - 1 /\ left' < Half
                      /\ \E k \in Int : monotonic_ms' + left' = deadline + Modulus * k
    BY <1>1 DEF DeadlineSound, Modulus
  <2>1. PICK k \in Int : monotonic_ms + left = deadline + Modulus * k
    BY DEF ClockInv, DeadlineSound
  <2>2. deadline \in 0 .. Modulus - 1 /\ left < Half /\ left' = left - 1
    BY <1>4 DEF ClockInv, DeadlineSound
  <2>3. CASE monotonic_ms # Modulus - 1
    BY <1>2, <1>3, <2>1, <2>2, <2>3
  <2>4. CASE monotonic_ms = Modulus - 1
    <3>1. Modulus * (k - 1) = Modulus * k - Modulus
      BY <1>2
    <3>2. monotonic_ms' + left' = deadline + Modulus * (k - 1)
      BY <1>2, <1>3, <2>1, <2>2, <2>4, <3>1
    <3>3. k - 1 \in Int /\ left' < Half
      BY <1>2, <2>2
    <3> QED
      BY <2>2, <3>2, <3>3
  <2> QED
    BY <2>3, <2>4
<1> QED
  BY <1>5, <1>6, <1>7, <1>8 DEF ClockInv

\* get_system_time is called: nothing is copied yet, so that what it would come
\* to is the time.
LEMMA GetStep ==
  ASSUME ClockConstants, ClockInv, get_system_time
  PROVE  ClockInv'
<1>1. /\ copy' = <<>> /\ since' = elapsed /\ UNCHANGED <<monotonic_ms, time, elapsed, deadline, left>>
      /\ time \in [1 .. 5 -> Nat] /\ elapsed \in Nat /\ Ticks(time) = elapsed
  BY DEF get_system_time, ClockInv, ClockTypes, FieldsSound
<1>2. ClockTypes' /\ FieldsSound' /\ DeadlineSound'
  BY <1>1 DEF ClockInv, ClockTypes, FieldsSound, DeadlineSound, Modulus, Ticks, Weight
<1>3. Hybrid(<<>>, 0, time) = elapsed
  <2>1. \A i \in 1 .. 0 : <<>>[i] \in Nat
    OBVIOUS
  <2>2. Hybrid(<<>>, 0, time) = Copied(<<>>, 0) + Rest(0, time) /\ Rest(0, time) \in Nat
    BY <1>1, <2>1, HybridSplit
  <2>3. Copied(<<>>, 0) = 0 /\ Rest(0, time) = From(time, 1)
    BY DEF Copied, Rest
  <2>4. Ticks(time) = From(time, 1)
    BY <1>1, TicksFrom
  <2> QED
    BY <1>1, <2>2, <2>3, <2>4
<1>4. CopySound'
  <2>1. /\ copy' \in Seq(Nat) /\ Len(copy') = 0
        /\ Hybrid(copy', Len(copy'), time') = since'
    BY <1>1, <1>3
  <2>2. since' \in Nat
    BY <1>1
  <2>3. Len(copy') \leq 6 /\ Hybrid(copy', Len(copy'), time') >= since'
    BY <2>1, <2>2
  <2> QED
    BY <2>1, <2>3 DEF CopySound, Hybrid, Weight, TimeBytes
<1> QED
  BY <1>2, <1>4 DEF ClockInv

\* One more byte: it is the one that what the copy comes to had counted.
LEMMA CopyByteStep ==
  ASSUME ClockConstants, ClockInv, CopyByte
  PROVE  ClockInv'
<1>1. /\ copy # NULL /\ Len(copy) < 6 /\ copy' = Append(copy, TimeBytes(time)[Order[Len(copy) + 1]])
      /\ UNCHANGED <<monotonic_ms, time, elapsed, since, deadline, left>>
      /\ time \in [1 .. 5 -> Nat]
  BY DEF CopyByte, ClockInv, ClockTypes
<1>2. ClockTypes' /\ FieldsSound' /\ DeadlineSound'
  BY <1>1 DEF ClockInv, ClockTypes, FieldsSound, DeadlineSound, Modulus, Ticks, Weight
<1>3. copy \in Seq(Nat) /\ Len(copy) \in 0 .. 5
  <2>1. copy \in Seq(Nat) /\ Len(copy) \leq 6
    BY <1>1 DEF ClockInv, CopySound
  <2>2. Len(copy) \in 0 .. 6
    BY <2>1, CopyBytes
  <2> QED
    BY <1>1, <2>1, <2>2
<1>4. PICK n \in 0 .. 5 : n = Len(copy)
  BY <1>3
<1>5. \A i \in 1 .. 6 : TimeBytes(time)[i] \in Nat /\ Order[i] = i
  <2>1. time[1] % Byte \in Nat /\ time[1] \div Byte \in Nat
    <3>1. Byte \in Nat \ {0} /\ time[1] \in Nat
      BY <1>1 DEF ClockConstants
    <3>2. \A x \in Nat : x % Byte \in Nat /\ x \div Byte \in Nat
      <4> TAKE x \in Nat
      <4>1. x \in Int
        OBVIOUS
      <4>2. x % Byte \in 0 .. Byte - 1
        BY <3>1, <4>1, Division
      <4>3. x \div Byte \in Nat
        BY <3>1, HighByte
      <4> QED
        BY <3>1, <4>2, <4>3
    <3> QED
      BY <3>1, <3>2
  <2> QED
    BY <1>1, <2>1 DEF TimeBytes, Order
<1>6. copy' = Append(copy, TimeBytes(time)[n + 1]) /\ TimeBytes(time)[n + 1] \in Nat
  <2>1. n + 1 \in 1 .. 6
    OBVIOUS
  <2>2. TimeBytes(time)[n + 1] \in Nat /\ Order[n + 1] = n + 1
    BY <1>5, <2>1
  <2> QED
    BY <1>1, <1>4, <2>2
<1>7. /\ copy' \in Seq(Nat) /\ Len(copy') = n + 1
      /\ \A i \in 1 .. n : copy'[i] = copy[i]
      /\ copy'[n + 1] = TimeBytes(time)[n + 1]
  BY <1>3, <1>4, <1>6
<1>8. Hybrid(copy', n + 1, time) = Hybrid(copy, n, time)
  <2>1. [i \in 1 .. 6 |-> IF i \leq n + 1 THEN copy'[i] ELSE TimeBytes(time)[i]]
          = [i \in 1 .. 6 |-> IF i \leq n THEN copy[i] ELSE TimeBytes(time)[i]]
    BY <1>7
  <2> QED
    BY <2>1 DEF Hybrid
<1>9. CopySound'
  <2>1. /\ Hybrid(copy, n, time) >= since
        /\ elapsed = since => Hybrid(copy, n, time) = since
    BY <1>1, <1>4 DEF ClockInv, CopySound
  <2>2. /\ Hybrid(copy', Len(copy'), time') >= since'
        /\ elapsed' = since' => Hybrid(copy', Len(copy'), time') = since'
    BY <1>1, <1>7, <1>8, <2>1
  <2>3. Len(copy') \leq 6
    BY <1>7
  <2> QED
    BY <1>7, <2>2, <2>3 DEF CopySound, Hybrid, Weight, TimeBytes
<1> QED
  BY <1>2, <1>9 DEF ClockInv

\* The copy is done, or a wait ends.
LEMMA DoneStep ==
  ASSUME ClockConstants, ClockInv, ReadDone \/ EndWait
  PROVE  ClockInv'
<1>1. /\ UNCHANGED <<monotonic_ms, time, elapsed, since>>
      /\ copy' = copy \/ copy' = NULL
      /\ (deadline' = deadline /\ left' = left) \/ (deadline' = NULL /\ left' = 0)
  BY DEF ReadDone, EndWait
<1>2. ClockTypes'
  BY <1>1 DEF ClockInv, ClockTypes, Modulus
<1>3. FieldsSound'
  BY <1>1 DEF ClockInv, FieldsSound, Ticks, Weight
<1>4. DeadlineSound'
  BY <1>1 DEF ClockInv, DeadlineSound, Modulus
<1>5. CopySound'
  <2>1. CASE copy' = NULL
    BY <2>1 DEF CopySound
  <2>2. CASE copy' = copy
    BY <1>1, <2>2 DEF ClockInv, CopySound, Hybrid, Weight, TimeBytes
  <2> QED
    BY <1>1, <2>1, <2>2
<1> QED
  BY <1>2, <1>3, <1>4, <1>5 DEF ClockInv

\* A deadline is set: the counter may wrap on the way to it.
LEMMA DeadlineStep ==
  ASSUME ClockConstants, ClockInv, NEW d \in Delays, SetDeadline(d)
  PROVE  ClockInv'
<1>1. /\ deadline' = (monotonic_ms + d) % Modulus /\ left' = d
      /\ UNCHANGED <<monotonic_ms, time, elapsed, copy, since>>
  BY DEF SetDeadline, uptime_ms
<1>2. d \in 0 .. Half - 1 /\ Half \in Nat /\ Modulus \in Nat \ {0} /\ monotonic_ms \in 0 .. Modulus - 1
  BY DEF ClockConstants, ClockInv, ClockTypes, Modulus
<1>3. ClockTypes'
  BY <1>1, <1>2 DEF ClockInv, ClockTypes, Modulus
<1>4. FieldsSound' /\ CopySound'
  BY <1>1 DEF ClockInv, FieldsSound, CopySound, Ticks, Weight, Hybrid, TimeBytes
<1>5. DeadlineSound'
  <2>1. PICK a \in Int : a = monotonic_ms + d
    BY <1>2
  <2>2. a % Modulus \in 0 .. Modulus - 1 /\ a \div Modulus \in Int /\ a = Modulus * (a \div Modulus) + (a % Modulus)
    BY <1>2, Division
  <2>3. PICK k \in Int, r \in 0 .. Modulus - 1 : a = Modulus * k + r /\ r = a % Modulus
    BY <2>2
  <2>4. deadline' = r
    BY <1>1, <2>1, <2>3
  <2>5. monotonic_ms' + left' = deadline' + Modulus * k /\ deadline' \in 0 .. Modulus - 1 /\ left' < Half
    BY <1>1, <1>2, <2>1, <2>3, <2>4
  <2> QED
    BY <2>5 DEF DeadlineSound, Modulus
<1> QED
  BY <1>3, <1>4, <1>5 DEF ClockInv

\* Every step keeps the invariant.
LEMMA ClockStep ==
  ASSUME ClockConstants, ClockInv, [ClockNext]_clockVars
  PROVE  ClockInv'
<1>1. CASE UNCHANGED clockVars
  BY <1>1 DEF clockVars, ClockInv, ClockTypes, FieldsSound, CopySound, DeadlineSound, Ticks, Weight, Hybrid, TimeBytes, Modulus
<1> QED
  BY <1>1, TimerStep, GetStep, CopyByteStep, DoneStep, DeadlineStep DEF ClockNext

\* The invariant holds in every state.
LEMMA ClockInvariant == ClockSpec => []ClockInv
<1> USE ClockAssumption
<1>1. ClockInit => ClockInv
  BY ClockStart
<1>2. ClockInv /\ [ClockNext]_clockVars => ClockInv'
  BY ClockStep
<1> QED
  BY <1>1, <1>2, PTL DEF ClockSpec

-----------------------------------------------------------------------------
(* The properties.                                                          *)

\* The fields that timer_handler advances are the ticks since boot, through
\* every carry, for every limit of the fields; and pit_set_frequency rounds the
\* period to the nearest cycle of the chip for every frequency whose divisor
\* fits its 16 bits.
THEOREM FieldsExactHolds == ClockSpec => []FieldsExact
<1> USE ClockAssumption
<1>1. ASSUME NEW f \in Frequencies
      PROVE  2 * (f * pit_set_frequency(f) - PIT_DIVISOR) \in -f .. f
  <2>1. PICK g \in Nat \ {0}, D \in Nat : g = f /\ D = PIT_DIVISOR
    BY DEF ClockConstants
  <2>2. PICK e \in Nat : e = D \div g
    BY HighByte
  <2>3. PICK q \in 0 .. e + 1 : /\ q = e + (IF D % g > g \div 2 THEN 1 ELSE 0)
                                /\ 2 * (g * q - D) \in -g .. g
    BY <2>2, Rounding
  <2>4. pit_set_frequency(f) = q % 65536
    BY <2>1, <2>2, <2>3 DEF pit_set_frequency
  <2>5. q \in Nat /\ q < 65536
    <3>1. PIT_DIVISOR \div f = e
      BY <2>1, <2>2
    <3>2. PIT_DIVISOR \div f + 1 < 65536
      BY DEF ClockConstants
    <3>3. e + 1 < 65536
      BY <3>1, <3>2
    <3> QED
      BY <3>3
  <2>6. q % 65536 = q
    BY <2>5
  <2> QED
    BY <2>1, <2>3, <2>4, <2>6
<1>2. ClockInv => FieldsExact
  <2> SUFFICES ASSUME ClockInv PROVE FieldsExact
    OBVIOUS
  <2> QED
    BY <1>1 DEF ClockInv, FieldsSound, FieldsExact
<1> QED
  BY <1>2, ClockInvariant, PTL

\* get_system_time copies the fields with interrupts enabled: whatever ticks
\* strike between two bytes, the time it returns is not behind its call, and it
\* is exact if none does.
THEOREM ReadNotBehindHolds == ClockSpec => []ReadNotBehind
<1> USE ClockAssumption
<1>1. ClockInv => ReadNotBehind
  <2> SUFFICES ASSUME ClockInv, copy # NULL, Len(copy) = 6
               PROVE  /\ Ticks(Read(copy)) >= since
                      /\ elapsed = since => Ticks(Read(copy)) = since
    BY DEF ReadNotBehind
  <2>1. /\ Hybrid(copy, 6, time) >= since
        /\ elapsed = since => Hybrid(copy, 6, time) = since
        /\ \A i \in 1 .. 6 : copy[i] \in Nat
    <3>1. copy \in Seq(Nat)
      BY DEF ClockInv, CopySound
    <3>2. Len(copy) \leq 6
      OBVIOUS
    <3>3. \A i \in 1 .. 6 : copy[i] \in Nat
      BY <3>1, <3>2, CopyBytes
    <3> QED
      BY <3>3 DEF ClockInv, CopySound
  <2>2. \A i \in 1 .. 6 : (CHOOSE k \in 1 .. 6 : Order[k] = i) = i
    <3>1. \A i \in 1 .. 6 : Order[i] = i
      BY DEF Order
    <3> QED
      BY <3>1
  <2>3. Read(copy) = <<copy[1] + Byte * copy[2], copy[3], copy[4], copy[5], copy[6]>>
    <3> DEFINE b == [i \in 1 .. 6 |-> copy[CHOOSE k \in 1 .. 6 : Order[k] = i]]
    <3>1. \A i \in 1 .. 6 : b[i] = copy[i]
      BY <2>2
    <3>2. Read(copy) = <<b[1] + Byte * b[2], b[3], b[4], b[5], b[6]>>
      BY DEF Read
    <3> HIDE DEF b
    <3>3. b[1] = copy[1] /\ b[2] = copy[2] /\ b[3] = copy[3] /\ b[4] = copy[4] /\ b[5] = copy[5] /\ b[6] = copy[6]
      BY <3>1
    <3> QED
      BY <3>2, <3>3
  <2>4. Ticks(Read(copy)) = copy[1] + Byte * copy[2] + Weight[2] * copy[3] + Weight[3] * copy[4]
                            + Weight[4] * copy[5] + Weight[5] * copy[6]
    BY <2>3 DEF Ticks
  <2>5. Hybrid(copy, 6, time) = copy[1] + Byte * copy[2] + Weight[2] * copy[3] + Weight[3] * copy[4]
                            + Weight[4] * copy[5] + Weight[5] * copy[6]
    BY DEF Hybrid
  <2> QED
    BY <2>1, <2>4, <2>5
<1> QED
  BY <1>1, ClockInvariant, PTL

\* time_after and time_before compare the count with a deadline rightly for
\* every range of the counter, also when it wraps on the way to the deadline.
THEOREM DeadlineExactHolds == ClockSpec => []DeadlineExact
<1> USE ClockAssumption
<1>1. ClockInv => DeadlineExact
  <2> SUFFICES ASSUME ClockInv, deadline # NULL, left > -Half
               PROVE  /\ time_after(monotonic_ms, deadline) = (left < 0)
                      /\ time_before(monotonic_ms, deadline) = (left > 0)
    BY DEF DeadlineExact, uptime_ms
  <2>1. /\ Half \in Nat \ {0} /\ Modulus = 2 * Half /\ Modulus \in Nat \ {0}
        /\ monotonic_ms \in 0 .. Modulus - 1 /\ deadline \in 0 .. Modulus - 1
        /\ left \in Int /\ left < Half /\ left > -Half
    BY DEF ClockInv, ClockTypes, ClockConstants, DeadlineSound, Modulus
  <2>2. PICK k \in Int : monotonic_ms + left = deadline + Modulus * k
    BY DEF ClockInv, DeadlineSound
  <2>3. PICK a \in Int : a = deadline - monotonic_ms /\ a = Modulus * (-k) + left /\ -a = Modulus * k - left
    <3>1. Modulus * (-k) = -(Modulus * k) /\ Modulus * k \in Int
      BY <2>1
    <3> QED
      BY <2>1, <2>2, <3>1
  <2>4. Negative(a) = (left < 0)
    <3>1. CASE left >= 0
      <4>1. left \in 0 .. Modulus - 1
        BY <2>1, <3>1
      <4>2. a % Modulus = left
        BY <2>1, <2>3, <4>1, Remainder
      <4> QED
        BY <2>1, <3>1, <4>2 DEF Negative
    <3>2. CASE left < 0
      <4>1. a = Modulus * (-k - 1) + (left + Modulus) /\ left + Modulus \in 0 .. Modulus - 1
        BY <2>1, <2>3, <3>2
      <4>2. a % Modulus = left + Modulus
        BY <2>1, <4>1, Remainder
      <4> QED
        BY <2>1, <3>2, <4>2 DEF Negative
    <3> QED
      BY <2>1, <3>1, <3>2
  <2>5. PICK b \in Int : b = -a /\ b = Modulus * k - left
    BY <2>3
  <2>6. Negative(b) = (left > 0)
    <3>1. CASE left \leq 0
      <4>1. -left \in 0 .. Modulus - 1 /\ b = Modulus * k + (-left)
        BY <2>1, <2>5, <3>1
      <4>2. b % Modulus = -left
        BY <2>1, <4>1, Remainder
      <4> QED
        BY <2>1, <3>1, <4>2 DEF Negative
    <3>2. CASE left > 0
      <4>1. b = Modulus * (k - 1) + (Modulus - left) /\ Modulus - left \in 0 .. Modulus - 1
        BY <2>1, <2>5, <3>2
      <4>2. PICK j \in Int, r \in 0 .. Modulus - 1 : j = k - 1 /\ r = Modulus - left /\ b = Modulus * j + r
        BY <2>1, <4>1
      <4>3. b % Modulus = r
        BY <2>1, <4>2, Remainder
      <4> QED
        BY <2>1, <3>2, <4>2, <4>3 DEF Negative
    <3> QED
      BY <2>1, <3>1, <3>2
  <2>7. deadline - monotonic_ms = a /\ monotonic_ms - deadline = b
    BY <2>1, <2>3, <2>5
  <2> QED
    BY <2>4, <2>6, <2>7 DEF time_after, time_before
<1> QED
  BY <1>1, ClockInvariant, PTL
=============================================================================
