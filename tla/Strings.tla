------------------------------ MODULE Strings -------------------------------
(***************************************************************************)
(* The byte and string functions of mem.c and string.c on a small memory:   *)
(* a pointer is an address, a string ends at the first zero byte.  Every    *)
(* function returns the memory it leaves and its result; the callers' side  *)
(* of the contract (strings end within the memory, restrict pointers do not *)
(* overlap) is the guard of each action.                                    *)
(***************************************************************************)
EXTENDS Integers, Sequences, SequencesExt, FiniteSetsExt

CONSTANTS
  NULL,
  Size,   \* bound: the bytes of the memory
  Bytes   \* bound: the values of a byte

VARIABLES
  memory,
  ptr,     \* the static pointer of strtok, or NULL
  last     \* the last call, its result and the memory before it, or NULL

stringVars == <<memory, ptr, last>>

Addresses == 0 .. Size - 1
Pointers == 0 .. Size

-----------------------------------------------------------------------------
(* Faulty variants of definitions below, named by what is wrong with them.  *)

always_forward(d, s, n) == [i \in 1 .. n |-> i - 1]

-----------------------------------------------------------------------------
(* mem.c                                                                    *)

\* Bytes copied one after the other, in the order of the offsets given.
Copied(m, d, s, offsets) == FoldLeft(LAMBDA acc, i : [acc EXCEPT ![d + i] = acc[s + i]], m, offsets)

Upwards(n) == [i \in 1 .. n |-> i - 1]

memcpy(m, d, s, n) == Copied(m, d, s, Upwards(n))

memset(m, p, c, n) == [a \in DOMAIN m |-> IF a \in p .. p + n - 1 THEN c ELSE m[a]]

\* The order memmove copies in.
MoveOrder(d, s, n) ==
  IF s > d THEN Upwards(n) ELSE IF s < d THEN Reverse(Upwards(n)) ELSE <<>>

memmove(m, d, s, n) == Copied(m, d, s, MoveOrder(d, s, n))

memcmp(m, a, b, n) ==
  LET from[i \in 0 .. n] ==
        IF i = n THEN 0
        ELSE IF m[a + i] = m[b + i] THEN from[i + 1]
        ELSE IF m[a + i] < m[b + i] THEN -1 ELSE 1
  IN from[0]

-----------------------------------------------------------------------------
(* string.c                                                                 *)

IsString(m, s) == \E a \in s .. Size - 1 : m[a] = 0

strlen(m, s) == Min({ n \in Pointers : s + n < Size /\ m[s + n] = 0 })

strnlen(m, s, max) == Min({max} \cup { n \in Pointers : s + n < Size /\ m[s + n] = 0 })

\* stpcpy, as strcpy and strcat use it.
strcpy(m, d, s) == [memcpy(m, d, s, strlen(m, s)) EXCEPT ![d + strlen(m, s)] = 0]

strcat(m, d, s) == strcpy(m, d + strlen(m, d), s)

\* stpncpy clears the start of the destination instead of its end.
strncpy(m, d, s, n) ==
  LET len == strnlen(m, s, n)
  IN memset(memcpy(m, d, s, len), d, 0, n - len)

\* strncmp; strcmp has no limit.
strncmp(m, a, b, n) ==
  LET from[i \in 0 .. n] ==
        IF i = n THEN 0
        ELSE IF m[a + i] # 0 /\ m[a + i] = m[b + i] THEN from[i + 1]
        ELSE m[a + i] - m[b + i]
  IN from[0]

strcmp(m, a, b) == strncmp(m, a, b, Size)

\* The first and the last occurrence of c before the end; never the end itself.
Occurrences(m, s, c) == { a \in s .. s + strlen(m, s) - 1 : m[a] = c }
strchr(m, s, c) == IF Occurrences(m, s, c) = {} THEN NULL ELSE Min(Occurrences(m, s, c))
strrchr(m, s, c) == IF Occurrences(m, s, c) = {} THEN NULL ELSE Max(Occurrences(m, s, c))

strstr(m, haystack, needle) ==
  LET matches(h) ==       \* the needle's end is reached
        LET from[i \in 0 .. strlen(m, needle)] ==
              \/ m[needle + i] = 0
              \/ m[h + i] # 0 /\ m[h + i] = m[needle + i] /\ from[i + 1]
        IN from[0]
      search[h \in haystack .. Size - 1] ==
        IF m[h] = 0 THEN NULL ELSE IF matches(h) THEN h ELSE search[h + 1]
  IN IF m[needle] = 0 THEN haystack ELSE search[haystack]

\* The loops of strlcpy: at most size - 1 bytes, then the end.
strlcpy(m, d, s, size) ==
  LET copy[i \in 0 .. size] ==   \* the number of bytes copied, i of them so far
        IF i + 1 >= size THEN i ELSE IF m[s + i] = 0 THEN i + 1 ELSE copy[i + 1]
      n == copy[0]
      ended == n > 0 /\ m[s + n - 1] = 0
      copied == memcpy(m, d, s, n)
  IN [mem |-> IF ~ended /\ size # 0 THEN [copied EXCEPT ![d + n] = 0] ELSE copied,
      ret |-> IF ended THEN n - 1 ELSE n + strlen(m, s + n)]

strlcat(m, d, s, size) ==
  LET dlen == strnlen(m, d, size)
      slen == strlen(m, s)
      copy == Min({size - dlen - 1, slen})
  IN IF dlen = size THEN [mem |-> m, ret |-> size + slen]
     ELSE [mem |-> [memcpy(m, d + dlen, s, copy) EXCEPT ![d + dlen + copy] = 0], ret |-> dlen + slen]

\* strtok_r without a new string: past the delimiters, then past the token.
\* The first call with a string only remembers it.
strtok_r(m, delim, save) ==
  LET skip[a \in save .. Size - 1] == IF strchr(m, delim, m[a]) # NULL THEN skip[a + 1] ELSE a
      start == skip[save]
      past[a \in start .. Size - 1] == IF strchr(m, delim, m[a]) = NULL /\ m[a] # 0 THEN past[a + 1] ELSE a
  IN [ret |-> IF m[start] = 0 THEN NULL ELSE start, save |-> past[start]]

-----------------------------------------------------------------------------
Init ==
  /\ memory \in [Addresses -> Bytes]
  /\ ptr = NULL /\ last = NULL

Disjoint(a, n, b, k) == a + n \leq b \/ b + k \leq a

\* One call: what it leaves and what it returns.
Called(fn, args, mem, ret) ==
  /\ memory' = mem
  /\ last' = [fn |-> fn, args |-> args, ret |-> ret, before |-> memory]

\* memmove and memcpy.
Move ==
  /\ last = NULL /\ UNCHANGED ptr
  /\ \E d, s \in Pointers : \E n \in 0 .. Size - Max({d, s}) :
       \/ Called("memmove", <<d, s, n>>, memmove(memory, d, s, n), d)
       \/ Disjoint(d, n, s, n) /\ Called("memcpy", <<d, s, n>>, memcpy(memory, d, s, n), d)

Compare ==
  /\ last = NULL /\ UNCHANGED ptr
  /\ \E a, b \in Addresses : \E n \in 0 .. Size - Max({a, b}) :
       \/ Called("memcmp", <<a, b, n>>, memory, memcmp(memory, a, b, n))
       \/ IsString(memory, a) /\ IsString(memory, b)
          /\ \/ Called("strncmp", <<a, b, n>>, memory, strncmp(memory, a, b, n))
             \/ n = 0 /\ Called("strcmp", <<a, b>>, memory, strcmp(memory, a, b))

\* strcpy, strcat and strncpy into a destination that holds the result.
CopyString ==
  /\ last = NULL /\ UNCHANGED ptr
  /\ \E d, s \in Addresses :
       /\ IsString(memory, s)
       /\ LET k == strlen(memory, s) + 1
          IN \/ /\ Disjoint(d, k, s, k) /\ d + k \leq Size
                /\ Called("strcpy", <<d, s>>, strcpy(memory, d, s), d)
             \/ /\ IsString(memory, d)
                /\ Disjoint(d, strlen(memory, d) + k, s, k) /\ d + strlen(memory, d) + k \leq Size
                /\ Called("strcat", <<d, s>>, strcat(memory, d, s), d)
             \/ \E n \in 0 .. Size - d :
                  /\ Disjoint(d, n, s, k)
                  /\ Called("strncpy", <<d, s, n>>, strncpy(memory, d, s, n), d)

\* strlcpy and strlcat, whose destination has size bytes.
CopyBounded ==
  /\ last = NULL /\ UNCHANGED ptr
  /\ \E d \in Pointers, s \in Addresses : \E size \in 0 .. Size - d :
       /\ IsString(memory, s) /\ Disjoint(d, size, s, strlen(memory, s) + 1)
       /\ \/ LET r == strlcpy(memory, d, s, size) IN Called("strlcpy", <<d, s, size>>, r.mem, r.ret)
          \/ LET r == strlcat(memory, d, s, size) IN Called("strlcat", <<d, s, size>>, r.mem, r.ret)

Search ==
  /\ last = NULL /\ UNCHANGED ptr
  /\ \E s \in Addresses :
       /\ IsString(memory, s)
       /\ \/ \E c \in Bytes \ {0} :
               \/ Called("strchr", <<s, c>>, memory, strchr(memory, s, c))
               \/ Called("strrchr", <<s, c>>, memory, strrchr(memory, s, c))
          \/ \E needle \in Addresses :
               IsString(memory, needle) /\ Called("strstr", <<s, needle>>, memory, strstr(memory, s, needle))

\* The string is at address 0, the delimiters are the second string.
Delimiters(m) == strlen(m, 0) + 1
HasDelimiters(m) == IsString(m, 0) /\ IsString(m, Delimiters(m))

strtok_first ==
  /\ last = NULL /\ HasDelimiters(memory)
  /\ ptr' = 0
  /\ Called("strtok_first", <<0>>, memory, NULL)

\* The calls after the first go on where the last one stopped; args holds the
\* tokens so far.
strtok ==
  /\ ptr # NULL /\ (last.fn = "strtok" => last.ret # NULL)
  /\ LET r == strtok_r(memory, Delimiters(memory), ptr)
         before == IF last.fn = "strtok" THEN last.args ELSE <<>>
     IN /\ ptr' = r.save
        /\ Called("strtok", IF r.ret = NULL THEN before ELSE Append(before, r.ret), memory, r.ret)

Next == Move \/ Compare \/ CopyString \/ CopyBounded \/ Search \/ strtok_first \/ strtok

-----------------------------------------------------------------------------
(* What the calls are for.                                                  *)

\* The bytes of a string, without its end.
StringAt(m, s) == [i \in 1 .. strlen(m, s) |-> m[s + i - 1]]
Region(m, p, n) == [i \in 1 .. n |-> m[p + i - 1]]

Sign(x) == IF x < 0 THEN -1 ELSE IF x = 0 THEN 0 ELSE 1

\* The lexicographic order of two sequences, a proper prefix being smaller.
Order(x, y) ==
  LET differ == { i \in 1 .. Min({Len(x), Len(y)}) : x[i] # y[i] }
  IN IF differ # {} THEN Sign(x[Min(differ)] - y[Min(differ)]) ELSE Sign(Len(x) - Len(y))

Limited(x, n) == SubSeq(x, 1, Min({n, Len(x)}))

\* m is what remains of b when only n bytes from p on may change, and they are w.
Written(b, m, p, w) ==
  m = [a \in Addresses |-> IF a \in p .. p + Len(w) - 1 THEN w[a - p + 1] ELSE b[a]]

Places(m, s, w) ==
  { a \in s .. s + strlen(m, s) : a + Len(w) \leq s + strlen(m, s) /\ Region(m, a, Len(w)) = w }

\* The starts of the maximal runs of bytes that are no delimiters.
TokenStarts(m) ==
  LET text == StringAt(m, 0)
      delim == ToSet(StringAt(m, Delimiters(m)))
  IN { a \in 0 .. Len(text) - 1 : text[a + 1] \notin delim /\ (a > 0 => text[a] \in delim) }

\* Every call does what it is for, and writes nothing else: memmove moves the
\* bytes as they were however source and destination overlap; strlcpy and
\* strlcat stay within size bytes, end the string if there is room for anything
\* and return the length they tried to make; comparisons and searches agree
\* with the order and the occurrences of sequences; strtok returns every token
\* once and in order, leaving the string alone; strncpy stays within n bytes.
CallsExact ==
  last # NULL =>
    LET b == last.before
        x == last.args
        src == StringAt(b, x[2])
    IN CASE last.fn \in {"memmove", "memcpy"} -> Written(b, memory, x[1], Region(b, x[2], x[3]))
         [] last.fn = "memcmp" -> last.ret = Order(Region(b, x[1], x[3]), Region(b, x[2], x[3]))
         [] last.fn = "strcmp" -> Sign(last.ret) = Order(StringAt(b, x[1]), src)
         [] last.fn = "strncmp" -> Sign(last.ret) = Order(Limited(StringAt(b, x[1]), x[3]), Limited(src, x[3]))
         [] last.fn = "strcpy" -> Written(b, memory, x[1], Append(src, 0))
         [] last.fn = "strcat" -> Written(b, memory, x[1], Append(StringAt(b, x[1]) \o src, 0))
         [] last.fn = "strncpy" -> \A a \in Addresses \ (x[1] .. x[1] + x[3] - 1) : memory[a] = b[a]
         [] last.fn = "strlcpy" ->
              /\ last.ret = Len(src)
              /\ Written(b, memory, x[1], IF x[3] = 0 THEN <<>> ELSE Append(Limited(src, x[3] - 1), 0))
         [] last.fn = "strlcat" ->
              LET old == Region(b, x[1], strnlen(b, x[1], x[3]))
              IN /\ last.ret = Len(old) + Len(src)
                 /\ Written(b, memory, x[1],
                            IF Len(old) = x[3] THEN old ELSE Append(Limited(old \o src, x[3] - 1), 0))
         [] last.fn = "strchr" ->
              LET p == Places(b, x[1], <<x[2]>>) IN last.ret = IF p = {} THEN NULL ELSE Min(p)
         [] last.fn = "strrchr" ->
              LET p == Places(b, x[1], <<x[2]>>) IN last.ret = IF p = {} THEN NULL ELSE Max(p)
         [] last.fn = "strstr" ->
              LET p == Places(b, x[1], src) IN last.ret = IF p = {} THEN NULL ELSE Min(p)
         [] last.fn = "strtok_first" -> memory = b
         [] last.fn = "strtok" ->
              /\ memory = b
              /\ ToSet(x) = { a \in TokenStarts(b) : a < ptr }
              /\ \A i, j \in 1 .. Len(x) : i < j => x[i] < x[j]
              /\ last.ret = NULL => ToSet(x) = TokenStarts(b)
=============================================================================
