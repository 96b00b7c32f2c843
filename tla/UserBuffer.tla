------------------------------ MODULE UserBuffer ------------------------------
(***************************************************************************)
(* How the kernel reaches the memory of a process (os/src/mm/page_table.rs *)
(* 173-256, os/src/mm/address.rs, os/src/syscall/fs.rs): the virtual range *)
(* of a buffer is cut at page ends into slices of physical pages, a string *)
(* is followed byte by byte to its zero, an exit code is stored through    *)
(* one translation.                                                        *)
(*                                                                         *)
(* Addresses are kept as numbers and keep their width: VirtAddr::from      *)
(* masks a usize to VA_SIZE, the conversion from a page number does not.   *)
(* Several processes call into the kernel; sys_read gives the processor    *)
(* away while it waits for a character.  A byte is one of four classes:    *)
(* the terminating zero, an ASCII character, and the lead and continuation *)
(* bytes of a two-byte UTF-8 character.                                    *)
(*                                                                         *)
(* translated_byte_buffer and its sisters check nothing of a pointer.  The *)
(* calls here are those of programs that go through user_lib, which makes  *)
(* its pointers from references; MemorySet has the other pointers.         *)
(***************************************************************************)
EXTENDS Integers, Sequences, SequencesExt, FiniteSets

CONSTANTS
  Proc,          \* processes
  Frame,         \* physical frames
  PAGE_SIZE,
  VA_SIZE,       \* 2^VA_WIDTH_SV39
  I32_SIZE,      \* bytes of an i32, aligned in memory
  PageTable,     \* [Proc -> partial map from page numbers to frames]
  Text,          \* the strings programs print, as their UTF-8 bytes
  MaxCalls       \* bound: system calls made in a behaviour

Zero  == "0"
Ascii == "a"
Lead  == "L"
Cont  == "C"
Byte  == {Zero, Ascii, Lead, Cont}

\* Characters typed and exit codes.
Answer == {Ascii, Lead}

Va == 0 .. VA_SIZE - 1

\* What the program's own loads and stores see: the bytes of user pages.
Mapped(p) == {va \in Va : va \div PAGE_SIZE \in DOMAIN PageTable[p]}

ASSUME WidthAssumption ==
  /\ PAGE_SIZE \in Nat \ {0} /\ I32_SIZE \in 1 .. PAGE_SIZE
  /\ VA_SIZE \in Nat /\ 2 * PAGE_SIZE =< VA_SIZE
  /\ VA_SIZE % PAGE_SIZE = 0 /\ PAGE_SIZE % I32_SIZE = 0
  /\ MaxCalls \in Nat

\* MemorySet shows that no two pages share a frame; the page below the top
\* one and the top page hold the trap context and the trampoline, which no
\* buffer of a program reaches.
ASSUME TableAssumption ==
  /\ \A p \in Proc : /\ DOMAIN PageTable[p] \subseteq 0 .. (VA_SIZE \div PAGE_SIZE) - 3
                     /\ \A n \in DOMAIN PageTable[p] : PageTable[p][n] \in Frame
  /\ \A p, q \in Proc :
       \A m \in DOMAIN PageTable[p], n \in DOMAIN PageTable[q] :
          PageTable[p][m] = PageTable[q][n] => p = q /\ m = n

VARIABLES
  mem,      \* the bytes of every frame
  current,  \* PROCESSOR.current
  at,       \* where each process is: in user mode or in a system call
  args,     \* the pointer and length in its trap context
  start,    \* `start' of translated_byte_buffer, `va' of translated_str
  v,        \* the slices found so far, each a sequence of physical bytes
  str,      \* the String read so far, as its UTF-8 bytes
  out,      \* what this sys_write has printed
  calls,
  panic

vars == <<mem, current, at, args, start, v, str, out, calls, panic>>

-------------------------------------------------------------------------------
(* Address arithmetic.                                                     *)

\* Mutant: the mask is one bit too narrow.
VirtAddr_from_Narrow(a) == a % (VA_SIZE \div 2)

VirtAddr_from(a) == a % VA_SIZE
floor(va) == va \div PAGE_SIZE
\* Mutant: the offset is taken from the page end.
page_offset_Off(a) == (a + 1) % PAGE_SIZE

page_offset(a) == a % PAGE_SIZE
VirtAddr_of(vpn) == vpn * PAGE_SIZE
Smaller(a, b) == IF a < b THEN a ELSE b

\* PageTable::translate and translate_va, then the physical byte.  A page
\* that is not mapped has no entry, or an empty one which leads to physical
\* page 0, where the kernel has nothing: both end in a panic.
Translates(p, va) == floor(va) \in DOMAIN PageTable[p]
translate_va(p, va) ==
  [ppn |-> PageTable[p][floor(va)], offset |-> page_offset(va)]

\* The MMU's view of one byte, used by the program itself.
Load(p, va) == mem[PageTable[p][va \div PAGE_SIZE]][va % PAGE_SIZE]
Bytes(p, ptr, len) == [i \in 1 .. len |-> Load(p, ptr + i - 1)]

-------------------------------------------------------------------------------
(* core::str::from_utf8.                                                   *)

ValidUtf8(s) ==
  \A i \in DOMAIN s : /\ s[i] = Lead => i < Len(s) /\ s[i + 1] = Cont
                      /\ s[i] = Cont => i > 1 /\ s[i - 1] = Lead

ASSUME TextAssumption ==
  \A text \in Text :
    text \in Seq(Byte) /\ ValidUtf8(text) /\ \A i \in DOMAIN text : text[i] # Zero

-------------------------------------------------------------------------------

Init ==
  /\ mem = [f \in Frame |-> [o \in 0 .. PAGE_SIZE - 1 |-> Zero]]
  /\ current \in Proc
  /\ at = [p \in Proc |-> "user"]
  /\ args = [p \in Proc |-> [ptr |-> 0, len |-> 0]]
  /\ start = 0
  /\ v = <<>>
  /\ str = <<>>
  /\ out = <<>>
  /\ calls = 0
  /\ panic = "none"

Running(p, where) == panic = "none" /\ current = p /\ at[p] = where

goto(p, where) == at' = [at EXCEPT ![p] = where]

enter(p, ptr, len, where) ==
  /\ Running(p, "user")
  /\ calls < MaxCalls
  /\ calls' = calls + 1
  /\ args' = [args EXCEPT ![p] = [ptr |-> ptr, len |-> len]]
  /\ goto(p, where)
  /\ start' = ptr
  /\ v' = <<>>
  /\ str' = <<>>
  /\ out' = <<>>
  /\ UNCHANGED <<current, panic>>

\* The program puts bytes at ptr with ordinary stores.
Filled(p, ptr, bytes) ==
  [f \in Frame |-> [o \in 0 .. PAGE_SIZE - 1 |->
     LET hit == {i \in DOMAIN bytes : /\ PageTable[p][(ptr + i - 1) \div PAGE_SIZE] = f
                                      /\ (ptr + i - 1) % PAGE_SIZE = o}
     IN IF hit = {} THEN mem[f][o] ELSE bytes[CHOOSE i \in hit : TRUE]]]

Fits(p, ptr, n) ==
  \A i \in 1 .. n : (ptr + i - 1) \div PAGE_SIZE \in DOMAIN PageTable[p]

\* user_lib passes the address of a reference, &[u8], &mut [u8], &str or
\* &mut i32: aligned, to n bytes that the program has.
reference(p, ptr, n, align) ==
  ptr % align = 0 /\ Fits(p, ptr, 1) /\ Fits(p, ptr, n)

\* Stdout::write_str: the bytes of a str.
sys_write(p, ptr, text) ==
  /\ enter(p, ptr, Len(text), "translate")
  /\ reference(p, ptr, Len(text), 1)
  /\ mem' = Filled(p, ptr, text)

\* One round of the while loop of translated_byte_buffer.
slice(p, end_va) ==
  LET last == IF page_offset(end_va) = 0 THEN PAGE_SIZE ELSE page_offset(end_va)
      page == mem[PageTable[p][floor(VirtAddr_from(start))]]
      off  == page_offset(VirtAddr_from(start))
  IN [i \in 1 .. last - off |-> page[off + i - 1]]

\* Mutant: the minimum with the end of the buffer is left out.
end_of_slice_WholePage(end) == VirtAddr_of(floor(VirtAddr_from(start)) + 1)

end_of_slice(end) ==
  Smaller(VirtAddr_of(floor(VirtAddr_from(start)) + 1), VirtAddr_from(end))

translated_byte_buffer(p) ==
  LET end == args[p].ptr + args[p].len IN
  /\ Running(p, "translate")
  /\ \/ /\ start >= end
        /\ goto(p, "print")
        /\ UNCHANGED <<start, v, panic>>
     \/ /\ start < end
        /\ IF Translates(p, VirtAddr_from(start))
           THEN /\ v' = Append(v, slice(p, end_of_slice(end)))
                /\ start' = end_of_slice(end)
                /\ UNCHANGED panic
           ELSE panic' = "unwrap on None" /\ UNCHANGED <<v, start>>
        /\ UNCHANGED at
  /\ UNCHANGED <<mem, current, args, str, out, calls>>

\* The for loop of sys_write: each slice must be UTF-8 on its own.
print_slice(p) ==
  /\ Running(p, "print")
  /\ v # <<>>
  /\ v' = Tail(v)
  /\ \/ ValidUtf8(Head(v)) /\ out' = out \o Head(v) /\ UNCHANGED panic
     \/ ~ValidUtf8(Head(v)) /\ panic' = "Utf8Error" /\ UNCHANGED out
  /\ UNCHANGED <<mem, current, at, args, start, str, calls>>

write_done(p) ==
  /\ Running(p, "print")
  /\ v = <<>>
  /\ goto(p, "user")
  /\ UNCHANGED <<mem, current, args, start, v, str, out, calls, panic>>

-------------------------------------------------------------------------------
(* sys_read.                                                               *)

\* The store through a translated pointer that ends the system call.
store(p, n, b) ==
  LET pa == translate_va(p, VirtAddr_from(args[p].ptr)) IN
  /\ mem' = [mem EXCEPT ![pa.ppn] =
               [o \in 0 .. PAGE_SIZE - 1 |->
                  IF o \in pa.offset .. pa.offset + n - 1 THEN b ELSE @[o]]]
  /\ goto(p, "user")
  /\ UNCHANGED <<current, args, start, v, str, out, calls, panic>>

sys_read(p, ptr) ==
  /\ enter(p, ptr, 1, "getchar")
  /\ reference(p, ptr, 1, 1)
  /\ UNCHANGED mem

\* No character yet: suspend_current_and_run_next, somebody else runs.
read_suspend(p) ==
  /\ Running(p, "getchar")
  /\ current' \in Proc
  /\ UNCHANGED <<mem, at, args, start, v, str, out, calls, panic>>

\* A character: the token is that of whoever runs now; the first byte of
\* the only slice is written.
read_store(p, c) ==
  /\ Running(p, "getchar")
  /\ store(p, 1, c)

-------------------------------------------------------------------------------
(* translated_str, for the path of sys_exec, and translated_refmut, for    *)
(* the exit code of sys_waitpid.                                           *)

sys_exec(p, ptr, text) ==
  /\ enter(p, ptr, 0, "str")
  /\ reference(p, ptr, Len(text) + 1, 1)
  /\ mem' = Filled(p, ptr, Append(text, Zero))

\* Mutant: the physical address is found once and then counted on.
next_byte_OnePage(p) ==
  mem[PageTable[p][floor(VirtAddr_from(args[p].ptr))]][page_offset(start)]

next_byte(p) ==
  LET pa == translate_va(p, VirtAddr_from(start)) IN mem[pa.ppn][pa.offset]

\* Mutant: by the size of a char instead of a u8.
next_va_Char(va) == va + 4

next_va(va) == va + 1

\* push(ch as char): a byte becomes the character of that number, and String
\* keeps a character above ASCII as two bytes, whatever the byte stood for.
push(s, ch) == s \o (IF ch = Ascii THEN <<Ascii>> ELSE <<Lead, Cont>>)

translated_str(p) ==
  /\ Running(p, "str")
  /\ IF ~Translates(p, VirtAddr_from(start))
     THEN panic' = "unwrap on None" /\ UNCHANGED <<at, str, start>>
     ELSE /\ IF next_byte(p) = Zero
             THEN goto(p, "named") /\ UNCHANGED <<str, start>>
             ELSE str' = push(str, next_byte(p)) /\ start' = next_va(start) /\ UNCHANGED at
          /\ UNCHANGED panic
  /\ UNCHANGED <<mem, current, args, v, out, calls>>

\* What exec does with the name is in TaskSystem and MemorySet.
exec_done(p) ==
  /\ Running(p, "named")
  /\ goto(p, "user")
  /\ UNCHANGED <<mem, current, args, start, v, str, out, calls, panic>>

\* A child was collected: its exit code, all of one byte class here, is
\* stored as an i32 at the physical address of the first byte.
sys_waitpid(p, ptr) ==
  /\ enter(p, ptr, I32_SIZE, "collect")
  /\ reference(p, ptr, I32_SIZE, I32_SIZE)
  /\ UNCHANGED mem

waitpid_store(p, b) ==
  /\ Running(p, "collect")
  /\ store(p, I32_SIZE, b)

-------------------------------------------------------------------------------

\* A timer interrupt in user mode.
preempt(p) ==
  /\ Running(p, "user")
  /\ current' \in Proc
  /\ UNCHANGED <<mem, at, args, start, v, str, out, calls, panic>>

shutdown == panic # "none" /\ UNCHANGED vars

kernel(p) ==
  \/ translated_byte_buffer(p)
  \/ print_slice(p)
  \/ write_done(p)
  \/ translated_str(p)
  \/ exec_done(p)

Next ==
  \/ \E p \in Proc :
       \/ \E ptr \in Va :
            \/ \E text \in Text : sys_write(p, ptr, text) \/ sys_exec(p, ptr, text)
            \/ sys_waitpid(p, ptr)
            \/ sys_read(p, ptr)
       \/ kernel(p)
       \/ read_suspend(p)
       \/ \E b \in Answer : read_store(p, b) \/ waitpid_store(p, b)
       \/ preempt(p)
  \/ shutdown

\* Kernel code runs on by itself.
Spec == Init /\ [][Next]_vars /\ \A p \in Proc : WF_vars(kernel(p))

-------------------------------------------------------------------------------
(* Properties.                                                             *)

TypeOK ==
  /\ mem \in [Frame -> [0 .. PAGE_SIZE - 1 -> Byte]]
  /\ current \in Proc
  /\ at \in [Proc -> {"user", "translate", "print", "getchar", "collect",
                   "str", "named"}]
  /\ args \in [Proc -> [ptr : Va, len : Nat]]
  /\ start \in 0 .. VA_SIZE - 2 * PAGE_SIZE
  /\ v \in Seq(Seq(Byte))
  /\ str \in Seq(Byte)
  /\ out \in Seq(Byte)
  /\ calls \in 0 .. MaxCalls
  /\ panic \in {"none", "unwrap on None", "Utf8Error"}

Buffer(p) == Bytes(p, args[p].ptr, args[p].len)

(* translated_byte_buffer, wherever the buffer begins and ends within its  *)
(* pages: what sys_write has printed and the slices it still holds are     *)
(* together the buffer of the program, each byte once and in order.        *)
SlicesAreTheBuffer ==
  /\ TypeOK
  /\ \A p \in Proc : Running(p, "print") => out \o FlattenSeq(v) = Buffer(p)

(* sys_write of a valid string panics only if a character of the string    *)
(* lies across the end of a page; the unwrap of translate never fails.     *)
SplitCharacter(p) ==
  \E va \in args[p].ptr + 1 .. args[p].ptr + args[p].len - 1 :
     va % PAGE_SIZE = 0 /\ Load(p, va) = Cont

PanicsOnlyOnSplitCharacter ==
  panic # "none" => panic = "Utf8Error" /\ SplitCharacter(current)

(* translated_str reads the name up to its first zero, also across pages,  *)
(* and nothing behind it.  An ASCII name arrives as it is; any other name  *)
(* arrives as a string that is neither it nor an ASCII string.  So exec    *)
(* finds an application, whose names are ASCII, exactly by its own name.   *)
IsAscii(s) == \A i \in DOMAIN s : s[i] = Ascii

NameIsTheString ==
  \A p \in Proc : Running(p, "named") =>
    \E n \in 0 .. VA_SIZE :
      LET name == Bytes(p, args[p].ptr, n) IN
      /\ Fits(p, args[p].ptr, n + 1)
      /\ Load(p, args[p].ptr + n) = Zero
      /\ \A i \in 1 .. n : name[i] # Zero
      /\ IF IsAscii(name) THEN str = name ELSE str # name /\ ~IsAscii(str)

(* A system call that answers into memory (sys_read after any number of    *)
(* suspensions, sys_waitpid) changes bytes only of the caller, only inside *)
(* the object the caller passed, and changes all of them.                  *)
Object(p) == args[p].ptr .. args[p].ptr + args[p].len - 1

AnswerLandsInTheCaller ==
  [][\A p \in Proc :
       at[p] \in {"getchar", "collect"} /\ at'[p] = "user" =>
         /\ p = current
         /\ \A q \in Proc : \A va \in Mapped(q) :
              Load(q, va)' # Load(q, va) => q = p /\ va \in Object(p)
         /\ \E b \in Answer : \A va \in Object(p) : Load(p, va)' = b]_vars

(* No system call stays in the loops of translated_byte_buffer and         *)
(* translated_str for ever or ends there: `start' moves on to the end.     *)
TranslationEnds ==
  \A p \in Proc : /\ at[p] = "translate" ~> at[p] = "print"
                  /\ at[p] = "str" ~> at[p] = "named"

===============================================================================
