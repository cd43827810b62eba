-------------------------------- MODULE Printk --------------------------------
(***************************************************************************)
(* Printing on bare metal: _bpf_helper_ext_0006, the helper bpf_printk     *)
(* calls, and printf, which main calls, walk a format with the same three  *)
(* labels s0, s1 and s2 and send its characters to a UART one by one, each *)
(* after polling that the transmit holding register is empty.              *)
(*                                                                         *)
(* Characters are their codes.  DEBUG_PRINTK is 0, and what printf returns *)
(* is used by no caller.                                                   *)
(***************************************************************************)
EXTENDS Integers, SequencesExt

CONSTANTS
  Calls,             \* calls: function, fmt, fmt_size, the values of r3 to
                     \* r5, and what the call before left in the UART
  Memory,            \* the character at an address, where there is memory
  MemEnd,            \* where memory ends
  rodata_bpf_start,
  BASE,              \* BASE_ADDRESS_QEMU_RV64: addresses below are offsets
  IntMod,            \* 2^32: int and uint32_t are taken from registers
  BufSize,           \* 32: the size of buffer
  Empty              \* the holding register is empty

Chars == 0 .. 255

ASSUME MemoryAssumption ==
  /\ Memory \in [DOMAIN Memory -> Chars] /\ Empty \notin Chars
  /\ MemEnd \in Nat /\ DOMAIN Memory \subseteq 0 .. MemEnd - 1
  /\ rodata_bpf_start \in Nat /\ BASE \in Nat
ASSUME CallsAssumption ==
  Calls \subseteq [fn : {"printk", "printf"}, fmt : Nat, fmt_size : Nat,
                   args : [1 .. 3 -> Nat], thr : Chars \cup {Empty}]

VARIABLES
  call,    \* the call
  pc,      \* "entry", a label, "puts" in uart_puts, or how it ended
  format,  \* the address of the format
  i, len,  \* the position in it; the width read so far
  argn,    \* how many va_arg have been taken
  buffer,  \* what uart_puts has still to send
  thr,     \* the transmit holding register
  wire     \* the characters the UART has sent

vars == <<call, pc, format, i, len, argn, buffer, thr, wire>>

PERCENT == 37
MINUS   == 45
ZERO    == 48
IsDigit(c) == c \in ZERO .. ZERO + 9
Codes == [c |-> 99, d |-> 100, s |-> 115, x |-> 120]
IsCode(c) == \E l \in DOMAIN Codes : c = Codes[l]

-----------------------------------------------------------------------------
(* itoa: digits are made in reverse order and the string is reversed.  The *)
(* least int has no negative: it stays as it is, and so does its one       *)
(* digit, since the loop ends on a quotient that is not positive.          *)
DigitsReversed[n \in Nat] ==
  <<ZERO + (n % 10)>> \o IF n \div 10 > 0 THEN DigitsReversed[n \div 10] ELSE <<>>

Itoa(n) ==
  IF n = -(IntMod \div 2) THEN <<MINUS, ZERO - ((-n) % 10)>>
  ELSE IF n < 0 THEN Reverse(DigitsReversed[-n] \o <<MINUS>>)
  ELSE Reverse(DigitsReversed[n])

(* hextoa: zeroes are added up to fixed_size before the string is reversed. *)
HexDigit(n) == IF n < 10 THEN ZERO + n ELSE 65 + n - 10
HexReversed[n \in Nat] ==
  IF n = 0 THEN <<>> ELSE <<HexDigit(n % 16)>> \o HexReversed[n \div 16]

(* Bug: the prefix 0x is added after the zeroes.                           *)
Hextoa_Prefix(n, fixed_size) ==
  LET digits == IF n = 0 THEN <<ZERO>> ELSE HexReversed[n]
      cnt    == Len(digits)
      zeroes == [k \in 1 .. (IF cnt < fixed_size THEN fixed_size - cnt ELSE 0)
                   |-> ZERO]
  IN  Reverse(digits \o zeroes \o <<Codes.x, ZERO>>)
Hextoa(n, fixed_size) ==
  LET digits == IF n = 0 THEN <<ZERO>> ELSE HexReversed[n]
      cnt    == Len(digits)
      zeroes == [k \in 1 .. (IF cnt < fixed_size THEN fixed_size - cnt ELSE 0)
                   |-> ZERO]
  IN  Reverse(digits \o zeroes)

(* A string in memory, up to its NUL.                                      *)
StringLen(a) ==
  CHOOSE n \in 0 .. MemEnd :
    /\ \A m \in 0 .. n - 1 : a + m \in DOMAIN Memory /\ Memory[a + m] # 0
    /\ a + n \in DOMAIN Memory => Memory[a + n] = 0
StringAt(a) == [n \in 1 .. StringLen(a) |-> Memory[a + n - 1]]

-----------------------------------------------------------------------------
Init ==
  /\ call \in Calls
  /\ pc = "entry" /\ format = 0 /\ i = 0 /\ len = 0 /\ argn = 0
  /\ buffer = <<>> /\ thr = call.thr /\ wire = <<>>

(* A format below the start of RAM is an offset into .rodata.bpf; only the *)
(* helper relocates it, and no length is checked.                          *)
Relocated == IF call.fn = "printk" /\ call.fmt < BASE
               THEN rodata_bpf_start + call.fmt ELSE call.fmt
(* A NULL format: both say so in a message, whose characters are left out, *)
(* and return.  The helper tests only what it has relocated.               *)
IsNull == Relocated = 0 /\ (call.fn = "printk" => call.fmt < BASE)
NullFormat ==
  /\ pc = "entry" /\ IsNull
  /\ pc' = "null" /\ format' = Relocated
  /\ UNCHANGED <<call, i, len, argn, buffer, thr, wire>>

Entry ==
  /\ pc = "entry" /\ ~IsNull
  /\ pc' = "s0" /\ format' = Relocated
  /\ UNCHANGED <<call, i, len, argn, buffer, thr, wire>>

Char    == Memory[format + i]
At(lbl) == pc = lbl /\ format + i \in DOMAIN Memory

(* The walk has left the memory that holds strings.                        *)
Fault ==
  /\ pc \in {"s0", "s1", "s2"} /\ format + i \notin DOMAIN Memory
  /\ pc' = "fault"
  /\ UNCHANGED <<call, format, i, len, argn, buffer, thr, wire>>

(* s0: '%' is looked for first, then NUL, and then the end of the format.  *)
Percent ==
  /\ At("s0") /\ Char = PERCENT
  /\ pc' = "s1" /\ i' = i + 1
  /\ UNCHANGED <<call, format, len, argn, buffer, thr, wire>>

(* Bug: the NUL does not end a format.                                     *)
AtEnd_SizeOnly == call.fn = "printk" /\ i >= call.fmt_size
AtEnd == Char = 0 \/ (call.fn = "printk" /\ i >= call.fmt_size)

End ==
  /\ At("s0") /\ Char # PERCENT /\ AtEnd
  /\ pc' = "end"
  /\ UNCHANGED <<call, format, i, len, argn, buffer, thr, wire>>

(* uart_putc: poll until the holding register is empty, then write it.     *)
(* Bug: the register is written without polling.                           *)
uart_putc_NoPoll(c) == thr' = c
uart_putc(c) == thr = Empty /\ thr' = c

Literal ==
  /\ At("s0") /\ Char # PERCENT /\ ~AtEnd
  /\ uart_putc(Char) /\ i' = i + 1
  /\ UNCHANGED <<call, pc, format, len, argn, buffer, wire>>

(* s1: the digits of a width.                                              *)
(* Bug: i is not moved on.                                                 *)
Digit_NoStep ==
  /\ At("s1") /\ IsDigit(Char)
  /\ len' = (10 * len + Char - ZERO) % 100
  /\ UNCHANGED <<call, pc, format, i, argn, buffer, thr, wire>>
Digit ==
  /\ At("s1") /\ IsDigit(Char)
  /\ len' = 10 * len + Char - ZERO /\ i' = i + 1
  /\ UNCHANGED <<call, pc, format, argn, buffer, thr, wire>>

NoDigit ==
  /\ At("s1") /\ ~IsDigit(Char)
  /\ pc' = "s2"
  /\ UNCHANGED <<call, format, i, len, argn, buffer, thr, wire>>

(* s2: the argument is taken and made a string; one more than buffer holds *)
(* is written past its end.                                                *)
Arg     == call.args[argn + 1]
UintArg == Arg % IntMod
IntArg  == IF UintArg < IntMod \div 2 THEN UintArg ELSE UintArg - IntMod

Puts(str, room) ==
  /\ pc' = (IF Len(str) < room THEN "puts" ELSE "overrun")
  /\ buffer' = str /\ argn' = argn + 1
  /\ UNCHANGED <<call, format, i, len, thr, wire>>

Taking(c) == At("s2") /\ Char = c /\ argn < 3

Decimal == Taking(Codes.d) /\ Puts(Itoa(IntArg), BufSize)
Hex     == Taking(Codes.x) /\ Puts(Hextoa(UintArg, len), BufSize)
Str     == Taking(Codes.s) /\ Puts(StringAt(Arg), Len(StringAt(Arg)) + 1)
CharArg == Taking(Codes.c) /\ Puts(<<Arg % 256>>, 2)

(* More conversions than arguments: the value is whatever is in the next   *)
(* register, and what is printed is left open.                             *)
Unknown ==
  /\ At("s2") /\ IsCode(Char) /\ argn >= 3
  /\ pc' = "unknown"
  /\ UNCHANGED <<call, format, i, len, argn, buffer, thr, wire>>

(* Anything else after '%' is skipped, a second '%' and a NUL included.    *)
NoConversion ==
  /\ At("s2") /\ ~IsCode(Char)
  /\ pc' = "s0" /\ i' = i + 1 /\ len' = 0
  /\ UNCHANGED <<call, format, argn, buffer, thr, wire>>

uart_puts ==
  /\ pc = "puts" /\ buffer # <<>>
  /\ uart_putc(Head(buffer)) /\ buffer' = Tail(buffer)
  /\ UNCHANGED <<call, pc, format, i, len, argn, wire>>

(* Bug: len is not reset.                                                  *)
Converted_KeepsLen ==
  /\ pc = "puts" /\ buffer = <<>>
  /\ pc' = "s0" /\ i' = i + 1
  /\ UNCHANGED <<call, format, len, argn, buffer, thr, wire>>
Converted ==
  /\ pc = "puts" /\ buffer = <<>>
  /\ pc' = "s0" /\ i' = i + 1 /\ len' = 0
  /\ UNCHANGED <<call, format, argn, buffer, thr, wire>>

(* The UART sends the character and THRE is set again.                     *)
Transmit ==
  /\ thr # Empty
  /\ wire' = Append(wire, thr) /\ thr' = Empty
  /\ UNCHANGED <<call, pc, format, i, len, argn, buffer>>

Final == {"end", "null", "overrun", "fault", "unknown"}
Over  == pc \in Final /\ thr = Empty /\ UNCHANGED vars

Walk ==
  \/ NullFormat \/ Entry \/ Fault \/ Percent \/ End \/ Literal \/ Digit \/ NoDigit
  \/ Decimal \/ Hex \/ Str \/ CharArg \/ Unknown \/ NoConversion
  \/ uart_puts \/ Converted

Next == Walk \/ Transmit \/ Over

(* The hart runs on, and the UART sends what is in its register.           *)
Spec == Init /\ [][Next]_vars /\ WF_vars(Walk) /\ WF_vars(Transmit)

-----------------------------------------------------------------------------
TypeOK ==
  /\ call \in Calls
  /\ pc \in {"entry", "s0", "s1", "s2", "puts"} \cup Final
  /\ format \in Nat /\ i \in Nat /\ argn \in 0 .. 3
  /\ len \in IF pc \in {"entry", "s0"} THEN {0} ELSE Nat
  /\ buffer \in Seq(Chars) /\ thr \in Chars \cup {Empty} /\ wire \in Seq(Chars)

(***************************************************************************)
(* What a format says: its text up to its NUL, and what it prints.         *)
(***************************************************************************)
Text == StringAt(Relocated)

Percents(t, k) == {p \in 1 .. k : t[p] = PERCENT}

(* Position k of t belongs to the conversion of a '%' before it.           *)
Inside(t, k) ==
  \E p \in Percents(t, k - 1) : \A m \in p + 1 .. k - 1 : IsDigit(t[m])

(* The number that the digits up to position k make.                       *)
Number(t) ==
  LET val[k \in 0 .. Len(t)] ==
        IF k = 0 THEN 0
        ELSE IF IsDigit(t[k]) THEN 10 * val[k - 1] + t[k] - ZERO ELSE 0
  IN  val

Dec[n \in Nat] ==
  IF n < 10 THEN <<ZERO + n>> ELSE Append(Dec[n \div 10], ZERO + (n % 10))
HexOf[n \in Nat] ==
  IF n < 16 THEN <<HexDigit(n)>> ELSE Append(HexOf[n \div 16], HexDigit(n % 16))
Padded(s, w) == [k \in 1 .. (IF Len(s) < w THEN w - Len(s) ELSE 0) |-> ZERO] \o s

Low(v) == v % IntMod
Shown(c, w, v) ==
  CASE c = Codes.d -> IF Low(v) < IntMod \div 2 THEN Dec[Low(v)]
                      ELSE <<MINUS>> \o Dec[IntMod - Low(v)]
    [] c = Codes.x -> Padded(HexOf[Low(v)], w)
    [] c = Codes.s -> StringAt(v)
    [] c = Codes.c -> <<v % 256>>

(* What t prints: of a conversion, the letter at its end prints the next   *)
(* argument; everything else prints itself.                                *)
Piece(t, k) ==
  IF t[k] = PERCENT \/ (Inside(t, k) /\ IsDigit(t[k])) THEN <<>>
  ELSE IF Inside(t, k)
    THEN Shown(t[k], Number(t)[k - 1], call.args[Cardinality(Percents(t, k))])
  ELSE <<t[k]>>
Meaning(t) == FlattenSeq([k \in 1 .. Len(t) |-> Piece(t, k)])

(* A format of the kind bpf_printk declares: it has its NUL, within        *)
(* fmt_size, and each '%' a conversion the code knows and an argument.     *)
Complete(t) ==
  /\ Relocated + Len(t) \in DOMAIN Memory
  /\ call.fn = "printk" => Len(t) < call.fmt_size
  /\ Cardinality(Percents(t, Len(t))) <= 3
  /\ \A p \in Percents(t, Len(t)) : \E m \in p + 1 .. Len(t) :
       IsCode(t[m]) /\ \A j \in p + 1 .. m - 1 : IsDigit(t[j])

(* It also fits: widths are below the size of buffer, and no argument is   *)
(* the least int, which has no negative.                                   *)
Printable(t) ==
  /\ Complete(t)
  /\ \A k \in 1 .. Len(t) : Inside(t, k) => Number(t)[k - 1] < BufSize
  /\ \A n \in 1 .. 3 : Low(call.args[n]) # IntMod \div 2

(* buffer has room for every int, and for every uint32_t.                  *)
ASSUME WidthAssumption ==
  /\ IntMod \in Nat \ {0} /\ IntMod % 2 = 0 /\ BufSize \in Nat
  /\ Len(Dec[IntMod \div 2]) + 1 < BufSize
  /\ Len(HexOf[IntMod - 1]) < BufSize

Sent == IF thr = Empty THEN wire ELSE Append(wire, thr)

(* What goes out is what the format says, in order and nothing twice: each *)
(* character is written only once the one before it has left the register. *)
(* In particular the width of one conversion is gone before the next.      *)
PrintsFormat ==
  pc = "end" =>
    LET t == Text IN
    Printable(t) =>
      Sent = (IF call.thr = Empty THEN <<>> ELSE <<call.thr>>) \o Meaning(t)

(* A complete format is not read beyond its NUL: s1 and s2 do not test for *)
(* it, and s0 tests for it before it compares i with fmt_size.             *)
StaysInFormat ==
  LET t == Text IN
  (i > Len(t) \/ pc \in {"fault", "unknown"}) => ~Complete(t)

(* The buffer of 32 characters holds every int; only the width of a %x can *)
(* make hextoa write past it.                                              *)
RoomInBuffer ==
  pc = "overrun" => Char = Codes.x /\ len >= BufSize

(* The call returns, or is one of those that go wrong, and the UART sends  *)
(* everything that was written to it.                                      *)
Ends == <>[](pc \in Final /\ thr = Empty)
=============================================================================
