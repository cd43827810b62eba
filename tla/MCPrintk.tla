------------------------------- MODULE MCPrintk -------------------------------
(* int has 12 bits and buffer 6 characters.  Formats stand one after the    *)
(* other in .rodata.bpf, so that the walk can run from one into the next;   *)
(* some stand on the stack, above BASE, like the strings of %s.  They are   *)
(* A%d, %3x%xB, %04x, %12x, %c%s and a new line, %%d, A%, %5,            *)
(* %lx%u, %d%d%d%d, ABC, and on the stack ab, %d%s, % and an A that has no  *)
(* NUL.  One call of printf has NULL as its format.                         *)
EXTENDS Printk, FiniteSets

RoData == <<
  65, 37, 100, 0,
  37, 51, 120, 37, 120, 66, 0,
  37, 48, 52, 120, 0,
  37, 49, 50, 120, 0,
  37, 99, 37, 115, 10, 0,
  37, 37, 100, 0,
  65, 37, 0,
  37, 53, 0,
  37, 108, 120, 37, 117, 0,
  37, 100, 37, 100, 37, 100, 37, 100, 0,
  65, 66, 67, 0 >>
Offsets == {0, 4, 11, 16, 21, 27, 31, 34, 37, 43, 52}
OnStack == <<97, 98, 0, 37, 100, 37, 115, 0, 37, 0, 65>>

MCMemory ==
  [a \in 40 .. 39 + Len(RoData) \cup 200 .. 199 + Len(OnStack) |->
     IF a < 200 THEN RoData[a - 39] ELSE OnStack[a - 199]]

Args == {<<0, 200, 200>>, <<7, 200, 4095>>, <<2047, 10, 200>>,
         <<2048, 200, 255>>, <<4095, 200, 1>>, <<4106, 200, 3000>>,
         <<9, 8, 7>>}

(* fmt_size counts the NUL; it may be more, and it may be less.             *)
Sizes == {2, 4, 6, 7, 20}
Forms == ({"printk"} \X Offsets \X Sizes)
         \cup ({"printf"} \X {40 + o : o \in Offsets} \X {0})
         \cup {<<"printk", 203, 5>>, <<"printk", 203, 20>>, <<"printf", 203, 0>>,
               <<"printf", 208, 0>>, <<"printk", 210, 5>>, <<"printf", 300, 0>>,
               <<"printf", 0, 0>>}

MCCalls == {[fn |-> f[1], fmt |-> f[2], fmt_size |-> f[3], args |-> a, thr |-> t] :
              f \in Forms, a \in Args, t \in {Empty, ZERO}}
=============================================================================
