-------------------------------- MODULE Driver --------------------------------
(***************************************************************************)
(* The build command: the programs of an eBPF ELF are compiled one after   *)
(* the other, each with a CompilerXDP of its own, and every object is      *)
(* written to a file named after its program.  libbpf, LLVM and the file   *)
(* system can fail wherever they are called.                               *)
(***************************************************************************)
EXTENDS Integers, Sequences, TLAPS

CONSTANTS
  Names,          \* names of programs, and so of output files
  Elfs,           \* the inputs: sequences of programs
  MAX_EXT_FUNCS,  \* 8192
  Printk          \* 6, the index of the only helper

Sections == {"xdp", "other"}   \* "other" stands for all but "xdp"
Program  == [name : Names, sect : Sections]

(* The names are those of functions of one object file.                    *)
ASSUME ElfAssumption ==
  /\ Elfs \subseteq Seq(Program)
  /\ \A e \in Elfs : \A j, m \in 1 .. Len(e) :
       e[j].name = e[m].name => j = m
ASSUME HelperAssumption == /\ MAX_EXT_FUNCS \in Nat /\ Printk \in Nat
                           /\ Printk < MAX_EXT_FUNCS

VARIABLES
  phase,     \* what the process does next, "exited" at the end
  status,    \* how it ended, "none" before
  elf,       \* the programs libbpf found
  k,         \* the position of the loop over them
  roData,    \* what loadRodata returned
  insts,     \* the program loaded in the current CompilerXDP
  extFuncs,  \* the indices registered in it
  result,    \* what do_aot_compile returned
  out,       \* the output files
  before,    \* the output files when the command was started
  lost       \* the programs whose object was not written in full

vars == <<phase, status, elf, k, roData, insts, extFuncs, result, out, before,
          lost>>

-----------------------------------------------------------------------------
Cur   == elf[k]
IsXdp(p) == p.sect = "xdp"
Positions == 1 .. Len(elf)

(* An object holds the code of a program, the helpers it may call and the  *)
(* string loadRodata returned.                                             *)
Object(n, helpers, ro) ==
  [kind |-> "object", from |-> n, helpers |-> helpers, roData |-> ro]
Absent  == [kind |-> "absent"]
Old     == [kind |-> "old"]        \* of an earlier build
Partial == [kind |-> "partial"]

Ends(s) ==
  /\ phase' = "exited" /\ status' = s
  /\ UNCHANGED <<elf, k, roData, insts, extFuncs, result, out, before, lost>>

Init ==
  /\ phase = "open" /\ status = "none"
  /\ elf \in Elfs /\ k = 1
  /\ roData = "none" /\ insts = "none" /\ extFuncs = {} /\ result = Absent
  /\ out \in [Names -> {Absent, Old}] /\ before = out /\ lost = {}

OpenFails == phase = "open" /\ Ends("1")

Open ==
  /\ phase = "open" /\ phase' = "rodata"
  /\ UNCHANGED <<status, elf, k, roData, insts, extFuncs, result, out, before,
                 lost>>

(* A section that is missing and one that cannot be read give "".          *)
LoadRodata ==
  /\ phase = "rodata" /\ phase' = "program"
  /\ roData' \in {"content", ""}
  /\ UNCHANGED <<status, elf, k, insts, extFuncs, result, out, before, lost>>

(* A program of an unsupported section is logged and passed over.          *)
(* Bug: the loop does not move on.                                         *)
Skip_Stays ==
  /\ phase = "program" /\ k <= Len(elf) /\ ~IsXdp(Cur)
  /\ UNCHANGED vars

Skip ==
  /\ phase = "program" /\ k <= Len(elf) /\ ~IsXdp(Cur)
  /\ k' = k + 1
  /\ UNCHANGED <<phase, status, elf, roData, insts, extFuncs, result, out,
                 before, lost>>

(* build_xdp begins with a new CompilerXDP.                                *)
(* Bug: the registered helpers outlive it.                                 *)
Construct_Shared ==
  /\ phase = "program" /\ k <= Len(elf) /\ IsXdp(Cur)
  /\ phase' = "helpers" /\ insts' = "none"
  /\ UNCHANGED <<status, elf, k, roData, extFuncs, result, out, before, lost>>

Construct ==
  /\ phase = "program" /\ k <= Len(elf) /\ IsXdp(Cur)
  /\ phase' = "helpers" /\ insts' = "none" /\ extFuncs' = {}
  /\ UNCHANGED <<status, elf, k, roData, result, out, before, lost>>

(* register_external_function refuses an index that is too large or taken. *)
Registers(index) == index < MAX_EXT_FUNCS /\ index \notin extFuncs

(* Bug: the index is off by one.                                           *)
AddHelpers_Next ==
  /\ phase = "helpers" /\ Registers(Printk + 1)
  /\ phase' = "load" /\ extFuncs' = extFuncs \cup {Printk + 1}
  /\ UNCHANGED <<status, elf, k, roData, insts, result, out, before, lost>>

AddHelpers ==
  /\ phase = "helpers"
  /\ IF Registers(Printk)
       THEN /\ phase' = "load" /\ extFuncs' = extFuncs \cup {Printk}
            /\ UNCHANGED <<status, elf, k, roData, insts, result, out, before,
                           lost>>
       ELSE Ends("1")

(* The length is the number of instructions times 8: never refused.        *)
LoadCode ==
  /\ phase = "load" /\ phase' = "compile"
  /\ insts' = Cur.name
  /\ UNCHANGED <<status, elf, k, roData, extFuncs, result, out, before, lost>>

Compile ==
  /\ phase = "compile" /\ phase' = "write"
  /\ result' = Object(insts, extFuncs, roData)
  /\ UNCHANGED <<status, elf, k, roData, insts, extFuncs, out, before, lost>>

(* Bug: the file is opened, and so emptied, before the program compiles.   *)
CompileFails_Opened ==
  /\ phase = "compile"
  /\ phase' = "exited" /\ status' = "aborted"
  /\ out' = [out EXCEPT ![Cur.name] = Partial]
  /\ UNCHANGED <<elf, k, roData, insts, extFuncs, result, before, lost>>

(* generateModule returns an error, aborts or crashes, or LLVM has no      *)
(* target: the exception is caught nowhere and ends the process.           *)
CompileFails == phase = "compile" /\ Ends("aborted")

Write ==
  /\ phase = "write" /\ phase' = "program" /\ k' = k + 1
  /\ out' = [out EXCEPT ![Cur.name] = result]
  /\ UNCHANGED <<status, elf, roData, insts, extFuncs, result, before, lost>>

(* The file cannot be opened, or not be written in full; neither is        *)
(* noticed.                                                                *)
WriteFails ==
  /\ phase = "write" /\ phase' = "program" /\ k' = k + 1
  /\ \E f \in {out[Cur.name], Partial} : out' = [out EXCEPT ![Cur.name] = f]
  /\ lost' = lost \cup {Cur.name}
  /\ UNCHANGED <<status, elf, roData, insts, extFuncs, result, before>>

Finish == phase = "program" /\ k > Len(elf) /\ Ends("0")

Next ==
  \/ Open \/ OpenFails \/ LoadRodata \/ Skip \/ Construct \/ AddHelpers
  \/ LoadCode \/ Compile \/ CompileFails \/ Write \/ WriteFails \/ Finish

(* One thread; libbpf, LLVM and the file system return.                    *)
Spec == Init /\ [][Next]_vars /\ WF_vars(Next)

-----------------------------------------------------------------------------
Loads   == {"none", "content", ""}
Objects == {Object(n, h, r) : n \in Names, h \in {{}, {Printk}}, r \in Loads}

TypeOK ==
  /\ phase \in {"open", "rodata", "program", "helpers", "load", "compile",
                "write", "exited"}
  /\ status \in {"none", "0", "1", "aborted"}
  /\ elf \in Elfs /\ k \in 1 .. Len(elf) + 1
  /\ roData \in Loads
  /\ insts \in Names \cup {"none"}
  /\ extFuncs \in {{}, {Printk}}
  /\ result \in Objects \cup {Absent}
  /\ out \in [Names -> Objects \cup {Absent, Old, Partial}]
  /\ before \in [Names -> {Absent, Old}]
  /\ lost \subseteq Names

(* However the build goes on or ends, each XDP program before the current  *)
(* one has its own object, with the helper and this ELF's .rodata, unless  *)
(* its write failed; the files of all others, above all of the program     *)
(* that failed to compile, are what they were before the command.          *)
BuiltPrefix ==
  \A j \in Positions :
    LET n == elf[j].name IN
    IF j < k /\ IsXdp(elf[j])
      THEN out[n] = Object(n, {Printk}, roData) \/ n \in lost
      ELSE out[n] = before[n]

(* Exit status 1 is only ever that of an ELF that cannot be opened: the    *)
(* second program of an ELF registers its helper as the first one did, and *)
(* a failed compilation does not end in an exit status at all.             *)
OneMeansUnopened == status = "1" => roData = "none"

(* The command ends.                                                       *)
Ended == <>(phase = "exited")

-----------------------------------------------------------------------------
(* Proofs, for every ELF and every failure of libbpf, LLVM and the file     *)
(* system.                                                                 *)

(* What the process knows at each point of the loop.                       *)
StageInv ==
  /\ phase # "exited" => status = "none"
  /\ phase \in {"open", "rodata"} => k = 1 /\ roData = "none"
  /\ phase \in {"helpers", "load", "compile", "write"} =>
       k \in Positions /\ IsXdp(Cur)
  /\ phase = "helpers" => extFuncs = {}
  /\ phase \in {"load", "compile"} => extFuncs = {Printk}
  /\ phase = "compile" => insts = Cur.name
  /\ phase = "write" => result = Object(Cur.name, {Printk}, roData)

DInv == TypeOK /\ StageInv /\ BuiltPrefix /\ OneMeansUnopened

-----------------------------------------------------------------------------
(* The programs of the ELF.                                                *)
LEMMA ElfFacts ==
  ASSUME TypeOK
  PROVE  /\ Len(elf) \in Nat
         /\ \A j \in Positions : elf[j].name \in Names
         /\ \A j, m \in Positions : elf[j].name = elf[m].name => j = m
<1>1. elf \in Seq(Program)
  BY ElfAssumption DEF TypeOK
<1>2. \A j \in Positions : elf[j] \in Program
  BY <1>1 DEF Positions
<1> QED BY <1>1, <1>2, ElfAssumption DEF TypeOK, Positions, Program

LEMMA InitDInv == Init => DInv
<1> SUFFICES ASSUME Init PROVE DInv
  OBVIOUS
<1>1. elf \in Seq(Program) /\ Len(elf) \in Nat
  BY ElfAssumption DEF Init
<1>2. TypeOK
  BY <1>1 DEF Init, TypeOK, Loads
<1>3. StageInv /\ OneMeansUnopened
  BY DEF Init, StageInv, OneMeansUnopened
<1>4. BuiltPrefix
  BY <1>1 DEF Init, BuiltPrefix, Positions
<1> QED BY <1>2, <1>3, <1>4 DEF DInv

(* A step that touches no file and does not move the loop keeps the built  *)
(* prefix, if it also keeps what loadRodata returned.                      *)
LEMMA SameFiles ==
  ASSUME BuiltPrefix, UNCHANGED <<elf, k, roData, out, before, lost>>
  PROVE  BuiltPrefix'
BY DEF BuiltPrefix, Positions, IsXdp, Object

(* A write changes the file of the current program only.                   *)
LEMMA WriteStep ==
  ASSUME DInv, phase = "write", k' = k + 1,
         NEW f, out' = [out EXCEPT ![Cur.name] = f],
         UNCHANGED <<elf, roData, before>>,
         lost \subseteq lost',
         f = Object(Cur.name, {Printk}, roData) \/ Cur.name \in lost'
  PROVE  BuiltPrefix'
<1>1. k \in Positions /\ IsXdp(Cur) /\ Len(elf) \in Nat
  BY ElfFacts DEF DInv, StageInv
<1>2. \A j \in Positions : elf[j].name \in Names
  BY ElfFacts DEF DInv
<1>3. out \in [Names -> Objects \cup {Absent, Old, Partial}]
  BY DEF DInv, TypeOK
<1> SUFFICES ASSUME NEW j \in Positions
             PROVE  IF j < k + 1 /\ IsXdp(elf[j])
                      THEN \/ out'[elf[j].name] =
                                Object(elf[j].name, {Printk}, roData)
                           \/ elf[j].name \in lost'
                      ELSE out'[elf[j].name] = before[elf[j].name]
  BY DEF BuiltPrefix, Positions, IsXdp, Object
<1>4. CASE j = k
  BY <1>1, <1>2, <1>3, <1>4 DEF Positions, Cur
<1>5. CASE j # k
  <2>1. elf[j].name # Cur.name
    BY <1>1, <1>5, ElfFacts DEF DInv, Cur
  <2>2. out'[elf[j].name] = out[elf[j].name]
    BY <1>2, <1>3, <2>1
  <2>3. j < k + 1 <=> j < k
    BY <1>1, <1>5 DEF Positions
  <2> QED BY <2>2, <2>3 DEF DInv, BuiltPrefix
<1> QED BY <1>4, <1>5

LEMMA NextDInv == DInv /\ [Next]_vars => DInv'
<1> SUFFICES ASSUME DInv, [Next]_vars PROVE DInv'
  OBVIOUS
<1> USE DEF DInv
<1>1. Len(elf) \in Nat /\ k \in Nat /\ (k \in Positions => Cur.name \in Names)
  BY ElfFacts DEF TypeOK, Positions, Cur
<1>2. CASE Open
  <2>1. TypeOK' /\ StageInv' /\ OneMeansUnopened'
    BY <1>2 DEF Open, TypeOK, StageInv, OneMeansUnopened, Positions, IsXdp, Cur
  <2> QED BY <1>2, <2>1, SameFiles DEF Open
<1>3. CASE OpenFails
  <2>1. TypeOK' /\ StageInv' /\ OneMeansUnopened'
    BY <1>3 DEF OpenFails, Ends, TypeOK, StageInv, OneMeansUnopened
  <2> QED BY <1>3, <2>1, SameFiles DEF OpenFails, Ends
<1>4. CASE LoadRodata
  <2>1. TypeOK' /\ StageInv' /\ OneMeansUnopened'
    BY <1>4 DEF LoadRodata, TypeOK, StageInv, OneMeansUnopened, Loads
  <2>2. k = 1
    BY <1>4 DEF LoadRodata, StageInv
  <2>3. \A j \in Positions : ~(j < k)
    BY <1>1, <2>2 DEF Positions
  <2>4. \A j \in Positions : out[elf[j].name] = before[elf[j].name]
    BY <2>3 DEF BuiltPrefix
  <2>5. BuiltPrefix'
    BY <1>4, <2>3, <2>4 DEF LoadRodata, BuiltPrefix, Positions
  <2> QED BY <2>1, <2>5
<1>5. CASE Skip
  <2>1. TypeOK' /\ StageInv' /\ OneMeansUnopened'
    BY <1>1, <1>5 DEF Skip, TypeOK, StageInv, OneMeansUnopened
  <2>2. BuiltPrefix'
    BY <1>1, <1>5 DEF Skip, BuiltPrefix, Positions, IsXdp, Cur, Object
  <2> QED BY <2>1, <2>2
<1>6. CASE Construct
  <2>1. TypeOK' /\ StageInv' /\ OneMeansUnopened'
    BY <1>1, <1>6
       DEF Construct, TypeOK, StageInv, OneMeansUnopened, Positions, IsXdp, Cur
  <2> QED BY <1>6, <2>1, SameFiles DEF Construct
<1>7. CASE AddHelpers
  <2>1. Registers(Printk)
    BY <1>7, HelperAssumption DEF AddHelpers, StageInv, Registers
  <2>2. TypeOK' /\ StageInv' /\ OneMeansUnopened'
    BY <1>7, <2>1 DEF AddHelpers, TypeOK, StageInv, OneMeansUnopened,
                      Positions, IsXdp, Cur
  <2> QED BY <1>7, <2>1, <2>2, SameFiles DEF AddHelpers
<1>8. CASE LoadCode
  <2>1. TypeOK' /\ StageInv' /\ OneMeansUnopened'
    BY <1>1, <1>8
       DEF LoadCode, TypeOK, StageInv, OneMeansUnopened, Positions, IsXdp, Cur
  <2> QED BY <1>8, <2>1, SameFiles DEF LoadCode
<1>9. CASE Compile
  <2>1. result' = Object(Cur.name, {Printk}, roData)
    BY <1>9 DEF Compile, StageInv
  <2>2. Cur.name \in Names /\ {Printk} \in {{}, {Printk}} /\ roData \in Loads
    BY <1>1, <1>9 DEF Compile, StageInv, TypeOK
  <2>3. result' \in Objects
    BY <2>1, <2>2 DEF Objects
  <2>4. TypeOK'
    BY <1>9, <2>3 DEF Compile, TypeOK
  <2>5. StageInv' /\ OneMeansUnopened'
    BY <1>9, <2>1
       DEF Compile, StageInv, OneMeansUnopened, Positions, IsXdp, Cur, Object
  <2> QED BY <1>9, <2>4, <2>5, SameFiles DEF Compile
<1>10. CASE CompileFails
  <2>1. TypeOK' /\ StageInv' /\ OneMeansUnopened'
    BY <1>10 DEF CompileFails, Ends, TypeOK, StageInv, OneMeansUnopened
  <2> QED BY <1>10, <2>1, SameFiles DEF CompileFails, Ends
<1>11. ASSUME phase = "write", phase' = "program", k' = k + 1,
              UNCHANGED <<status, elf, roData, insts, extFuncs, result, before>>
       PROVE  StageInv' /\ OneMeansUnopened' /\ k' \in 1 .. Len(elf) + 1
              /\ k \in Positions
  BY <1>1, <1>11 DEF StageInv, OneMeansUnopened, Positions
<1>12. CASE Write
  <2>1. result = Object(Cur.name, {Printk}, roData)
        /\ result \in Objects \cup {Absent}
    BY <1>12 DEF Write, StageInv, TypeOK
  <2>2. BuiltPrefix'
    BY <1>12, <2>1, WriteStep DEF Write
  <2>3. TypeOK'
    BY <1>1, <1>11, <1>12, <2>1 DEF Write, TypeOK
  <2> QED BY <1>11, <1>12, <2>2, <2>3 DEF Write
<1>13. CASE WriteFails
  <2>1. PICK f \in {out[Cur.name], Partial} :
               out' = [out EXCEPT ![Cur.name] = f]
    BY <1>13 DEF WriteFails
  <2>2. BuiltPrefix'
    BY <1>13, <2>1, WriteStep DEF WriteFails
  <2>3. Cur.name \in Names /\ f \in Objects \cup {Absent, Old, Partial}
    BY <1>1, <1>11, <1>13, <2>1 DEF WriteFails, TypeOK
  <2>4. TypeOK'
    BY <1>11, <1>13, <2>1, <2>3 DEF WriteFails, TypeOK
  <2> QED BY <1>11, <1>13, <2>2, <2>4 DEF WriteFails
<1>14. CASE Finish
  <2>1. TypeOK' /\ StageInv' /\ OneMeansUnopened'
    BY <1>14 DEF Finish, Ends, TypeOK, StageInv, OneMeansUnopened
  <2> QED BY <1>14, <2>1, SameFiles DEF Finish, Ends
<1>15. CASE UNCHANGED vars
  <2>1. TypeOK' /\ StageInv' /\ OneMeansUnopened'
    BY <1>15 DEF vars, TypeOK, StageInv, OneMeansUnopened, Positions, IsXdp,
                 Cur, Object
  <2> QED BY <1>15, <2>1, SameFiles DEF vars
<1> QED BY <1>2, <1>3, <1>4, <1>5, <1>6, <1>7, <1>8, <1>9, <1>10, <1>12,
           <1>13, <1>14, <1>15 DEF Next

LEMMA DInvariance == Spec => []DInv
<1> QED BY InitDInv, NextDInv, PTL DEF Spec

(* The values the driver handles stay of their types for every ELF.        *)
THEOREM Typing == Spec => []TypeOK
<1>1. DInv => TypeOK
  BY DEF DInv
<1> QED BY <1>1, DInvariance, PTL

(* At every moment of the build, and so when it fails, the XDP programs    *)
(* before the current one have their objects and all other files are as    *)
(* they were.                                                              *)
THEOREM PrefixIsBuilt == Spec => []BuiltPrefix
<1>1. DInv => BuiltPrefix
  BY DEF DInv
<1> QED BY <1>1, DInvariance, PTL

(* No failure but that to open the ELF ends in exit status 1.              *)
THEOREM StatusOne == Spec => []OneMeansUnopened
<1>1. DInv => OneMeansUnopened
  BY DEF DInv
<1> QED BY <1>1, DInvariance, PTL
=============================================================================
