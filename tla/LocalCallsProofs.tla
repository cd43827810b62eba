--------------------------- MODULE LocalCallsProofs ---------------------------
(***************************************************************************)
(* Local calls, for every set of blocks and values and every size of the   *)
(* stacks: the stack pointer follows the calls, and the emitted code keeps *)
(* the promise of BpfCalls.                                                *)
(***************************************************************************)
EXTENDS LocalCalls, SequenceTheorems, TLAPS

(* What is pushed for a pending call is a return address and registers.    *)
ItemsInv ==
  \A d \in 0 .. CALL_STACK_SIZE : d > 0 /\ 5 * d <= callItemCnt =>
    /\ callStack[AddrItem(5 * d)] \in Points
    /\ \A r \in Saved : callStack[RegItem(5 * d, r)] \in Vals

Inv == TypeOK /\ StackBalanced /\ ItemsInv

-----------------------------------------------------------------------------
(* Arithmetic of the data stack.                                           *)
LEMMA BaseStep ==
  ASSUME NEW d \in Int
  PROVE  Base(d) \in Int /\ Base(d + 1) = Base(d) - STACK_SIZE
                         /\ Base(d - 1) = Base(d) + STACK_SIZE
BY SizeAssumption DEF Base, StackEnd

(* The slots of a function are in the data stack at every depth.           *)
LEMMA BaseRange ==
  ASSUME NEW d \in 0 .. CALL_STACK_SIZE, NEW o \in Offsets
  PROVE  Base(d) + o \in 0 .. StackEnd - 1 /\ Base(d) + o \in Slots
<1>1. /\ STACK_SIZE \in Nat /\ CALL_STACK_SIZE \in Nat /\ d \in Nat
      /\ d <= CALL_STACK_SIZE /\ StackEnd \in Int /\ EBPF_STACK_SIZE \in Nat
      /\ o \in Int /\ -EBPF_STACK_SIZE <= o /\ o <= -1
  BY SizeAssumption, ProgramAssumption DEF StackEnd, EBPF_STACK_SIZE
<1>2. STACK_SIZE * d \in Nat /\ STACK_SIZE * d <= STACK_SIZE * CALL_STACK_SIZE
  BY <1>1
<1>3. STACK_SIZE * CALL_STACK_SIZE + EBPF_STACK_SIZE <= StackEnd
  BY SizeAssumption
<1>4. Base(d) + o \in 0 .. StackEnd - 1
  BY <1>1, <1>2, <1>3 DEF Base
<1> QED BY <1>4 DEF Slots

(* Slots within STACK_SIZE bytes of r10 belong to one depth.               *)
LEMMA BasesApart ==
  ASSUME Offsets \subseteq -STACK_SIZE .. -1,
         NEW d \in Nat, NEW e \in Nat, NEW o \in Offsets, NEW p \in Offsets,
         Base(d) + o = Base(e) + p
  PROVE  d = e
<1>1. ASSUME NEW a \in Nat, NEW b \in Nat, a < b
      PROVE  STACK_SIZE * b >= STACK_SIZE * a + STACK_SIZE
  <2>1. PICK c \in Nat : b = a + 1 + c
    <3>1. b - a - 1 \in Nat /\ b = a + 1 + (b - a - 1)
      BY <1>1
    <3> QED BY <3>1
  <2>2. STACK_SIZE * b = STACK_SIZE * a + STACK_SIZE + STACK_SIZE * c
    BY <2>1, SizeAssumption
  <2>3. STACK_SIZE * c \in Nat /\ STACK_SIZE * a \in Nat /\ STACK_SIZE \in Nat
    BY <2>1, SizeAssumption
  <2> QED BY <2>2, <2>3
<1>2. /\ STACK_SIZE \in Nat /\ o \in -STACK_SIZE .. -1 /\ p \in -STACK_SIZE .. -1
      /\ STACK_SIZE * d \in Nat /\ STACK_SIZE * e \in Nat /\ StackEnd \in Int
  BY SizeAssumption DEF StackEnd
<1>3. ~(d < e)
  BY <1>1, <1>2 DEF Base
<1>4. ~(e < d)
  BY <1>1, <1>2 DEF Base
<1> QED BY <1>3, <1>4

(* The counter and the depth.                                              *)
LEMMA DepthFacts ==
  ASSUME Inv
  PROVE  /\ Depth \in 0 .. CALL_STACK_SIZE /\ Depth \in Nat
         /\ callItemCnt = 5 * Depth /\ callItemCnt \in Nat
         /\ r10 = Base(Depth)
         /\ (callItemCnt + 5) \div 5 = Depth + 1
         /\ (callItemCnt - 5) \div 5 = Depth - 1
<1>1. callItemCnt \in Int /\ 0 <= callItemCnt /\ callItemCnt <= 5 * CALL_STACK_SIZE
      /\ CALL_STACK_SIZE \in Nat
  BY SizeAssumption DEF Inv, TypeOK
<1> QED BY <1>1 DEF Inv, StackBalanced, Depth

LEMMA InitInv == Init => Inv
<1> SUFFICES ASSUME Init PROVE Inv
  OBVIOUS
<1>1. TypeOK
  BY PointsAssumption, SizeAssumption DEF Init, TypeOK, StackEnd, Items, Saved
<1>2. Depth = 0 /\ Base(0) = StackEnd /\ 0 \in 0 .. CALL_STACK_SIZE
  BY SizeAssumption DEF Init, Depth, Base, StackEnd
<1>3. StackBalanced
  BY <1>2, BaseRange DEF Init, StackBalanced
<1>4. ItemsInv
  BY SizeAssumption DEF Init, ItemsInv
<1> QED BY <1>1, <1>3, <1>4 DEF Inv

(* A call pushes a whole frame and leaves the frames below alone.          *)
LEMMA CallStep ==
  ASSUME Inv, NEW ret \in Points, NEW target \in Points, Call(ret, target)
  PROVE  /\ Inv' /\ Depth' = Depth + 1 /\ Depth + 1 \in 1 .. CALL_STACK_SIZE
         /\ callStack'[AddrItem(5 * (Depth + 1))] = ret
         /\ \A r \in Saved : callStack'[RegItem(5 * (Depth + 1), r)] = regs[r]
         /\ \A d \in 1 .. Depth :
              /\ callStack'[AddrItem(5 * d)] = callStack[AddrItem(5 * d)]
              /\ \A r \in Saved :
                   callStack'[RegItem(5 * d, r)] = callStack[RegItem(5 * d, r)]
<1> DEFINE D == Depth
<1>1. /\ D \in Nat /\ callItemCnt = 5 * D /\ r10 = Base(D)
      /\ D + 1 \in 1 .. CALL_STACK_SIZE /\ CALL_STACK_SIZE \in Nat
      /\ callItemCnt' = 5 * (D + 1)
  BY DepthFacts, SizeAssumption DEF Call
<1>2. Depth' = D + 1
  BY <1>1, DepthFacts DEF Depth, Call
<1>3. /\ r10' = Base(D + 1) /\ r10' \in Int /\ at' \in Points
      /\ UNCHANGED <<regs, mem>>
  BY <1>1, BaseStep DEF Call
<1>4. ASSUME NEW n \in Items
      PROVE  callStack'[n] = IF n = 5 * (D + 1) - 1 THEN ret
                             ELSE IF 5 * (D + 1) - n + 4 \in Saved
                                  THEN regs[5 * (D + 1) - n + 4]
                                  ELSE callStack[n]
  BY <1>1 DEF Call, Pushed, AddrItem
<1> HIDE DEF D
<1>5. callStack'[AddrItem(5 * (D + 1))] = ret
  BY <1>1, <1>4 DEF AddrItem, Items
<1>6. ASSUME NEW r \in Saved
      PROVE  callStack'[RegItem(5 * (D + 1), r)] = regs[r]
  <2>1. r \in Int /\ 6 <= r /\ r <= 9
    BY DEF Saved
  <2> DEFINE n == 5 * (D + 1) - (r - 4)
  <2>2. /\ n \in Items /\ n # 5 * (D + 1) - 1 /\ 5 * (D + 1) - n + 4 = r
    BY <1>1, <2>1 DEF Items
  <2> QED BY <1>4, <2>2 DEF RegItem
<1>7. ASSUME NEW d \in 1 .. D
      PROVE  /\ callStack'[AddrItem(5 * d)] = callStack[AddrItem(5 * d)]
             /\ \A r \in Saved :
                  callStack'[RegItem(5 * d, r)] = callStack[RegItem(5 * d, r)]
  <2>1. ASSUME NEW n \in Items, n < 5 * D PROVE callStack'[n] = callStack[n]
    <3>1. n \in Int /\ n # 5 * (D + 1) - 1 /\ 5 * (D + 1) - n + 4 \notin Saved
      BY <1>1, <2>1 DEF Items, Saved
    <3> QED BY <1>4, <3>1
  <2>2. AddrItem(5 * d) \in Items /\ AddrItem(5 * d) < 5 * D
    BY <1>1 DEF AddrItem, Items
  <2>3. \A r \in Saved : RegItem(5 * d, r) \in Items /\ RegItem(5 * d, r) < 5 * D
    BY <1>1 DEF RegItem, Items, Saved
  <2> QED BY <2>1, <2>2, <2>3
<1>8. TypeOK'
  <2>1. callItemCnt' \in 0 .. 5 * CALL_STACK_SIZE
    BY <1>1
  <2>2. callStack' \in [Items -> Points \cup Vals]
    <3>1. callStack' = Pushed(ret)
      BY DEF Call
    <3>2. callStack \in [Items -> Points \cup Vals] /\ regs \in [Saved -> Vals]
      BY DEF Inv, TypeOK
    <3> QED BY <3>1, <3>2 DEF Pushed
  <2> QED BY <1>3, <2>1, <2>2 DEF Inv, TypeOK
<1>9. StackBalanced'
  <2>1. \A o \in Offsets : Base(D + 1) + o \in 0 .. StackEnd - 1
    BY <1>1, BaseRange
  <2> QED BY <1>1, <1>2, <1>3, <2>1 DEF StackBalanced, Base, StackEnd
<1>10. ItemsInv'
  <2> SUFFICES ASSUME NEW d \in 0 .. CALL_STACK_SIZE, d > 0,
                      5 * d <= 5 * (D + 1)
               PROVE  /\ callStack'[AddrItem(5 * d)] \in Points
                      /\ \A r \in Saved : callStack'[RegItem(5 * d, r)] \in Vals
    BY <1>1 DEF ItemsInv, AddrItem, RegItem
  <2>1. CASE d = D + 1
    BY <1>5, <1>6, <2>1 DEF Inv, TypeOK
  <2>2. CASE d # D + 1
    <3>1. d \in 1 .. D /\ 5 * d <= callItemCnt
      BY <1>1, <2>2
    <3> QED BY <1>7, <3>1 DEF Inv, ItemsInv
  <2> QED BY <2>1, <2>2
<1> QED BY <1>1, <1>2, <1>5, <1>6, <1>7, <1>8, <1>9, <1>10 DEF Inv, D

(* A return takes the topmost frame off.                                   *)
LEMMA ReturnStep ==
  ASSUME Inv, Return
  PROVE  /\ Inv' /\ Depth' = Depth - 1 /\ Depth \in 1 .. CALL_STACK_SIZE
         /\ callStack' = callStack /\ mem' = mem
<1>1. /\ Depth \in 0 .. CALL_STACK_SIZE /\ Depth \in Nat /\ Depth # 0
      /\ callItemCnt = 5 * Depth
      /\ callItemCnt' = 5 * (Depth - 1) /\ CALL_STACK_SIZE \in Nat
  BY DepthFacts, SizeAssumption DEF Return
<1>2. Depth' = Depth - 1
  BY <1>1, DepthFacts DEF Depth, Return
<1>3. r10' = Base(Depth - 1) /\ r10' \in Int
  BY <1>1, DepthFacts, BaseStep DEF Return
<1>4. at' \in Points /\ regs' \in [Saved -> Vals]
      /\ UNCHANGED <<mem, callStack>>
  BY <1>1 DEF Return, Inv, ItemsInv
<1>5. TypeOK'
  BY <1>1, <1>3, <1>4 DEF Inv, TypeOK
<1>6. StackBalanced'
  <2>1. Depth - 1 \in 0 .. CALL_STACK_SIZE
    BY <1>1
  <2>2. \A o \in Offsets : Base(Depth - 1) + o \in 0 .. StackEnd - 1
    BY <2>1, BaseRange
  <2> QED BY <1>1, <1>2, <1>3, <2>2 DEF StackBalanced, Base, StackEnd
<1>7. ItemsInv'
  BY <1>1, <1>4 DEF Inv, ItemsInv, AddrItem, RegItem
<1> QED BY <1>1, <1>2, <1>4, <1>5, <1>6, <1>7 DEF Inv

(* The other steps leave the counter and the items of callStack alone.     *)
LEMMA QuietStep ==
  ASSUME Inv, TypeOK', r10' = r10, callStack' = callStack,
         callItemCnt' = callItemCnt
  PROVE  Inv' /\ Depth' = Depth
<1>1. Depth' = Depth
  BY DEF Depth
<1>2. StackBalanced'
  BY <1>1 DEF Inv, StackBalanced, Base, StackEnd
<1>3. ItemsInv'
  BY DEF Inv, ItemsInv, AddrItem, RegItem
<1> QED BY <1>1, <1>2, <1>3 DEF Inv

(* A store of the running function is inside the data stack.               *)
LEMMA StoreStep ==
  ASSUME Inv, NEW o \in Offsets, NEW v \in Vals, Store(o, v)
  PROVE  /\ Inv' /\ Depth' = Depth /\ UNCHANGED <<at, regs, callStack>>
         /\ Base(Depth) + o \in Slots
         /\ mem' = [mem EXCEPT ![Base(Depth) + o] = v]
<1>1. Base(Depth) + o \in Slots
  BY DepthFacts, BaseRange
<1>2. mem' = [mem EXCEPT ![Base(Depth) + o] = v]
  BY DepthFacts DEF Store
<1>3. TypeOK'
  BY <1>1, <1>2 DEF Store, Inv, TypeOK
<1> QED BY <1>1, <1>2, <1>3, QuietStep DEF Store

LEMMA NextInv == Inv /\ [Next]_vars => Inv'
<1> SUFFICES ASSUME Inv, [Next]_vars PROVE Inv'
  OBVIOUS
<1>1. ASSUME NEW r \in Scratch, NEW v \in Vals, SetReg(r, v) PROVE Inv'
  <2>1. TypeOK'
    BY <1>1, ProgramAssumption DEF SetReg, Inv, TypeOK
  <2> QED BY <1>1, <2>1, QuietStep DEF SetReg
<1>2. ASSUME NEW o \in Offsets, NEW v \in Vals, Store(o, v) PROVE Inv'
  BY <1>2, StoreStep
<1>3. ASSUME NEW ret \in Points, NEW target \in Points, Call(ret, target)
      PROVE  Inv'
  BY <1>3, CallStep
<1>4. CASE Overrun
  <2>1. TypeOK'
    BY <1>4 DEF Overrun, Inv, TypeOK
  <2> QED BY <1>4, <2>1, QuietStep DEF Overrun
<1>5. CASE Return
  BY <1>5, ReturnStep
<1>6. CASE Exit
  <2>1. TypeOK'
    BY <1>6 DEF Exit, Inv, TypeOK
  <2> QED BY <1>6, <2>1, QuietStep DEF Exit
<1>7. CASE UNCHANGED vars
  <2>1. TypeOK'
    BY <1>7 DEF vars, Inv, TypeOK
  <2> QED BY <1>7, <2>1, QuietStep DEF vars
<1> QED BY <1>1, <1>2, <1>3, <1>4, <1>5, <1>6, <1>7 DEF Next

LEMMA Invariance == Spec => []Inv
<1> QED BY InitInv, NextInv, PTL DEF Spec

(* The registers, slots and items of callStack always hold what they may.  *)
THEOREM Typing == Spec => []TypeOK
<1>1. Inv => TypeOK
  BY DEF Inv
<1> QED BY <1>1, Invariance, PTL

(* After any sequence of calls and returns r10 has moved once for each     *)
(* pending call, and the running function's slots, up to EBPF_STACK_SIZE   *)
(* bytes of them, lie in the data stack.                                   *)
THEOREM StackStaysBalanced == Spec => []StackBalanced
<1>1. Inv => StackBalanced
  BY DEF Inv
<1> QED BY <1>1, Invariance, PTL

-----------------------------------------------------------------------------
(* The suspended callers, as BpfCalls sees them.                           *)
Stack == [k \in 1 .. Depth |-> FrameAt(k)]

LEMMA SlotsType ==
  ASSUME Inv, NEW d \in 0 .. CALL_STACK_SIZE
  PROVE  SlotsAt(d) \in Bpf!Locals
<1>1. mem \in [Slots -> Vals]
  BY DEF Inv, TypeOK
<1>2. \A o \in Offsets : Base(d) + o \in Slots
  BY BaseRange
<1> QED BY <1>1, <1>2 DEF SlotsAt, Bpf!Locals

LEMMA FrameType ==
  ASSUME Inv, NEW k \in 1 .. Depth
  PROVE  FrameAt(k) \in Bpf!Frame
<1>1. /\ k \in 0 .. CALL_STACK_SIZE /\ k > 0 /\ 5 * k <= callItemCnt
      /\ k - 1 \in 0 .. CALL_STACK_SIZE
  BY DepthFacts, SizeAssumption
<1>2. callStack[AddrItem(5 * k)] \in Points
  BY <1>1 DEF Inv, ItemsInv
<1>3. \A r \in Saved : callStack[RegItem(5 * k, r)] \in Vals
  BY <1>1 DEF Inv, ItemsInv
<1>4. [r \in Saved |-> callStack[RegItem(5 * k, r)]] \in Bpf!Regs
  BY <1>3 DEF Bpf!Regs, Bpf!Saved, Saved
<1> QED BY <1>1, <1>2, <1>4, SlotsType DEF FrameAt, Bpf!Frame

LEMMA StackType ==
  ASSUME Inv
  PROVE  Stack \in Seq(Bpf!Frame) /\ Len(Stack) = Depth
<1>1. \A k \in 1 .. Depth : FrameAt(k) \in Bpf!Frame
  BY FrameType
<1>2. Depth \in Nat
  BY DepthFacts
<1> QED BY <1>1, <1>2 DEF Stack

(* A step that moves no frame and no slot of a suspended caller leaves the *)
(* abstract stack as it is.                                                *)
LEMMA SameStack ==
  ASSUME Inv, Depth' = Depth, callStack' = callStack,
         \A d \in 0 .. Depth - 1 : SlotsAt(d)' = SlotsAt(d)
  PROVE  Stack' = Stack
<1>1. ASSUME NEW k \in 1 .. Depth PROVE FrameAt(k)' = FrameAt(k)
  <2>1. k - 1 \in 0 .. Depth - 1 /\ k \in Int
    BY DepthFacts
  <2>2. SlotsAt(k - 1)' = SlotsAt(k - 1)
    BY <2>1
  <2> QED BY <2>2 DEF FrameAt, AddrItem, RegItem
<1> QED BY <1>1 DEF Stack

LEMMA SameSlots ==
  ASSUME mem' = mem, NEW d PROVE SlotsAt(d)' = SlotsAt(d)
BY DEF SlotsAt, Base, StackEnd

-----------------------------------------------------------------------------
(* From here on functions use at most STACK_SIZE bytes of stack.           *)
LEMMA RefInit == Init => Bpf!Init
<1> SUFFICES ASSUME Init PROVE Bpf!Init
  OBVIOUS
<1>1. Inv
  BY InitInv
<1>2. Depth = 0
  BY DEF Init, Depth
<1>3. regs \in Bpf!Regs
  BY PointsAssumption DEF Init, Bpf!Regs, Bpf!Saved, Saved
<1>4. SlotsAt(Depth) \in Bpf!Locals
  BY <1>1, DepthFacts, SlotsType
<1>5. Stack = <<>>
  BY <1>1, <1>2, StackType, EmptySeq
<1> QED BY <1>3, <1>4, <1>5 DEF Bpf!Init, Init, Stack

LEMMA RefSetReg ==
  ASSUME Inv, NEW r \in Scratch, NEW v \in Vals, SetReg(r, v)
  PROVE  Bpf!SetReg
<1>1. Depth' = Depth /\ mem' = mem /\ callStack' = callStack /\ at' = at
  BY DEF SetReg, Depth
<1>2. SlotsAt(Depth)' = SlotsAt(Depth)
  BY <1>1 DEF SlotsAt, Base, StackEnd
<1>3. Stack' = Stack
  BY <1>1, SameSlots, SameStack
<1>4. r \in Bpf!Saved
  BY ProgramAssumption DEF Saved, Bpf!Saved
<1> QED BY <1>1, <1>2, <1>3, <1>4 DEF Bpf!SetReg, SetReg, Stack

LEMMA RefStore ==
  ASSUME Offsets \subseteq -STACK_SIZE .. -1,
         Inv, NEW o \in Offsets, NEW v \in Vals, Store(o, v)
  PROVE  Bpf!Store /\ \A d \in 0 .. Depth - 1 : SlotsAt(d)' = SlotsAt(d)
<1>1. /\ Depth \in 0 .. CALL_STACK_SIZE /\ Depth \in Nat
      /\ Depth' = Depth /\ UNCHANGED <<at, regs, callStack>>
      /\ mem \in [Slots -> Vals] /\ Base(Depth) + o \in Slots
      /\ mem' = [mem EXCEPT ![Base(Depth) + o] = v]
  BY DepthFacts, StoreStep DEF Inv, TypeOK
<1>2. ASSUME NEW d \in 0 .. CALL_STACK_SIZE, NEW p \in Offsets
      PROVE  mem'[Base(d) + p] = IF d = Depth /\ p = o THEN v
                                 ELSE mem[Base(d) + p]
  <2>1. Base(d) + p \in Slots
    BY BaseRange
  <2>2. Base(d) + p = Base(Depth) + o => d = Depth
    BY <1>1, BasesApart, SizeAssumption
  <2>3. d = Depth /\ p # o => Base(d) + p # Base(Depth) + o
    BY <1>1, BaseStep, ProgramAssumption, SizeAssumption DEF EBPF_STACK_SIZE
  <2> QED BY <1>1, <2>1, <2>2, <2>3
<1>3. ASSUME NEW d \in 0 .. Depth - 1 PROVE SlotsAt(d)' = SlotsAt(d)
  <2>1. d \in 0 .. CALL_STACK_SIZE /\ d # Depth
    BY <1>1, SizeAssumption
  <2>2. SlotsAt(d)' = [p \in Offsets |-> mem'[Base(d) + p]]
    BY DEF SlotsAt, Base, StackEnd
  <2> QED BY <1>2, <2>1, <2>2 DEF SlotsAt
<1>4. SlotsAt(Depth)' = [SlotsAt(Depth) EXCEPT ![o] = v]
  <2>1. SlotsAt(Depth)' = [p \in Offsets |-> mem'[Base(Depth) + p]]
    BY <1>1 DEF SlotsAt, Base, StackEnd
  <2>2. \A p \in Offsets : mem'[Base(Depth) + p] =
                              IF p = o THEN v ELSE mem[Base(Depth) + p]
    BY <1>1, <1>2
  <2>3. SlotsAt(Depth)' = [p \in Offsets |-> IF p = o THEN v
                                             ELSE mem[Base(Depth) + p]]
    BY <2>1, <2>2
  <2> QED BY <2>3 DEF SlotsAt
<1>5. Stack' = Stack
  BY <1>1, <1>3, SameStack
<1> QED BY <1>1, <1>3, <1>4, <1>5 DEF Bpf!Store, Store, Stack

LEMMA RefCall ==
  ASSUME Inv, NEW ret \in Points, NEW target \in Points, Call(ret, target)
  PROVE  Bpf!Call
<1> DEFINE top == [ret |-> ret, regs |-> regs, locals |-> SlotsAt(Depth)]
<1>0. PICK D \in Nat : D = Depth
  BY DepthFacts
<1>1. /\ Depth' = D + 1 /\ D + 1 \in 1 .. CALL_STACK_SIZE
      /\ Inv' /\ mem' = mem /\ at \in Points /\ at' \in Points
      /\ CALL_STACK_SIZE \in Nat
  BY <1>0, CallStep, SizeAssumption DEF Call
<1>2. regs' \in Bpf!Regs
  BY <1>1 DEF Inv, TypeOK, Bpf!Regs, Bpf!Saved, Saved
<1>3. SlotsAt(D + 1)' \in Bpf!Locals /\ SlotsAt(Depth)' = SlotsAt(D + 1)'
  <2>1. D + 1 \in 0 .. CALL_STACK_SIZE
    BY <1>1
  <2>2. SlotsAt(D + 1) \in Bpf!Locals
    BY <2>1, SlotsType
  <2>3. SlotsAt(D + 1)' = SlotsAt(D + 1)
    BY <1>1, SameSlots
  <2>4. SlotsAt(Depth)' = SlotsAt(D + 1)'
    BY <1>1 DEF SlotsAt
  <2> QED BY <2>2, <2>3, <2>4 DEF Bpf!Locals
<1>4. FrameAt(D + 1)' = top
  <2>1. regs = [r \in Saved |-> regs[r]]
    BY DEF Inv, TypeOK
  <2>2. /\ callStack'[AddrItem(5 * (D + 1))] = ret
        /\ \A r \in Saved : callStack'[RegItem(5 * (D + 1), r)] = regs[r]
    BY <1>0, CallStep
  <2>3. [r \in Saved |-> callStack'[RegItem(5 * (D + 1), r)]] = regs
    BY <2>1, <2>2
  <2>4. (D + 1) - 1 = Depth
    BY <1>0
  <2>5. FrameAt(D + 1)' =
          [ret    |-> callStack'[AddrItem(5 * (D + 1))],
           regs   |-> [r \in Saved |-> callStack'[RegItem(5 * (D + 1), r)]],
           locals |-> SlotsAt((D + 1) - 1)]
    <3>1. SlotsAt((D + 1) - 1)' = SlotsAt((D + 1) - 1)
      BY <1>1, SameSlots
    <3> QED BY <3>1 DEF FrameAt, AddrItem, RegItem
  <2> QED BY <2>2, <2>3, <2>4, <2>5
<1>5. ASSUME NEW k \in 1 .. D PROVE FrameAt(k)' = FrameAt(k)
  <2>1. /\ callStack'[AddrItem(5 * k)] = callStack[AddrItem(5 * k)]
        /\ \A r \in Saved :
             callStack'[RegItem(5 * k, r)] = callStack[RegItem(5 * k, r)]
    BY <1>0, CallStep
  <2>2. FrameAt(k)' =
          [ret    |-> callStack'[AddrItem(5 * k)],
           regs   |-> [r \in Saved |-> callStack'[RegItem(5 * k, r)]],
           locals |-> SlotsAt(k - 1)]
    <3>1. SlotsAt(k - 1)' = SlotsAt(k - 1)
      BY <1>1, SameSlots
    <3> QED BY <3>1 DEF FrameAt, AddrItem, RegItem
  <2> QED BY <2>1, <2>2 DEF FrameAt
<1>6. Stack' = Append(Stack, top)
  <2>1. /\ Stack \in Seq(Bpf!Frame) /\ Len(Stack) = D
        /\ Stack = [k \in 1 .. D |-> FrameAt(k)]
    BY <1>0, StackType DEF Stack
  <2>2. /\ Stack' = [k \in 1 .. D + 1 |-> FrameAt(k)']
    BY <1>1 DEF Stack
  <2>3. Append(Stack, top) = [k \in 1 .. D + 1 |-> IF k = D + 1 THEN top
                                                   ELSE Stack[k]]
    BY <2>1
  <2>4. ASSUME NEW k \in 1 .. D + 1
        PROVE  FrameAt(k)' = IF k = D + 1 THEN top ELSE Stack[k]
    <3>1. CASE k = D + 1
      BY <1>4, <3>1
    <3>2. CASE k # D + 1
      <4>1. k \in 1 .. D
        BY <3>2
      <4> QED BY <1>5, <2>1, <3>2, <4>1
    <3> QED BY <3>1, <3>2
  <2> QED BY <2>2, <2>3, <2>4
<1>7. Len(Stack) < CALL_STACK_SIZE
  BY <1>0, <1>1, StackType
<1> QED BY <1>1, <1>2, <1>3, <1>6, <1>7 DEF Bpf!Call, Stack

LEMMA RefReturn ==
  ASSUME Inv, Return
  PROVE  Bpf!Return
<1>0. PICK D \in Nat : D = Depth
  BY DepthFacts
<1>1. /\ Depth' = D - 1 /\ D \in 1 .. CALL_STACK_SIZE /\ at \in Points
      /\ callStack' = callStack /\ mem' = mem /\ callItemCnt = 5 * D
  BY <1>0, ReturnStep, DepthFacts DEF Return
<1>2. Stack \in Seq(Bpf!Frame) /\ Len(Stack) = D
      /\ Stack = [k \in 1 .. D |-> FrameAt(k)] /\ Stack # <<>>
  BY <1>0, <1>1, StackType DEF Stack
<1>3. Stack[D] = FrameAt(D)
  BY <1>1, <1>2
<1>4. at' = Stack[D].ret /\ regs' = Stack[D].regs
  BY <1>1, <1>3 DEF Return, FrameAt
<1>5. SlotsAt(Depth)' = Stack[D].locals
  <2>1. SlotsAt(Depth)' = SlotsAt(D - 1)
    BY <1>1 DEF SlotsAt, Base, StackEnd
  <2> QED BY <1>3, <2>1 DEF FrameAt
<1>6. Stack' = SubSeq(Stack, 1, Len(Stack) - 1)
  <2>1. ASSUME NEW k \in 1 .. D - 1 PROVE FrameAt(k)' = FrameAt(k)
    <3>1. SlotsAt(k - 1)' = SlotsAt(k - 1)
      BY <1>1, SameSlots
    <3> QED BY <1>1, <3>1 DEF FrameAt, AddrItem, RegItem
  <2>2. Stack' = [k \in 1 .. D - 1 |-> FrameAt(k)]
    BY <1>1, <2>1 DEF Stack
  <2>3. SubSeq(Stack, 1, D - 1) = [k \in 1 .. D - 1 |-> Stack[k]]
    BY <1>1, <1>2
  <2>4. \A k \in 1 .. D - 1 : Stack[k] = FrameAt(k)
    BY <1>1, <1>2
  <2> QED BY <1>2, <2>2, <2>3, <2>4
<1> QED BY <1>1, <1>2, <1>4, <1>5, <1>6 DEF Bpf!Return, Stack

LEMMA RefOverrun ==
  ASSUME Inv, Overrun
  PROVE  Bpf!TooDeep
<1>1. Depth' = Depth /\ mem' = mem /\ callStack' = callStack
  BY DEF Overrun, Depth
<1>2. SlotsAt(Depth)' = SlotsAt(Depth) /\ Stack' = Stack
  BY <1>1, SameSlots, SameStack DEF SlotsAt, Base, StackEnd
<1>3. Len(Stack) = CALL_STACK_SIZE
  BY StackType, DepthFacts, SizeAssumption DEF Overrun
<1> QED BY <1>2, <1>3 DEF Bpf!TooDeep, Overrun, Stack

LEMMA RefExit ==
  ASSUME Inv, Exit
  PROVE  Bpf!Exit
<1>1. Depth' = Depth /\ mem' = mem /\ callStack' = callStack
  BY DEF Exit, Depth
<1>2. SlotsAt(Depth)' = SlotsAt(Depth) /\ Stack' = Stack
  BY <1>1, SameSlots, SameStack DEF SlotsAt, Base, StackEnd
<1>3. Stack = <<>>
  BY StackType, DepthFacts, EmptySeq DEF Exit
<1> QED BY <1>2, <1>3 DEF Bpf!Exit, Exit, Stack

LEMMA RefStutter ==
  ASSUME Inv, UNCHANGED vars
  PROVE  UNCHANGED Bpf!vars
<1>1. Depth' = Depth /\ mem' = mem /\ callStack' = callStack
  BY DEF vars, Depth
<1>2. SlotsAt(Depth)' = SlotsAt(Depth) /\ Stack' = Stack
  BY <1>1, SameSlots, SameStack DEF SlotsAt, Base, StackEnd
<1> QED BY <1>2 DEF Bpf!vars, vars, Stack

(* The emitted calls implement BpfCalls as long as no function uses more   *)
(* than STACK_SIZE bytes of stack: every local call returns to the         *)
(* instruction after it, with r6 to r9 and the stack of the caller intact. *)
THEOREM PromiseKept ==
  ASSUME Offsets \subseteq -STACK_SIZE .. -1
  PROVE  Spec => KeepsPromise
<1>1. Inv /\ [Next]_vars => [Bpf!Next]_(Bpf!vars)
  <2> SUFFICES ASSUME Inv, [Next]_vars PROVE [Bpf!Next]_(Bpf!vars)
    OBVIOUS
  <2>1. ASSUME NEW r \in Scratch, NEW v \in Vals, SetReg(r, v)
        PROVE  Bpf!Next
    BY <2>1, RefSetReg DEF Bpf!Next
  <2>2. ASSUME NEW o \in Offsets, NEW v \in Vals, Store(o, v)
        PROVE  Bpf!Next
    BY <2>2, RefStore DEF Bpf!Next
  <2>3. ASSUME NEW ret \in Points, NEW target \in Points, Call(ret, target)
        PROVE  Bpf!Next
    BY <2>3, RefCall DEF Bpf!Next
  <2>4. ASSUME Overrun PROVE Bpf!Next
    BY <2>4, RefOverrun DEF Bpf!Next
  <2>5. ASSUME Return PROVE Bpf!Next
    BY <2>5, RefReturn DEF Bpf!Next
  <2>6. ASSUME Exit PROVE Bpf!Next
    BY <2>6, RefExit DEF Bpf!Next
  <2>7. CASE UNCHANGED vars
    BY <2>7, RefStutter
  <2> QED BY <2>1, <2>2, <2>3, <2>4, <2>5, <2>6, <2>7 DEF Next
<1> QED BY <1>1, RefInit, Invariance, PTL DEF Spec, KeepsPromise, Bpf!Spec

(* Under the same assumption no step writes a slot of a suspended caller.  *)
THEOREM CallersKeepLocals ==
  ASSUME Offsets \subseteq -STACK_SIZE .. -1
  PROVE  Spec => CallerLocalsKept
<1> DEFINE Kept == \A d \in 0 .. Depth - 1 : \A o \in Offsets :
                     mem'[Base(d) + o] = mem[Base(d) + o]
<1>1. Inv /\ [Next]_vars => Kept
  <2> SUFFICES ASSUME Inv, [Next]_vars PROVE Kept
    OBVIOUS
  <2>1. ASSUME NEW o \in Offsets, NEW v \in Vals, Store(o, v) PROVE Kept
    <3>1. \A d \in 0 .. Depth - 1 : SlotsAt(d)' = SlotsAt(d)
      BY <2>1, RefStore
    <3>2. ASSUME NEW d \in 0 .. Depth - 1, NEW p \in Offsets
          PROVE  mem'[Base(d) + p] = mem[Base(d) + p]
      <4>1. SlotsAt(d)'[p] = SlotsAt(d)[p]
        BY <3>1
      <4> QED BY <4>1 DEF SlotsAt, Base, StackEnd
    <3> QED BY <3>2
  <2>2. mem' = mem \/ \E o \in Offsets, v \in Vals : Store(o, v)
    BY DEF Next, vars, SetReg, Call, Overrun, Return, Exit
  <2> QED BY <2>1, <2>2
<1> HIDE DEF Kept
<1>2. Kept => [Kept]_vars
  OBVIOUS
<1>3. Spec => [][Kept]_vars
  BY <1>1, Invariance, PTL DEF Spec
<1> QED BY <1>3 DEF CallerLocalsKept, Kept
=============================================================================
