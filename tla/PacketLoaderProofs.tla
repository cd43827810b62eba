-------------------------- MODULE PacketLoaderProofs --------------------------
(* Proofs about PacketLoader, for every region, example and value left in  *)
(* data_end: its type invariant, that bpf_main reads only bytes from data  *)
(* to data_end, that the scan finds each packet from its first byte to its *)
(* last, and that the result for a packet is that of its bytes.            *)
EXTENDS PacketLoader, Induction

LoadPcs == {"load", "stray", "halt"}
RunPcs  == {"null", "eth", "proto", "ip", "ihl", "addrs"}

LEMMA Sizes ==
  /\ ARR_SIZE \in {1, 2}
  /\ TypeOK => Char \in 0 .. 255 /\ Data \in Int /\ End \in Nat
<1>1. ARR_SIZE \in {1, 2}
  BY DEF ARR_SIZE
<1>2. ASSUME TypeOK PROVE Char \in 0 .. 255 /\ Data \in Int /\ End \in Nat
  <2>1. region \in Seq(0 .. 255) /\ region # <<>> /\ start \in Nat
    BY <1>2 DEF TypeOK, Packets
  <2>2. Len(region) \in Nat \ {0}
    BY <2>1
  <2>3. region[1] \in 0 .. 255
    <3>1. 1 \in 1 .. Len(region)
      BY <2>2
    <3> QED
      BY <2>1, <3>1, ElementOfSeq
  <2>4. Char \in 0 .. 255
    BY <2>3 DEF Char
  <2>5. Base \in Nat
    BY MemoryAssumption
  <2> QED
    BY <2>1, <2>2, <2>4, <2>5 DEF Data, End
<1> QED
  BY <1>1, <1>2

(* One more packet, or one more result.                                    *)
LEMMA LoadedType ==
  ASSUME TypeOK, pc = "load", Len(pkts) < ARR_SIZE, Len(rets) = 0,
         NEW e \in Int, NEW n \in Nat, Loaded(e, n)
  PROVE  TypeOK' /\ (pc = "load" => Len(pkts) < ARR_SIZE /\ Len(rets) = 0)'
<1>1. [data |-> Data, data_end |-> e] \in [data : Int, data_end : Int]
  BY Sizes
<1>2. pkts' \in Seq([data : Int, data_end : Int]) /\ Len(pkts') = Len(pkts) + 1
  BY <1>1 DEF Loaded, TypeOK
<1>3. ARR_SIZE' = ARR_SIZE /\ rets' = rets /\ ex' = ex
  BY DEF Loaded, ARR_SIZE
<1>4. Len(pkts) \in Nat
  BY DEF TypeOK
<1>5. pc' = "load" \/ pc' = "null"
  BY DEF Loaded
<1>6. /\ pc' = "load" => Len(pkts') < ARR_SIZE
      /\ pc' = "null" => Len(pkts') = ARR_SIZE
  BY <1>2, <1>4, Sizes DEF Loaded
<1>7. Len(pkts') <= ARR_SIZE
  BY <1>2, <1>4, Sizes
<1> QED
  BY <1>2, <1>3, <1>5, <1>6, <1>7, Sizes DEF TypeOK, Loaded

LEMMA ReturnType ==
  ASSUME TypeOK, pc \in RunPcs, NEW v \in -3 .. 91, Return(v)
  PROVE  TypeOK' /\ pc' \in {"null", "halt"}
<1>1. rets' \in Seq(-3 .. 91) /\ Len(rets') = Len(rets) + 1
  BY DEF Return, TypeOK
<1>2. ARR_SIZE' = ARR_SIZE /\ pkts' = pkts
  BY DEF Return, ARR_SIZE
<1>3. Len(rets) \in Nat /\ Len(rets) < ARR_SIZE /\ Len(pkts) = ARR_SIZE
  BY DEF TypeOK, RunPcs
<1>4. /\ pc' \in {"null", "halt"}
      /\ pc' = "null" => Len(rets') < ARR_SIZE
  BY DEF Return
<1> QED
  BY <1>1, <1>2, <1>3, <1>4, Sizes DEF TypeOK, Return

LEMMA GotoType ==
  ASSUME TypeOK, pc \in RunPcs, NEW p \in RunPcs, Goto(p)
  PROVE  TypeOK' /\ pc' = p
BY DEF TypeOK, RunPcs, Goto, ARR_SIZE

(* The checks that are behind bpf_main, and what main still has to load.   *)
Checked ==
  /\ pc = "load" => Len(pkts) < ARR_SIZE /\ Len(rets) = 0
  /\ pc = "proto" => Fits(EthSize)
  /\ pc \in {"ihl", "addrs"} => Fits(EthSize + IpSize)

Inv == TypeOK /\ Checked

(* What Pkt is while bpf_main runs.                                        *)
LEMMA PktType ==
  ASSUME TypeOK, pc \in RunPcs
  PROVE  Pkt \in [data : Int, data_end : Int]
<1>1. Len(rets) + 1 \in 1 .. Len(pkts)
  BY Sizes DEF TypeOK, RunPcs
<1>2. pkts \in Seq([data : Int, data_end : Int])
  BY DEF TypeOK
<1>3. \A n \in 1 .. Len(pkts) : pkts[n] \in [data : Int, data_end : Int]
  BY <1>2, ElementOfSeq
<1> QED
  BY <1>1, <1>3 DEF Pkt

LEMMA ReturnChecked ==
  ASSUME pc' \in {"null", "halt"}
  PROVE  Checked'
BY DEF Checked

LEMMA InitInv == Init => Inv
<1> SUFFICES ASSUME Init PROVE Inv
  OBVIOUS
<1>1. frames \in Seq(Packets) /\ region \in Packets \ {<<>>}
  BY InputsAssumption, LayoutAssumption DEF Init
<1>2. ex \in 2 .. 6 /\ Base \in Nat
  BY InputsAssumption, MemoryAssumption DEF Init
<1>3. Len(pkts) = 0 /\ Len(rets) = 0
  BY DEF Init
<1>4. TypeOK
  BY <1>1, <1>2, <1>3, Sizes DEF Init, TypeOK
<1>5. Checked
  BY <1>3, Sizes DEF Init, Checked
<1> QED
  BY <1>4, <1>5 DEF Inv

LEMMA LoadInv == Inv /\ Load => Inv'
<1> SUFFICES ASSUME Inv, Load PROVE Inv'
  OBVIOUS
<1>0. /\ TypeOK /\ Checked /\ pc = "load" /\ Len(pkts) < ARR_SIZE
      /\ Len(rets) = 0 /\ curr \in Nat /\ start \in Nat /\ End \in Nat
      /\ Char \in 0 .. 255 /\ Base \in Nat /\ ex \in 2 .. 6
  BY Sizes, MemoryAssumption
     DEF Inv, Load, LoadWords, ScanWord, ScanHalf, LoadHalves, HitEnd, Stray,
         TypeOK, Checked
<1>1. ASSUME NEW e \in Int, NEW n \in Nat, Loaded(e, n) PROVE Inv'
  <2>1. TypeOK' /\ (pc = "load" => Len(pkts) < ARR_SIZE /\ Len(rets) = 0)'
    BY <1>0, <1>1, LoadedType
  <2>2. pc' \in {"load", "null"}
    BY <1>1 DEF Loaded
  <2> QED
    BY <2>1, <2>2 DEF Inv, Checked
<1>2. ASSUME NEW n \in Nat, NEW c \in 0 .. 3, Scanned(n, c) PROVE Inv'
  <2>1. TypeOK'
    BY <1>0, <1>2 DEF TypeOK, Scanned, ARR_SIZE
  <2>2. Checked'
    BY <1>0, <1>2 DEF Checked, Scanned, ARR_SIZE
  <2> QED
    BY <2>1, <2>2 DEF Inv
<1>3. CASE LoadWords
  <2>1. PICK e \in {curr, curr - 4} : Loaded(e, curr)
    BY <1>3 DEF LoadWords
  <2> QED
    BY <2>1, <1>0, <1>1
<1>4. CASE ScanWord
  BY <1>0, <1>2, <1>4 DEF ScanWord
<1>5. CASE ScanHalf
  <2>1. Count \in 0 .. 3
    BY <1>0, <1>5 DEF ScanHalf, Count, TypeOK
  <2> QED
    BY <2>1, <1>0, <1>2, <1>5 DEF ScanHalf
<1>6. CASE LoadHalves
  <2>1. DataEnd \in Int
    <3>1. \A c \in Int : curr + 2 \in Int /\ curr + 2 - 2 * c \in Int
                         /\ curr + 2 - 2 * c - 2 * 4 \in Int
      BY <1>0
    <3>2. Char \in Int
      BY <1>0
    <3> QED
      BY <3>1, <3>2 DEF DataEnd
  <2> QED
    BY <2>1, <1>0, <1>1, <1>6 DEF LoadHalves
<1>7. CASE HitEnd
  <2>1. PICK g \in {0} \cup Garbage : Loaded(g, 0)
    BY <1>7 DEF HitEnd
  <2>2. g \in Int
    BY <2>1, MemoryAssumption
  <2> QED
    BY <2>1, <2>2, <1>1
<1>8. CASE Stray
  <2>1. TypeOK'
    BY <1>0, <1>8 DEF TypeOK, Stray, ARR_SIZE
  <2>2. Checked'
    BY <1>8 DEF Checked, Stray
  <2> QED
    BY <2>1, <2>2 DEF Inv
<1> QED
  BY <1>3, <1>4, <1>5, <1>6, <1>7, <1>8 DEF Load

LEMMA ProgramInv == Inv /\ Program => Inv'
<1> SUFFICES ASSUME Inv, Program PROVE Inv'
  OBVIOUS
<1>0. TypeOK /\ Checked /\ pc \in RunPcs
  BY DEF Inv, Program, Constant, NullTest, EthTest, Proto, IpTest, Ihl,
         Addresses, RunPcs
<1>1. ASSUME NEW v \in -3 .. 91, Return(v) PROVE Inv'
  BY <1>0, <1>1, ReturnType, ReturnChecked DEF Inv
<1>2. ASSUME NEW p \in RunPcs, Goto(p), p \in {"eth", "ip"} PROVE Inv'
  BY <1>0, <1>2, GotoType DEF Inv, Checked
<1>3. CASE Constant
  <2>1. PICK v \in {1, 91, 2} : Return(v)
    BY <1>3 DEF Constant, XDP_PASS
  <2> QED
    BY <2>1, <1>1
<1>4. CASE NullTest
  BY <1>1, <1>2, <1>4 DEF NullTest, XDP_PASS, RunPcs
<1>5. CASE EthTest
  <2>1. CASE Fits(EthSize)
    <3>1. Goto("proto")
      BY <2>1, <1>5 DEF EthTest
    <3>2. TypeOK' /\ pc' = "proto"
      BY <3>1, <1>0, GotoType DEF RunPcs
    <3>3. Fits(EthSize)'
      BY <2>1, <3>1 DEF Goto, Fits, Pkt, EthSize
    <3> QED
      BY <3>2, <3>3 DEF Inv, Checked
  <2>2. CASE ~Fits(EthSize)
    BY <2>2, <1>1, <1>5 DEF EthTest, XDP_PASS
  <2> QED
    BY <2>1, <2>2
<1>6. CASE Proto
  <2>1. Return(XDP_PASS) \/ Return(XDP_DROP) \/ Goto("ip")
    BY <1>6 DEF Proto
  <2> QED
    BY <2>1, <1>1, <1>2 DEF XDP_PASS, XDP_DROP, RunPcs
<1>7. CASE IpTest
  <2>1. CASE Fits(EthSize + IpSize)
    <3>1. Goto("ihl")
      BY <2>1, <1>7 DEF IpTest
    <3>2. TypeOK' /\ pc' = "ihl"
      BY <3>1, <1>0, GotoType DEF RunPcs
    <3>3. Fits(EthSize + IpSize)'
      BY <2>1, <3>1 DEF Goto, Fits, Pkt, EthSize, IpSize
    <3> QED
      BY <3>2, <3>3 DEF Inv, Checked
  <2>2. CASE ~Fits(EthSize + IpSize)
    BY <2>2, <1>1, <1>7 DEF IpTest
  <2> QED
    BY <2>1, <2>2
<1>8. CASE Ihl
  <2>1. Return(-2) \/ Return(-3) \/ Goto("addrs")
    BY <1>8 DEF Ihl
  <2>2. CASE Goto("addrs")
    <3>1. TypeOK' /\ pc' = "addrs"
      BY <2>2, <1>0, GotoType DEF RunPcs
    <3>2. Fits(EthSize + IpSize)
      BY <1>0, <1>8 DEF Checked, Ihl
    <3>3. Fits(EthSize + IpSize)'
      BY <3>2, <2>2 DEF Goto, Fits, Pkt, EthSize, IpSize
    <3> QED
      BY <3>1, <3>3 DEF Inv, Checked
  <2> QED
    BY <2>1, <2>2, <1>1
<1>9. CASE Addresses
  BY <1>1, <1>9 DEF Addresses, XDP_PASS
<1> QED
  BY <1>3, <1>4, <1>5, <1>6, <1>7, <1>8, <1>9 DEF Program

LEMMA StutterInv == Inv /\ UNCHANGED vars => Inv'
BY DEF vars, Inv, TypeOK, Checked, ARR_SIZE, Fits, Pkt, EthSize, IpSize

LEMMA Inductive == Inv /\ [Next]_vars => Inv'
BY LoadInv, ProgramInv, StutterInv DEF Next, Over

(* Every state main can be in has its type: the scan and bpf_main work on  *)
(* as many packets as there are, for every region and example.             *)
THEOREM Typing == Spec => []TypeOK
<1>1. Inv => TypeOK
  BY DEF Inv
<1> QED
  BY <1>1, InitInv, Inductive, PTL DEF Spec

LEMMA InvBounds == Inv => BoundsChecked
<1> SUFFICES ASSUME Inv, NEW a \in Touched
             PROVE  a \in Pkt.data .. Pkt.data_end - 1
  BY DEF BoundsChecked
<1>1. pc \in {"proto", "ihl", "addrs"}
  BY DEF Touched
<1>2. Pkt.data \in Int /\ Pkt.data_end \in Int
  BY <1>1, PktType DEF Inv, RunPcs
<1>3. CASE pc = "proto"
  BY <1>2, <1>3 DEF Inv, Checked, Touched, Fits, EthSize
<1>4. CASE pc = "ihl"
  BY <1>2, <1>4 DEF Inv, Checked, Touched, Fits, EthSize, IpSize
<1>5. CASE pc = "addrs"
  BY <1>2, <1>5 DEF Inv, Checked, Touched, Fits, EthSize, IpSize
<1> QED
  BY <1>1, <1>3, <1>4, <1>5

(* bpf_main of examples 05 and 06 reads no byte outside data .. data_end,  *)
(* whatever packet it is given and whatever main left in the xdp_md.       *)
THEOREM Bounds == Spec => []BoundsChecked
BY InvBounds, InitInv, Inductive, PTL DEF Spec

-----------------------------------------------------------------------------
(* The region, as the linker script lays it out.                           *)
Placed == frames \in Inputs /\ region = Layout(frames)

LEMMA StopSeqType == StopSeq \in Packets /\ Len(StopSeq) = 8
BY DEF StopSeq, Packets

(* Where the parts of a region are.                                        *)
LEMMA FourParts ==
  ASSUME NEW a \in Seq(0 .. 255), NEW b \in Seq(0 .. 255),
         NEW c \in Seq(0 .. 255), NEW d \in Seq(0 .. 255),
         NEW r, r = (a \o (b \o c)) \o d
  PROVE  /\ Len(a \o (b \o c)) = Len(a) + Len(b) + Len(c)
         /\ Len(r) = Len(a) + Len(b) + Len(c) + Len(d)
         /\ \A n \in 1 .. Len(b) : r[Len(a) + n] = b[n]
         /\ \A n \in 1 .. Len(c) : r[Len(a) + Len(b) + n] = c[n]
<1>a. b \o c \in Seq(0 .. 255)
  OBVIOUS
<1> PICK u \in Seq(0 .. 255) : u = b \o c
  BY <1>a
<1>b. a \o u \in Seq(0 .. 255)
  OBVIOUS
<1> PICK v \in Seq(0 .. 255) : v = a \o u
  BY <1>b
<1> r = v \o d
  OBVIOUS
<1>0. Len(a) \in Nat /\ Len(b) \in Nat /\ Len(c) \in Nat /\ Len(d) \in Nat
  OBVIOUS
<1>1. /\ Len(u) = Len(b) + Len(c)
      /\ \A n \in 1 .. Len(b) : u[n] = b[n]
      /\ \A n \in 1 .. Len(c) : u[Len(b) + n] = c[n]
  OBVIOUS
<1>2. /\ Len(v) = Len(a) + Len(u)
      /\ \A n \in 1 .. Len(u) : v[Len(a) + n] = u[n]
  OBVIOUS
<1>3. Len(r) = Len(v) + Len(d) /\ \A n \in 1 .. Len(v) : r[n] = v[n]
  OBVIOUS
<1>4. ASSUME NEW n \in 1 .. Len(u) PROVE r[Len(a) + n] = u[n]
  <2>1. Len(a) + n \in 1 .. Len(v)
    BY <1>0, <1>1, <1>2
  <2> QED
    BY <2>1, <1>2, <1>3
<1>5. ASSUME NEW n \in 1 .. Len(b) PROVE r[Len(a) + n] = b[n]
  <2>1. n \in 1 .. Len(u)
    BY <1>0, <1>1
  <2> QED
    BY <2>1, <1>1, <1>4
<1>6. ASSUME NEW n \in 1 .. Len(c) PROVE r[Len(a) + Len(b) + n] = c[n]
  <2>1. /\ Len(b) + n \in 1 .. Len(u)
        /\ Len(a) + Len(b) + n = Len(a) + (Len(b) + n)
    BY <1>0, <1>1
  <2>2. r[Len(a) + (Len(b) + n)] = u[Len(b) + n]
    BY <2>1, <1>4
  <2> QED
    BY <2>1, <2>2, <1>1
<1>7. Len(v) = Len(a) + Len(b) + Len(c) /\ Len(r) = Len(v) + Len(d)
  BY <1>0, <1>1, <1>2, <1>3
<1> QED
  BY <1>5, <1>6, <1>7

(* The packets before packet j + 1 end with the ones after packet j.       *)
LEMMA LayoutStep ==
  ASSUME NEW fs \in Seq(Packets), NEW j \in 1 .. Len(fs)
  PROVE  /\ Layout(SubSeq(fs, 1, j - 1)) \in Packets
         /\ Layout(SubSeq(fs, 1, j)) =
              Layout(SubSeq(fs, 1, j - 1)) \o (fs[j] \o StopSeq)
<1> DEFINE Laid(gs) == [m \in DOMAIN gs |-> gs[m] \o StopSeq]
           before == SubSeq(fs, 1, j - 1)
           upto   == SubSeq(fs, 1, j)
           piece  == fs[j] \o StopSeq
<1>1. /\ before \in Seq(Packets) /\ Len(before) = j - 1
      /\ upto \in Seq(Packets) /\ Len(upto) = j
      /\ \A m \in 1 .. j - 1 : upto[m] = before[m]
      /\ upto[j] = fs[j] /\ fs[j] \in Packets
  OBVIOUS
<1>2. \A p \in Packets : p \o StopSeq \in Packets
  BY StopSeqType, ConcatProperties DEF Packets
<1>3. ASSUME NEW gs \in Seq(Packets)
      PROVE  /\ Laid(gs) \in Seq(Packets) /\ Len(Laid(gs)) = Len(gs)
             /\ \A m \in 1 .. Len(gs) : Laid(gs)[m] = gs[m] \o StopSeq
  <2>1. Laid(gs) = [m \in 1 .. Len(gs) |-> gs[m] \o StopSeq] /\ Len(gs) \in Nat
    OBVIOUS
  <2>2. \A m \in 1 .. Len(gs) : gs[m] \o StopSeq \in Packets
    BY <1>2
  <2> QED
    BY <2>1, <2>2
<1>4. Laid(upto) = Append(Laid(before), piece)
  <2>1. piece \in Packets
    BY <1>1, <1>2
  <2> DEFINE first  == Laid(before)
             longer == Append(first, piece)
  <2>2. longer \in Seq(Packets) /\ Len(longer) = j
    <3>1. first \in Seq(Packets) /\ Len(first) = j - 1
      BY <1>1, <1>3
    <3> HIDE DEF first, piece
    <3> QED
      BY <2>1, <3>1
  <2>3. ASSUME NEW m \in 1 .. j PROVE Laid(upto)[m] = longer[m]
    <3>1. CASE m = j
      BY <3>1, <1>1, <1>3
    <3>2. CASE m # j
      BY <3>2, <1>1, <1>3
    <3> QED
      BY <3>1, <3>2
  <2>4. Laid(upto) \in Seq(Packets) /\ Len(Laid(upto)) = j
    BY <1>1, <1>3
  <2> HIDE DEF longer, Laid, upto
  <2>5. Laid(upto) = longer
    BY <2>2, <2>3, <2>4, SeqEqual
  <2> QED
    BY <2>5 DEF longer
<1>5. piece \in Seq(0 .. 255) /\ Laid(before) \in Seq(Seq(0 .. 255))
  BY <1>1, <1>2, <1>3 DEF Packets
<1>6. /\ FlattenSeq(Laid(before)) \in Seq(0 .. 255)
      /\ FlattenSeq(Append(Laid(before), piece)) = FlattenSeq(Laid(before)) \o piece
  <2> HIDE DEF Laid, before, piece
  <2> QED
    BY <1>5, FlattenAppend
<1>7. Layout(before) = FlattenSeq(Laid(before)) /\ Layout(upto) = FlattenSeq(Laid(upto))
  BY DEF Layout
<1> HIDE DEF Laid, before, upto, piece
<1>8. Layout(before) \in Packets /\ Layout(upto) = Layout(before) \o piece
  BY <1>4, <1>6, <1>7 DEF Packets
<1> QED
  BY <1>8 DEF before, upto, piece

LEMMA LayoutPrefix ==
  ASSUME NEW fs \in Seq(Packets), NEW j \in 0 .. Len(fs)
  PROVE  \E t \in Packets : Layout(fs) = Layout(SubSeq(fs, 1, j)) \o t
<1> DEFINE Laid(gs) == [m \in DOMAIN gs |-> gs[m] \o StopSeq]
           upto == SubSeq(fs, 1, j)
           all  == Laid(fs)
           part == SubSeq(all, 1, j)
<1>1. \A p \in Packets : p \o StopSeq \in Packets
  BY StopSeqType, ConcatProperties DEF Packets
<1>2. /\ upto \in Seq(Packets) /\ Len(upto) = j
      /\ \A m \in 1 .. j : upto[m] = fs[m]
  OBVIOUS
<1>3. ASSUME NEW gs \in Seq(Packets)
      PROVE  /\ Laid(gs) \in Seq(Packets) /\ Len(Laid(gs)) = Len(gs)
             /\ \A m \in 1 .. Len(gs) : Laid(gs)[m] = gs[m] \o StopSeq
  <2>1. Laid(gs) = [m \in 1 .. Len(gs) |-> gs[m] \o StopSeq] /\ Len(gs) \in Nat
    OBVIOUS
  <2>2. \A m \in 1 .. Len(gs) : gs[m] \o StopSeq \in Packets
    BY <1>1
  <2> QED
    BY <2>1, <2>2
<1>4. /\ all \in Seq(Packets) /\ Len(all) = Len(fs)
      /\ \A m \in 1 .. Len(fs) : all[m] = fs[m] \o StopSeq
  BY <1>3
<1>5. Laid(upto) = part
  <2>1. /\ part \in Seq(Packets) /\ Len(part) = j
        /\ \A m \in 1 .. j : part[m] = all[m]
    <3> HIDE DEF all
    <3> QED
      BY <1>4
  <2>2. Laid(upto) \in Seq(Packets) /\ Len(Laid(upto)) = j
    BY <1>2, <1>3
  <2>3. \A m \in 1 .. j : Laid(upto)[m] = part[m]
    <3> HIDE DEF Laid, upto, part, all
    <3>1. \A m \in 1 .. j : Laid(upto)[m] = upto[m] \o StopSeq
      BY <1>2, <1>3
    <3>2. \A m \in 1 .. j : m \in 1 .. Len(fs)
      OBVIOUS
    <3>3. \A m \in 1 .. j : part[m] = fs[m] \o StopSeq
      BY <3>2, <2>1, <1>4
    <3> QED
      BY <3>1, <3>3, <1>2
  <2> HIDE DEF Laid, upto, part
  <2> QED
    BY <2>1, <2>2, <2>3, SeqEqual
<1>6. PICK t \in Seq(0 .. 255) : FlattenSeq(all) = FlattenSeq(part) \o t
  <2>1. all \in Seq(Seq(0 .. 255)) /\ j \in 0 .. Len(all)
    BY <1>4 DEF Packets
  <2>2. part = SubSeq(all, 1, j)
    OBVIOUS
  <2> HIDE DEF all, part
  <2>3. \E t \in Seq(0 .. 255) : FlattenSeq(all) = FlattenSeq(SubSeq(all, 1, j)) \o t
    BY <2>1, FlattenPrefix, ZenonT(30)
  <2> QED
    BY <2>2, <2>3
<1>7. Layout(fs) = FlattenSeq(all) /\ Layout(upto) = FlattenSeq(Laid(upto))
  BY DEF Layout
<1> HIDE DEF all, part, upto, Laid
<1>8. Layout(fs) = Layout(upto) \o t
  BY <1>5, <1>6, <1>7
<1> QED
  BY <1>8 DEF upto, Packets

(* Where packet j is, and that the ones follow it.                         *)
HoldsPacket(j) ==
  \A n \in 0 .. Len(frames[j]) - 1 :
    region[StartOf(j) + n - Base + 1] = frames[j][n + 1]
HoldsOnes(j) == \A n \in 0 .. 7 : region[EndOf(j) + n - Base + 1] = 255

LEMMA RegionOf ==
  ASSUME Placed, NEW j \in 1 .. Len(frames)
  PROVE  /\ frames \in Seq(Packets) /\ frames[j] \in Packets /\ Base \in Nat \ {0}
         /\ StartOf(j) \in Nat /\ StartOf(j) >= Base
         /\ EndOf(j) = StartOf(j) + Len(frames[j])
         /\ EndOf(j) + 8 <= End /\ End \in Nat
         /\ StartOf(j + 1) = EndOf(j) + 8
         /\ HoldsPacket(j) /\ HoldsOnes(j)
<1> DEFINE f   == frames[j]
           pre == Layout(SubSeq(frames, 1, j - 1))
<1>1. frames \in Seq(Packets) /\ f \in Packets /\ Base \in Nat \ {0}
  BY InputsAssumption, MemoryAssumption DEF Placed
<1>2. pre \in Packets /\ Layout(SubSeq(frames, 1, j)) = pre \o (f \o StopSeq)
  BY <1>1, LayoutStep
<1>3. PICK t \in Packets : Layout(frames) = Layout(SubSeq(frames, 1, j)) \o t
  <2>1. j \in 0 .. Len(frames)
    BY <1>1
  <2> QED
    BY <2>1, <1>1, LayoutPrefix
<1>4. StartOf(j) = Base + Len(pre) /\ EndOf(j) = StartOf(j) + Len(f)
  BY DEF StartOf, EndOf
<1>5. StartOf(j + 1) = Base + Len(pre \o (f \o StopSeq))
  <2>1. j + 1 - 1 = j
    BY <1>1
  <2>2. StartOf(j + 1) = Base + Len(Layout(SubSeq(frames, 1, j + 1 - 1)))
    BY DEF StartOf
  <2> HIDE DEF pre, f
  <2> QED
    BY <2>1, <2>2, <1>2
<1>6. region = (pre \o (f \o StopSeq)) \o t
  BY <1>2, <1>3 DEF Placed
<1> HIDE DEF f, pre
<1>7. /\ pre \in Seq(0 .. 255) /\ f \in Seq(0 .. 255) /\ StopSeq \in Seq(0 .. 255)
      /\ t \in Seq(0 .. 255) /\ Len(StopSeq) = 8
  BY <1>1, <1>2, <1>3, StopSeqType DEF Packets
<1>8. /\ Len(pre \o (f \o StopSeq)) = Len(pre) + Len(f) + 8
      /\ Len(region) = Len(pre) + Len(f) + 8 + Len(t)
      /\ \A n \in 1 .. Len(f) : region[Len(pre) + n] = f[n]
      /\ \A n \in 1 .. 8 : region[Len(pre) + Len(f) + n] = StopSeq[n]
      /\ Len(pre) \in Nat /\ Len(f) \in Nat /\ Len(t) \in Nat
  <2>1. PICK a \in Seq(0 .. 255), b \in Seq(0 .. 255), c \in Seq(0 .. 255),
             d \in Seq(0 .. 255) : a = pre /\ b = f /\ c = StopSeq /\ d = t
    BY <1>7
  <2>2. region = (a \o (b \o c)) \o d
    BY <1>6, <2>1
  <2>3. /\ Len(a \o (b \o c)) = Len(a) + Len(b) + Len(c)
        /\ Len(region) = Len(a) + Len(b) + Len(c) + Len(d)
        /\ \A n \in 1 .. Len(b) : region[Len(a) + n] = b[n]
        /\ \A n \in 1 .. Len(c) : region[Len(a) + Len(b) + n] = c[n]
    <3> PICK r : r = region
      OBVIOUS
    <3>1. r = (a \o (b \o c)) \o d
      BY <2>2
    <3>2. /\ Len(a \o (b \o c)) = Len(a) + Len(b) + Len(c)
          /\ Len(r) = Len(a) + Len(b) + Len(c) + Len(d)
          /\ \A n \in 1 .. Len(b) : r[Len(a) + n] = b[n]
          /\ \A n \in 1 .. Len(c) : r[Len(a) + Len(b) + n] = c[n]
      BY <3>1, FourParts, SMTT(60)
    <3> QED
      BY <3>2
  <2>4. Len(a) \in Nat /\ Len(b) \in Nat /\ Len(d) \in Nat /\ Len(c) = 8
    BY <1>7, <2>1
  <2> QED
    BY <2>1, <2>3, <2>4
<1>9. /\ \A n \in 0 .. Len(f) - 1 : region[StartOf(j) + n - Base + 1] = f[n + 1]
      /\ \A n \in 0 .. 7 : region[EndOf(j) + n - Base + 1] = 255
  <2>1. ASSUME NEW n \in 0 .. Len(f) - 1
        PROVE  region[StartOf(j) + n - Base + 1] = f[n + 1]
    <3>1. StartOf(j) + n - Base + 1 = Len(pre) + (n + 1) /\ n + 1 \in 1 .. Len(f)
      BY <1>1, <1>4, <1>8
    <3>2. region[Len(pre) + (n + 1)] = f[n + 1]
      BY <3>1, <1>8
    <3> QED
      BY <3>1, <3>2
  <2>2. ASSUME NEW n \in 0 .. 7
        PROVE  region[EndOf(j) + n - Base + 1] = 255
    <3>1. /\ EndOf(j) + n - Base + 1 = Len(pre) + Len(f) + (n + 1)
          /\ n + 1 \in 1 .. 8
      BY <1>1, <1>4, <1>8
    <3>2. StopSeq[n + 1] = 255
      BY <3>1 DEF StopSeq
    <3>3. region[Len(pre) + Len(f) + (n + 1)] = StopSeq[n + 1]
      BY <3>1, <1>8
    <3> QED
      BY <3>1, <3>2, <3>3
  <2> QED
    BY <2>1, <2>2
<1>10. /\ StartOf(j) \in Nat /\ StartOf(j) >= Base
       /\ EndOf(j) + 8 <= End /\ End \in Nat /\ StartOf(j + 1) = EndOf(j) + 8
  <2>1. /\ Len(region) = Len(pre) + Len(f) + 8 + Len(t)
        /\ Len(pre) \in Nat /\ Len(f) \in Nat /\ Len(t) \in Nat
        /\ StartOf(j + 1) = Base + (Len(pre) + Len(f) + 8)
    BY <1>5, <1>8
  <2> QED
    BY <2>1, <1>1, <1>4 DEF End
<1> QED
  BY <1>1, <1>4, <1>9, <1>10 DEF f, HoldsPacket, HoldsOnes

LEMMA PlaceOf ==
  ASSUME Placed, NEW j \in 1 .. Len(frames)
  PROVE  /\ frames[j] \in Packets /\ Len(frames[j]) \in Nat /\ Base \in Nat \ {0}
         /\ StartOf(j) \in Nat /\ StartOf(j) >= Base
         /\ EndOf(j) = StartOf(j) + Len(frames[j])
         /\ EndOf(j) + 8 <= End /\ End \in Nat
         /\ StartOf(j + 1) = EndOf(j) + 8
<1>1. frames[j] \in Packets /\ Base \in Nat \ {0}
  BY RegionOf
<1>2. Len(frames[j]) \in Nat
  BY <1>1 DEF Packets
<1>3. StartOf(j) \in Nat /\ StartOf(j) >= Base
  BY RegionOf
<1>4. EndOf(j) = StartOf(j) + Len(frames[j])
  BY RegionOf
<1>5. EndOf(j) + 8 <= End /\ End \in Nat
  BY RegionOf
<1>6. StartOf(j + 1) = EndOf(j) + 8
  BY RegionOf
<1> QED
  BY <1>1, <1>2, <1>3, <1>4, <1>5, <1>6

LEMMA FirstStart == Placed => StartOf(1) = Base
<1> SUFFICES ASSUME Placed PROVE StartOf(1) = Base
  OBVIOUS
<1>1. SubSeq(frames, 1, 0) = <<>> /\ 1 - 1 = 0
  BY SubSeqEmpty
<1>2. Layout(<<>>) = <<>>
  <2> DEFINE none == [m \in DOMAIN <<>> |-> <<>>[m] \o StopSeq]
  <2>1. none \in Seq(Packets) /\ Len(none) = 0
    OBVIOUS
  <2>2. none \in Seq(Seq(0 .. 255))
    BY <2>1 DEF Packets
  <2>3. Layout(<<>>) = FlattenSeq(none)
    BY DEF Layout
  <2> HIDE DEF none
  <2> QED
    BY <2>1, <2>2, <2>3, FlattenIs
<1>3. StartOf(1) = Base + Len(Layout(SubSeq(frames, 1, 1 - 1)))
  BY DEF StartOf
<1>4. StartOf(1) = Base + Len(<<>>)
  BY <1>1, <1>2, <1>3
<1> QED
  BY <1>4, MemoryAssumption

(* An address inside a packet, or behind its end and within its delimiter,  *)
(* is an address of the region.                                            *)
LEMMA Inside ==
  ASSUME NEW s \in Nat, NEW l \in Nat, NEW b \in Nat, NEW e \in Nat,
         s >= b, s + l + 8 <= e, NEW n \in Nat, n <= l + 7
  PROVE  s + n \in b .. e - 1
OBVIOUS

(* What a read of packet j returns, and of the ones after it.              *)
ReadsAs(a, v) == Reads(a) = {v}

LEMMA ReadsOf ==
  ASSUME Placed, NEW j \in 1 .. Len(frames)
  PROVE  /\ \A n \in 0 .. Len(frames[j]) - 1 :
              ReadsAs(StartOf(j) + n, frames[j][n + 1])
         /\ \A n \in 0 .. 7 : ReadsAs(EndOf(j) + n, 255)
<1>1. ASSUME NEW a \in Base .. End - 1
      PROVE  ReadsAs(a, region[a - Base + 1])
  <2>1. a \in Base .. End - 1 /\ ~(a < Base) /\ ~(a >= End)
    BY PlaceOf
  <2> QED
    BY <2>1 DEF Reads, ReadsAs
<1>2. /\ Base \in Nat /\ End \in Nat /\ StartOf(j) \in Nat /\ StartOf(j) >= Base
      /\ EndOf(j) = StartOf(j) + Len(frames[j]) /\ EndOf(j) + 8 <= End
      /\ Len(frames[j]) \in Nat
  BY PlaceOf
<1>3. ASSUME NEW n \in 0 .. Len(frames[j]) - 1
      PROVE  ReadsAs(StartOf(j) + n, frames[j][n + 1])
  <2>1. HoldsPacket(j)
    BY RegionOf
  <2>2. region[StartOf(j) + n - Base + 1] = frames[j][n + 1]
    BY <2>1 DEF HoldsPacket
  <2> DEFINE a == StartOf(j) + n
  <2>3. a \in Base .. End - 1
    <3> PICK s \in Nat, l \in Nat, e \in Nat, b \in Nat :
          s = StartOf(j) /\ l = Len(frames[j]) /\ e = End /\ b = Base
      BY <1>2
    <3>1. s >= b /\ s + l + 8 <= e
      BY <1>2
    <3>2. n \in Nat /\ n <= l + 7
      OBVIOUS
    <3>3. s + n \in b .. e - 1
      BY <3>1, <3>2, Inside, SMTT(30)
    <3> QED
      BY <3>3
  <2>4. region[a - Base + 1] = frames[j][n + 1]
    <3>1. StartOf(j) \in Int /\ Base \in Int
      BY <1>2
    <3>2. a - Base + 1 = StartOf(j) + n - Base + 1
      BY <3>1
    <3> HIDE DEF a
    <3> QED
      BY <2>2, <3>2
  <2> HIDE DEF a
  <2>5. ReadsAs(a, region[a - Base + 1])
    BY <1>1, <2>3
  <2>6. ReadsAs(a, frames[j][n + 1])
    BY <2>4, <2>5
  <2> QED
    BY <2>6 DEF a
<1>4. ASSUME NEW n \in 0 .. 7
      PROVE  ReadsAs(EndOf(j) + n, 255)
  <2>1. HoldsOnes(j)
    BY RegionOf
  <2>2. region[EndOf(j) + n - Base + 1] = 255
    BY <2>1 DEF HoldsOnes
  <2> DEFINE a == EndOf(j) + n
  <2>3. a \in Base .. End - 1
    <3> PICK s \in Nat, l \in Nat, e \in Nat, b \in Nat :
          s = StartOf(j) /\ l = Len(frames[j]) /\ e = End /\ b = Base
      BY <1>2
    <3>1. EndOf(j) = s + l /\ s >= b /\ s + l + 8 <= e
      BY <1>2
    <3>2. l + n \in Nat /\ l + n <= l + 7
      OBVIOUS
    <3>3. s + (l + n) \in b .. e - 1
      BY <3>1, <3>2, Inside, SMTT(30)
    <3>4. s + (l + n) = EndOf(j) + n
      BY <3>1
    <3> QED
      BY <3>3, <3>4
  <2>4. region[a - Base + 1] = 255
    <3>1. EndOf(j) \in Int /\ Base \in Int
      BY <1>2
    <3>2. a - Base + 1 = EndOf(j) + n - Base + 1
      BY <3>1
    <3> HIDE DEF a
    <3> QED
      BY <2>2, <3>2
  <2> HIDE DEF a
  <2>5. ReadsAs(a, region[a - Base + 1])
    BY <1>1, <2>3
  <2>6. ReadsAs(a, 255)
    BY <2>4, <2>5
  <2> QED
    BY <2>6 DEF a
<1> QED
  BY <1>3, <1>4

(* The halfwords of ones in packet j and after it.                         *)
LEMMA HalfwordsOf ==
  ASSUME Placed, NEW j \in 1 .. Len(frames), Len(frames[j]) % 2 = 0, NEW k \in Nat
  PROVE  /\ 2 * k < Len(frames[j]) =>
              (Ones(StartOf(j) + 2 * k, 2) <=> k \in Stops(frames[j]))
         /\ 2 * k >= Len(frames[j]) /\ 2 * k <= Len(frames[j]) + 6 =>
              Ones(StartOf(j) + 2 * k, 2)
<1>1. PICK L \in Nat, s \in Nat, h \in Nat :
        L = Len(frames[j]) /\ L = 2 * h /\ s = StartOf(j) /\ EndOf(j) = s + L
  <2>1. PICK l \in Nat : l = Len(frames[j])
    BY PlaceOf
  <2>2. l % 2 = 0
    BY <2>1
  <2>3. l \div 2 \in Nat /\ l = 2 * (l \div 2)
    BY <2>2
  <2> QED
    BY <2>1, <2>3, PlaceOf
<1>2. \A a \in Int : Ones(a, 2) <=> ReadsAs(a, 255) /\ ReadsAs(a + 1, 255)
  <2> TAKE a \in Int
  <2>1. a .. a + 2 - 1 = {a, a + 1}
    OBVIOUS
  <2> QED
    BY <2>1 DEF Ones, ReadsAs
<1>3. ASSUME 2 * k < L PROVE Ones(s + 2 * k, 2) <=> k \in Stops(frames[j])
  <2>1. 2 * k \in 0 .. L - 1 /\ 2 * k + 1 \in 0 .. L - 1 /\ k \in 0 .. L \div 2 - 1
    BY <1>1, <1>3
  <2>2. PICK m \in Nat : m = 2 * k
    OBVIOUS
  <2>3. /\ ReadsAs(s + m, frames[j][m + 1])
        /\ ReadsAs(s + (m + 1), frames[j][(m + 1) + 1])
    <3>1. m \in 0 .. Len(frames[j]) - 1 /\ m + 1 \in 0 .. Len(frames[j]) - 1
      BY <1>1, <2>1, <2>2
    <3> QED
      BY <3>1, <1>1, ReadsOf
  <2>4. s + (m + 1) = (s + m) + 1 /\ (m + 1) + 1 = m + 2 /\ s + m \in Int
    OBVIOUS
  <2>5. k \in Stops(frames[j]) <=>
          frames[j][2 * k + 1] = 255 /\ frames[j][2 * k + 2] = 255
    BY <2>1, <1>1 DEF Stops
  <2>6. k \in Stops(frames[j]) <=> frames[j][m + 1] = 255 /\ frames[j][m + 2] = 255
    BY <2>2, <2>5
  <2>7. Ones(s + m, 2) <=> ReadsAs(s + m, 255) /\ ReadsAs(s + m + 1, 255)
    BY <2>4, <1>2
  <2>8. /\ ReadsAs(s + m, 255) <=> frames[j][m + 1] = 255
        /\ ReadsAs(s + m + 1, 255) <=> frames[j][m + 2] = 255
    <3>1. \A a, v : ReadsAs(a, v) => (ReadsAs(a, 255) <=> v = 255)
      BY DEF ReadsAs
    <3> QED
      BY <3>1, <2>3, <2>4
  <2> QED
    BY <2>2, <2>6, <2>7, <2>8
<1>4. ASSUME 2 * k >= L, 2 * k <= L + 6 PROVE Ones(s + 2 * k, 2)
  <2>1. PICK n \in 0 .. 6 : 2 * k = L + n
    <3>1. 2 * k - L \in 0 .. 6 /\ 2 * k = L + (2 * k - L)
      BY <1>4
    <3> QED
      BY <3>1
  <2>2. n \in 0 .. 7 /\ n + 1 \in 0 .. 7
    OBVIOUS
  <2>3. ReadsAs(EndOf(j) + n, 255) /\ ReadsAs(EndOf(j) + (n + 1), 255)
    BY <2>2, ReadsOf
  <2>4. PICK a \in Nat : a = s + 2 * k /\ a = s + L + n
    BY <2>1
  <2>5. EndOf(j) + n = a /\ EndOf(j) + (n + 1) = a + 1
    BY <2>4, <1>1
  <2>6. Ones(a, 2)
    BY <2>3, <2>5, <1>2
  <2> QED
    BY <2>4, <2>6
<1> QED
  BY <1>1, <1>3, <1>4

-----------------------------------------------------------------------------
(* The scan of a packet it can tell from the ones after it, by halfwords:  *)
(* at c, with n halfwords of ones counted, it is k halfwords on; those it  *)
(* has counted are the last ones of the packet, or the ones after it.      *)
HalfAt(j, c, n) ==
  \E k \in Nat :
    /\ c = StartOf(j) + 2 * k /\ 2 * k <= Len(frames[j]) + 6
    /\ 2 * k <= Len(frames[j]) =>
         n <= k /\ \A m \in Nat : k - n <= m /\ m < k => m \in Stops(frames[j])
    /\ 2 * k > Len(frames[j]) => 2 * n = 2 * k - Len(frames[j])

(* What Clean says of packet f, to a scan by halfwords.                    *)
LEMMA CleanHalves ==
  ASSUME ex \in 3 .. 6, NEW f \in Packets, Clean(f)
  PROVE  /\ Len(f) % 2 = 0
         /\ \A k \in Stops(f) : k + 1 # Len(f) \div 2
         /\ ex <= 4 => Stops(f) = {}
         /\ \A k \in Nat : ~\A m \in Nat : k <= m /\ m < k + 4 => m \in Stops(f)
<1>1. /\ Len(f) % 2 = 0
      /\ ex >= 5 => Runs(f, 4) = {} /\ ~EndsOnes(f)
      /\ ex \in 3 .. 4 => Stops(f) = {}
  <2>1. CASE ex >= 5
    <3>1. ~(ex \in 3 .. 4) /\ ~(ex = 2)
      BY <2>1
    <3> QED
      BY <2>1, <3>1 DEF Clean
  <2>2. CASE ex \in 3 .. 4
    <3>1. ~(ex >= 5) /\ ~(ex = 2)
      BY <2>2
    <3> QED
      BY <2>2, <3>1 DEF Clean
  <2> QED
    BY <2>1, <2>2
<1>2. ASSUME NEW k \in Stops(f) PROVE k + 1 # Len(f) \div 2
  <2>1. ~(ex \in 3 .. 4)
    BY <1>1
  <2>2. ~EndsOnes(f)
    BY <1>1, <2>1
  <2>3. Len(f) \in Nat /\ k \in Int
    BY DEF Stops, Packets
  <2>4. k # Len(f) \div 2 - 1
    BY <2>2 DEF EndsOnes
  <2> QED
    BY <2>3, <2>4
<1>3. ASSUME NEW k \in Nat, \A m \in Nat : k <= m /\ m < k + 4 => m \in Stops(f)
      PROVE  FALSE
  <2>1. k \in Stops(f)
    BY <1>3
  <2>2. \A m \in k .. k + 4 - 1 : m \in Stops(f)
    BY <1>3
  <2>3. k \in Runs(f, 4)
    BY <2>1, <2>2 DEF Runs
  <2> QED
    BY <1>1, <2>1, <2>3
<1> QED
  BY <1>1, <1>2, <1>3

LEMMA HalfStep ==
  ASSUME TypeOK, Placed, ex # 2, NEW j \in 1 .. Len(frames), Clean(frames[j]),
         HalfAt(j, curr, cnt)
  PROVE  /\ curr \in Base .. End - 1
         /\ Count < 4 => HalfAt(j, curr + 2, Count)
         /\ Count >= 4 => curr + 2 = EndOf(j) + 8
<1>1. PICK L \in Nat, s \in Nat, c \in 0 .. 3 :
        /\ L = Len(frames[j]) /\ s = StartOf(j) /\ c = cnt
        /\ EndOf(j) = s + L /\ L % 2 = 0
        /\ s >= Base /\ s + L + 8 <= End /\ Base \in Nat /\ End \in Nat
  <2>1. Len(frames[j]) % 2 = 0
    BY DEF Clean
  <2> QED
    BY <2>1, PlaceOf DEF TypeOK
<1>2. PICK h \in Nat : L = 2 * h /\ L \div 2 = h
  <2>1. L % 2 = 0
    BY <1>1
  <2>2. L \div 2 \in Nat /\ L = 2 * (L \div 2)
    BY <2>1
  <2> QED
    BY <2>2
<1> DEFINE St == Stops(frames[j])
<1>3. PICK k \in Nat :
        /\ curr = s + 2 * k /\ k <= h + 3
        /\ k <= h => c <= k /\ \A m \in Nat : k - c <= m /\ m < k => m \in St
        /\ k > h => c = k - h
  <2>1. PICK k \in Nat :
          /\ curr = StartOf(j) + 2 * k /\ 2 * k <= Len(frames[j]) + 6
          /\ 2 * k <= Len(frames[j]) =>
               cnt <= k /\ \A m \in Nat : k - cnt <= m /\ m < k => m \in St
          /\ 2 * k > Len(frames[j]) => 2 * cnt = 2 * k - Len(frames[j])
    BY DEF HalfAt
  <2>2. (2 * k <= L <=> k <= h) /\ (2 * k > L <=> k > h) /\ (2 * k <= L + 6 <=> k <= h + 3)
    BY <1>2
  <2>3. 2 * c = 2 * k - L <=> c = k - h
    BY <1>2
  <2> QED
    BY <2>1, <2>2, <2>3, <1>1
<1>4. /\ \A m \in St : m + 1 # h
      /\ ex <= 4 => St = {}
      /\ \A m \in Nat : ~\A n \in Nat : m <= n /\ n < m + 4 => n \in St
  <2>1. ex \in 3 .. 6 /\ frames[j] \in Packets
    BY PlaceOf DEF TypeOK
  <2>2. Len(frames[j]) \div 2 = h
    BY <1>1, <1>2
  <2> QED
    BY <2>1, <2>2, CleanHalves
<1>5. /\ k < h => (Ones(curr, 2) <=> k \in St)
      /\ k >= h => Ones(curr, 2)
  <2>1. Len(frames[j]) % 2 = 0
    BY <1>1
  <2>2. /\ 2 * k < Len(frames[j]) => (Ones(StartOf(j) + 2 * k, 2) <=> k \in St)
        /\ 2 * k >= Len(frames[j]) /\ 2 * k <= Len(frames[j]) + 6 =>
             Ones(StartOf(j) + 2 * k, 2)
    BY <2>1, HalfwordsOf
  <2>3. (2 * k < L <=> k < h) /\ (2 * k >= L <=> k >= h) /\ 2 * k <= L + 6
    BY <1>2, <1>3
  <2>4. StartOf(j) + 2 * k = curr /\ Len(frames[j]) = L
    BY <1>1, <1>3
  <2> HIDE DEF St
  <2>5. /\ 2 * k < L => (Ones(curr, 2) <=> k \in St)
        /\ 2 * k >= L /\ 2 * k <= L + 6 => Ones(curr, 2)
    BY <2>2, <2>4
  <2> QED
    BY <2>3, <2>5
<1>6. curr \in Base .. End - 1
  <2>1. PICK n \in Nat : n = 2 * k /\ curr = s + n /\ n <= L + 7
    <3>1. 2 * k \in Nat /\ 2 * k <= L + 7
      BY <1>2, <1>3
    <3> QED
      BY <3>1, <1>3
  <2>2. PICK b \in Nat, e \in Nat : b = Base /\ e = End /\ s >= b /\ s + L + 8 <= e
    BY <1>1
  <2>3. s + n \in b .. e - 1
    BY <2>1, <2>2, Inside, SMTT(30)
  <2> QED
    BY <2>1, <2>2, <2>3
<1> HIDE DEF St
<1>7. ASSUME NEW n \in Nat, k + 1 <= h + 3,
             k + 1 <= h =>
               n <= k + 1 /\ \A m \in Nat : k + 1 - n <= m /\ m < k + 1 => m \in St,
             k + 1 > h => n = k + 1 - h
      PROVE  HalfAt(j, curr + 2, n)
  <2>1. PICK q \in Nat : q = k + 1
    OBVIOUS
  <2>2. curr + 2 = StartOf(j) + 2 * q
    BY <2>1, <1>1, <1>3
  <2>3. /\ 2 * q <= Len(frames[j]) + 6
        /\ 2 * q <= Len(frames[j]) => q <= h
        /\ 2 * q > Len(frames[j]) => 2 * n = 2 * q - Len(frames[j])
    BY <2>1, <1>1, <1>2, <1>7
  <2>4. q <= h =>
          n <= q /\ \A m \in Nat : q - n <= m /\ m < q => m \in Stops(frames[j])
    BY <2>1, <1>7 DEF St
  <2> QED
    BY <2>2, <2>3, <2>4 DEF HalfAt
<1>8. CASE k < h
  <2>1. CASE k \in St
    <3>1. Count = c + 1
      BY <1>1, <1>5, <1>8, <2>1 DEF Count
    <3>2. \A m \in Nat : k - c <= m /\ m < k + 1 => m \in St
      BY <1>3, <1>8, <2>1
    <3>3. c # 3
      <4> SUFFICES ASSUME c = 3 PROVE FALSE
        OBVIOUS
      <4>1. PICK p \in Nat : k = p + 3
        <5>1. k - 3 \in Nat /\ k = (k - 3) + 3
          BY <1>3, <1>8
        <5> QED
          BY <5>1
      <4>2. \A n \in Nat : p <= n /\ n < p + 4 => n \in St
        BY <3>2, <4>1
      <4> QED
        BY <4>2, <1>4
    <3>4. c + 1 < 4 /\ c + 1 \in Nat /\ k + 1 <= h /\ k + 1 <= h + 3
          /\ c + 1 <= k + 1 /\ ~(k + 1 > h) /\ k + 1 - (c + 1) = k - c
      BY <3>3, <1>3, <1>8
    <3>5. HalfAt(j, curr + 2, c + 1)
      BY <3>2, <3>4, <1>7
    <3> QED
      BY <3>1, <3>4, <3>5, <1>6
  <2>2. CASE k \notin St
    <3>1. ex <= 4 => c = 0
      <4> SUFFICES ASSUME ex <= 4, c # 0 PROVE FALSE
        OBVIOUS
      <4>1. k - 1 \in Nat /\ k - c <= k - 1 /\ k - 1 < k
        <5>1. k <= h /\ c <= k
          BY <1>3, <1>8
        <5> QED
          BY <5>1
      <4>2. k - 1 \in St
        BY <4>1, <1>3, <1>8
      <4> QED
        BY <4>2, <1>4
    <3>2. Count = 0
      <4>1. ex \in Nat
        BY DEF TypeOK
      <4> QED
        BY <3>1, <4>1, <1>1, <1>5, <1>8, <2>2 DEF Count
    <3>3. /\ k + 1 <= h + 3 /\ 0 <= k + 1 /\ ~(k + 1 > h)
          /\ \A m \in Nat : k + 1 - 0 <= m /\ m < k + 1 => m \in St
      BY <1>8
    <3>4. HalfAt(j, curr + 2, 0)
      BY <3>3, <1>7
    <3> QED
      BY <3>2, <3>4, <1>6
  <2> QED
    BY <2>1, <2>2
<1>9. CASE k >= h
  <2>1. c = k - h
    <3>1. CASE k > h
      BY <3>1, <1>3
    <3>2. CASE k = h
      <4> SUFFICES ASSUME c # 0 PROVE FALSE
        BY <3>2
      <4>1. k - 1 \in Nat /\ k - c <= k - 1 /\ k - 1 < k /\ k <= h
        BY <3>2, <1>3
      <4>2. k - 1 \in St
        BY <4>1, <1>3
      <4>3. k - 1 + 1 = h
        BY <3>2
      <4> QED
        BY <4>2, <4>3, <1>4
    <3> QED
      BY <3>1, <3>2, <1>9
  <2>2. Count = c + 1
    BY <1>1, <1>5, <1>9 DEF Count
  <2>3. CASE c < 3
    <3>1. c + 1 \in Nat /\ k + 1 <= h + 3 /\ ~(k + 1 <= h) /\ c + 1 = k + 1 - h
          /\ c + 1 < 4
      BY <2>1, <2>3, <1>9
    <3>2. HalfAt(j, curr + 2, c + 1)
      BY <3>1, <1>7
    <3> QED
      BY <2>2, <3>1, <3>2, <1>6
  <2>4. CASE c = 3
    <3>1. curr = s + 2 * k /\ EndOf(j) = s + L /\ L = 2 * h
      BY <1>1, <1>2, <1>3
    <3>2. s + 2 * k + 2 = s + L + 8
      BY <2>1, <2>4, <1>2
    <3>3. curr + 2 = EndOf(j) + 8
      BY <3>1, <3>2
    <3> QED
      BY <2>2, <2>4, <3>3, <1>6
  <2> QED
    BY <2>3, <2>4
<1> QED
  BY <1>8, <1>9

(* The scan of example 02, by words: at c, it is k words on.               *)
WordAt(j, c) ==
  \E k \in Nat : c = StartOf(j) + 4 * k /\ 4 * k <= Len(frames[j]) + 4

LEMMA CleanWords ==
  ASSUME ex = 2, NEW f \in Packets, Clean(f)
  PROVE  /\ Len(f) % 2 = 0 /\ Len(f) % 4 = 0
         /\ \A k \in Stops(f) : k + 1 # Len(f) \div 2
         /\ ~(0 \in Stops(f) /\ 1 \in Stops(f))
         /\ \A k \in Nat : ~\A m \in 2 * k .. 2 * k + 3 : m \in Stops(f)
<1>1. /\ Len(f) % 2 = 0 /\ Len(f) % 4 = 0
      /\ ~EndsOnes(f)
      /\ 0 \notin Runs(f, 2)
      /\ \A n \in Runs(f, 4) : n % 2 = 1
  <2>1. ~(ex >= 5) /\ ~(ex \in 3 .. 4)
    OBVIOUS
  <2> QED
    BY <2>1 DEF Clean
<1>2. ASSUME NEW k \in Stops(f) PROVE k + 1 # Len(f) \div 2
  <2>1. Len(f) \in Nat /\ k \in Int
    BY DEF Stops, Packets
  <2>2. k # Len(f) \div 2 - 1
    BY <1>1 DEF EndsOnes
  <2> QED
    BY <2>1, <2>2
<1>3. ASSUME 0 \in Stops(f), 1 \in Stops(f) PROVE FALSE
  <2>1. 0 .. 0 + 2 - 1 = {0, 1}
    OBVIOUS
  <2>2. 0 \in Runs(f, 2)
    BY <1>3, <2>1 DEF Runs
  <2> QED
    BY <1>1, <2>2
<1>4. ASSUME NEW k \in Nat, \A m \in 2 * k .. 2 * k + 3 : m \in Stops(f)
      PROVE  FALSE
  <2>1. PICK n \in Nat : n = 2 * k
    OBVIOUS
  <2>2. n \in Stops(f) /\ n .. n + 4 - 1 \subseteq Stops(f)
    BY <2>1, <1>4
  <2>3. n \in Runs(f, 4)
    BY <2>2 DEF Runs
  <2>4. n % 2 = 1
    BY <2>3, <1>1
  <2>5. n % 2 = 0
    BY <2>1
  <2> QED
    BY <2>4, <2>5
<1> QED
  BY <1>1, <1>2, <1>3, <1>4

LEMMA WordsOf ==
  ASSUME Placed, NEW j \in 1 .. Len(frames), Len(frames[j]) % 2 = 0,
         NEW w \in Nat, Len(frames[j]) = 4 * w, NEW k \in Nat
  PROVE  /\ k < w =>
              (Ones(StartOf(j) + 4 * k, 4) <=>
                 2 * k \in Stops(frames[j]) /\ 2 * k + 1 \in Stops(frames[j]))
         /\ k >= w /\ k <= w + 1 => Ones(StartOf(j) + 4 * k, 4)
<1>1. PICK L \in Nat, s \in Nat :
        L = Len(frames[j]) /\ L = 4 * w /\ s = StartOf(j)
  BY PlaceOf
<1>2. PICK p \in Nat, q \in Nat : p = 2 * k /\ q = 2 * k + 1
  OBVIOUS
<1>3. \A a \in Int : Ones(a, 4) <=> Ones(a, 2) /\ Ones(a + 2, 2)
  <2> TAKE a \in Int
  <2>1. /\ a .. a + 4 - 1 = {a, a + 1, a + 2, a + 3}
        /\ a .. a + 2 - 1 = {a, a + 1}
        /\ a + 2 .. a + 2 + 2 - 1 = {a + 2, a + 3}
    OBVIOUS
  <2> QED
    BY <2>1 DEF Ones
<1>4. s + 4 * k = s + 2 * p /\ s + 4 * k + 2 = s + 2 * q /\ s + 4 * k \in Int
  BY <1>2
<1>5. Ones(s + 4 * k, 4) <=> Ones(s + 2 * p, 2) /\ Ones(s + 2 * q, 2)
  BY <1>3, <1>4
<1>6. ASSUME k < w
      PROVE  /\ Ones(s + 2 * p, 2) <=> p \in Stops(frames[j])
             /\ Ones(s + 2 * q, 2) <=> q \in Stops(frames[j])
  <2>1. 2 * p < L /\ 2 * q < L
    BY <1>1, <1>2, <1>6
  <2>2. 2 * p < Len(frames[j]) /\ 2 * q < Len(frames[j])
    BY <2>1, <1>1
  <2> QED
    BY <2>2, <1>1, HalfwordsOf
<1>7. ASSUME k >= w, k <= w + 1 PROVE Ones(s + 2 * p, 2) /\ Ones(s + 2 * q, 2)
  <2>1. /\ 2 * p >= L /\ 2 * p <= L + 6
        /\ 2 * q >= L /\ 2 * q <= L + 6
    BY <1>1, <1>2, <1>7
  <2>2. /\ 2 * p >= Len(frames[j]) /\ 2 * p <= Len(frames[j]) + 6
        /\ 2 * q >= Len(frames[j]) /\ 2 * q <= Len(frames[j]) + 6
    BY <2>1, <1>1
  <2> QED
    BY <2>2, <1>1, HalfwordsOf
<1> QED
  BY <1>1, <1>2, <1>5, <1>6, <1>7

LEMMA WordStep ==
  ASSUME TypeOK, Placed, ex = 2, NEW j \in 1 .. Len(frames), Clean(frames[j]),
         start = StartOf(j), WordAt(j, curr)
  PROVE  /\ curr \in Base .. End - 1
         /\ ~AllOnes => WordAt(j, curr + 4)
         /\ AllOnes => (IF curr = start THEN curr ELSE curr - 4) = EndOf(j)
<1> DEFINE St == Stops(frames[j])
<1>1. /\ Len(frames[j]) % 2 = 0 /\ Len(frames[j]) % 4 = 0
      /\ \A k \in St : k + 1 # Len(frames[j]) \div 2
      /\ ~(0 \in St /\ 1 \in St)
      /\ \A k \in Nat : ~\A m \in 2 * k .. 2 * k + 3 : m \in St
  <2>1. frames[j] \in Packets
    BY PlaceOf
  <2> QED
    BY <2>1, CleanWords
<1>2. PICK L \in Nat, s \in Nat, w \in Nat :
        /\ L = Len(frames[j]) /\ s = StartOf(j) /\ L = 4 * w /\ L \div 2 = 2 * w
        /\ EndOf(j) = s + L
        /\ s >= Base /\ s + L + 8 <= End /\ Base \in Nat /\ End \in Nat
  <2>1. PICK l \in Nat : l = Len(frames[j])
    BY PlaceOf
  <2>2. l % 4 = 0
    BY <2>1, <1>1
  <2>3. l \div 4 \in Nat /\ l = 4 * (l \div 4) /\ l \div 2 = 2 * (l \div 4)
    BY <2>2
  <2> QED
    BY <2>1, <2>3, PlaceOf
<1>3. PICK k \in Nat : curr = s + 4 * k /\ k <= w + 1
  <2>1. PICK k \in Nat : curr = StartOf(j) + 4 * k /\ 4 * k <= Len(frames[j]) + 4
    BY DEF WordAt
  <2>2. 4 * k <= L + 4
    BY <2>1, <1>2
  <2>3. k <= w + 1
    BY <2>2, <1>2
  <2> QED
    BY <2>1, <2>3, <1>2
<1>4. \A n \in Nat :
        /\ n < w => (Ones(s + 4 * n, 4) <=> 2 * n \in St /\ 2 * n + 1 \in St)
        /\ n >= w /\ n <= w + 1 => Ones(s + 4 * n, 4)
  <2> TAKE n \in Nat
  <2>1. Len(frames[j]) % 2 = 0 /\ Len(frames[j]) = 4 * w
    BY <1>1, <1>2
  <2> QED
    BY <2>1, <1>2, WordsOf
<1>5. /\ \A m \in St : m + 1 # 2 * w
      /\ ~(0 \in St /\ 1 \in St)
      /\ \A m \in Nat : ~\A n \in 2 * m .. 2 * m + 3 : n \in St
  BY <1>1, <1>2
<1> HIDE DEF St
<1>6. curr \in Base .. End - 1
  <2>1. L = 4 * w /\ s >= Base /\ s + L + 8 <= End /\ Base \in Nat /\ End \in Nat
    BY <1>2
  <2>2. s + 4 * k \in Nat /\ s + 4 * k >= Base /\ s + 4 * k <= End - 1
    BY <2>1, <1>3
  <2> QED
    BY <2>1, <2>2, <1>3
<1>7. ASSUME k <= w PROVE WordAt(j, curr + 4)
  <2>1. PICK q \in Nat : q = k + 1
    OBVIOUS
  <2>2. curr + 4 = s + 4 * q /\ 4 * q <= L + 4
    BY <2>1, <1>2, <1>3, <1>7
  <2>3. curr + 4 = StartOf(j) + 4 * q /\ 4 * q <= Len(frames[j]) + 4
    BY <2>2, <1>2
  <2> QED
    BY <2>3 DEF WordAt
<1>8. CASE k = 0
  <2>1. curr = start /\ curr = s + 4 * 0
    BY <1>2, <1>3, <1>8
  <2>2. AllOnes <=> Ones(s + 4 * 0, 4)
    BY <2>1 DEF AllOnes
  <2>3. WordAt(j, curr + 4)
    BY <1>2, <1>7, <1>8
  <2>4. CASE w = 0
    <3>1. curr = EndOf(j)
      BY <2>1, <2>4, <1>2
    <3> QED
      BY <2>1, <2>3, <3>1, <1>6
  <2>5. CASE w # 0
    <3>1. 0 < w /\ 0 \in Nat /\ 2 * 0 = 0 /\ 2 * 0 + 1 = 1
      BY <2>5
    <3>2. ~Ones(s + 4 * 0, 4)
      BY <3>1, <1>4, <1>5
    <3> QED
      BY <2>2, <2>3, <3>2, <1>6
  <2> QED
    BY <2>4, <2>5
<1>9. CASE k # 0
  <2>1. PICK n \in Nat : n + 1 = k
    <3>1. k - 1 \in Nat /\ (k - 1) + 1 = k
      BY <1>9
    <3> QED
      BY <3>1
  <2>2. curr # start /\ curr - 4 = s + 4 * n
    <3>1. start = s /\ curr = s + 4 * k
      BY <1>2, <1>3
    <3>2. s + 4 * k # s /\ s + 4 * k - 4 = s + 4 * n
      BY <2>1
    <3> QED
      BY <3>1, <3>2
  <2>3. AllOnes <=> Ones(s + 4 * k, 4) /\ Ones(s + 4 * n, 4)
    BY <2>2, <1>3 DEF AllOnes
  <2>4. CASE k < w
    <3>1. n < w
      BY <2>1, <2>4
    <3>2. ASSUME AllOnes PROVE FALSE
      <4>1. 2 * k \in St /\ 2 * k + 1 \in St /\ 2 * n \in St /\ 2 * n + 1 \in St
        BY <3>1, <3>2, <2>3, <2>4, <1>4
      <4>2. 2 * k = 2 * n + 2 /\ 2 * k + 1 = 2 * n + 3
        BY <2>1
      <4>3. ASSUME NEW m \in 2 * n .. 2 * n + 3 PROVE m \in St
        <5>1. m = 2 * n \/ m = 2 * n + 1 \/ m = 2 * n + 2 \/ m = 2 * n + 3
          OBVIOUS
        <5> QED
          BY <5>1, <4>1, <4>2
      <4> QED
        BY <4>3, <1>5
    <3> QED
      BY <3>2, <2>4, <1>6, <1>7
  <2>5. CASE k = w
    <3>1. n < w /\ 2 * n + 1 + 1 = 2 * w
      BY <2>1, <2>5
    <3>2. ASSUME AllOnes PROVE FALSE
      <4>1. 2 * n + 1 \in St
        BY <3>1, <3>2, <2>3, <1>4
      <4> QED
        BY <3>1, <4>1, <1>5
    <3> QED
      BY <3>2, <2>5, <1>6, <1>7
  <2>6. CASE k = w + 1
    <3>1. Ones(s + 4 * k, 4) /\ Ones(s + 4 * n, 4)
      <4>1. k >= w /\ k <= w + 1 /\ n >= w /\ n <= w + 1
        BY <2>1, <2>6
      <4> QED
        BY <4>1, <1>4
    <3>2. curr - 4 = EndOf(j)
      <4>1. n = w
        BY <2>1, <2>6
      <4>2. EndOf(j) = s + 4 * w
        BY <1>2
      <4> QED
        BY <4>1, <4>2, <2>2
    <3> QED
      BY <3>1, <3>2, <2>2, <2>3, <1>6
  <2> QED
    BY <2>4, <2>5, <2>6, <1>3
<1> QED
  BY <1>8, <1>9

-----------------------------------------------------------------------------
(* While main looks for packet j, it is at a place where the scan of it    *)
(* can be; and the xdp_md it fills for it is right.                        *)
ScanInv ==
  LET j == Len(pkts) + 1 IN
  pc = "load" /\ Readable(j) =>
    /\ start = StartOf(j)
    /\ ex = 2 => WordAt(j, curr)
    /\ ex # 2 => HalfAt(j, curr, cnt)

Right(j, p) ==
  /\ p.data = StartOf(j)
  /\ ex \in {2, 5} => p.data_end = EndOf(j)
  /\ ex = 6 => p.data_end = StartOf(j + 1)

LEMMA DelimitedIs == Delimited <=> \A j \in DOMAIN pkts : Readable(j) => Right(j, pkts[j])
BY DEF Delimited, Right

(* Nothing of this changes but with the region.                            *)
LEMMA SameRegion ==
  ASSUME UNCHANGED <<ex, frames, region>>, NEW j
  PROVE  /\ Readable(j)' <=> Readable(j)
         /\ StartOf(j)' = StartOf(j) /\ EndOf(j)' = EndOf(j)
         /\ \A c : WordAt(j, c)' <=> WordAt(j, c)
         /\ \A c, n : HalfAt(j, c, n)' <=> HalfAt(j, c, n)
         /\ Placed' <=> Placed
         /\ ARR_SIZE' = ARR_SIZE
<1>1. Readable(j)' <=> Readable(j)
  BY DEF Readable, Clean, Runs, Stops, EndsOnes, Char
<1>2. StartOf(j)' = StartOf(j) /\ EndOf(j)' = EndOf(j)
  BY DEF StartOf, EndOf
<1>4. /\ \A c : WordAt(j, c)' <=> WordAt(j, c)
      /\ \A c, n : HalfAt(j, c, n)' <=> HalfAt(j, c, n)
  BY <1>2 DEF WordAt, HalfAt
<1>5. /\ Placed' <=> Placed
      /\ ARR_SIZE' = ARR_SIZE
  BY DEF Placed, ARR_SIZE
<1> QED
  BY <1>1, <1>2, <1>4, <1>5

LEMMA ReadableIs ==
  ASSUME TypeOK, NEW j \in Nat \ {0}, Readable(j)
  PROVE  /\ j \in 1 .. Len(frames) /\ Clean(frames[j])
         /\ ex \in 3 .. 5 => Char = 0
         /\ \A i \in Nat : i <= j => Readable(i)
<1>1. frames \in Seq(Packets) /\ Len(frames) \in Nat
  BY DEF TypeOK
<1>2. j <= Len(frames) /\ (ex \in 3 .. 5 => Char = 0)
  BY DEF Readable
<1>3. \A m \in 1 .. j : Clean(frames[m])
  BY DEF Readable
<1>4. ASSUME NEW i \in Nat, i <= j PROVE Readable(i)
  <2>1. i <= Len(frames) /\ 1 .. i \subseteq 1 .. j
    BY <1>1, <1>2, <1>4
  <2> QED
    BY <2>1, <1>2, <1>3 DEF Readable
<1>5. j \in 1 .. Len(frames) /\ j \in 1 .. j
  BY <1>1, <1>2
<1> QED
  BY <1>2, <1>3, <1>4, <1>5

LEMMA FirstPlace ==
  ASSUME TypeOK, Placed, NEW j \in 1 .. Len(frames)
  PROVE  WordAt(j, StartOf(j)) /\ HalfAt(j, StartOf(j), 0)
<1>1. PICK L \in Nat, s \in Nat : L = Len(frames[j]) /\ s = StartOf(j)
  BY PlaceOf
<1>2. 0 \in Nat /\ s = s + 4 * 0 /\ s = s + 2 * 0 /\ 4 * 0 <= L + 4 /\ 2 * 0 <= L + 6
      /\ 2 * 0 <= L /\ ~(2 * 0 > L) /\ 0 <= 0
  BY <1>1
<1>3. \A m \in Nat : 0 - 0 <= m /\ m < 0 => m \in Stops(frames[j])
  OBVIOUS
<1>4. WordAt(j, StartOf(j))
  BY <1>1, <1>2 DEF WordAt
<1>5. HalfAt(j, StartOf(j), 0)
  BY <1>1, <1>2, <1>3 DEF HalfAt
<1> QED
  BY <1>4, <1>5

LEMMA LoadedRight ==
  ASSUME TypeOK, Placed, Delimited, NEW e \in Int, NEW n \in Nat, Loaded(e, n),
         NEW j \in Nat, j = Len(pkts) + 1,
         Readable(j) => Right(j, [data |-> Data, data_end |-> e]),
         Readable(j) /\ j < ARR_SIZE => n = StartOf(j + 1)
  PROVE  Placed' /\ Delimited' /\ ScanInv'
<1>1. /\ UNCHANGED <<ex, frames, region>>
      /\ start' = n /\ curr' = n /\ cnt' = 0
      /\ pc' = IF Len(pkts') < ARR_SIZE THEN "load" ELSE "null"
  BY DEF Loaded
<1>2. /\ pkts' \in Seq([data : Int, data_end : Int]) /\ Len(pkts') = j
      /\ DOMAIN pkts' = 1 .. j /\ DOMAIN pkts = 1 .. Len(pkts)
      /\ pkts'[j] = [data |-> Data, data_end |-> e]
      /\ \A i \in 1 .. Len(pkts) : pkts'[i] = pkts[i]
  <2>1. [data |-> Data, data_end |-> e] \in [data : Int, data_end : Int]
    BY Sizes
  <2>2. pkts \in Seq([data : Int, data_end : Int])
    BY DEF TypeOK
  <2>3. pkts' = Append(pkts, [data |-> Data, data_end |-> e])
    BY DEF Loaded
  <2> HIDE DEF Data
  <2> QED
    BY <2>1, <2>2, <2>3
<1>3. Delimited'
  <2>1. ASSUME NEW i \in 1 .. j, Readable(i) PROVE Right(i, pkts'[i])
    <3>1. CASE i = j
      BY <2>1, <3>1, <1>2
    <3>2. CASE i # j
      <4>1. i \in 1 .. Len(pkts)
        BY <3>2 DEF TypeOK
      <4>2. Right(i, pkts[i])
        BY <2>1, <4>1, <1>2, DelimitedIs
      <4> QED
        BY <4>1, <4>2, <1>2
    <3> QED
      BY <3>1, <3>2
  <2>2. ASSUME NEW i \in DOMAIN pkts', Readable(i)'
        PROVE  /\ pkts'[i].data = StartOf(i)'
               /\ ex' \in {2, 5} => pkts'[i].data_end = EndOf(i)'
               /\ ex' = 6 => pkts'[i].data_end = StartOf(i + 1)'
    <3>1. i \in 1 .. j /\ Readable(i)
      BY <2>2, <1>1, <1>2, SameRegion
    <3>2. /\ StartOf(i)' = StartOf(i) /\ EndOf(i)' = EndOf(i) /\ ex' = ex
          /\ StartOf(i + 1)' = StartOf(i + 1)
      BY <1>1, SameRegion
    <3> QED
      BY <3>1, <3>2, <2>1 DEF Right
  <2> QED
    BY <2>2 DEF Delimited
<1>4. ScanInv'
  <2> SUFFICES ASSUME pc' = "load", Readable(j + 1)'
               PROVE  /\ n = StartOf(j + 1)'
                      /\ WordAt(j + 1, n)' /\ HalfAt(j + 1, n, 0)'
    BY <1>1, <1>2 DEF ScanInv
  <2>1. Readable(j + 1) /\ j < ARR_SIZE
    BY <1>1, <1>2, SameRegion
  <2>2. Readable(j) /\ j + 1 \in 1 .. Len(frames)
    BY <2>1, ReadableIs
  <2>3. n = StartOf(j + 1)
    BY <2>1, <2>2
  <2>4. WordAt(j + 1, n) /\ HalfAt(j + 1, n, 0)
    BY <2>2, <2>3, FirstPlace
  <2> QED
    BY <2>3, <2>4, <1>1, SameRegion
<1> QED
  BY <1>1, <1>3, <1>4, SameRegion

LEMMA InitScan == Init => Placed /\ Delimited /\ ScanInv
<1> SUFFICES ASSUME Init PROVE Placed /\ Delimited /\ ScanInv
  OBVIOUS
<1>1. Placed /\ TypeOK
  BY InitInv DEF Init, Placed, Inv
<1>2. Delimited
  BY DEF Init, Delimited
<1>3. ASSUME Readable(1)
      PROVE  start = StartOf(1) /\ WordAt(1, curr) /\ HalfAt(1, curr, cnt)
  <2>1. 1 \in 1 .. Len(frames)
    BY <1>1, <1>3, ReadableIs
  <2> QED
    BY <2>1, <1>1, FirstStart, FirstPlace DEF Init
<1>4. Len(pkts) + 1 = 1
  BY DEF Init
<1> QED
  BY <1>1, <1>2, <1>3, <1>4 DEF ScanInv

(* What the scan of a packet it can tell from the ones after it does.      *)
LEMMA ScanStep ==
  ASSUME TypeOK, Placed, ScanInv, pc = "load", NEW j \in Nat \ {0},
         j = Len(pkts) + 1, Readable(j)
  PROVE  /\ j \in 1 .. Len(frames) /\ start = StartOf(j)
         /\ curr \in Base .. End - 1
         /\ ex = 2 => /\ ~AllOnes => WordAt(j, curr + 4)
                      /\ AllOnes => (IF curr = start THEN curr ELSE curr - 4) = EndOf(j)
         /\ ex # 2 => /\ Count < 4 => HalfAt(j, curr + 2, Count)
                      /\ Count >= 4 => curr + 2 = EndOf(j) + 8
<1>1. j \in 1 .. Len(frames) /\ Clean(frames[j])
  BY ReadableIs
<1>2. /\ start = StartOf(j)
      /\ ex = 2 => WordAt(j, curr)
      /\ ex # 2 => HalfAt(j, curr, cnt)
  BY DEF ScanInv
<1> QED
  BY <1>1, <1>2, WordStep, HalfStep

LEMMA LoadHalvesRight ==
  ASSUME TypeOK, Placed, ScanInv, LoadHalves, Len(pkts) < ARR_SIZE,
         NEW j \in Nat \ {0}, j = Len(pkts) + 1, Readable(j)
  PROVE  /\ Right(j, [data |-> Data, data_end |-> DataEnd])
         /\ j < ARR_SIZE => curr + 2 = StartOf(j + 1)
<1>1. /\ j \in 1 .. Len(frames) /\ start = StartOf(j)
      /\ curr + 2 = EndOf(j) + 8
      /\ ex \in 3 .. 6 /\ ex \in Int
  BY ScanStep DEF LoadHalves, TypeOK
<1>2. StartOf(j + 1) = EndOf(j) + 8
  BY <1>1, PlaceOf
<1>3. ex \in 3 .. 5 => Char = 0 /\ j = 1
  <2>1. ex \in 3 .. 5 => Char = 0
    BY ReadableIs
  <2>2. ex \in 3 .. 5 => j = 1
    BY DEF ARR_SIZE, TypeOK
  <2> QED
    BY <2>1, <2>2
<1>4. Data = StartOf(j)
  <2>1. CASE ex \in 3 .. 5
    <3>1. Base - 0 = Base
      BY MemoryAssumption
    <3> QED
      BY <2>1, <3>1, <1>3, FirstStart DEF Data
  <2>2. CASE ex \notin 3 .. 5
    BY <2>2, <1>1 DEF Data
  <2> QED
    BY <2>1, <2>2
<1>5. PICK x \in Nat : x = EndOf(j) /\ curr + 2 = x + 8
  <2>1. Len(frames[j]) \in Nat /\ StartOf(j) \in Nat
        /\ EndOf(j) = StartOf(j) + Len(frames[j])
    BY <1>1, PlaceOf
  <2> QED
    BY <2>1, <1>1
<1>6. DataEnd = IF ex = 5 THEN x ELSE x + 8
  <2>1. CASE ex = 6
    <3>1. ex # 5
      BY <2>1
    <3> QED
      BY <2>1, <3>1, <1>5 DEF DataEnd
  <2>2. CASE ex = 5
    <3>1. ex # 6 /\ curr + 2 - 2 * Char - 2 * 4 = x
      <4>1. Char = 0
        BY <2>2, <1>3
      <4>2. \A u, c \in Int : u + 2 = x + 8 /\ c = 0 => u + 2 - 2 * c - 2 * 4 = x
        OBVIOUS
      <4>3. curr \in Int /\ Char \in Int
        BY <4>1 DEF TypeOK
      <4> QED
        BY <2>2, <4>1, <4>2, <4>3, <1>5
    <3>2. DataEnd = curr + 2 - 2 * Char - 2 * 4
      BY <2>2, <3>1 DEF DataEnd
    <3> QED
      BY <2>2, <3>1, <3>2
  <2>3. CASE ex \in 3 .. 4
    <3>1. ex # 6 /\ ex # 5 /\ Char = 0
      BY <2>3, <1>3
    <3>2. x + 8 - 2 * 0 = x + 8
      OBVIOUS
    <3>3. DataEnd = curr + 2 - 2 * Char
      BY <3>1 DEF DataEnd
    <3> QED
      BY <3>1, <3>2, <3>3, <1>5
  <2> QED
    BY <2>1, <2>2, <2>3, <1>1
<1>7. /\ ex \in {2, 5} => DataEnd = EndOf(j)
      /\ ex = 6 => DataEnd = StartOf(j + 1)
  BY <1>1, <1>2, <1>5, <1>6
<1> HIDE DEF Data, DataEnd
<1> QED
  BY <1>1, <1>2, <1>4, <1>7 DEF Right

LEMMA LoadRight ==
  ASSUME Inv, Placed, Delimited, ScanInv, Load
  PROVE  Placed' /\ Delimited' /\ ScanInv'
<1>0. /\ TypeOK /\ pc = "load" /\ Len(pkts) < ARR_SIZE
      /\ curr \in Nat /\ start \in Nat /\ End \in Nat /\ Base \in Nat
      /\ ex \in 2 .. 6
  BY Sizes, MemoryAssumption
     DEF Inv, Load, LoadWords, ScanWord, ScanHalf, LoadHalves, HitEnd, Stray,
         TypeOK, Checked
<1>1. PICK j \in Nat \ {0} : j = Len(pkts) + 1
  BY <1>0 DEF TypeOK
<1>2. ASSUME NEW n, NEW c, Scanned(n, c),
             Readable(j) => IF ex = 2 THEN WordAt(j, n) ELSE HalfAt(j, n, c)
      PROVE  Placed' /\ Delimited' /\ ScanInv'
  <2>1. /\ UNCHANGED <<ex, frames, region, pc, start, pkts>>
        /\ curr' = n /\ cnt' = c
    BY <1>2 DEF Scanned
  <2>2. Placed'
    BY <2>1, SameRegion
  <2>3. Delimited'
    <3>1. \A i : (Readable(i)' <=> Readable(i)) /\ StartOf(i)' = StartOf(i)
                 /\ EndOf(i)' = EndOf(i)
      BY <2>1, SameRegion
    <3> QED
      BY <2>1, <3>1 DEF Delimited
  <2>4. ASSUME Readable(j)'
        PROVE  /\ start' = StartOf(j)'
               /\ ex' = 2 => WordAt(j, n)'
               /\ ex' # 2 => HalfAt(j, n, c)'
    <3>1. Readable(j)
      BY <2>1, <2>4, SameRegion
    <3>2. start = StartOf(j)
      BY <3>1, <1>0, <1>1, ScanStep
    <3> QED
      BY <3>1, <3>2, <1>2, <2>1, SameRegion
  <2> QED
    BY <2>1, <2>2, <2>3, <2>4, <1>1 DEF ScanInv
<1>3. CASE LoadWords
  <2>1. PICK e \in Int : /\ e = IF curr = start THEN curr ELSE curr - 4
                         /\ Loaded(e, curr)
    BY <1>0, <1>3 DEF LoadWords
  <2>2. ex = 2 /\ AllOnes /\ ~(j < ARR_SIZE)
    BY <1>1, <1>3 DEF LoadWords, ARR_SIZE
  <2>3. ASSUME Readable(j) PROVE Right(j, [data |-> Data, data_end |-> e])
    <3>1. start = StartOf(j) /\ e = EndOf(j) /\ j \in 1 .. Len(frames)
      BY <2>1, <2>2, <2>3, <1>0, <1>1, ScanStep
    <3>2. Data = StartOf(j)
      BY <2>2, <3>1 DEF Data
    <3> QED
      BY <2>2, <3>1, <3>2 DEF Right
  <2> QED
    BY <2>1, <2>2, <2>3, <1>0, <1>1, LoadedRight
<1>4. CASE ScanWord
  <2>1. ex = 2 /\ ~AllOnes /\ Scanned(curr + 4, 0)
    BY <1>4 DEF ScanWord
  <2>2. Readable(j) => WordAt(j, curr + 4)
    BY <2>1, <1>0, <1>1, ScanStep
  <2> QED
    BY <2>1, <2>2, <1>2
<1>5. CASE ScanHalf
  <2>1. ex # 2 /\ Count < 4 /\ Scanned(curr + 2, Count)
    BY <1>5 DEF ScanHalf
  <2>2. Readable(j) => HalfAt(j, curr + 2, Count)
    BY <2>1, <1>0, <1>1, ScanStep
  <2> QED
    BY <2>1, <2>2, <1>2
<1>6. CASE LoadHalves
  <2>1. Loaded(DataEnd, curr + 2)
    BY <1>6 DEF LoadHalves
  <2>2. DataEnd \in Int /\ curr + 2 \in Nat
    <3>1. \A c \in Int : curr + 2 \in Int /\ curr + 2 - 2 * c \in Int
                         /\ curr + 2 - 2 * c - 2 * 4 \in Int
      BY <1>0
    <3>2. Char \in Int
      <4>1. Char \in 0 .. 255
        BY <1>0, Sizes
      <4> HIDE DEF Char
      <4> QED
        BY <4>1
    <3> QED
      BY <3>1, <3>2, <1>0 DEF DataEnd
  <2>3. Readable(j) => /\ Right(j, [data |-> Data, data_end |-> DataEnd])
                       /\ j < ARR_SIZE => curr + 2 = StartOf(j + 1)
    BY <1>0, <1>1, <1>6, LoadHalvesRight
  <2> HIDE DEF DataEnd
  <2> QED
    BY <2>1, <2>2, <2>3, <1>0, <1>1, LoadedRight
<1>7. CASE HitEnd
  <2>1. PICK g \in {0} \cup Garbage : Loaded(g, 0)
    BY <1>7 DEF HitEnd
  <2>2. g \in Int
    BY <2>1, MemoryAssumption
  <2>3. ~Readable(j)
    <3>1. curr = End
      BY <1>7 DEF HitEnd
    <3>2. curr \notin Base .. End - 1
      BY <3>1, <1>0
    <3> QED
      BY <3>2, <1>0, <1>1, ScanStep
  <2> QED
    BY <2>1, <2>2, <2>3, <1>0, <1>1, LoadedRight
<1>8. CASE Stray
  <2>1. UNCHANGED <<ex, frames, region, pkts>> /\ pc' = "stray"
    BY <1>8 DEF Stray
  <2>2. Placed'
    BY <2>1, SameRegion
  <2>3. Delimited'
    <3>1. \A i : (Readable(i)' <=> Readable(i)) /\ StartOf(i)' = StartOf(i)
                 /\ EndOf(i)' = EndOf(i)
      BY <2>1, SameRegion
    <3> QED
      BY <2>1, <3>1 DEF Delimited
  <2>4. ScanInv'
    BY <2>1 DEF ScanInv
  <2> QED
    BY <2>2, <2>3, <2>4
<1> QED
  BY <1>3, <1>4, <1>5, <1>6, <1>7, <1>8 DEF Load

(* bpf_main, and a step that does nothing, leave all of this as it is.     *)
LEMMA KeepRight ==
  ASSUME Placed, Delimited, UNCHANGED <<ex, frames, region, pkts>>,
         pc' # "load" \/ UNCHANGED <<pc, start, curr, cnt>>, ScanInv
  PROVE  Placed' /\ Delimited' /\ ScanInv'
<1>1. \A i : /\ Readable(i)' <=> Readable(i)
             /\ StartOf(i)' = StartOf(i) /\ EndOf(i)' = EndOf(i)
             /\ \A c : WordAt(i, c)' <=> WordAt(i, c)
             /\ \A c, n : HalfAt(i, c, n)' <=> HalfAt(i, c, n)
  BY SameRegion
<1>2. Placed'
  BY SameRegion
<1>3. Delimited'
  BY <1>1 DEF Delimited
<1>4. ScanInv'
  <2>1. CASE pc' # "load"
    BY <2>1 DEF ScanInv
  <2>2. CASE UNCHANGED <<pc, start, curr, cnt>>
    <3> DEFINE j == Len(pkts) + 1
    <3>1. /\ Readable(j)' <=> Readable(j)
          /\ StartOf(j)' = StartOf(j)
          /\ WordAt(j, curr)' <=> WordAt(j, curr)
          /\ HalfAt(j, curr, cnt)' <=> HalfAt(j, curr, cnt)
      BY <2>2, <1>1 DEF Readable, Clean, Runs, Stops, EndsOnes, Char, StartOf,
           WordAt, HalfAt
    <3> QED
      BY <2>2, <3>1 DEF ScanInv
  <2> QED
    BY <2>1, <2>2
<1> QED
  BY <1>2, <1>3, <1>4

-----------------------------------------------------------------------------
(* What bpf_main reads: packet j, and in example 06 the ones after it.     *)
View(j) == frames[j] \o IF ex = 6 THEN StopSeq ELSE <<>>

LEMMA VerdictIs ==
  VerdictOfPacket <=>
    \A j \in DOMAIN rets :
      ex \in {5, 6} /\ Readable(j) => rets[j] = Verdict(View(j))
BY DEF VerdictOfPacket, View

LEMMA ViewOf ==
  ASSUME TypeOK, Placed, Delimited, pc \in RunPcs, ex \in {5, 6},
         NEW j \in Nat \ {0}, j = Len(rets) + 1, Readable(j)
  PROVE  /\ View(j) \in Packets
         /\ Pkt.data \in Nat \ {0}
         /\ \A n \in Nat : Fits(n) <=> n <= Len(View(j))
         /\ \A n \in Nat : n < Len(View(j)) => At(n) = {View(j)[n + 1]}
<1>1. j \in 1 .. Len(frames)
  BY ReadableIs
<1>2. j \in DOMAIN pkts
  BY DEF TypeOK, RunPcs
<1>3. /\ Pkt.data = StartOf(j)
      /\ Pkt.data_end = EndOf(j) + IF ex = 6 THEN 8 ELSE 0
  <2>1. /\ EndOf(j) \in Int /\ StartOf(j + 1) = EndOf(j) + 8
    <3>1. Len(frames[j]) \in Nat /\ StartOf(j) \in Nat
          /\ EndOf(j) = StartOf(j) + Len(frames[j])
      BY <1>1, PlaceOf
    <3> QED
      BY <3>1, <1>1, PlaceOf
  <2>2. /\ Pkt.data = StartOf(j)
        /\ ex = 5 => Pkt.data_end = EndOf(j)
        /\ ex = 6 => Pkt.data_end = StartOf(j + 1)
    BY <1>2 DEF Delimited, Pkt
  <2> QED
    BY <2>1, <2>2
<1>4. PICK f \in Seq(0 .. 255), s \in Nat \ {0}, L \in Nat :
        /\ f = frames[j] /\ s = StartOf(j) /\ L = Len(f) /\ EndOf(j) = s + L
  <2>1. /\ frames[j] \in Seq(0 .. 255) /\ StartOf(j) \in Nat /\ StartOf(j) >= Base
        /\ Base \in Nat \ {0}
        /\ Len(frames[j]) \in Nat /\ EndOf(j) = StartOf(j) + Len(frames[j])
    BY <1>1, PlaceOf DEF Packets
  <2>2. StartOf(j) \in Nat \ {0}
    BY <2>1
  <2> QED
    BY <2>1, <2>2
<1>5. /\ \A n \in 0 .. L - 1 : ReadsAs(s + n, f[n + 1])
      /\ \A n \in 0 .. 7 : ReadsAs(s + L + n, 255)
  BY <1>1, <1>4, ReadsOf
<1>6. PICK v \in Seq(0 .. 255), V \in Nat :
        /\ v = View(j) /\ V = Len(v)
        /\ V = L + IF ex = 6 THEN 8 ELSE 0
        /\ \A n \in 1 .. L : v[n] = f[n]
        /\ ex = 6 => \A n \in 1 .. 8 : v[L + n] = 255
  <2>1. CASE ex = 6
    <3>1. PICK z \in Seq(0 .. 255) : z = StopSeq /\ Len(z) = 8
      BY StopSeqType DEF Packets
    <3>a. f \o z \in Seq(0 .. 255)
      BY <1>4, <3>1
    <3>2. PICK g \in Seq(0 .. 255) : g = f \o z
      BY <3>a
    <3>3. /\ Len(g) = Len(f) + Len(z)
          /\ \A n \in 1 .. Len(f) : g[n] = f[n]
          /\ \A n \in 1 .. Len(z) : g[Len(f) + n] = z[n]
      BY <3>2
    <3>4. View(j) = g
      BY <2>1, <3>1, <3>2, <1>4 DEF View
    <3>5. ASSUME NEW n \in 1 .. 8 PROVE g[L + n] = 255
      <4>1. z[n] = 255
        BY <3>1 DEF StopSeq
      <4>2. n \in 1 .. Len(z)
        BY <3>1
      <4>3. g[Len(f) + n] = z[n]
        BY <4>2, <3>3
      <4> QED
        BY <4>1, <4>3, <1>4
    <3>6. PICK W \in Nat : W = L + 8 /\ W = Len(g)
      BY <3>1, <3>3, <1>4
    <3>7. \A n \in 1 .. L : g[n] = f[n]
      BY <3>3, <1>4
    <3>8. W = L + IF ex = 6 THEN 8 ELSE 0
      BY <2>1, <3>6
    <3> HIDE DEF View
    <3>9. g = View(j) /\ W = Len(g) /\ (ex = 6 => \A n \in 1 .. 8 : g[L + n] = 255)
      BY <3>4, <3>5, <3>6
    <3> QED
      BY <3>7, <3>8, <3>9, SMTT(60)
  <2>2. CASE ex # 6
    <3>1. f \o <<>> = f /\ L + 0 = L
      OBVIOUS
    <3>2. View(j) = f
      BY <2>2, <3>1, <1>4 DEF View
    <3> QED
      BY <2>2, <3>1, <3>2, <1>4
  <2> QED
    BY <2>1, <2>2
<1>7. Pkt.data = s /\ Pkt.data_end = s + V
  <2>1. PICK d \in Nat : d = IF ex = 6 THEN 8 ELSE 0
    OBVIOUS
  <2>2. Pkt.data = s /\ Pkt.data_end = (s + L) + d
    BY <2>1, <1>3, <1>4
  <2>3. V = L + d
    BY <2>1, <1>6
  <2>4. (s + L) + d = s + (L + d)
    OBVIOUS
  <2> QED
    BY <2>2, <2>3, <2>4
<1>8. ASSUME NEW n \in Nat PROVE Fits(n) <=> n <= V
  BY <1>7 DEF Fits
<1>9. ASSUME NEW n \in Nat, n < V PROVE At(n) = {v[n + 1]}
  <2>1. CASE n < L
    <3>1. n \in 0 .. L - 1 /\ n + 1 \in 1 .. L
      BY <2>1
    <3>2. ReadsAs(s + n, f[n + 1]) /\ v[n + 1] = f[n + 1]
      BY <3>1, <1>5, <1>6
    <3> QED
      BY <3>2, <1>7 DEF At, ReadsAs
  <2>2. CASE n >= L
    <3>1. ex = 6 /\ V = L + 8
      BY <2>2, <1>6, <1>9
    <3>2. PICK m \in 0 .. 7 : n = L + m
      <4>1. n - L \in 0 .. 7 /\ n = L + (n - L)
        BY <2>2, <3>1, <1>9
      <4> QED
        BY <4>1
    <3>3. m + 1 \in 1 .. 8 /\ n + 1 = L + (m + 1) /\ s + n = s + L + m
      BY <3>2
    <3>4. v[L + (m + 1)] = 255
      BY <3>1, <3>3, <1>6
    <3>5. ReadsAs(s + L + m, 255)
      BY <1>5
    <3> QED
      BY <3>3, <3>4, <3>5, <1>7 DEF At, ReadsAs
  <2> QED
    BY <2>1, <2>2
<1> QED
  BY <1>6, <1>7, <1>8, <1>9 DEF Packets

(* Behind the checks of bpf_main is what they say of the packet.           *)
RunInv ==
  LET j == Len(rets) + 1 IN
  pc \in RunPcs /\ ex \in {5, 6} /\ Readable(j) =>
    /\ pc \in {"ip", "ihl", "addrs"} => ex = 6 /\ IsIp(View(j))
    /\ pc = "addrs" => LET hdr == 4 * (View(j)[EthSize + 1] % 16)
                       IN  hdr >= IpSize /\ Len(View(j)) >= EthSize + hdr

LEMMA SameView ==
  ASSUME UNCHANGED <<ex, frames, region>>, NEW j
  PROVE  /\ View(j)' = View(j) /\ (Readable(j)' <=> Readable(j))
         /\ \A p : Verdict(p)' = Verdict(p)
<1>1. View(j)' = View(j)
  BY DEF View
<1>2. \A p : Verdict(p)' = Verdict(p)
  BY DEF Verdict
<1> QED
  BY <1>1, <1>2, SameRegion

(* One more result, that of the packet.                                    *)
LEMMA ReturnVerdict ==
  ASSUME TypeOK, VerdictOfPacket, pc \in RunPcs, NEW v \in -3 .. 91, Return(v),
         NEW j \in Nat \ {0}, j = Len(rets) + 1,
         ex \in {5, 6} /\ Readable(j) => v = Verdict(View(j))
  PROVE  VerdictOfPacket' /\ RunInv'
<1>1. UNCHANGED <<ex, frames, region>> /\ rets' = Append(rets, v)
      /\ rets \in Seq(-3 .. 91)
  BY DEF Return, TypeOK
<1>2. /\ DOMAIN rets' = 1 .. j /\ rets'[j] = v /\ Len(rets) \in Nat
      /\ DOMAIN rets = 1 .. Len(rets)
      /\ \A i \in 1 .. Len(rets) : rets'[i] = rets[i]
  BY <1>1
<1>3. ASSUME NEW i \in 1 .. j, ex \in {5, 6}, Readable(i)
      PROVE  rets'[i] = Verdict(View(i))
  <2>1. CASE i = j
    BY <2>1, <1>2, <1>3
  <2>2. CASE i # j
    <3>1. i \in 1 .. Len(rets)
      BY <2>2, <1>2
    <3>2. rets[i] = Verdict(View(i))
      BY <3>1, <1>2, <1>3, VerdictIs
    <3> QED
      BY <3>1, <3>2, <1>2
  <2> QED
    BY <2>1, <2>2
<1>4. ASSUME NEW i \in DOMAIN rets', ex' \in {5, 6}, Readable(i)'
      PROVE  rets'[i] = Verdict(frames[i] \o IF ex = 6 THEN StopSeq ELSE <<>>)'
  <2>1. i \in 1 .. j /\ ex \in {5, 6} /\ Readable(i)
    BY <1>1, <1>2, <1>4, SameView
  <2>2. View(i)' = View(i) /\ Verdict(View(i))' = Verdict(View(i))
    BY <1>1 DEF View, Verdict
  <2>3. rets'[i] = Verdict(View(i))'
    BY <2>1, <2>2, <1>3
  <2> QED
    BY <2>3 DEF View
<1>5. VerdictOfPacket'
  BY <1>4 DEF VerdictOfPacket
<1>6. pc' \in {"null", "halt"}
  BY DEF Return
<1>7. RunInv'
  BY <1>6 DEF RunInv
<1> QED
  BY <1>5, <1>7

LEMMA KeepVerdict ==
  ASSUME VerdictOfPacket, UNCHANGED <<ex, frames, region, rets>>
  PROVE  VerdictOfPacket'
<1>1. \A i : (Readable(i)' <=> Readable(i))
  BY SameRegion
<1>2. \A p : Verdict(p)' = Verdict(p)
  BY DEF Verdict
<1> QED
  BY <1>1, <1>2 DEF VerdictOfPacket

(* The result that a failed check, or the last step, gives.                *)
LEMMA VerdictCases ==
  ASSUME ex \in {5, 6}, NEW p \in Packets
  PROVE  /\ Len(p) < EthSize => Verdict(p) = XDP_PASS
         /\ ~IsIp(p) => Verdict(p) = XDP_PASS
         /\ IsIp(p) /\ ex = 5 => Verdict(p) = XDP_DROP
         /\ IsIp(p) /\ ex = 6 /\ Len(p) < EthSize + IpSize => Verdict(p) = -1
         /\ IsIp(p) /\ ex = 6 /\ Len(p) >= EthSize + IpSize =>
              LET hdr == 4 * (p[EthSize + 1] % 16) IN
              /\ hdr < IpSize => Verdict(p) = -2
              /\ hdr >= IpSize /\ Len(p) < EthSize + hdr => Verdict(p) = -3
              /\ hdr >= IpSize /\ Len(p) >= EthSize + hdr => Verdict(p) = XDP_PASS
<1>1. PICK L \in Nat : L = Len(p)
  BY DEF Packets
<1>2. Len(p) < EthSize => ~IsIp(p)
  BY <1>1 DEF IsIp, EthSize
<1>3. ~IsIp(p) => Verdict(p) = XDP_PASS
  BY DEF Verdict
<1>4. IsIp(p) /\ ex = 5 => Verdict(p) = XDP_DROP
  BY DEF Verdict
<1>5. IsIp(p) /\ ex = 6 /\ Len(p) < EthSize + IpSize => Verdict(p) = -1
  BY DEF Verdict
<1>6. ASSUME IsIp(p), ex = 6, Len(p) >= EthSize + IpSize
      PROVE  LET hdr == 4 * (p[EthSize + 1] % 16) IN
             /\ hdr < IpSize => Verdict(p) = -2
             /\ hdr >= IpSize /\ Len(p) < EthSize + hdr => Verdict(p) = -3
             /\ hdr >= IpSize /\ Len(p) >= EthSize + hdr => Verdict(p) = XDP_PASS
  <2>1. p[15] \in 0 .. 255
    <3>1. 15 \in 1 .. Len(p)
      BY <1>1, <1>6 DEF EthSize, IpSize
    <3>2. p \in Seq(0 .. 255)
      BY DEF Packets
    <3> QED
      BY <3>1, <3>2, ElementOfSeq
  <2>2. PICK h \in Nat : h = 4 * (p[EthSize + 1] % 16)
    BY <2>1 DEF EthSize
  <2>3. ~(Len(p) < EthSize + IpSize) /\ ~(ex = 5)
    BY <1>1, <1>6 DEF EthSize, IpSize
  <2>4. Verdict(p) = IF h < IpSize THEN -2
                     ELSE IF Len(p) < EthSize + h THEN -3 ELSE XDP_PASS
    BY <1>6, <2>2, <2>3, Zenon DEF Verdict
  <2> QED
    BY <2>2, <2>4, <1>1 DEF EthSize, IpSize
<1> QED
  BY <1>2, <1>3, <1>4, <1>5, <1>6

LEMMA ProgramRight ==
  ASSUME Inv, Placed, Delimited, VerdictOfPacket, RunInv, Program
  PROVE  VerdictOfPacket' /\ RunInv'
<1>0. TypeOK /\ Checked /\ pc \in RunPcs /\ ex \in 2 .. 6
  BY DEF Inv, Program, Constant, NullTest, EthTest, Proto, IpTest, Ihl,
         Addresses, RunPcs, TypeOK
<1>1. PICK j \in Nat \ {0} : j = Len(rets) + 1
  BY <1>0 DEF TypeOK
<1>2. ASSUME NEW q, Goto(q),
             ex \in {5, 6} /\ Readable(j) =>
               /\ q \in {"ip", "ihl", "addrs"} => ex = 6 /\ IsIp(View(j))
               /\ q = "addrs" => LET hdr == 4 * (View(j)[EthSize + 1] % 16)
                                 IN  hdr >= IpSize /\ Len(View(j)) >= EthSize + hdr
      PROVE  VerdictOfPacket' /\ RunInv'
  <2>1. UNCHANGED <<ex, frames, region, rets>> /\ pc' = q
    BY <1>2 DEF Goto
  <2>2. View(j)' = View(j) /\ (Readable(j)' <=> Readable(j))
    BY <2>1, SameView
  <2>3. RunInv'
    BY <1>1, <1>2, <2>1, <2>2 DEF RunInv, IsIp, EthSize, IpSize
  <2> QED
    BY <2>1, <2>3, KeepVerdict
<1>3. ASSUME NEW v \in -3 .. 91, Return(v),
             ex \in {5, 6} /\ Readable(j) => v = Verdict(View(j))
      PROVE  VerdictOfPacket' /\ RunInv'
  BY <1>0, <1>1, <1>3, ReturnVerdict
<1>4. ASSUME ex \in {5, 6}, Readable(j)
      PROVE  /\ View(j) \in Packets
             /\ Pkt.data \in Nat \ {0}
             /\ \A n \in Nat : Fits(n) <=> n <= Len(View(j))
             /\ \A n \in Nat : n < Len(View(j)) => At(n) = {View(j)[n + 1]}
  BY <1>0, <1>1, <1>4, ViewOf
<1>5. ASSUME ex \in {5, 6}, Readable(j)
      PROVE  /\ pc \in {"ip", "ihl", "addrs"} => ex = 6 /\ IsIp(View(j))
             /\ pc = "addrs" => LET hdr == 4 * (View(j)[EthSize + 1] % 16)
                                IN  hdr >= IpSize /\ Len(View(j)) >= EthSize + hdr
  BY <1>0, <1>1, <1>5 DEF RunInv
<1>6. XDP_PASS = 2 /\ XDP_DROP = 1 /\ XDP_PASS \in -3 .. 91 /\ XDP_DROP \in -3 .. 91
      /\ EthSize = 14 /\ IpSize = 20
  BY DEF XDP_PASS, XDP_DROP, EthSize, IpSize
<1>7. CASE Constant
  <2>1. PICK v \in {1, 91, 2} : Return(v)
    BY <1>7 DEF Constant, XDP_PASS
  <2>2. ex \notin {5, 6}
    BY <1>7 DEF Constant
  <2> QED
    BY <2>1, <2>2, <1>3
<1>8. CASE NullTest
  <2>1. CASE Goto("eth")
    BY <2>1, <1>2
  <2>2. CASE Return(XDP_PASS) /\ (Pkt.data = 0 \/ Pkt.data_end = 0)
    <3>1. ~(ex \in {5, 6} /\ Readable(j))
      <4> SUFFICES ASSUME ex \in {5, 6}, Readable(j) PROVE FALSE
        OBVIOUS
      <4>1. Pkt.data \in Nat \ {0} /\ Fits(0)
        <5>1. 0 \in Nat /\ 0 <= Len(View(j))
          BY <1>4 DEF Packets
        <5> QED
          BY <5>1, <1>4
      <4>2. Pkt.data + 0 <= Pkt.data_end
        BY <4>1 DEF Fits
      <4> QED
        BY <2>2, <4>1, <4>2
    <3> QED
      BY <2>2, <3>1, <1>3, <1>6
  <2> QED
    BY <2>1, <2>2, <1>8 DEF NullTest
<1>9. CASE EthTest
  <2>1. CASE Fits(EthSize) /\ Goto("proto")
    BY <2>1, <1>2
  <2>2. CASE ~Fits(EthSize) /\ Return(XDP_PASS)
    <3>1. ASSUME ex \in {5, 6}, Readable(j) PROVE XDP_PASS = Verdict(View(j))
      <4>1. View(j) \in Packets /\ ~(EthSize <= Len(View(j)))
        BY <2>2, <3>1, <1>4, <1>6
      <4>2. Len(View(j)) < EthSize
        BY <4>1, <1>6 DEF Packets
      <4> QED
        BY <3>1, <4>1, <4>2, VerdictCases
    <3> QED
      BY <2>2, <3>1, <1>3, <1>6
  <2> QED
    BY <2>1, <2>2, <1>9 DEF EthTest
<1>10. CASE Proto
  <2>1. PICK hi \in At(12), lo \in At(13) :
          IF <<hi, lo>> # <<8, 0>> THEN Return(XDP_PASS)
          ELSE IF ex = 5 THEN Return(XDP_DROP) ELSE Goto("ip")
    BY <1>10 DEF Proto
  <2>2. ASSUME ex \in {5, 6}, Readable(j)
        PROVE  View(j) \in Packets /\ (IsIp(View(j)) <=> <<hi, lo>> = <<8, 0>>)
    <3>1. Fits(EthSize)
      BY <1>0, <1>10 DEF Checked, Proto
    <3>2. 14 <= Len(View(j)) /\ Len(View(j)) \in Nat
      BY <3>1, <2>2, <1>4, <1>6 DEF Packets
    <3>3. 12 < Len(View(j)) /\ 13 < Len(View(j)) /\ 12 + 1 = 13 /\ 13 + 1 = 14
      BY <3>2
    <3>4. At(12) = {View(j)[13]} /\ At(13) = {View(j)[14]}
      BY <2>2, <3>3, <1>4
    <3>5. hi = View(j)[13] /\ lo = View(j)[14]
      BY <2>1, <3>4
    <3>6. IsIp(View(j)) <=> View(j)[13] = 8 /\ View(j)[14] = 0
      BY <3>2, <1>6 DEF IsIp
    <3> QED
      BY <2>2, <3>5, <3>6, <1>4
  <2>3. CASE <<hi, lo>> # <<8, 0>>
    <3>1. Return(XDP_PASS)
      BY <2>1, <2>3
    <3>2. ex \in {5, 6} /\ Readable(j) => XDP_PASS = Verdict(View(j))
      BY <2>2, <2>3, VerdictCases
    <3> QED
      BY <3>1, <3>2, <1>3, <1>6
  <2>4. CASE <<hi, lo>> = <<8, 0>> /\ ex = 5
    <3>1. Return(XDP_DROP)
      BY <2>1, <2>4
    <3>2. ex \in {5, 6} /\ Readable(j) => XDP_DROP = Verdict(View(j))
      BY <2>2, <2>4, VerdictCases
    <3> QED
      BY <3>1, <3>2, <1>3, <1>6
  <2>5. CASE <<hi, lo>> = <<8, 0>> /\ ex # 5
    <3>1. Goto("ip")
      BY <2>1, <2>5
    <3>2. ex \in {5, 6} /\ Readable(j) => ex = 6 /\ IsIp(View(j))
      BY <2>2, <2>5
    <3> QED
      BY <3>1, <3>2, <1>2
  <2> QED
    BY <2>3, <2>4, <2>5
<1>11. CASE IpTest
  <2>1. ex \in {5, 6} /\ Readable(j) => ex = 6 /\ IsIp(View(j))
    BY <1>5, <1>11 DEF IpTest
  <2>2. CASE Fits(EthSize + IpSize) /\ Goto("ihl")
    BY <2>1, <2>2, <1>2
  <2>3. CASE ~Fits(EthSize + IpSize) /\ Return(-1)
    <3>1. ASSUME ex \in {5, 6}, Readable(j) PROVE -1 = Verdict(View(j))
      <4>1. View(j) \in Packets /\ ~(EthSize + IpSize <= Len(View(j)))
        BY <2>3, <3>1, <1>4, <1>6
      <4>2. Len(View(j)) < EthSize + IpSize
        BY <4>1, <1>6 DEF Packets
      <4> QED
        BY <2>1, <3>1, <4>1, <4>2, VerdictCases
    <3> QED
      BY <2>3, <3>1, <1>3
  <2> QED
    BY <2>2, <2>3, <1>11 DEF IpTest
<1>12. CASE Ihl
  <2>1. PICK b \in At(EthSize) :
          LET hdr_size == (b % 16) * 4 IN
          IF hdr_size < IpSize THEN Return(-2)
          ELSE IF ~Fits(EthSize + hdr_size) THEN Return(-3) ELSE Goto("addrs")
    BY <1>12 DEF Ihl
  <2>2. ASSUME ex \in {5, 6}, Readable(j)
        PROVE  /\ ex = 6 /\ IsIp(View(j)) /\ View(j) \in Packets
               /\ Len(View(j)) \in Nat /\ Len(View(j)) >= EthSize + IpSize
               /\ b = View(j)[EthSize + 1] /\ b \in 0 .. 255
    <3>1. ex = 6 /\ IsIp(View(j)) /\ View(j) \in Packets
      BY <2>2, <1>4, <1>5, <1>12 DEF Ihl
    <3>2. Fits(EthSize + IpSize)
      BY <1>0, <1>12 DEF Checked, Ihl
    <3>3. 14 + 20 <= Len(View(j)) /\ Len(View(j)) \in Nat
      BY <3>1, <3>2, <2>2, <1>4, <1>6 DEF Packets
    <3>4. 14 < Len(View(j)) /\ 14 + 1 \in 1 .. Len(View(j))
      BY <3>3
    <3>5. At(14) = {View(j)[14 + 1]}
      BY <2>2, <3>4, <1>4
    <3>6. View(j)[14 + 1] \in 0 .. 255
      BY <3>1, <3>4, ElementOfSeq DEF Packets
    <3>7. EthSize + 1 = 14 + 1 /\ EthSize + IpSize = 14 + 20 /\ At(EthSize) = At(14)
      BY <1>6
    <3>8. b = View(j)[14 + 1]
      BY <2>1, <3>5, <3>7
    <3>9. Len(View(j)) >= EthSize + IpSize
      BY <3>3, <3>7
    <3> QED
      BY <3>1, <3>3, <3>6, <3>7, <3>8, <3>9
  <2> DEFINE hdr_size == (b % 16) * 4
  <2>3. ASSUME ex \in {5, 6}, Readable(j)
        PROVE  /\ hdr_size \in Nat /\ hdr_size = 4 * (View(j)[EthSize + 1] % 16)
               /\ Fits(EthSize + hdr_size) <=> Len(View(j)) >= EthSize + hdr_size
               /\ hdr_size < IpSize => Verdict(View(j)) = -2
               /\ hdr_size >= IpSize /\ Len(View(j)) < EthSize + hdr_size =>
                    Verdict(View(j)) = -3
    <3>1. hdr_size \in Nat /\ hdr_size = 4 * (b % 16)
      <4>1. PICK c \in 0 .. 255 : c = b
        BY <2>2, <2>3
      <4>2. c % 16 \in Nat
        OBVIOUS
      <4>3. PICK m \in Nat : m = b % 16
        BY <4>1, <4>2
      <4> QED
        BY <4>3
    <3>2. hdr_size = 4 * (View(j)[EthSize + 1] % 16)
      BY <2>2, <2>3, <3>1
    <3> HIDE DEF hdr_size
    <3>3. EthSize + hdr_size \in Nat
      BY <3>1, <1>6
    <3>4. Fits(EthSize + hdr_size) <=> EthSize + hdr_size <= Len(View(j))
      BY <2>3, <3>3, <1>4
    <3>5. /\ hdr_size < IpSize => Verdict(View(j)) = -2
          /\ hdr_size >= IpSize /\ Len(View(j)) < EthSize + hdr_size =>
               Verdict(View(j)) = -3
      BY <2>2, <2>3, <3>2, VerdictCases
    <3>6. EthSize + hdr_size <= Len(View(j)) <=> Len(View(j)) >= EthSize + hdr_size
      BY <2>2, <2>3, <3>3
    <3> QED
      BY <3>1, <3>2, <3>4, <3>5, <3>6
  <2>4. \/ hdr_size < IpSize /\ Return(-2)
        \/ ~(hdr_size < IpSize) /\ ~Fits(EthSize + hdr_size) /\ Return(-3)
        \/ ~(hdr_size < IpSize) /\ Fits(EthSize + hdr_size) /\ Goto("addrs")
    BY <2>1
  <2> HIDE DEF hdr_size
  <2>5. CASE hdr_size < IpSize /\ Return(-2)
    BY <2>3, <2>5, <1>3
  <2>6. CASE ~(hdr_size < IpSize) /\ ~Fits(EthSize + hdr_size) /\ Return(-3)
    <3>1. ex \in {5, 6} /\ Readable(j) => -3 = Verdict(View(j))
      <4> SUFFICES ASSUME ex \in {5, 6}, Readable(j) PROVE -3 = Verdict(View(j))
        OBVIOUS
      <4>1. hdr_size >= IpSize /\ Len(View(j)) < EthSize + hdr_size
        BY <2>2, <2>3, <2>6, <1>6
      <4> QED
        BY <4>1, <2>3
    <3> QED
      BY <2>6, <3>1, <1>3
  <2>7. CASE ~(hdr_size < IpSize) /\ Fits(EthSize + hdr_size) /\ Goto("addrs")
    <3>1. ASSUME ex \in {5, 6}, Readable(j)
          PROVE  /\ ex = 6 /\ IsIp(View(j))
                 /\ hdr_size = 4 * (View(j)[EthSize + 1] % 16)
                 /\ hdr_size >= IpSize /\ Len(View(j)) >= EthSize + hdr_size
      <4>1. hdr_size >= IpSize
        BY <2>3, <2>7, <3>1, <1>6
      <4> QED
        BY <4>1, <2>2, <2>3, <2>7, <3>1
    <3> QED
      BY <2>7, <3>1, <1>2
  <2> QED
    BY <2>4, <2>5, <2>6, <2>7
<1>13. CASE Addresses
  <2>1. Return(XDP_PASS) /\ pc = "addrs"
    BY <1>13 DEF Addresses
  <2>2. ASSUME ex \in {5, 6}, Readable(j) PROVE XDP_PASS = Verdict(View(j))
    <3>1. /\ View(j) \in Packets /\ ex = 6 /\ IsIp(View(j))
          /\ 4 * (View(j)[EthSize + 1] % 16) >= IpSize
          /\ Len(View(j)) >= EthSize + 4 * (View(j)[EthSize + 1] % 16)
      BY <2>1, <2>2, <1>4, <1>5
    <3>2. Fits(EthSize + IpSize)
      BY <2>1, <1>0 DEF Checked
    <3>3. Len(View(j)) >= EthSize + IpSize
      <4>1. 14 + 20 <= Len(View(j)) /\ Len(View(j)) \in Nat
        BY <2>2, <3>1, <3>2, <1>4, <1>6 DEF Packets
      <4> QED
        BY <4>1, <1>6
    <3> QED
      BY <2>2, <3>1, <3>3, VerdictCases
  <2> QED
    BY <2>1, <2>2, <1>3, <1>6
<1> QED
  BY <1>7, <1>8, <1>9, <1>10, <1>11, <1>12, <1>13 DEF Program

(* While main loads, it has no result; and it begins with the first packet.*)
LEMMA LoadVerdict ==
  ASSUME Inv, VerdictOfPacket, Load
  PROVE  VerdictOfPacket' /\ RunInv'
<1>1. UNCHANGED <<ex, frames, region, rets>>
  BY DEF Load, LoadWords, ScanWord, ScanHalf, LoadHalves, HitEnd, Stray,
         Loaded, Scanned
<1>2. pc' \in {"load", "stray", "null"}
  BY DEF Load, LoadWords, ScanWord, ScanHalf, LoadHalves, HitEnd, Stray,
         Loaded, Scanned
<1>3. RunInv'
  BY <1>2 DEF RunInv, RunPcs
<1> QED
  BY <1>1, <1>3, KeepVerdict

(* The inductive invariant.                                                *)
LoaderInv ==
  /\ Inv
  /\ Placed /\ Delimited /\ ScanInv
  /\ VerdictOfPacket /\ RunInv

LEMMA InitLoader == Init => LoaderInv
<1>1. Init => VerdictOfPacket /\ RunInv
  BY DEF Init, VerdictOfPacket, RunInv, RunPcs
<1> QED
  BY <1>1, InitInv, InitScan DEF LoaderInv

LEMMA StepLoader == LoaderInv /\ [Next]_vars => LoaderInv'
<1> SUFFICES ASSUME LoaderInv, [Next]_vars PROVE LoaderInv'
  OBVIOUS
<1>1. Inv'
  BY Inductive DEF LoaderInv
<1>2. CASE Load
  BY <1>1, <1>2, LoadRight, LoadVerdict DEF LoaderInv
<1>3. CASE Program
  <2>1. UNCHANGED <<ex, frames, region, pkts>> /\ pc' # "load"
    BY <1>3 DEF Program, Constant, NullTest, EthTest, Proto, IpTest, Ihl,
         Addresses, Return, Goto
  <2>2. Placed' /\ Delimited' /\ ScanInv'
    BY <2>1, KeepRight DEF LoaderInv
  <2> QED
    BY <1>1, <1>3, <2>2, ProgramRight DEF LoaderInv
<1>4. CASE UNCHANGED vars
  <2>1. /\ UNCHANGED <<ex, frames, region, pkts>>
        /\ UNCHANGED <<pc, start, curr, cnt>> /\ UNCHANGED rets
    BY <1>4 DEF vars
  <2>2. Placed' /\ Delimited' /\ ScanInv'
    BY <2>1, KeepRight DEF LoaderInv
  <2>3. VerdictOfPacket'
    BY <2>1, KeepVerdict DEF LoaderInv
  <2>4. RunInv'
    <3> DEFINE j == Len(rets) + 1
    <3>1. View(j)' = View(j) /\ (Readable(j)' <=> Readable(j))
      BY <2>1 DEF View, Readable, Clean, Runs, Stops, EndsOnes, Char
    <3>2. IsIp(View(j))' <=> IsIp(View(j))
      BY <3>1 DEF IsIp
    <3> QED
      BY <2>1, <3>1, <3>2 DEF LoaderInv, RunInv, EthSize, IpSize
  <2> QED
    BY <1>1, <2>2, <2>3, <2>4 DEF LoaderInv
<1> QED
  BY <1>2, <1>3, <1>4 DEF Next, Over

(* The scan of every example finds the packets it can tell from the ones   *)
(* between them, each from its first byte, in 02 and 05 to its last and in *)
(* 06 to the first of the next, in every region a linker script can hold.  *)
THEOREM Delimiting == Spec => []Delimited
<1>1. LoaderInv => Delimited
  BY DEF LoaderInv
<1> QED
  BY <1>1, InitLoader, StepLoader, PTL DEF Spec

(* From the region to the result of bpf_main: the verdict on a packet of   *)
(* examples 05 and 06 is that of its bytes, whatever else is in the region.*)
THEOREM Verdicts == Spec => []VerdictOfPacket
<1>1. LoaderInv => VerdictOfPacket
  BY DEF LoaderInv
<1> QED
  BY <1>1, InitLoader, StepLoader, PTL DEF Spec
=============================================================================
