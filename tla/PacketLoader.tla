----------------------------- MODULE PacketLoader -----------------------------
(***************************************************************************)
(* The main of examples 02 to 06 on bare metal: it looks for packets in    *)
(* the data region the linker script lays out, each followed by 64 bits of *)
(* ones, fills an xdp_md for each and calls bpf_main on it.  bpf_main is   *)
(* the example's main.bpf.c; of what it does, its bounds checks, its reads *)
(* of the packet and its result are kept.                                  *)
(*                                                                         *)
(* Addresses are bytes.  Memory below the region is .rodata, and memory    *)
(* above it is the stack section, which is zero there.                     *)
(***************************************************************************)
EXTENDS Integers, SequencesExt

CONSTANTS
  Examples,  \* which of them: a subset of 2 .. 6
  Inputs,    \* what the linker script puts in the region: sequences of packets
  Base,      \* my_data_region_start
  Below,     \* the bytes .rodata may hold
  Garbage    \* what an uninitialised data_end may hold

Packets == Seq(0 .. 255)

ASSUME InputsAssumption ==
  /\ Examples \subseteq 2 .. 6
  /\ Inputs \subseteq Seq(Packets) \ {<<>>}
ASSUME MemoryAssumption == /\ Base \in Nat \ {0}
                           /\ Below \subseteq 0 .. 255 /\ Garbage \subseteq Nat

VARIABLES
  ex,      \* the example
  frames,  \* the packets in the region, without the ones after each
  region,  \* the bytes of the region
  pc,      \* "load", "stray", "halt", or where bpf_main is
  start,   \* curr_start: where the scan for the current packet began
  curr,    \* the pointer of the scan
  cnt,     \* end_seq_cnt
  pkts,    \* data and data_end of the packets loaded
  rets     \* the results of bpf_main

vars == <<ex, frames, region, pc, start, curr, cnt, pkts, rets>>

-----------------------------------------------------------------------------
StopSeq    == [n \in 1 .. 8 |-> 255]
Layout(fs) == FlattenSeq([j \in DOMAIN fs |-> fs[j] \o StopSeq])

(* What a linker script can hold: bytes, and one at least.                 *)
ASSUME LayoutAssumption ==
  \A fs \in Inputs : Layout(fs) \in Packets /\ Layout(fs) # <<>>

End == Base + Len(region)

(* The values a read of the byte at an address may return.                 *)
Reads(a) ==
  CASE a < Base -> Below
    [] a \in Base .. End - 1 -> {region[a - Base + 1]}
    [] a >= End -> {0}

Ones(a, n) == \A m \in a .. a + n - 1 : Reads(m) = {255}

(* my_data_region_start is declared as a char: what is subtracted from a   *)
(* pointer is the first byte of the region.                                *)
Char == region[1]

ARR_SIZE == IF ex = 6 THEN 2 ELSE 1

Init ==
  /\ ex \in Examples /\ frames \in Inputs
  /\ region = Layout(frames)
  /\ pc = "load" /\ start = Base /\ curr = Base /\ cnt = 0
  /\ pkts = <<>> /\ rets = <<>>

Data == IF ex \in 3 .. 5 THEN Base - Char ELSE start

(* The packet is done; main goes on with the next one at curr_start, or    *)
(* with bpf_main on the first.                                             *)
Loaded(data_end, next) ==
  /\ pkts' = Append(pkts, [data |-> Data, data_end |-> data_end])
  /\ pc' = IF Len(pkts') < ARR_SIZE THEN "load" ELSE "null"
  /\ start' = next /\ curr' = next /\ cnt' = 0
  /\ UNCHANGED <<ex, frames, region, rets>>

Scanned(next, n) ==
  /\ curr' = next /\ cnt' = n
  /\ UNCHANGED <<ex, frames, region, pc, start, pkts, rets>>

(* Example 02 compares words: the last two read are ones.                  *)
AllOnes ==
  LET prev == IF curr = start THEN curr ELSE curr - 4
  IN  Ones(curr, 4) /\ Ones(prev, 4)

LoadWords ==
  /\ pc = "load" /\ ex = 2 /\ curr <= End /\ AllOnes
  /\ Loaded(IF curr = start THEN curr ELSE curr - 4, curr)

ScanWord ==
  /\ pc = "load" /\ ex = 2 /\ curr < End /\ ~AllOnes
  /\ Scanned(curr + 4, 0)

(* Examples 03 and 04 count every halfword of ones, 05 and 06 those in a   *)
(* row.                                                                    *)
(* Bug: examples 05 and 06 count as 03 does.                               *)
Count_Total == IF Ones(curr, 2) THEN cnt + 1 ELSE cnt
Count == IF Ones(curr, 2) THEN cnt + 1 ELSE IF ex >= 5 THEN 0 ELSE cnt

ScanHalf ==
  /\ pc = "load" /\ ex # 2 /\ curr \in Base .. End - 1 /\ Count < 4
  /\ Scanned(curr + 2, Count)

(* curr is a uint16_t pointer, so that Char is subtracted twice.           *)
DataEnd ==
  CASE ex = 6 -> curr + 2
    [] ex = 5 -> curr + 2 - 2 * Char - 2 * 4
    [] OTHER  -> curr + 2 - 2 * Char

LoadHalves ==
  /\ pc = "load" /\ ex # 2 /\ curr \in Base .. End - 1 /\ Count >= 4
  /\ Loaded(DataEnd, curr + 2)

(* The end of the region: data_end stays as it is on the stack, and the    *)
(* error returned is ignored; get_next_pkt_end returns NULL.               *)
HitEnd ==
  /\ pc = "load" /\ curr = End /\ (ex = 2 => ~AllOnes)
  /\ IF ex = 6 THEN Loaded(0, 0) ELSE \E g \in Garbage : Loaded(g, 0)

(* A scan that has passed the end, or begins at NULL, reads on and on.     *)
Stray ==
  /\ pc = "load" /\ curr \notin Base .. End
  /\ pc' = "stray"
  /\ UNCHANGED <<ex, frames, region, start, curr, cnt, pkts, rets>>

-----------------------------------------------------------------------------
(* bpf_main.                                                               *)
XDP_DROP == 1
XDP_PASS == 2
EthSize  == 14
IpSize   == 20

Pkt      == pkts[Len(rets) + 1]
Fits(n)  == Pkt.data + n <= Pkt.data_end
At(n)    == Reads(Pkt.data + n)

Goto(p) ==
  pc' = p /\ UNCHANGED <<ex, frames, region, start, curr, cnt, pkts, rets>>

(* Bug: the loop over the packets runs once too often.                     *)
Return_OneMore(v) ==
  /\ rets' = Append(rets, v)
  /\ pc' = IF Len(rets') <= ARR_SIZE THEN "null" ELSE "halt"
  /\ UNCHANGED <<ex, frames, region, start, curr, cnt, pkts>>
(* Bug: the loop does not move on to the next packet.                      *)
Return_NoNext(v) ==
  /\ pc' = IF Len(rets) < ARR_SIZE THEN "null" ELSE "halt"
  /\ UNCHANGED <<ex, frames, region, start, curr, cnt, pkts, rets>>
Return(v) ==
  /\ rets' = Append(rets, v)
  /\ pc' = IF Len(rets') < ARR_SIZE THEN "null" ELSE "halt"
  /\ UNCHANGED <<ex, frames, region, start, curr, cnt, pkts>>

(* The programs of examples 02 to 04 do not look at the packet.            *)
Constant ==
  /\ pc = "null" /\ ex \in 2 .. 4
  /\ Return(CASE ex = 2 -> 1 [] ex = 3 -> 91 [] ex = 4 -> XDP_PASS)

NullTest ==
  /\ pc = "null" /\ ex \in {5, 6}
  /\ IF Pkt.data = 0 \/ Pkt.data_end = 0 THEN Return(XDP_PASS) ELSE Goto("eth")

(* Bug: the Ethernet header is taken for granted.                          *)
EthTest_None == pc = "eth" /\ Goto("proto")
EthTest ==
  /\ pc = "eth"
  /\ IF Fits(EthSize) THEN Goto("proto") ELSE Return(XDP_PASS)

(* h_proto, in network byte order.                                         *)
Proto ==
  /\ pc = "proto"
  /\ \E hi \in At(12), lo \in At(13) :
       IF <<hi, lo>> # <<8, 0>> THEN Return(XDP_PASS)
       ELSE IF ex = 5 THEN Return(XDP_DROP) ELSE Goto("ip")

IpTest ==
  /\ pc = "ip"
  /\ IF Fits(EthSize + IpSize) THEN Goto("ihl") ELSE Return(-1)

(* Bug: ihl is taken for a number of bytes.                                *)
Ihl_Bytes ==
  /\ pc = "ihl"
  /\ \E b \in At(EthSize) :
       LET hdr_size == b % 16 IN
       IF hdr_size < IpSize THEN Return(-2)
       ELSE IF ~Fits(EthSize + hdr_size) THEN Return(-3) ELSE Goto("addrs")
Ihl ==
  /\ pc = "ihl"
  /\ \E b \in At(EthSize) :
       LET hdr_size == (b % 16) * 4 IN
       IF hdr_size < IpSize THEN Return(-2)
       ELSE IF ~Fits(EthSize + hdr_size) THEN Return(-3) ELSE Goto("addrs")

(* saddr and daddr are printed.                                            *)
Addresses == pc = "addrs" /\ Return(XDP_PASS)

-----------------------------------------------------------------------------
Load    == LoadWords \/ ScanWord \/ ScanHalf \/ LoadHalves \/ HitEnd \/ Stray
Program == Constant \/ NullTest \/ EthTest \/ Proto \/ IpTest \/ Ihl \/ Addresses
Over    == pc \in {"halt", "stray"} /\ UNCHANGED vars

Next == Load \/ Program \/ Over

(* One hart runs main with interrupts off; nothing it does blocks.         *)
Spec == Init /\ [][Next]_vars /\ WF_vars(Next)

-----------------------------------------------------------------------------
TypeOK ==
  /\ ex \in 2 .. 6 /\ frames \in Seq(Packets) /\ region \in Packets \ {<<>>}
  /\ pc \in {"load", "stray", "halt", "null", "eth", "proto", "ip", "ihl",
             "addrs"}
  /\ start \in Nat /\ curr \in Nat /\ cnt \in 0 .. 3
  /\ pkts \in Seq([data : Int, data_end : Int])
  /\ rets \in Seq(-3 .. 91)
  /\ Len(pkts) <= ARR_SIZE /\ Len(rets) <= ARR_SIZE
  /\ pc \notin {"load", "stray"} => Len(pkts) = ARR_SIZE
  /\ pc \notin {"load", "stray", "halt"} => Len(rets) < ARR_SIZE

(* The bytes of the packet that the next step of bpf_main reads.           *)
Touched ==
  CASE pc = "proto" -> {Pkt.data + 12, Pkt.data + 13}
    [] pc = "ihl"   -> {Pkt.data + EthSize}
    [] pc = "addrs" -> Pkt.data + EthSize + 12 .. Pkt.data + EthSize + 19
    [] OTHER -> {}

(* Whatever main leaves in the xdp_md, a data_end that was never assigned  *)
(* and a NULL one included, bpf_main reads only bytes from data to         *)
(* data_end: each of its checks comes before the reads it is for.          *)
BoundsChecked == \A a \in Touched : a \in Pkt.data .. Pkt.data_end - 1

(***************************************************************************)
(* A packet the scan can tell from the ones after it, and where packet j   *)
(* of the region is.                                                       *)
(***************************************************************************)
Stops(f) == {n \in 0 .. Len(f) \div 2 - 1 : f[2*n + 1] = 255 /\ f[2*n + 2] = 255}
Runs(f, n)  == {m \in Stops(f) : m .. m + n - 1 \subseteq Stops(f)}
EndsOnes(f) == Len(f) \div 2 - 1 \in Stops(f)

Clean(f) ==
  /\ Len(f) % 2 = 0
  /\ CASE ex >= 5 -> Runs(f, 4) = {} /\ ~EndsOnes(f)
       [] ex \in 3 .. 4 -> Stops(f) = {}
       [] ex = 2 -> /\ Len(f) % 4 = 0
                    /\ ~EndsOnes(f)
                    /\ 0 \notin Runs(f, 2)
                    /\ \A n \in Runs(f, 4) : n % 2 = 1

StartOf(j) == Base + Len(Layout(SubSeq(frames, 1, j - 1)))
EndOf(j)   == StartOf(j) + Len(frames[j])

(* The examples that subtract the first byte of the region add no offset   *)
(* when it is 0, as in the region of the linker script.                    *)
Readable(j) == /\ j <= Len(frames)
               /\ \A m \in 1 .. j : Clean(frames[m])
               /\ ex \in 3 .. 5 => Char = 0

(* Packets that the scan can tell from the ones between them are found one *)
(* by one, each from its first byte to its last: where the next one begins *)
(* in example 06, which returns the end of the ones, and right before them *)
(* in 02 and 05.  In 03 and 04 data_end is not what the code says of it,   *)
(* see EndBeforeOnes, and nothing is claimed of it.                        *)
Delimited ==
  \A j \in DOMAIN pkts :
    Readable(j) =>
      /\ pkts[j].data = StartOf(j)
      /\ ex \in {2, 5} => pkts[j].data_end = EndOf(j)
      /\ ex = 6 => pkts[j].data_end = StartOf(j + 1)

(* What main.bpf.c of example 06 says of the bytes of one packet; that of  *)
(* example 05 stops at the protocol.                                       *)
IsIp(p) == Len(p) >= EthSize /\ p[13] = 8 /\ p[14] = 0
Verdict(p) ==
  IF ~IsIp(p) THEN XDP_PASS
  ELSE IF ex = 5 THEN XDP_DROP
  ELSE IF Len(p) < EthSize + IpSize THEN -1
  ELSE LET hdr == 4 * (p[EthSize + 1] % 16)
       IN  IF hdr < IpSize THEN -2
           ELSE IF Len(p) < EthSize + hdr THEN -3 ELSE XDP_PASS

(* End to end, over the scan, the xdp_md and bpf_main: the result for a    *)
(* packet depends on the bytes of that packet alone, and in example 06 on  *)
(* the ones after it, which can pass for the end of a short IP header.     *)
VerdictOfPacket ==
  \A j \in DOMAIN rets :
    ex \in {5, 6} /\ Readable(j) =>
      rets[j] = Verdict(frames[j] \o IF ex = 6 THEN StopSeq ELSE <<>>)

(* The first 64 bits of ones in packet f and behind it are those behind.   *)
Marked(f) ==
  \A n \in 0 .. Len(f) - 1 : \E k \in 1 .. 8 : (f \o StopSeq)[n + k] # 255

(* "Set pkt_end to the address right before the 64-bit sequence of 1s"     *)
(* (examples 02 to 05), in the terms of the comment alone: whatever the    *)
(* first packet is and however the scan looks for the ones, if the first   *)
(* sequence of 64 ones is the one behind it, data_end is where they begin. *)
EndBeforeOnes ==
  ex # 6 /\ pkts # <<>> /\ Marked(frames[1]) => pkts[1].data_end = EndOf(1)

(* If the region has as many packets as main asks for, main comes to its   *)
(* end with a result for each, and never reads past the region.            *)
Finishes ==
  (Len(frames) >= ARR_SIZE /\ \A j \in 1 .. ARR_SIZE : Clean(frames[j]))
    ~> (pc = "halt" /\ Len(rets) = ARR_SIZE)
=============================================================================
