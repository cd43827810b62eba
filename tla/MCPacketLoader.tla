---------------------------- MODULE MCPacketLoader ----------------------------
(* Short packets of a few kinds of bytes, so that ones stand at every place *)
(* around the ends of packets and words, and packets that are headers.      *)
EXTENDS PacketLoader

Tiny == UNION {[1 .. n -> {0, 255}] : n \in 0 .. 4}
        \cup {<<3, 0>>, <<3, 0, 255, 255>>}

(* Four halfwords of ones apart and in a row, on and off a word's boundary. *)
Ff(n) == [k \in 1 .. 2 * n |-> 255]
Holes == {Ff(n) \o <<0, 0>> \o Ff(m) : n \in 0 .. 4, m \in 0 .. 3}
         \cup {<<0, 0>> \o Ff(n) \o <<0, 0>> : n \in 2 .. 5}

(* A packet of n bytes: the first byte, the protocol and the byte of ihl.   *)
Header(n, v, lo, ihl) ==
  [k \in 1 .. n |-> CASE k = 1 -> v [] k = 13 -> 8 [] k = 14 -> lo
                      [] k = 15 -> ihl [] OTHER -> 1]
Headers ==
  {Header(n, v, lo, ihl) :
     n \in {13, 14, 16, 26, 32, 34, 36, 38}, v \in {0}, lo \in {0},
     ihl \in {68, 69, 70}}
  \cup {Header(n, v, lo, 69) : n \in {14, 34}, v \in {0, 4, 255}, lo \in {0, 6}}

MCInputs == {<<f>> : f \in Tiny \cup Holes \cup Headers}
            \cup {<<f, g>> : f, g \in Tiny} \cup {<<f, g>> : f, g \in Headers}
            \cup {<<f, g>> : f \in Holes, g \in Tiny}
Examples02To05 == 2 .. 5
AllExamples == 2 .. 6
=============================================================================
