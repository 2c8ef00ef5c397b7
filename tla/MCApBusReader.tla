----------------------------- MODULE MCApBusReader -----------------------------
(* Streams of two or three frames of different lengths, with noise before  *)
(* them (a lone BC, a BC twice), a frame whose checksum is wrong, one      *)
(* whose length field is, and a header whose length is 256.                *)
EXTENDS ApBusReader

CONSTANTS p1, p2

MCGoodStreams == {
  Frame(1, 1, 1, TRUE) \o Frame(2, 0, 0, TRUE),
  <<Noise(BC)>> \o Frame(1, 0, 0, TRUE) \o <<Noise(0), Noise(BC), Noise(0)>>
    \o Frame(2, 1, 1, TRUE),
  Frame(1, 0, 0, TRUE) \o Frame(2, 1, 1, FALSE) \o Frame(3, 1, 1, TRUE),
  <<Noise(BC), Noise(BC)>> \o Frame(1, 1, 1, TRUE) \o Frame(2, 2, 3, FALSE) }

\* As many bytes behind the length as do not fit the buffer any more.
MCLongStream ==
  Frame(1, 0, 0, TRUE) \o <<Noise(BC), Noise(CB), Noise(0), Noise(1)>> \o [k \in 1 .. 5 |-> Noise(1)]

MCStreams == MCGoodStreams \cup {MCLongStream}

MCShortStreams == { Frame(1, 0, 0, TRUE) }

\* What the proofs assume of the streams is true of the others.
ASSUME StreamsAreFair == \A s \in Streams \ {MCLongStream} : s \in Seq(Bytes) /\ LineIsFair(s)

MCOnePort == {p1}
MCTwoPorts == {p1, p2}
================================================================================
