----------------------------- MODULE MCAdapters -----------------------------
(* Model-checking instance of AdapterSystem: a host that listens, and three *)
(* that connect to it, one pair with the same port and one with the same    *)
(* address.                                                                 *)
EXTENDS AdapterSystem

Server == [ip |-> << 49320, 1 >>, port |-> 80]
ByAddress(ip, port) == [ip |-> ip, port |-> port]

Client == [alice |-> ByAddress(<< 49320, 2 >>, 4000),
           bob   |-> ByAddress(<< 49320, 3 >>, 4000),
           carol |-> ByAddress(<< 49320, 2 >>, 4001)]

AllHosts == {"server"} \union DOMAIN Client

\* The server is bound to any address, and its adapter loses datagrams.
AllAdapters ==
  [h \in AllHosts |->
     IF h = "server"
       THEN NewAdapter(ByAddress(<< 0, 0 >>, 80), ByAddress(<< 0, 0 >>, 0), TRUE, 1, 1)
       ELSE NewAdapter(Client[h], Server, FALSE, 0, 0)]

Segment(seqno, SYN, payload, FIN, RST) ==
  [seqno |-> seqno, SYN |-> SYN, payload |-> payload, FIN |-> FIN, RST |-> RST]

Acks(ackno, window_size, RST) == [ackno |-> ackno, window_size |-> window_size, RST |-> RST]

\* An opening, odd data that makes the sums carry, an acknowledged end with even
\* data, and a reset of the receiver's half.
SomeMessages ==
  {[sender |-> Segment(<< 0, 137 >>, TRUE, <<>>, FALSE, FALSE),
    receiver |-> Acks(NoAckno, 64000, FALSE)],
   [sender |-> Segment(<< 65535, 65535 >>, FALSE, << 255, 255, 255 >>, FALSE, FALSE),
    receiver |-> Acks(<< 65535, 65535 >>, 65535, FALSE)],
   [sender |-> Segment(<< 1, 0 >>, FALSE, << 0, 1 >>, TRUE, FALSE),
    receiver |-> Acks(<< 0, 0 >>, 0, FALSE)],
   [sender |-> Segment(<< 0, 138 >>, TRUE, <<>>, FALSE, FALSE),
    receiver |-> Acks(<< 0, 9 >>, 0, TRUE)]}

\* One bit of every octet, and the reserved one.
SomeBits == {<< octet, (octet * 3) % 8 >> : octet \in 1..43} \union {<< 7, 7 >>}

SomePadding == << 0, 1 >>
=============================================================================
