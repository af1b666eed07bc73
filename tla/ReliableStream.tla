--------------------------- MODULE ReliableStream ---------------------------
(* What a TCP connection promises to the applications at its two ends, for  *)
(* one direction: the reader gets the bytes of the writer, each once, in    *)
(* order, and learns of the end only after the last of them.                *)
EXTENDS Naturals, Sequences

VARIABLES
  written,    \* how many bytes the writer gave
  ended,      \* the writer closed the stream
  delivered,  \* the bytes the reader took or can take, in order
  finished    \* the reader can see the end of the stream

streamVars == << written, ended, delivered, finished >>

StreamInit ==
  /\ written = 0
  /\ ended = FALSE
  /\ delivered = <<>>
  /\ finished = FALSE

WriteBytes ==
  /\ ~ended
  /\ written' \in Nat /\ written' > written
  /\ UNCHANGED << ended, delivered, finished >>

EndStream ==
  /\ ended' = TRUE
  /\ UNCHANGED << written, delivered, finished >>

\* Bytes become available, possibly together with the end of the stream.
DeliverBytes ==
  /\ ~finished
  /\ Len(delivered') >= Len(delivered) /\ Len(delivered') <= written
  /\ delivered' = [i \in 1..Len(delivered') |-> i]
  /\ finished' => ended /\ Len(delivered') = written
  /\ UNCHANGED << written, ended >>

StreamNext == WriteBytes \/ EndStream \/ DeliverBytes

StreamSpec == StreamInit /\ [][StreamNext]_streamVars
=============================================================================
