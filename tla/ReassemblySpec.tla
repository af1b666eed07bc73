--------------------------- MODULE ReassemblySpec ---------------------------
(* What reassembly promises (the comment of Reassembler::insert,            *)
(* src/src/reassembler.hh), without chunks: of every byte offered, the ones *)
(* inside the window are known from then on; the known prefix is in the     *)
(* output; the output is closed with its last byte.                         *)
EXTENDS Naturals

CONSTANTS StreamLength, Capacity

VARIABLES
  known,      \* the indices of the bytes held or written
  written,    \* how many bytes are in the output
  read,       \* how many bytes the reader took
  ended,      \* the last substring was offered
  closed      \* the output is closed

specVars == << known, written, read, ended, closed >>

Indices == 0..(StreamLength - 1)

SpecInit ==
  /\ known = {}
  /\ written = 0
  /\ read = 0
  /\ ended = FALSE
  /\ closed = FALSE

Offer(first, n, last) ==
  /\ last => first + n = StreamLength
  /\ known' = known \union {i \in Indices : /\ first <= i /\ i < first + n
                                            /\ i < read + Capacity}
  /\ written' \in 0..StreamLength
  /\ written' \notin known'
  /\ \A i \in 0..(written' - 1) : i \in known'
  /\ ended' = (ended \/ last)
  /\ closed' = (closed \/ (ended' /\ written' = StreamLength))
  /\ read' = read

Read(n) ==
  /\ n > 0 /\ read + n <= written
  /\ read' = read + n
  /\ UNCHANGED << known, written, ended, closed >>

SpecNext ==
  \/ \E first \in 0..StreamLength : \E n \in 0..(StreamLength - first) :
       \E last \in BOOLEAN : Offer(first, n, last)
  \/ \E n \in 1..StreamLength : Read(n)

SafetySpec == SpecInit /\ [][SpecNext]_specVars
=============================================================================
