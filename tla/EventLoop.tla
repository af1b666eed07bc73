----------------------------- MODULE EventLoop ------------------------------
(* EventLoop::wait_next_event (src/util/eventloop.cc) over rules on file    *)
(* descriptors.  What the rules do is given by the operators below; s is a  *)
(* record of all they read and write, with the loop's own data in s.loop:   *)
(*   rules     those not cancelled, in the order they were added            *)
(*   asked     those whose pollfd asks for an event                         *)
(*   polled    the revents that poll() returned                             *)
(*   serviced  whether the callback read or wrote the rule's descriptor     *)
(*   done      whether this call served a rule                              *)
(* and in s.fate whether the program is "alive", "killed" or "threw".       *)
(* Poll and Serve are apart: others act between poll() and the callback.    *)
EXTENDS FileDescriptor, SequencesExt, Basics

CONSTANTS
  Direction(_),       \* In or Out
  Eof(_, _),          \* eof() and closed() of the descriptor of a rule
  Closed(_, _),
  Conditions(_, _),   \* what the kernel has to say of it
  Interested(_, _),   \* the rule's functions: interest,
  Callback(_, _),     \* callback,
  Cancelled(_, _),    \* cancel,
  Errored(_, _)       \* and error

NewLoop(rules) ==
  [rules |-> rules, asked |-> {}, polled |-> <<>>,
   serviced |-> FALSE, done |-> FALSE]

Erased(s, r) == [s EXCEPT !.loop.rules = Selected(@, ToSet(@) \ {r})]

\* Nothing more will be read, or the descriptor was closed.
IsOver(s, r) == Closed(s, r) \/ (Direction(r) = In /\ Eof(s, r))

Visit(s, r) ==
  IF IsOver(s, r) THEN Erased(Cancelled(s, r), r)
  ELSE IF Interested(s, r) THEN [s EXCEPT !.loop.asked = @ \union {r}]
  ELSE s

\* Before poll(): cancel what is over and see what to ask for.
Sweep(s) ==
  LET rules == s.loop.rules
      swept[k \in 0..Len(rules)] ==
        IF k = 0 THEN [s EXCEPT !.loop.asked = {}] ELSE Visit(swept[k - 1], rules[k])
  IN  swept[Len(rules)]

\* Result::Exit
NothingToPoll(s) == s.loop.asked = {}

Events(s, r) == IF r \in s.loop.asked THEN {Direction(r)} ELSE {}

\* A pollfd without events still gets hang-ups and errors.
Revents(s, r) == Conditions(s, r) \intersect (Events(s, r) \union {Hup, Err})

Wakes(s) == \E r \in ToSet(s.loop.rules) : Revents(s, r) # {}

Poll(s) ==
  [s EXCEPT !.loop.polled = [r \in ToSet(s.loop.rules) |-> Revents(s, r)]]

Ready(s, r) == Events(s, r) \intersect s.loop.polled[r] # {}

\* Mutant of HangsUp: also when nothing was asked, so that nothing could be ready.
HangsUpUnasked(s, r) == Hup \in s.loop.polled[r] /\ (~Ready(s, r) \/ Direction(r) = Out)

\* Defunct: nothing readable any more, or never writable again.
HangsUp(s, r) ==
  /\ Hup \in s.loop.polled[r]
  /\ (Events(s, r) # {} /\ ~Ready(s, r)) \/ Direction(r) = Out

\* The callback, and the check that it did something.
Fired(s, r) ==
  LET after == Callback([s EXCEPT !.loop.serviced = FALSE], r)
      spins == ~after.loop.serviced /\ ~Closed(after, r) /\ Interested(after, r)
  IN  [after EXCEPT !.loop.done = TRUE,
                    !.fate = IF @ = "alive" /\ spins THEN "threw" ELSE @]

Attend(s, r) ==
  IF s.loop.done THEN s
  ELSE IF Err \in s.loop.polled[r]
    THEN Erased(Cancelled(Errored(s, r), r), r)
  ELSE IF HangsUp(s, r) THEN Erased(Cancelled(s, r), r)
  ELSE IF Ready(s, r) THEN Fired(s, r)
  ELSE s

\* After poll(): in the order of the rules, until one was served.
Serve(s) ==
  LET rules == s.loop.rules
      served[k \in 0..Len(rules)] ==
        IF k = 0 THEN s ELSE Attend(served[k - 1], rules[k])
  IN  [served[Len(rules)]
         EXCEPT !.loop.polled = <<>>, !.loop.serviced = FALSE, !.loop.done = FALSE]
=============================================================================
