---------------------------- MODULE TCPLiveness -----------------------------
(* What must eventually happen on a TCP connection whose network loses      *)
(* messages, but not all copies of one that is sent again and again.  Only  *)
(* the order of timeouts matters here, not their length: time passes until  *)
(* the retransmission timer fires, and the backoff stops growing at         *)
(* MaxRetx, where it keeps doubling in the code.                            *)
EXTENDS TCPConnection

Saturated(s) ==
  [s EXCEPT !.consecutive_retx = Least(@, MaxRetx),
            !.RTO = Least(@, InitialRTO * 2 ^ MaxRetx)]

\* The event loop ticks until the timer of p fires or, when it is not
\* running, for an initial timeout.
Pause(p) ==
  LET s == peer[p].sender
  IN  IF s.timer_running THEN s.RTO - s.timer_elapsed_ms ELSE InitialRTO

AfterPause(p) == [PeerTick(peer[p], Pause(p)) EXCEPT !.sender = Saturated(@)]

TimePasses(p) ==
  /\ Active(peer[p])
  /\ Step(p, {}, AfterPause(p), PeerTickTransmits(peer[p], Pause(p)))

ArriveAny(p) == \E m \in network[p] : Arrive(p, m)

ArriveSegment(p) ==
  \E m \in network[p] : SequenceLength(m.sender) > 0 /\ Arrive(p, m)

Lose(p) ==
  /\ network[p] # {}
  /\ network' = [network EXCEPT ![p] = {}]
  /\ peer' = peer

PeerStep(p) ==
  \/ Connect(p)
  \/ ArriveAny(p)
  \/ Write(p, 1)
  \/ Close(p)
  \/ Read(p, 1)
  \/ TimePasses(p)
  \/ Lose(p)

LossyNext == \E p \in Peers : PeerStep(p)

\* When the actions that fairness speaks of can change something.  (WF and SF are
\* spelled out with these: TLC evaluates ENABLED of a large action slowly.)
CanPassTime(p) ==
  LET messages == PeerTickTransmits(peer[p], Pause(p))
  IN  /\ Active(peer[p])
      /\ \/ AfterPause(p) # peer[p]
         \/ messages # <<>> /\ network[Other(p)] # {messages[1]}
CanConnect(p) == p \in Openers /\ ~peer[p].sender.syn_sent
CanRead(p) == Inbound(peer[p]).buffer # <<>>
CanReceive(p) == Active(peer[p]) /\ (p \in Openers => peer[p].sender.syn_sent)
CanArrive(p) == CanReceive(p) /\ network[p] # {}
CanArriveSegment(p) ==
  CanReceive(p) /\ \E m \in network[p] : SequenceLength(m.sender) > 0

\* The applications read what arrives; the loops run; a message that is sent
\* infinitely often arrives infinitely often, one with data among them.
Fairness ==
  \A p \in Peers :
    /\ []<>~CanConnect(p) \/ []<><<Connect(p)>>_vars
    /\ []<>~CanRead(p) \/ []<><<Read(p, 1)>>_vars
    /\ []<>~CanPassTime(p) \/ []<><<TimePasses(p)>>_vars
    /\ <>[]~CanArrive(p) \/ []<><<ArriveAny(p)>>_vars
    /\ <>[]~CanArriveSegment(p) \/ []<><<ArriveSegment(p)>>_vars

LossySpec == Init /\ [][LossyNext]_vars /\ Fairness

-----------------------------------------------------------------------------
\* Every byte an application writes gets to the other application, even
\* through a window that closes and that nobody announces open again.
WrittenIsRead ==
  \A p \in Peers : \A k \in 1..MaxBytes[p] :
    peer[p].sender.input.total_pushed >= k
      ~> Inbound(peer[Other(p)]).total_popped >= k

\* The end of a stream gets to the other application.
CloseIsSeen ==
  \A p \in Peers :
    peer[p].sender.input.closed ~> IsFinished(Inbound(peer[Other(p)]))
=============================================================================
