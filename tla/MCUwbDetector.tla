--------------------------- MODULE MCUwbDetector ---------------------------
(* Small instances of DetectorBlocks: a SYNC symbol of four pulses of two       *)
(* samples each, and signals of a few frames.  No definition names a slot.   *)
EXTENDS DetectorBlocks, TLC

Slots == Permutations(Handle)

Pulses(chips, a) == [i \in 1..(2 * Len(chips)) |-> a * chips[(i + 1) \div 2]]
Sync == <<1, 1, 1, -1>>
MCTemplate == Pulses(Sync, 1)

\* A SYNC that only the backtracking accepts, one that is good but too faint for
\* the gate, and what follows the preamble.
Bad == Pulses(<<1, 1, 1, 1>>, 2)
Faint == Pulses(Sync, 1)
Good == Pulses(Sync, 2)
Body == Pulses(<<1, -1, 1, -1>>, 2)

Frame(before) == before \o Good \o Good \o Body
Plain == [iq |-> Frame(<<>>), weak |-> 0]
Weak1 == [iq |-> Frame(Bad), weak |-> 1]
Weak3 == [iq |-> Frame(Bad \o Bad \o Bad), weak |-> 3]
Faint1 == [iq |-> Frame(Faint), weak |-> 0]

\* Energy that is no preamble: a spike, and a carrier longer than a slot.
Spike == [iq |-> <<3>>, weak |-> 0]
Carrier == [iq |-> [i \in 1..54 |-> 2], weak |-> 0]

\* What is sent, each from its position on.
Iq(sent) ==
  [i \in 1..StreamLength |->
     LET here == {e \in sent : e.from < i /\ i <= e.from + Len(e.what.iq)}
     IN IF here = {} THEN 0
        ELSE LET e == CHOOSE x \in here : TRUE IN e.what.iq[i - e.from]]
Sent1(what, from) == [what |-> what, from |-> from]
SignalOf(format, sent, calm) ==
  [iq |-> Iq(sent), calm |-> calm, format |-> format, stride |-> 1, starts |-> 1,
   gate |-> [threshold |-> 0, window |-> 2, decimation |-> 1],
   frames |-> SetToSortSeq({[at |-> e.from, weak |-> e.what.weak] :
                              e \in {x \in sent : x.what \notin {Spike, Carrier}}},
                           LAMBDA f, g : f.at < g.at)]

PacketSignals ==
  {SignalOf(format, {Sent1(w, 15)}, TRUE) :
     format \in {"fc32", "sc16"}, w \in {Plain, Weak1, Weak3}}
  \cup {SignalOf("sc16", {Sent1(w, 14)}, TRUE) : w \in {Weak3, Faint1}}
  \cup {SignalOf("sc16", {Sent1(Weak1, 14), Sent1(Plain, at)}, TRUE) : at \in {62, 63}}
  \cup {SignalOf("sc16", {Sent1(Plain, 14), Sent1(w, at)}, FALSE) :
           w \in {Plain, Spike}, at \in {40, 43}}
  \cup {SignalOf("sc16", {Sent1(Spike, 20), Sent1(Plain, 50)}, TRUE),
        SignalOf("sc16", {Sent1(Carrier, 15)}, TRUE),
        SignalOf("sc16", {Sent1(Spike, at) : at \in {14, 44, 74}}, FALSE),
        [SignalOf("sc16", {Sent1(Plain, 15)}, FALSE) EXCEPT !.stride = 2],
        [SignalOf("fc32", {Sent1(Plain, 3)}, FALSE) EXCEPT !.starts = 2]}

\* The stream blocks, in each mode.
StreamSignals ==
  {[SignalOf(format, {Sent1(w, at), Sent1(Spike, 50), Sent1(Plain, 55)}, FALSE)
      EXCEPT !.gate = g] :
     format \in {"preamble", "energy"}, w \in {Plain, Weak1}, at \in {3, 10, 15},
     g \in {[threshold |-> t, window |-> 4, decimation |-> d] : t \in {0, 1}, d \in {1, 2}}}

MCSignals == PacketSignals \cup StreamSignals
=============================================================================
