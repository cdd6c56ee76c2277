---------------------------- MODULE MessagePorts ----------------------------
(***************************************************************************)
(* GNU Radio's message passing, as the blocks use it: a block publishes a  *)
(* message on a port, and every block wired to it finds the message in its *)
(* own queue, in the order of publication.                                 *)
(*                                                                         *)
(* A packet message is a pair of a dictionary, meta, and samples: iq, in   *)
(* the format "sc16" or "fc32"; odd tells that an sc16 vector has half a   *)
(* sample more.                                                            *)
(***************************************************************************)
EXTENDS Integers, Sequences, TLC

CONSTANT Wires      \* the blocks wired to each block that publishes

VARIABLE inbox      \* the queue of each block that receives

\* message_port_pub, on the queues box
Published(box, from, msg) ==
  [b \in DOMAIN box |-> IF b \in Wires[from] THEN Append(box[b], msg) ELSE box[b]]

\* The handler has been given the head of the queue of b.
Handled(box, b) == [box EXCEPT ![b] = Tail(@)]

\* dict_ref with a default, and dict_add of several keys
Get(meta, key, default) == IF key \in DOMAIN meta THEN meta[key] ELSE default
Put(meta, new) ==
  [k \in DOMAIN new \cup DOMAIN meta |-> IF k \in DOMAIN new THEN new[k] ELSE meta[k]]
=============================================================================
