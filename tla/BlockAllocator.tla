--------------------------- MODULE BlockAllocator ---------------------------
(***************************************************************************)
(* What a block device promises its clients, without the map: blocks that  *)
(* are handed out, each to one client at a time, and that keep what their  *)
(* holder wrote.                                                           *)
(***************************************************************************)
CONSTANTS
  UserBlock,  (* the blocks that can be handed out *)
  Client,
  Values

VARIABLES
  open,    \* is there a device
  holds,   \* the blocks each client has
  stored   \* the contents of the blocks that are held, as {v}; {} if not written

vars == <<open, holds, stored>>

Free == UserBlock \ UNION {holds[c] : c \in Client}

Init ==
  /\ open = FALSE
  /\ holds = [c \in Client |-> {}]
  /\ stored = [b \in UserBlock |-> {}]

(* Opening and closing the device forget what it held. *)
OpenOrClose ==
  /\ open' = ~ open
  /\ holds' = [c \in Client |-> {}]
  /\ stored' = [b \in UserBlock |-> {}]

Take(c, b) ==
  /\ open /\ b \in Free
  /\ holds' = [holds EXCEPT ![c] = @ \cup {b}]
  /\ stored' = [stored EXCEPT ![b] = {}]
  /\ UNCHANGED open

GiveBack(c, b) ==
  /\ open /\ b \in holds[c]
  /\ holds' = [holds EXCEPT ![c] = @ \ {b}]
  /\ stored' = [stored EXCEPT ![b] = {}]
  /\ UNCHANGED open

Put(c, b, v) ==
  /\ open /\ b \in holds[c]
  /\ stored' = [stored EXCEPT ![b] = {v}]
  /\ UNCHANGED <<open, holds>>

Next ==
  \/ OpenOrClose
  \/ \E c \in Client, b \in UserBlock : Take(c, b) \/ GiveBack(c, b)
  \/ \E c \in Client, b \in UserBlock, v \in Values : Put(c, b, v)

Spec == Init /\ [][Next]_vars
=============================================================================
