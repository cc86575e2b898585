--------------------------- MODULE ProfileTable ---------------------------
(***************************************************************************)
(* What a dimension promises those who join it on is_current: a table with *)
(* the current attributes of each customer, into which a batch goes all at *)
(* once, and once, or not at all. Nobody sees the table between two        *)
(* statements of a load, nor a batch that a retry applies again.           *)
(***************************************************************************)
CONSTANTS Customers, Attributes,
          NoHash   \* the attributes of a customer that is not there

VARIABLES current, batch, applied

vars == <<current, batch, applied>>

Profiles == [Customers -> Attributes \union {NoHash}]
Empty == [c \in Customers |-> NoHash]

Init == current = Empty /\ batch = Empty /\ applied = FALSE

\* The next batch arrives, whether or not the one before it was applied.
Receive ==
  /\ batch' \in Profiles
  /\ applied' = FALSE
  /\ UNCHANGED current

\* The customers of the batch get its attributes; the others keep theirs.
Apply ==
  /\ ~applied
  /\ applied' = TRUE
  /\ current' = [c \in Customers |->
                   IF batch[c] = NoHash THEN current[c] ELSE batch[c]]
  /\ UNCHANGED batch

Next == Receive \/ Apply

Spec == Init /\ [][Next]_vars
=============================================================================
