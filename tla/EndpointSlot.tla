---------------------------- MODULE EndpointSlot ----------------------------
(***************************************************************************)
(* What the job queue promises about one endpoint, without rows, tokens,   *)
(* leases or clocks: work on an endpoint goes through one slot.  A slot is *)
(* empty or holds one attempt; an attempt collects once at most; a retry   *)
(* replaces an attempt that has collected, and there are MaxAttempts of    *)
(* them at most before the slot has to be emptied.                         *)
(***************************************************************************)
EXTENDS Integers

CONSTANTS Endpoints, MaxAttempts

VARIABLE slot   \* the attempt in each endpoint's slot, as a set of at most one

Attempt == [number : 1..MaxAttempts, started : BOOLEAN]

Unstarted(n) == [number |-> n, started |-> FALSE]
Started(n) == [number |-> n, started |-> TRUE]

SlotInit == slot = [e \in Endpoints |-> {}]

Open(e) == slot[e] = {} /\ slot' = [slot EXCEPT ![e] = {Unstarted(1)}]

Begin(e, n) ==
  slot[e] = {Unstarted(n)} /\ slot' = [slot EXCEPT ![e] = {Started(n)}]

Retry(e, n) ==
  /\ slot[e] = {Started(n)} /\ n < MaxAttempts
  /\ slot' = [slot EXCEPT ![e] = {Unstarted(n + 1)}]

Close(e) == slot[e] # {} /\ slot' = [slot EXCEPT ![e] = {}]

SlotNext ==
  \E e \in Endpoints :
    \/ Open(e)
    \/ Close(e)
    \/ \E n \in 1..MaxAttempts : Begin(e, n) \/ Retry(e, n)

SlotSpec == SlotInit /\ [][SlotNext]_slot

=============================================================================
