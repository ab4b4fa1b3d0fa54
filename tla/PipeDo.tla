------------------------------- MODULE PipeDo -------------------------------
(***************************************************************************)
(* What a Redis client promises its callers of one PipeDo or DoCmd, however *)
(* it executes it: the comment of PipeDo, and what DoLimit relies on.      *)
(*                                                                         *)
(*   - a call that returns no error had every command applied, and all of  *)
(*     its receivers are written, in the same step;                        *)
(*   - a call that returns an error leaves its receivers alone, for ever;  *)
(*   - commands on one key are applied in the order they were appended;    *)
(*   - a call that was refused is never sent, one that failed or gave up   *)
(*     may still have its commands applied, any time later.                *)
(***************************************************************************)
EXTENDS Naturals, Sequences

CONSTANTS Calls,
          Pipeline   \* Pipeline[c]: the routing keys of the commands of call c

VARIABLES applied,   \* the commands of each call that Redis executed
          rcv,       \* the receivers of each call that were written
          result     \* what each call returned

vars == <<applied, rcv, result>>

Commands(c) == 1 .. Len(Pipeline[c])

Init ==
  /\ applied = [c \in Calls |-> {}]
  /\ rcv = [c \in Calls |-> {}]
  /\ result = [c \in Calls |-> "none"]

Apply(c, i) ==
  /\ result[c] \in {"none", "error"}
  /\ \A j \in Commands(c) : j < i /\ Pipeline[c][j] = Pipeline[c][i] => j \in applied[c]
  /\ applied' = [applied EXCEPT ![c] = @ \cup {i}]
  /\ UNCHANGED <<rcv, result>>

Succeed(c) ==
  /\ result[c] = "none" /\ applied[c] = Commands(c)
  /\ rcv' = [rcv EXCEPT ![c] = Commands(c)]
  /\ result' = [result EXCEPT ![c] = "ok"]
  /\ UNCHANGED applied

Fail(c) ==
  /\ result[c] = "none"
  /\ result' = [result EXCEPT ![c] = "error"]
  /\ UNCHANGED <<applied, rcv>>

Refuse(c) ==
  /\ result[c] = "none" /\ applied[c] = {}
  /\ result' = [result EXCEPT ![c] = "refused"]
  /\ UNCHANGED <<applied, rcv>>

Next == \E c \in Calls :
  \/ \E i \in Commands(c) : Apply(c, i)
  \/ Succeed(c) \/ Fail(c) \/ Refuse(c)

Spec == Init /\ [][Next]_vars

=============================================================================
