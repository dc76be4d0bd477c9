---------------------------- MODULE TraceReplay ----------------------------
(***************************************************************************)
(* What the register trace and the memory trace say of a machine.  A       *)
(* record <<register, value>> or <<code, address, value>> replaces what    *)
(* older records have written to the same place.                           *)
(***************************************************************************)
EXTENDS RV32I

Newest(K) == {k \in K : \A j \in K : j <= k}

\* Each register holds the value of its last record; one without a record
\* holds 0.
RegReplayed(R, trace) ==
  /\ R = [r \in Regs |-> R[r]]
  /\ \A r \in Regs :
       LET K == {k \in DOMAIN trace : trace[k][1] = r}
       IN  IF K = {} THEN R[r] = 0 ELSE \E k \in Newest(K) : R[r] = trace[k][2]

Covers(rec, a) == a \in rec[2] .. rec[2] + 2 ^ rec[1] - 1

\* Each byte of the memory is the one of the last record that covers its
\* address; a byte without a record is the one of the initial memory.
MemReplayed(M, initial, trace) ==
  /\ M = [a \in DOMAIN initial |-> M[a]]
  /\ \A a \in DOMAIN initial :
       LET K == {k \in DOMAIN trace : Covers(trace[k], a)}
       IN  IF K = {} THEN M[a] = initial[a]
                     ELSE \E k \in Newest(K) : M[a] = ByteAt(trace[k][3], a - trace[k][2])
=============================================================================
