---------------------------- MODULE FileTransfer ----------------------------
(***************************************************************************)
(* What a transfer of files promises: the parts of each file are stored in *)
(* order, none twice and none before the files in front of it are done;    *)
(* each file gets one result, and a file reported as sent was stored       *)
(* whole.  A file that failed may have been stored in part.                *)
(***************************************************************************)
EXTENDS Integers, Sequences

CONSTANTS Sender,   \* who transfers
          Parts,    \* how many parts each of the files has
          Failures  \* how a transfer may fail

VARIABLES stored,   \* stored[s]: the parts stored, as pairs <<file, part>>
          results   \* results[s]: the results of the files that are done

vars == <<stored, results>>

Current(s) == Len(results[s]) + 1

StoredOf(s, f) ==
  LET n == Len(stored[s])
  IN  IF n > 0 /\ stored[s][n][1] = f THEN stored[s][n][2] ELSE 0

Init ==
  /\ stored = [s \in Sender |-> <<>>]
  /\ results = [s \in Sender |-> <<>>]

Store(s) ==
  LET f == Current(s)
      p == StoredOf(s, f) + 1
  IN  /\ f <= Len(Parts) /\ p <= Parts[f]
      /\ stored' = [stored EXCEPT ![s] = Append(@, <<f, p>>)]
      /\ UNCHANGED results

Succeed(s) ==
  LET f == Current(s)
  IN  /\ f <= Len(Parts) /\ StoredOf(s, f) = Parts[f]
      /\ results' = [results EXCEPT ![s] = Append(@, "LERR_SUCCESS")]
      /\ UNCHANGED stored

Fail(s) ==
  /\ Current(s) <= Len(Parts)
  /\ \E r \in Failures : results' = [results EXCEPT ![s] = Append(@, r)]
  /\ UNCHANGED stored

Next == \E s \in Sender : Store(s) \/ Succeed(s) \/ Fail(s)

Spec == Init /\ [][Next]_vars

=============================================================================
