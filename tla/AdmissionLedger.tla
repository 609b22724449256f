--------------------------- MODULE AdmissionLedger ---------------------------
(***************************************************************************)
(* What the trusted cosigner gate promises, without how it checks it: a    *)
(* ledger of the settlement packages handed out.  A package may be added   *)
(* only for an eligible request, and a (policy, nonce) pair is good for    *)
(* one package, however many verifiers, gates or resubmissions there were. *)
(***************************************************************************)
EXTENDS Naturals, Sequences

CONSTANT Eligible   \* the requests whose artifacts justify a package

VARIABLE ledger     \* the requests granted so far, oldest first

(* A grant is identified by the policy it was made under and its nonce. *)
Key(request) == <<request.policyHash, request.requestNonce>>

Granted(request) ==
  \E i \in 1..Len(ledger) : Key(ledger[i]) = Key(request)

Init == ledger = << >>

Grant(request) ==
  /\ ~Granted(request)
  /\ ledger' = Append(ledger, request)

Next == \E request \in Eligible : Grant(request)

Spec == Init /\ [][Next]_ledger
=============================================================================
