---------------------------- MODULE NonceSearch ----------------------------
(***************************************************************************)
(* What one device's search promises, without its GPU threads, its result  *)
(* slot and its copies: the nonces are taken launch by launch, and a       *)
(* launch yields one share, of a solution among its own nonces and with    *)
(* that nonce's mix hash, or it holds no solution or has failed.  Once     *)
(* mining is stopped no launch begins.                                     *)
(*                                                                         *)
(* Nonce 0 cannot be reported and spoils the mix hashes of its launch.     *)
(* Failures are not noticed: a launch that fails has no share, and when    *)
(* the device is lost the share of the launch that runs may still come,    *)
(* with a mix hash of nothing.                                             *)
(***************************************************************************)
EXTENDS Naturals, Sequences

CONSTANTS
  Width,      \* nonces of a launch
  Parts,      \* the pieces of a mix hash, each named by the nonce it is of
  Garbage     \* what is no piece of any

VARIABLES
  state,      \* "rest", "launch" or "ended"
  go,         \* mining has not been stopped
  base,       \* the first nonce of the present or next launch
  shares,     \* the shares found, in order
  lost,       \* the device does nothing any more
  failed,     \* the launches that failed, by their first nonces
  solutions   \* the nonces that meet the target

vars == <<state, go, base, shares, lost, failed, solutions>>

Init ==
  /\ state = "rest" /\ go = TRUE /\ base = 0 /\ shares = <<>>
  /\ lost = FALSE /\ failed = {}
  /\ solutions \subseteq Nat

Stop ==
  /\ go' = FALSE
  /\ UNCHANGED <<state, base, shares, lost, failed, solutions>>

\* This launch may fail; with a lost device it does.
MayFail == failed' \in {failed, failed \cup {base}}

Launch ==
  /\ state = "rest" /\ go /\ state' = "launch"
  /\ MayFail /\ (lost => base \in failed')
  /\ UNCHANGED <<go, base, shares, lost, solutions>>

Lose ==
  /\ lost' = TRUE
  /\ IF state = "launch" THEN MayFail ELSE UNCHANGED failed
  /\ UNCHANGED <<state, go, base, shares, solutions>>

\* The solutions a launch can report.
Reportable == {n \in solutions \ {0} : base <= n /\ n < base + Width}

EndLaunch ==
  /\ state = "launch" /\ state' = "rest"
  /\ base' = base + Width
  /\ UNCHANGED <<go, lost, failed, solutions>>

Spoilt == lost \/ (base = 0 /\ 0 \in solutions)

Yield ==
  /\ base \notin failed
  /\ \E n \in Reportable, mix \in [Parts -> solutions \cup {Garbage}] :
       /\ Spoilt \/ \A p \in Parts : mix[p] = n
       /\ shares' = Append(shares, [nonce |-> n, mix |-> mix])
  /\ EndLaunch

Pass ==
  /\ Reportable = {} \/ base \in failed
  /\ UNCHANGED shares
  /\ EndLaunch

End ==
  /\ state = "rest" /\ ~go /\ state' = "ended"
  /\ UNCHANGED <<go, base, shares, lost, failed, solutions>>

Next == Stop \/ Launch \/ Lose \/ Yield \/ Pass \/ End

Spec == Init /\ [][Next]_vars
=============================================================================
