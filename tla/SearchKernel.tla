---------------------------- MODULE SearchKernel ----------------------------
(***************************************************************************)
(* One device's nonce search (kawpow.cu): the host loop of                 *)
(* kawpow_cuda_search and the GPU threads of kawpow_kernel.                *)
(*                                                                         *)
(* A launch runs Width GPU threads at once, thread l on nonce base + l.    *)
(* They share one result slot: d_result_nonce, where 0 means "nothing      *)
(* found", and d_result_mix_hash.  A thread that meets the target claims   *)
(* the slot by atomicCAS and then writes its mix hash byte by byte, with   *)
(* no lock; the host reads both after the launch has ended.                *)
(*                                                                         *)
(* The hash itself is left out: `solutions' is the set of nonces that meet *)
(* the target, and a piece of a mix hash is named by the nonce it is of.   *)
(* The search starts at nonce 0 (mining_thread_main), which may itself     *)
(* meet the target although 0 in the slot means that there is no result.   *)
(* Nobody looks at the error codes of CUDA: a launch may fail, and the     *)
(* device may be lost (a fault in a kernel sticks to the context), whereupon *)
(* launches and copies do nothing and the search goes on.  Nonces are 64   *)
(* bits wide and a launch takes 2^18 of them, so their counter is not      *)
(* taken to wrap.                                                          *)
(***************************************************************************)
EXTENDS Naturals, Sequences

CONSTANTS
  Width,       \* GPU threads of a launch: num_blocks * threads_per_block
  MixParts,    \* pieces a mix hash is written in
  MaxBatches,  \* bound: launches of one search
  Garbage      \* what memory that nobody has written may hold

ASSUME SearchAssumption ==
  /\ Width \in Nat \ {0}
  /\ MixParts \in Nat \ {0}
  /\ MaxBatches \in Nat
  /\ Garbage \notin Nat

VARIABLES
  host,            \* where the host loop is
  go,              \* should_continue()
  current_nonce,   \* first nonce of the present or next launch
  h_result_nonce,  \* the host's copy of the slot
  result_nonce,    \* *d_result_nonce
  mix_hash,        \* *d_result_mix_hash, piece by piece
  lane,            \* where each GPU thread of the launch is
  written,         \* the pieces of its mix hash each thread has written
  submitted,       \* the shares given to submit_share, in order
  device_lost,     \* CUDA calls have no effect any more
  failed,          \* the launches that failed, by their first nonces (history)
  solutions        \* the nonces that meet the target

hostVars == <<host, go, current_nonce, h_result_nonce, submitted>>
gpuVars  == <<result_nonce, mix_hash, lane, written>>
failVars == <<device_lost, failed>>
vars     == <<hostVars, gpuVars, failVars, solutions>>

Lanes    == 0..(Width - 1)
Parts    == 1..MixParts
Searched == 0..(MaxBatches * Width - 1)   \* every nonce within the bound
Nonce(l) == current_nonce + l

Init ==
  /\ solutions \in SUBSET Searched
  /\ host = "test" /\ go = TRUE
  /\ current_nonce = 0 /\ h_result_nonce = 0
  /\ result_nonce = 0
  /\ mix_hash = [p \in Parts |-> Garbage]
  /\ lane = [l \in Lanes |-> "done"]
  /\ written = [l \in Lanes |-> 0]
  /\ submitted = <<>>
  /\ device_lost = FALSE /\ failed = {}

-----------------------------------------------------------------------------
(* kawpow_kernel: the shared accesses of one GPU thread.                   *)

\* The thread gives up if a result is already there; otherwise it hashes its
\* nonce, and goes on only if the hash meets the target.
Enter(l) ==
  /\ host = "kernel" /\ lane[l] = "entry"
  /\ lane' = [lane EXCEPT ![l] =
                IF result_nonce = 0 /\ Nonce(l) \in solutions THEN "claim" ELSE "done"]
  /\ UNCHANGED <<hostVars, result_nonce, mix_hash, written, failVars, solutions>>

\* (Faulty) a test and a store in place of the compare-and-swap: every thread
\* that saw an empty slot takes it.
ClaimWithoutTest(l) ==
  /\ host = "kernel" /\ lane[l] = "claim"
  /\ result_nonce' = Nonce(l)
  /\ lane' = [lane EXCEPT ![l] = "write"]
  /\ UNCHANGED <<hostVars, mix_hash, written, failVars, solutions>>

\* atomicCAS(d_result_nonce, 0, nonce) == 0
Claim(l) ==
  /\ host = "kernel" /\ lane[l] = "claim"
  /\ IF result_nonce = 0
       THEN /\ result_nonce' = Nonce(l)
            /\ lane' = [lane EXCEPT ![l] = "write"]
       ELSE /\ lane' = [lane EXCEPT ![l] = "done"]
            /\ UNCHANGED result_nonce
  /\ UNCHANGED <<hostVars, mix_hash, written, failVars, solutions>>

\* The next piece of d_result_mix_hash; after the last the thread is done.
WriteMix(l) ==
  /\ host = "kernel" /\ lane[l] = "write"
  /\ mix_hash' = [mix_hash EXCEPT ![written[l] + 1] = Nonce(l)]
  /\ written' = [written EXCEPT ![l] = @ + 1]
  /\ lane' = [lane EXCEPT ![l] = IF written[l] + 1 = MixParts THEN "done" ELSE @]
  /\ UNCHANGED <<hostVars, result_nonce, failVars, solutions>>

GpuStep(l) == Enter(l) \/ Claim(l) \/ WriteMix(l)

-----------------------------------------------------------------------------
(* kawpow_cuda_search: the host loop.                                      *)

\* stop_mining clears continue_mining.
StopMining ==
  /\ go /\ go' = FALSE
  /\ UNCHANGED <<host, current_nonce, h_result_nonce, submitted, gpuVars, failVars, solutions>>

\* while (should_continue()) { kawpow_kernel<<<...>>>
Launch ==
  /\ host = "test" /\ go /\ ~device_lost
  /\ current_nonce < MaxBatches * Width      \* bound
  /\ host' = "kernel"
  /\ lane' = [l \in Lanes |-> "entry"]
  /\ written' = [l \in Lanes |-> 0]
  /\ UNCHANGED <<go, current_nonce, h_result_nonce, submitted, result_nonce,
                 mix_hash, failVars, solutions>>

\* The launch fails, unnoticed: no GPU thread runs.
LaunchFails ==
  /\ host = "test" /\ go
  /\ current_nonce < MaxBatches * Width      \* bound
  /\ host' = "kernel"
  /\ failed' = failed \cup {current_nonce}
  /\ UNCHANGED <<go, current_nonce, h_result_nonce, submitted, gpuVars,
                 device_lost, solutions>>

LoopEnds ==
  /\ host = "test" /\ ~go
  /\ host' = "end"
  /\ UNCHANGED <<go, current_nonce, h_result_nonce, submitted, gpuVars, failVars, solutions>>

\* (Faulty) h_result_nonce is not set to 0 before the copy, which may fail.
ReadNonceOverOld ==
  /\ host = "kernel" /\ \A l \in Lanes : lane[l] = "done"
  /\ h_result_nonce' = IF device_lost THEN h_result_nonce ELSE result_nonce
  /\ host' = IF h_result_nonce' # 0 THEN "found" ELSE "next"
  /\ UNCHANGED <<go, current_nonce, submitted, gpuVars, failVars, solutions>>

\* The cudaMemcpy of the nonce, over a 0, waits for the launch to end.
ReadNonce ==
  /\ host = "kernel" /\ \A l \in Lanes : lane[l] = "done"
  /\ h_result_nonce' = IF device_lost THEN 0 ELSE result_nonce
  /\ host' = IF h_result_nonce' # 0 THEN "found" ELSE "next"
  /\ UNCHANGED <<go, current_nonce, submitted, gpuVars, failVars, solutions>>

\* What the copy of the mix hash leaves in h_mix_hash.
CopiedMix == IF device_lost THEN [p \in Parts |-> Garbage] ELSE mix_hash

\* (Faulty) the slot keeps the share just submitted.
ReportWithoutReset ==
  /\ host = "found"
  /\ submitted' = Append(submitted, [nonce |-> h_result_nonce, mix |-> CopiedMix])
  /\ host' = "next"
  /\ UNCHANGED <<go, current_nonce, h_result_nonce, gpuVars, failVars, solutions>>

\* Copy the mix hash, submit_share, and empty the slot.  No GPU thread runs, and
\* a slot that cannot be emptied cannot be read either: the three are one step.
Report ==
  /\ host = "found"
  /\ submitted' = Append(submitted, [nonce |-> h_result_nonce, mix |-> CopiedMix])
  /\ result_nonce' = IF device_lost THEN result_nonce ELSE 0
  /\ host' = "next"
  /\ UNCHANGED <<go, current_nonce, h_result_nonce, mix_hash, lane, written,
                 failVars, solutions>>

\* (Faulty) the nonces of the next launch are skipped.
AdvanceTwice ==
  /\ host = "next"
  /\ current_nonce' = current_nonce + 2 * Width
  /\ host' = "test"
  /\ UNCHANGED <<go, h_result_nonce, submitted, gpuVars, failVars, solutions>>

\* current_nonce += (uint64_t)num_blocks * threads_per_block
Advance ==
  /\ host = "next"
  /\ current_nonce' = current_nonce + Width
  /\ host' = "test"
  /\ UNCHANGED <<go, h_result_nonce, submitted, gpuVars, failVars, solutions>>

HostStep == Launch \/ LaunchFails \/ LoopEnds \/ ReadNonce \/ Report \/ Advance

\* The device is lost: in the middle of a launch, or when its result has not
\* been read, that launch has failed.
DeviceLost ==
  /\ ~device_lost /\ device_lost' = TRUE
  /\ lane' = [l \in Lanes |-> "done"]
  /\ failed' = IF host = "kernel" THEN failed \cup {current_nonce} ELSE failed
  /\ UNCHANGED <<hostVars, result_nonce, mix_hash, written, solutions>>

\* The search has returned.
Ended == host = "end" /\ UNCHANGED vars

Next ==
  \/ StopMining
  \/ HostStep
  \/ DeviceLost
  \/ \E l \in Lanes : GpuStep(l)
  \/ Ended

Spec == Init /\ [][Next]_vars

-----------------------------------------------------------------------------
(* Properties.                                                             *)

TypeOK ==
  /\ host \in {"test", "kernel", "found", "next", "end"}
  /\ go \in BOOLEAN
  /\ current_nonce \in Nat /\ h_result_nonce \in Nat /\ result_nonce \in Nat
  /\ mix_hash \in [Parts -> Nat \cup {Garbage}]
  /\ lane \in [Lanes -> {"entry", "claim", "write", "done"}]
  /\ written \in [Lanes -> 0..MixParts]
  /\ submitted \in Seq([nonce : Nat, mix : [Parts -> Nat \cup {Garbage}]])
  /\ solutions \subseteq Nat
  /\ device_lost \in BOOLEAN /\ failed \subseteq Nat

\* "Found valid share! Nonce: ...": what is submitted meets the target, and the
\* mix hash submitted with a nonce is that nonce's own, all of it, although all
\* the threads of a launch write into one buffer and only the nonce is claimed
\* atomically, and although no error is looked at.  The exceptions are the launch
\* of nonce 0, if that is a solution (0 claims the slot without filling it, so a
\* second thread writes there too), and the one share found before the device was
\* lost whose mix hash could not be copied any more.
ValidShares ==
  \A i \in 1..Len(submitted) :
    /\ submitted[i].nonce \in solutions
    /\ submitted[i].nonce >= Width \/ 0 \notin solutions =>
         \/ \A p \in Parts : submitted[i].mix[p] = submitted[i].nonce
         \/ device_lost /\ i = Len(submitted)

\* A share is submitted once: one that stayed in the slot, or in the host's copy
\* when the next copy fails, would be found again, and so would one that two
\* launches try.
NoShareTwice ==
  \A i, j \in 1..Len(submitted) :
    submitted[i].nonce = submitted[j].nonce => i = j

\* submit_share "is called from the CUDA code when a share is found": a launch
\* whose nonces hold a solution other than 0, which is lost, does not pass
\* without a share of that launch, unless it is the launch that failed.  (It need
\* not be every solution: threads that enter late give up.)
NoLaunchWasted ==
  \A n \in solutions \ {0} :
    n < current_nonce =>
      \/ (n \div Width) * Width \in failed
      \/ \E i \in 1..Len(submitted) : submitted[i].nonce \div Width = n \div Width

\* Claims, copies and the slot's reset add up to what NonceSearch promises: each
\* launch yields one of its own solutions, with its mix hash, or has none.
Search == INSTANCE NonceSearch WITH
  state  <- CASE host \in {"test", "next"}    -> "rest"
              [] host \in {"kernel", "found"} -> "launch"
              [] OTHER                        -> "ended",
  base   <- IF host = "next" THEN current_nonce + Width ELSE current_nonce,
  shares <- submitted,
  lost   <- device_lost

ImplementsSearch == Search!Spec
=============================================================================
