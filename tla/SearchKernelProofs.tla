------------------------- MODULE SearchKernelProofs -------------------------
(***************************************************************************)
(* Proofs about SearchKernel, for launches of any size, any set of         *)
(* solutions and any failures, and that it implements NonceSearch.         *)
(***************************************************************************)
EXTENDS SearchKernel, TLAPS

Shares == [nonce : Nat, mix : [Parts -> Nat \cup {Garbage}]]

\* Who may be where: GPU threads only move during a launch, and a thread that
\* met the target still holds its solution.
LaneInv ==
  /\ host # "kernel" => \A l \in Lanes : lane[l] = "done"
  /\ \A l \in Lanes :
       /\ lane[l] \in {"entry", "claim"} => written[l] = 0
       /\ lane[l] = "write" => written[l] < MixParts
       /\ lane[l] \in {"claim", "write"} => Nonce(l) \in solutions

\* No thread of the present launch claims the slot with nonce 0.
Clean == 0 \notin solutions \/ current_nonce # 0

\* The slot belongs to the one thread that claimed it, and so does the mix buffer
\* in a clean launch.
Claimed(l) ==
  /\ result_nonce = Nonce(l)
  /\ \/ lane[l] = "write"
     \/ lane[l] = "done" /\ (Clean => \A p \in Parts : mix_hash[p] = result_nonce)

SlotInv ==
  /\ \A l \in Lanes : lane[l] = "write" /\ Nonce(l) # 0 =>
       /\ result_nonce = Nonce(l)
       /\ Clean => \A p \in Parts : p <= written[l] => mix_hash[p] = result_nonce
  /\ host = "found" \/ (host = "kernel" /\ ~device_lost /\ result_nonce # 0) =>
       /\ result_nonce \in solutions
       /\ \E l \in Lanes : Claimed(l)
  /\ host \in {"test", "next", "end"} /\ ~device_lost => result_nonce = 0
  /\ host = "found" => h_result_nonce = result_nonce /\ result_nonce # 0

\* Whatever is in the mix buffer, solutions have put it there.
MixInv == mix_hash \in [Parts -> solutions \cup {Garbage}]

\* What has been searched: the nonces below Frontier, in whole launches.
Frontier == IF host = "next" THEN current_nonce + Width ELSE current_nonce

Reported(n) ==
  \E i \in 1..Len(submitted) : submitted[i].nonce \div Width = n \div Width

\* A launch that has failed is behind the counter or is the present one, which then
\* changes nothing any more; a lost device makes the present launch fail.
FailInv ==
  /\ \A f \in failed : f < Frontier \/ (host = "kernel" /\ f = current_nonce)
  /\ host = "kernel" /\ current_nonce \in failed =>
       /\ \A l \in Lanes : lane[l] = "done"
       /\ device_lost \/ result_nonce = 0
  /\ host = "kernel" /\ device_lost => current_nonce \in failed

Failed(n) == (n \div Width) * Width \in failed

CoverInv ==
  /\ \E k \in Nat : current_nonce = k * Width
  /\ host = "kernel" /\ result_nonce = 0 /\ current_nonce \notin failed =>
       \A l \in Lanes : lane[l] = "done" /\ Nonce(l) \in solutions => Nonce(l) = 0
  /\ \A n \in solutions \ {0} : n < Frontier => Failed(n) \/ Reported(n)
  /\ \A i \in 1..Len(submitted) : submitted[i].nonce < Frontier

\* Every share so far is a solution with its own mix hash, but for the one that may
\* have come last, after the loss of the device.
Spoiled(i) == device_lost /\ host # "found" /\ i = Len(submitted)

ShareInv ==
  \A i \in 1..Len(submitted) :
    /\ submitted[i].nonce \in solutions
    /\ submitted[i].nonce >= Width \/ 0 \notin solutions =>
         Spoiled(i) \/ \A p \in Parts : submitted[i].mix[p] = submitted[i].nonce

SearchInv ==
  /\ TypeOK /\ LaneInv /\ SlotInv /\ MixInv /\ FailInv /\ CoverInv
  /\ ShareInv /\ NoShareTwice

-----------------------------------------------------------------------------
(* Arithmetic of launches.                                                 *)

\* The nonces of launch k, and only they, have quotient k.
LEMMA QuotientOfLaunch ==
  ASSUME NEW k \in Nat, NEW n \in Nat, k * Width <= n, n < k * Width + Width
  PROVE  n \div Width = k
<1> DEFINE r == n - k * Width
<1>1. Width \in Nat \ {0} /\ r \in 0..(Width - 1) /\ n = k * Width + r
  BY SearchAssumption
<1>. QED
  BY <1>1, SMTT(60)

\* One launch further on is one multiple of Width further on.
LEMMA NextMultiple ==
  ASSUME NEW k \in Nat
  PROVE  k * Width + Width = (k + 1) * Width
  BY SearchAssumption

-----------------------------------------------------------------------------

\* The nonces of submitted shares are numbers.
LEMMA SubmittedNonces ==
  TypeOK => \A i \in 1..Len(submitted) : submitted[i].nonce \in Nat
<1> SUFFICES ASSUME TypeOK, NEW i \in 1..Len(submitted)
             PROVE  submitted[i].nonce \in Nat
  OBVIOUS
<1>1. submitted \in Seq(Shares)
  BY DEF TypeOK, Shares
<1>2. submitted[i] \in Shares
  BY <1>1
<1>. QED
  BY <1>2 DEF Shares

LEMMA TypeInit == Init => TypeOK
<1> SUFFICES ASSUME Init PROVE TypeOK
  OBVIOUS
<1>1. solutions \subseteq Nat /\ MixParts \in Nat
  BY SearchAssumption DEF Init, Searched
<1>2. written \in [Lanes -> 0..MixParts] /\ mix_hash \in [Parts -> Nat \cup {Garbage}]
  BY <1>1 DEF Init
<1>3. lane \in [Lanes -> {"entry", "claim", "write", "done"}]
  BY DEF Init
<1>4. submitted \in Seq([nonce : Nat, mix : [Parts -> Nat \cup {Garbage}]])
  BY DEF Init
<1>5. failed \subseteq Nat /\ device_lost \in BOOLEAN /\ go \in BOOLEAN
  BY DEF Init
<1>6. /\ host \in {"test", "kernel", "found", "next", "end"}
      /\ current_nonce \in Nat /\ h_result_nonce \in Nat /\ result_nonce \in Nat
  BY DEF Init
<1>. QED
  BY <1>1, <1>2, <1>3, <1>4, <1>5, <1>6 DEF TypeOK

LEMMA TypeStep == TypeOK /\ LaneInv /\ [Next]_vars => TypeOK'
<1> SUFFICES ASSUME TypeOK, LaneInv, [Next]_vars PROVE TypeOK'
  OBVIOUS
<1> USE SearchAssumption
    DEF TypeOK, Lanes, Parts, Nonce, hostVars, gpuVars, failVars
<1>1. ASSUME NEW l \in Lanes, Enter(l) PROVE TypeOK'
  BY <1>1 DEF Enter
<1>2. ASSUME NEW l \in Lanes, Claim(l) PROVE TypeOK'
  <2>1. Nonce(l) \in Nat
    OBVIOUS
  <2>2. result_nonce' \in Nat
    BY <1>2, <2>1 DEF Claim
  <2>3. lane' \in [Lanes -> {"entry", "claim", "write", "done"}]
    BY <1>2 DEF Claim
  <2>. QED
    BY <1>2, <2>2, <2>3 DEF Claim
<1>3. ASSUME NEW l \in Lanes, WriteMix(l) PROVE TypeOK'
  BY <1>3 DEF WriteMix, LaneInv
<1>4. CASE StopMining
  BY <1>4 DEF StopMining
<1>5. CASE Launch
  BY <1>5 DEF Launch
<1>6. CASE LoopEnds
  BY <1>6 DEF LoopEnds
<1>7. CASE ReadNonce
  BY <1>7 DEF ReadNonce
<1>8. CASE Report
  <2>1. CopiedMix \in [Parts -> Nat \cup {Garbage}]
    BY DEF CopiedMix
  <2>. QED
    BY <1>8, <2>1 DEF Report
<1>9. CASE Advance
  BY <1>9 DEF Advance
<1>10. CASE LaunchFails
  BY <1>10 DEF LaunchFails
<1>11. CASE DeviceLost
  BY <1>11 DEF DeviceLost
<1>12. CASE UNCHANGED vars
  BY <1>12 DEF vars
<1>. QED
  BY <1>1, <1>2, <1>3, <1>4, <1>5, <1>6, <1>7, <1>8, <1>9, <1>10, <1>11,
     <1>12
  DEF Next, HostStep, GpuStep, Ended

LEMMA LaneStep == TypeOK /\ LaneInv /\ [Next]_vars => LaneInv'
<1> SUFFICES ASSUME TypeOK, LaneInv, [Next]_vars PROVE LaneInv'
  OBVIOUS
<1> USE SearchAssumption
    DEF TypeOK, LaneInv, Lanes, Nonce, hostVars, gpuVars, failVars
<1>1. ASSUME NEW l \in Lanes, Enter(l) PROVE LaneInv'
  BY <1>1 DEF Enter
<1>2. ASSUME NEW l \in Lanes, Claim(l) PROVE LaneInv'
  BY <1>2 DEF Claim
<1>3. ASSUME NEW l \in Lanes, WriteMix(l) PROVE LaneInv'
  BY <1>3 DEF WriteMix
<1>4. CASE StopMining
  BY <1>4 DEF StopMining
<1>5. CASE Launch
  BY <1>5 DEF Launch
<1>6. CASE LoopEnds
  BY <1>6 DEF LoopEnds
<1>7. CASE ReadNonce
  BY <1>7 DEF ReadNonce
<1>8. CASE Report
  BY <1>8 DEF Report
<1>9. CASE Advance
  BY <1>9 DEF Advance
<1>10. CASE LaunchFails
  BY <1>10 DEF LaunchFails
<1>11. CASE DeviceLost
  BY <1>11 DEF DeviceLost
<1>12. CASE UNCHANGED vars
  BY <1>12 DEF vars
<1>. QED
  BY <1>1, <1>2, <1>3, <1>4, <1>5, <1>6, <1>7, <1>8, <1>9, <1>10, <1>11,
     <1>12
  DEF Next, HostStep, GpuStep, Ended

LEMMA SlotStep ==
  TypeOK /\ LaneInv /\ SlotInv /\ FailInv /\ [Next]_vars => SlotInv'
<1> SUFFICES ASSUME TypeOK, LaneInv, SlotInv, FailInv, [Next]_vars PROVE SlotInv'
  OBVIOUS
<1> USE SearchAssumption
    DEF TypeOK, LaneInv, SlotInv, Claimed, Clean, Lanes, Parts, Nonce, hostVars, gpuVars, failVars
<1>1. ASSUME NEW l \in Lanes, Enter(l) PROVE SlotInv'
  BY <1>1 DEF Enter
<1>2. ASSUME NEW l \in Lanes, Claim(l) PROVE SlotInv'
  <2>0. ~device_lost /\ UNCHANGED device_lost
    BY <1>2 DEF Claim, FailInv
  <2>1. CASE result_nonce = 0
    <3>1. \A m \in Lanes : lane[m] = "write" => Nonce(m) = 0
      BY <2>1
    <3>2. /\ result_nonce' = Nonce(l) /\ result_nonce' \in solutions'
          /\ lane' = [lane EXCEPT ![l] = "write"]
          /\ UNCHANGED <<host, current_nonce, mix_hash, written, h_result_nonce>>
          /\ host = "kernel" /\ written[l] = 0
      BY <1>2, <2>1 DEF Claim
    <3>3. Claimed(l)' /\ UNCHANGED solutions
      BY <1>2, <3>2 DEF Claim
    <3>4. \A m \in Lanes : lane'[m] = "write" /\ Nonce(m)' # 0 => m = l
      BY <3>1, <3>2
    <3>. QED
      BY <2>0, <3>2, <3>3, <3>4
  <2>2. CASE result_nonce # 0
    <3>1. /\ lane' = [lane EXCEPT ![l] = "done"] /\ lane[l] = "claim"
          /\ UNCHANGED <<host, current_nonce, result_nonce, mix_hash, written,
                         h_result_nonce, solutions>>
          /\ host = "kernel"
      BY <1>2, <2>2 DEF Claim
    <3>2. PICK m \in Lanes : Claimed(m)
      BY <2>0, <2>2, <3>1
    <3>3. m # l
      BY <3>1, <3>2
    <3>4. Claimed(m)'
      BY <3>1, <3>2, <3>3
    <3>. QED
      BY <2>0, <3>1, <3>4
  <2>. QED
    BY <2>1, <2>2
<1>3. ASSUME NEW l \in Lanes, WriteMix(l) PROVE SlotInv'
  <2>1. /\ host = "kernel" /\ host' = host
        /\ UNCHANGED <<current_nonce, result_nonce, h_result_nonce, solutions, device_lost>>
        /\ mix_hash' = [mix_hash EXCEPT ![written[l] + 1] = Nonce(l)]
        /\ written' = [written EXCEPT ![l] = @ + 1]
        /\ lane' = [lane EXCEPT ![l] = IF written[l] + 1 = MixParts THEN "done" ELSE @]
        /\ lane[l] = "write" /\ Nonce(l) \in solutions
    BY <1>3 DEF WriteMix
  <2>2. \A m \in Lanes : Nonce(m)' = Nonce(m)
    BY <2>1
  <2>3. CASE Nonce(l) = 0
    <3>1. ~Clean /\ Clean' = Clean
      BY <2>1, <2>3
    <3>2. \A m \in Lanes : m # l => lane'[m] = lane[m] /\ written'[m] = written[m]
      BY <2>1
    <3>3. \A m \in Lanes : lane'[m] = "write" /\ Nonce(m) # 0 => result_nonce = Nonce(m)
      BY <2>3, <3>2
    <3>4. \A m \in Lanes : Claimed(m) /\ result_nonce # 0 => Claimed(m)'
      BY <2>1, <2>2, <2>3, <3>1, <3>2
    <3>. QED
      BY <2>1, <2>2, <3>1, <3>3, <3>4
  <2>4. CASE Nonce(l) # 0
    <3>1. result_nonce = Nonce(l)
      BY <2>1, <2>4
    <3>2. \A m \in Lanes : lane'[m] = "write" /\ Nonce(m) # 0 => m = l
      BY <2>1, <3>1
    <3>3. Clean => \A p \in Parts : p <= written[l] + 1 => mix_hash'[p] = result_nonce
      <4>1. Clean => \A p \in Parts : p <= written[l] => mix_hash[p] = result_nonce
        BY <2>1, <2>4
      <4>2. \A p \in Parts : p # written[l] + 1 => mix_hash'[p] = mix_hash[p]
        BY <2>1
      <4>3. written[l] + 1 \in Parts => mix_hash'[written[l] + 1] = Nonce(l)
        BY <2>1
      <4>4. \A p \in Parts : p <= written[l] + 1 => p <= written[l] \/ p = written[l] + 1
        OBVIOUS
      <4>. QED
        BY <3>1, <4>1, <4>2, <4>3, <4>4
    <3>4. written'[l] = written[l] + 1 /\ written[l] \in Nat
      BY <2>1
    <3>5. /\ lane'[l] \in {"write", "done"}
          /\ lane'[l] = "done" => written[l] + 1 = MixParts
      BY <2>1
    <3>6. Claimed(l)'
      BY <2>1, <2>2, <3>1, <3>3, <3>5
    <3>7. result_nonce \in solutions
      BY <2>1, <3>1
    <3>. QED
      BY <2>1, <2>2, <3>1, <3>2, <3>3, <3>4, <3>6, <3>7
  <2>. QED
    BY <2>3, <2>4
<1>4. CASE StopMining
  BY <1>4 DEF StopMining
<1>5. CASE Launch
  BY <1>5 DEF Launch
<1>6. CASE LoopEnds
  BY <1>6 DEF LoopEnds
<1>7. CASE ReadNonce
  <2>1. CASE device_lost
    BY <1>7, <2>1 DEF ReadNonce
  <2>2. CASE ~device_lost
    BY <1>7, <2>2 DEF ReadNonce
  <2>. QED
    BY <2>1, <2>2
<1>8. CASE Report
  BY <1>8 DEF Report
<1>9. CASE Advance
  BY <1>9 DEF Advance
<1>10. CASE LaunchFails
  BY <1>10 DEF LaunchFails
<1>11. CASE DeviceLost
  BY <1>11 DEF DeviceLost
<1>12. CASE UNCHANGED vars
  BY <1>12 DEF vars
<1>. QED
  BY <1>1, <1>2, <1>3, <1>4, <1>5, <1>6, <1>7, <1>8, <1>9, <1>10, <1>11,
     <1>12
  DEF Next, HostStep, GpuStep, Ended

LEMMA MixStep ==
  TypeOK /\ LaneInv /\ MixInv /\ [Next]_vars => MixInv'
<1> SUFFICES ASSUME TypeOK, LaneInv, MixInv, [Next]_vars PROVE MixInv'
  OBVIOUS
<1>1. ASSUME NEW l \in Lanes, WriteMix(l) PROVE MixInv'
  BY <1>1 DEF WriteMix, LaneInv, MixInv
<1>2. CASE UNCHANGED <<mix_hash, solutions>>
  BY <1>2 DEF MixInv
<1>3. CASE ~\E l \in Lanes : WriteMix(l)
  BY <1>2, <1>3 DEF Next, HostStep, GpuStep, Ended, Enter, Claim, StopMining, Launch,
     LaunchFails, LoopEnds, ReadNonce, Report, Advance, DeviceLost, vars, gpuVars
<1>. QED
  BY <1>1, <1>3

LEMMA FailStep ==
  TypeOK /\ LaneInv /\ SlotInv /\ FailInv /\ [Next]_vars => FailInv'
<1> SUFFICES ASSUME TypeOK, LaneInv, SlotInv, FailInv, [Next]_vars PROVE FailInv'
  OBVIOUS
<1> USE SearchAssumption DEF TypeOK, FailInv, Frontier, hostVars, gpuVars, failVars
<1>1. ASSUME NEW l \in Lanes, GpuStep(l) PROVE FailInv'
  <2>1. /\ host = "kernel" /\ lane[l] # "done"
        /\ UNCHANGED <<host, current_nonce, failed, device_lost>>
    BY <1>1 DEF GpuStep, Enter, Claim, WriteMix
  <2>2. current_nonce \notin failed
    BY <2>1
  <2>. QED
    BY <2>1, <2>2
<1>4. CASE StopMining
  BY <1>4 DEF StopMining
<1>5. CASE Launch
  BY <1>5 DEF Launch
<1>6. CASE LoopEnds
  BY <1>6 DEF LoopEnds
<1>7. CASE ReadNonce
  BY <1>7 DEF ReadNonce
<1>8. CASE Report
  BY <1>8 DEF Report
<1>9. CASE Advance
  BY <1>9 DEF Advance
<1>10. CASE LaunchFails
  BY <1>10 DEF LaunchFails, LaneInv, SlotInv
<1>11. CASE DeviceLost
  BY <1>11 DEF DeviceLost
<1>12. CASE UNCHANGED vars
  BY <1>12 DEF vars
<1>. QED
  BY <1>1, <1>4, <1>5, <1>6, <1>7, <1>8, <1>9, <1>10, <1>11, <1>12
  DEF Next, HostStep, Ended

LEMMA CoverStep ==
  TypeOK /\ LaneInv /\ SlotInv /\ FailInv /\ CoverInv /\ [Next]_vars => CoverInv'
<1> SUFFICES ASSUME TypeOK, LaneInv, SlotInv, FailInv, CoverInv, [Next]_vars
             PROVE  CoverInv'
  OBVIOUS
<1> USE SearchAssumption DEF hostVars, gpuVars, failVars
<1>. DEFINE Kept == UNCHANGED <<current_nonce, submitted, solutions, failed>>
<1>1. ASSUME NEW l \in Lanes, Enter(l) PROVE CoverInv'
  BY <1>1 DEF Enter, TypeOK, CoverInv, Frontier, Reported, Failed, Nonce
<1>2. ASSUME NEW l \in Lanes, Claim(l) PROVE CoverInv'
  <2>1. result_nonce' = 0 => \A m \in Lanes : lane'[m] = "done" => lane[m] = "done"
    BY <1>2 DEF Claim, TypeOK
  <2>2. result_nonce' = 0 => result_nonce = 0
    BY <1>2 DEF Claim
  <2>. QED
    BY <1>2, <2>1, <2>2 DEF Claim, CoverInv, Frontier, Reported, Failed, Nonce
<1>3. ASSUME NEW l \in Lanes, WriteMix(l) PROVE CoverInv'
  <2>1. result_nonce # 0 \/ Nonce(l) = 0
    BY <1>3 DEF WriteMix, SlotInv
  <2>2. \A m \in Lanes : lane'[m] = "done" => lane[m] = "done" \/ m = l
    BY <1>3 DEF WriteMix, TypeOK
  <2>. QED
    BY <1>3, <2>1, <2>2 DEF WriteMix, CoverInv, Frontier, Reported, Failed, Nonce
<1>4. CASE StopMining
  BY <1>4 DEF StopMining, CoverInv, Frontier, Reported, Failed, Nonce
<1>5. CASE Launch
  BY <1>5 DEF Launch, CoverInv, Frontier, Reported, Failed, Nonce
<1>6. CASE LoopEnds
  BY <1>6 DEF LoopEnds, CoverInv, Frontier, Reported, Failed, Nonce
<1>7. CASE ReadNonce
  <2>1. Kept /\ host = "kernel" /\ host' \in {"found", "next"}
    BY <1>7 DEF ReadNonce
  <2>2. CASE host' = "found"
    BY <2>1, <2>2 DEF CoverInv, Frontier, Reported, Failed
  <2>3. CASE host' = "next"
    <3>1. result_nonce = 0 \/ current_nonce \in failed
      BY <1>7, <2>3 DEF ReadNonce, FailInv, TypeOK
    <3>2. PICK k \in Nat : current_nonce = k * Width
      BY DEF CoverInv
    <3>3. ASSUME NEW n \in solutions \ {0}, n < current_nonce + Width
          PROVE  Failed(n) \/ Reported(n)
      <4>1. CASE n < current_nonce
        BY <2>1, <3>3, <4>1 DEF CoverInv, Frontier
      <4>2. CASE ~(n < current_nonce) /\ current_nonce \in failed
        <5>1. n \in Nat /\ k * Width <= n /\ n < k * Width + Width
          BY <3>2, <3>3, <4>2 DEF TypeOK
        <5>2. n \div Width = k
          BY <5>1, QuotientOfLaunch
        <5>. QED
          BY <3>2, <4>2, <5>2 DEF Failed
      <4>3. CASE ~(n < current_nonce) /\ current_nonce \notin failed
        <5>1. n - current_nonce \in Lanes /\ Nonce(n - current_nonce) = n
          BY <3>3, <4>3 DEF TypeOK, Lanes, Nonce
        <5>2. lane[n - current_nonce] = "done"
          BY <1>7, <5>1 DEF ReadNonce
        <5>3. Nonce(n - current_nonce) = 0
          BY <2>1, <3>1, <3>3, <4>3, <5>1, <5>2 DEF CoverInv
        <5>. QED
          BY <3>3, <5>1, <5>3
      <4>. QED
        BY <4>1, <4>2, <4>3
    <3>4. Frontier = current_nonce /\ Frontier' = current_nonce + Width
      BY <2>1, <2>3 DEF Frontier
    <3>5. \A n \in solutions \ {0} : n < current_nonce + Width => Failed(n)' \/ Reported(n)'
      BY <2>1, <3>3 DEF Failed, Reported
    <3>6. \A i \in 1..Len(submitted) : submitted[i].nonce < current_nonce + Width
      <4>1. \A i \in 1..Len(submitted) :
              submitted[i].nonce \in Nat /\ submitted[i].nonce < current_nonce
        BY <3>4, SubmittedNonces DEF CoverInv
      <4>2. current_nonce \in Nat /\ Width \in Nat
        BY DEF TypeOK
      <4>. QED
        BY <4>1, <4>2
    <3>. QED
      BY <2>1, <2>3, <3>4, <3>5, <3>6 DEF CoverInv
  <2>. QED
    BY <2>1, <2>2, <2>3
<1>8. CASE Report
  <2>1. PICK l \in Lanes : result_nonce = Nonce(l)
    BY <1>8 DEF Report, SlotInv, Claimed
  <2>2. PICK k \in Nat : current_nonce = k * Width
    BY DEF CoverInv
  <2>3. /\ h_result_nonce \in Nat
        /\ k * Width <= h_result_nonce /\ h_result_nonce < k * Width + Width
    BY <1>8, <2>1, <2>2 DEF Report, SlotInv, Nonce, Lanes, TypeOK
  <2>4. h_result_nonce \div Width = k
    BY <2>3, QuotientOfLaunch
  <2>5. /\ Len(submitted') = Len(submitted) + 1
        /\ submitted'[Len(submitted) + 1].nonce = h_result_nonce
        /\ \A i \in 1..Len(submitted) : submitted'[i] = submitted[i]
        /\ Len(submitted) \in Nat
    BY <1>8 DEF Report, TypeOK
  <2>6. /\ Frontier = current_nonce /\ Frontier' = current_nonce + Width
        /\ UNCHANGED <<current_nonce, solutions, failed>> /\ host' = "next"
    BY <1>8 DEF Report, Frontier
  <2>7. ASSUME NEW n \in solutions \ {0}, n < current_nonce + Width
        PROVE  Failed(n)' \/ Reported(n)'
    <3>1. CASE n < current_nonce
      <4>1. Failed(n) \/ Reported(n)
        BY <2>6, <2>7, <3>1 DEF CoverInv
      <4>2. Failed(n) => Failed(n)'
        BY <2>6 DEF Failed
      <4>3. Reported(n) => Reported(n)'
        BY <2>5 DEF Reported
      <4>. QED
        BY <4>1, <4>2, <4>3
    <3>2. CASE ~(n < current_nonce)
      <4>1. n \in Nat /\ k * Width <= n /\ n < k * Width + Width
        BY <2>2, <2>7, <3>2 DEF TypeOK
      <4>2. n \div Width = k
        BY <4>1, QuotientOfLaunch
      <4>. QED
        BY <2>4, <2>5, <4>2 DEF Reported
    <3>. QED
      BY <3>1, <3>2
  <2>8. ASSUME NEW i \in 1..Len(submitted')
        PROVE  submitted'[i].nonce < current_nonce + Width
    <3>1. CASE i = Len(submitted) + 1
      BY <2>2, <2>3, <2>5, <3>1
    <3>2. CASE i \in 1..Len(submitted)
      <4>1. submitted[i].nonce < current_nonce /\ submitted[i].nonce \in Nat
        BY <2>6, <3>2, SubmittedNonces DEF CoverInv
      <4>. QED
        BY <2>5, <3>2, <4>1 DEF TypeOK
    <3>. QED
      BY <2>5, <3>1, <3>2
  <2>. QED
    BY <2>2, <2>6, <2>7, <2>8 DEF CoverInv
<1>9. CASE Advance
  <2>1. PICK k \in Nat : current_nonce = k * Width
    BY DEF CoverInv
  <2>2. current_nonce' = (k + 1) * Width /\ k + 1 \in Nat
    BY <1>9, <2>1, NextMultiple DEF Advance
  <2>3. Frontier' = Frontier /\ host' = "test" /\ UNCHANGED <<submitted, solutions, failed>>
    BY <1>9 DEF Advance, Frontier
  <2>. QED
    BY <2>2, <2>3 DEF CoverInv, Reported, Failed
<1>10. CASE LaunchFails
  <2>1. /\ host = "test" /\ host' = "kernel" /\ failed' = failed \cup {current_nonce}
        /\ UNCHANGED <<current_nonce, submitted, solutions>>
    BY <1>10 DEF LaunchFails
  <2>. QED
    BY <2>1 DEF CoverInv, Frontier, Reported, Failed
<1>11. CASE DeviceLost
  <2>1. /\ failed \subseteq failed' /\ (host = "kernel" => current_nonce \in failed')
        /\ UNCHANGED <<host, current_nonce, submitted, solutions>>
    BY <1>11 DEF DeviceLost
  <2>. QED
    BY <2>1 DEF CoverInv, Frontier, Reported, Failed
<1>12. CASE UNCHANGED vars
  BY <1>12 DEF vars, CoverInv, Frontier, Reported, Failed, Nonce
<1>. QED
  BY <1>1, <1>2, <1>3, <1>4, <1>5, <1>6, <1>7, <1>8, <1>9, <1>10, <1>11,
     <1>12
  DEF Next, HostStep, GpuStep, Ended

-----------------------------------------------------------------------------
(* What has been submitted.                                                *)

\* What a report gives the pool, and that no other step does.
LEMMA OnlyReport ==
  TypeOK /\ [Next]_vars /\ ~Report => UNCHANGED <<submitted, solutions>>
  BY DEF Next, HostStep, GpuStep, Ended, Enter, Claim, WriteMix, StopMining, Launch,
     LaunchFails, LoopEnds, ReadNonce, Advance, DeviceLost, vars, hostVars, gpuVars,
     failVars

LEMMA ReportedShare ==
  ASSUME TypeOK, LaneInv, SlotInv, Report
  PROVE  \E l \in Lanes :
           /\ h_result_nonce = Nonce(l) /\ h_result_nonce \in solutions \ {0}
           /\ Clean /\ ~device_lost => \A p \in Parts : CopiedMix[p] = h_result_nonce
<1>1. PICK l \in Lanes : Claimed(l)
  BY DEF Report, SlotInv
<1>2. lane[l] = "done" /\ h_result_nonce = result_nonce /\ h_result_nonce # 0
  BY DEF Report, LaneInv, SlotInv
<1>3. h_result_nonce = Nonce(l) /\ h_result_nonce \in solutions
  BY <1>1, <1>2 DEF Report, SlotInv, Claimed
<1>4. Clean /\ ~device_lost => \A p \in Parts : CopiedMix[p] = h_result_nonce
  BY <1>1, <1>2 DEF Claimed, CopiedMix
<1>. QED
  BY <1>2, <1>3, <1>4

LEMMA ShareStep ==
  TypeOK /\ LaneInv /\ SlotInv /\ ShareInv /\ [Next]_vars => ShareInv'
<1> SUFFICES ASSUME TypeOK, LaneInv, SlotInv, ShareInv, [Next]_vars
             PROVE  ShareInv'
  OBVIOUS
<1>1. CASE Report
  <2>1. PICK l \in Lanes :
          /\ h_result_nonce = Nonce(l) /\ h_result_nonce \in solutions \ {0}
          /\ Clean /\ ~device_lost => \A p \in Parts : CopiedMix[p] = h_result_nonce
    BY <1>1, ReportedShare
  <2>2. /\ Len(submitted') = Len(submitted) + 1 /\ Len(submitted) \in Nat
        /\ submitted'[Len(submitted) + 1] = [nonce |-> h_result_nonce, mix |-> CopiedMix]
        /\ \A i \in 1..Len(submitted) : submitted'[i] = submitted[i]
    BY <1>1 DEF Report, TypeOK
  <2>3. /\ UNCHANGED <<solutions, device_lost>> /\ host = "found" /\ host' = "next"
        /\ device_lost \in BOOLEAN
    BY <1>1 DEF Report, failVars, TypeOK
  <2>4. h_result_nonce >= Width \/ 0 \notin solutions => Clean
    BY <2>1, SearchAssumption DEF Clean, Nonce, Lanes, TypeOK
  <2>5. ASSUME NEW i \in 1..Len(submitted)
        PROVE  /\ submitted'[i].nonce \in solutions
               /\ submitted'[i].nonce >= Width \/ 0 \notin solutions =>
                    \A p \in Parts : submitted'[i].mix[p] = submitted'[i].nonce
    BY <2>2, <2>3 DEF ShareInv, Spoiled
  <2>6. ASSUME NEW i \in 1..Len(submitted'), i \notin 1..Len(submitted)
        PROVE  i = Len(submitted')
    BY <2>2, <2>6
  <2>. QED
    BY <2>1, <2>2, <2>3, <2>4, <2>5, <2>6 DEF ShareInv, Spoiled
<1>2. CASE ~Report
  <2>1. UNCHANGED <<submitted, solutions>>
    BY <1>2, OnlyReport
  <2>2. (device_lost => device_lost') /\ (host' = "found" => host = "found" \/ ~device_lost')
    BY <1>2 DEF Next, HostStep, GpuStep, Ended, Enter, Claim, WriteMix, StopMining,
       Launch, LaunchFails, LoopEnds, ReadNonce, Advance, DeviceLost, vars, hostVars,
       gpuVars, failVars, TypeOK
  <2>3. \A i \in 1..Len(submitted) : Spoiled(i) => Spoiled(i)'
    BY <2>1, <2>2 DEF Spoiled
  <2>. QED
    BY <2>1, <2>3 DEF ShareInv
<1>. QED
  BY <1>1, <1>2

LEMMA OnceStep ==
  TypeOK /\ SlotInv /\ CoverInv /\ NoShareTwice /\ [Next]_vars => NoShareTwice'
<1> SUFFICES ASSUME TypeOK, SlotInv, CoverInv, NoShareTwice, [Next]_vars
             PROVE  NoShareTwice'
  OBVIOUS
<1>1. CASE Report
  <2>1. PICK l \in Lanes : result_nonce = Nonce(l)
    BY <1>1 DEF Report, SlotInv, Claimed
  <2>2. current_nonce <= h_result_nonce
    BY <1>1, <2>1 DEF Report, SlotInv, Nonce, Lanes, TypeOK
  <2>3. \A i \in 1..Len(submitted) : submitted[i].nonce < h_result_nonce
    <3>1. Frontier = current_nonce
      BY <1>1 DEF Report, Frontier
    <3>2. \A i \in 1..Len(submitted) : submitted[i].nonce < current_nonce
      BY <3>1 DEF CoverInv
    <3>3. /\ current_nonce \in Nat /\ h_result_nonce \in Nat
          /\ \A i \in 1..Len(submitted) : submitted[i].nonce \in Nat
      BY SubmittedNonces DEF TypeOK
    <3>. QED
      BY <2>2, <3>2, <3>3
  <2>4. /\ Len(submitted') = Len(submitted) + 1 /\ Len(submitted) \in Nat
        /\ submitted'[Len(submitted) + 1].nonce = h_result_nonce
        /\ \A i \in 1..Len(submitted) : submitted'[i] = submitted[i]
    BY <1>1 DEF Report, TypeOK
  <2>5. h_result_nonce \in Nat
    BY DEF TypeOK
  <2>6. \A i \in 1..Len(submitted') :
          i = Len(submitted) + 1 \/ i \in 1..Len(submitted)
    BY <2>4
  <2>7. \A i \in 1..Len(submitted) : submitted'[i].nonce # h_result_nonce
    BY <2>3, <2>4, <2>5, SubmittedNonces
  <2>. QED
    BY <2>4, <2>6, <2>7 DEF NoShareTwice
<1>2. CASE ~Report
  <2>1. UNCHANGED submitted
    BY <1>2, OnlyReport
  <2>. QED
    BY <2>1 DEF NoShareTwice
<1>. QED
  BY <1>1, <1>2

-----------------------------------------------------------------------------
(* The theorems.                                                           *)

LEMMA SearchInit == Init => SearchInv
<1> SUFFICES ASSUME Init PROVE SearchInv
  OBVIOUS
<1>1. TypeOK
  BY TypeInit
<1>2. LaneInv
  BY SearchAssumption DEF Init, LaneInv
<1>3. SlotInv /\ MixInv
  BY DEF Init, SlotInv, MixInv
<1>4. CoverInv
  <2>1. 0 = 0 * Width
    BY SearchAssumption
  <2>2. \A n \in solutions : ~(n < 0)
    BY <1>1 DEF TypeOK
  <2>. QED
    BY <2>1, <2>2 DEF Init, CoverInv, Frontier
<1>5. ShareInv /\ NoShareTwice
  BY DEF Init, ShareInv, NoShareTwice
<1>6. FailInv
  BY DEF Init, FailInv
<1>. QED
  BY <1>1, <1>2, <1>3, <1>4, <1>5, <1>6 DEF SearchInv

\* The inductive invariant of the search.
THEOREM SearchInvariant == Spec => []SearchInv
<1>1. Init => SearchInv
  BY SearchInit
<1>2. SearchInv /\ [Next]_vars => SearchInv'
  BY TypeStep, LaneStep, SlotStep, MixStep, FailStep, CoverStep, ShareStep, OnceStep
  DEF SearchInv
<1>. QED
  BY <1>1, <1>2, PTL DEF Spec

\* Every variable of the search keeps its type.
THEOREM TypeCorrect == Spec => []TypeOK
<1>1. SearchInv => TypeOK
  BY DEF SearchInv
<1>. QED
  BY <1>1, SearchInvariant, PTL

\* Whatever the size of the launches, the order the GPU runs them in and the calls
\* that fail, each share submitted is a solution with its own mix hash (unless nonce
\* 0, being a solution itself, disturbs the first launch, or the device is lost
\* between the nonce and the mix hash of the last share).
THEOREM SharesAreValid == Spec => []ValidShares
<1>1. SearchInv => ValidShares
  BY DEF SearchInv, ShareInv, Spoiled, ValidShares
<1>. QED
  BY <1>1, SearchInvariant, PTL

\* No share is submitted twice by one search.
THEOREM SharesOnce == Spec => []NoShareTwice
<1>1. SearchInv => NoShareTwice
  BY DEF SearchInv
<1>. QED
  BY <1>1, SearchInvariant, PTL

\* Every launch that does not fail and holds a solution other than nonce 0 yields a
\* share.
THEOREM LaunchesCount == Spec => []NoLaunchWasted
<1>1. SearchInv => NoLaunchWasted
  <2> SUFFICES ASSUME SearchInv, NEW n \in solutions \ {0}, n < current_nonce
               PROVE  Failed(n) \/ Reported(n)
    BY DEF NoLaunchWasted, Reported, Failed
  <2>1. n < Frontier
    BY SearchAssumption DEF SearchInv, TypeOK, Frontier
  <2>. QED
    BY <2>1 DEF SearchInv, CoverInv
<1>. QED
  BY <1>1, SearchInvariant, PTL
-----------------------------------------------------------------------------
(* The search implements NonceSearch.                                      *)

State == CASE host \in {"test", "next"}    -> "rest"
           [] host \in {"kernel", "found"} -> "launch"
           [] OTHER                        -> "ended"

\* Where the search is for NonceSearch.
LEMMA States ==
  /\ host \in {"test", "next"} => State = "rest"
  /\ host \in {"kernel", "found"} => State = "launch"
  /\ host = "end" => State = "ended"
  BY DEF State

\* A launch that fills no slot has no solution to report, or has failed.
LEMMA EmptyLaunch ==
  ASSUME SearchInv, ReadNonce, host' = "next"
  PROVE  current_nonce \in failed \/ Search!Reportable = {}
<1> SUFFICES ASSUME current_nonce \notin failed,
                    NEW n \in solutions \ {0},
                    current_nonce <= n, n < current_nonce + Width
             PROVE  FALSE
  BY DEF ReadNonce, Search!Reportable
<1>1. host = "kernel" /\ result_nonce = 0
  BY DEF ReadNonce, SearchInv, FailInv, TypeOK
<1>2. n - current_nonce \in Lanes /\ Nonce(n - current_nonce) = n
  BY SearchAssumption DEF SearchInv, TypeOK, Lanes, Nonce
<1>3. lane[n - current_nonce] = "done"
  BY <1>2 DEF ReadNonce
<1>. QED
  BY <1>1, <1>2, <1>3 DEF SearchInv, CoverInv

LEMMA ReportYields == ASSUME SearchInv, Report PROVE Search!Yield
<1>1. PICK l \in Lanes :
        /\ h_result_nonce = Nonce(l) /\ h_result_nonce \in solutions \ {0}
        /\ Clean /\ ~device_lost => \A p \in Parts : CopiedMix[p] = h_result_nonce
  BY ReportedShare DEF SearchInv
<1>2. host = "found" /\ host' = "next"
  BY DEF Report
<1>3. h_result_nonce \in Search!Reportable
  BY <1>1, <1>2, SearchAssumption DEF Search!Reportable, SearchInv, TypeOK, Nonce, Lanes
<1>4. CopiedMix \in [Parts -> solutions \cup {Garbage}]
  BY DEF CopiedMix, SearchInv, MixInv
<1>5. Search!Spoilt \/ \A p \in Parts : CopiedMix[p] = h_result_nonce
  BY <1>1, <1>2 DEF Search!Spoilt, Clean
<1>6. current_nonce \notin failed
  BY <1>2 DEF SearchInv, FailInv, Frontier, TypeOK
<1>7. Search!EndLaunch
  <2>1. /\ State = "launch" /\ State' = "rest"
        /\ UNCHANGED <<go, current_nonce, device_lost, failed, solutions>>
    BY <1>2, States DEF Report, State, failVars
  <2>. QED
    BY <1>2, <2>1 DEF Search!EndLaunch, State
<1>8. submitted' = Append(submitted, [nonce |-> h_result_nonce, mix |-> CopiedMix])
  BY DEF Report
<1>. QED
  BY <1>2, <1>3, <1>4, <1>5, <1>6, <1>7, <1>8 DEF Search!Yield

LEMMA SearchStepRefines ==
  SearchInv /\ [Next]_vars => [Search!Next]_(Search!vars)
<1> SUFFICES ASSUME SearchInv, [Next]_vars PROVE [Search!Next]_(Search!vars)
  OBVIOUS
<1> USE DEF hostVars, gpuVars, failVars
<1>1. CASE StopMining
  BY <1>1 DEF StopMining, Search!Next, Search!Stop
<1>2. CASE Launch
  <2>1. /\ State = "rest" /\ State' = "launch" /\ host = "test" /\ host' = "kernel"
    BY <1>2, States DEF Launch, State
  <2>. QED
    BY <1>2, <2>1 DEF Launch, Search!Next, Search!Launch, Search!MayFail, State
<1>3. CASE LaunchFails
  <2>1. /\ State = "rest" /\ State' = "launch" /\ host = "test" /\ host' = "kernel"
    BY <1>3, States DEF LaunchFails, State
  <2>. QED
    BY <1>3, <2>1 DEF LaunchFails, Search!Next, Search!Launch, Search!MayFail, State
<1>4. CASE LoopEnds
  <2>1. /\ State = "rest" /\ State' = "ended" /\ host = "test" /\ host' = "end"
    BY <1>4, States DEF LoopEnds, State
  <2>. QED
    BY <1>4, <2>1 DEF LoopEnds, Search!Next, Search!End, State
<1>5. CASE ReadNonce
  <2>1. host = "kernel" /\ host' \in {"found", "next"} /\ State = "launch"
    BY <1>5, States DEF ReadNonce
  <2>2. UNCHANGED <<go, current_nonce, submitted, device_lost, failed, solutions>>
    BY <1>5 DEF ReadNonce
  <2>3. CASE host' = "found"
    <3>1. State' = "launch"
      BY <2>3 DEF State
    <3>. QED
      BY <2>1, <2>2, <2>3, <3>1 DEF Search!vars, State
  <2>4. CASE host' = "next"
    <3>1. State' = "rest"
      BY <2>4 DEF State
    <3>2. Search!Reportable = {} \/ current_nonce \in failed
      BY <1>5, <2>4, EmptyLaunch
    <3>. QED
      BY <2>1, <2>2, <2>4, <3>1, <3>2 DEF Search!Next, Search!Pass, Search!EndLaunch, State
  <2>. QED
    BY <2>1, <2>3, <2>4
<1>6. CASE Report
  BY <1>6, ReportYields DEF Search!Next
<1>7. CASE Advance
  <2>1. host = "next" /\ host' = "test" /\ State = "rest" /\ State' = "rest"
    BY <1>7, States DEF Advance, State
  <2>. QED
    BY <1>7, <2>1 DEF Advance, Search!vars, State
<1>8. CASE DeviceLost
  <2>1. CASE host \in {"kernel", "found"}
    <3>1. State = "launch" /\ UNCHANGED host
      BY <1>8, <2>1, States DEF DeviceLost
    <3>. QED
      BY <1>8, <2>1, <3>1 DEF DeviceLost, Search!Next, Search!Lose, Search!MayFail, State
  <2>2. CASE host \in {"test", "next", "end"}
    <3>1. State # "launch" /\ UNCHANGED host
      BY <1>8, <2>2, States DEF DeviceLost
    <3>. QED
      BY <1>8, <2>2, <3>1 DEF DeviceLost, Search!Next, Search!Lose, State
  <2>. QED
    BY <2>1, <2>2 DEF SearchInv, TypeOK
<1>9. ASSUME NEW l \in Lanes, GpuStep(l) PROVE UNCHANGED Search!vars
  BY <1>9 DEF GpuStep, Enter, Claim, WriteMix, Search!vars
<1>10. CASE UNCHANGED vars
  BY <1>10 DEF vars, Search!vars
<1>. QED
  BY <1>1, <1>2, <1>3, <1>4, <1>5, <1>6, <1>7, <1>8, <1>9, <1>10
  DEF Next, HostStep, Ended

\* The search implements NonceSearch: the slot that a launch's GPU threads race for
\* without a lock, the copies, and the reset come to one share of each launch, of
\* that launch, and whole, as long as nothing fails; and no failure makes more of it
\* than a share that is missing, or a mix hash.
THEOREM SearchImplementsNonceSearch == Spec => ImplementsSearch
<1>1. Init => Search!Init
  <2> SUFFICES ASSUME Init PROVE Search!Init
    OBVIOUS
  <2>1. State = "rest" /\ host = "test"
    BY States DEF Init
  <2>2. solutions \subseteq Nat
    BY TypeInit DEF TypeOK
  <2>. QED
    BY <2>1, <2>2 DEF Init, Search!Init, State
<1>. QED
  BY <1>1, SearchInvariant, SearchStepRefines, PTL DEF Spec, ImplementsSearch, Search!Spec

=============================================================================
