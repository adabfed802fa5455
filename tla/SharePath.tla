------------------------------ MODULE SharePath ------------------------------
(***************************************************************************)
(* From a difficulty to a share's text: the target kawpow_cuda_search      *)
(* computes for a fixed difficulty and uploads as hexadecimal text, the    *)
(* comparison at the end of kawpow_kernel, and the texts of a share.       *)
(*                                                                         *)
(* Numbers of 256 bits are arrays of NumWords words, the least significant *)
(* first; a word is below Base and WordDigits hexadecimal digits long.     *)
(* Texts are sequences of digits, bytes are below ByteBase.  The code has  *)
(* 8 words of 8 digits to the radix 16.                                    *)
(***************************************************************************)
EXTENDS Naturals, Sequences, SequencesExt

CONSTANTS
  NumWords, WordDigits, Radix, Base,
  MaxTexts,    \* texts of the target of difficulty 1
  Divisors,    \* fixed difficulties
  PoolTexts,   \* what the upload of the pool's target leaves on the device
  Digests,     \* results of the final Keccak permutation, byte by byte
  Nonces, Mixes, Headers,   \* what shares are made of
  CharZero     \* '0'; the other digits have characters of their own

Digits    == 0..(Radix - 1)
ByteBase  == Radix * Radix
WordBytes == WordDigits \div 2
Index    == 0..(NumWords - 1)
Words    == [Index -> 0..(Base - 1)]

TextLength   == NumWords * WordDigits
DigestLength == NumWords * WordBytes

VARIABLES
  pc,
  i,                \* the loop index of operator/ and is_less_or_equal
  pool_max_target,  \* the text of the target of difficulty 1
  fixed_difficulty,
  max_target,       \* the same as words
  fixed_target,     \* their quotient, while operator/ computes it
  remainder,
  d_target_hex,     \* the target's text on the device
  digest,           \* keccak_state_32, as bytes
  hash_val, target_val,   \* the operands of is_less_or_equal
  verdict,
  nonce, mix, header,     \* the share: a number, bytes, the job's text
  params            \* the texts sent to the pool

setVars    == <<pool_max_target, fixed_difficulty, max_target>>
divideVars == <<fixed_target, remainder>>
kernelVars == <<digest, hash_val, target_val, verdict>>
shareVars  == <<nonce, mix, header, params>>
vars == <<pc, i, setVars, divideVars, d_target_hex, kernelVars, shareVars>>

Zeros == [k \in Index |-> 0]
NoParams == [nonce |-> <<>>, header |-> <<>>, mix |-> <<>>]

Init ==
  /\ pc = "parse" /\ i = 0
  /\ pool_max_target \in MaxTexts /\ fixed_difficulty \in Divisors
  /\ d_target_hex \in PoolTexts
  /\ max_target = Zeros /\ fixed_target = Zeros /\ remainder = 0
  /\ digest = <<>> /\ hash_val = Zeros /\ target_val = Zeros /\ verdict = FALSE
  /\ nonce = 0 /\ mix = <<>> /\ header = <<>> /\ params = NoParams

-----------------------------------------------------------------------------
(* Conversions.                                                            *)

\* The number the first n digits of s denote, the most significant first: the
\* loops val = (val << 4) | nibble, and scanning with %x.
Number(s, n, radix) ==
  LET number[k \in 0..n] ==
        IF k = 0 THEN 0 ELSE number[k - 1] * radix + s[k]
  IN  number[n]

\* radix to the power n: a 1 followed by n zeros.
Power(radix, n) == Number([k \in 1..(n + 1) |-> IF k = 1 THEN 1 ELSE 0], n + 1, radix)

ASSUME ShareAssumption ==
  /\ NumWords \in Nat \ {0} /\ WordDigits \in Nat \ {0} /\ WordDigits = 2 * WordBytes
  /\ Radix \in Nat /\ Radix >= 2
  /\ Base = Power(Radix, WordDigits)
  /\ Divisors \subseteq 1..Base   \* "uint64_t small number"; the code has 256
  /\ MaxTexts \cup PoolTexts \subseteq [1..TextLength -> Digits]
  /\ Digests \subseteq [1..DigestLength -> 0..(ByteBase - 1)]
  /\ Nonces \subseteq 0..(Power(Radix, 2 * WordDigits) - 1)   \* uint64_t
  /\ Mixes \subseteq Seq(0..(ByteBase - 1))

\* Digit k of x from the least significant, counted from 0: shift and mask.
Digit(x, k, radix) == (x \div Power(radix, k)) % radix

\* Part k, from 0, of a sequence cut into parts of one size.
Part(s, k, size) == [j \in 1..size |-> s[k * size + j]]

\* std::hex with std::setw(width) and std::setfill('0').
HexDigits(x, width) == [j \in 1..width |-> Digit(x, width - j, Radix)]

\* (Faulty) no std::setw: the leading zeros of a byte are not printed.
HexOfBytesUnpadded(bytes) ==
  FlattenSeq([k \in 1..Len(bytes) |-> SelectSeq(HexDigits(bytes[k], 2), LAMBDA d : d # 0)])

\* The same of every byte, with width 2.
HexOfBytes(bytes) ==
  FlattenSeq([k \in 1..Len(bytes) |-> HexDigits(bytes[k], 2)])

\* uint256_to_hex: the words from the most significant down.
Uint256ToHex(w) ==
  [k \in 1..TextLength |->
     HexDigits(w[NumWords - 1 - ((k - 1) \div WordDigits)], WordDigits)
       [((k - 1) % WordDigits) + 1]]

\* parse_hex_to_uint256, and the same in the kernel.
ParseHexToUint256(text) ==
  [k \in Index |->
     Number(Part(text, NumWords - 1 - k, WordDigits), WordDigits, Radix)]

\* The device is little endian: a word of keccak_state_32 as it is loaded.
LoadWord(bytes, k) ==
  LET part == Part(bytes, k, WordBytes)
  IN  Number([j \in 1..WordBytes |-> part[WordBytes + 1 - j]], WordBytes, ByteBase)

\* (Faulty) the words of the digest are compared as they are in memory.
ByteswapNothing(x) == x

\* byteswap_32.
Byteswap(x) ==
  Number([k \in 1..WordBytes |-> Digit(x, k - 1, ByteBase)], WordBytes, ByteBase)

-----------------------------------------------------------------------------
(* The host computes the target.                                           *)

ParseMaxTarget ==
  /\ pc = "parse" /\ pc' = "divide"
  /\ max_target' = ParseHexToUint256(pool_max_target)
  /\ fixed_target' = Zeros /\ remainder' = 0
  /\ i' = NumWords
  /\ UNCHANGED <<pool_max_target, fixed_difficulty, d_target_hex, kernelVars, shareVars>>

\* (Faulty) the remainder is not carried into the next word.
DivideWordAlone ==
  /\ pc = "divide" /\ i > 0
  /\ LET part == max_target[i - 1]
     IN  /\ fixed_target' = [fixed_target EXCEPT ![i - 1] = (part \div fixed_difficulty) % Base]
         /\ remainder' = part % fixed_difficulty
  /\ i' = i - 1
  /\ UNCHANGED <<pc, setVars, d_target_hex, kernelVars, shareVars>>

\* One turn of operator/, on word i - 1: part is (remainder << 32) | val[i] in
\* 64 bits, the quotient's word is cut to 32.
DivideWord ==
  /\ pc = "divide" /\ i > 0
  /\ LET part == (remainder % Base) * Base + max_target[i - 1]
     IN  /\ fixed_target' = [fixed_target EXCEPT ![i - 1] = (part \div fixed_difficulty) % Base]
         /\ remainder' = part % fixed_difficulty
  /\ i' = i - 1
  /\ UNCHANGED <<pc, setVars, d_target_hex, kernelVars, shareVars>>

\* The quotient is formatted and copied over the pool's target.
UploadTarget ==
  /\ pc = "divide" /\ i = 0
  /\ d_target_hex' = Uint256ToHex(fixed_target)
  /\ pc' = "kernel"
  /\ UNCHANGED <<i, setVars, divideVars, kernelVars, shareVars>>

-----------------------------------------------------------------------------
(* The kernel compares.                                                    *)

\* Any digest; the operands are loaded, the digest's words byteswapped.
LoadOperands ==
  /\ pc = "kernel" /\ pc' = "compare"
  /\ \E d \in Digests :
       /\ digest' = d
       /\ hash_val' = [k \in Index |-> Byteswap(LoadWord(d, NumWords - 1 - k))]
  /\ target_val' = ParseHexToUint256(d_target_hex)
  /\ i' = NumWords
  /\ UNCHANGED <<setVars, divideVars, d_target_hex, verdict, shareVars>>

\* (Faulty) a word that is less decides, one that is greater does not.
CompareLessOnly ==
  /\ pc = "compare" /\ i > 0
  /\ IF hash_val[i - 1] >= target_val[i - 1]
       THEN i' = i - 1 /\ UNCHANGED <<pc, verdict>>
       ELSE /\ verdict' = (hash_val[i - 1] < target_val[i - 1])
            /\ pc' = "decided" /\ UNCHANGED i
  /\ UNCHANGED <<setVars, divideVars, d_target_hex, digest, hash_val, target_val, shareVars>>

\* One turn of is_less_or_equal, on word i - 1.
CompareWord ==
  /\ pc = "compare" /\ i > 0
  /\ IF hash_val[i - 1] = target_val[i - 1]
       THEN i' = i - 1 /\ UNCHANGED <<pc, verdict>>
       ELSE /\ verdict' = (hash_val[i - 1] < target_val[i - 1])
            /\ pc' = "decided" /\ UNCHANGED i
  /\ UNCHANGED <<setVars, divideVars, d_target_hex, digest, hash_val, target_val, shareVars>>

\* All words are equal.
CompareEnds ==
  /\ pc = "compare" /\ i = 0
  /\ verdict' = TRUE /\ pc' = "decided"
  /\ UNCHANGED <<i, setVars, divideVars, d_target_hex, digest, hash_val, target_val, shareVars>>

-----------------------------------------------------------------------------
(* The share's texts.                                                      *)

\* kawpow_cuda_search formats nonce and mix hash; Stratum::submit prints the
\* header it is given character by character, as if it were bytes.
Submit ==
  /\ pc = "decided" /\ verdict /\ pc' = "submitted"
  /\ \E n \in Nonces, m \in Mixes, h \in Headers :
       /\ nonce' = n /\ mix' = m /\ header' = h
       /\ params' = [nonce  |-> HexDigits(n, 2 * WordDigits),
                     header |-> HexOfBytes([k \in 1..Len(h) |-> CharZero + h[k]]),
                     mix    |-> HexOfBytes(m)]
  /\ UNCHANGED <<i, setVars, divideVars, d_target_hex, kernelVars>>

\* The nonce is no solution, or the share is on its way.
Done ==
  /\ pc = "submitted" \/ (pc = "decided" /\ ~verdict)
  /\ UNCHANGED vars

Next ==
  \/ ParseMaxTarget \/ DivideWord \/ UploadTarget
  \/ LoadOperands \/ CompareWord \/ CompareEnds
  \/ Submit \/ Done

Spec == Init /\ [][Next]_vars

-----------------------------------------------------------------------------
(* Properties.                                                             *)

\* The words of an array from the most significant down, and the number they
\* denote.
BigEndian(w) == [k \in 1..NumWords |-> w[NumWords - k]]
Value(w)     == Number(BigEndian(w), NumWords, Base)

TypeOK ==
  /\ pc \in {"parse", "divide", "kernel", "compare", "decided", "submitted"}
  /\ i \in 0..NumWords
  /\ pool_max_target \in MaxTexts /\ fixed_difficulty \in Divisors
  /\ d_target_hex \in [1..TextLength -> Digits]
  /\ digest \in Digests \cup {<<>>}
  /\ max_target \in Words /\ fixed_target \in Words
  /\ remainder \in 0..(Base - 1)
  /\ hash_val \in Words /\ target_val \in Words
  /\ verdict \in BOOLEAN

\* The division by words is the division of numbers: no carry is lost in the
\* 64 bits of part or the 32 bits of a word, for every divisor up to 2^32.
DivisionRight ==
  pc \notin {"parse", "divide"} =>
    Value(fixed_target) = Value(max_target) \div fixed_difficulty

\* The comparison by words is the comparison of numbers.
ComparisonRight ==
  pc \in {"decided", "submitted"} =>
    verdict = (Value(hash_val) <= Value(target_val))

\* A nonce is a solution exactly if its digest, read as a big-endian number,
\* is at most the target of difficulty 1 divided by the difficulty: through
\* parsing, division, formatting, the upload over the pool's target, parsing
\* again on the device, byte order and comparison.
SolutionsMeetTarget ==
  pc \in {"decided", "submitted"} =>
    verdict = (Number(digest, DigestLength, ByteBase)
                 <= Number(pool_max_target, TextLength, Radix) \div fixed_difficulty)

\* What a reader makes of a text of bytes: two digits a byte.
ReadBytes(text) ==
  [k \in 1..(Len(text) \div 2) |-> Number(Part(text, k - 1, 2), 2, Radix)]

\* The pool reads back the nonce and the mix hash that were found, whatever
\* zeros they begin with.
ShareReadBack ==
  pc = "submitted" =>
    /\ Len(params.nonce) = 2 * WordDigits /\ Number(params.nonce, 2 * WordDigits, Radix) = nonce
    /\ Len(params.mix) = 2 * Len(mix) /\ ReadBytes(params.mix) = mix

\* "Header hash (rebuild as 0x-prefixed hex string)": the header's text in the
\* share is the text the job came with.
HeaderReadBack == pc = "submitted" => params.header = header
=============================================================================
