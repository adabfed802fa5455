----------------------------- MODULE MCSharePath -----------------------------
(***************************************************************************)
(* Model-checking instance of SharePath: numbers of two words of four      *)
(* binary digits, that is of two bytes each.                               *)
(***************************************************************************)
EXTENDS SharePath

SmallMaxTexts ==
  {[j \in 1..TextLength |-> Digit(x, TextLength - j, Radix)] :
     x \in {0, 1, 2, 7, 15, 16, 17, 31, 33, 100, 127, 128, 200, 240, 254, 255}}
SmallPoolTexts == {[k \in 1..TextLength |-> d] : d \in Digits}
AllDigests     == [1..DigestLength -> 0..(ByteBase - 1)]
SmallNonces    == {0, 5, 255}
SmallMixes     == {<<0, 3>>, <<2, 1>>}
SmallHeaders   == {<<0, 1>>}
=============================================================================
