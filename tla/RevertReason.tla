---------------------------- MODULE RevertReason ----------------------------
(***************************************************************************)
(* revert_reason_decode of src/cfx-evm/src/execution/executed.rs: turns    *)
(* the output of a reverted call into a human-readable reason.             *)
(*                                                                         *)
(* The VM output is abstracted to what the decoder tells apart: shorter    *)
(* than the 4-byte selector, another selector, the Error(string) selector  *)
(* with a tail ABI decoding fails on, or the Error(string) selector with a *)
(* tail that decodes to a string.  A string is a sequence of characters;   *)
(* each character has a UTF-8 width of 1 to 4 bytes, because Rust's        *)
(* str::len and str[..k] count and cut bytes, not characters.              *)
(***************************************************************************)
EXTENDS Integers, SequencesExt

CONSTANTS
  Chars,       \* the characters strings are made of (model values)
  Width,       \* UTF-8 width in bytes of each character, Chars -> 1..4
  MaxLength,   \* MAX_LENGTH of revert_reason_decode (50 in the code)
  MaxChars     \* bound on the number of characters of a decoded string

ASSUME Width \in [Chars -> 1..4]
ASSUME MaxLength \in Nat \ {0} /\ MaxChars \in Nat

VARIABLE output  \* the VM output being decoded

Strings == BoundedSeq(Chars, MaxChars)

(* The outputs the decoder distinguishes. *)
Outputs ==
  {[kind |-> "Short"], [kind |-> "OtherSelector"], [kind |-> "Undecodable"]}
  \cup {[kind |-> "ErrorString", str |-> s] : s \in Strings}

(* str.len(): the length in bytes of the UTF-8 encoding. *)
ByteLen(s) == FoldLeft(LAMBDA n, c : n + Width[c], 0, s)

(* str[..k]: the prefix of k bytes; it exists only when byte k is a       *)
(* character boundary, otherwise the slice panics.                        *)
IsCharBoundary(s, k) == \E i \in 0..Len(s) : ByteLen(SubSeq(s, 1, i)) = k
BytePrefix(s, k) == CHOOSE p \in Prefixes(s) : ByteLen(p) = k

Hex == [kind |-> "Hex"]
Text(s, ellipsis) == [kind |-> "Text", text |-> s, ellipsis |-> ellipsis]
Panic == [kind |-> "Panic"]

(* Variant: the reason is kept whole up to and including MAX_LENGTH bytes. *)
RevertReasonDecodeLe(out) ==
  CASE out.kind \in {"Short", "OtherSelector", "Undecodable"} -> Hex
    [] ByteLen(out.str) <= MaxLength -> Text(out.str, FALSE)
    [] IsCharBoundary(out.str, MaxLength) -> Text(BytePrefix(out.str, MaxLength), TRUE)
    [] OTHER -> Panic

(* revert_reason_decode: a missing or unknown selector, or a tail that     *)
(* does not decode, gives "0x" || hex(output); a decoded string of fewer   *)
(* than MAX_LENGTH bytes is returned as is, a longer one is cut to its     *)
(* first MAX_LENGTH bytes followed by "...".                              *)
RevertReasonDecode(out) ==
  CASE out.kind \in {"Short", "OtherSelector", "Undecodable"} -> Hex
    [] ByteLen(out.str) < MaxLength -> Text(out.str, FALSE)
    [] IsCharBoundary(out.str, MaxLength) -> Text(BytePrefix(out.str, MaxLength), TRUE)
    [] OTHER -> Panic

(* The reference of the spec (sections 6 and 8): a reason of fewer than   *)
(* MAX_LENGTH characters is returned whole, a longer one as its first     *)
(* MAX_LENGTH characters followed by "...".                               *)
Reference(out) ==
  IF out.kind /= "ErrorString" THEN Hex
  ELSE IF Len(out.str) < MaxLength THEN Text(out.str, FALSE)
  ELSE Text(SubSeq(out.str, 1, MaxLength), TRUE)

Init == output \in Outputs
Next == UNCHANGED output
Spec == Init /\ [][Next]_output

-----------------------------------------------------------------------------
TypeOK == output \in Outputs

(* revert_reason_decode returns what the spec's reference returns for     *)
(* every output: the same hex fallback, the same truncation point.        *)
DecodeMatchesReference == RevertReasonDecode(output) = Reference(output)

(* revert_reason_decode never panics, whatever string a contract reverts  *)
(* with.                                                                   *)
DecodeNeverPanics == RevertReasonDecode(output) /= Panic
=============================================================================
