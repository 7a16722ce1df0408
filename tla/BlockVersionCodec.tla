-------------------------- MODULE BlockVersionCodec --------------------------
(***************************************************************************)
(* The value codec of BlockVersionByHashSchema                             *)
(* (src/storage/aptosdb/src/schema/block_version_by_hash/mod.rs): a block  *)
(* hash maps to the version of its BlockMetadata event.  The value is a    *)
(* u64 in big-endian bytes; the decoder first checks the slice length      *)
(* (ensure_slice_len_eq).  The key codec is the hash's bytes as they are,  *)
(* decoded after the same length check.                                    *)
(*                                                                         *)
(* A byte is a digit in 0..Base-1 and a u64 is VersionBytes such digits,   *)
(* so the model keeps the byte order and the length checks of the code    *)
(* with smaller numbers (the code has Base 256, 8 value bytes and 32 hash  *)
(* bytes).                                                                 *)
(***************************************************************************)
EXTENDS Integers, SequencesExt

CONSTANTS
  Base,          \* values of one byte
  VersionBytes,  \* size_of::<Version>() (8 in the code)
  HashBytes      \* size_of::<HashValue>() (32 in the code)

ASSUME Base \in Nat \ {0, 1} /\ VersionBytes \in Nat \ {0} /\ HashBytes \in Nat \ {0}

VARIABLE data  \* the byte slice handed to a decoder, or the value encoded

Bytes == 0..Base - 1
Versions == 0..Base^VersionBytes - 1
Hashes == [1..HashBytes -> Bytes]
Slices == BoundedSeq(Bytes, IF VersionBytes > HashBytes THEN VersionBytes + 1 ELSE HashBytes + 1)
Error == "Error"

(* encode_key: self.to_vec(), the hash's bytes in order. *)
EncodeKey(h) == [i \in 1..HashBytes |-> h[i]]

(* decode_key: ensure_slice_len_eq(data, 32), then HashValue::from_slice. *)
DecodeKey(s) == IF Len(s) /= HashBytes THEN Error ELSE [i \in 1..HashBytes |-> s[i]]

(* encode_value: self.to_be_bytes(), most significant byte first. *)
EncodeValue(v) ==
  [i \in 1..VersionBytes |-> (v \div Base^(VersionBytes - i)) % Base]

(* Variant: the bytes are read least significant first (read_u64::<LittleEndian>). *)
DecodeValueLE(s) ==
  IF Len(s) /= VersionBytes THEN Error
  ELSE FoldRight(LAMBDA b, acc : acc * Base + b, s, 0)

(* decode_value: ensure_slice_len_eq(data, 8), then read_u64::<BigEndian>. *)
DecodeValue(s) ==
  IF Len(s) /= VersionBytes THEN Error
  ELSE FoldLeft(LAMBDA acc, b : acc * Base + b, 0, s)

Init == data \in [kind : {"slice"}, bytes : Slices] \cup [kind : {"version"}, v : Versions]
                    \cup [kind : {"hash"}, h : Hashes]
Next == UNCHANGED data
Spec == Init /\ [][Next]_data

-----------------------------------------------------------------------------
(* Both codecs of BlockVersionByHashSchema are bijections onto slices of   *)
(* their length: a stored hash or version reads back as itself, a slice of *)
(* the right length decodes to the key or value whose encoding it is, and  *)
(* a slice of any other length is refused by decode_key / decode_value.    *)
CodecRoundTrip ==
  CASE data.kind = "version" -> DecodeValue(EncodeValue(data.v)) = data.v
    [] data.kind = "hash" -> DecodeKey(EncodeKey(data.h)) = data.h
    [] data.kind = "slice" ->
         /\ IF Len(data.bytes) = VersionBytes
              THEN DecodeValue(data.bytes) \in Versions
                   /\ EncodeValue(DecodeValue(data.bytes)) = data.bytes
              ELSE DecodeValue(data.bytes) = Error
         /\ IF Len(data.bytes) = HashBytes
              THEN EncodeKey(DecodeKey(data.bytes)) = data.bytes
              ELSE DecodeKey(data.bytes) = Error
=============================================================================
