------------------------------ MODULE Partitioner ------------------------------
(***************************************************************************)
(* Partitioners (routing/partitioner.rs) and the partition key of a        *)
(* prepared statement (statement/prepared.rs).  The hasher buffers what it *)
(* is given in pieces and consumes whole blocks; the arithmetic that mixes *)
(* a block into the hash is left uninterpreted: a digest is the sequence   *)
(* of blocks mixed in, the tail left in the buffer and the total length,   *)
(* which is all that the result depends on.                                *)
(***************************************************************************)
EXTENDS Integers, Sequences, FiniteSets, SequencesExt

CONSTANTS BufCapacity,   \* BUF_CAPACITY of Murmur3, 16 in the code
          CdcCapacity,   \* BUF_CAPACITY of the CDC partitioner, 8 in the code
          MaxKeyLen,     \* u16::MAX, the longest value of a composite key
          LenBase,       \* 256: values of one byte of a length
          Pieces,        \* the byte sequences that are written
          MaxTotal       \* bound on the bytes written in a behaviour

ASSUME PartitionerConstants == BufCapacity \in Nat \ {0} /\ CdcCapacity \in Nat \ {0}

VARIABLES hasher,   \* Murmur3PartitionerHasher
          cdc,      \* CDCPartitionerHasher
          fed       \* history: all the bytes written

hashVars == <<hasher, cdc, fed>>

NewHasher == [total_len |-> 0, buf |-> [i \in 1 .. BufCapacity |-> 0], blocks |-> <<>>]
NewCdc == [computed |-> FALSE, buf |-> <<>>]

(* The whole blocks at the beginning of s, and what is left of it.         *)
Chunks(s) == [i \in 1 .. (Len(s) \div BufCapacity) |->
                 SubSeq(s, (i - 1) * BufCapacity + 1, i * BufCapacity)]
Rest(s) == SubSeq(s, (Len(s) \div BufCapacity) * BufCapacity + 1, Len(s))

CopyInto(buf, at, s) == [i \in DOMAIN buf |-> IF i > at /\ i <= at + Len(s) THEN s[i - at] ELSE buf[i]]

(* Whole blocks are taken from the piece even when the buffer is not empty.*)
WriteFastPath(h, piece) ==
    LET buf_len == h.total_len % BufCapacity
    IN [total_len |-> h.total_len + Len(piece),
        buf |-> CopyInto(h.buf, buf_len, Rest(piece)),
        blocks |-> h.blocks \o Chunks(piece)]

(* Murmur3PartitionerHasher::write: fill a buffer that can be filled and   *)
(* mix it in; with an empty buffer mix in whole blocks of the piece; keep  *)
(* the rest.                                                               *)
Write(h, piece) ==
    LET buf_len == h.total_len % BufCapacity
        fills == buf_len > 0 /\ BufCapacity - buf_len <= Len(piece)
        to_write == IF fills THEN BufCapacity - buf_len ELSE 0
        filled == CopyInto(h.buf, buf_len, SubSeq(piece, 1, to_write))
        left == SubSeq(piece, to_write + 1, Len(piece))
        empty == fills \/ buf_len = 0
    IN [total_len |-> h.total_len + Len(piece),
        buf |-> IF empty THEN CopyInto(filled, 0, Rest(left)) ELSE CopyInto(filled, buf_len, left),
        blocks |-> h.blocks \o (IF fills THEN <<filled>> ELSE <<>>)
                            \o (IF empty THEN Chunks(left) ELSE <<>>)]

(* finish: the tail is read from the buffer.                               *)
Finish(h) == [blocks |-> h.blocks, tail |-> SubSeq(h.buf, 1, h.total_len % BufCapacity),
              len |-> h.total_len]

(* CDCPartitionerHasher: the first bytes are the token; until they are all *)
(* there the token is invalid.                                             *)
CdcWrite(c, piece) ==
    LET room == CdcCapacity - Len(c.buf)
        buf == c.buf \o SubSeq(piece, 1, IF Len(piece) < room THEN Len(piece) ELSE room)
    IN IF c.computed THEN c ELSE [computed |-> Len(buf) = CdcCapacity, buf |-> buf]

CdcFinish(c) == IF c.computed THEN c.buf ELSE <<>>

(***************************************************************************)
(* The partition key of a statement                                        *)
(***************************************************************************)
Null == <<-1>>
LengthBytes(n) == <<n \div LenBase, n % LenBase>>

(* PartitionKey::new: pk_indexes, sorted by index, pairs the position of a *)
(* bound value with its place in the key; the values are taken from an     *)
(* iterator that only goes forward.  The result is a set: empty for a key  *)
(* index beyond the values.                                                *)
ExtractPartitionKey(pk_indexes, values) ==
    IF \E i \in DOMAIN pk_indexes : pk_indexes[i].index >= Len(values) THEN {}
    ELSE {[place \in 1 .. Len(pk_indexes) |->
             LET i == CHOOSE i \in DOMAIN pk_indexes : pk_indexes[i].sequence = place - 1
             IN values[pk_indexes[i].index + 1]]}

(* The pieces of one value of a composite key.                             *)
Composite(value) == <<LengthBytes(Len(value)), value, <<0>>>>

(* write_encoded_partition_key: the pieces it writes, as a set that is     *)
(* empty when a value is too long.  Null values are not part of the key.   *)
EncodedPartitionKey(key) ==
    LET values == SelectSeq(key, LAMBDA v : v # Null)
    IN IF Len(values) <= 1 THEN {values}
       ELSE IF \E i \in DOMAIN values : Len(values[i]) > MaxKeyLen THEN {}
       ELSE {FlattenSeq([i \in DOMAIN values |-> Composite(values[i])])}

(* calculate_token_for_partition_key: decides by the number of values,     *)
(* null ones included.                                                     *)
EncodedKeyValues(key) ==
    LET values == SelectSeq(key, LAMBDA v : v # Null)
    IN IF Len(key) = 1 THEN {values}
       ELSE IF \E i \in DOMAIN values : Len(values[i]) > MaxKeyLen THEN {}
       ELSE {FlattenSeq([i \in DOMAIN values |-> Composite(values[i])])}

Digest(pieces) == Finish(FoldLeft(Write, NewHasher, pieces))

CalculateToken(pk_indexes, values) ==
    {Digest(p) : p \in UNION {EncodedPartitionKey(k) : k \in ExtractPartitionKey(pk_indexes, values)}}
CalculateTokenForPartitionKey(key) == {Digest(p) : p \in EncodedKeyValues(key)}

(***************************************************************************)
(* The writes of one key, piece by piece                                   *)
(***************************************************************************)
HashInit == hasher = NewHasher /\ cdc = NewCdc /\ fed = <<>>

WritePiece(piece) ==
    /\ Len(fed) + Len(piece) <= MaxTotal
    /\ hasher' = Write(hasher, piece)
    /\ cdc' = CdcWrite(cdc, piece)
    /\ fed' = fed \o piece

HashNext == \E piece \in Pieces : WritePiece(piece)

(***************************************************************************)
(* Properties                                                              *)
(***************************************************************************)

(* The token does not depend on how the key was cut into pieces: the       *)
(* hashers agree with one that was given everything at once.               *)
PiecesIrrelevant ==
    /\ Finish(hasher) = [blocks |-> Chunks(fed), tail |-> Rest(fed), len |-> Len(fed)]
    /\ CdcFinish(cdc) = IF Len(fed) < CdcCapacity THEN <<>> ELSE SubSeq(fed, 1, CdcCapacity)
=============================================================================
