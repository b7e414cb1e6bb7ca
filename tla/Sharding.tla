------------------------------- MODULE Sharding -------------------------------
(***************************************************************************)
(* Sharder (routing/sharding.rs): the shard of a token, the shard of a     *)
(* source port, and the source ports that lead to a shard.  Tokens have    *)
(* TokenBits bits instead of 64.                                               *)
(***************************************************************************)
EXTENDS Integers, Sequences, FiniteSets

CONSTANTS TokenBits,    \* width of a token, 64 in the code
          MinPort       \* smallest port that is not reserved, 1024 in the code

ASSUME ShardingConstants == TokenBits \in Nat \ {0} /\ MinPort \in Nat

TokenSpan == 2 ^ TokenBits
Tokens == -(TokenSpan \div 2) .. (TokenSpan \div 2 - 1)

(* Token::new: the smallest integer stands for infinity and is replaced by *)
(* the largest; only the CDC partitioner makes an invalid token.           *)
InvalidToken == -(TokenSpan \div 2)
NewToken(value) == IF value = InvalidToken THEN TokenSpan \div 2 - 1 ELSE value

(* The token is moved to the unsigned range, loses its msb_ignore highest  *)
(* bits, and is scaled to the number of shards.                            *)
ShardOf(nr_shards, msb_ignore, token) ==
    LET biased == (token + TokenSpan \div 2) % TokenSpan
        shifted == (biased * 2 ^ msb_ignore) % TokenSpan
    IN (shifted * nr_shards) \div TokenSpan

ShardOfSourcePort(nr_shards, port) == port % nr_shards

(* ShardAwarePortRange::new accepts the range.                             *)
ValidRange(range) == range[1] <= range[2] /\ range[1] >= MinPort

(* Every number that draw_source_port_for_shard_from_range can return.     *)
(* The generator is asked for a number of an interval that leaves room for *)
(* a whole group of nr_shards ports at both ends; it panics when there is  *)
(* none, which is here the empty set.                                      *)
DrawnPorts(nr_shards, shard, range) ==
    {(x \div nr_shards) * nr_shards + shard :
        x \in (range[1] + nr_shards - 1) .. (range[2] - nr_shards)}

DivCeil(a, b) == (a + b - 1) \div b

FirstValidPort(nr_shards, shard, range) ==
    DivCeil(range[1], nr_shards) * nr_shards + shard

StepBy(first, last, step) ==
    IF last < first THEN <<>>
    ELSE [i \in 1 .. ((last - first) \div step + 1) |-> first + (i - 1) * step]

(* iter_source_ports_for_shard_from_range once the port to start at is     *)
(* drawn: up to the end of the range, then again from the beginning.       *)
IterSourcePorts(nr_shards, shard, range, start) ==
    StepBy(start, range[2], nr_shards)
        \o StepBy(FirstValidPort(nr_shards, shard, range), start - 1, nr_shards)

(* ShardInfo::try_from on the three options of a SUPPORTED response.  Each *)
(* option is "absent", "empty" (present without a value), "garbage" (not a *)
(* number), or a number.                                                   *)
ShardInfo(shard, nr_shards, msb_ignore) ==
    LET all == {shard, nr_shards, msb_ignore}
        Kind(k) == \E o \in all : o.kind = k
    IN IF \A o \in all : o.kind = "absent" THEN "NoShardInfo"
       ELSE IF Kind("absent") THEN "MissingSomeShardInfoParameters"
       ELSE IF Kind("empty") THEN "MissingShardInfoParameterValues"
       ELSE IF shard.kind = "garbage" \/ nr_shards.kind = "garbage" THEN "ParseIntError"
       ELSE IF nr_shards.value = 0 THEN "ZeroShards"
       ELSE IF msb_ignore.kind = "garbage" THEN "ParseIntError"
       ELSE "ok"
=============================================================================
