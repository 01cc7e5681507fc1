----------------------------- MODULE NetChecksum ------------------------------
(***************************************************************************)
(* The sums of checksum.c over bytes, and what they should be: the sum of   *)
(* the 16-bit words in network byte order, the last one padded with zero.   *)
(***************************************************************************)
EXTENDS Integers, FiniteSetsExt, Sequences

\* Definitions named after another one, with a suffix, are that definition with a
\* slip a programmer could make; no specification uses them.
net_checksum_add_low_first(buf) ==
    MapThenSumSet(LAMBDA i : IF i % 2 = 1 THEN buf[i] ELSE buf[i] * 256, DOMAIN buf)

\* The bytes at even places, counted from 0, are the high ones: here the odd ones.
net_checksum_add(buf) ==
    MapThenSumSet(LAMBDA i : IF i % 2 = 0 THEN buf[i] ELSE buf[i] * 256, DOMAIN buf)

\* The reference: word k of the padded bytes.
Padded(buf) == IF Len(buf) % 2 = 0 THEN buf ELSE Append(buf, 0)
Word(buf, k) == 256 * buf[2 * k - 1] + buf[2 * k]
WordSum(buf) ==
    LET p == Padded(buf)
    IN  MapThenSumSet(LAMBDA k : Word(p, k), 1 .. Len(p) \div 2)
=============================================================================
