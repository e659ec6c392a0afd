----------------------------- MODULE ByteMemory -----------------------------
(***************************************************************************)
(* What the memory of a State promises: a circular string of bits for each *)
(* input that is still possible.  A write replaces the bits from its       *)
(* address on; a memset and a memcpy have the length that the input gives  *)
(* them, and a memcpy reads all that it copies before it writes.  There is *)
(* one exception: between ranges that overlap, a memcpy whose length stays *)
(* symbolic may go byte by byte.  Only the inputs that remain possible are *)
(* promised anything: the choice of a length may exclude some, but not     *)
(* all.  An operation that fails ends the path.                            *)
(***************************************************************************)
EXTENDS Integers, Sequences

CONSTANTS BITS_IN_BYTE, NUM_BYTES

VARIABLES contents,   \* the bits, for each possible input
          given,      \* what the last operation answered if it was a read, likewise
          asked,      \* the last operation
          symbolic,   \* whether it was a memcpy whose length stayed symbolic
          over        \* the path has ended

NUM_BITS == NUM_BYTES * BITS_IN_BYTE

\* The n bits from addr on, and their replacement by val.
BitsAt(c, addr, n) == [k \in 1..n |-> c[((addr * BITS_IN_BYTE + k - 1) % NUM_BITS) + 1]]

Overwrite(c, addr, val) ==
    [k \in 1..NUM_BITS |->
        LET j == ((k - 1 - addr * BITS_IN_BYTE) % NUM_BITS) + 1
        IN  IF j <= Len(val) THEN val[j] ELSE c[k]]

Repeat(val, n) == [k \in 1..(n * Len(val)) |-> val[((k - 1) % Len(val)) + 1]]

\* The n bytes at src copied to dest, at once and one after the other.
CopyAtOnce(c, dest, src, n) == Overwrite(c, dest, BitsAt(c, src, n * BITS_IN_BYTE))

CopyByBytes(c, dest, src, n) ==
    LET after[k \in 0..n] ==
            IF k = 0 THEN c ELSE CopyAtOnce(after[k - 1], dest + k - 1, src + k - 1, 1)
    IN  after[n]

Read ==
    /\ asked'.op = "read"
    /\ given' = [i \in DOMAIN contents |-> BitsAt(contents[i], asked'.addr.val[i], asked'.bits)]
    /\ UNCHANGED contents

Write ==
    /\ asked'.op = "write"
    /\ contents' = [i \in DOMAIN contents |-> Overwrite(contents[i], asked'.addr.val[i], asked'.val[i])]

\* The inputs that remain possible.
Narrows == DOMAIN contents' \subseteq DOMAIN contents /\ (DOMAIN contents # {} => DOMAIN contents' # {})

Memset ==
    /\ asked'.op = "memset"
    /\ Narrows
    /\ \A i \in DOMAIN contents' :
           LET byte == SubSeq(asked'.val[i], 1, BITS_IN_BYTE)
           IN  contents'[i] = Overwrite(contents[i], asked'.addr.val[i], Repeat(byte, asked'.len.val[i]))

\* The bytes to be copied are also written to.
Overlap(dest, src, n) == \E j, k \in 0..(n - 1) : (dest + j) % NUM_BYTES = (src + k) % NUM_BYTES

\* The length differs between the inputs.
LengthOpen == \E i, j \in DOMAIN contents : asked'.len.val[i] # asked'.len.val[j]

Memcpy ==
    /\ asked'.op = "memcpy"
    /\ Narrows
    /\ symbolic' => LengthOpen
    /\ \A i \in DOMAIN contents' :
           LET dest == asked'.addr.val[i]
               src  == asked'.src.val[i]
               n    == asked'.len.val[i]
           IN  \/ contents'[i] = CopyAtOnce(contents[i], dest, src, n)
               \/ symbolic' /\ Overlap(dest, src, n) /\ contents'[i] = CopyByBytes(contents[i], dest, src, n)

Other ==
    /\ asked'.op \notin {"read", "write", "memset", "memcpy"}
    /\ asked'.op # "min_str" => UNCHANGED contents

Next == ~over /\ (over' \/ Read \/ Write \/ Memset \/ Memcpy \/ Other)

Spec == ~over /\ [][Next]_<<contents, given, asked, symbolic, over>>
=============================================================================
