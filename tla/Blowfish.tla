------------------------------ MODULE Blowfish ------------------------------
(* crypt/blowfish.c: the block cipher and its modes, as pure operators.  A   *)
(* word is a function from bit numbers, so that exclusive or is pointwise;   *)
(* the round function is any operator that takes words to words.             *)
EXTENDS Integers

CONSTANT F(_, _)    \* F of the tables S and a word

Bits == 0..31

Words == [Bits -> BOOLEAN]

Byte == [0..7 -> BOOLEAN]

Blocks == [Left : Words, Right : Words]

\* 18 subkeys, tables that F makes words with, and the first link.
IsCipher(bf) == /\ bf.P \in [0..17 -> Words]
                /\ bf.Chain \in Blocks
                /\ \A x \in Words : F(bf.S, x) \in Words

Xor(x, y) == [i \in Bits |-> x[i] # y[i]]

BlockXor(a, b) == [Left  |-> Xor(a.Left, b.Left),
                   Right |-> Xor(a.Right, b.Right)]

\* One round, after which the two halves change places; the code writes two
\* rounds to a line and leaves the halves where they are.
Round(bf, b, i) ==
    [Left  |-> Xor(b.Right, Xor(F(bf.S, b.Left), bf.P[i])),
     Right |-> b.Left]

Two(bf, b, i, j) == Round(bf, Round(bf, b, i), j)

\* The first and the last line of a block's way through the rounds.
First(bf, b, i) == [b EXCEPT !.Left = Xor(@, bf.P[i])]

Last(bf, b, i) == [Left |-> Xor(b.Right, bf.P[i]), Right |-> b.Left]

EncryptBlock(bf, block) ==
    LET b0  == First(bf, block, 0)
        b2  == Two(bf, b0, 1, 2)
        b4  == Two(bf, b2, 3, 4)
        b6  == Two(bf, b4, 5, 6)
        b8  == Two(bf, b6, 7, 8)
        b10 == Two(bf, b8, 9, 10)
        b12 == Two(bf, b10, 11, 12)
        b14 == Two(bf, b12, 13, 14)
    IN  Last(bf, Two(bf, b14, 15, 16), 17)

DecryptBlock(bf, block) ==
    LET b0  == First(bf, block, 17)
        b2  == Two(bf, b0, 16, 15)
        b4  == Two(bf, b2, 14, 13)
        b6  == Two(bf, b4, 12, 11)
        b8  == Two(bf, b6, 10, 9)
        b10 == Two(bf, b8, 8, 7)
        b12 == Two(bf, b10, 6, 5)
        b14 == Two(bf, b12, 4, 3)
    IN  Last(bf, Two(bf, b14, 2, 1), 0)

\* Eight bytes and a block, the high byte of a word first.
BytesToBlock(p) ==
    [Left  |-> [i \in Bits |-> p[3 - (i \div 8)][i % 8]],
     Right |-> [i \in Bits |-> p[7 - (i \div 8)][i % 8]]]

BlockToBytes(b) ==
    [k \in 0..7 |-> [j \in 0..7 |-> IF k < 4 THEN b.Left[8 * (3 - k) + j]
                                             ELSE b.Right[8 * (7 - k) + j]]]
-----------------------------------------------------------------------------
\* AdrenoBlowfish_Encrypt and _Decrypt of n blocks.  Both start from bf->Chain
\* and keep the link in a local variable, so calls do not follow one another
\* and Reset, which puts Chain0 back, changes nothing.

Link(bf, out, i) == IF i = 1 THEN bf.Chain ELSE out[i - 1]

\* out is what Encrypt writes for data.
IsEncrypted(bf, mode, n, data, out) ==
    \A i \in 1..n :
        out[i] = CASE mode = "CBC" ->
                        EncryptBlock(bf, BlockXor(data[i], Link(bf, out, i)))
                   [] mode = "CFB" ->
                        BlockXor(data[i], EncryptBlock(bf, Link(bf, out, i)))
                   [] mode = "ECB" -> EncryptBlock(bf, data[i])

\* Decrypt's links are blocks of its input, so each block stands alone.
Decrypted(bf, mode, n, data) ==
    [i \in 1..n |->
        CASE mode = "CBC" ->
                BlockXor(DecryptBlock(bf, data[i]), Link(bf, data, i))
          [] mode = "CFB" ->
                BlockXor(data[i], EncryptBlock(bf, Link(bf, data, i)))
          [] mode = "ECB" -> DecryptBlock(bf, data[i])]
=============================================================================
