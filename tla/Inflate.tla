------------------------------ MODULE Inflate ------------------------------
(***************************************************************************)
(* The zlib decoder of stb_image.h: Huffman tables with a fast look-up for *)
(* short codes and a search for long ones, the bit reservoir between the   *)
(* bytes of the input and the decoder, and the output that grows on        *)
(* demand.  Numbers of bits are those of the code or smaller (MaxBits,     *)
(* FastBits); the data itself is any.                                      *)
(***************************************************************************)
EXTENDS Integers, Sequences, SequencesExt, FiniteSetsExt

CONSTANTS NumSyms,     \* symbols of a code
          MaxBits,     \* the longest code, 15
          FastBits,    \* STBI__ZFAST_BITS, 9
          DataLen,     \* bytes of the compressed data
          GuessLen,    \* the guess for the size of the output
          MaxOut       \* the size of the output that is never passed

VARIABLES huff,        \* [sizelist, table], a code and what was built for it
          zl           \* stbi__zbuf, and the bits used so far

ASSUME BitsAssumption == MaxBits \in Nat /\ FastBits \in 1..MaxBits

Sums(f(_), S) == MapThenSumSet(f, S)

(***************************************************************************)
(* Huffman codes                                                           *)
(***************************************************************************)
Syms == 0..NumSyms - 1

\* The code buffer shows the next Window bits, the first one lowest.
Window == MaxBits + 1

\* stbi__bit_reverse
bitReverse(v, n) ==
    Sums(LAMBDA i : ((v \div 2^i) % 2) * 2^(n - 1 - i), 0..n - 1)

\* "bad sizes", "bad codelengths"
BadSizes(count, firstcode) ==
    \E i \in 1..MaxBits :
        \/ count[i] > 2^i
        \/ count[i] > 0 /\ firstcode[i] + count[i] - 1 >= 2^i

\* stbi__zbuild_huffman; `fast` and `value` hold the symbols, `fast` -1 where it
\* has none.
zbuildHuffman(sizelist) ==
    LET count == [i \in 1..MaxBits |->
                    Cardinality({s \in Syms : sizelist[s] = i})]
        firstcode[i \in 1..MaxBits] ==
            IF i = 1 THEN 0 ELSE 2 * (firstcode[i - 1] + count[i - 1])
        firstsymbol == [i \in 1..MaxBits |->
                          Sums(LAMBDA j : count[j], 1..i - 1)]
        used    == {s \in Syms : sizelist[s] # 0}
        rank(s) == Cardinality({t \in used : t < s /\ sizelist[t] = sizelist[s]})
        hits(j) == {s \in used :
                      /\ sizelist[s] <= FastBits
                      /\ j % 2^sizelist[s] =
                           bitReverse(firstcode[sizelist[s]] + rank(s),
                                      sizelist[s])}
    IN [ok |-> ~BadSizes(count, firstcode),
        fast |-> [j \in 0..2^FastBits - 1 |->
                    IF hits(j) = {} THEN -1 ELSE Max(hits(j))],
        firstcode |-> firstcode,
        firstsymbol |-> firstsymbol,
        maxcode |-> [i \in 1..Window |->
                       IF i = Window THEN 2^Window
                       ELSE (firstcode[i] + count[i]) * 2^(Window - i)],
        value |-> [c \in 0..Cardinality(used) - 1 |->
                     CHOOSE s \in used :
                        c = rank(s) + firstsymbol[sizelist[s]]]]

Invalid == -1

\* stbi__zhuffman_decode_slowpath: the length of the code, then the symbol.
slowpath(z, b) ==
    LET k == bitReverse(b, Window)
        s == Min({n \in FastBits + 1..Window : k < z.maxcode[n]})
    IN IF s = Window THEN Invalid
       ELSE z.value[(k \div 2^(Window - s)) - z.firstcode[s]
                    + z.firstsymbol[s]]

\* stbi__zhuffman_decode
zhuffmanDecode(z, b) ==
    LET f == z.fast[b % 2^FastBits]
    IN IF f # -1 THEN f ELSE slowpath(z, b)

\* What DEFLATE says: the codes of the symbols in the order of their lengths
\* (and numbers) are consecutive numbers, read from the first bit on.
Precede(sizelist, s) ==
    {t \in Syms : /\ sizelist[t] # 0
                  /\ \/ sizelist[t] < sizelist[s]
                     \/ sizelist[t] = sizelist[s] /\ t < s}

CanonicalCode(sizelist, s) ==
    Sums(LAMBDA t : 2^(sizelist[s] - sizelist[t]), Precede(sizelist, s))

Encoded(sizelist, b) ==
    {s \in Syms : /\ sizelist[s] # 0
                  /\ bitReverse(b % 2^sizelist[s], sizelist[s]) =
                       CanonicalCode(sizelist, s)}

\* No prefix of the code space is given away twice.
Fits(sizelist) ==
    Sums(LAMBDA s : IF sizelist[s] = 0 THEN 0 ELSE 2^(MaxBits - sizelist[s]),
         Syms) <= 2^MaxBits

NoTable == [ok |-> FALSE]

NoCode == [sizelist |-> [s \in Syms |-> 0], table |-> NoTable]

HuffInit == huff \in [sizelist : [Syms -> 0..MaxBits], table : {NoTable}]

HuffBuild ==
    /\ huff.table = NoTable
    /\ huff' = [huff EXCEPT !.table = zbuildHuffman(huff.sizelist)]

\* The tables accept exactly the lengths that leave every code its own prefix,
\* and then find, in the fast table or by the search, the one symbol whose code
\* comes next, or that there is none.
HuffmanExact ==
    huff.table # NoTable =>
        /\ huff.table.ok <=> Fits(huff.sizelist)
        /\ huff.table.ok =>
             \A b \in 0..2^Window - 1 :
                LET s == zhuffmanDecode(huff.table, b)
                IN Encoded(huff.sizelist, b) = IF s = Invalid THEN {} ELSE {s}

(***************************************************************************)
(* Blocks.  `byte` is the number of bytes taken from the input, `numBits`  *)
(* how many of their bits are left in the reservoir, `pos` the bits that   *)
(* were used.                                                              *)
(***************************************************************************)
\* stbi__fill_bits; past the end of the input stbi__zget8 gives zeros.
fillBits(z) ==
    LET k == Min({i \in 1..4 : z.numBits + 8 * i > 24})
    IN [z EXCEPT !.byte = Min({DataLen, @ + k}), !.numBits = @ + 8 * k]

\* n bits, after a refill if there are fewer than `least` of them.
Take(z, least, n) ==
    LET r == IF z.numBits < least THEN fillBits(z) ELSE z
    IN [r EXCEPT !.numBits = @ - n, !.pos = @ + n]

\* stbi__zreceive
zreceive(z, n) == Take(z, n, n)

\* stbi__zhuffman_decode, for a code of n bits.
zdecode(z, n) == Take(z, 16, n)

Corrupt(z) == [z EXCEPT !.block = "failed"]

\* Faulty: the output is doubled once.
Doubled_once(limit, need) == IF need > limit THEN 2 * limit ELSE limit

\* The first doubling of the limit with room for what is needed.
Doubled(limit, need) ==
    limit * 2^(CHOOSE k \in 0..need :
                 /\ limit * 2^k >= need
                 /\ \A j \in 0..k - 1 : limit * 2^j < need)

\* stbi__zexpand before n bytes are put out; it may fail.
Put(z, n) ==
    {[z EXCEPT !.zoutEnd = Doubled(@, z.zout + n), !.zout = @ + n]}
    \cup (IF z.zout + n > z.zoutEnd THEN {Corrupt(z)} ELSE {})

\* stbi__zlib_decode_malloc_guesssize_headerflag, stbi__do_zlib, and the two
\* bytes of stbi__parse_zlib_header, which an iPhone's file does not have.
ZlibInit(headers) ==
    \E header \in headers :
        zl = [byte |-> IF header THEN 2 ELSE 0, numBits |-> 0,
              pos |-> IF header THEN 16 ELSE 0,
              zout |-> 0, zoutEnd |-> GuessLen, final |-> FALSE,
              block |-> "none"]

\* stbi__compute_huffman_codes: three counts, the lengths of the code for
\* lengths, and the lengths, some of them runs.  Only what it reads is kept.
computeHuffmanCodes(z) ==
    LET counts == zreceive(zreceive(zreceive(z, 5), 5), 4)
        clens  == FoldLeft(LAMBDA r, n : zreceive(r, n), counts, <<3, 3, 3, 3>>)
        runs   == FoldLeft(LAMBDA r, n : zreceive(zdecode(r, 1), n), clens,
                           <<2, 7>>)
    IN {[runs EXCEPT !.block = "symbols"], Corrupt(runs)}

Align(z) == zreceive(z, z.numBits % 8)

\* stbi__parse_uncompressed_block: what is left in the reservoir is the
\* beginning of the header; the data follows in the input.  A header that is
\* not all there is never right.
parseUncompressedBlock(z, len) ==
    LET a == Align(z)
        drained == a.numBits \div 8
        h == [a EXCEPT !.byte = Min({DataLen, @ + 4 - drained}),
                       !.numBits = 0, !.pos = @ + 32]
    IN IF h.pos > 8 * DataLen \/ h.byte + len > DataLen THEN {Corrupt(h)}
       ELSE {Corrupt(h)}
            \cup {IF p.block = "failed" THEN p
                  ELSE [p EXCEPT !.byte = @ + len, !.pos = @ + 8 * len,
                                 !.block = "none"] : p \in Put(h, len)}

\* stbi__parse_zlib, the beginning of a block: fixed codes need nothing more.
ZlibBlock ==
    /\ zl.block = "none"
    /\ ~zl.final
    /\ zl.pos < 8 * DataLen
    /\ \E final \in BOOLEAN, type \in 0..3, len \in 0..2 :
         LET z == zreceive(zreceive([zl EXCEPT !.final = final], 1), 2)
         IN /\ type = 0 => zl.zout + len <= MaxOut
            /\ zl' \in CASE type = 0 -> parseUncompressedBlock(z, len)
                         [] type = 1 -> {[z EXCEPT !.block = "symbols"]}
                         [] type = 2 -> computeHuffmanCodes(z)
                         [] type = 3 -> {Corrupt(z)}

\* A match: the extra bits of its length, the code and the extra bits of its
\* distance.  It may not reach back beyond the output.
Match(extra, bits, distExtra, len, dist) ==
    LET l == zreceive(zdecode(zl, bits), extra)
        d == zreceive(zdecode(l, bits), distExtra)
    IN IF dist > zl.zout THEN {Corrupt(d)} ELSE Put(d, len)

\* stbi__parse_huffman_block, one symbol.  Codes are at least 1 and at most 15
\* bits long.
ZlibSymbol ==
    /\ zl.block = "symbols"
    /\ zl.pos < 8 * DataLen
    /\ \E bits \in {1, 15} :
         \/ zl.zout < MaxOut /\ zl' \in Put(zdecode(zl, bits), 1)
         \/ zl' = [zdecode(zl, bits) EXCEPT !.block = "none"]
         \/ zl' = Corrupt(zl)
         \/ \E extra \in {0, 5}, distExtra \in {0, 13}, len \in {3, 4},
               dist \in 1..2 :
              /\ zl.zout + len <= MaxOut
              /\ zl' \in Match(extra, bits, distExtra, len, dist)

\* The Huffman tables are exact; while there is input, the reservoir neither loses nor invents a bit, it is
\* never overdrawn and what a stored block finds in it fits a header; and the
\* output never passes the end of its buffer.
InflateSound ==
    /\ HuffmanExact
    /\ zl.numBits \in 0..32
    /\ zl.byte < DataLen => 8 * zl.byte - zl.numBits = zl.pos
    /\ zl.zout <= zl.zoutEnd
=============================================================================
