---------------------------- MODULE ImageStream ----------------------------
(***************************************************************************)
(* stbi__context of stb_image.h: an image is read from memory, or from a   *)
(* file through a buffer that is refilled on demand.  The byte at offset i *)
(* of a file is the number i (from 1), so a reader that skips, repeats or  *)
(* swaps bytes shows; bytes past the end are 0.  The format tests read the *)
(* beginning and rewind, then a loader reads and skips.                    *)
(***************************************************************************)
EXTENDS Integers, Sequences, FiniteSetsExt

CONSTANTS FileLens,    \* lengths of files
          BufLen,      \* sizeof(buffer_start)
          TestLen,     \* the most a format test reads
          MaxRead,     \* the most one call reads or skips
          MaxPos       \* the offset up to which a loader reads

VARIABLE io            \* stbi__context, with what was read and should have been

\* "test ... only ever looks at at most 92 bytes" of the 128 in the buffer, and
\* no image is shorter than that.
ASSUME TestAssumption ==
    /\ BufLen \in Nat \ {0}
    /\ TestLen \in 0..BufLen
    /\ \A l \in FileLens : l \in Nat /\ l >= TestLen

\* What is left of the file behind the FILE's position.
Left(s) == Max({0, s.len - s.fpos})

\* stbi__refill_buffer: at the end of the file the context goes on with a
\* single 0 as if it read from memory.
refillBuffer(s) ==
    LET n == Min({BufLen, Left(s)})
    IN IF n = 0
       THEN [s EXCEPT !.fromCallbacks = FALSE, !.buf[1] = 0,
                      !.cur = 0, !.end = 1]
       ELSE [s EXCEPT !.buf = [i \in 1..BufLen |->
                                 IF i <= n THEN s.fpos + i ELSE s.buf[i]],
                      !.cur = 0, !.end = n, !.fpos = @ + n]

\* stbi__start_mem, stbi__start_file (stbi__start_callbacks)
startMem(len) ==
    [source |-> "memory", len |-> len, fpos |-> 0,
     buf |-> [i \in 1..len |-> i], cur |-> 0, end |-> len, originalEnd |-> len,
     fromCallbacks |-> FALSE, phase |-> "test", pos |-> 0,
     got |-> <<>>, want |-> <<>>]

startFile(len) ==
    LET s == refillBuffer([startMem(len) EXCEPT
                             !.source = "file", !.fromCallbacks = TRUE,
                             !.buf = [i \in 1..BufLen |-> 0]])
    IN [s EXCEPT !.originalEnd = s.end]

\* The bytes a reader at offset pos should see.
Bytes(s, n) == [i \in 1..n |-> IF s.pos + i <= s.len THEN s.pos + i ELSE 0]

\* stbi__get8
get8(s) ==
    LET r == IF s.cur < s.end THEN s
             ELSE IF s.fromCallbacks THEN refillBuffer(s)
             ELSE s
        t == IF r.cur < r.end
             THEN [r EXCEPT !.cur = @ + 1, !.got = <<r.buf[r.cur + 1]>>]
             ELSE [r EXCEPT !.got = <<0>>]
    IN [t EXCEPT !.want = Bytes(s, 1), !.pos = @ + 1]

Short == "short"

\* stbi__getn: the buffer first, then the file itself.  A loader gives up when
\* there are fewer than n bytes.
getn(s, n) ==
    LET blen  == s.end - s.cur
        count == Min({n - blen, Left(s)})
        r == IF s.source = "file" /\ blen < n
             THEN [s EXCEPT !.got = SubSeq(s.buf, s.cur + 1, s.end)
                                    \o [i \in 1..count |-> s.fpos + i],
                            !.fpos = @ + count, !.cur = s.end,
                            !.phase = IF count = n - blen THEN @ ELSE Short]
             ELSE IF s.cur + n <= s.end
             THEN [s EXCEPT !.got = SubSeq(s.buf, s.cur + 1, s.cur + n),
                            !.cur = @ + n]
             ELSE [s EXCEPT !.phase = Short]
    IN [r EXCEPT !.want = Bytes(s, n), !.pos = @ + n]

\* Faulty: the bytes in the buffer are skipped twice.
skip_twice(s, n) ==
    LET r == IF s.source = "file" /\ s.end - s.cur < n
             THEN [s EXCEPT !.cur = s.end, !.fpos = @ + n]
             ELSE [s EXCEPT !.cur = @ + n]
    IN [r EXCEPT !.pos = @ + n]

\* stbi__skip, for a length that is not negative.
skip(s, n) ==
    LET blen == s.end - s.cur
        r == IF s.source = "file" /\ blen < n
             THEN [s EXCEPT !.cur = s.end, !.fpos = @ + n - blen]
             ELSE [s EXCEPT !.cur = @ + n]
    IN [r EXCEPT !.pos = @ + n]

\* stbi__rewind: back to the first buffer, whatever the file's position is.
rewind(s) == [s EXCEPT !.cur = 0, !.end = s.originalEnd, !.pos = 0]

\* stbi_load_from_file gives back what is left in the buffer; from memory there
\* is nothing to do.
Unget(s) ==
    [s EXCEPT !.phase = "done",
              !.fpos = IF s.source = "file" THEN @ - (s.end - s.cur) ELSE @]

StreamInit == \E len \in FileLens : io = startMem(len) \/ io = startFile(len)

StreamNext ==
    \/ /\ io.phase = "test"
       /\ \/ io.pos < TestLen /\ io' = get8(io)
          \/ \E phase \in {"test", "load"} :
               io' = [rewind(io) EXCEPT !.phase = phase]
    \/ /\ io.phase = "load"
       /\ \/ /\ io.pos < MaxPos
             /\ \/ io' = get8(io)
                \/ \E n \in 1..MaxRead : io' = getn(io, n) \/ io' = skip(io, n)
          \/ io' = Unget(io)

\* Whatever mixture of single bytes, blocks, skips and a rewind a loader uses,
\* and wherever the buffer ends in it, it sees the bytes of the file in order,
\* learns of a block that is too short, and leaves the file where it stopped.
StreamInOrder ==
    /\ io.phase # Short => io.got = io.want
    /\ io.phase = Short => io.pos > io.len
    /\ io.phase = "done" /\ io.source = "file" /\ io.pos <= io.len =>
         io.fpos = io.pos
=============================================================================
