------------------------------- MODULE Circbuf -------------------------------
(***************************************************************************)
(* The circular buffer of pipes, sockets and the console                   *)
(* (circbuf/circbuf.go), as operators on a record with the backing memory  *)
(* and the two positions, which only grow.  A transfer moves at most two   *)
(* segments: up to the end of the memory, and from its start.              *)
(***************************************************************************)
EXTENDS Integers, Sequences, FiniteSetsExt

CONSTANT bufsz  \* the capacity

ASSUME BufszAssumption == bufsz \in Nat \ {0}

Cb_init(byte) == [buf |-> [i \in 0 .. bufsz - 1 |-> byte], head |-> 0, tail |-> 0]

Full(cb)  == cb.head - cb.tail = bufsz
Empty(cb) == cb.head = cb.tail
Left(cb)  == bufsz - (cb.head - cb.tail)

\* What the buffer holds, oldest byte first.
Contents(cb) == [k \in 1 .. cb.head - cb.tail |-> cb.buf[(cb.tail + k - 1) % bufsz]]

\* Where the second segment begins once n bytes have gone to the first.
\* (Faulty variant: where the first one did.)
Second_same(pos, n) == pos % bufsz
Second(pos, n) == (pos + n) % bufsz

\* Copyin of the bytes src: the new buffer, the number of bytes, and whether
\* its assertion fails.  If the copy from user memory fails, bytes of the
\* first segment may be in the buffer, but head stays.
Copyin(cb, src, fails) ==
    LET hi    == cb.head % bufsz
        ti    == cb.tail % bufsz
        n1    == IF ti <= hi THEN Min({bufsz - hi, Len(src)}) ELSE 0
        more  == ti > hi \/ n1 = bufsz - hi
        at    == IF ti <= hi THEN Second(cb.head, n1) ELSE hi
        n2    == IF more /\ at <= ti THEN Min({ti - at, Len(src) - n1}) ELSE 0
        mem   == [i \in 0 .. bufsz - 1 |->
                    IF i - hi \in 0 .. n1 - 1 THEN src[i - hi + 1]
                    ELSE IF ~fails /\ i - at \in 0 .. n2 - 1 THEN src[n1 + i - at + 1]
                    ELSE cb.buf[i]]
        n     == IF fails THEN 0 ELSE n1 + n2
    IN  IF Full(cb) THEN [cb |-> cb, n |-> 0, wut |-> FALSE]
        ELSE [cb |-> [cb EXCEPT !.buf = mem, !.head = @ + n], n |-> n,
              wut |-> more /\ at > ti]

\* Copyout_n to a user buffer with this much room, at most max bytes unless
\* that is 0: the new buffer, the bytes, and whether its assertion fails.
Copyout_n(cb, room, max) ==
    LET hi    == cb.head % bufsz
        ti    == cb.tail % bufsz
        cut(len, m) == IF m = 0 THEN len ELSE Min({len, m})
        len1  == cut(bufsz - ti, max)
        n1    == IF hi <= ti THEN Min({len1, room}) ELSE 0
        more  == hi > ti \/ (n1 = len1 /\ n1 # max)
        at    == IF hi <= ti THEN Second(cb.tail, n1) ELSE ti
        n2    == IF more /\ at <= hi
                 THEN Min({cut(hi - at, IF max = 0 THEN 0 ELSE max - n1), room - n1}) ELSE 0
    IN  IF Empty(cb) THEN [cb |-> cb, bytes |-> << >>, wut |-> FALSE]
        ELSE [cb    |-> [cb EXCEPT !.tail = @ + n1 + n2],
              bytes |-> [k \in 1 .. n1 + n2 |->
                            IF k <= n1 THEN cb.buf[ti + k - 1] ELSE cb.buf[at + k - n1 - 1]],
              wut   |-> more /\ at > hi]

Copyout(cb, room) == Copyout_n(cb, room, 0)

==============================================================================
