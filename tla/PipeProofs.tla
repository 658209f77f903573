------------------------------ MODULE PipeProofs ------------------------------
(***************************************************************************)
(* Theorems about pipes (module Pipe) and the circular buffer under them   *)
(* (module Circbuf).                                                       *)
(***************************************************************************)
EXTENDS Pipe, FiniteSetTheorems, NaturalsInduction, SequenceTheorems, TLAPS

(***************************************************************************)
(* Positions modulo the size of the buffer.                                *)
(***************************************************************************)
\* A position has an index in the memory.
LEMMA Index ==
    ASSUME NEW x \in Int
    PROVE  x % bufsz \in 0 .. bufsz - 1
  BY BufszAssumption, Z3

\* The index is what is left after whole rounds.
LEMMA Rounds ==
    ASSUME NEW x \in Nat
    PROVE  \E q \in Int : x = bufsz * q + (x % bufsz)
<1>1. x \div bufsz \in Int /\ x = bufsz * (x \div bufsz) + (x % bufsz)
  BY BufszAssumption, Z3
<1> QED BY <1>1

\* There is only one way to write a position as rounds and an index.
LEMMA IndexUnique ==
    ASSUME NEW x \in Nat, NEW q \in Int, NEW r \in 0 .. bufsz - 1, x = bufsz * q + r
    PROVE  r = x % bufsz
  BY BufszAssumption, Z3

\* The index of a position at most one round further on.
LEMMA IndexPlus ==
    ASSUME NEW x \in Nat, NEW n \in 0 .. bufsz
    PROVE  (x + n) % bufsz = IF (x % bufsz) + n < bufsz THEN (x % bufsz) + n
                             ELSE (x % bufsz) + n - bufsz
<1>1. PICK q \in Int : x = bufsz * q + (x % bufsz)
  BY Rounds
<1>2. PICK r \in 0 .. bufsz - 1 : r = x % bufsz
  BY Index
<1>3. CASE r + n < bufsz
  <2>1. r + n \in 0 .. bufsz - 1 /\ x + n = bufsz * q + (r + n) /\ x + n \in Nat
    BY <1>1, <1>2, <1>3, BufszAssumption, Z3
  <2> QED BY <2>1, IndexUnique, <1>2, <1>3
<1>4. CASE ~(r + n < bufsz)
  <2>1. /\ r + n - bufsz \in 0 .. bufsz - 1 /\ x + n \in Nat
        /\ x + n = bufsz * (q + 1) + (r + n - bufsz)
    BY <1>1, <1>2, <1>4, BufszAssumption, Z3
  <2> QED BY <2>1, IndexUnique, <1>2, <1>4
<1> QED BY <1>3, <1>4

\* The smaller of two numbers.
LEMMA MinTwo ==
    ASSUME NEW x \in Int, NEW y \in Int
    PROVE  Min({x, y}) = IF x <= y THEN x ELSE y
  BY DEF Min

(***************************************************************************)
(* Transfers.                                                              *)
(***************************************************************************)
\* A buffer of bytes of the set B that holds at most its capacity.
CbOK(c, B) ==
    /\ c \in [buf : [0 .. bufsz - 1 -> B], head : Nat, tail : Nat]
    /\ c.head - c.tail \in 0 .. bufsz

\* Where the oldest byte and the first free place are in the memory.
LEMMA HeadIndex ==
    ASSUME NEW B, NEW c, CbOK(c, B)
    PROVE  /\ c.head % bufsz \in 0 .. bufsz - 1 /\ c.tail % bufsz \in 0 .. bufsz - 1
           /\ c.head % bufsz = IF (c.tail % bufsz) + (c.head - c.tail) < bufsz
                               THEN (c.tail % bufsz) + (c.head - c.tail)
                               ELSE (c.tail % bufsz) + (c.head - c.tail) - bufsz
<1>1. PICK h \in Nat, t \in Nat, u \in 0 .. bufsz : h = c.head /\ t = c.tail /\ u = h - t
  BY DEF CbOK
<1>2. h = t + u
  BY <1>1, BufszAssumption
<1>3. h % bufsz = IF (t % bufsz) + u < bufsz THEN (t % bufsz) + u ELSE (t % bufsz) + u - bufsz
  BY <1>2, IndexPlus
<1> QED BY <1>1, <1>3, Index

\* Copyin takes as many bytes as there are and fit, puts them behind those that
\* are in the buffer, which stay, and its assertion holds; a copy that fails
\* leaves what is in the buffer as it is.
LEMMA CopyinEffect ==
    ASSUME NEW B, NEW c, CbOK(c, B), NEW src \in Seq(B), NEW fails \in BOOLEAN,
           NEW n, n = IF fails THEN 0 ELSE IF Len(src) <= Left(c) THEN Len(src) ELSE Left(c)
    PROVE  LET in == Copyin(c, src, fails) IN
           /\ in.n = n /\ ~in.wut
           /\ CbOK(in.cb, B) /\ in.cb.tail = c.tail /\ in.cb.head = c.head + n
           /\ \A k \in 1 .. c.head - c.tail :
                in.cb.buf[(c.tail + k - 1) % bufsz] = c.buf[(c.tail + k - 1) % bufsz]
           /\ \A k \in 1 .. n : in.cb.buf[(c.head + k - 1) % bufsz] = src[k]
<1> DEFINE hi == c.head % bufsz
           ti == c.tail % bufsz
           len == Len(src)
           n1 == IF ti <= hi THEN Min({bufsz - hi, len}) ELSE 0
           more == ti > hi \/ n1 = bufsz - hi
           at == IF ti <= hi THEN Second(c.head, n1) ELSE hi
           n2 == IF more /\ at <= ti THEN Min({ti - at, len - n1}) ELSE 0
           mem == [i \in 0 .. bufsz - 1 |->
                    IF i - hi \in 0 .. n1 - 1 THEN src[i - hi + 1]
                    ELSE IF ~fails /\ i - at \in 0 .. n2 - 1 THEN src[n1 + i - at + 1]
                    ELSE c.buf[i]]
           m == IF fails THEN 0 ELSE n1 + n2
           u == c.head - c.tail
           in == Copyin(c, src, fails)
<1>1. /\ hi \in 0 .. bufsz - 1 /\ ti \in 0 .. bufsz - 1 /\ u \in 0 .. bufsz
      /\ hi = IF ti + u < bufsz THEN ti + u ELSE ti + u - bufsz
  BY HeadIndex DEF CbOK
<1>2. in = IF Full(c) THEN [cb |-> c, n |-> 0, wut |-> FALSE]
           ELSE [cb |-> [c EXCEPT !.buf = mem, !.head = @ + m], n |-> m, wut |-> more /\ at > ti]
  BY DEF Copyin
<1>3. Left(c) = bufsz - u /\ (Full(c) <=> u = bufsz)
  BY DEF Left, Full
<1>4. /\ c.head \in Nat /\ c.tail \in Nat /\ len \in Nat /\ bufsz \in Nat \ {0}
  BY BufszAssumption DEF CbOK
<1>5. c.head = c.tail + u
  BY <1>4
<1>6. \A j \in 0 .. bufsz :
        /\ (c.head + j) % bufsz = IF hi + j < bufsz THEN hi + j ELSE hi + j - bufsz
        /\ (c.tail + j) % bufsz = IF ti + j < bufsz THEN ti + j ELSE ti + j - bufsz
  BY <1>4, IndexPlus
<1>7. n = IF fails THEN 0 ELSE IF len <= bufsz - u THEN len ELSE bufsz - u
  BY <1>3
<1> HIDE DEF hi, ti, u, len, in
<1>8. CASE Full(c)
  <2>1. n = 0
    BY <1>1, <1>3, <1>4, <1>7, <1>8
  <2>2. in.n = 0 /\ ~in.wut /\ in.cb = c
    BY <1>2, <1>8
  <2>3. c.head = c.head + n
    BY <2>1, <1>4
  <2>4. CbOK(in.cb, B) /\ in.cb.tail = c.tail /\ in.cb.head = c.head + n
    BY <2>2, <2>3
  <2>5. \A k \in 1 .. n : FALSE
    BY <2>1
  <2> QED BY <2>1, <2>2, <2>4, <2>5 DEF in
<1>9. CASE ~Full(c)
  <2>1. u < bufsz
    BY <1>1, <1>3, <1>9, <1>4
  <2>2. n1 = IF ti <= hi THEN (IF bufsz - hi <= len THEN bufsz - hi ELSE len) ELSE 0
    BY <1>1, <1>4, MinTwo
  <2> HIDE DEF n1
  <2>3. n1 \in 0 .. bufsz /\ n1 <= len /\ hi + n1 <= bufsz
    BY <1>1, <1>4, <2>2
  <2>4. at = IF ti <= hi THEN (IF hi + n1 < bufsz THEN hi + n1 ELSE hi + n1 - bufsz) ELSE hi
    BY <2>3, <1>6 DEF Second
  <2> HIDE DEF at
  <2>5. at \in 0 .. bufsz - 1
    BY <1>1, <1>4, <2>3, <2>4
  <2>6. n2 = IF more /\ at <= ti THEN (IF ti - at <= len - n1 THEN ti - at ELSE len - n1) ELSE 0
    BY <1>1, <1>4, <2>3, <2>5, MinTwo
  <2> HIDE DEF n2
  <2>7. /\ ~(more /\ at > ti) /\ n2 \in Nat
        /\ n1 + n2 = IF len <= bufsz - u THEN len ELSE bufsz - u
    BY <1>1, <1>4, <2>1, <2>2, <2>3, <2>4, <2>5, <2>6
  <2>8. m = n /\ m \in Nat /\ u + m <= bufsz /\ m <= len
    BY <1>1, <1>4, <1>7, <2>7, <2>1
  <2>9. in.n = m /\ ~in.wut /\ in.cb = [c EXCEPT !.buf = mem, !.head = @ + m]
    <3> HIDE DEF more, mem, m
    <3> QED BY <1>2, <1>9, <2>7
  <2>10. mem \in [0 .. bufsz - 1 -> B]
    <3> SUFFICES ASSUME NEW i \in 0 .. bufsz - 1 PROVE mem[i] \in B
      OBVIOUS
    <3>1. c.buf[i] \in B
      BY DEF CbOK
    <3>2. i - hi \in 0 .. n1 - 1 => src[i - hi + 1] \in B
      BY <1>1, <1>4, <2>3 DEF len
    <3>3. i - at \in 0 .. n2 - 1 => src[n1 + i - at + 1] \in B
      BY <1>1, <1>4, <2>3, <2>5, <2>7 DEF len
    <3> QED BY <3>1, <3>2, <3>3
  <2>11. in.cb.buf = mem /\ in.cb.head = c.head + m /\ in.cb.tail = c.tail /\ CbOK(in.cb, B)
    <3> HIDE DEF mem, m
    <3>1. in.cb.buf = mem /\ in.cb.head = c.head + m /\ in.cb.tail = c.tail
      BY <2>9 DEF CbOK
    <3>2. in.cb \in [buf : [0 .. bufsz - 1 -> B], head : Nat, tail : Nat]
      <4>1. c.head + m \in Nat
        BY <1>4, <2>8
      <4> QED BY <2>9, <2>10, <4>1 DEF CbOK
    <3>3. in.cb.head - in.cb.tail = u + m
      BY <3>1, <1>1, <1>4, <1>5, <2>8
    <3>4. u + m \in 0 .. bufsz
      BY <1>1, <1>4, <2>8
    <3> QED BY <3>1, <3>2, <3>3, <3>4 DEF CbOK
  <2>12. ASSUME NEW k \in 1 .. u
         PROVE  mem[(c.tail + k - 1) % bufsz] = c.buf[(c.tail + k - 1) % bufsz]
    <3>1. PICK j \in 0 .. bufsz : j = k - 1 /\ j < u
      BY <1>1, <1>4
    <3>2. c.tail + k - 1 = c.tail + j
      BY <1>4, <3>1
    <3>3. PICK i : i = (c.tail + j) % bufsz
      OBVIOUS
    <3>4. i = IF ti + j < bufsz THEN ti + j ELSE ti + j - bufsz
      BY <1>6, <3>3
    <3>5. i \in 0 .. bufsz - 1 /\ ~(i - hi \in 0 .. n1 - 1) /\ ~(i - at \in 0 .. n2 - 1)
      BY <1>1, <1>4, <2>1, <2>2, <2>4, <2>6, <2>7, <3>1, <3>4
    <3>6. mem[i] = c.buf[i]
      BY <3>5
    <3> QED BY <3>2, <3>3, <3>6
  <2>13. ASSUME NEW k \in 1 .. m
         PROVE  mem[(c.head + k - 1) % bufsz] = src[k]
    <3>1. PICK j \in 0 .. bufsz : j = k - 1 /\ j < m
      BY <1>1, <1>4, <2>8
    <3>2. c.head + k - 1 = c.head + j
      BY <1>4, <3>1
    <3>3. PICK i : i = (c.head + j) % bufsz
      OBVIOUS
    <3>4. i = IF hi + j < bufsz THEN hi + j ELSE hi + j - bufsz
      BY <1>6, <3>3
    <3>5. ~fails /\ m = n1 + n2
      BY <2>8
    <3>6. i \in 0 .. bufsz - 1
      BY <1>1, <1>4, <2>1, <3>1, <3>4
    <3>7. CASE j < n1
      <4>1. i - hi \in 0 .. n1 - 1 /\ i - hi + 1 = k
        BY <1>1, <1>4, <2>2, <2>3, <3>1, <3>4, <3>7
      <4> QED BY <4>1, <3>2, <3>3, <3>6
    <3>8. CASE ~(j < n1)
      <4>1. ~(i - hi \in 0 .. n1 - 1) /\ i - at \in 0 .. n2 - 1 /\ n1 + i - at + 1 = k
        BY <1>1, <1>4, <2>1, <2>2, <2>3, <2>4, <2>5, <2>6, <2>7, <3>1, <3>4, <3>5, <3>8
      <4> QED BY <4>1, <3>2, <3>3, <3>5, <3>6
    <3> QED BY <3>7, <3>8
  <2> HIDE DEF mem, m
  <2>14. \A k \in 1 .. u : in.cb.buf[(c.tail + k - 1) % bufsz] = c.buf[(c.tail + k - 1) % bufsz]
    BY <2>11, <2>12
  <2>15. \A k \in 1 .. n : in.cb.buf[(c.head + k - 1) % bufsz] = src[k]
    BY <2>8, <2>11, <2>13
  <2> QED BY <2>8, <2>9, <2>11, <2>14, <2>15 DEF u, in
<1> QED BY <1>8, <1>9

\* Copyout takes the oldest bytes, as many as there are and as have room, and
\* its assertion holds.
LEMMA CopyoutEffect ==
    ASSUME NEW B, NEW c, CbOK(c, B), NEW room \in Nat,
           NEW n, n = IF room <= c.head - c.tail THEN room ELSE c.head - c.tail
    PROVE  LET out == Copyout(c, room) IN
           /\ ~out.wut /\ n \in 0 .. c.head - c.tail
           /\ CbOK(out.cb, B) /\ out.cb.buf = c.buf
           /\ out.cb.tail = c.tail + n /\ out.cb.head = c.head
           /\ out.bytes \in Seq(B) /\ Len(out.bytes) = n
           /\ \A k \in 1 .. n : out.bytes[k] = c.buf[(c.tail + k - 1) % bufsz]
<1> DEFINE hi == c.head % bufsz
           ti == c.tail % bufsz
           len1 == bufsz - ti
           n1 == IF hi <= ti THEN Min({len1, room}) ELSE 0
           more == hi > ti \/ (n1 = len1 /\ n1 # 0)
           at == IF hi <= ti THEN Second(c.tail, n1) ELSE ti
           n2 == IF more /\ at <= hi THEN Min({hi - at, room - n1}) ELSE 0
           bytes == [k \in 1 .. n1 + n2 |->
                        IF k <= n1 THEN c.buf[ti + k - 1] ELSE c.buf[at + k - n1 - 1]]
           u == c.head - c.tail
           out == Copyout(c, room)
<1>1. /\ hi \in 0 .. bufsz - 1 /\ ti \in 0 .. bufsz - 1 /\ u \in 0 .. bufsz
      /\ hi = IF ti + u < bufsz THEN ti + u ELSE ti + u - bufsz
  BY HeadIndex DEF CbOK
<1>2. out = IF Empty(c) THEN [cb |-> c, bytes |-> << >>, wut |-> FALSE]
            ELSE [cb |-> [c EXCEPT !.tail = @ + n1 + n2], bytes |-> bytes, wut |-> more /\ at > hi]
  BY DEF Copyout, Copyout_n
<1>3. c.head \in Nat /\ c.tail \in Nat /\ bufsz \in Nat \ {0}
  BY BufszAssumption DEF CbOK
<1>4. (Empty(c) <=> u = 0) /\ c.head = c.tail + u
  BY <1>3 DEF Empty
<1>5. \A j \in 0 .. bufsz :
        (c.tail + j) % bufsz = IF ti + j < bufsz THEN ti + j ELSE ti + j - bufsz
  BY <1>3, IndexPlus
<1>6. n = (IF room <= u THEN room ELSE u)
  OBVIOUS
<1> HIDE DEF hi, ti, u, out
<1>7. n \in 0 .. u
  BY <1>1, <1>3, <1>6
<1>8. CASE Empty(c)
  <2>1. n = 0
    BY <1>1, <1>4, <1>6, <1>8
  <2>2. out.bytes = << >> /\ ~out.wut /\ out.cb = c
    BY <1>2, <1>8
  <2>3. c.tail = c.tail + n
    BY <2>1, <1>3
  <2>4. /\ CbOK(out.cb, B) /\ out.cb.buf = c.buf
        /\ out.cb.tail = c.tail + n /\ out.cb.head = c.head
    BY <2>2, <2>3
  <2>5. \A k \in 1 .. n : FALSE
    BY <2>1
  <2>6. out.bytes \in Seq(B) /\ Len(out.bytes) = n
    BY <2>1, <2>2
  <2> QED BY <1>7, <2>2, <2>4, <2>5, <2>6 DEF out, u
<1>9. CASE ~Empty(c)
  <2>1. u > 0
    BY <1>1, <1>3, <1>4, <1>9
  <2>2. n1 = IF hi <= ti THEN (IF bufsz - ti <= room THEN bufsz - ti ELSE room) ELSE 0
    BY <1>1, <1>3, MinTwo
  <2> HIDE DEF n1
  <2>3. n1 \in 0 .. bufsz /\ n1 <= room /\ ti + n1 <= bufsz
    BY <1>1, <1>3, <2>2
  <2>4. at = IF hi <= ti THEN (IF ti + n1 < bufsz THEN ti + n1 ELSE ti + n1 - bufsz) ELSE ti
    BY <2>3, <1>5 DEF Second
  <2> HIDE DEF at
  <2>5. at \in 0 .. bufsz - 1
    BY <1>1, <1>3, <2>3, <2>4
  <2>6. n2 = IF more /\ at <= hi THEN (IF hi - at <= room - n1 THEN hi - at ELSE room - n1) ELSE 0
    BY <1>1, <1>3, <2>3, <2>5, MinTwo
  <2> HIDE DEF n2
  <2>7. ~(more /\ at > hi) /\ n2 \in Nat /\ n1 + n2 = n
    BY <1>1, <1>3, <1>6, <2>1, <2>2, <2>3, <2>4, <2>5, <2>6
  <2>8. out.bytes = bytes /\ ~out.wut /\ out.cb = [c EXCEPT !.tail = @ + n1 + n2]
    <3> HIDE DEF more, bytes
    <3> QED BY <1>2, <1>9, <2>7
  <2>9. c.tail + n1 + n2 = c.tail + n
    BY <1>3, <2>3, <2>7
  <2>10. ASSUME NEW k \in 1 .. n
         PROVE  /\ bytes[k] = c.buf[(c.tail + k - 1) % bufsz]
                /\ bytes[k] \in B
    <3>1. PICK j \in 0 .. bufsz : j = k - 1 /\ j < n
      BY <1>1, <1>3, <1>7
    <3>2. c.tail + k - 1 = c.tail + j
      BY <1>3, <3>1
    <3>3. PICK i : i = (c.tail + j) % bufsz
      OBVIOUS
    <3>4. i = IF ti + j < bufsz THEN ti + j ELSE ti + j - bufsz
      BY <1>5, <3>3
    <3>5. i \in 0 .. bufsz - 1
      BY <1>1, <1>3, <1>7, <3>1, <3>4
    <3>6. k \in 1 .. n1 + n2
      BY <2>7
    <3>7. CASE k <= n1
      <4>1. ti + k - 1 = i
        BY <1>1, <1>3, <2>2, <2>3, <3>1, <3>4, <3>7
      <4>2. bytes[k] = c.buf[i]
        BY <3>6, <3>7, <4>1
      <4> QED BY <4>2, <3>2, <3>3, <3>5 DEF CbOK
    <3>8. CASE ~(k <= n1)
      <4>1. at + k - n1 - 1 = i
        BY <1>1, <1>3, <1>7, <2>1, <2>2, <2>3, <2>4, <2>5, <2>6, <2>7, <3>1, <3>4, <3>8
      <4>2. bytes[k] = c.buf[i]
        BY <3>6, <3>8, <4>1
      <4> QED BY <4>2, <3>2, <3>3, <3>5 DEF CbOK
    <3> QED BY <3>7, <3>8
  <2>11. bytes \in Seq(B) /\ Len(bytes) = n
    <3>1. bytes \in [1 .. n -> B]
      BY <2>7, <2>10
    <3>2. n \in Nat
      BY <1>1, <1>7
    <3> HIDE DEF bytes
    <3> QED BY <3>1, <3>2
  <2> HIDE DEF bytes
  <2>12. /\ CbOK(out.cb, B) /\ out.cb.buf = c.buf
         /\ out.cb.tail = c.tail + n /\ out.cb.head = c.head
    <3>1. out.cb.buf = c.buf /\ out.cb.tail = c.tail + n /\ out.cb.head = c.head
      BY <2>8, <2>9 DEF CbOK
    <3>2. c.tail + n \in Nat
      BY <1>1, <1>3, <1>7
    <3>3. out.cb \in [buf : [0 .. bufsz - 1 -> B], head : Nat, tail : Nat]
      BY <2>8, <2>9, <3>2 DEF CbOK
    <3>4. out.cb.head - out.cb.tail \in 0 .. bufsz
      BY <3>1, <1>1, <1>3, <1>4, <1>7
    <3> QED BY <3>1, <3>3, <3>4 DEF CbOK
  <2> QED BY <1>7, <2>8, <2>10, <2>11, <2>12 DEF out, u
<1> QED BY <1>8, <1>9

(***************************************************************************)
(* The inductive invariant.                                                *)
(***************************************************************************)
\* Stream, byte by byte.
StreamInv ==
    /\ panic = "none"
    /\ ~closed => /\ Len(sent) = Len(rcvd) + (cb.head - cb.tail)
                  /\ \A k \in 1 .. Len(rcvd) : sent[k] = rcvd[k]
                  /\ \A k \in 1 .. cb.head - cb.tail :
                        sent[Len(rcvd) + k] = cb.buf[(cb.tail + k - 1) % bufsz]

\* A thread in a write has a call of its own that has not ended; a call with
\* one chunk has written nothing yet.
CallOK(t) ==
    /\ thr[t].pc \in {"write", "asleep"} /\ t \in Writers
    /\ thr[t].id \in DOMAIN calls /\ calls[thr[t].id].done = "no"
    /\ thr[t].off < calls[thr[t].id].size
    /\ calls[thr[t].id].size <= bufsz => thr[t].off = 0
    /\ \A u \in Threads : thr[u].id = thr[t].id => u = t
CallsInv ==
    \A t \in Threads :
        /\ thr[t].id # 0 => CallOK(t)
        /\ thr[t].id = 0 => thr[t].off = 0
        /\ thr[t].pc = "write" => thr[t].id # 0

\* A sleeper is in one queue, once, and has not been killed; readers that read
\* sleep in one, writers that write in the other.
SleeperOK(t, e) ==
    /\ thr[t].pc = "asleep" /\ ~thr[t].killed
    /\ IF e = "r" THEN thr[t].id = 0 /\ t \in Readers ELSE thr[t].id # 0
SleepInv ==
    \A e \in Ends :
        /\ \A k \in DOMAIN sleep[e] : SleeperOK(sleep[e][k], e)
        /\ \A j, k \in DOMAIN sleep[e] : sleep[e][j] = sleep[e][k] => j = k

\* What of a write call with one chunk is in the stream.
CallPlaces(i) ==
    IF calls[i].done = "ok"
    THEN \E b \in Nat :
            /\ b + calls[i].size <= Len(sent)
            /\ \A k \in DOMAIN sent : sent[k][1] = i <=> k \in b + 1 .. b + calls[i].size
    ELSE \A k \in DOMAIN sent : sent[k][1] # i
PlacesInv ==
    /\ \A k \in DOMAIN sent : sent[k][1] \in DOMAIN calls
    /\ \A i \in DOMAIN calls : calls[i].size <= bufsz => CallPlaces(i)

\* The life of the pipe.
OpenInv ==
    /\ closed <=> open["r"] = 0 /\ open["w"] = 0
    /\ closed => ~haspage /\ lent = 0 /\ sleep["r"] = << >> /\ sleep["w"] = << >>
    /\ ~closed => lent = 1

\* A slot with a channel belongs to a poll under way, which is in the mask, and
\* has nothing to report, unless it was notified or its descriptor is gone.
Blocked(e) == IF e = "r" THEN Empty(cb) ELSE Full(cb)
SlotOK(i) ==
    LET t == slots[i].ch IN
    t # NoThread =>
        /\ thr[t].pc \in {"poll", "pollwait"} /\ slots[i].events = Events(thr[t].end)
        /\ thr[t].pc = "pollwait" /\ open[thr[t].end] > 0 /\ ~thr[t].notif =>
                thr[t].end \in allmask /\ Blocked(thr[t].end)
PollInv == \A i \in 1 .. NSlots : SlotOK(i)

IInv ==
    /\ TypeOK /\ StreamInv /\ CallsInv /\ SleepInv /\ PlacesInv /\ OpenInv /\ PollInv

\* What Stream says.
LEMMA StreamFollows ==
    ASSUME TypeOK, StreamInv
    PROVE  Stream
<1>1. ASSUME ~closed PROVE rcvd \o Contents(cb) = sent
  <2> DEFINE c == Contents(cb)
             u == cb.head - cb.tail
  <2>1. u \in Nat /\ u \in 0 .. bufsz /\ cb.tail \in Nat
    BY BufszAssumption DEF TypeOK, Cbs
  <2>2. c = [k \in 1 .. u |-> cb.buf[(cb.tail + k - 1) % bufsz]]
    BY DEF Contents
  <2>3. \A k \in 1 .. u : cb.buf[(cb.tail + k - 1) % bufsz] \in Byte
    <3> SUFFICES ASSUME NEW k \in 1 .. u PROVE cb.buf[(cb.tail + k - 1) % bufsz] \in Byte
      OBVIOUS
    <3>1. cb.tail + k - 1 \in Int
      BY <2>1
    <3> QED BY <3>1, Index DEF TypeOK, Cbs
  <2> HIDE DEF u
  <2>4. c \in Seq(Byte) /\ Len(c) = u /\ \A k \in 1 .. u : c[k] = cb.buf[(cb.tail + k - 1) % bufsz]
    <3>1. c \in [1 .. u -> Byte]
      BY <2>2, <2>3
    <3>2. \A k \in 1 .. u : c[k] = cb.buf[(cb.tail + k - 1) % bufsz]
      BY <2>2
    <3> HIDE DEF c
    <3> QED BY <2>1, <3>1, <3>2
  <2> HIDE DEF c
  <2>5. /\ Len(sent) = Len(rcvd) + u
        /\ \A k \in 1 .. Len(rcvd) : sent[k] = rcvd[k]
        /\ \A k \in 1 .. u : sent[Len(rcvd) + k] = c[k]
    BY <1>1, <2>4 DEF StreamInv, u
  <2>6. sent \in Seq(Byte) /\ rcvd \in Seq(Byte)
    BY DEF TypeOK
  <2>7. rcvd \o c \in Seq(Byte) /\ Len(rcvd \o c) = Len(sent)
    BY <2>4, <2>5, <2>6, ConcatProperties
  <2>8. \A k \in 1 .. Len(sent) : (rcvd \o c)[k] = sent[k]
    <3> SUFFICES ASSUME NEW k \in 1 .. Len(sent) PROVE (rcvd \o c)[k] = sent[k]
      OBVIOUS
    <3>1. Len(rcvd) \in Nat /\ k \in 1 .. Len(rcvd) + u
      BY <2>5, <2>6
    <3>2. (rcvd \o c)[k] = IF k <= Len(rcvd) THEN rcvd[k] ELSE c[k - Len(rcvd)]
      BY <3>1, <2>4, <2>6, ConcatProperties
    <3>3. CASE k <= Len(rcvd)
      <4>1. k \in 1 .. Len(rcvd)
        BY <3>1, <3>3, <2>1
      <4> QED BY <4>1, <3>2, <3>3, <2>5
    <3>4. CASE ~(k <= Len(rcvd))
      <4>1. PICK j \in 1 .. u : j = k - Len(rcvd)
        BY <2>1, <3>1, <3>4
      <4>2. k = Len(rcvd) + j
        BY <2>1, <3>1, <4>1
      <4> QED BY <4>1, <4>2, <3>2, <3>4, <2>5
    <3> QED BY <3>3, <3>4
  <2>9. PICK s : s \in Seq(Byte) /\ s = rcvd \o c
    BY <2>7
  <2>10. Len(s) = Len(sent) /\ \A k \in 1 .. Len(s) : s[k] = sent[k]
    BY <2>7, <2>8, <2>9
  <2>11. s = sent
    BY ONLY <2>9, <2>6, <2>10, SeqEqual
  <2> QED BY <2>9, <2>11 DEF c
<1> QED BY <1>1 DEF Stream, StreamInv

(***************************************************************************)
(* How a step acts on the parts of the invariant.  A step has an actor t;  *)
(* it may wake up other threads, and notify them.                          *)
(***************************************************************************)
\* What a step does to a thread other than its actor.
Nudged(u) ==
    /\ thr'[u] \in Thrs
    /\ thr'[u].id = thr[u].id /\ thr'[u].off = thr[u].off /\ thr'[u].end = thr[u].end
    /\ thr'[u].noblk = thr[u].noblk /\ thr'[u].killed = thr[u].killed
    /\ thr[u].notif => thr'[u].notif
    /\ \/ thr'[u].pc = thr[u].pc
       \/ thr[u].pc = "asleep" /\ thr[u].id = 0 /\ thr'[u].pc = "read"
       \/ thr[u].pc = "asleep" /\ thr[u].id # 0 /\ thr'[u].pc = "write"

\* The thread stays where it is.
Stays(u) == thr'[u].pc = thr[u].pc /\ thr'[u].id = thr[u].id /\ thr'[u].killed = thr[u].killed

LEMMA Unmoved ==
    ASSUME TypeOK, NEW u \in Threads, thr'[u] = thr[u]
    PROVE  Nudged(u) /\ Stays(u)
  BY DEF TypeOK, Nudged, Stays

\* A step that changes its actor only.
LEMMA ThrExcept ==
    ASSUME TypeOK, NEW t \in Threads, NEW r \in Thrs, thr' = [thr EXCEPT ![t] = r]
    PROVE  /\ thr' \in [Threads -> Thrs] /\ thr'[t] = r
           /\ \A u \in Threads \ {t} : thr'[u] = thr[u] /\ Nudged(u) /\ Stays(u)
<1>1. thr' \in [Threads -> Thrs] /\ thr'[t] = r /\ \A u \in Threads \ {t} : thr'[u] = thr[u]
  BY DEF TypeOK
<1> QED BY <1>1, Unmoved

\* What the actor's call must be after the step.
OwnCall(t) ==
    /\ thr'[t].id # 0 =>
        /\ thr'[t].pc \in {"write", "asleep"} /\ t \in Writers
        /\ thr'[t].id \in DOMAIN calls' /\ calls'[thr'[t].id].done = "no"
        /\ thr'[t].off < calls'[thr'[t].id].size
        /\ calls'[thr'[t].id].size <= bufsz => thr'[t].off = 0
        /\ \A u \in Threads \ {t} : thr[u].id # thr'[t].id
    /\ thr'[t].id = 0 => thr'[t].off = 0
    /\ thr'[t].pc = "write" => thr'[t].id # 0

\* The calls of others stay as they are.
OtherCalls(t) ==
    \A u \in Threads \ {t} : thr[u].id # 0 =>
        thr[u].id \in DOMAIN calls' /\ calls'[thr[u].id] = calls[thr[u].id]

LEMMA CallsStep ==
    ASSUME CallsInv, NEW t \in Threads, \A u \in Threads \ {t} : Nudged(u), OwnCall(t), OtherCalls(t)
    PROVE  CallsInv'
<1> SUFFICES ASSUME NEW u \in Threads
             PROVE  /\ thr'[u].id # 0 => CallOK(u)'
                    /\ thr'[u].id = 0 => thr'[u].off = 0
                    /\ thr'[u].pc = "write" => thr'[u].id # 0
  BY DEF CallsInv
<1>1. CASE u = t
  <2>1. thr'[u].id # 0 => \A x \in Threads : thr'[x].id = thr'[u].id => x = u
    BY <1>1 DEF OwnCall, Nudged
  <2> QED BY <1>1, <2>1 DEF OwnCall, CallOK
<1>2. CASE u # t
  <2>1. Nudged(u)
    BY <1>2
  <2>2. thr'[u].id = 0 => thr'[u].off = 0
    BY <2>1 DEF CallsInv, Nudged
  <2>3. thr'[u].pc = "write" => thr'[u].id # 0
    BY <2>1 DEF CallsInv, Nudged
  <2>4. ASSUME thr'[u].id # 0 PROVE CallOK(u)'
    <3>1. thr[u].id # 0 /\ CallOK(u)
      BY <2>1, <2>4 DEF CallsInv, Nudged
    <3>2. thr[u].id \in DOMAIN calls' /\ calls'[thr[u].id] = calls[thr[u].id]
      BY <1>2, <3>1 DEF OtherCalls
    <3>3. thr'[u].pc \in {"write", "asleep"} /\ thr'[u].id = thr[u].id /\ thr'[u].off = thr[u].off
      BY <2>1, <3>1 DEF Nudged, CallOK
    <3>4. ASSUME NEW x \in Threads, thr'[x].id = thr'[u].id PROVE x = u
      <4>1. CASE x = t
        BY <1>2, <2>4, <3>3, <3>4, <4>1 DEF OwnCall
      <4>2. CASE x # t
        BY <3>1, <3>3, <3>4, <4>2 DEF Nudged, CallOK
      <4> QED BY <4>1, <4>2
    <3> QED BY <3>1, <3>2, <3>3, <3>4 DEF CallOK
  <2> QED BY <2>2, <2>3, <2>4
<1> QED BY <1>1, <1>2

\* The queue of an end.
QueueOK(e) ==
    /\ \A k \in DOMAIN sleep[e] : SleeperOK(sleep[e][k], e)
    /\ \A j, k \in DOMAIN sleep[e] : sleep[e][j] = sleep[e][k] => j = k

LEMMA QueueEmpty ==
    ASSUME NEW e \in Ends, sleep'[e] = << >>
    PROVE  QueueOK(e)'
  BY DEF QueueOK

LEMMA QueueSame ==
    ASSUME NEW e \in Ends, QueueOK(e), sleep'[e] = sleep[e], \A u \in Asleep(e) : Stays(u)
    PROVE  QueueOK(e)'
<1>1. ASSUME NEW k \in DOMAIN sleep'[e] PROVE SleeperOK(sleep[e][k], e)'
  <2>1. k \in DOMAIN sleep[e] /\ SleeperOK(sleep[e][k], e) /\ Stays(sleep[e][k])
    BY <1>1 DEF QueueOK, Asleep
  <2> QED BY <2>1 DEF SleeperOK, Stays
<1> QED BY <1>1 DEF QueueOK

LEMMA QueueAppend ==
    ASSUME TypeOK, NEW e \in Ends, QueueOK(e), NEW t \in Threads, sleep'[e] = Append(sleep[e], t),
           \A u \in Asleep(e) : Stays(u), SleeperOK(t, e)', thr[t].pc # "asleep"
    PROVE  QueueOK(e)'
<1>1. PICK q \in Seq(Threads) : q = sleep[e]
  BY DEF TypeOK
<1>2. /\ DOMAIN sleep'[e] = 1 .. Len(q) + 1 /\ Len(q) \in Nat /\ DOMAIN q = 1 .. Len(q)
      /\ sleep'[e][Len(q) + 1] = t /\ \A k \in 1 .. Len(q) : sleep'[e][k] = q[k]
  BY <1>1
<1>3. \A k \in 1 .. Len(q) : SleeperOK(q[k], e) /\ Stays(q[k]) /\ q[k] # t
  BY <1>1, <1>2 DEF QueueOK, Asleep, SleeperOK
<1>4. ASSUME NEW k \in 1 .. Len(q) + 1 PROVE SleeperOK(sleep[e][k], e)'
  <2>1. CASE k = Len(q) + 1
    BY <1>2, <2>1 DEF SleeperOK
  <2>2. CASE k \in 1 .. Len(q)
    <3>1. sleep'[e][k] = q[k] /\ SleeperOK(q[k], e) /\ Stays(q[k])
      BY <1>2, <1>3, <2>2
    <3> QED BY <3>1 DEF SleeperOK, Stays
  <2> QED BY <1>2, <2>1, <2>2
<1>5. ASSUME NEW j \in 1 .. Len(q) + 1, NEW k \in 1 .. Len(q) + 1, sleep'[e][j] = sleep'[e][k]
      PROVE  j = k
  <2>1. CASE j \in 1 .. Len(q) /\ k \in 1 .. Len(q)
    <3>1. q[j] = q[k]
      BY <1>2, <1>5, <2>1
    <3> QED BY <1>1, <1>2, <2>1, <3>1 DEF QueueOK
  <2>2. CASE j \notin 1 .. Len(q) \/ k \notin 1 .. Len(q)
    BY <1>2, <1>3, <1>5, <2>2
  <2> QED BY <2>1, <2>2
<1> QED BY <1>2, <1>4, <1>5 DEF QueueOK

\* The first of the queue, if there is one, wakes up.
LEMMA QueueSignal ==
    ASSUME TypeOK, NEW e \in Ends, QueueOK(e), sleep'[e] = Without(sleep[e], Signal(e)),
           \A u \in Asleep(e) \ Signal(e) : Stays(u)
    PROVE  QueueOK(e)' /\ sleep'[e] \in Seq(Threads) /\ Signal(e) \subseteq Asleep(e)
<1>1. PICK q \in Seq(Threads) : q = sleep[e]
  BY DEF TypeOK
<1>2. CASE q = << >>
  <2>1. Signal(e) = {} /\ sleep'[e] = << >>
    BY <1>1, <1>2 DEF Signal, Without
  <2> QED BY <2>1, QueueEmpty, EmptySeq
<1>3. CASE q # << >>
  <2>1. Signal(e) = {q[1]} /\ sleep'[e] = Tail(q)
    BY <1>1, <1>3 DEF Signal, Without
  <2>2. PICK s : s = Tail(q)
    OBVIOUS
  <2>3. /\ s \in Seq(Threads) /\ DOMAIN s = 1 .. Len(q) - 1 /\ Len(q) \in Nat \ {0} /\ DOMAIN q = 1 .. Len(q)
        /\ \A k \in 1 .. Len(q) - 1 : s[k] = q[k + 1]
    BY <1>3, <2>2, HeadTailProperties, LenProperties, EmptySeq
  <2>4. ASSUME NEW j \in 1 .. Len(q), NEW k \in 1 .. Len(q), q[j] = q[k] PROVE j = k
    BY <1>1, <2>3, <2>4 DEF QueueOK
  <2>5. ASSUME NEW k \in 1 .. Len(q) - 1 PROVE SleeperOK(s[k], e)'
    <3>1. k + 1 \in 1 .. Len(q) /\ 1 \in 1 .. Len(q) /\ k + 1 # 1
      BY <2>3
    <3>2. q[k + 1] # q[1]
      BY <2>4, <3>1
    <3>3. SleeperOK(q[k + 1], e) /\ Stays(q[k + 1])
      BY <1>1, <2>1, <2>3, <3>1, <3>2 DEF QueueOK, Asleep
    <3> QED BY <2>3, <3>3 DEF SleeperOK, Stays
  <2>6. ASSUME NEW j \in 1 .. Len(q) - 1, NEW k \in 1 .. Len(q) - 1, s[j] = s[k] PROVE j = k
    <3>1. j + 1 \in 1 .. Len(q) /\ k + 1 \in 1 .. Len(q) /\ q[j + 1] = q[k + 1]
      BY <2>3, <2>6
    <3>2. j + 1 = k + 1
      BY <2>4, <3>1
    <3> QED BY <3>2
  <2>7. q[1] \in Asleep(e)
    BY <1>1, <2>3 DEF Asleep
  <2>8. sleep'[e] = s
    BY <2>1, <2>2
  <2> QED BY <2>1, <2>3, <2>5, <2>6, <2>7, <2>8 DEF QueueOK
<1> QED BY <1>2, <1>3

LEMMA QueuesSleep == SleepInv <=> \A e \in Ends : QueueOK(e)
  BY DEF SleepInv, QueueOK

(***************************************************************************)
(* The stream and the calls.                                               *)
(***************************************************************************)
LEMMA CallTypes ==
    ASSUME TypeOK
    PROVE  /\ Len(calls) \in Nat /\ DOMAIN calls = 1 .. Len(calls)
           /\ \A i \in DOMAIN calls : calls[i] \in Calls /\ calls[i].size \in Nat \ {0}
<1>1. calls \in Seq(Calls)
  BY DEF TypeOK
<1>2. /\ Len(calls) \in Nat /\ DOMAIN calls = 1 .. Len(calls)
      /\ \A i \in DOMAIN calls : calls[i] \in Calls
  BY <1>1, LenProperties, ElementOfSeq
<1>3. \A c \in Calls : c.size \in Nat \ {0}
  BY PipeAssumption DEF Calls
<1> QED BY <1>2, <1>3

LEMMA SentTypes ==
    ASSUME TypeOK
    PROVE  /\ Len(sent) \in Nat /\ DOMAIN sent = 1 .. Len(sent)
           /\ Len(rcvd) \in Nat /\ DOMAIN rcvd = 1 .. Len(rcvd)
  BY DEF TypeOK

\* A call of its own ends.
LEMMA CallDone ==
    ASSUME TypeOK, NEW i \in DOMAIN calls, NEW d \in {"ok", "err"},
           calls' = [calls EXCEPT ![i].done = d]
    PROVE  /\ calls' \in Seq(Calls) /\ DOMAIN calls' = DOMAIN calls
           /\ calls'[i].done = d /\ calls'[i].size = calls[i].size
           /\ \A j \in DOMAIN calls \ {i} : calls'[j] = calls[j]
<1>1. PICK c \in Calls : c = [calls[i] EXCEPT !.done = d]
  BY CallTypes DEF Calls
<1>2. c.done = d /\ c.size = calls[i].size
  BY <1>1, CallTypes DEF Calls
<1>3. calls \in Seq(Calls) /\ i \in 1 .. Len(calls)
  BY CallTypes DEF TypeOK
<1>4. calls' = [calls EXCEPT ![i] = c]
  BY <1>1
<1> QED BY <1>2, <1>3, <1>4, ExceptSeq, LenProperties

LEMMA PlacesErr ==
    ASSUME TypeOK, PlacesInv, NEW i \in DOMAIN calls, calls[i].done = "no",
           calls' = [calls EXCEPT ![i].done = "err"], sent' = sent
    PROVE  PlacesInv'
<1>1. /\ DOMAIN calls' = DOMAIN calls
      /\ calls'[i].done = "err" /\ calls'[i].size = calls[i].size
      /\ \A j \in DOMAIN calls \ {i} : calls'[j] = calls[j]
  BY CallDone
<1>2. \A k \in DOMAIN sent' : sent'[k][1] \in DOMAIN calls'
  BY <1>1 DEF PlacesInv
<1>3. ASSUME NEW j \in DOMAIN calls', calls'[j].size <= bufsz PROVE CallPlaces(j)'
  <2>1. j \in DOMAIN calls /\ calls[j].size <= bufsz /\ CallPlaces(j)
    BY <1>1, <1>3 DEF PlacesInv
  <2>2. CASE j = i
    BY <1>1, <2>1, <2>2 DEF CallPlaces
  <2>3. CASE j # i
    BY <1>1, <2>1, <2>3 DEF CallPlaces
  <2> QED BY <2>2, <2>3
<1> QED BY <1>2, <1>3 DEF PlacesInv

LEMMA PlacesNew ==
    ASSUME TypeOK, PlacesInv, NEW sz \in WriteSizes,
           calls' = Append(calls, [size |-> sz, done |-> "no"]), sent' = sent
    PROVE  /\ PlacesInv' /\ calls' \in Seq(Calls) /\ DOMAIN calls' = 1 .. Len(calls) + 1
           /\ calls'[Len(calls) + 1] = [size |-> sz, done |-> "no"]
           /\ \A j \in DOMAIN calls : calls'[j] = calls[j]
<1>1. PICK c \in Calls : c = [size |-> sz, done |-> "no"]
  BY DEF Calls
<1>2. calls' = Append(calls, c)
  BY <1>1
<1>3. /\ calls' \in Seq(Calls) /\ DOMAIN calls' = 1 .. Len(calls) + 1
      /\ calls'[Len(calls) + 1] = c /\ \A j \in DOMAIN calls : calls'[j] = calls[j]
  BY <1>2 DEF TypeOK
<1>4. Len(calls) \in Nat /\ DOMAIN calls = 1 .. Len(calls)
  BY CallTypes
<1>5. \A k \in DOMAIN sent' : sent'[k][1] \in DOMAIN calls'
  BY <1>3, <1>4 DEF PlacesInv
<1>6. ASSUME NEW j \in DOMAIN calls', calls'[j].size <= bufsz PROVE CallPlaces(j)'
  <2>1. CASE j = Len(calls) + 1
    <3>1. calls'[j].done = "no" /\ j \notin DOMAIN calls
      BY <1>1, <1>3, <1>4, <2>1
    <3>2. \A k \in DOMAIN sent : sent[k][1] # j
      BY <3>1 DEF PlacesInv
    <3> QED BY <3>1, <3>2 DEF CallPlaces
  <2>2. CASE j # Len(calls) + 1
    <3>1. j \in DOMAIN calls /\ calls'[j] = calls[j]
      BY <1>3, <1>4, <2>2
    <3>2. CallPlaces(j)
      BY <1>6, <3>1 DEF PlacesInv
    <3> QED BY <3>1, <3>2 DEF CallPlaces
  <2> QED BY <2>1, <2>2
<1> QED BY <1>1, <1>3, <1>5, <1>6 DEF PlacesInv

\* Bytes of call i go into the stream; a call with one chunk ends with that.
LEMMA PlacesCopy ==
    ASSUME TypeOK, PlacesInv, NEW i \in DOMAIN calls, calls[i].done = "no",
           NEW s \in Seq(Byte), \A k \in 1 .. Len(s) : s[k][1] = i,
           NEW ended \in BOOLEAN, calls[i].size <= bufsz => ended /\ Len(s) = calls[i].size,
           calls' = IF ended THEN [calls EXCEPT ![i].done = "ok"] ELSE calls,
           sent' = sent \o s
    PROVE  PlacesInv'
<1>1. /\ DOMAIN calls' = DOMAIN calls /\ calls'[i].size = calls[i].size
      /\ calls'[i].done = (IF ended THEN "ok" ELSE "no")
      /\ \A j \in DOMAIN calls \ {i} : calls'[j] = calls[j]
  <2>1. CASE ended
    <3>1. calls' = [calls EXCEPT ![i].done = "ok"] /\ "ok" \in {"ok", "err"}
      BY <2>1
    <3> QED BY <2>1, <3>1, CallDone
  <2>2. CASE ~ended
    BY <2>2
  <2> QED BY <2>1, <2>2
<1>2. /\ Len(sent) \in Nat /\ DOMAIN sent = 1 .. Len(sent) /\ Len(s) \in Nat
  BY SentTypes
<1>3. /\ DOMAIN sent' = 1 .. Len(sent) + Len(s) /\ Len(sent') = Len(sent) + Len(s)
      /\ \A k \in 1 .. Len(sent) + Len(s) :
            sent'[k] = IF k <= Len(sent) THEN sent[k] ELSE s[k - Len(sent)]
  BY ConcatProperties, LenProperties DEF TypeOK
<1>4. ASSUME NEW k \in DOMAIN sent'
      PROVE  IF k \in DOMAIN sent THEN sent'[k] = sent[k] ELSE sent'[k][1] = i
  <2>1. CASE k <= Len(sent)
    BY <1>2, <1>3, <2>1
  <2>2. CASE ~(k <= Len(sent))
    <3>1. k - Len(sent) \in 1 .. Len(s)
      BY <1>2, <1>3, <2>2
    <3>2. sent'[k] = s[k - Len(sent)]
      BY <1>3, <2>2
    <3>3. k \notin DOMAIN sent
      BY <1>2, <1>3, <2>2
    <3> QED BY <3>1, <3>2, <3>3
  <2> QED BY <2>1, <2>2
<1>5. \A k \in DOMAIN sent' : sent'[k][1] \in DOMAIN calls'
  BY <1>1, <1>4 DEF PlacesInv
<1>6. ASSUME NEW j \in DOMAIN calls', calls'[j].size <= bufsz PROVE CallPlaces(j)'
  <2>1. j \in DOMAIN calls /\ calls[j].size <= bufsz /\ CallPlaces(j)
    BY <1>1, <1>6 DEF PlacesInv
  <2>2. calls[j].size \in Nat
    BY <2>1, CallTypes
  <2>3. CASE j # i
    <3>1. calls'[j] = calls[j]
      BY <1>1, <2>1, <2>3
    <3>2. CASE calls[j].done = "ok"
      <4>1. PICK b \in Nat : /\ b + calls[j].size <= Len(sent)
                             /\ \A k \in DOMAIN sent : sent[k][1] = j <=> k \in b + 1 .. b + calls[j].size
        BY <2>1, <3>2 DEF CallPlaces
      <4>2. b + calls[j].size <= Len(sent')
        BY <1>2, <1>3, <2>2, <4>1
      <4>3. ASSUME NEW k \in DOMAIN sent' PROVE sent'[k][1] = j <=> k \in b + 1 .. b + calls[j].size
        <5>1. CASE k \in DOMAIN sent
          BY <1>4, <4>1, <4>3, <5>1
        <5>2. CASE k \notin DOMAIN sent
          <6>1. sent'[k][1] # j
            BY <1>4, <2>3, <5>2
          <6>2. k \notin b + 1 .. b + calls[j].size
            BY <1>2, <1>3, <2>2, <4>1, <5>2
          <6> QED BY <6>1, <6>2
        <5> QED BY <5>1, <5>2
      <4> QED BY <3>1, <3>2, <4>2, <4>3 DEF CallPlaces
    <3>3. CASE calls[j].done # "ok"
      <4>1. \A k \in DOMAIN sent' : sent'[k][1] # j
        BY <1>4, <2>1, <2>3, <3>3 DEF CallPlaces
      <4> QED BY <3>1, <3>3, <4>1 DEF CallPlaces
    <3> QED BY <3>2, <3>3
  <2>4. CASE j = i
    <3>1. ended /\ Len(s) = calls[i].size /\ calls'[i].done = "ok"
      BY <1>1, <2>1, <2>4
    <3>2. \A k \in DOMAIN sent : sent[k][1] # i
      BY <2>1, <2>4 DEF CallPlaces
    <3>3. ASSUME NEW k \in DOMAIN sent'
          PROVE  sent'[k][1] = i <=> k \in Len(sent) + 1 .. Len(sent) + calls[i].size
      <4>1. k \notin DOMAIN sent <=> k \in Len(sent) + 1 .. Len(sent) + Len(s)
        BY <1>2, <1>3
      <4> QED BY <1>4, <3>1, <3>2, <4>1
    <3>4. Len(sent) + calls'[i].size <= Len(sent')
      BY <1>1, <1>2, <1>3, <3>1
    <3> QED BY <1>1, <1>2, <2>4, <3>1, <3>3, <3>4 DEF CallPlaces
  <2> QED BY <2>3, <2>4
<1> QED BY <1>5, <1>6 DEF PlacesInv

\* The places of the bytes make the write atomic.
LEMMA AtomicFollows ==
    ASSUME TypeOK, PlacesInv
    PROVE  SmallWritesAtomic
<1> SUFFICES ASSUME NEW i \in DOMAIN calls, calls[i].size <= bufsz
             PROVE  /\ Places(i) # {} => /\ Cardinality(Places(i)) = calls[i].size
                                         /\ Max(Places(i)) - Min(Places(i)) = calls[i].size - 1
                    /\ calls[i].done # "no" => (calls[i].done = "ok" <=> Places(i) # {})
  BY DEF SmallWritesAtomic
<1>1. CallPlaces(i)
  BY DEF PlacesInv
<1>2. calls[i].size \in Nat \ {0}
  BY CallTypes
<1>3. CASE calls[i].done = "ok"
  <2>1. PICK b \in Nat : /\ b + calls[i].size <= Len(sent)
                         /\ \A k \in DOMAIN sent : sent[k][1] = i <=> k \in b + 1 .. b + calls[i].size
    BY <1>1, <1>3 DEF CallPlaces
  <2>2. PICK z \in Nat \ {0} : z = calls[i].size
    BY <1>2
  <2>3. b + 1 .. b + z \subseteq DOMAIN sent
    BY <2>1, <2>2, SentTypes
  <2>4. Places(i) = b + 1 .. b + z
    BY <2>1, <2>2, <2>3 DEF Places
  <2>5. Cardinality(b + 1 .. b + z) = z
    <3>1. PICK x \in Int, y \in Int : x = b + 1 /\ y = b + z
      BY <2>2
    <3>2. Cardinality(x .. y) = IF x > y THEN 0 ELSE y - x + 1
      BY FS_Interval
    <3>3. ~(x > y) /\ y - x + 1 = z
      BY <2>2, <3>1
    <3> QED BY <3>1, <3>2, <3>3
  <2>6. Max(b + 1 .. b + z) = b + z /\ Min(b + 1 .. b + z) = b + 1
    <3>1. b + z \in b + 1 .. b + z /\ b + 1 \in b + 1 .. b + z
      BY <2>2
    <3>2. \A x \in b + 1 .. b + z : x <= b + z /\ x >= b + 1 /\ x \in Int
      OBVIOUS
    <3>3. Max(b + 1 .. b + z) \in b + 1 .. b + z /\ Max(b + 1 .. b + z) >= b + z
      BY <3>1, <3>2 DEF Max
    <3>4. Min(b + 1 .. b + z) \in b + 1 .. b + z /\ Min(b + 1 .. b + z) <= b + 1
      BY <3>1, <3>2 DEF Min
    <3> QED BY <3>2, <3>3, <3>4
  <2>7. Places(i) # {}
    <3>1. b + 1 \in b + 1 .. b + z
      BY <2>2
    <3> QED BY <2>4, <3>1
  <2> QED BY <1>3, <2>2, <2>4, <2>5, <2>6, <2>7
<1>4. CASE calls[i].done # "ok"
  <2>1. Places(i) = {}
    BY <1>1, <1>4 DEF CallPlaces, Places
  <2> QED BY <1>4, <2>1
<1> QED BY <1>3, <1>4

\* The same bytes at the same positions.
SameBytes ==
    /\ cb'.head = cb.head /\ cb'.tail = cb.tail
    /\ \A k \in 1 .. cb.head - cb.tail :
            cb'.buf[(cb.tail + k - 1) % bufsz] = cb.buf[(cb.tail + k - 1) % bufsz]

LEMMA StreamSame ==
    ASSUME StreamInv, panic' = panic, closed' = closed, sent' = sent, rcvd' = rcvd, SameBytes
    PROVE  StreamInv'
  BY DEF StreamInv, SameBytes

LEMMA CbTypes ==
    ASSUME TypeOK
    PROVE  /\ CbOK(cb, Byte) /\ cb.head \in Nat /\ cb.tail \in Nat
           /\ cb.head - cb.tail \in 0 .. bufsz /\ bufsz \in Nat \ {0}
           /\ cb.head = cb.tail + (cb.head - cb.tail)
           /\ Left(cb) = bufsz - (cb.head - cb.tail)
  BY BufszAssumption DEF TypeOK, Cbs, CbOK, Left

\* The bytes s have gone into the buffer.
LEMMA StreamIn ==
    ASSUME TypeOK, StreamInv, ~closed, panic' = "none", closed' = closed, rcvd' = rcvd,
           NEW s \in Seq(Byte), sent' = sent \o s,
           cb'.tail = cb.tail, cb'.head = cb.head + Len(s),
           \A k \in 1 .. cb.head - cb.tail :
                cb'.buf[(cb.tail + k - 1) % bufsz] = cb.buf[(cb.tail + k - 1) % bufsz],
           \A k \in 1 .. Len(s) : cb'.buf[(cb.head + k - 1) % bufsz] = s[k]
    PROVE  StreamInv'
<1>1. PICK u \in Nat : u = cb.head - cb.tail /\ cb.head = cb.tail + u
  BY CbTypes
<1>2. PICK n \in Nat : n = Len(s)
  OBVIOUS
<1>3. Len(sent) \in Nat /\ Len(rcvd) \in Nat /\ cb.head \in Nat /\ cb.tail \in Nat /\ sent \in Seq(Byte)
  BY SentTypes, CbTypes DEF TypeOK
<1>4. /\ Len(sent') = Len(sent) + n
      /\ \A k \in 1 .. Len(sent) + n : sent'[k] = IF k <= Len(sent) THEN sent[k] ELSE s[k - Len(sent)]
  BY <1>2, <1>3, ConcatProperties
<1>5. cb'.head - cb'.tail = u + n
  BY <1>1, <1>2, <1>3
<1>6. /\ Len(sent) = Len(rcvd) + u
      /\ \A k \in 1 .. Len(rcvd) : sent[k] = rcvd[k]
      /\ \A k \in 1 .. u : sent[Len(rcvd) + k] = cb.buf[(cb.tail + k - 1) % bufsz]
  BY <1>1 DEF StreamInv
<1>7. Len(sent') = Len(rcvd') + (cb'.head - cb'.tail)
  BY <1>3, <1>4, <1>5, <1>6
<1>8. ASSUME NEW k \in 1 .. Len(rcvd') PROVE sent'[k] = rcvd'[k]
  <2>1. k \in 1 .. Len(rcvd) /\ k \in 1 .. Len(sent) + n /\ k <= Len(sent)
    BY <1>3, <1>6
  <2> QED BY <1>4, <1>6, <2>1
<1>9. ASSUME NEW k \in 1 .. u + n
      PROVE  sent'[Len(rcvd) + k] = cb'.buf[(cb.tail + k - 1) % bufsz]
  <2>1. PICK x : x = Len(rcvd) + k
    OBVIOUS
  <2>2. x \in 1 .. Len(sent) + n
    BY <1>3, <1>6, <2>1
  <2>3. CASE k <= u
    <3>1. k \in 1 .. u /\ x <= Len(sent)
      BY <1>3, <1>6, <2>1, <2>3
    <3>2. sent'[x] = sent[x]
      BY <1>4, <2>2, <3>1
    <3>3. cb'.buf[(cb.tail + k - 1) % bufsz] = cb.buf[(cb.tail + k - 1) % bufsz]
      BY <1>1, <3>1
    <3> QED BY <1>6, <2>1, <3>1, <3>2, <3>3
  <2>4. CASE ~(k <= u)
    <3>1. PICK j \in 1 .. n : j = k - u
      BY <2>4
    <3>2. ~(x <= Len(sent)) /\ x - Len(sent) = j /\ cb.tail + k - 1 = cb.head + j - 1
      <4>1. k = j + u /\ x = Len(rcvd) + u + j
        BY <1>3, <2>1, <3>1
      <4>2. Len(sent) = Len(rcvd) + u
        BY <1>6
      <4>3. cb.tail + k - 1 = cb.head + j - 1
        <5>1. PICK x1 \in Nat : x1 = cb.tail
          BY <1>3
        <5>2. x1 + k - 1 = (x1 + u) + j - 1
          BY <4>1
        <5> QED BY <1>1, <5>1, <5>2
      <4> QED BY <1>3, <4>1, <4>2, <4>3
    <3>3. sent'[x] = s[j]
      BY <1>4, <2>2, <3>2
    <3>4. cb'.buf[(cb.head + j - 1) % bufsz] = s[j]
      BY <1>2
    <3> QED BY <2>1, <3>2, <3>3, <3>4
  <2> QED BY <2>3, <2>4
<1> QED BY <1>5, <1>7, <1>8, <1>9 DEF StreamInv

\* The n oldest bytes have come out of it.
LEMMA StreamOut ==
    ASSUME TypeOK, StreamInv, ~closed, panic' = "none", closed' = closed, sent' = sent,
           NEW s \in Seq(Byte), rcvd' = rcvd \o s, Len(s) \in 0 .. cb.head - cb.tail,
           cb'.head = cb.head, cb'.tail = cb.tail + Len(s), cb'.buf = cb.buf,
           \A k \in 1 .. Len(s) : s[k] = cb.buf[(cb.tail + k - 1) % bufsz]
    PROVE  StreamInv'
<1>1. PICK u \in Nat : u = cb.head - cb.tail /\ cb.head = cb.tail + u
  BY CbTypes
<1>2. PICK n \in Nat : n = Len(s) /\ n <= u
  BY <1>1
<1>3. Len(sent) \in Nat /\ Len(rcvd) \in Nat /\ cb.head \in Nat /\ cb.tail \in Nat /\ rcvd \in Seq(Byte)
  BY SentTypes, CbTypes DEF TypeOK
<1>4. /\ Len(rcvd') = Len(rcvd) + n
      /\ \A k \in 1 .. Len(rcvd) + n : rcvd'[k] = IF k <= Len(rcvd) THEN rcvd[k] ELSE s[k - Len(rcvd)]
  BY <1>2, <1>3, ConcatProperties
<1>5. cb'.head - cb'.tail = u - n
  BY <1>1, <1>2, <1>3
<1>6. /\ Len(sent) = Len(rcvd) + u
      /\ \A k \in 1 .. Len(rcvd) : sent[k] = rcvd[k]
      /\ \A k \in 1 .. u : sent[Len(rcvd) + k] = cb.buf[(cb.tail + k - 1) % bufsz]
  BY <1>1 DEF StreamInv
<1>7. Len(sent') = Len(rcvd') + (cb'.head - cb'.tail)
  BY <1>3, <1>4, <1>5, <1>6
<1>8. ASSUME NEW k \in 1 .. Len(rcvd) + n PROVE sent[k] = rcvd'[k]
  <2>1. CASE k <= Len(rcvd)
    BY <1>3, <1>4, <1>6, <2>1
  <2>2. CASE ~(k <= Len(rcvd))
    <3>1. PICK j \in 1 .. n : j = k - Len(rcvd)
      <4>1. PICK m \in Nat : m = Len(rcvd)
        BY <1>3
      <4>2. k - m \in 1 .. n
        BY <2>2, <4>1
      <4> QED BY <4>1, <4>2
    <3>2. k = Len(rcvd) + j /\ j \in 1 .. u
      BY <1>2, <1>3, <3>1
    <3> QED BY <1>2, <1>4, <1>6, <2>2, <3>1, <3>2
  <2> QED BY <2>1, <2>2
<1>9. ASSUME NEW k \in 1 .. u - n
      PROVE  sent[Len(rcvd') + k] = cb.buf[(cb'.tail + k - 1) % bufsz]
  <2>1. PICK j \in 1 .. u : j = n + k
    BY <1>2
  <2>2. Len(rcvd') + k = Len(rcvd) + j /\ cb'.tail + k - 1 = cb.tail + j - 1
    <3>1. Len(rcvd') = Len(rcvd) + n /\ cb'.tail = cb.tail + n
      BY <1>2, <1>4
    <3>2. PICK x \in Nat, y \in Nat : x = Len(rcvd) /\ y = cb.tail
      BY <1>3
    <3>3. (x + n) + k = x + j /\ (y + n) + k - 1 = y + j - 1
      BY <2>1
    <3> QED BY <3>1, <3>2, <3>3
  <2> QED BY <1>6, <2>2
<1> QED BY <1>4, <1>5, <1>7, <1>8, <1>9 DEF StreamInv

(***************************************************************************)
(* The pollers.                                                            *)
(***************************************************************************)
LEMMA SlotTypes ==
    ASSUME TypeOK, NEW i \in 1 .. NSlots, slots[i].ch # NoThread
    PROVE  slots[i].ch \in Threads /\ thr[slots[i].ch] \in Thrs /\ thr[slots[i].ch].end \in Ends
  BY DEF TypeOK, Slots, Thrs

\* The thread polls on as before.
Polls(u) ==
    /\ thr'[u].pc = thr[u].pc /\ thr'[u].end = thr[u].end /\ (thr[u].notif => thr'[u].notif)

\* A step that leaves the slots alone.
LEMMA PollSame ==
    ASSUME TypeOK, PollInv, slots' = slots, allmask' = allmask,
           \A u \in Threads : thr[u].pc \in {"poll", "pollwait"} => Polls(u),
           \A e \in Ends : open'[e] > 0 => open[e] > 0 /\ (Blocked(e) => Blocked(e)')
    PROVE  PollInv'
<1> SUFFICES ASSUME NEW i \in 1 .. NSlots, slots[i].ch # NoThread PROVE SlotOK(i)'
  BY DEF PollInv, SlotOK
<1>1. PICK u \in Threads : u = slots[i].ch /\ thr[u].end \in Ends
  BY SlotTypes
<1>2. SlotOK(i)
  BY DEF PollInv
<1>3. Polls(u)
  BY <1>1, <1>2 DEF SlotOK
<1>4. PICK e \in Ends : e = thr[u].end /\ e = thr'[u].end
  BY <1>1, <1>3 DEF Polls
<1>5. Blocked(e)' <=> IF thr'[u].end = "r" THEN Empty(cb') ELSE Full(cb')
  BY <1>4 DEF Blocked
<1> QED BY <1>1, <1>2, <1>3, <1>4, <1>5 DEF SlotOK, Polls, Blocked

\* Signal and Wakeready after a transfer: what becomes of the threads.
LEMMA CopyThreads ==
    ASSUME IInv, NEW t \in Threads, thr[t].pc \in {"idle", "read", "write"}, NEW r \in Thrs,
           NEW e \in Ends, thr' = Notified(Awake([thr EXCEPT ![t] = r], Signal(e), e), e)
    PROVE  /\ thr' \in [Threads -> Thrs] /\ thr'[t] = r
           /\ \A u \in Threads \ {t} :
                /\ Nudged(u) /\ (u \notin Signal(e) => Stays(u))
                /\ u \in Wakeready(e) => thr'[u].notif
                /\ thr[u].pc # "asleep" => thr'[u].pc = thr[u].pc
<1>1. thr \in [Threads -> Thrs]
  BY DEF IInv, TypeOK
<1>2. \A u \in Signal(e) : SleeperOK(u, e)
  <2>1. sleep[e] \in Seq(Threads)
    BY DEF IInv, TypeOK
  <2>2. sleep[e] # << >> => Head(sleep[e]) = sleep[e][1] /\ 1 \in DOMAIN sleep[e]
    BY <2>1, EmptySeq, LenProperties
  <2> QED BY <2>2 DEF IInv, SleepInv, Signal
<1>3. t \notin Signal(e)
  BY <1>2 DEF SleeperOK
<1>4. t \notin Wakeready(e)
  <2> SUFFICES ASSUME t \in Wakeready(e) PROVE FALSE
    OBVIOUS
  <2>1. PICK i \in 1 .. NSlots : slots[i].ch = t
    BY DEF Wakeready
  <2>2. t # NoThread
    BY PipeAssumption
  <2> QED BY <2>1, <2>2 DEF IInv, PollInv, SlotOK
<1> DEFINE a == Awake([thr EXCEPT ![t] = r], Signal(e), e)
<1>5. a[t] = r
  BY <1>1, <1>3 DEF Awake
<1>6. ASSUME NEW u \in Threads \ {t}
      PROVE  a[u] = IF u \in Signal(e) THEN [thr[u] EXCEPT !.pc = Again(e)] ELSE thr[u]
  BY <1>1, <1>6 DEF Awake
<1>7. ASSUME NEW u \in Threads
      PROVE  thr'[u] = IF u \in Wakeready(e) THEN [a[u] EXCEPT !.notif = TRUE] ELSE a[u]
  <2> HIDE DEF a
  <2>1. thr' = Notified(a, e)
    BY DEF a
  <2> QED BY <2>1 DEF Notified
<1>8. thr'[t] = r
  BY <1>4, <1>5, <1>7
<1> HIDE DEF a
<1>9. ASSUME NEW u \in Threads \ {t}
      PROVE  /\ thr'[u] \in Thrs /\ Nudged(u) /\ (u \notin Signal(e) => Stays(u))
             /\ u \in Wakeready(e) => thr'[u].notif
             /\ thr[u].pc # "asleep" => thr'[u].pc = thr[u].pc
  <2>1. PICK x \in Thrs : x = thr[u]
    BY <1>1
  <2>2. PICK y : y = a[u]
    OBVIOUS
  <2>3. Again(e) \in {"read", "write"} /\ (Again(e) = "read" <=> e = "r")
    BY DEF Again, Ends
  <2>4. /\ y \in Thrs /\ y.id = x.id /\ y.off = x.off /\ y.end = x.end /\ y.noblk = x.noblk
        /\ y.killed = x.killed /\ y.notif = x.notif
        /\ y.pc = IF u \in Signal(e) THEN Again(e) ELSE x.pc
    <3>1. y = IF u \in Signal(e) THEN [x EXCEPT !.pc = Again(e)] ELSE x
      BY <1>6, <2>1, <2>2
    <3> QED BY <2>3, <3>1 DEF Thrs
  <2>5. PICK z : z = thr'[u]
    OBVIOUS
  <2>6. z = IF u \in Wakeready(e) THEN [y EXCEPT !.notif = TRUE] ELSE y
    BY <1>7, <2>2, <2>5
  <2>7. /\ z \in Thrs /\ z.id = x.id /\ z.off = x.off /\ z.end = x.end /\ z.noblk = x.noblk
        /\ z.killed = x.killed /\ (x.notif => z.notif) /\ (u \in Wakeready(e) => z.notif)
        /\ z.pc = IF u \in Signal(e) THEN Again(e) ELSE x.pc
    BY <2>4, <2>6 DEF Thrs
  <2>8. u \in Signal(e) => x.pc = "asleep" /\ (e = "r" <=> x.id = 0)
    BY <1>2, <2>1 DEF SleeperOK
  <2>9. Nudged(u)
    BY <2>1, <2>3, <2>5, <2>7, <2>8 DEF Nudged
  <2> QED BY <2>1, <2>5, <2>7, <2>8, <2>9 DEF Stays
<1>10. thr' \in [Threads -> Thrs]
  <2>1. thr' = [u \in Threads |-> thr'[u]]
    BY DEF Notified
  <2>2. \A u \in Threads : thr'[u] \in Thrs
    BY <1>8, <1>9
  <2> QED BY <2>1, <2>2
<1> QED BY <1>8, <1>9, <1>10

\* The same for the slots: whoever polls for e is notified, the others stay.
LEMMA PollCopy ==
    ASSUME IInv, NEW t \in Threads, thr[t].pc \in {"idle", "read", "write"}, NEW e \in Ends,
           \A u \in Threads \ {t} : /\ Nudged(u)
                                    /\ u \in Wakeready(e) => thr'[u].notif
                                    /\ thr[u].pc # "asleep" => thr'[u].pc = thr[u].pc,
           Cleared(e), open' = open, \A x \in Ends \ {e} : Blocked(x) => Blocked(x)'
    PROVE  PollInv' /\ slots' \in [1 .. NSlots -> Slots] /\ allmask' \subseteq Mask
<1>1. slots \in [1 .. NSlots -> Slots] /\ allmask \subseteq Mask
  BY DEF IInv, TypeOK
<1>2. ASSUME NEW i \in 1 .. NSlots
      PROVE  slots'[i] \in Slots /\ slots'[i].ch = slots[i].ch /\ slots'[i].events = slots[i].events
  <2>1. CASE e \notin allmask
    BY <1>1, <2>1 DEF Cleared, poll
  <2>2. CASE e \in allmask
    <3>1. slots'[i] = IF e \in slots[i].events THEN [slots[i] EXCEPT !.tid = NoThread] ELSE slots[i]
      BY <2>2 DEF Cleared
    <3>2. slots[i] \in Slots
      BY <1>1
    <3> QED BY <3>1, <3>2 DEF Slots
  <2> QED BY <2>1, <2>2
<1>3. slots' \in [1 .. NSlots -> Slots] /\ allmask' \subseteq Mask
  <2>1. CASE e \notin allmask
    BY <1>1, <2>1 DEF Cleared, poll
  <2>2. CASE e \in allmask
    <3>1. slots' = [i \in 1 .. NSlots |-> IF e \in slots[i].events THEN [slots[i] EXCEPT !.tid = NoThread]
                                          ELSE slots[i]]
      BY <2>2 DEF Cleared
    <3>2. allmask' = UNION {slots[i].events : i \in {j \in 1 .. NSlots : e \notin slots[j].events}}
      BY <2>2 DEF Cleared
    <3>3. \A i \in 1 .. NSlots : slots[i].events \subseteq Mask
      BY <1>1 DEF Slots
    <3>4. \A i \in 1 .. NSlots : [slots[i] EXCEPT !.tid = NoThread] \in Slots
      BY <1>1 DEF Slots
    <3>5. slots' \in [1 .. NSlots -> Slots]
      BY <1>1, <3>1, <3>4
    <3>6. allmask' \subseteq Mask
      BY <3>2, <3>3
    <3> QED BY <3>5, <3>6
  <2> QED BY <2>1, <2>2
<1>4. ASSUME NEW i \in 1 .. NSlots, slots'[i].ch # NoThread PROVE SlotOK(i)'
  <2>1. slots[i].ch # NoThread
    BY <1>2, <1>4
  <2>2. PICK u \in Threads : u = slots[i].ch /\ thr[u].end \in Ends
    BY <2>1, SlotTypes DEF IInv
  <2>3. SlotOK(i) /\ thr[u].pc \in {"poll", "pollwait"}
    BY <2>1, <2>2 DEF IInv, PollInv, SlotOK
  <2>4. u # t
    BY <2>3
  <2>5. PICK x \in Ends : x = thr[u].end
    BY <2>2
  <2>6. Nudged(u) /\ thr'[u].pc = thr[u].pc /\ thr'[u].end = x /\ (u \in Wakeready(e) => thr'[u].notif)
        /\ (thr[u].notif => thr'[u].notif)
    BY <2>3, <2>4, <2>5 DEF Nudged
  <2>7. slots[i].events = {x, "err", "hup"}
    BY <2>1, <2>2, <2>3, <2>5 DEF SlotOK, Events
  <2>8. slots'[i].ch = u /\ slots'[i].events = Events(x)
    BY <1>2, <2>2, <2>7 DEF Events
  <2>9. ASSUME thr'[u].pc = "pollwait", open'[x] > 0, ~thr'[u].notif
        PROVE  x \in allmask' /\ Blocked(x)'
    <3>1. x \in allmask /\ Blocked(x)
      BY <2>1, <2>2, <2>3, <2>5, <2>6, <2>9 DEF SlotOK
    <3>2. x # e
      <4> SUFFICES ASSUME x = e PROVE FALSE
        OBVIOUS
      <4>1. e \in allmask /\ e \in slots[i].events
        BY <2>7, <3>1
      <4>2. u \in Wakeready(e)
        BY <2>2, <4>1 DEF Wakeready
      <4> QED BY <2>6, <2>9, <4>2
    <3>3. Blocked(x)'
      BY <3>1, <3>2
    <3>4. e \notin slots[i].events /\ x \in slots[i].events
      BY <2>7, <3>2 DEF Ends
    <3>5. x \in allmask'
      BY <3>1, <3>4 DEF Cleared, poll
    <3> QED BY <3>3, <3>5
  <2>10. Blocked(x)' <=> IF thr'[u].end = "r" THEN Empty(cb') ELSE Full(cb')
    BY <2>6 DEF Blocked
  <2> QED BY <2>3, <2>6, <2>8, <2>9, <2>10 DEF SlotOK, Blocked
<1> QED BY <1>3, <1>4 DEF PollInv, SlotOK

(***************************************************************************)
(* The steps.                                                              *)
(***************************************************************************)
\* The thread's call returns.
LEMMA ReturnedOK ==
    ASSUME NEW x \in Thrs
    PROVE  /\ Returned(x) \in Thrs /\ Returned(x).id = 0 /\ Returned(x).off = 0
           /\ Returned(x).pc = "idle"
<1>1. NullThr \in Thrs /\ x.killed \in BOOLEAN
  BY PipeAssumption DEF NullThr, Thrs, Ends
<1> QED BY <1>1 DEF Returned, NullThr, Thrs

\* The calls of others when the calls do not change, or only the actor's does.
LEMMA OthersSame ==
    ASSUME IInv, NEW t \in Threads, calls' = calls
    PROVE  OtherCalls(t)
  BY DEF IInv, CallsInv, CallOK, OtherCalls

LEMMA OthersDone ==
    ASSUME IInv, NEW t \in Threads, thr[t].id # 0, DOMAIN calls' = DOMAIN calls,
           \A j \in DOMAIN calls \ {thr[t].id} : calls'[j] = calls[j]
    PROVE  OtherCalls(t)
<1> SUFFICES ASSUME NEW u \in Threads \ {t}, thr[u].id # 0
             PROVE  thr[u].id \in DOMAIN calls' /\ calls'[thr[u].id] = calls[thr[u].id]
  BY DEF OtherCalls
<1>1. CallOK(u) /\ CallOK(t)
  BY DEF IInv, CallsInv
<1>2. thr[u].id # thr[t].id
  BY <1>1 DEF CallOK
<1> QED BY <1>1, <1>2 DEF CallOK

\* An actor that is in no call of write.
LEMMA NoCall ==
    ASSUME NEW t, thr'[t].id = 0, thr'[t].off = 0, thr'[t].pc # "write"
    PROVE  OwnCall(t)
  BY DEF OwnCall

\* The queues when nobody but the actor changes, who does not sleep.
LEMMA SleepQuiet ==
    ASSUME IInv, NEW t \in Threads, thr[t].pc # "asleep", sleep' = sleep,
           \A u \in Threads \ {t} : Stays(u)
    PROVE  SleepInv' /\ sleep' \in [Ends -> Seq(Threads)]
<1>1. ASSUME NEW e \in Ends PROVE QueueOK(e)'
  <2>1. QueueOK(e) /\ sleep[e] \in Seq(Threads)
    BY QueuesSleep DEF IInv, TypeOK
  <2>2. \A u \in Asleep(e) : u \in Threads \ {t}
    BY <2>1 DEF QueueOK, SleeperOK, Asleep
  <2> QED BY <2>1, <2>2, QueueSame
<1>2. SleepInv'
  BY <1>1, QueuesSleep DEF SleepInv, QueueOK
<1> QED BY <1>2 DEF IInv, TypeOK

\* A step of a thread that reads or writes and moves no bytes.
LEMMA QuietStep ==
    ASSUME IInv, NEW t \in Threads, thr[t].pc \in {"idle", "read", "write"},
           NEW r \in Thrs, thr' = [thr EXCEPT ![t] = r],
           cb' \in Cbs, SameBytes, open' = open, closed' = closed, lent' = lent,
           haspage' \in BOOLEAN, closed => haspage' = haspage,
           SleepInv', sleep' \in [Ends -> Seq(Threads)], closed => sleep' = sleep,
           slots' = slots, allmask' = allmask, sent' = sent, rcvd' = rcvd,
           calls' \in Seq(Calls), PlacesInv', OwnCall(t), OtherCalls(t),
           npolls' = npolls, nfaults' \in Nat, panic' = panic
    PROVE  IInv'
<1>1. /\ thr' \in [Threads -> Thrs] /\ thr'[t] = r
      /\ \A u \in Threads \ {t} : thr'[u] = thr[u] /\ Nudged(u) /\ Stays(u)
  BY ThrExcept DEF IInv
<1>2. TypeOK'
  BY <1>1 DEF IInv, TypeOK, SameBytes
<1>3. StreamInv'
  BY StreamSame DEF IInv
<1>4. CallsInv'
  BY <1>1, CallsStep DEF IInv
<1>5. OpenInv'
  BY DEF IInv, OpenInv
<1>6. PollInv'
  <2>1. \A u \in Threads : thr[u].pc \in {"poll", "pollwait"} => Polls(u)
    BY <1>1 DEF Polls
  <2>2. \A e \in Ends : open'[e] > 0 => open[e] > 0 /\ (Blocked(e) => Blocked(e)')
    BY DEF SameBytes, Blocked, Empty, Full
  <2> QED BY <2>1, <2>2, PollSame DEF IInv
<1> QED BY <1>2, <1>3, <1>4, <1>5, <1>6 DEF IInv

\* Nothing but the actor's place changes: what the steps below have in common.
LEMMA SameHere ==
    ASSUME IInv, cb' = cb
    PROVE  cb' \in Cbs /\ SameBytes
  BY DEF IInv, TypeOK, SameBytes

\* A thread at a place of write has a call.
LEMMA InCall ==
    ASSUME IInv, NEW t \in Threads, thr[t].pc = "write"
    PROVE  thr[t] \in Thrs /\ thr[t].id # 0 /\ CallOK(t)
  BY DEF IInv, CallsInv, TypeOK

\* A thread that is not in write has none.
LEMMA OutOfCall ==
    ASSUME IInv, NEW t \in Threads, thr[t].pc \notin {"write", "asleep"}
    PROVE  thr[t] \in Thrs /\ thr[t].id = 0 /\ thr[t].off = 0
  BY DEF IInv, CallsInv, CallOK, TypeOK

LEMMA WriteInv ==
    ASSUME IInv, NEW t \in Writers, NEW sz \in WriteSizes, NEW noblk \in BOOLEAN, Write(t, sz, noblk)
    PROVE  IInv'
<1>1. t \in Threads /\ thr[t].pc = "idle"
  BY DEF Threads, Write, At
<1>2. thr[t] \in Thrs /\ thr[t].id = 0 /\ thr[t].off = 0
  BY <1>1, OutOfCall
<1>3. /\ Len(calls) \in Nat /\ DOMAIN calls = 1 .. Len(calls) /\ Len(calls) + 1 \in 1 .. MaxWrites
  BY CallTypes, PipeAssumption DEF IInv, Write
<1>4. /\ PlacesInv' /\ calls' \in Seq(Calls) /\ DOMAIN calls' = 1 .. Len(calls) + 1
      /\ calls'[Len(calls) + 1] = [size |-> sz, done |-> "no"]
      /\ \A j \in DOMAIN calls : calls'[j] = calls[j]
  BY PlacesNew DEF IInv, Write
<1>5. PICK r : r = [thr[t] EXCEPT !.pc = "write", !.id = Len(calls) + 1, !.noblk = noblk]
  OBVIOUS
<1>6. /\ r \in Thrs /\ r.pc = "write" /\ r.id = Len(calls) + 1 /\ r.off = 0
  <2>1. PICK n \in 0 .. MaxWrites : n = Len(calls) + 1
    BY <1>3, PipeAssumption
  <2>2. r = [thr[t] EXCEPT !.pc = "write", !.id = n, !.noblk = noblk]
    BY <1>5, <2>1
  <2>3. r \in Thrs /\ r.pc = "write" /\ r.id = n /\ r.off = thr[t].off
    BY <1>2, <2>2 DEF Thrs
  <2> QED BY <1>2, <2>1, <2>3
<1>7. thr' = [thr EXCEPT ![t] = r]
  BY <1>5 DEF Write
<1>8. thr'[t] = r /\ \A u \in Threads \ {t} : Stays(u)
  BY <1>1, <1>6, <1>7, ThrExcept DEF IInv
<1>9. OwnCall(t)
  <2>1. \A u \in Threads : thr[u].id # Len(calls) + 1
    <3> SUFFICES ASSUME NEW u \in Threads, thr[u].id = Len(calls) + 1 PROVE FALSE
      OBVIOUS
    <3>1. thr[u].id # 0
      BY <1>3
    <3>2. thr[u].id \in DOMAIN calls
      BY <3>1 DEF IInv, CallsInv, CallOK
    <3> QED BY <1>3, <3>2
  <2>2. calls'[r.id].size = sz /\ calls'[r.id].done = "no" /\ r.id \in DOMAIN calls' /\ r.id # 0
    BY <1>3, <1>4, <1>6
  <2>3. 0 < sz
    BY PipeAssumption
  <2> QED BY <1>6, <1>8, <2>1, <2>2, <2>3 DEF OwnCall
<1>10. OtherCalls(t)
  BY <1>3, <1>4 DEF IInv, CallsInv, CallOK, OtherCalls
<1>11. /\ cb' = cb /\ open' = open /\ closed' = closed /\ lent' = lent /\ haspage' = haspage
       /\ sleep' = sleep /\ slots' = slots /\ allmask' = allmask /\ sent' = sent /\ rcvd' = rcvd
       /\ npolls' = npolls /\ nfaults' = nfaults /\ panic' = panic
  BY DEF Write, pipe, poll, bounds
<1>12. cb' \in Cbs /\ SameBytes
  BY <1>11, SameHere
<1>13. SleepInv' /\ sleep' \in [Ends -> Seq(Threads)]
  BY <1>1, <1>8, <1>11, SleepQuiet
<1>14. haspage' \in BOOLEAN /\ nfaults' \in Nat
  BY <1>11 DEF IInv, TypeOK
<1> QED BY <1>1, <1>4, <1>6, <1>7, <1>9, <1>10, <1>11, <1>12, <1>13, <1>14, QuietStep

\* The end of a write that fails.
LEMMA WriteErrEffect ==
    ASSUME IInv, NEW t \in Threads, thr[t].pc = "write", WriteErr(t), sent' = sent
    PROVE  /\ \E r \in Thrs : thr' = [thr EXCEPT ![t] = r]
           /\ calls' \in Seq(Calls) /\ PlacesInv' /\ OwnCall(t) /\ OtherCalls(t)
           /\ \A u \in Threads \ {t} : Stays(u)
<1>1. thr[t] \in Thrs /\ thr[t].id # 0 /\ CallOK(t)
  BY InCall
<1>2. PICK i \in DOMAIN calls : i = thr[t].id /\ calls[i].done = "no"
  BY <1>1 DEF CallOK
<1>3. calls' = [calls EXCEPT ![i].done = "err"]
  BY <1>2 DEF WriteErr
<1>4. "err" \in {"ok", "err"}
  OBVIOUS
<1>5. /\ calls' \in Seq(Calls) /\ DOMAIN calls' = DOMAIN calls
      /\ \A j \in DOMAIN calls \ {i} : calls'[j] = calls[j]
  BY <1>3, <1>4, CallDone DEF IInv
<1>6. PlacesInv'
  BY <1>2, <1>3, PlacesErr DEF IInv
<1>7. PICK r \in Thrs : r = Returned(thr[t]) /\ r.id = 0 /\ r.off = 0 /\ r.pc = "idle"
  BY <1>1, ReturnedOK
<1>8. thr' = [thr EXCEPT ![t] = r]
  BY <1>7 DEF WriteErr, Return
<1>9. thr'[t] = r /\ \A u \in Threads \ {t} : Stays(u)
  BY <1>8, ThrExcept DEF IInv
<1>10. OwnCall(t)
  BY <1>7, <1>9 DEF OwnCall
<1>11. OtherCalls(t)
  BY <1>1, <1>2, <1>5, OthersDone
<1> QED BY <1>5, <1>6, <1>8, <1>9, <1>10, <1>11

LEMMA WriteFailInv ==
    ASSUME IInv, NEW t \in Writers, WriteFail(t) \/ WriteNoPage(t)
    PROVE  IInv'
<1>1. t \in Threads /\ thr[t].pc = "write" /\ WriteErr(t)
  BY DEF Threads, WriteFail, WriteNoPage, At
<1>2. /\ cb' = cb /\ open' = open /\ closed' = closed /\ lent' = lent /\ haspage' = haspage
      /\ sleep' = sleep /\ slots' = slots /\ allmask' = allmask /\ sent' = sent /\ rcvd' = rcvd
      /\ npolls' = npolls /\ panic' = panic
  BY DEF WriteFail, WriteNoPage, pipe, poll, bounds
<1>3. haspage' \in BOOLEAN /\ nfaults' \in Nat
  BY <1>2 DEF IInv, TypeOK, WriteFail, WriteNoPage, bounds, Fault
<1>4. PICK r \in Thrs : thr' = [thr EXCEPT ![t] = r]
  BY <1>1, <1>2, WriteErrEffect
<1>5. /\ calls' \in Seq(Calls) /\ PlacesInv' /\ OwnCall(t) /\ OtherCalls(t)
      /\ \A u \in Threads \ {t} : Stays(u)
  BY <1>1, <1>2, WriteErrEffect
<1>6. cb' \in Cbs /\ SameBytes
  BY <1>2, SameHere
<1>7. SleepInv' /\ sleep' \in [Ends -> Seq(Threads)]
  BY <1>1, <1>2, <1>5, SleepQuiet
<1> QED BY <1>1, <1>2, <1>3, <1>4, <1>5, <1>6, <1>7, QuietStep

\* A thread goes to sleep.
LEMMA SleepAppend ==
    ASSUME IInv, NEW t \in Threads, thr[t].pc # "asleep", NEW e \in Ends,
           sleep' = [sleep EXCEPT ![e] = Append(@, t)], SleeperOK(t, e)',
           \A u \in Threads \ {t} : Stays(u)
    PROVE  SleepInv' /\ sleep' \in [Ends -> Seq(Threads)]
<1>1. sleep \in [Ends -> Seq(Threads)]
  BY DEF IInv, TypeOK
<1>2. /\ sleep' \in [Ends -> Seq(Threads)] /\ sleep'[e] = Append(sleep[e], t)
      /\ \A x \in Ends \ {e} : sleep'[x] = sleep[x]
  BY <1>1, AppendProperties
<1>3. ASSUME NEW x \in Ends PROVE QueueOK(x)'
  <2>1. QueueOK(x) /\ sleep[x] \in Seq(Threads)
    BY <1>1, QueuesSleep DEF IInv
  <2>2. \A u \in Asleep(x) : u \in Threads \ {t} /\ Stays(u)
    BY <2>1 DEF QueueOK, SleeperOK, Asleep
  <2>3. CASE x = e
    BY <1>2, <2>1, <2>2, <2>3, QueueAppend DEF IInv
  <2>4. CASE x # e
    BY <1>2, <2>1, <2>2, <2>4, QueueSame
  <2> QED BY <2>3, <2>4
<1> QED BY <1>2, <1>3, QueuesSleep DEF SleepInv, QueueOK

LEMMA WriteWaitInv ==
    ASSUME IInv, NEW t \in Writers, WriteWait(t)
    PROVE  IInv'
<1>1. t \in Threads /\ thr[t].pc = "write" /\ ~closed /\ KillableWait(t, "w", thr[t])
  BY DEF Threads, WriteWait, At
<1>2. thr[t] \in Thrs /\ thr[t].id # 0 /\ CallOK(t)
  BY <1>1, InCall
<1>3. PICK r : r = [thr[t] EXCEPT !.pc = "asleep", !.slept = TRUE]
  OBVIOUS
<1>4. /\ r \in Thrs /\ r.pc = "asleep" /\ r.id = thr[t].id /\ r.off = thr[t].off /\ ~r.killed
  BY <1>1, <1>2, <1>3 DEF Thrs, KillableWait
<1>5. thr' = [thr EXCEPT ![t] = r] /\ sleep' = [sleep EXCEPT !["w"] = Append(@, t)]
  BY <1>1, <1>3 DEF KillableWait
<1>6. thr'[t] = r /\ \A u \in Threads \ {t} : Stays(u)
  BY <1>1, <1>4, <1>5, ThrExcept DEF IInv
<1>7. /\ cb' = cb /\ open' = open /\ closed' = closed /\ lent' = lent /\ haspage' = haspage
      /\ slots' = slots /\ allmask' = allmask /\ sent' = sent /\ rcvd' = rcvd /\ calls' = calls
      /\ npolls' = npolls /\ nfaults' = nfaults /\ panic' = panic
  BY DEF WriteWait, pipe, poll, bounds
<1>8. PICK e \in Ends : e = "w"
  BY DEF Ends
<1>9. SleeperOK(t, e)'
  BY <1>2, <1>4, <1>6, <1>8 DEF SleeperOK
<1>10. SleepInv' /\ sleep' \in [Ends -> Seq(Threads)]
  BY <1>1, <1>5, <1>6, <1>8, <1>9, SleepAppend
<1>11. OwnCall(t)
  BY <1>2, <1>4, <1>6, <1>7 DEF OwnCall, CallOK
<1>12. OtherCalls(t)
  BY <1>1, <1>7, OthersSame
<1>13. cb' \in Cbs /\ SameBytes
  BY <1>7, SameHere
<1>14. haspage' \in BOOLEAN /\ nfaults' \in Nat /\ calls' \in Seq(Calls) /\ PlacesInv'
  BY <1>7 DEF IInv, TypeOK, PlacesInv, CallPlaces
<1> QED BY <1>1, <1>4, <1>5, <1>7, <1>10, <1>11, <1>12, <1>13, <1>14, QuietStep

\* What a write still has to send.
LEMMA SrcOK ==
    ASSUME IInv, NEW t \in Threads, thr[t].pc = "write"
    PROVE  /\ Src(t) \in Seq(Byte) /\ Len(Src(t)) = calls[thr[t].id].size - thr[t].off
           /\ Len(Src(t)) \in Nat \ {0} /\ DOMAIN Src(t) = 1 .. Len(Src(t))
           /\ \A k \in 1 .. Len(Src(t)) : Src(t)[k][1] = thr[t].id
           /\ thr[t].off \in Nat /\ calls[thr[t].id].size \in Nat
<1>1. thr[t] \in Thrs /\ thr[t].id # 0 /\ CallOK(t)
  BY InCall
<1>2. PICK z \in Nat, f \in Nat, i \in 0 .. MaxWrites : z = calls[thr[t].id].size /\ f = thr[t].off /\ i = thr[t].id
  BY <1>1, CallTypes DEF Thrs, IInv, CallOK
<1>3. f < z
  BY <1>1, <1>2 DEF CallOK
<1>4. PICK n \in Nat \ {0} : n = z - f
  BY <1>2, <1>3
<1>5. Src(t) = [k \in 1 .. n |-> <<i, f + k>>]
  BY <1>2, <1>4 DEF Src
<1>6. \A k \in 1 .. n : <<i, f + k>> \in Byte
  BY <1>2 DEF Byte
<1>7. Src(t) \in [1 .. n -> Byte]
  BY <1>5, <1>6
<1>8. \A k \in 1 .. n : Src(t)[k][1] = i
  BY <1>5
<1>9. Src(t) \in Seq(Byte) /\ Len(Src(t)) = n /\ DOMAIN Src(t) = 1 .. n
  BY <1>7
<1> QED BY <1>2, <1>4, <1>8, <1>9

\* A copy into the buffer that fails moves no bytes.
LEMMA FaultBytes ==
    ASSUME IInv, NEW t \in Threads, thr[t].pc = "write", cb' = Copyin(cb, Src(t), TRUE).cb
    PROVE  cb' \in Cbs /\ SameBytes
<1>1. Src(t) \in Seq(Byte) /\ CbOK(cb, Byte) /\ cb.head \in Nat
  BY SrcOK, CbTypes DEF IInv
<1>2. PICK s \in Seq(Byte), f \in BOOLEAN, n \in Nat : s = Src(t) /\ f = TRUE /\ n = 0
  BY <1>1
<1>3. n = IF f THEN 0 ELSE IF Len(s) <= Left(cb) THEN Len(s) ELSE Left(cb)
  BY <1>2
<1>4. cb' = Copyin(cb, s, f).cb
  BY <1>2
<1>5. LET in == Copyin(cb, s, f) IN
      /\ CbOK(in.cb, Byte) /\ in.cb.tail = cb.tail /\ in.cb.head = cb.head + n
      /\ \A k \in 1 .. cb.head - cb.tail :
              in.cb.buf[(cb.tail + k - 1) % bufsz] = cb.buf[(cb.tail + k - 1) % bufsz]
  BY <1>1, <1>3, CopyinEffect
<1>6. cb.head + n = cb.head
  BY <1>1, <1>2
<1> QED BY <1>4, <1>5, <1>6 DEF SameBytes, CbOK, Cbs

LEMMA WriteFaultInv ==
    ASSUME IInv, NEW t \in Writers, WriteFault(t)
    PROVE  IInv'
<1>1. t \in Threads /\ thr[t].pc = "write" /\ ~closed /\ (WriteErr(t) \/ Restart(t))
  BY DEF Threads, WriteFault, At, MayWrite
<1>2. thr[t] \in Thrs /\ thr[t].id # 0 /\ CallOK(t)
  BY <1>1, InCall
<1>3. /\ open' = open /\ closed' = closed /\ lent' = lent /\ haspage' = TRUE
      /\ sleep' = sleep /\ slots' = slots /\ allmask' = allmask /\ sent' = sent /\ rcvd' = rcvd
      /\ npolls' = npolls /\ panic' = panic
  BY DEF WriteFault, poll
<1>4. haspage' \in BOOLEAN /\ nfaults' \in Nat
  BY <1>3 DEF IInv, TypeOK, WriteFault, Fault
<1>5. cb' \in Cbs /\ SameBytes
  BY <1>1, FaultBytes DEF WriteFault
<1>6. CASE WriteErr(t)
  <2>1. PICK r \in Thrs : thr' = [thr EXCEPT ![t] = r]
    BY <1>1, <1>3, <1>6, WriteErrEffect
  <2>2. /\ calls' \in Seq(Calls) /\ PlacesInv' /\ OwnCall(t) /\ OtherCalls(t)
        /\ \A u \in Threads \ {t} : Stays(u)
    BY <1>1, <1>3, <1>6, WriteErrEffect
  <2>3. SleepInv' /\ sleep' \in [Ends -> Seq(Threads)]
    BY <1>1, <1>3, <2>2, SleepQuiet
  <2> QED BY <1>1, <1>3, <1>4, <1>5, <2>1, <2>2, <2>3, QuietStep
<1>7. CASE Restart(t)
  <2>1. PICK r : r = [thr[t] EXCEPT !.off = 0, !.slept = FALSE]
    OBVIOUS
  <2>2. r \in Thrs /\ r.pc = "write" /\ r.id = thr[t].id /\ r.off = 0
    BY <1>1, <1>2, <2>1 DEF Thrs
  <2>3. thr' = [thr EXCEPT ![t] = r] /\ calls' = calls
    BY <1>7, <2>1 DEF Restart, IInv, TypeOK
  <2>4. thr'[t] = r /\ \A u \in Threads \ {t} : Stays(u)
    BY <1>1, <2>2, <2>3, ThrExcept DEF IInv
  <2>5. OwnCall(t)
    <3>1. 0 < calls[thr[t].id].size
      BY <1>2, CallTypes DEF CallOK, IInv
    <3> QED BY <1>2, <2>2, <2>3, <2>4, <3>1 DEF OwnCall, CallOK
  <2>6. OtherCalls(t)
    BY <1>1, <2>3, OthersSame
  <2>7. SleepInv' /\ sleep' \in [Ends -> Seq(Threads)]
    BY <1>1, <1>3, <2>4, SleepQuiet
  <2>8. calls' \in Seq(Calls) /\ PlacesInv'
    BY <1>3, <2>3 DEF IInv, TypeOK, PlacesInv, CallPlaces
  <2> QED BY <1>1, <1>3, <1>4, <1>5, <2>2, <2>3, <2>5, <2>6, <2>7, <2>8, QuietStep
<1> QED BY <1>1, <1>6, <1>7

(***************************************************************************)
(* Reading.                                                                *)
(***************************************************************************)
LEMMA InReadOK ==
    ASSUME IInv, NEW t \in Readers, NEW sz \in ReadSizes, NEW noblk \in BOOLEAN, InRead(t, sz, noblk)
    PROVE  /\ t \in Threads /\ thr[t].pc \in {"idle", "read"} /\ thr[t] \in Thrs
           /\ thr[t].id = 0 /\ thr[t].off = 0
<1>1. t \in Threads /\ thr[t].pc \in {"idle", "read"}
  BY DEF InRead, At, Threads
<1> QED BY <1>1, OutOfCall

LEMMA ReadFailInv ==
    ASSUME IInv, NEW t \in Readers, NEW sz \in ReadSizes, NEW noblk \in BOOLEAN,
           ReadFail(t, sz, noblk) \/ ReadFault(t, sz, noblk)
    PROVE  IInv'
<1>1. InRead(t, sz, noblk)
  BY DEF ReadFail, ReadFault
<1>2. /\ t \in Threads /\ thr[t].pc \in {"idle", "read"} /\ thr[t] \in Thrs
      /\ thr[t].id = 0 /\ thr[t].off = 0
  BY <1>1, InReadOK
<1>3. /\ cb' = cb /\ open' = open /\ closed' = closed /\ lent' = lent
      /\ sleep' = sleep /\ slots' = slots /\ allmask' = allmask /\ sent' = sent /\ rcvd' = rcvd
      /\ calls' = calls /\ npolls' = npolls /\ panic' = panic
  BY DEF ReadFail, ReadFault, pipe, poll, bounds
<1>4. haspage' \in BOOLEAN /\ nfaults' \in Nat /\ (closed => haspage' = haspage)
  <2>1. haspage \in BOOLEAN /\ nfaults \in Nat
    BY DEF IInv, TypeOK
  <2>2. CASE ReadFail(t, sz, noblk)
    BY <2>1, <2>2 DEF ReadFail, pipe, bounds
  <2>3. CASE ReadFault(t, sz, noblk)
    <3>1. haspage' \in {haspage, TRUE} /\ ~closed /\ nfaults' = nfaults + 1
      BY <2>3 DEF ReadFault, Fault, MayRead
    <3>2. nfaults' \in Nat
      BY <2>1, <3>1
    <3> QED BY <2>1, <3>1, <3>2, Zenon
  <2> QED BY <2>2, <2>3
<1>5. PICK r \in Thrs : thr' = [thr EXCEPT ![t] = r] /\ r.id = 0 /\ r.off = 0 /\ r.pc # "write"
  <2>1. CASE Return(t)
    BY <1>2, <2>1, ReturnedOK DEF Return
  <2>2. CASE thr' = [thr EXCEPT ![t] = [@ EXCEPT !.pc = "read", !.want = sz, !.noblk = noblk,
                                                !.slept = FALSE]]
    <3>1. PICK r : r = [thr[t] EXCEPT !.pc = "read", !.want = sz, !.noblk = noblk, !.slept = FALSE]
      OBVIOUS
    <3>2. sz \in Nat
      BY PipeAssumption
    <3>3. r \in Thrs /\ r.id = 0 /\ r.off = 0 /\ r.pc # "write"
      BY <1>2, <3>1, <3>2 DEF Thrs
    <3> QED BY <2>2, <3>1, <3>3
  <2> QED BY <2>1, <2>2 DEF ReadFail, ReadFault
<1>6. thr'[t] = r /\ \A u \in Threads \ {t} : Stays(u)
  BY <1>2, <1>5, ThrExcept DEF IInv
<1>7. OwnCall(t) /\ OtherCalls(t)
  BY <1>2, <1>3, <1>5, <1>6, NoCall, OthersSame
<1>8. SleepInv' /\ sleep' \in [Ends -> Seq(Threads)]
  BY <1>2, <1>3, <1>6, SleepQuiet
<1>9. calls' \in Seq(Calls) /\ PlacesInv'
  BY <1>3 DEF IInv, TypeOK, PlacesInv, CallPlaces
<1>10. cb' \in Cbs /\ SameBytes
  BY <1>3, SameHere
<1> QED BY <1>2, <1>3, <1>4, <1>5, <1>7, <1>8, <1>9, <1>10, QuietStep

LEMMA ReadWaitInv ==
    ASSUME IInv, NEW t \in Readers, NEW sz \in ReadSizes, ReadWait(t, sz)
    PROVE  IInv'
<1>1. InRead(t, sz, FALSE) /\ ~closed /\ KillableWait(t, "r", [thr[t] EXCEPT !.want = sz])
  BY DEF ReadWait
<1>2. PICK noblk \in BOOLEAN : noblk = FALSE
  OBVIOUS
<1>3. /\ t \in Threads /\ thr[t].pc \in {"idle", "read"} /\ thr[t] \in Thrs
      /\ thr[t].id = 0 /\ thr[t].off = 0
  BY <1>1, <1>2, InReadOK
<1>4. PICK r : r = [[thr[t] EXCEPT !.want = sz] EXCEPT !.pc = "asleep", !.slept = TRUE]
  OBVIOUS
<1>5. r \in Thrs /\ r.pc = "asleep" /\ r.id = 0 /\ r.off = 0 /\ ~r.killed
  <2>1. sz \in Nat
    BY PipeAssumption
  <2>2. PICK x : x = [thr[t] EXCEPT !.want = sz]
    OBVIOUS
  <2>3. x \in Thrs /\ x.id = 0 /\ x.off = 0 /\ ~x.killed
    BY <1>1, <1>3, <2>1, <2>2 DEF Thrs, KillableWait
  <2> QED BY <1>4, <2>2, <2>3 DEF Thrs
<1>6. thr' = [thr EXCEPT ![t] = r] /\ sleep' = [sleep EXCEPT !["r"] = Append(@, t)]
  BY <1>1, <1>4 DEF KillableWait
<1>7. thr'[t] = r /\ \A u \in Threads \ {t} : Stays(u)
  BY <1>3, <1>5, <1>6, ThrExcept DEF IInv
<1>8. /\ cb' = cb /\ open' = open /\ closed' = closed /\ lent' = lent /\ haspage' = haspage
      /\ slots' = slots /\ allmask' = allmask /\ sent' = sent /\ rcvd' = rcvd /\ calls' = calls
      /\ npolls' = npolls /\ nfaults' = nfaults /\ panic' = panic
  BY DEF ReadWait, pipe, poll, bounds
<1>9. PICK e \in Ends : e = "r"
  BY DEF Ends
<1>10. SleeperOK(t, e)'
  BY <1>5, <1>7, <1>9 DEF SleeperOK
<1>11. SleepInv' /\ sleep' \in [Ends -> Seq(Threads)]
  BY <1>3, <1>6, <1>7, <1>9, <1>10, SleepAppend
<1>12. OwnCall(t) /\ OtherCalls(t)
  BY <1>3, <1>5, <1>7, <1>8, NoCall, OthersSame
<1>13. cb' \in Cbs /\ SameBytes
  BY <1>8, SameHere
<1>14. haspage' \in BOOLEAN /\ nfaults' \in Nat /\ calls' \in Seq(Calls) /\ PlacesInv'
  BY <1>8 DEF IInv, TypeOK, PlacesInv, CallPlaces
<1>15. thr[t].pc \in {"idle", "read", "write"}
  BY <1>3
<1> QED BY <1>1, <1>3, <1>5, <1>6, <1>8, <1>11, <1>12, <1>13, <1>14, <1>15, QuietStep

(***************************************************************************)
(* Transfers.                                                              *)
(***************************************************************************)
\* What the two have in common: bytes have moved, one sleeper of the other end
\* wakes up, its pollers are notified.
LEMMA CopyStep ==
    ASSUME IInv, ~closed, NEW t \in Threads, thr[t].pc \in {"idle", "read", "write"}, NEW r \in Thrs,
           NEW e \in Ends, thr' = Notified(Awake([thr EXCEPT ![t] = r], Signal(e), e), e),
           sleep' = [sleep EXCEPT ![e] = Without(@, Signal(e))], Cleared(e),
           CbOK(cb', Byte), haspage' \in BOOLEAN, open' = open, closed' = closed, lent' = lent,
           sent' \in Seq(Byte), rcvd' \in Seq(Byte), calls' \in Seq(Calls),
           npolls' = npolls, nfaults' = nfaults, panic' = panic,
           thr'[t] = r => OwnCall(t), OtherCalls(t), StreamInv', PlacesInv',
           \A x \in Ends \ {e} : Blocked(x) => Blocked(x)'
    PROVE  IInv'
<1>1. /\ thr' \in [Threads -> Thrs] /\ thr'[t] = r
      /\ \A u \in Threads \ {t} :
            /\ Nudged(u) /\ (u \notin Signal(e) => Stays(u))
            /\ u \in Wakeready(e) => thr'[u].notif
            /\ thr[u].pc # "asleep" => thr'[u].pc = thr[u].pc
  BY CopyThreads
<1>2. PollInv' /\ slots' \in [1 .. NSlots -> Slots] /\ allmask' \subseteq Mask
  BY <1>1, PollCopy
<1>3. CallsInv'
  BY <1>1, CallsStep DEF IInv
<1>4. sleep \in [Ends -> Seq(Threads)] /\ \A x \in Ends : QueueOK(x)
  BY QueuesSleep DEF IInv, TypeOK
<1>5. sleep'[e] = Without(sleep[e], Signal(e)) /\ \A x \in Ends \ {e} : sleep'[x] = sleep[x]
  BY <1>4
<1>6. \A x \in Ends : \A u \in Asleep(x) : u \in Threads \ {t} /\ SleeperOK(u, x)
  BY <1>4 DEF QueueOK, SleeperOK, Asleep
<1>7. QueueOK(e)' /\ sleep'[e] \in Seq(Threads) /\ Signal(e) \subseteq Asleep(e)
  <2>1. \A u \in Asleep(e) \ Signal(e) : Stays(u)
    BY <1>1, <1>6
  <2> QED BY <1>4, <1>5, <2>1, QueueSignal DEF IInv
<1>8. ASSUME NEW x \in Ends \ {e} PROVE QueueOK(x)'
  <2>1. ASSUME NEW u \in Asleep(x) PROVE Stays(u)
    <3>1. SleeperOK(u, x) /\ (u \in Signal(e) => SleeperOK(u, e))
      BY <1>6, <1>7, <2>1
    <3>2. u \notin Signal(e)
      BY <3>1 DEF SleeperOK, Ends
    <3> QED BY <1>1, <1>6, <2>1, <3>2
  <2> QED BY <1>4, <1>5, <2>1, QueueSame
<1>9. SleepInv'
  BY <1>7, <1>8, QueuesSleep DEF SleepInv, QueueOK
<1>10. sleep' \in [Ends -> Seq(Threads)]
  BY <1>4, <1>7
<1>11. TypeOK'
  BY <1>1, <1>2, <1>10 DEF IInv, TypeOK, CbOK, Cbs
<1>12. OpenInv'
  BY DEF IInv, OpenInv
<1> QED BY <1>2, <1>3, <1>9, <1>11, <1>12 DEF IInv

LEMMA WriteCopyInv ==
    ASSUME IInv, NEW t \in Writers, WriteCopy(t)
    PROVE  IInv'
<1>1. t \in Threads /\ thr[t].pc = "write" /\ ~closed /\ Left(cb) >= Need(t)
  BY DEF Threads, WriteCopy, At, MayWrite
<1>2. thr[t] \in Thrs /\ thr[t].id # 0 /\ CallOK(t)
  BY <1>1, InCall
<1>3. /\ Src(t) \in Seq(Byte) /\ Len(Src(t)) = calls[thr[t].id].size - thr[t].off
      /\ Len(Src(t)) \in Nat \ {0} /\ DOMAIN Src(t) = 1 .. Len(Src(t))
      /\ \A k \in 1 .. Len(Src(t)) : Src(t)[k][1] = thr[t].id
      /\ thr[t].off \in Nat /\ calls[thr[t].id].size \in Nat
  BY <1>1, SrcOK
<1>4. PICK src \in Seq(Byte), f \in BOOLEAN : src = Src(t) /\ f = FALSE
  BY <1>3
<1>5. PICK len \in Nat \ {0}, left \in Nat, z \in Nat, off \in Nat :
        /\ len = Len(src) /\ left = Left(cb) /\ z = calls[thr[t].id].size /\ off = thr[t].off
        /\ len = z - off
  <2>1. PICK left \in Nat : left = Left(cb)
    BY CbTypes DEF IInv
  <2> QED BY <1>3, <1>4, <2>1
<1>6. Need(t) = IF len <= bufsz THEN len ELSE IF thr[t].noblk THEN 1 ELSE bufsz
  BY <1>4, <1>5 DEF Need
<1>7. left >= 1 /\ left <= bufsz /\ bufsz \in Nat \ {0} /\ (len <= bufsz => len <= left)
  BY <1>1, <1>5, <1>6, CbTypes DEF IInv
<1>8. PICK n \in Nat : n = IF len <= left THEN len ELSE left
  OBVIOUS
<1>9. n \in 1 .. len
  BY <1>7, <1>8
<1>10. n = IF f THEN 0 ELSE IF Len(src) <= Left(cb) THEN Len(src) ELSE Left(cb)
  BY <1>4, <1>5, <1>8
<1>11. CbOK(cb, Byte)
  BY CbTypes DEF IInv
<1>12. PICK in : in = Copyin(cb, src, f)
  OBVIOUS
<1>13. /\ in.n = n /\ ~in.wut
       /\ CbOK(in.cb, Byte) /\ in.cb.tail = cb.tail /\ in.cb.head = cb.head + n
       /\ \A k \in 1 .. cb.head - cb.tail :
                in.cb.buf[(cb.tail + k - 1) % bufsz] = cb.buf[(cb.tail + k - 1) % bufsz]
       /\ \A k \in 1 .. n : in.cb.buf[(cb.head + k - 1) % bufsz] = src[k]
  BY <1>10, <1>11, <1>12, CopyinEffect
<1>14. PICK s : s = SubSeq(src, 1, n)
  OBVIOUS
<1>15. s \in Seq(Byte) /\ Len(s) = n /\ \A k \in 1 .. n : s[k] = src[k]
  <2>1. \A k \in 1 .. n : src[k] \in Byte
    <3>1. \A k \in 1 .. n : k \in 1 .. Len(src)
      BY <1>5, <1>9
    <3> QED BY <3>1, ElementOfSeq
  <2> QED BY <1>9, <1>14, <2>1, SubSeqProperties
<1>16. PICK ended \in BOOLEAN : ended <=> thr[t].noblk \/ off + n = z
  OBVIOUS
<1>17. PICK r : r = IF ended THEN Returned(thr[t]) ELSE [thr[t] EXCEPT !.off = off + n, !.slept = FALSE]
  OBVIOUS
<1>18. PICK e \in Ends : e = "r"
  BY DEF Ends
<1>19. /\ cb' = in.cb /\ haspage' = TRUE /\ panic' = "none" /\ sent' = sent \o s
       /\ thr' = Notified(Awake([thr EXCEPT ![t] = r], Signal(e), e), e)
       /\ calls' = IF ended THEN [calls EXCEPT ![thr[t].id].done = "ok"] ELSE calls
  <2>1. in = Copyin(cb, Src(t), FALSE)
    BY <1>4, <1>12
  <2>2. thr[t].off + in.n = off + n /\ calls[thr[t].id].size = z
    BY <1>5, <1>13
  <2>3. [thr EXCEPT ![t] = r] =
            [thr EXCEPT ![t] = IF ended THEN Returned(@) ELSE [@ EXCEPT !.off = off + n, !.slept = FALSE]]
    BY <1>17
  <2> QED BY <1>4, <1>5, <1>13, <1>14, <1>16, <1>18, <2>1, <2>2, <2>3 DEF WriteCopy
<1>20. /\ sleep' = [sleep EXCEPT ![e] = Without(@, Signal(e))] /\ Cleared(e)
       /\ open' = open /\ closed' = closed /\ lent' = lent /\ rcvd' = rcvd
       /\ npolls' = npolls /\ nfaults' = nfaults
  BY <1>18 DEF WriteCopy, bounds
<1>21. /\ r \in Thrs /\ (ended => r.id = 0 /\ r.off = 0 /\ r.pc = "idle")
       /\ (~ended => r.id = thr[t].id /\ r.off = off + n /\ r.pc = "write")
  <2>1. CASE ended
    BY <1>2, <1>17, <2>1, ReturnedOK
  <2>2. CASE ~ended
    <3>1. PICK m \in Nat : m = off + n
      OBVIOUS
    <3> QED BY <1>1, <1>2, <1>17, <2>2, <3>1 DEF Thrs
  <2> QED BY <2>1, <2>2
<1>22. PICK i \in DOMAIN calls : i = thr[t].id /\ calls[i].done = "no" /\ calls[i].size = z
  BY <1>2, <1>5 DEF CallOK
<1>23. z <= bufsz => ended /\ n = z
  <2> SUFFICES ASSUME z <= bufsz PROVE ended /\ n = z
    OBVIOUS
  <2>1. off = 0
    BY <1>2, <1>5 DEF CallOK
  <2>2. len = z /\ n = len /\ off + n = z
    BY <1>5, <1>7, <1>8, <2>1
  <2> QED BY <1>16, <2>2
<1>24. /\ calls' \in Seq(Calls) /\ DOMAIN calls' = DOMAIN calls
       /\ \A j \in DOMAIN calls \ {i} : calls'[j] = calls[j]
       /\ ~ended => calls' = calls
  <2>1. CASE ended
    <3>1. calls' = [calls EXCEPT ![i].done = "ok"] /\ "ok" \in {"ok", "err"}
      BY <1>19, <1>22, <2>1
    <3> QED BY <2>1, <3>1, CallDone DEF IInv
  <2>2. CASE ~ended
    BY <1>19, <2>2 DEF IInv, TypeOK
  <2> QED BY <2>1, <2>2
<1>25. OtherCalls(t)
  BY <1>1, <1>2, <1>22, <1>24, OthersDone
<1>26. ASSUME thr'[t] = r PROVE OwnCall(t)
  <2>1. CASE ended
    BY <1>21, <1>26, <2>1 DEF OwnCall
  <2>2. CASE ~ended
    <3>1. off + n < z /\ ~(z <= bufsz)
      BY <1>5, <1>9, <1>16, <1>23, <2>2
    <3> QED BY <1>2, <1>21, <1>22, <1>24, <1>26, <2>2, <3>1 DEF OwnCall, CallOK
  <2> QED BY <2>1, <2>2
<1>27. PlacesInv'
  <2>1. \A k \in 1 .. Len(s) : s[k][1] = i
    <3>1. \A k \in 1 .. n : k \in 1 .. Len(Src(t))
      BY <1>4, <1>5, <1>9
    <3> QED BY <1>3, <1>4, <1>15, <1>22, <3>1
  <2>2. calls[i].size <= bufsz => ended /\ Len(s) = calls[i].size
    BY <1>15, <1>22, <1>23
  <2>3. calls' = IF ended THEN [calls EXCEPT ![i].done = "ok"] ELSE calls
    BY <1>19, <1>22
  <2> QED BY <1>15, <1>19, <1>22, <2>1, <2>2, <2>3, PlacesCopy DEF IInv
<1>28. StreamInv'
  <2>1. /\ cb'.tail = cb.tail /\ cb'.head = cb.head + Len(s)
        /\ \A k \in 1 .. cb.head - cb.tail :
                cb'.buf[(cb.tail + k - 1) % bufsz] = cb.buf[(cb.tail + k - 1) % bufsz]
        /\ \A k \in 1 .. Len(s) : cb'.buf[(cb.head + k - 1) % bufsz] = s[k]
    BY <1>13, <1>15, <1>19
  <2> QED BY <1>1, <1>15, <1>19, <1>20, <2>1, StreamIn DEF IInv
<1>29. \A x \in Ends \ {e} : Blocked(x) => Blocked(x)'
  <2>1. ~Full(cb)
    BY <1>5, <1>7, CbTypes DEF IInv, Full
  <2> QED BY <1>18, <2>1 DEF Blocked, Ends
<1>30. sent' \in Seq(Byte) /\ rcvd' \in Seq(Byte)
  BY <1>15, <1>19, <1>20, ConcatProperties DEF IInv, TypeOK
<1>31. CbOK(cb', Byte) /\ haspage' \in BOOLEAN /\ panic' = panic /\ thr[t].pc \in {"idle", "read", "write"}
  BY <1>1, <1>13, <1>19 DEF IInv, StreamInv
<1> QED BY <1>1, <1>19, <1>20, <1>21, <1>24, <1>25, <1>26, <1>27, <1>28, <1>29, <1>30, <1>31, CopyStep

LEMMA ReadCopyInv ==
    ASSUME IInv, NEW t \in Readers, NEW sz \in ReadSizes, NEW noblk \in BOOLEAN, ReadCopy(t, sz, noblk)
    PROVE  IInv'
<1>1. InRead(t, sz, noblk) /\ ~closed
  BY DEF ReadCopy, MayRead
<1>2. /\ t \in Threads /\ thr[t].pc \in {"idle", "read"} /\ thr[t] \in Thrs
      /\ thr[t].id = 0 /\ thr[t].off = 0
  BY <1>1, InReadOK
<1>3. PICK room \in Nat : room = sz
  BY PipeAssumption
<1>4. PICK u \in Nat : u = cb.head - cb.tail
  BY CbTypes DEF IInv
<1>5. PICK n : n = IF room <= cb.head - cb.tail THEN room ELSE cb.head - cb.tail
  OBVIOUS
<1>6. PICK out : out = Copyout(cb, room)
  OBVIOUS
<1>7. CbOK(cb, Byte)
  BY CbTypes DEF IInv
<1>8. /\ ~out.wut /\ n \in 0 .. cb.head - cb.tail
      /\ CbOK(out.cb, Byte) /\ out.cb.buf = cb.buf
      /\ out.cb.tail = cb.tail + n /\ out.cb.head = cb.head
      /\ out.bytes \in Seq(Byte) /\ Len(out.bytes) = n
      /\ \A k \in 1 .. n : out.bytes[k] = cb.buf[(cb.tail + k - 1) % bufsz]
  <2>1. LET o == Copyout(cb, room) IN
        /\ ~o.wut /\ n \in 0 .. cb.head - cb.tail
        /\ CbOK(o.cb, Byte) /\ o.cb.buf = cb.buf
        /\ o.cb.tail = cb.tail + n /\ o.cb.head = cb.head
        /\ o.bytes \in Seq(Byte) /\ Len(o.bytes) = n
        /\ \A k \in 1 .. n : o.bytes[k] = cb.buf[(cb.tail + k - 1) % bufsz]
    BY <1>5, <1>7, CopyoutEffect
  <2> QED BY <1>6, <2>1
<1>9. PICK s \in Seq(Byte) : s = out.bytes
  BY <1>8
<1>10. PICK r \in Thrs : r = Returned(thr[t]) /\ r.id = 0 /\ r.off = 0 /\ r.pc = "idle"
  BY <1>2, ReturnedOK
<1>11. PICK e \in Ends : e = "w"
  BY DEF Ends
<1>12. /\ cb' = out.cb /\ haspage' = TRUE /\ panic' = "none" /\ rcvd' = rcvd \o s
       /\ thr' = Notified(Awake([thr EXCEPT ![t] = r], Signal(e), e), e)
  <2>1. [thr EXCEPT ![t] = r] = [thr EXCEPT ![t] = Returned(@)]
    BY <1>10
  <2> QED BY <1>3, <1>6, <1>8, <1>9, <1>11, <2>1 DEF ReadCopy
<1>13. /\ sleep' = [sleep EXCEPT ![e] = Without(@, Signal(e))] /\ Cleared(e)
       /\ open' = open /\ closed' = closed /\ lent' = lent /\ sent' = sent /\ calls' = calls
       /\ npolls' = npolls /\ nfaults' = nfaults
  BY <1>11 DEF ReadCopy, bounds
<1>14. thr'[t] = r => OwnCall(t)
  BY <1>10, NoCall
<1>15. OtherCalls(t)
  BY <1>2, <1>13, OthersSame
<1>16. calls' \in Seq(Calls) /\ PlacesInv'
  BY <1>13 DEF IInv, TypeOK, PlacesInv, CallPlaces
<1>17. StreamInv'
  <2>1. /\ Len(s) \in 0 .. cb.head - cb.tail
        /\ cb'.head = cb.head /\ cb'.tail = cb.tail + Len(s) /\ cb'.buf = cb.buf
        /\ \A k \in 1 .. Len(s) : s[k] = cb.buf[(cb.tail + k - 1) % bufsz]
    BY <1>8, <1>9, <1>12
  <2> QED BY <1>1, <1>9, <1>12, <1>13, <2>1, StreamOut DEF IInv
<1>18. \A x \in Ends \ {e} : Blocked(x) => Blocked(x)'
  <2>1. ASSUME Empty(cb) PROVE Empty(cb')
    <3>1. cb.head = cb.tail /\ cb.head \in Nat
      BY <2>1, CbTypes DEF IInv, Empty
    <3>2. n = 0
      BY <1>8, <3>1
    <3> QED BY <1>8, <1>12, <3>1, <3>2 DEF Empty
  <2> QED BY <1>11, <2>1 DEF Blocked, Ends
<1>19. sent' \in Seq(Byte) /\ rcvd' \in Seq(Byte)
  BY <1>9, <1>12, <1>13, ConcatProperties DEF IInv, TypeOK
<1>20. CbOK(cb', Byte) /\ haspage' \in BOOLEAN /\ panic' = panic /\ thr[t].pc \in {"idle", "read", "write"}
  BY <1>2, <1>8, <1>12 DEF IInv, StreamInv
<1> QED BY <1>1, <1>2, <1>12, <1>13, <1>14, <1>15, <1>16, <1>17, <1>18, <1>19, <1>20, CopyStep

(***************************************************************************)
(* poll.                                                                   *)
(***************************************************************************)
\* The slots after a step of thread t that polls.
LEMMA SlotsStep ==
    ASSUME TypeOK, NEW t \in Threads, PollInv, \A u \in Threads \ {t} : thr'[u] = thr[u],
           cb' = cb, open' = open, allmask \subseteq allmask',
           NEW i \in 1 .. NSlots, slots'[i] = slots[i], slots[i].ch # t
    PROVE  SlotOK(i)'
<1>1. SlotOK(i)
  BY DEF PollInv
<1>2. CASE slots[i].ch = NoThread
  BY <1>2 DEF SlotOK
<1>3. CASE slots[i].ch # NoThread
  <2>1. PICK u \in Threads \ {t} : u = slots[i].ch /\ thr'[u] = thr[u]
    BY <1>3, SlotTypes
  <2> QED BY <1>1, <1>3, <2>1 DEF SlotOK, Blocked
<1> QED BY <1>2, <1>3

\* A step of a poll that leaves the pipe alone.
LEMMA PollStep ==
    ASSUME IInv, NEW t \in Threads, thr[t].pc \in {"idle", "poll", "pollwait"},
           NEW r \in Thrs, thr' = [thr EXCEPT ![t] = r], r.id = 0, r.off = 0,
           r.pc # "write", cb' = cb, open' = open, closed' = closed, lent' = lent, haspage' = haspage,
           sleep' = sleep, sent' = sent, rcvd' = rcvd, calls' = calls,
           slots' \in [1 .. NSlots -> Slots], allmask' \subseteq Mask, PollInv',
           npolls' \in Nat, nfaults' = nfaults, panic' = panic
    PROVE  IInv'
<1>1. /\ thr' \in [Threads -> Thrs] /\ thr'[t] = r
      /\ \A u \in Threads \ {t} : thr'[u] = thr[u] /\ Nudged(u) /\ Stays(u)
  BY ThrExcept DEF IInv
<1>2. TypeOK'
  BY <1>1 DEF IInv, TypeOK
<1>3. StreamInv'
  BY SameHere, StreamSame DEF IInv
<1>4. OwnCall(t) /\ OtherCalls(t)
  BY <1>1, NoCall, OthersSame
<1>5. CallsInv'
  BY <1>1, <1>4, CallsStep DEF IInv
<1>6. SleepInv'
  BY <1>1, SleepQuiet
<1>7. PlacesInv'
  BY DEF IInv, PlacesInv, CallPlaces
<1>8. OpenInv'
  BY DEF IInv, OpenInv
<1> QED BY <1>2, <1>3, <1>5, <1>6, <1>7, <1>8 DEF IInv

\* Who returns from poll leaves no channel behind.
LEMMA PollReturnEffect ==
    ASSUME IInv, NEW t \in Threads, PollReturn(t), cb' = cb, open' = open, allmask \subseteq allmask'
    PROVE  /\ \E r \in Thrs : /\ thr' = [thr EXCEPT ![t] = r] /\ r.id = 0 /\ r.off = 0
                              /\ r.pc # "write"
           /\ slots' \in [1 .. NSlots -> Slots] /\ PollInv'
<1>1. thr[t] \in Thrs /\ slots \in [1 .. NSlots -> Slots]
  BY DEF IInv, TypeOK
<1>2. PICK r \in Thrs : r = Returned(thr[t]) /\ r.id = 0 /\ r.off = 0 /\ r.pc = "idle"
  BY <1>1, ReturnedOK
<1>3. thr' = [thr EXCEPT ![t] = r]
  BY <1>2 DEF PollReturn, Return
<1>4. \A u \in Threads \ {t} : thr'[u] = thr[u]
  BY <1>2, <1>3, ThrExcept DEF IInv
<1>5. slots' = [i \in 1 .. NSlots |-> IF slots[i].ch = t THEN [slots[i] EXCEPT !.ch = NoThread]
                                      ELSE slots[i]]
  BY DEF PollReturn
<1>6. \A s \in Slots : [s EXCEPT !.ch = NoThread] \in Slots /\ [s EXCEPT !.ch = NoThread].ch = NoThread
  BY DEF Slots
<1>7. slots' \in [1 .. NSlots -> Slots]
  BY <1>1, <1>5, <1>6
<1>8. ASSUME NEW i \in 1 .. NSlots PROVE SlotOK(i)'
  <2>1. CASE slots[i].ch = t
    <3>1. slots'[i].ch = NoThread
      BY <1>1, <1>5, <1>6, <2>1
    <3> QED BY <3>1 DEF SlotOK
  <2>2. CASE slots[i].ch # t
    <3>1. slots'[i] = slots[i]
      BY <1>5, <2>2
    <3> QED BY <1>4, <2>2, <3>1, SlotsStep DEF IInv
  <2> QED BY <2>1, <2>2
<1>9. PollInv'
  BY <1>8 DEF PollInv
<1> QED BY <1>2, <1>3, <1>7, <1>9

\* The loop over the descriptors: a new call has no slot yet, one that goes on
\* has slots for the same end only.
LEMMA ScanOK ==
    ASSUME IInv, NEW t \in Threads, NEW e \in Ends, Scan(t, e)
    PROVE  /\ thr[t].pc \in {"idle", "poll"} /\ thr[t] \in Thrs /\ thr[t].id = 0 /\ thr[t].off = 0
           /\ npolls' \in Nat /\ t # NoThread
           /\ \A i \in 1 .. NSlots : slots[i].ch = t => thr[t].end = e /\ slots[i].events = Events(e)
<1>1. thr[t].pc \in {"idle", "poll"} /\ npolls' \in {npolls, npolls + 1} /\ npolls \in Nat
  BY DEF Scan, At, IInv, TypeOK
<1>2. thr[t] \in Thrs /\ thr[t].id = 0 /\ thr[t].off = 0
  BY <1>1, OutOfCall
<1>3. t # NoThread
  BY PipeAssumption
<1>4. ASSUME NEW i \in 1 .. NSlots, slots[i].ch = t
      PROVE  thr[t].end = e /\ slots[i].events = Events(e)
  <2>1. thr[t].pc \in {"poll", "pollwait"} /\ slots[i].events = Events(thr[t].end)
    BY <1>3, <1>4 DEF IInv, PollInv, SlotOK
  <2>2. thr[t].end = e
    BY <2>1 DEF Scan, At
  <2> QED BY <2>1, <2>2
<1> QED BY <1>1, <1>2, <1>3, <1>4

LEMMA PollReadyInv ==
    ASSUME IInv, NEW t \in Pollers, NEW e \in Ends, PollReady(t, e)
    PROVE  IInv'
<1>1. t \in Threads /\ Scan(t, e) /\ PollReturn(t)
  BY DEF Threads, PollReady
<1>2. /\ cb' = cb /\ open' = open /\ closed' = closed /\ lent' = lent /\ haspage' = haspage
      /\ sleep' = sleep /\ allmask' = allmask /\ sent' = sent /\ rcvd' = rcvd /\ calls' = calls
      /\ nfaults' = nfaults /\ panic' = panic
  BY DEF PollReady, pipe
<1>3. thr[t].pc \in {"idle", "poll", "pollwait"} /\ npolls' \in Nat
  BY <1>1, ScanOK
<1>4. allmask' \subseteq Mask
  BY <1>2 DEF IInv, TypeOK
<1>5. PICK r \in Thrs : thr' = [thr EXCEPT ![t] = r] /\ r.id = 0 /\ r.off = 0 /\ r.pc # "write"
  BY <1>1, <1>2, PollReturnEffect
<1>6. slots' \in [1 .. NSlots -> Slots] /\ PollInv'
  BY <1>1, <1>2, PollReturnEffect
<1> QED BY <1>1, <1>2, <1>3, <1>4, <1>5, <1>6, PollStep

LEMMA PollEndInv ==
    ASSUME IInv, NEW t \in Pollers, PollEnd(t)
    PROVE  IInv'
<1>1. t \in Threads /\ thr[t].pc = "pollwait" /\ PollReturn(t)
  BY DEF Threads, PollEnd, At
<1>2. /\ cb' = cb /\ open' = open /\ closed' = closed /\ lent' = lent /\ haspage' = haspage
      /\ sleep' = sleep /\ allmask' = allmask /\ sent' = sent /\ rcvd' = rcvd /\ calls' = calls
      /\ npolls' = npolls /\ nfaults' = nfaults /\ panic' = panic
  BY DEF PollEnd, pipe, bounds
<1>3. thr[t].pc \in {"idle", "poll", "pollwait"}
  BY <1>1
<1>4. allmask' \subseteq Mask /\ npolls' \in Nat
  BY <1>2 DEF IInv, TypeOK
<1>5. PICK r \in Thrs : thr' = [thr EXCEPT ![t] = r] /\ r.id = 0 /\ r.off = 0 /\ r.pc # "write"
  BY <1>1, <1>2, PollReturnEffect
<1>6. slots' \in [1 .. NSlots -> Slots] /\ PollInv'
  BY <1>1, <1>2, PollReturnEffect
<1> QED BY <1>1, <1>2, <1>3, <1>4, <1>5, <1>6, PollStep

LEMMA PollGoneInv ==
    ASSUME IInv, NEW t \in Pollers, NEW e \in Ends, PollGone(t, e)
    PROVE  IInv'
<1>1. t \in Threads /\ Scan(t, e) /\ open[e] = 0
  BY DEF Threads, PollGone
<1>2. /\ cb' = cb /\ open' = open /\ closed' = closed /\ lent' = lent /\ haspage' = haspage
      /\ sleep' = sleep /\ slots' = slots /\ allmask' = allmask /\ sent' = sent /\ rcvd' = rcvd
      /\ calls' = calls /\ nfaults' = nfaults /\ panic' = panic
  BY DEF PollGone, pipe, poll
<1>3. /\ thr[t].pc \in {"idle", "poll", "pollwait"} /\ npolls' \in Nat /\ thr[t] \in Thrs
      /\ thr[t].id = 0 /\ thr[t].off = 0 /\ t # NoThread
      /\ \A i \in 1 .. NSlots : slots[i].ch = t => thr[t].end = e /\ slots[i].events = Events(e)
  BY <1>1, ScanOK
<1>4. allmask' \subseteq Mask /\ slots' \in [1 .. NSlots -> Slots]
  BY <1>2 DEF IInv, TypeOK
<1>5. PICK r : r = [thr[t] EXCEPT !.pc = "pollwait", !.end = e]
  OBVIOUS
<1>6. r \in Thrs /\ r.id = 0 /\ r.off = 0 /\ r.pc = "pollwait" /\ r.end = e
  BY <1>3, <1>5 DEF Thrs
<1>7. thr' = [thr EXCEPT ![t] = r]
  BY <1>5 DEF PollGone, IInv, TypeOK
<1>8. thr'[t] = r /\ \A u \in Threads \ {t} : thr'[u] = thr[u]
  BY <1>1, <1>6, <1>7, ThrExcept DEF IInv
<1>9. ASSUME NEW i \in 1 .. NSlots PROVE SlotOK(i)'
  <2>1. CASE slots[i].ch = t
    <3>1. slots'[i].ch = t /\ slots'[i].events = Events(e) /\ ~(open'[e] > 0)
      BY <1>1, <1>2, <1>3, <2>1
    <3> QED BY <1>6, <1>8, <3>1 DEF SlotOK, Events
  <2>2. CASE slots[i].ch # t
    BY <1>1, <1>2, <1>8, <2>2, SlotsStep DEF IInv
  <2> QED BY <2>1, <2>2
<1>10. PollInv'
  BY <1>9 DEF PollInv
<1> QED BY <1>1, <1>2, <1>3, <1>4, <1>6, <1>7, <1>10, PollStep

LEMMA PollWakeInv ==
    ASSUME IInv, NEW t \in Pollers, PollWake(t)
    PROVE  IInv'
<1>1. t \in Threads /\ thr[t].pc = "pollwait"
  BY DEF Threads, PollWake, At
<1>2. /\ cb' = cb /\ open' = open /\ closed' = closed /\ lent' = lent /\ haspage' = haspage
      /\ sleep' = sleep /\ slots' = slots /\ allmask' = allmask /\ sent' = sent /\ rcvd' = rcvd
      /\ calls' = calls /\ npolls' = npolls /\ nfaults' = nfaults /\ panic' = panic
  BY DEF PollWake, pipe, poll, bounds
<1>3. thr[t] \in Thrs /\ thr[t].id = 0 /\ thr[t].off = 0 /\ thr[t].pc \in {"idle", "poll", "pollwait"}
  BY <1>1, OutOfCall
<1>4. allmask' \subseteq Mask /\ slots' \in [1 .. NSlots -> Slots] /\ npolls' \in Nat
  BY <1>2 DEF IInv, TypeOK
<1>5. PICK r : r = [thr[t] EXCEPT !.pc = "poll", !.notif = FALSE]
  OBVIOUS
<1>6. r \in Thrs /\ r.id = 0 /\ r.off = 0 /\ r.pc = "poll" /\ r.end = thr[t].end
  BY <1>3, <1>5 DEF Thrs
<1>7. thr' = [thr EXCEPT ![t] = r]
  BY <1>5 DEF PollWake
<1>8. thr'[t] = r /\ \A u \in Threads \ {t} : thr'[u] = thr[u]
  BY <1>1, <1>6, <1>7, ThrExcept DEF IInv
<1>9. ASSUME NEW i \in 1 .. NSlots PROVE SlotOK(i)'
  <2>1. CASE slots[i].ch = t
    <3>1. slots[i].events = Events(thr[t].end)
      BY <2>1, <1>1, PipeAssumption DEF IInv, PollInv, SlotOK
    <3> QED BY <1>2, <1>6, <1>8, <2>1, <3>1 DEF SlotOK, Events
  <2>2. CASE slots[i].ch # t
    BY <1>1, <1>2, <1>8, <2>2, SlotsStep DEF IInv
  <2> QED BY <2>1, <2>2
<1>10. PollInv'
  BY <1>9 DEF PollInv
<1> QED BY <1>1, <1>2, <1>3, <1>4, <1>6, <1>7, <1>10, PollStep

\* The choice of a slot.
LEMMA MinIn ==
    ASSUME NEW S \in SUBSET Nat, S # {}
    PROVE  Min(S) \in S
<1>1. PICK x \in S : \A y \in S : ~(<<y, x>> \in OpToRel(<, Nat))
  BY WFMin, NatLessThanWellFounded
<1>2. \A u, v \in Nat : u < v => <<u, v>> \in OpToRel(<, Nat)
  BY Zenon DEF OpToRel
<1>3. \A y \in S : ~(y < x)
  BY <1>1, <1>2, Zenon
<1>4. \A y \in S : x <= y
  BY <1>3
<1> QED BY <1>4 DEF Min

LEMMA SlotChoice ==
    ASSUME NEW t, SlotsFor(t) # {}
    PROVE  Min(SlotsFor(t)) \in 1 .. NSlots
<1> DEFINE own  == {i \in 1 .. NSlots : slots[i].tid = t}
           free == {i \in 1 .. NSlots : slots[i].tid = NoThread}
<1>1. own \in SUBSET Nat /\ free \in SUBSET Nat /\ own \subseteq 1 .. NSlots /\ free \subseteq 1 .. NSlots
  BY PipeAssumption
<1>2. SlotsFor(t) = IF own # {} THEN {Min(own)} ELSE IF free # {} THEN {Min(free)} ELSE {}
  BY DEF SlotsFor
<1> HIDE DEF own, free
<1>3. PICK i \in 1 .. NSlots : SlotsFor(t) = {i}
  BY <1>1, <1>2, MinIn
<1>4. {i} \in SUBSET Nat /\ {i} # {}
  BY PipeAssumption
<1>5. Min({i}) \in {i}
  BY <1>4, MinIn
<1> QED BY <1>3, <1>5

LEMMA PollAddInv ==
    ASSUME IInv, NEW t \in Pollers, NEW e \in Ends, PollAdd(t, e)
    PROVE  IInv'
<1>1. t \in Threads /\ Scan(t, e) /\ open[e] > 0 /\ Ready(e) = {} /\ allmask' = allmask \cup Events(e)
  BY DEF Threads, PollAdd
<1>2. /\ cb' = cb /\ open' = open /\ closed' = closed /\ lent' = lent /\ haspage' = haspage
      /\ sleep' = sleep /\ sent' = sent /\ rcvd' = rcvd
      /\ calls' = calls /\ nfaults' = nfaults /\ panic' = panic
  BY DEF PollAdd, pipe
<1>3. /\ thr[t].pc \in {"idle", "poll", "pollwait"} /\ npolls' \in Nat /\ thr[t] \in Thrs
      /\ thr[t].id = 0 /\ thr[t].off = 0 /\ t # NoThread
      /\ \A i \in 1 .. NSlots : slots[i].ch = t => thr[t].end = e /\ slots[i].events = Events(e)
  BY <1>1, ScanOK
<1>4. Events(e) \subseteq Mask
  BY DEF Events, Mask, Ends
<1>5. allmask' \subseteq Mask /\ allmask \subseteq allmask' /\ e \in allmask'
  BY <1>1, <1>4 DEF IInv, TypeOK, Events
<1>6. Blocked(e)
  <2>1. CASE e = "r"
    BY <1>1, <2>1 DEF Ready, Blocked
  <2>2. CASE e = "w"
    <3>1. open["w"] # 0
      BY <1>1, <2>2 DEF IInv, TypeOK
    <3> QED BY <1>1, <2>2, <3>1 DEF Ready, Blocked
  <2> QED BY <2>1, <2>2 DEF Ends
<1>7. CASE SlotsFor(t) = {}
  <2>1. PollReturn(t)
    BY <1>7 DEF PollAdd
  <2>2. PICK r \in Thrs : thr' = [thr EXCEPT ![t] = r] /\ r.id = 0 /\ r.off = 0 /\ r.pc # "write"
    BY <1>1, <1>2, <1>5, <2>1, PollReturnEffect
  <2>3. slots' \in [1 .. NSlots -> Slots] /\ PollInv'
    BY <1>1, <1>2, <1>5, <2>1, PollReturnEffect
  <2> QED BY <1>1, <1>2, <1>3, <1>5, <2>2, <2>3, PollStep
<1>8. CASE SlotsFor(t) # {}
  <2>1. PICK m \in 1 .. NSlots : m = Min(SlotsFor(t))
    BY <1>8, SlotChoice
  <2>2. PICK s : s = [tid |-> t, events |-> Events(e), ch |-> t]
    OBVIOUS
  <2>3. s \in Slots /\ s.ch = t /\ s.events = Events(e)
    BY <1>1, <1>4, <2>2 DEF Slots
  <2>4. slots' = [slots EXCEPT ![m] = s]
    BY <1>8, <2>1, <2>2 DEF PollAdd
  <2>5. slots' \in [1 .. NSlots -> Slots] /\ slots'[m] = s /\ \A i \in 1 .. NSlots \ {m} : slots'[i] = slots[i]
    BY <2>3, <2>4 DEF IInv, TypeOK
  <2>6. PICK r : r = [thr[t] EXCEPT !.pc = "pollwait", !.end = e]
    OBVIOUS
  <2>7. r \in Thrs /\ r.id = 0 /\ r.off = 0 /\ r.pc = "pollwait" /\ r.end = e
    BY <1>3, <2>6 DEF Thrs
  <2>8. thr' = [thr EXCEPT ![t] = r]
    BY <1>8, <2>6 DEF PollAdd, IInv, TypeOK
  <2>9. thr'[t] = r /\ \A u \in Threads \ {t} : thr'[u] = thr[u]
    BY <1>1, <2>7, <2>8, ThrExcept DEF IInv
  <2>10. ASSUME NEW i \in 1 .. NSlots PROVE SlotOK(i)'
    <3>1. CASE i = m \/ slots[i].ch = t
      <4>1. slots'[i].ch = t /\ slots'[i].events = Events(e)
        BY <1>3, <2>3, <2>5, <3>1
      <4>2. Blocked(e)'
        BY <1>2, <1>6 DEF Blocked
      <4>3. IF e = "r" THEN Empty(cb') ELSE Full(cb')
        BY <4>2 DEF Blocked
      <4> QED BY <1>5, <2>7, <2>9, <4>1, <4>3 DEF SlotOK, Events, Blocked
    <3>2. CASE i # m /\ slots[i].ch # t
      BY <1>1, <1>2, <1>5, <2>5, <2>9, <3>2, SlotsStep DEF IInv
    <3> QED BY <3>1, <3>2
  <2>11. PollInv'
    BY <2>10 DEF PollInv
  <2> QED BY <1>1, <1>2, <1>3, <1>5, <2>5, <2>7, <2>8, <2>11, PollStep
<1> QED BY <1>7, <1>8

(***************************************************************************)
(* Close, the opening of another descriptor, and Doomall: all that sleep   *)
(* at an end wake up.                                                      *)
(***************************************************************************)
\* What happens to a thread: it wakes up, or it stays.
Moved(u) ==
    /\ thr'[u] \in Thrs /\ thr'[u].id = thr[u].id /\ thr'[u].off = thr[u].off
    /\ thr'[u].end = thr[u].end /\ thr'[u].notif = thr[u].notif /\ thr'[u].noblk = thr[u].noblk
    /\ \/ thr'[u].pc = thr[u].pc
       \/ thr[u].pc = "asleep" /\ thr[u].id = 0 /\ thr'[u].pc = "read"
       \/ thr[u].pc = "asleep" /\ thr[u].id # 0 /\ thr'[u].pc = "write"

\* The thread is in th as it was, but for the mark of Doomall.
Unwoken(th, u) ==
    /\ th[u].pc = thr[u].pc /\ th[u].id = thr[u].id /\ th[u].off = thr[u].off
    /\ th[u].end = thr[u].end /\ th[u].notif = thr[u].notif /\ th[u].noblk = thr[u].noblk

LEMMA CallsMoved ==
    ASSUME CallsInv, calls' = calls, \A u \in Threads : Moved(u)
    PROVE  CallsInv'
<1> SUFFICES ASSUME NEW u \in Threads
             PROVE  /\ thr'[u].id # 0 => CallOK(u)'
                    /\ thr'[u].id = 0 => thr'[u].off = 0
                    /\ thr'[u].pc = "write" => thr'[u].id # 0
  BY DEF CallsInv
<1>1. Moved(u)
  OBVIOUS
<1>2. thr'[u].id = 0 => thr'[u].off = 0
  BY <1>1 DEF CallsInv, Moved
<1>3. thr'[u].pc = "write" => thr'[u].id # 0
  BY <1>1 DEF CallsInv, Moved
<1>4. ASSUME thr'[u].id # 0 PROVE CallOK(u)'
  <2>1. CallOK(u) /\ thr'[u].id = thr[u].id /\ thr'[u].off = thr[u].off
    BY <1>1, <1>4 DEF CallsInv, Moved
  <2>2. thr'[u].pc \in {"write", "asleep"}
    BY <1>1, <1>4, <2>1 DEF CallOK, Moved
  <2>3. \A x \in Threads : thr'[x].id = thr'[u].id => x = u
    BY <2>1 DEF CallOK, Moved
  <2> QED BY <2>1, <2>2, <2>3 DEF CallOK
<1> QED BY <1>2, <1>3, <1>4

\* The threads when those at the ends H wake up; th differs from thr at most in
\* who has been killed.
LEMMA AwakeEffect ==
    ASSUME IInv, NEW th \in [Threads -> Thrs],
           \A u \in Threads : Unwoken(th, u),
           NEW R \in SUBSET Asleep("r"), NEW W \in SUBSET Asleep("w"),
           thr' = Awake(Awake(th, R, "r"), W, "w")
    PROVE  /\ thr' \in [Threads -> Thrs]
           /\ \A u \in Threads : /\ Moved(u) /\ thr'[u].killed = th[u].killed
                                 /\ u \notin R \cup W => thr'[u].pc = thr[u].pc
<1>1. \A e \in Ends : \A u \in Asleep(e) : SleeperOK(u, e)
  BY DEF IInv, SleepInv, Asleep
<1>2. (\A u \in R : thr[u].pc = "asleep" /\ thr[u].id = 0) /\ (\A u \in W : thr[u].pc = "asleep" /\ thr[u].id # 0)
  BY <1>1 DEF SleeperOK, Ends
<1> DEFINE a == Awake(th, R, "r")
<1>3. ASSUME NEW u \in Threads
      PROVE  a[u] = IF u \in R THEN [th[u] EXCEPT !.pc = "read"] ELSE th[u]
  BY <1>3 DEF Awake, Again
<1>4. ASSUME NEW u \in Threads
      PROVE  thr'[u] = IF u \in W THEN [a[u] EXCEPT !.pc = "write"] ELSE a[u]
  <2> HIDE DEF a
  <2>1. thr' = Awake(a, W, "w")
    BY DEF a
  <2> QED BY <2>1 DEF Awake, Again
<1> HIDE DEF a
<1>5. ASSUME NEW u \in Threads
      PROVE  /\ thr'[u] \in Thrs /\ Moved(u) /\ thr'[u].killed = th[u].killed
             /\ u \notin R \cup W => thr'[u].pc = thr[u].pc
  <2>1. PICK x \in Thrs : x = th[u]
    OBVIOUS
  <2>2. PICK y : y = a[u]
    OBVIOUS
  <2>3. PICK z : z = thr'[u]
    OBVIOUS
  <2>4. /\ y \in Thrs /\ y.id = x.id /\ y.off = x.off /\ y.end = x.end /\ y.notif = x.notif
        /\ y.noblk = x.noblk /\ y.killed = x.killed /\ y.pc = IF u \in R THEN "read" ELSE x.pc
    <3>1. y = IF u \in R THEN [x EXCEPT !.pc = "read"] ELSE x
      BY <1>3, <2>1, <2>2
    <3> QED BY <3>1 DEF Thrs
  <2>5. z = IF u \in W THEN [y EXCEPT !.pc = "write"] ELSE y
    BY <1>4, <2>2, <2>3
  <2>6. /\ z \in Thrs /\ z.id = x.id /\ z.off = x.off /\ z.end = x.end /\ z.notif = x.notif
        /\ z.noblk = x.noblk /\ z.killed = x.killed /\ z.pc = IF u \in W THEN "write" ELSE IF u \in R THEN "read" ELSE x.pc
    BY <2>4, <2>5 DEF Thrs
  <2> QED BY <1>2, <2>1, <2>3, <2>6 DEF Moved, Unwoken
<1>6. thr' = [u \in Threads |-> thr'[u]]
  BY DEF Awake
<1> QED BY <1>5, <1>6

LEMMA WakeAll ==
    ASSUME IInv, NEW th \in [Threads -> Thrs], NEW H \in SUBSET Ends,
           \A u \in Threads : Unwoken(th, u),
           thr' = Awake(Awake(th, IF "r" \in H THEN Asleep("r") ELSE {}, "r"),
                        IF "w" \in H THEN Asleep("w") ELSE {}, "w"),
           sleep' = [e \in Ends |-> IF e \in H THEN << >> ELSE sleep[e]],
           \A e \in Ends \ H : \A u \in Asleep(e) : th[u].killed = thr[u].killed,
           calls' = calls, slots' = slots, allmask' = allmask,
           \A e \in Ends : open'[e] > 0 => open[e] > 0 /\ (Blocked(e) => Blocked(e)')
    PROVE  /\ thr' \in [Threads -> Thrs] /\ sleep' \in [Ends -> Seq(Threads)]
           /\ CallsInv' /\ SleepInv' /\ PollInv'
<1>1. PICK R \in SUBSET Asleep("r"), W \in SUBSET Asleep("w") :
        R = (IF "r" \in H THEN Asleep("r") ELSE {}) /\ W = (IF "w" \in H THEN Asleep("w") ELSE {})
  <2>1. (IF "r" \in H THEN Asleep("r") ELSE {}) \in SUBSET Asleep("r")
    OBVIOUS
  <2>2. (IF "w" \in H THEN Asleep("w") ELSE {}) \in SUBSET Asleep("w")
    OBVIOUS
  <2> QED BY <2>1, <2>2, Zenon
<1>2. thr' = Awake(Awake(th, R, "r"), W, "w")
  BY <1>1
<1>3. /\ thr' \in [Threads -> Thrs]
      /\ \A u \in Threads : /\ Moved(u) /\ thr'[u].killed = th[u].killed
                            /\ u \notin R \cup W => thr'[u].pc = thr[u].pc
  BY <1>2, AwakeEffect
<1>4. CallsInv'
  BY <1>3, CallsMoved DEF IInv
<1>5. sleep \in [Ends -> Seq(Threads)] /\ \A e \in Ends : QueueOK(e)
  BY QueuesSleep DEF IInv, TypeOK
<1>6. sleep' \in [Ends -> Seq(Threads)]
  BY <1>5, EmptySeq
<1>7. ASSUME NEW e \in Ends PROVE QueueOK(e)'
  <2>1. CASE e \in H
    BY <2>1, QueueEmpty
  <2>2. CASE e \notin H
    <3>1. ASSUME NEW u \in Asleep(e) PROVE Stays(u)
      <4>1. u \in Threads /\ SleeperOK(u, e)
        BY <1>5, <3>1 DEF QueueOK, Asleep
      <4>2. \A x \in Ends : u \in Asleep(x) => SleeperOK(u, x)
        BY <1>5 DEF QueueOK, Asleep
      <4>3. u \notin R \cup W
        BY <1>1, <2>2, <4>1, <4>2 DEF SleeperOK, Ends
      <4> QED BY <1>3, <2>2, <3>1, <4>1, <4>3 DEF Stays, Moved
    <3> QED BY <1>5, <2>2, <3>1, QueueSame
  <2> QED BY <2>1, <2>2
<1>8. SleepInv'
  BY <1>7, QueuesSleep DEF SleepInv, QueueOK
<1>9. PollInv'
  <2>1. \A u \in Threads : thr[u].pc \in {"poll", "pollwait"} => Polls(u)
    BY <1>3 DEF Moved, Polls
  <2> QED BY <2>1, PollSame DEF IInv
<1> QED BY <1>3, <1>4, <1>6, <1>8, <1>9

\* The ends whose sleepers wake up: those without a thread at the other one.
LEMMA ReopenInv ==
    ASSUME IInv, NEW args \in [Ends -> Int], op_reopen(args),
           \A e \in Ends : open[e] + args[e] \in Nat /\ (args[e] > 0 => open[e] > 0), nfaults' \in Nat
    PROVE  IInv'
<1>1. ~closed /\ panic = "none"
  BY DEF op_reopen
<1>2. /\ slots' = slots /\ allmask' = allmask /\ sent' = sent /\ rcvd' = rcvd /\ calls' = calls
      /\ npolls' = npolls /\ panic' = panic
  BY DEF op_reopen, poll
<1>3. PICK o \in [Ends -> Nat] : o = [e \in Ends |-> open[e] + args[e]]
  OBVIOUS
<1>4. PICK H \in SUBSET Ends : H = {e \in Ends : o[IF e = "r" THEN "w" ELSE "r"] = 0}
  OBVIOUS
<1>5. /\ "r" \in H <=> o["w"] = 0
      /\ "w" \in H <=> o["r"] = 0
      /\ \A e \in Ends : e \in H <=> o[IF e = "r" THEN "w" ELSE "r"] = 0
  BY <1>4 DEF Ends
<1>6. /\ open' = o /\ closed' = Dead(o)
      /\ thr' = Awake(Awake(thr, IF o["w"] = 0 THEN Asleep("r") ELSE {}, "r"),
                      IF o["r"] = 0 THEN Asleep("w") ELSE {}, "w")
      /\ sleep' = [e \in Ends |-> IF o[IF e = "r" THEN "w" ELSE "r"] = 0 THEN << >> ELSE sleep[e]]
      /\ IF Dead(o) THEN /\ haspage' = FALSE /\ lent' = lent - 1
                         /\ cb' = IF haspage THEN [cb EXCEPT !.head = 0, !.tail = 0] ELSE cb
                    ELSE cb' = cb /\ haspage' = haspage /\ lent' = lent
  BY <1>3 DEF op_reopen
<1>7. /\ thr' = Awake(Awake(thr, IF "r" \in H THEN Asleep("r") ELSE {}, "r"),
                      IF "w" \in H THEN Asleep("w") ELSE {}, "w")
      /\ sleep' = [e \in Ends |-> IF e \in H THEN << >> ELSE sleep[e]]
  BY <1>5, <1>6
<1>8. thr \in [Threads -> Thrs] /\ open \in [Ends -> Nat]
  BY DEF IInv, TypeOK
<1>9. Dead(o) \in BOOLEAN /\ (Dead(o) <=> o["r"] = 0 /\ o["w"] = 0)
  BY DEF Dead
<1>10. \A e \in Ends : open'[e] > 0 => open[e] > 0 /\ (Blocked(e) => Blocked(e)')
  <2> SUFFICES ASSUME NEW e \in Ends, open'[e] > 0
               PROVE  open[e] > 0 /\ (Blocked(e) => Blocked(e)')
    OBVIOUS
  <2>1. o[e] > 0 /\ ~Dead(o)
    BY <1>6, <1>9 DEF Ends
  <2>2. open[e] > 0
    BY <1>3, <1>8, <2>1
  <2>3. cb' = cb
    BY <1>6, <2>1
  <2> QED BY <2>2, <2>3 DEF Blocked
<1>11. /\ thr' \in [Threads -> Thrs] /\ sleep' \in [Ends -> Seq(Threads)]
       /\ CallsInv' /\ SleepInv' /\ PollInv'
  <2>1. \A u \in Threads : Unwoken(thr, u)
    BY DEF Unwoken
  <2> QED BY <1>2, <1>7, <1>8, <1>10, <2>1, WakeAll
<1>12. lent = 1 /\ haspage \in BOOLEAN
  BY <1>1 DEF IInv, OpenInv, TypeOK
<1>13. lent' \in Nat /\ haspage' \in BOOLEAN /\ closed' \in BOOLEAN /\ open' \in [Ends -> Nat]
  <2>1. lent - 1 \in Nat /\ lent \in Nat
    BY <1>12
  <2>2. closed' \in BOOLEAN /\ haspage' \in BOOLEAN
    BY <1>6, <1>9, <1>12, Zenon
  <2> QED BY <1>6, <2>1, <2>2
<1>14. cb' \in Cbs /\ cb'.head - cb'.tail \in 0 .. bufsz
  <2>1. cb \in Cbs /\ cb.head - cb.tail \in 0 .. bufsz
    BY DEF IInv, TypeOK
  <2>2. [cb EXCEPT !.head = 0, !.tail = 0] \in Cbs
    BY <2>1 DEF Cbs
  <2>3. [cb EXCEPT !.head = 0, !.tail = 0].head = 0 /\ [cb EXCEPT !.head = 0, !.tail = 0].tail = 0
    BY <2>1 DEF Cbs
  <2>4. 0 - 0 \in 0 .. bufsz
    BY BufszAssumption
  <2>5. cb' \in {cb, [cb EXCEPT !.head = 0, !.tail = 0]}
    BY <1>6
  <2> QED BY <2>1, <2>2, <2>3, <2>4, <2>5
<1>15. TypeOK'
  BY <1>2, <1>11, <1>13, <1>14 DEF IInv, TypeOK
<1>16. StreamInv'
  <2>1. CASE Dead(o)
    BY <1>1, <1>2, <1>6, <2>1 DEF StreamInv
  <2>2. CASE ~Dead(o)
    <3>1. cb' = cb /\ closed' = closed
      <4>1. closed \in BOOLEAN
        BY DEF IInv, TypeOK
      <4> QED BY <1>1, <1>6, <1>9, <2>2, <4>1, Zenon
    <3> QED BY <1>2, <3>1, SameHere, StreamSame DEF IInv
  <2> QED BY <2>1, <2>2
<1>17. PlacesInv'
  BY <1>2 DEF IInv, PlacesInv, CallPlaces
<1>18. OpenInv'
  <2>1. closed' <=> open'["r"] = 0 /\ open'["w"] = 0
    BY <1>6, <1>9
  <2>2. ASSUME closed' PROVE ~haspage' /\ lent' = 0 /\ sleep'["r"] = << >> /\ sleep'["w"] = << >>
    <3>1. Dead(o) /\ "r" \in H /\ "w" \in H
      BY <1>5, <1>6, <1>9, <2>2
    <3> QED BY <1>6, <1>7, <1>12, <3>1 DEF Ends
  <2>3. ~closed' => lent' = 1
    BY <1>6, <1>12
  <2> QED BY <2>1, <2>2, <2>3 DEF OpenInv
<1> QED BY <1>11, <1>15, <1>16, <1>17, <1>18 DEF IInv

LEMMA CloseInv ==
    ASSUME IInv, NEW e \in Ends, Close(e) \/ Reopen(e)
    PROVE  IInv'
<1>1. open \in [Ends -> Nat] /\ nfaults \in Nat /\ open[e] > 0
  BY DEF IInv, TypeOK, Close, Reopen
<1>2. PICK d \in {-1, 1} : op_reopen([x \in Ends |-> IF x = e THEN d ELSE 0])
  BY DEF Close, Reopen, CloseArgs
<1>3. PICK args \in [Ends -> Int] : args = [x \in Ends |-> IF x = e THEN d ELSE 0]
  <2>1. [x \in Ends |-> IF x = e THEN d ELSE 0] \in [Ends -> Int]
    BY <1>2
  <2> QED BY <2>1
<1>4. op_reopen(args)
  BY <1>2, <1>3
<1>5. \A x \in Ends : open[x] + args[x] \in Nat /\ (args[x] > 0 => open[x] > 0)
  BY <1>1, <1>3
<1>6. nfaults' \in Nat
  BY <1>1 DEF Close, Reopen, Fault
<1> QED BY <1>4, <1>5, <1>6, ReopenInv

\* Doomall marks the thread and leaves the rest of it alone.
LEMMA DoomEffect ==
    ASSUME IInv, NEW t \in Readers \cup Writers, NEW th, th = [thr EXCEPT ![t].killed = TRUE]
    PROVE  /\ th \in [Threads -> Thrs] /\ \A u \in Threads \ {t} : th[u] = thr[u]
           /\ \A u \in Threads : Unwoken(th, u)
<1>1. t \in Threads /\ thr \in [Threads -> Thrs]
  BY DEF Threads, IInv, TypeOK
<1>2. /\ th \in [Threads -> Thrs] /\ \A u \in Threads \ {t} : th[u] = thr[u]
      /\ th[t] = [thr[t] EXCEPT !.killed = TRUE]
  <2>1. [thr[t] EXCEPT !.killed = TRUE] \in Thrs
    BY <1>1 DEF Thrs
  <2> QED BY <1>1, <2>1
<1>3. \A u \in Threads : Unwoken(th, u)
  <2>1. PICK x \in Thrs, y \in Thrs : x = thr[t] /\ y = th[t]
    BY <1>1, <1>2
  <2>2. y = [x EXCEPT !.killed = TRUE]
    BY <1>2, <2>1
  <2>3. y.pc = x.pc /\ y.id = x.id /\ y.off = x.off /\ y.end = x.end /\ y.notif = x.notif
        /\ y.noblk = x.noblk
    BY <2>2 DEF Thrs
  <2>4. Unwoken(th, t)
    BY <2>1, <2>3 DEF Unwoken
  <2> QED BY <1>2, <2>4 DEF Unwoken
<1> QED BY <1>2, <1>3

LEMMA KillInv ==
    ASSUME IInv, NEW t \in Readers \cup Writers, Kill(t)
    PROVE  IInv'
<1>1. t \in Threads
  BY DEF Threads
<1>2. /\ cb' = cb /\ open' = open /\ closed' = closed /\ lent' = lent /\ haspage' = haspage
      /\ slots' = slots /\ allmask' = allmask /\ sent' = sent /\ rcvd' = rcvd /\ calls' = calls
      /\ npolls' = npolls /\ panic' = panic /\ nfaults' = nfaults + 1
  BY DEF Kill, pipe, poll, Fault
<1>3. thr \in [Threads -> Thrs] /\ sleep \in [Ends -> Seq(Threads)]
  BY DEF IInv, TypeOK
<1>4. PICK th : th = [thr EXCEPT ![t].killed = TRUE]
  OBVIOUS
<1>5. th \in [Threads -> Thrs] /\ \A u \in Threads \ {t} : th[u] = thr[u]
  BY <1>4, DoomEffect
<1>6. \A u \in Threads : Unwoken(th, u)
  BY <1>4, DoomEffect
<1>7. PICK H \in SUBSET Ends : H = {e \in Ends : t \in Asleep(e)}
  OBVIOUS
<1>8. \A e \in Ends : e \in H <=> t \in Asleep(e)
  BY <1>7
<1>9. /\ thr' = Awake(Awake(th, IF "r" \in H THEN Asleep("r") ELSE {}, "r"),
                      IF "w" \in H THEN Asleep("w") ELSE {}, "w")
      /\ sleep' = [e \in Ends |-> IF e \in H THEN << >> ELSE sleep[e]]
  <2>1. "r" \in H <=> t \in Asleep("r")
    BY <1>8 DEF Ends
  <2>2. "w" \in H <=> t \in Asleep("w")
    BY <1>8 DEF Ends
  <2> QED BY <1>4, <1>8, <2>1, <2>2 DEF Kill
<1>10. \A e \in Ends \ H : \A u \in Asleep(e) : th[u].killed = thr[u].killed
  <2> SUFFICES ASSUME NEW e \in Ends \ H, NEW u \in Asleep(e) PROVE th[u].killed = thr[u].killed
    OBVIOUS
  <2>1. u # t /\ u \in Threads
    BY <1>3, <1>8 DEF Asleep
  <2> QED BY <1>5, <2>1
<1>11. \A e \in Ends : open'[e] > 0 => open[e] > 0 /\ (Blocked(e) => Blocked(e)')
  BY <1>2 DEF Blocked
<1>12. /\ thr' \in [Threads -> Thrs] /\ sleep' \in [Ends -> Seq(Threads)]
       /\ CallsInv' /\ SleepInv' /\ PollInv'
  BY <1>2, <1>5, <1>6, <1>9, <1>10, <1>11, WakeAll
<1>13. TypeOK'
  BY <1>2, <1>12 DEF IInv, TypeOK
<1>14. StreamInv'
  BY <1>2, SameHere, StreamSame DEF IInv
<1>15. PlacesInv'
  BY <1>2 DEF IInv, PlacesInv, CallPlaces
<1>16. OpenInv'
  <2>1. sleep["r"] = << >> /\ sleep["w"] = << >> => sleep'["r"] = << >> /\ sleep'["w"] = << >>
    BY <1>9 DEF Ends
  <2> QED BY <1>2, <2>1 DEF IInv, OpenInv
<1> QED BY <1>12, <1>13, <1>14, <1>15, <1>16 DEF IInv

(***************************************************************************)
(* The invariant holds.                                                    *)
(***************************************************************************)
LEMMA InitInv == Init => IInv
<1> SUFFICES ASSUME Init PROVE IInv
  OBVIOUS
<1>1. NullThr \in Thrs /\ NullThr.id = 0 /\ NullThr.off = 0 /\ NullThr.pc = "idle"
  BY PipeAssumption DEF NullThr, Thrs, Ends
<1>2. NullSlot \in Slots /\ NullSlot.ch = NoThread
  BY DEF NullSlot, Slots
<1>3. NoByte \in Byte
  BY PipeAssumption DEF NoByte, Byte
<1>4. cb \in Cbs /\ cb.head - cb.tail \in 0 .. bufsz /\ cb.head - cb.tail = 0
  <2>1. cb = [buf |-> [i \in 0 .. bufsz - 1 |-> NoByte], head |-> 0, tail |-> 0]
    BY DEF Init, Cb_init
  <2> QED BY <1>3, <2>1, BufszAssumption DEF Cbs
<1>5. \A t \in Threads : thr[t] = NullThr
  BY DEF Init
<1>6. sent = << >> /\ rcvd = << >> /\ calls = << >>
  BY DEF Init
<1>7. TypeOK
  <2>1. thr \in [Threads -> Thrs] /\ slots \in [1 .. NSlots -> Slots]
    BY <1>1, <1>2 DEF Init
  <2>2. open \in [Ends -> Nat] /\ sleep \in [Ends -> Seq(Threads)] /\ allmask \subseteq Mask
    BY EmptySeq DEF Init
  <2>3. haspage \in BOOLEAN /\ closed \in BOOLEAN
    BY Zenon DEF Init
  <2>4. sent \in Seq(Byte) /\ rcvd \in Seq(Byte) /\ calls \in Seq(Calls)
    BY <1>6, EmptySeq
  <2>5. lent \in Nat /\ npolls \in Nat /\ nfaults \in Nat /\ panic \in {"none", "wut?"}
    BY DEF Init
  <2> QED BY <1>4, <2>1, <2>2, <2>3, <2>4, <2>5 DEF TypeOK
<1>8. StreamInv
  <2>1. panic = "none"
    BY DEF Init
  <2>2. Len(sent) = 0 /\ Len(rcvd) = 0
    BY <1>6
  <2> QED BY <1>4, <2>1, <2>2 DEF StreamInv
<1>9. CallsInv
  BY <1>1, <1>5 DEF CallsInv
<1>10. SleepInv
  BY DEF Init, SleepInv
<1>11. PlacesInv
  BY <1>6 DEF PlacesInv
<1>12. OpenInv
  BY DEF Init, OpenInv, Ends
<1>13. PollInv
  BY <1>2 DEF Init, PollInv, SlotOK
<1> QED BY <1>7, <1>8, <1>9, <1>10, <1>11, <1>12, <1>13 DEF IInv

LEMMA StutterInv ==
    ASSUME IInv, UNCHANGED vars
    PROVE  IInv'
<1>1. /\ cb' = cb /\ open' = open /\ closed' = closed /\ lent' = lent /\ haspage' = haspage
      /\ sleep' = sleep /\ slots' = slots /\ allmask' = allmask /\ thr' = thr /\ sent' = sent
      /\ rcvd' = rcvd /\ calls' = calls /\ npolls' = npolls /\ nfaults' = nfaults /\ panic' = panic
  BY DEF vars, pipe, poll, bounds
<1>2. TypeOK' /\ StreamInv' /\ CallsInv'
  BY <1>1 DEF IInv, TypeOK, StreamInv, CallsInv, CallOK
<1>3. SleepInv' /\ PlacesInv' /\ OpenInv' /\ PollInv'
  BY <1>1 DEF IInv, SleepInv, SleeperOK, PlacesInv, CallPlaces, OpenInv, PollInv, SlotOK, Blocked, Events
<1> QED BY <1>2, <1>3 DEF IInv

LEMMA StepInv ==
    ASSUME IInv, [Next]_vars
    PROVE  IInv'
<1>1. ASSUME NEW t \in Writers, Writing(t) PROVE IInv'
  BY <1>1, WriteInv, WriteFailInv, WriteWaitInv, WriteFaultInv, WriteCopyInv DEF Writing
<1>2. ASSUME NEW t \in Readers, Reading(t) PROVE IInv'
  BY <1>2, ReadFailInv, ReadWaitInv, ReadCopyInv DEF Reading
<1>3. ASSUME NEW t \in Pollers, Polling(t) PROVE IInv'
  BY <1>3, PollReadyInv, PollGoneInv, PollAddInv, PollWakeInv, PollEndInv DEF Polling
<1>4. ASSUME NEW e \in Ends, Close(e) \/ Reopen(e) PROVE IInv'
  BY <1>4, CloseInv
<1>5. ASSUME NEW t \in Readers \cup Writers, Kill(t) PROVE IInv'
  BY <1>5, KillInv
<1> QED BY <1>1, <1>2, <1>3, <1>4, <1>5, StutterInv DEF Next

\* Pipes are correctly typed, and the inductive invariant holds.
THEOREM PipeInvariant == Spec => [](TypeOK /\ IInv)
<1>1. IInv => TypeOK
  BY DEF IInv
<1>2. IInv /\ [Next]_vars => IInv'
  BY StepInv
<1> QED BY <1>1, <1>2, InitInv, PTL DEF Spec

\* What readers get is what writers sent, in order, without gaps and
\* repetitions, and the transfers' assertion ("wut?") never fails.
THEOREM PipeStream == Spec => []Stream
<1>1. IInv => Stream
  BY StreamFollows DEF IInv
<1> QED BY <1>1, PipeInvariant, PTL

\* A write of at most PIPE_BUF bytes is all or nothing, whoever else writes and
\* however often it is started again.
THEOREM PipeWritesAtomic == Spec => []SmallWritesAtomic
<1>1. IInv => SmallWritesAtomic
  BY AtomicFollows DEF IInv
<1> QED BY <1>1, PipeInvariant, PTL

\* A thread that waits in poll is notified as soon as there is something to
\* read, or room to write.
THEOREM PipePollNotified == Spec => []PollNotified
<1>1. IInv => PollNotified
  <2> SUFFICES ASSUME IInv, NEW t \in Pollers, NEW i \in 1 .. NSlots, thr[t].pc = "pollwait",
                      slots[i].ch = t, open[thr[t].end] > 0, ~thr[t].notif
               PROVE  IF thr[t].end = "r" THEN Empty(cb) ELSE Full(cb)
    BY DEF PollNotified
  <2>1. t # NoThread
    BY PipeAssumption DEF Threads
  <2> QED BY <2>1 DEF IInv, PollInv, SlotOK, Blocked
<1> QED BY <1>1, PipeInvariant, PTL

\* A pipe is dead exactly when nobody has an end of it; then nobody sleeps in
\* it, and it has given back its page and its place in the limit, once.
THEOREM PipeDeadReleased == Spec => []DeadReleased
<1>1. IInv => DeadReleased
  <2> SUFFICES ASSUME IInv PROVE DeadReleased
    OBVIOUS
  <2>1. open \in [Ends -> Nat] /\ sleep \in [Ends -> Seq(Threads)]
    BY DEF IInv, TypeOK
  <2>2. closed => open = [e \in Ends |-> 0] /\ sleep = [e \in Ends |-> << >>]
    BY <2>1 DEF IInv, OpenInv, Ends
  <2>3. open = [e \in Ends |-> 0] => closed
    BY DEF IInv, OpenInv, Ends
  <2> QED BY <2>2, <2>3 DEF IInv, OpenInv, DeadReleased
<1> QED BY <1>1, PipeInvariant, PTL

(***************************************************************************)
(* With one reader and one writer nobody sleeps who could go on.           *)
(***************************************************************************)
\* Why thread t sleeps at end e.
Reason(t, e) ==
    /\ ~closed
    /\ IF e = "r" THEN open["w"] # 0 /\ Empty(cb) ELSE open["r"] > 0 /\ ~(Left(cb) >= Need(t))
Reasons == \A e \in Ends : \A t \in Asleep(e) : Reason(t, e)

Single == (\A a, b \in Readers : a = b) /\ (\A a, b \in Writers : a = b)

LEMMA ReasonsFollow ==
    ASSUME IInv, Reasons
    PROVE  SleepsForAReason
<1>1. ASSUME NEW t \in Asleep("r") PROVE ~MayRead(t) /\ ~closed /\ ~thr[t].killed
  <2>1. Reason(t, "r") /\ SleeperOK(t, "r")
    BY <1>1 DEF Reasons, IInv, SleepInv, Asleep, Ends
  <2> QED BY <2>1 DEF Reason, SleeperOK, MayRead
<1>2. ASSUME NEW t \in Asleep("w")
      PROVE  ~MayWrite(t) /\ ~closed /\ open["r"] > 0 /\ ~thr[t].killed
  <2>1. Reason(t, "w") /\ SleeperOK(t, "w")
    BY <1>2 DEF Reasons, IInv, SleepInv, Asleep, Ends
  <2> QED BY <2>1 DEF Reason, SleeperOK, MayWrite
<1> QED BY <1>1, <1>2 DEF SleepsForAReason

\* Who sleeps, and where.
LEMMA Sleepers ==
    ASSUME IInv, NEW e \in Ends, NEW t \in Asleep(e)
    PROVE  /\ t \in Threads /\ thr[t].pc = "asleep" /\ (e = "r" => t \in Readers)
           /\ e = "w" => t \in Writers /\ thr[t].id \in DOMAIN calls
<1>1. sleep[e] \in Seq(Threads)
  BY DEF IInv, TypeOK
<1>2. t \in Threads
  BY <1>1 DEF Asleep
<1>3. SleeperOK(t, e)
  BY DEF IInv, SleepInv, Asleep
<1>4. e = "w" => CallOK(t)
  BY <1>2, <1>3 DEF SleeperOK, IInv, CallsInv
<1> QED BY <1>2, <1>3, <1>4 DEF SleeperOK, CallOK

\* The reason lasts while the pipe stays as it is.
LEMMA ReasonKept ==
    ASSUME NEW e \in Ends, NEW u, Reason(u, e), closed' = closed,
           cb'.head = cb.head, cb'.tail = cb.tail,
           IF e = "r" THEN open'["w"] # 0 ELSE open'["r"] > 0,
           thr'[u].id = thr[u].id, thr'[u].off = thr[u].off, thr'[u].noblk = thr[u].noblk,
           e = "w" => calls'[thr[u].id].size = calls[thr[u].id].size
    PROVE  Reason(u, e)'
<1>1. CASE e = "r"
  BY <1>1 DEF Reason, Empty
<1>2. CASE e = "w"
  <2>1. Src(u)' = Src(u)
    BY <1>2 DEF Src
  <2>2. Need(u)' = Need(u)
    BY <2>1 DEF Need
  <2>3. Left(cb)' = Left(cb)
    BY DEF Left
  <2> QED BY <1>2, <2>2, <2>3 DEF Reason
<1> QED BY <1>1, <1>2 DEF Ends

\* A step of a thread that is awake and leaves queues and bytes alone.
LEMMA QuietReason ==
    ASSUME IInv, Reasons, NEW t \in Threads, thr[t].pc # "asleep",
           \A u \in Threads \ {t} : thr'[u] = thr[u], sleep' = sleep,
           cb'.head = cb.head, cb'.tail = cb.tail, open' = open, closed' = closed,
           \A j \in DOMAIN calls : calls'[j].size = calls[j].size
    PROVE  Reasons'
<1> SUFFICES ASSUME NEW e \in Ends, NEW u \in Asleep(e) PROVE Reason(u, e)'
  BY DEF Reasons, Asleep
<1>1. /\ u \in Threads \ {t} /\ (e = "w" => thr[u].id \in DOMAIN calls)
  BY Sleepers
<1>2. Reason(u, e)
  BY DEF Reasons
<1>3. IF e = "r" THEN open'["w"] # 0 ELSE open'["r"] > 0
  BY <1>2 DEF Reason
<1> QED BY <1>1, <1>2, <1>3, ReasonKept

LEMMA WriteErrReason ==
    ASSUME IInv, NEW t \in Threads, thr[t].pc = "write", WriteErr(t) \/ Restart(t)
    PROVE  /\ \A u \in Threads \ {t} : thr'[u] = thr[u]
           /\ \A j \in DOMAIN calls : calls'[j].size = calls[j].size
<1>1. thr \in [Threads -> Thrs] /\ CallOK(t)
  BY InCall DEF IInv, TypeOK
<1>2. \A u \in Threads \ {t} : thr'[u] = thr[u]
  BY <1>1 DEF WriteErr, Return, Restart
<1>3. CASE WriteErr(t)
  <2>1. PICK i \in DOMAIN calls, d \in {"ok", "err"} : i = thr[t].id /\ d = "err"
    BY <1>1 DEF CallOK
  <2>2. calls' = [calls EXCEPT ![i].done = d]
    BY <1>3, <2>1 DEF WriteErr
  <2>3. calls'[i].size = calls[i].size /\ \A j \in DOMAIN calls \ {i} : calls'[j] = calls[j]
    BY <2>2, CallDone DEF IInv
  <2> QED BY <1>2, <2>3
<1>4. CASE Restart(t)
  BY <1>2, <1>4 DEF Restart
<1> QED BY <1>3, <1>4

LEMMA WritingReason ==
    ASSUME IInv, Reasons, NEW t \in Writers,
           \/ \E sz \in WriteSizes, noblk \in BOOLEAN : Write(t, sz, noblk)
           \/ WriteFail(t) \/ WriteNoPage(t) \/ WriteFault(t)
    PROVE  Reasons'
<1>1. t \in Threads /\ thr \in [Threads -> Thrs]
  BY DEF Threads, IInv, TypeOK
<1>2. ASSUME NEW sz \in WriteSizes, NEW noblk \in BOOLEAN, Write(t, sz, noblk) PROVE Reasons'
  <2>1. /\ thr[t].pc = "idle" /\ cb' = cb /\ open' = open /\ closed' = closed /\ sleep' = sleep
        /\ sent' = sent /\ calls' = Append(calls, [size |-> sz, done |-> "no"])
    BY <1>2 DEF Write, At, pipe
  <2>2. \A u \in Threads \ {t} : thr'[u] = thr[u]
    BY <1>1, <1>2 DEF Write
  <2>3. \A j \in DOMAIN calls : calls'[j].size = calls[j].size
    BY <2>1, PlacesNew DEF IInv
  <2> QED BY <1>1, <2>1, <2>2, <2>3, QuietReason
<1>3. CASE WriteFail(t) \/ WriteNoPage(t)
  <2>1. /\ thr[t].pc = "write" /\ cb' = cb /\ open' = open /\ closed' = closed /\ sleep' = sleep
        /\ WriteErr(t)
    BY <1>3 DEF WriteFail, WriteNoPage, At, pipe
  <2>2. /\ \A u \in Threads \ {t} : thr'[u] = thr[u]
        /\ \A j \in DOMAIN calls : calls'[j].size = calls[j].size
    BY <1>1, <2>1, WriteErrReason
  <2> QED BY <1>1, <2>1, <2>2, QuietReason
<1>4. CASE WriteFault(t)
  <2>1. /\ thr[t].pc = "write" /\ open' = open /\ closed' = closed /\ sleep' = sleep
        /\ WriteErr(t) \/ Restart(t)
        /\ cb' = Copyin(cb, Src(t), TRUE).cb
    BY <1>4 DEF WriteFault, At
  <2>2. cb'.head = cb.head /\ cb'.tail = cb.tail
    BY <1>1, <2>1, FaultBytes DEF SameBytes
  <2>3. /\ \A u \in Threads \ {t} : thr'[u] = thr[u]
        /\ \A j \in DOMAIN calls : calls'[j].size = calls[j].size
    BY <1>1, <2>1, WriteErrReason
  <2> QED BY <1>1, <2>1, <2>2, <2>3, QuietReason
<1> QED BY <1>2, <1>3, <1>4

LEMMA ReadingReason ==
    ASSUME IInv, Reasons, NEW t \in Readers, NEW sz \in ReadSizes, NEW noblk \in BOOLEAN,
           ReadFail(t, sz, noblk) \/ ReadFault(t, sz, noblk)
    PROVE  Reasons'
<1>1. t \in Threads /\ thr \in [Threads -> Thrs]
  BY DEF Threads, IInv, TypeOK
<1>2. /\ thr[t].pc # "asleep" /\ cb' = cb /\ open' = open /\ closed' = closed /\ sleep' = sleep
      /\ calls' = calls
  BY DEF ReadFail, ReadFault, InRead, At, pipe
<1>3. \A u \in Threads \ {t} : thr'[u] = thr[u]
  BY <1>1 DEF ReadFail, ReadFault, Return
<1> QED BY <1>1, <1>2, <1>3, QuietReason

LEMMA PollingReason ==
    ASSUME IInv, Reasons, NEW t \in Pollers, Polling(t)
    PROVE  Reasons'
<1>1. t \in Threads /\ thr \in [Threads -> Thrs]
  BY DEF Threads, IInv, TypeOK
<1>2. /\ thr[t].pc # "asleep" /\ cb' = cb /\ open' = open /\ closed' = closed /\ sleep' = sleep
      /\ calls' = calls
  BY DEF Polling, PollReady, PollGone, PollAdd, PollWake, PollEnd, Scan, At, pipe
<1>3. \A u \in Threads \ {t} : thr'[u] = thr[u]
  BY <1>1 DEF Polling, PollReady, PollGone, PollAdd, PollWake, PollEnd, PollReturn, Return
<1> QED BY <1>1, <1>2, <1>3, QuietReason

\* A thread goes to sleep for a reason.
LEMMA WaitReason ==
    ASSUME IInv, Reasons, NEW t \in Threads, thr[t].pc # "asleep", NEW e \in Ends, Reason(t, e),
           sleep' = [sleep EXCEPT ![e] = Append(@, t)], \A u \in Threads \ {t} : thr'[u] = thr[u],
           thr'[t].id = thr[t].id, thr'[t].off = thr[t].off, thr'[t].noblk = thr[t].noblk,
           cb' = cb, open' = open, closed' = closed, calls' = calls
    PROVE  Reasons'
<1> SUFFICES ASSUME NEW x \in Ends, NEW u \in Asleep(x)' PROVE Reason(u, x)'
  BY DEF Reasons, Asleep
<1>1. sleep \in [Ends -> Seq(Threads)]
  BY DEF IInv, TypeOK
<1>2. u \in Asleep(x) \/ (u = t /\ x = e)
  <2>1. CASE x # e
    BY <1>1, <2>1 DEF Asleep
  <2>2. CASE x = e
    <3>1. PICK q \in Seq(Threads) : q = sleep[x]
      BY <1>1
    <3>2. sleep'[x] = Append(q, t)
      BY <1>1, <2>2, <3>1
    <3>3. PICK k \in 1 .. Len(q) + 1 : u = Append(q, t)[k]
      BY <3>2 DEF Asleep
    <3>4. CASE k = Len(q) + 1
      BY <2>2, <3>3, <3>4
    <3>5. CASE k # Len(q) + 1
      <4>1. k \in DOMAIN q /\ u = q[k]
        BY <3>3, <3>5
      <4> QED BY <3>1, <4>1 DEF Asleep
    <3> QED BY <3>4, <3>5
  <2> QED BY <2>1, <2>2
<1>3. Reason(u, x) /\ u \in Threads
  BY <1>2, Sleepers DEF Reasons
<1>4. IF x = "r" THEN open'["w"] # 0 ELSE open'["r"] > 0
  BY <1>3 DEF Reason
<1>5. thr'[u].id = thr[u].id /\ thr'[u].off = thr[u].off /\ thr'[u].noblk = thr[u].noblk
  BY <1>3
<1> QED BY <1>3, <1>4, <1>5, ReasonKept

LEMMA WaitingReason ==
    ASSUME IInv, Reasons, NEW t \in Threads,
           (t \in Writers /\ WriteWait(t)) \/ (\E sz \in ReadSizes : t \in Readers /\ ReadWait(t, sz))
    PROVE  Reasons'
<1>1. thr \in [Threads -> Thrs] /\ open \in [Ends -> Nat]
  BY DEF IInv, TypeOK
<1>2. CASE WriteWait(t)
  <2>1. /\ thr[t].pc # "asleep" /\ ~thr[t].killed /\ ~closed /\ open["r"] > 0 /\ ~MayWrite(t)
        /\ cb' = cb /\ open' = open /\ closed' = closed /\ calls' = calls
        /\ sleep' = [sleep EXCEPT !["w"] = Append(@, t)]
        /\ thr' = [thr EXCEPT ![t] = [thr[t] EXCEPT !.pc = "asleep", !.slept = TRUE]]
    BY <1>2 DEF WriteWait, At, pipe, KillableWait
  <2>2. PICK e \in Ends : e = "w"
    BY DEF Ends
  <2>3. Reason(t, e)
    BY <2>1, <2>2 DEF Reason, MayWrite, Interrupted
  <2>4. thr'[t] = [thr[t] EXCEPT !.pc = "asleep", !.slept = TRUE] /\ \A u \in Threads \ {t} : thr'[u] = thr[u]
    BY <1>1, <2>1
  <2>5. thr'[t].id = thr[t].id /\ thr'[t].off = thr[t].off /\ thr'[t].noblk = thr[t].noblk
    BY <1>1, <2>4 DEF Thrs
  <2> QED BY <2>1, <2>2, <2>3, <2>4, <2>5, WaitReason
<1>3. ASSUME NEW sz \in ReadSizes, ReadWait(t, sz) PROVE Reasons'
  <2>1. /\ thr[t].pc # "asleep" /\ ~thr[t].killed /\ ~closed /\ ~MayRead(t)
        /\ cb' = cb /\ open' = open /\ closed' = closed /\ calls' = calls
        /\ sleep' = [sleep EXCEPT !["r"] = Append(@, t)]
        /\ thr' = [thr EXCEPT ![t] = [[thr[t] EXCEPT !.want = sz] EXCEPT !.pc = "asleep", !.slept = TRUE]]
    BY <1>3 DEF ReadWait, InRead, At, pipe, KillableWait
  <2>2. PICK e \in Ends : e = "r"
    BY DEF Ends
  <2>3. Reason(t, e)
    BY <2>1, <2>2 DEF Reason, MayRead, Interrupted
  <2>4. /\ thr'[t] = [[thr[t] EXCEPT !.want = sz] EXCEPT !.pc = "asleep", !.slept = TRUE]
        /\ \A u \in Threads \ {t} : thr'[u] = thr[u]
    BY <1>1, <2>1
  <2>5. thr'[t].id = thr[t].id /\ thr'[t].off = thr[t].off /\ thr'[t].noblk = thr[t].noblk
    BY <1>1, <2>4 DEF Thrs
  <2> QED BY <2>1, <2>2, <2>3, <2>4, <2>5, WaitReason
<1> QED BY <1>2, <1>3

\* After a transfer nobody sleeps: the actor was the only one at its end, and
\* the only one at the other end has been woken.
LEMMA CopyReason ==
    ASSUME IInv, Single, NEW e \in Ends, NEW t \in Threads, thr[t].pc # "asleep",
           IF e = "r" THEN t \in Writers ELSE t \in Readers,
           sleep' = [sleep EXCEPT ![e] = Without(@, Signal(e))]
    PROVE  Reasons'
<1>1. sleep \in [Ends -> Seq(Threads)]
  BY DEF IInv, TypeOK
<1>2. ASSUME NEW x \in Ends \ {e} PROVE sleep'[x] = << >>
  <2>1. Asleep(x) = {}
    <3> SUFFICES ASSUME NEW u \in Asleep(x) PROVE FALSE
      OBVIOUS
    <3>1. thr[u].pc = "asleep" /\ (IF e = "r" THEN u \in Writers ELSE u \in Readers)
      BY Sleepers DEF Ends
    <3>2. u = t
      BY <3>1 DEF Single
    <3> QED BY <3>1, <3>2
  <2>2. sleep[x] = << >>
    <3>1. PICK q \in Seq(Threads) : q = sleep[x]
      BY <1>1
    <3>2. DOMAIN q = {}
      BY <2>1, <3>1 DEF Asleep
    <3>3. Len(q) = 0
      BY <3>2
    <3> QED BY <3>1, <3>3, EmptySeq
  <2> QED BY <1>1, <2>2
<1>3. sleep'[e] = << >>
  <2>1. PICK q \in Seq(Threads) : q = sleep[e]
    BY <1>1
  <2>2. sleep'[e] = Without(q, Signal(e))
    BY <1>1, <2>1
  <2>3. CASE q = << >>
    BY <2>1, <2>2, <2>3 DEF Without, Signal
  <2>4. CASE q # << >>
    <3>1. sleep'[e] = Tail(q)
      BY <2>1, <2>2, <2>4 DEF Without, Signal
    <3>2. Len(q) \in Nat /\ DOMAIN q = 1 .. Len(q) /\ Len(q) # 0
      BY <2>4, LenProperties, EmptySeq
    <3>3. \A j, k \in DOMAIN q : j = k
      <4> SUFFICES ASSUME NEW j \in DOMAIN q, NEW k \in DOMAIN q PROVE j = k
        OBVIOUS
      <4>1. q[j] \in Asleep(e) /\ q[k] \in Asleep(e)
        BY <2>1 DEF Asleep
      <4>2. q[j] = q[k]
        BY <4>1, Sleepers DEF Single, Ends
      <4> QED BY <2>1, <4>2 DEF IInv, SleepInv
    <3>4. Len(q) = 1
      <4>1. 1 \in DOMAIN q /\ Len(q) \in DOMAIN q
        BY <3>2
      <4> QED BY <3>3, <4>1
    <3>5. Tail(q) \in Seq(Threads) /\ Len(Tail(q)) = 0
      BY <2>4, <3>4, HeadTailProperties
    <3> QED BY <3>1, <3>5, EmptySeq
  <2> QED BY <2>3, <2>4
<1>4. \A x \in Ends : sleep'[x] = << >>
  BY <1>2, <1>3
<1> QED BY <1>4 DEF Reasons, Asleep

LEMMA CopyingReason ==
    ASSUME IInv, Single, NEW t \in Threads,
           \/ t \in Writers /\ WriteCopy(t)
           \/ \E sz \in ReadSizes, noblk \in BOOLEAN : t \in Readers /\ ReadCopy(t, sz, noblk)
    PROVE  Reasons'
<1>1. PICK r \in Ends, w \in Ends : r = "r" /\ w = "w"
  BY DEF Ends
<1>2. CASE t \in Writers /\ WriteCopy(t)
  <2>1. thr[t].pc # "asleep" /\ sleep' = [sleep EXCEPT ![r] = Without(@, Signal(r))]
    BY <1>1, <1>2 DEF WriteCopy, At
  <2> QED BY <1>1, <1>2, <2>1, CopyReason
<1>3. ASSUME NEW sz \in ReadSizes, NEW noblk \in BOOLEAN, t \in Readers, ReadCopy(t, sz, noblk)
      PROVE  Reasons'
  <2>1. thr[t].pc # "asleep" /\ sleep' = [sleep EXCEPT ![w] = Without(@, Signal(w))]
    BY <1>1, <1>3 DEF ReadCopy, InRead, At
  <2> QED BY <1>1, <1>3, <2>1, CopyReason
<1> QED BY <1>2, <1>3

\* The ends H wake up; at the others there is still a reason to sleep.
LEMMA WakeReason ==
    ASSUME IInv, Reasons, NEW H \in SUBSET Ends, sleep' = [e \in Ends |-> IF e \in H THEN << >> ELSE sleep[e]],
           \A e \in Ends \ H : /\ closed' = closed /\ cb' = cb
                               /\ open' = open \/ IF e = "r" THEN open'["w"] # 0 ELSE open'["r"] > 0,
           \A u \in Threads : Moved(u), calls' = calls
    PROVE  Reasons'
<1> SUFFICES ASSUME NEW e \in Ends, NEW u \in Asleep(e)' PROVE Reason(u, e)'
  BY DEF Reasons, Asleep
<1>1. e \notin H /\ u \in Asleep(e)
  BY DEF Asleep
<1>2. u \in Threads /\ Reason(u, e)
  BY <1>1, Sleepers DEF Reasons
<1>3. thr'[u].id = thr[u].id /\ thr'[u].off = thr[u].off /\ thr'[u].noblk = thr[u].noblk
  BY <1>2 DEF Moved
<1>4. IF e = "r" THEN open'["w"] # 0 ELSE open'["r"] > 0
  BY <1>1, <1>2 DEF Reason
<1> QED BY <1>1, <1>2, <1>3, <1>4, ReasonKept

LEMMA ReopenReason ==
    ASSUME IInv, Reasons, NEW args, op_reopen(args), open' \in [Ends -> Nat]
    PROVE  Reasons'
<1> DEFINE Other(e) == IF e = "r" THEN "w" ELSE "r"
<1>1. PICK R \in SUBSET Asleep("r"), W \in SUBSET Asleep("w") : thr' = Awake(Awake(thr, R, "r"), W, "w")
  BY DEF op_reopen
<1>2. \A u \in Threads : Moved(u)
  <2>1. thr \in [Threads -> Thrs] /\ \A u \in Threads : Unwoken(thr, u)
    BY DEF IInv, TypeOK, Unwoken
  <2> QED BY <1>1, <2>1, AwakeEffect
<1>3. PICK H \in SUBSET Ends : H = {e \in Ends : open'[Other(e)] = 0}
  OBVIOUS
<1>4. sleep' = [e \in Ends |-> IF open'[Other(e)] = 0 THEN << >> ELSE sleep[e]] /\ calls' = calls
  BY DEF op_reopen
<1>5. sleep' = [e \in Ends |-> IF e \in H THEN << >> ELSE sleep[e]]
  BY <1>3, <1>4
<1>6. ASSUME NEW e \in Ends \ H
      PROVE  /\ closed' = closed /\ cb' = cb
             /\ IF e = "r" THEN open'["w"] # 0 ELSE open'["r"] > 0
  <2>1. open'[Other(e)] # 0 /\ Other(e) \in Ends
    BY <1>3, <1>6 DEF Ends
  <2>2. ~Dead(open') /\ Dead(open') \in BOOLEAN
    BY <2>1 DEF Dead
  <2>3. closed' = Dead(open') /\ ~closed /\ closed \in BOOLEAN
    BY DEF op_reopen, IInv, TypeOK
  <2>4. closed' = closed
    BY <2>2, <2>3, Zenon
  <2>5. cb' = cb
    BY <2>2 DEF op_reopen
  <2> QED BY <2>1, <2>4, <2>5
<1> QED BY <1>2, <1>4, <1>5, <1>6, WakeReason

LEMMA KillReason ==
    ASSUME IInv, Reasons, NEW t \in Readers \cup Writers, Kill(t)
    PROVE  Reasons'
<1>1. PICK th : th = [thr EXCEPT ![t].killed = TRUE]
  OBVIOUS
<1>2. PICK R \in SUBSET Asleep("r"), W \in SUBSET Asleep("w") : thr' = Awake(Awake(th, R, "r"), W, "w")
  BY <1>1 DEF Kill
<1>3. th \in [Threads -> Thrs] /\ \A u \in Threads : Unwoken(th, u)
  BY <1>1, DoomEffect
<1>4. \A u \in Threads : Moved(u)
  BY <1>2, <1>3, AwakeEffect
<1>5. PICK H \in SUBSET Ends : H = {e \in Ends : t \in Asleep(e)}
  OBVIOUS
<1>6. /\ sleep' = [e \in Ends |-> IF t \in Asleep(e) THEN << >> ELSE sleep[e]] /\ calls' = calls
      /\ cb' = cb /\ open' = open /\ closed' = closed
  BY DEF Kill, pipe
<1>7. sleep' = [e \in Ends |-> IF e \in H THEN << >> ELSE sleep[e]]
  BY <1>5, <1>6
<1>8. \A e \in Ends \ H : closed' = closed /\ cb' = cb /\ open' = open
  BY <1>6
<1> QED BY <1>4, <1>6, <1>7, <1>8, WakeReason

LEMMA StutterReason ==
    ASSUME Reasons, UNCHANGED vars
    PROVE  Reasons'
<1>1. /\ cb' = cb /\ open' = open /\ closed' = closed /\ sleep' = sleep /\ thr' = thr /\ calls' = calls
  BY DEF vars, pipe
<1> SUFFICES ASSUME NEW e \in Ends, NEW u \in Asleep(e) PROVE Reason(u, e)'
  BY <1>1 DEF Reasons, Asleep
<1>2. Reason(u, e)
  BY DEF Reasons
<1>3. IF e = "r" THEN open'["w"] # 0 ELSE open'["r"] > 0
  BY <1>1, <1>2 DEF Reason
<1> QED BY <1>1, <1>2, <1>3, ReasonKept

LEMMA StepReason ==
    ASSUME IInv, Reasons, Single, [Next]_vars
    PROVE  Reasons'
<1>1. ASSUME NEW t \in Writers, Writing(t) PROVE Reasons'
  <2>1. t \in Threads
    BY DEF Threads
  <2> QED BY <1>1, <2>1, WritingReason, WaitingReason, CopyingReason DEF Writing
<1>2. ASSUME NEW t \in Readers, Reading(t) PROVE Reasons'
  <2>1. t \in Threads
    BY DEF Threads
  <2> QED BY <1>2, <2>1, ReadingReason, WaitingReason, CopyingReason DEF Reading
<1>3. ASSUME NEW t \in Pollers, Polling(t) PROVE Reasons'
  BY <1>3, PollingReason
<1>4. ASSUME NEW e \in Ends, Close(e) \/ Reopen(e) PROVE Reasons'
  <2>1. open' \in [Ends -> Nat]
    BY <1>4, CloseInv DEF IInv, TypeOK
  <2> QED BY <1>4, <2>1, ReopenReason DEF Close, Reopen
<1>5. ASSUME NEW t \in Readers \cup Writers, Kill(t) PROVE Reasons'
  BY <1>5, KillReason
<1> QED BY <1>1, <1>2, <1>3, <1>4, <1>5, StutterReason DEF Next

\* With one reader and one writer nobody sleeps who could go on, and nobody who
\* has been killed: no wakeup is lost.
THEOREM PipeSleepsForAReason ==
    ASSUME \A a, b \in Readers : a = b, \A a, b \in Writers : a = b
    PROVE  Spec => []SleepsForAReason
<1>1. Single
  BY DEF Single
<1>2. Init => IInv /\ Reasons
  BY InitInv DEF Init, Reasons, Asleep
<1>3. IInv /\ Reasons /\ [Next]_vars => (IInv /\ Reasons)'
  BY <1>1, StepInv, StepReason
<1>4. IInv /\ Reasons => SleepsForAReason
  BY ReasonsFollow
<1> QED BY <1>2, <1>3, <1>4, PTL DEF Spec

===============================================================================
