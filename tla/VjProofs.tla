------------------------------ MODULE VjProofs ------------------------------
(***************************************************************************)
(* Proofs about Van Jacobson header compression (Vj): with longs that are  *)
(* summed up as longs, the receiver undoes every frame of a slot that      *)
(* missed nothing, for every number of slots, every size of the fields and *)
(* every traffic, whatever the line loses.                                 *)
(***************************************************************************)
EXTENDS Vj, TLAPS, SequenceTheorems

(***************************************************************************)
(* The inductive invariant                                                 *)
(***************************************************************************)
Conns == (UNION {t.conns : t \in Traffics}) \cup {None}

\* URG is set exactly when there is an urgent pointer.
Headers ==
    {h \in [conn : Conns, id : 0 .. W16 - 1, seq : 0 .. W32 - 1, ack : 0 .. W32 - 1,
            win : 0 .. W16 - 1, urg : BOOLEAN, urp : 0 .. W16 - 1, psh : BOOLEAN,
            len : Nat, rest : {0}] : h.urg <=> h.urp > 0}

Types ==
    /\ traffic \in Traffics
    /\ id \in 0 .. W16 - 1
    /\ tx = [st |-> tx.st, lru |-> tx.lru, xmit |-> tx.xmit]
    /\ tx.st \in [Slots -> Headers]
    /\ tx.lru \in [1 .. MAX_STATES -> Slots]
    /\ rx = [st |-> rx.st, last |-> rx.last, toss |-> rx.toss, on |-> rx.on]
    /\ DOMAIN rx.st = Slots

\* The frame f is on the line: it comes from a slot of the sender, and the
\* receiver makes its header of it if the slot has missed nothing.
Coming(f) ==
    /\ f.slot \in Slots /\ f.cid \in {None, f.slot}
    /\ f.of = tx.st[f.slot] /\ tx.xmit = f.slot
    /\ f.type \in {"COMPRESSED", "UNCOMPRESSED"}
    /\ f.type = "UNCOMPRESSED" => f.cid = f.slot
    /\ f.again => f.type = "UNCOMPRESSED"
    /\ f.type = "COMPRESSED" /\ f.slot \notin dirty => Restored(rx.st[f.slot], f) = f.of
    /\ f.cid = None /\ ~astray => rx.last = f.slot
    /\ \A j \in Slots \ dirty : j # f.slot => rx.st[j] = tx.st[j]

IInv ==
    /\ Types
    /\ InStep
    /\ line = {} \/ \E f : line = {f}
    /\ \A f \in line : Coming(f)
    /\ out.trusted => out.same
    /\ out.again => out.same

(***************************************************************************)
(* Sums with a modulus                                                     *)
(***************************************************************************)
(* The constants are positive, and a short is smaller than a long.         *)
LEMMA Widths ==
    ASSUME VjAssumption
    PROVE  /\ W8 \in Nat /\ W8 > 1 /\ W16 \in Nat /\ W16 > 1 /\ W16 = W8 * W8
           /\ W32 \in Nat /\ W32 > 1 /\ 2 * W16 <= W32
  <1>1. W8 \in Nat /\ W8 > 1 /\ W32 \in Nat /\ W32 >= 2 * W16
    BY DEF VjAssumption
  <1>2. W8 * W8 \in Nat /\ W8 * W8 > 1
    BY <1>1
  <1> QED
    BY <1>1, <1>2 DEF W16

(* A remainder is smaller than the modulus.                                *)
LEMMA ModRange ==
    ASSUME NEW m \in Nat \ {0}, NEW n \in Int
    PROVE  (n % m) \in 0 .. m - 1
  OBVIOUS

(* Below the modulus, a number is its own remainder.                       *)
LEMMA ModSmall ==
    ASSUME NEW m \in Nat \ {0}, NEW n \in 0 .. m - 1
    PROVE  (n % m) = n
  OBVIOUS

(* Adding the difference of two numbers to the first gives the second.     *)
LEMMA AddDifference ==
    ASSUME NEW m \in Nat \ {0}, NEW a \in 0 .. m - 1, NEW b \in 0 .. m - 1
    PROVE  ((a + ((b - a) % m)) % m) = b
  <1>1. CASE b >= a
    <2>1. ((b - a) % m) = b - a
      BY <1>1, ModSmall
    <2> QED
      BY <2>1, ModSmall
  <1>2. CASE b < a
    <2>1. ((b - a) % m) = b - a + m
      BY <1>2
    <2>2. a + ((b - a) % m) = b + m
      BY <2>1
    <2>3. ((b + m) % m) = b
      OBVIOUS
    <2> QED
      BY <2>2, <2>3
  <1> QED
    BY <1>1, <1>2

\* Two sequences of numbers one after the other
LEMMA Concatenated ==
    ASSUME NEW s1 \in Seq(Int), NEW s2 \in Seq(Int)
    PROVE  /\ s1 \o s2 \in Seq(Int)
           /\ Len(s1 \o s2) = Len(s1) + Len(s2)
           /\ \A i \in 1 .. Len(s1) + Len(s2) :
                 (s1 \o s2)[i] = IF i <= Len(s1) THEN s1[i] ELSE s2[i - Len(s1)]
  BY ConcatProperties, SMTT(60)

(***************************************************************************)
(* Codes of numbers                                                        *)
(***************************************************************************)
(* The code of a short is a sequence of numbers; read back, at the front   *)
(* of whatever follows it, it gives the short and what follows.            *)
LEMMA NumberOfCode ==
    ASSUME VjAssumption, NEW n \in 0 .. W16 - 1, NEW r \in Seq(Int)
    PROVE  /\ ENCODE(n) \in Seq(Int)
           /\ Number(ENCODE(n) \o r) = n
           /\ Behind(ENCODE(n) \o r) = r
  <1> DEFINE e == ENCODE(n)
             s == e \o r
  <1>1. W8 \in Nat \ {0} /\ n \in Nat /\ (n \div W8) \in Nat /\ (n % W8) \in Nat
        /\ (n \div W8) * W8 + (n % W8) = n
    BY Widths
  <1>2. CASE n >= W8 \/ n = 0
    <2>1. e = <<0, n \div W8, n % W8>>
      BY <1>2 DEF ENCODE
    <2>2. e \in Seq(Int) /\ Len(e) = 3 /\ e[1] = 0 /\ e[2] = n \div W8 /\ e[3] = n % W8
      BY <2>1, <1>1
    <2>3. Len(s) = 3 + Len(r) /\ Len(r) \in Nat
          /\ s \in Seq(Int)
          /\ \A i \in 1 .. 3 + Len(r) : s[i] = IF i <= 3 THEN e[i] ELSE r[i - 3]
      <3> HIDE DEF e
      <3>1. Len(r) \in Nat
        BY LenProperties
      <3>2. /\ s \in Seq(Int) /\ Len(s) = Len(e) + Len(r)
            /\ \A i \in 1 .. Len(e) + Len(r) :
                  s[i] = IF i <= Len(e) THEN e[i] ELSE r[i - Len(e)]
        BY <2>2, Concatenated
      <3> QED
        BY <3>1, <3>2, <2>2
    <2>4. Number(s) = n
      <3> HIDE DEF s, e
      <3>1. s[1] = 0 /\ s[2] = n \div W8 /\ s[3] = n % W8
        BY <2>2, <2>3
      <3> QED
        BY <3>1, <1>1 DEF Number
    <2>5. Behind(s) = SubSeq(s, 4, 3 + Len(r))
      <3> HIDE DEF s, e
      <3>1. s[1] = 0
        BY <2>2, <2>3
      <3> QED
        BY <3>1, <2>3 DEF Behind
    <2>6. SubSeq(s, 4, 3 + Len(r)) = r
      <3> HIDE DEF s, e
      <3>1. \A i \in 4 .. 3 + Len(r) : s[i] \in Int
        BY <2>3, LenProperties
      <3>2. /\ SubSeq(s, 4, 3 + Len(r)) \in Seq(Int)
            /\ Len(SubSeq(s, 4, 3 + Len(r))) = Len(r)
            /\ \A i \in 1 .. Len(r) : SubSeq(s, 4, 3 + Len(r))[i] = s[4 + i - 1]
        BY <3>1, <2>3, SubSeqProperties
      <3>3. ASSUME NEW i \in 1 .. Len(r) PROVE s[4 + i - 1] = r[i]
        <4>1. /\ 4 + i - 1 \in 1 .. 3 + Len(r) /\ ~(4 + i - 1 <= 3)
              /\ 4 + i - 1 - 3 = i
          BY <2>3
        <4> QED
          BY <2>3, <4>1
      <3> QED
        BY <3>2, <3>3, SeqEqual
    <2> QED
      BY <2>2, <2>4, <2>5, <2>6
  <1>3. CASE ~(n >= W8 \/ n = 0)
    <2>1. e = <<n>>
      BY <1>3 DEF ENCODE
    <2>2. e \in Seq(Int) /\ Len(e) = 1 /\ e[1] = n
      BY <2>1, <1>1
    <2>3. Len(s) = 1 + Len(r) /\ Len(r) \in Nat
          /\ s \in Seq(Int)
          /\ \A i \in 1 .. 1 + Len(r) : s[i] = IF i <= 1 THEN e[i] ELSE r[i - 1]
      <3> HIDE DEF e
      <3>1. Len(r) \in Nat
        BY LenProperties
      <3>2. /\ s \in Seq(Int) /\ Len(s) = Len(e) + Len(r)
            /\ \A i \in 1 .. Len(e) + Len(r) :
                  s[i] = IF i <= Len(e) THEN e[i] ELSE r[i - Len(e)]
        BY <2>2, Concatenated
      <3> QED
        BY <3>1, <3>2, <2>2
    <2>4. Number(s) = n
      <3> HIDE DEF s
      <3> QED
        BY <2>2, <2>3, <1>1, <1>3 DEF Number
    <2>5. Behind(s) = SubSeq(s, 2, 1 + Len(r))
      <3> HIDE DEF s
      <3> QED
        BY <2>2, <2>3, <1>3 DEF Behind
    <2>6. SubSeq(s, 2, 1 + Len(r)) = r
      <3> HIDE DEF s, e
      <3>1. \A i \in 2 .. 1 + Len(r) : s[i] \in Int
        BY <2>3, LenProperties
      <3>2. /\ SubSeq(s, 2, 1 + Len(r)) \in Seq(Int)
            /\ Len(SubSeq(s, 2, 1 + Len(r))) = Len(r)
            /\ \A i \in 1 .. Len(r) : SubSeq(s, 2, 1 + Len(r))[i] = s[2 + i - 1]
        BY <3>1, <2>3, SubSeqProperties
      <3>3. ASSUME NEW i \in 1 .. Len(r) PROVE s[2 + i - 1] = r[i]
        <4>1. /\ 2 + i - 1 \in 1 .. 1 + Len(r) /\ ~(2 + i - 1 <= 1)
              /\ 2 + i - 1 - 1 = i
          BY <2>3
        <4> QED
          BY <2>3, <4>1
      <3> QED
        BY <3>2, <3>3, SeqEqual
    <2> QED
      BY <2>2, <2>4, <2>5, <2>6
  <1> QED
    BY <1>2, <1>3

\* A code that is there on the condition b
Opt(b, n) == IF b THEN ENCODE(n) ELSE <<>>

(* The same for a code that is there only on a condition b.                *)
LEMMA Peel ==
    ASSUME VjAssumption, NEW b \in BOOLEAN, NEW n \in 0 .. W16 - 1, NEW r \in Seq(Int),
           NEW s, s = Opt(b, n) \o r
    PROVE  /\ s \in Seq(Int)
           /\ b => Number(s) = n
           /\ (IF b THEN Behind(s) ELSE s) = r
  <1>1. CASE b
    <2>1. s = ENCODE(n) \o r
      BY <1>1 DEF Opt
    <2>2. ENCODE(n) \in Seq(Int)
      BY NumberOfCode
    <2>3. s \in Seq(Int)
      BY <2>1, <2>2, Concatenated
    <2> QED
      BY <1>1, <2>1, <2>3, NumberOfCode
  <1>2. CASE ~b
    <2>1. s = <<>> \o r
      BY <1>2 DEF Opt
    <2>2. s = r
      BY <2>1, ConcatEmptySeq
    <2> QED
      BY <1>2, <2>2
  <1> QED
    BY <1>1, <1>2

(***************************************************************************)
(* Compression is undone                                                   *)
(***************************************************************************)
(* From the copy of the last header, the receiver makes of a compressed    *)
(* frame the header that was compressed.                                   *)
LEMMA Undone ==
    ASSUME VjAssumption, ~ShortInt, NEW o \in Headers, NEW h \in Headers, Compressible(o, h),
           NEW f, f.psh = h.psh, f.len = h.len, f.bytes = new_seq(o, h),
           f.bits = Bits(o, h) \cup (IF ((h.id - o.id) % W16) = 1 THEN {} ELSE {"I"})
    PROVE  Restored(o, f) = h
  <1> DEFINE ch == Changes(o, h)
             bits == Bits(o, h)
             dI == (h.id - o.id) % W16
             dW == (h.win - o.win) % W16
             dA == (h.ack - o.ack) % W32
             dS == (h.seq - o.seq) % W32
             Special == bits \in {SPECIAL_I, SPECIAL_D}
             In(b) == b \in bits /\ ~Special
             tI == IF dI = 1 THEN <<>> ELSE ENCODE(dI)
             tS == (IF In("S") THEN ENCODE(dS) ELSE <<>>) \o tI
             tA == (IF In("A") THEN ENCODE(dA) ELSE <<>>) \o tS
             tW == (IF In("W") THEN ENCODE(dW) ELSE <<>>) \o tA
             tU == (IF In("U") THEN ENCODE(h.urp) ELSE <<>>) \o tW
             Plain == f.bits \ {"I"} \notin {SPECIAL_I, SPECIAL_D}
             Has(b) == Plain /\ b \in f.bits
             cpW == IF Has("U") THEN Behind(f.bytes) ELSE f.bytes
             cpA == IF Has("W") THEN Behind(cpW) ELSE cpW
             cpS == IF Has("A") THEN Behind(cpA) ELSE cpA
             cpI == IF Has("S") THEN Behind(cpS) ELSE cpS
  <1>0. W16 \in Nat \ {0} /\ W32 \in Nat \ {0}
    BY Widths
  <1>1. /\ o.id \in 0 .. W16 - 1 /\ h.id \in 0 .. W16 - 1
        /\ o.win \in 0 .. W16 - 1 /\ h.win \in 0 .. W16 - 1
        /\ o.urp \in 0 .. W16 - 1 /\ h.urp \in 0 .. W16 - 1
        /\ o.seq \in 0 .. W32 - 1 /\ h.seq \in 0 .. W32 - 1
        /\ o.ack \in 0 .. W32 - 1 /\ h.ack \in 0 .. W32 - 1
        /\ o.urg \in BOOLEAN /\ (o.urg <=> o.urp > 0)
        /\ h.urg \in BOOLEAN /\ (h.urg <=> h.urp > 0)
    BY DEF Headers
  <1>2. /\ h.conn = o.conn /\ h.rest = o.rest
        /\ h.urg \/ h.urp = o.urp
        /\ dA < W16 /\ dS < W16
        /\ ch \notin {SPECIAL_I, SPECIAL_D}
    BY DEF Compressible
  <1>3. /\ dI \in 0 .. W16 - 1 /\ dW \in 0 .. W16 - 1
        /\ dA \in 0 .. W16 - 1 /\ dS \in 0 .. W16 - 1
    <2>1. h.ack - o.ack \in Int /\ h.seq - o.seq \in Int
          /\ h.id - o.id \in Int /\ h.win - o.win \in Int
      BY <1>0, <1>1
    <2>2. dA \in 0 .. W32 - 1
      BY <2>1, <1>0, ModRange
    <2>3. dS \in 0 .. W32 - 1
      BY <2>1, <1>0, ModRange
    <2>4. dI \in 0 .. W16 - 1
      BY <2>1, <1>0, ModRange
    <2>5. dW \in 0 .. W16 - 1
      BY <2>1, <1>0, ModRange
    <2> QED
      BY <2>2, <2>3, <2>4, <2>5, <1>0, <1>2
  <1>4. /\ ch \subseteq SPECIAL_D
        /\ "U" \in ch <=> h.urg
        /\ "W" \in ch <=> h.win # o.win
        /\ "A" \in ch <=> h.ack # o.ack
        /\ "S" \in ch <=> h.seq # o.seq
    BY DEF Changes, SPECIAL_D
  <1>5. \/ bits = SPECIAL_I /\ ch = {"S", "A"} /\ dS = dA /\ dS = o.len
        \/ bits = SPECIAL_D /\ ch = {"S"} /\ dS = o.len
        \/ bits = ch /\ ~Special
    BY <1>2 DEF Bits
  <1>6. /\ bits \subseteq SPECIAL_D
        /\ f.bits \ {"I"} = bits
        /\ "I" \in f.bits <=> dI # 1
        /\ \A b : b # "I" => (b \in f.bits <=> b \in bits)
    BY <1>5, <1>4 DEF SPECIAL_I, SPECIAL_D
  <1>7. /\ Plain <=> ~Special
        /\ Has("U") <=> In("U")
        /\ Has("W") <=> In("W")
        /\ Has("A") <=> In("A")
        /\ Has("S") <=> In("S")
    BY <1>6
  <1>8. f.bytes = tU
    BY DEF new_seq
  <1>9. tI \in Seq(Int) /\ (dI # 1 => Number(tI) = dI)
    <2>1. CASE dI = 1
      <3>1. tI = <<>>
        BY <2>1
      <3> QED
        BY <3>1, <2>1, EmptySeq
    <2>2. CASE dI # 1
      <3>1. tI = ENCODE(dI)
        BY <2>2
      <3> HIDE DEF tI, dI
      <3>2. ENCODE(dI) \in Seq(Int) /\ Number(ENCODE(dI) \o <<>>) = dI
        BY <1>3, NumberOfCode, EmptySeq
      <3> QED
        BY <3>1, <3>2, ConcatEmptySeq
    <2> QED
      BY <2>1, <2>2
  <1>10. /\ tS \in Seq(Int) /\ (In("S") => Number(tS) = dS)
         /\ (IF In("S") THEN Behind(tS) ELSE tS) = tI
    <2> DEFINE b == In("S")
    <2>1. b \in BOOLEAN
      OBVIOUS
    <2>2. tS = Opt(b, dS) \o tI
      BY DEF Opt
    <2> HIDE DEF tS, tI, dS, Special, bits, b
    <2>3. dS \in 0 .. W16 - 1 /\ tI \in Seq(Int)
      BY <1>9, <1>3
    <2>4. /\ tS \in Seq(Int) /\ (b => Number(tS) = dS)
          /\ (IF b THEN Behind(tS) ELSE tS) = tI
      BY <2>1, <2>2, <2>3, Peel
    <2> QED
      BY <2>4 DEF b
  <1>11. /\ tA \in Seq(Int) /\ (In("A") => Number(tA) = dA)
         /\ (IF In("A") THEN Behind(tA) ELSE tA) = tS
    <2> DEFINE b == In("A")
    <2>1. b \in BOOLEAN
      OBVIOUS
    <2>2. tA = Opt(b, dA) \o tS
      BY DEF Opt
    <2> HIDE DEF tA, tS, dA, Special, bits, b
    <2>3. dA \in 0 .. W16 - 1 /\ tS \in Seq(Int)
      BY <1>10, <1>3
    <2>4. /\ tA \in Seq(Int) /\ (b => Number(tA) = dA)
          /\ (IF b THEN Behind(tA) ELSE tA) = tS
      BY <2>1, <2>2, <2>3, Peel
    <2> QED
      BY <2>4 DEF b
  <1>12. /\ tW \in Seq(Int) /\ (In("W") => Number(tW) = dW)
         /\ (IF In("W") THEN Behind(tW) ELSE tW) = tA
    <2> DEFINE b == In("W")
    <2>1. b \in BOOLEAN
      OBVIOUS
    <2>2. tW = Opt(b, dW) \o tA
      BY DEF Opt
    <2> HIDE DEF tW, tA, dW, Special, bits, b
    <2>3. dW \in 0 .. W16 - 1 /\ tA \in Seq(Int)
      BY <1>11, <1>3
    <2>4. /\ tW \in Seq(Int) /\ (b => Number(tW) = dW)
          /\ (IF b THEN Behind(tW) ELSE tW) = tA
      BY <2>1, <2>2, <2>3, Peel
    <2> QED
      BY <2>4 DEF b
  <1>13. /\ In("U") => Number(tU) = h.urp
         /\ (IF In("U") THEN Behind(tU) ELSE tU) = tW
    <2> DEFINE b == In("U")
               n == h.urp
    <2>1. b \in BOOLEAN
      OBVIOUS
    <2>2. tU = Opt(b, n) \o tW
      BY DEF Opt
    <2>3. n \in 0 .. W16 - 1 /\ tW \in Seq(Int)
      BY <1>12, <1>1
    <2> HIDE DEF tU, tW, Special, bits, b, n
    <2>4. /\ tU \in Seq(Int) /\ (b => Number(tU) = n)
          /\ (IF b THEN Behind(tU) ELSE tU) = tW
      BY <2>1, <2>2, <2>3, Peel
    <2> QED
      BY <2>4 DEF b, n
  <1>14. cpW = tW /\ cpA = tA /\ cpS = tS /\ cpI = tI
    <2> HIDE DEF tU, tW, tA, tS, tI, Plain, Special, bits
    <2>1. cpW = tW
      BY <1>7, <1>8, <1>13
    <2>2. cpA = tA
      BY <2>1, <1>7, <1>12
    <2>3. cpS = tS
      BY <2>2, <1>7, <1>11
    <2>4. cpI = tI
      BY <2>3, <1>7, <1>10
    <2> QED
      BY <2>1, <2>2, <2>3, <2>4
  <1> DEFINE urg == IF Plain THEN "U" \in f.bits ELSE o.urg
             urp == IF Has("U") THEN Number(f.bytes) ELSE o.urp
             win == IF Has("W") THEN (o.win + Number(cpW)) % W16 ELSE o.win
             ack == IF Has("A") THEN DECODEL(o.ack, cpA)
                    ELSE IF f.bits \ {"I"} = SPECIAL_I THEN (o.ack + o.len) % W32 ELSE o.ack
             seq == IF Has("S") THEN DECODEL(o.seq, cpS)
                    ELSE IF ~Plain THEN (o.seq + o.len) % W32 ELSE o.seq
             idn == (o.id + (IF "I" \in f.bits THEN Number(cpI) ELSE 1)) % W16
  <1>15. Restored(o, f) = [conn |-> o.conn, id |-> idn, seq |-> seq, ack |-> ack, win |-> win,
                           urg |-> urg, urp |-> urp, psh |-> f.psh, len |-> f.len,
                           rest |-> o.rest]
    <2>1. Restored(o, f) = [o EXCEPT !.psh = f.psh, !.urg = urg, !.urp = urp, !.win = win,
                                     !.ack = ack, !.seq = seq, !.id = idn, !.len = f.len]
      BY DEF Restored
    <2>2. o = [conn |-> o.conn, id |-> o.id, seq |-> o.seq, ack |-> o.ack, win |-> o.win,
               urg |-> o.urg, urp |-> o.urp, psh |-> o.psh, len |-> o.len, rest |-> o.rest]
      BY DEF Headers
    <2> HIDE DEF urg, urp, win, ack, seq, idn
    <2> QED
      BY <2>1, <2>2
  <1> HIDE DEF cpW, cpA, cpS, cpI, Plain, tU, tW, tA, tS, tI
  <1>16. urg = h.urg
    <2>1. CASE Special
      <3>1. ~h.urg
        BY <2>1, <1>4, <1>5
      <3>2. h.urp = 0 /\ o.urp = 0
        BY <3>1, <1>0, <1>1, <1>2
      <3> QED
        BY <3>1, <3>2, <2>1, <1>1, <1>7
    <2>2. CASE ~Special
      <3>1. urg = ("U" \in f.bits)
        BY <2>2, <1>7
      <3>2. "U" \in f.bits <=> h.urg
        BY <2>2, <1>4, <1>5, <1>6
      <3> QED
        BY <3>1, <3>2, <1>1
    <2> QED
      BY <2>1, <2>2
  <1>17. urp = h.urp
    BY <1>1, <1>2, <1>4, <1>5, <1>7, <1>8, <1>13
  <1>18. win = h.win
    <2>1. ((o.win + dW) % W16) = h.win
      BY <1>0, <1>1, AddDifference
    <2> QED
      BY <2>1, <1>4, <1>5, <1>7, <1>12, <1>14 DEF SPECIAL_I, SPECIAL_D
  <1>19. ack = h.ack
    <2>1. ((o.ack + dA) % W32) = h.ack
      BY <1>0, <1>1, AddDifference
    <2>2. Has("A") => DECODEL(o.ack, cpA) = ((o.ack + dA) % W32)
      BY <1>7, <1>11, <1>14 DEF DECODEL
    <2> QED
      BY <2>1, <2>2, <1>4, <1>5, <1>6, <1>7 DEF SPECIAL_I, SPECIAL_D
  <1>20. seq = h.seq
    <2>1. ((o.seq + dS) % W32) = h.seq
      BY <1>0, <1>1, AddDifference
    <2>2. Has("S") => DECODEL(o.seq, cpS) = ((o.seq + dS) % W32)
      BY <1>7, <1>10, <1>14 DEF DECODEL
    <2> QED
      BY <2>1, <2>2, <1>4, <1>5, <1>6, <1>7 DEF SPECIAL_I, SPECIAL_D
  <1>21. idn = h.id
    <2>1. ((o.id + dI) % W16) = h.id
      BY <1>0, <1>1, AddDifference
    <2>2. (IF "I" \in f.bits THEN Number(cpI) ELSE 1) = dI
      BY <1>6, <1>9, <1>14
    <2> QED
      BY <2>1, <2>2
  <1>22. h = [conn |-> h.conn, id |-> h.id, seq |-> h.seq, ack |-> h.ack, win |-> h.win,
              urg |-> h.urg, urp |-> h.urp, psh |-> h.psh, len |-> h.len, rest |-> h.rest]
    BY DEF Headers
  <1> QED
    BY <1>2, <1>15, <1>16, <1>17, <1>18, <1>19, <1>20, <1>21, <1>22

(***************************************************************************)
(* The invariant is kept                                                   *)
(***************************************************************************)
(* A conversation always has a slot.                                       *)
LEMMA SlotTyped ==
    ASSUME VjAssumption, Types, NEW conn
    PROVE  Slot(conn) \in Slots
  <1>1. tx.lru[MAX_STATES] \in Slots
    BY DEF Types, VjAssumption
  <1> QED
    BY <1>1 DEF Slot

(* A slot without a header is in its ranges.                               *)
LEMMA EmptyHeader ==
    ASSUME VjAssumption
    PROVE  NoHeader \in Headers
  <1>1. 0 \in 0 .. W16 - 1 /\ 0 \in 0 .. W32 - 1
    BY Widths
  <1>2. NoHeader \in [conn : Conns, id : 0 .. W16 - 1, seq : 0 .. W32 - 1, ack : 0 .. W32 - 1,
                      win : 0 .. W16 - 1, urg : BOOLEAN, urp : 0 .. W16 - 1, psh : BOOLEAN,
                      len : Nat, rest : {0}]
    BY <1>1 DEF NoHeader, Conns
  <1>3. ~NoHeader.urg /\ ~(NoHeader.urp > 0)
    BY DEF NoHeader
  <1> QED
    BY <1>2, <1>3 DEF Headers

(* What TCP sends next is a header with its fields in their ranges.        *)
LEMMA HeaderTyped ==
    ASSUME VjAssumption, Types,
           NEW conn \in traffic.conns, NEW ds \in traffic.seqs, NEW da \in traffic.acks,
           NEW di \in traffic.ids, NEW win \in traffic.wins, NEW urp \in traffic.urps,
           NEW len \in traffic.lens
    PROVE  Header(conn, ds, da, di, win, urp, len) \in Headers
  <1> DEFINE i == Slot(conn)
             o == IF tx.st[i].conn = conn THEN tx.st[i] ELSE [NoHeader EXCEPT !.conn = conn]
  <1>1. /\ W16 \in Nat \ {0} /\ W32 \in Nat \ {0}
        /\ ds \in Nat /\ da \in Nat /\ di \in Nat /\ len \in Nat
        /\ win \in 0 .. W16 - 1 /\ urp \in 0 .. W16 - 1
        /\ conn \in Conns /\ id \in Nat
    <2>1. W16 \in Nat \ {0} /\ W32 \in Nat \ {0}
      BY Widths
    <2>2. traffic \in Traffics /\ id \in 0 .. W16 - 1
      BY DEF Types
    <2>3. /\ ds \in Nat /\ da \in Nat /\ di \in Nat /\ len \in Nat
          /\ win \in 0 .. W16 - 1 /\ urp \in 0 .. W16 - 1
      BY <2>2 DEF VjAssumption
    <2>4. conn \in Conns
      BY <2>2 DEF Conns
    <2> QED
      BY <2>1, <2>2, <2>3, <2>4
  <1>2. [NoHeader EXCEPT !.conn = conn] \in Headers
    BY <1>1, EmptyHeader DEF Headers
  <1>3. tx.st[i] \in Headers
    BY SlotTyped DEF Types
  <1>4. o \in Headers
    BY <1>2, <1>3
  <1> HIDE DEF o
  <1>5. o.seq \in Nat /\ o.ack \in Nat
    BY <1>4, <1>1 DEF Headers
  <1>6. /\ ((id + di) % W16) \in 0 .. W16 - 1
        /\ ((o.seq + ds) % W32) \in 0 .. W32 - 1
        /\ ((o.ack + da) % W32) \in 0 .. W32 - 1
    <2>1. id + di \in Int /\ o.seq + ds \in Int /\ o.ack + da \in Int
      BY <1>1, <1>5
    <2> QED
      BY <1>1, <2>1, ModRange
  <1>7. [o EXCEPT !.id = (id + di) % W16, !.seq = (@ + ds) % W32, !.ack = (@ + da) % W32,
                  !.win = win, !.urg = urp > 0, !.urp = urp, !.psh = len > 0, !.len = len]
          \in Headers
    <2> DEFINE I == (id + di) % W16
               S == (o.seq + ds) % W32
               A == (o.ack + da) % W32
               U == urp > 0
               P == len > 0
    <2>1. U \in BOOLEAN /\ P \in BOOLEAN
      OBVIOUS
    <2>2. (U <=> urp > 0)
      OBVIOUS
    <2>3. I \in 0 .. W16 - 1 /\ S \in 0 .. W32 - 1 /\ A \in 0 .. W32 - 1
      BY <1>6
    <2> HIDE DEF I, S, A, U, P
    <2>4. [o EXCEPT !.id = I, !.seq = S, !.ack = A,
                    !.win = win, !.urg = U, !.urp = urp, !.psh = P, !.len = len] \in Headers
      BY <1>1, <1>4, <2>1, <2>2, <2>3 DEF Headers
    <2> QED
      BY <2>4 DEF I, S, A, U, P
  <1> QED
    BY <1>7 DEF Header, o

(* Initially, all slots are empty, and nothing is on the line.             *)
LEMMA InitEstablishes ==
    ASSUME VjAssumption, Init
    PROVE  IInv
  <1>1. NoHeader \in Headers
    BY EmptyHeader
  <1>2. Types
    <2>1. 0 \in 0 .. W16 - 1
      BY Widths
    <2>2. \A k \in 1 .. MAX_STATES : MAX_STATES - k \in Slots
      BY DEF VjAssumption, Slots
    <2> QED
      BY <1>1, <2>1, <2>2 DEF Init, slc_init, Types
  <1>3. InStep
    BY DEF Init, slc_init, InStep
  <1> QED
    BY <1>2, <1>3 DEF IInv, Init, Nothing

(* A header is compressed: its frame restores it from the copy that the    *)
(* receiver shares with the sender.                                        *)
LEMMA CompressKeeps ==
    ASSUME VjAssumption, ~ShortInt, IInv, NEW h \in Headers, slc_compress(h)
    PROVE  IInv'
  <1>0. PICK f : f = Frame(h, traffic.cid)
    OBVIOUS
  <1> DEFINE o == tx.st[f.slot]
  <1>1. f.slot \in Slots /\ o \in Headers
    BY <1>0, SlotTyped DEF IInv, Types, Frame
  <1>2. /\ line = {} /\ line' = {f}
        /\ tx' = [st |-> [tx.st EXCEPT ![f.slot] = h], lru |-> ToFront(tx.lru, f.slot),
                  xmit |-> IF f.cid = None THEN tx.xmit ELSE f.slot]
        /\ id' = h.id /\ out' = Nothing
        /\ UNCHANGED <<traffic, rx, dirty, astray>>
    BY <1>0 DEF slc_compress
  <1>3. Types'
    <2>1. id' \in 0 .. W16 - 1
      BY <1>2 DEF Headers
    <2>2. [tx.st EXCEPT ![f.slot] = h] \in [Slots -> Headers]
      BY <1>1 DEF IInv, Types
    <2>3. ToFront(tx.lru, f.slot) \in [1 .. MAX_STATES -> Slots]
      <3>1. tx.lru \in [1 .. MAX_STATES -> Slots] /\ MAX_STATES \in Nat
        BY DEF IInv, Types, VjAssumption
      <3>2. \A k \in 1 .. MAX_STATES : k # 1 => k - 1 \in 1 .. MAX_STATES
        BY <3>1
      <3> QED
        BY <3>1, <3>2, <1>1 DEF ToFront
    <2> QED
      BY <1>2, <2>1, <2>2, <2>3 DEF IInv, Types
  <1>4. /\ f.of = h /\ f.psh = h.psh /\ f.len = h.len
        /\ f.type = IF Compressible(o, h) THEN "COMPRESSED" ELSE "UNCOMPRESSED"
        /\ f.cid \in {None, f.slot}
        /\ f.cid = None => Compressible(o, h) /\ tx.xmit = f.slot
        /\ Compressible(o, h) =>
              /\ f.bits = Bits(o, h) \cup (IF ((h.id - o.id) % W16) = 1 THEN {} ELSE {"I"})
              /\ f.bytes = new_seq(o, h)
        /\ f.again => [h EXCEPT !.id = o.id] = o /\ ~h.urg
    <2>1. None \notin Slots
      BY DEF VjAssumption, Slots
    <2> QED
      BY <1>0, <1>1, <2>1 DEF Frame
  <1>5. Compressible(o, h) => Restored(o, f) = h
    <2> HIDE DEF o
    <2> QED
      BY <1>1, <1>4, Undone
  <1>6. f.again => ~Compressible(o, h)
    <2> SUFFICES ASSUME f.again PROVE ~Compressible(o, h)
      OBVIOUS
    <2>1. [h EXCEPT !.id = o.id] = o /\ ~h.urg
      BY <1>4
    <2> HIDE DEF o
    <2>2. o.seq = h.seq /\ o.ack = h.ack /\ o.win = h.win /\ o.len = h.len
      BY <2>1 DEF Headers
    <2>3. Changes(o, h) = {}
      BY <2>1, <2>2 DEF Changes, SPECIAL_D
    <2> QED
      BY <2>2, <2>3 DEF Compressible
  <1>7. Coming(f)'
    <2>1. tx'.st[f.slot] = h /\ tx'.xmit = f.slot
          /\ \A j \in Slots : j # f.slot => tx'.st[j] = tx.st[j]
      BY <1>1, <1>2, <1>4 DEF IInv, Types
    <2>2. \A j \in Slots \ dirty : rx.st[j] = tx.st[j]
      BY <1>2 DEF IInv, InStep
    <2>3. ~astray => rx.last = tx.xmit
      BY <1>2 DEF IInv, InStep
    <2> QED
      BY <1>1, <1>2, <1>4, <1>5, <1>6, <2>1, <2>2, <2>3 DEF Coming
  <1> QED
    BY <1>2, <1>3, <1>7 DEF IInv, InStep, Nothing

(* A frame arrives: what it restores is what the sender has, or the slot   *)
(* counts as dirty afterwards.                                             *)
LEMMA UncompressKeeps ==
    ASSUME VjAssumption, IInv, NEW f \in line, uncompress(f)
    PROVE  IInv'
  <1> DEFINE i == IF f.cid = None THEN rx.last ELSE f.cid
             h == IF f.type = "UNCOMPRESSED" THEN f.of ELSE Restored(rx.st[i], f)
             ok == ~Useless(f) /\ ~Tossed(f)
             fits == f.cid # None \/ ~astray
  <1>1. Coming(f) /\ None \notin Slots
    BY DEF IInv, VjAssumption, Slots
  <1>2. /\ line' = {}
        /\ dirty' = IF ok /\ f.type = "UNCOMPRESSED" THEN dirty \ {f.slot}
                    ELSE IF ok /\ fits THEN dirty
                    ELSE dirty \cup {f.slot} \cup (IF ok THEN {rx.last} ELSE {})
        /\ astray' = (~(ok /\ f.cid # None) /\ (astray \/ ~ok))
        /\ out' = [trusted |-> ok /\ (f.type = "UNCOMPRESSED" \/ (f.slot \notin dirty /\ fits)),
                   again |-> f.again, same |-> ok /\ rx'.st[rx'.last] = f.of]
        /\ UNCHANGED <<traffic, tx, id>>
    BY DEF uncompress
  <1>3. rx' = IF ok THEN [st |-> [rx.st EXCEPT ![i] = h], last |-> i, toss |-> FALSE, on |-> TRUE]
              ELSE rx
    BY DEF uncompress, slc_uncompress
  <1>4. f.type = "UNCOMPRESSED" => ok
    BY <1>1 DEF Coming, Useless, Tossed
  <1>5. f.type = "UNCOMPRESSED" \/ fits => i = f.slot
    BY <1>1 DEF Coming
  <1> HIDE DEF ok, i, h
  <1>6. Types'
    BY <1>2, <1>3 DEF IInv, Types
  <1>7. /\ f.slot \in DOMAIN rx.st /\ DOMAIN rx.st = Slots
        /\ f.of = tx.st[f.slot] /\ tx.xmit = f.slot
        /\ \A j \in Slots \ dirty : j # f.slot => rx.st[j] = tx.st[j]
    BY <1>1 DEF IInv, Types, Coming
  <1>8. ok /\ (f.type = "UNCOMPRESSED" \/ (f.slot \notin dirty /\ fits)) =>
            rx'.last = f.slot /\ rx'.st[f.slot] = f.of
    <2> SUFFICES ASSUME ok, f.type = "UNCOMPRESSED" \/ (f.slot \notin dirty /\ fits)
                 PROVE  rx'.last = f.slot /\ rx'.st[f.slot] = f.of
      OBVIOUS
    <2>1. i = f.slot /\ h = f.of
      BY <1>1, <1>5 DEF Coming, h
    <2> QED
      BY <2>1, <1>3, <1>7
  <1>9. InStep'
    <2>1. ASSUME NEW j \in Slots \ dirty'
          PROVE  rx'.st[j] = tx'.st[j]
      <3>1. CASE ok /\ (f.type = "UNCOMPRESSED" \/ fits)
        <4>1. i = f.slot /\ rx' = [st |-> [rx.st EXCEPT ![i] = h], last |-> i, toss |-> FALSE,
                                   on |-> TRUE]
          BY <3>1, <1>3, <1>5
        <4>2. CASE j = f.slot
          BY <4>2, <3>1, <1>2, <1>7, <1>8
        <4>3. CASE j # f.slot
          BY <4>1, <4>3, <3>1, <1>2, <1>7
        <4> QED
          BY <4>2, <4>3
      <3>2. CASE ok /\ ~(f.type = "UNCOMPRESSED" \/ fits)
        <4>1. j # f.slot /\ j # rx.last /\ j \notin dirty
          BY <3>2, <1>2
        <4>2. i = rx.last
          BY <3>2 DEF i
        <4> QED
          BY <4>1, <4>2, <3>2, <1>2, <1>3, <1>7
      <3>3. CASE ~ok
        BY <3>3, <1>2, <1>3, <1>4, <1>7
      <3> QED
        BY <3>1, <3>2, <3>3
    <2>2. ASSUME ~astray'
          PROVE  rx'.last = tx'.xmit
      <3>1. ok /\ fits
        BY <2>2, <1>2
      <3> QED
        BY <3>1, <1>2, <1>3, <1>5, <1>7
    <2> QED
      BY <2>1, <2>2 DEF InStep
  <1>10. out'.trusted => out'.same
    BY <1>2, <1>8
  <1>11. out'.again => out'.same
    BY <1>1, <1>2, <1>4, <1>8 DEF Coming
  <1> QED
    BY <1>2, <1>6, <1>9, <1>10, <1>11 DEF IInv

(* A frame is lost: its slot is dirty from then on.                        *)
LEMMA LoseKeeps ==
    ASSUME VjAssumption, IInv, NEW f \in line, Lose(f)
    PROVE  IInv'
  <1>1. Coming(f) /\ Types
    BY DEF IInv
  <1>2. /\ line' = {} /\ out' = Nothing /\ UNCHANGED <<traffic, tx, rx, id>>
        /\ dirty' = dirty \cup {f.slot} /\ astray' = (astray \/ f.cid # None)
    BY DEF Lose
  <1>3. Types'
    BY <1>1, <1>2 DEF Types
  <1>4. InStep'
    BY <1>1, <1>2 DEF InStep, Coming
  <1> QED
    BY <1>2, <1>3, <1>4 DEF IInv, Nothing

(* A damaged frame spoils the slot that it changes and the one it is for.  *)
LEMMA DamageKeeps ==
    ASSUME VjAssumption, IInv, NEW f \in line, NEW i \in Slots, NEW h, Damage(f, i, h)
    PROVE  IInv'
  <1>1. Coming(f) /\ Types
    BY DEF IInv
  <1>2. /\ line' = {} /\ out' = Nothing /\ UNCHANGED <<traffic, tx, id>>
        /\ rx' = [rx EXCEPT !.st[i] = h, !.last = i, !.toss = TRUE]
        /\ dirty' = dirty \cup {f.slot, i} /\ astray' = TRUE
    BY DEF Damage
  <1>3. rx' = [st |-> [rx.st EXCEPT ![i] = h], last |-> i, toss |-> TRUE, on |-> rx.on]
    BY <1>1, <1>2 DEF Types
  <1>4. Types'
    BY <1>1, <1>2, <1>3 DEF Types
  <1>5. InStep'
    BY <1>1, <1>2, <1>3 DEF InStep, Coming, Types
  <1> QED
    BY <1>2, <1>4, <1>5 DEF IInv, Nothing

(* Every step keeps the invariant.                                         *)
LEMMA NextKeeps ==
    ASSUME VjAssumption, ~ShortInt, IInv, [Next]_vars
    PROVE  IInv'
  <1>1. ASSUME NEW conn \in traffic.conns, NEW ds \in traffic.seqs, NEW da \in traffic.acks,
               NEW di \in traffic.ids, NEW win \in traffic.wins, NEW urp \in traffic.urps,
               NEW len \in traffic.lens, slc_compress(Header(conn, ds, da, di, win, urp, len))
        PROVE  IInv'
    <2>1. Header(conn, ds, da, di, win, urp, len) \in Headers
      BY HeaderTyped DEF IInv
    <2> QED
      BY <1>1, <2>1, CompressKeeps
  <1>2. ASSUME NEW f \in line, uncompress(f)
        PROVE  IInv'
    BY <1>2, UncompressKeeps
  <1>3. ASSUME NEW f \in line, Lose(f)
        PROVE  IInv'
    BY <1>3, LoseKeeps
  <1>4. ASSUME NEW f \in line, NEW i \in Slots, NEW h, Damage(f, i, h)
        PROVE  IInv'
    BY <1>4, DamageKeeps
  <1>5. CASE UNCHANGED vars
    <2>1. Types' /\ InStep'
      BY <1>5 DEF vars, IInv, Types, InStep
    <2>2. ASSUME NEW f \in line'
          PROVE  Coming(f)'
      BY <1>5, <2>2 DEF vars, IInv, Coming
    <2> QED
      BY <1>5, <2>1, <2>2 DEF vars, IInv
  <1> QED
    BY <1>1, <1>2, <1>3, <1>4, <1>5 DEF Next

(***************************************************************************)
(* The theorems                                                            *)
(***************************************************************************)
(* Whatever is sent and lost, the invariant holds.                         *)
THEOREM Inductive ==
    ASSUME ~ShortInt
    PROVE  Spec => []IInv
  <1>1. Init => IInv
    BY VjAssumption, InitEstablishes
  <1>2. IInv /\ [Next]_vars => IInv'
    BY VjAssumption, NextKeeps
  <1> QED
    BY <1>1, <1>2, PTL DEF Spec

(* slc_compress and slc_uncompress are inverses: what comes out of a slot  *)
(* that missed nothing is what went in.                                    *)
THEOREM TransparentInvariant ==
    ASSUME ~ShortInt
    PROVE  Spec => []Transparent
  <1>1. IInv => Transparent
    BY DEF IInv, Transparent
  <1> QED
    BY <1>1, Inductive, PTL

(* When nothing is on the line, the two ends agree on every slot that      *)
(* missed nothing, and on the slot of the next frame without a number.     *)
THEOREM InStepInvariant ==
    ASSUME ~ShortInt
    PROVE  Spec => []InStep
  <1>1. IInv => InStep
    BY DEF IInv
  <1> QED
    BY <1>1, Inductive, PTL

(* A segment that is sent again, and is not urgent, arrives as it is,      *)
(* whatever was lost before.                                               *)
THEOREM AgainArrivesInvariant ==
    ASSUME ~ShortInt
    PROVE  Spec => []AgainArrives
  <1>1. IInv => AgainArrives
    BY DEF IInv, AgainArrives
  <1> QED
    BY <1>1, Inductive, PTL
=============================================================================
