---------------------- MODULE RDMAContextCallbackProofs ----------------------
(***************************************************************************)
(* Callbacks, records and data of RDMAContext: each read is called back     *)
(* exactly once, on a record that exists, and SUCCESS means that all its    *)
(* data has arrived; for every set of callers and requests, every number of *)
(* queue pairs and every depth of the send queue.                           *)
(***************************************************************************)
EXTENDS RDMAContextProofs

(* The faults under which the theorems of this module do not hold: a piece  *)
(* whose post fails is never reported, and a completion that calls back     *)
(* through a record that was freed reports another request.                 *)
Reliable == "post" \notin Faults /\ "reuse" \notin Faults

ReadPiece == {p \in Piece : Op[p[1]] = "READ"}

(* Where a piece can be on queue pair q: queued (1; once posted it is not,  *)
(* although it is popped later), posted (2), completed (3), polled (4), each *)
(* time at index i.                                                         *)
At(p, s, q, i) ==
  \/ /\ s = 1 /\ i \in 1 .. Len(assign_queue_[q]) /\ assign_queue_[q][i] = p
     /\ wq[q] = "pop" => i # 1
  \/ s = 2 /\ i \in 1 .. Len(sq[q]) /\ sq[q][i] = p
  \/ s = 3 /\ i \in 1 .. Len(cq) /\ cq[i].info = p /\ cq[i].qpi = q
  \/ s = 4 /\ i \in 1 .. Len(wc) /\ wc[i].info = p /\ wc[i].qpi = q

Ahead(s, i, t, j) == s > t \/ (s = t /\ i < j)

On(p, q) == \E j \in 1 .. Len(pushed[q]) : pushed[q][j] = p

(* The threads start once; the array of polled completions is empty unless  *)
(* the completion thread works through it.                                  *)
ThreadInv ==
  /\ cqPc = "none" => \A q \in QPI : wq[q] = "none"
  /\ cqPc \notin {"call", "release", "exit"} => wc = <<>>

(* A request that is not pushed yet has one owner.                          *)
Submitting(t) == client[t].pc \in {"store", "push"}

Fresh(r) == \A q \in QPI, p \in Piece : On(p, q) => p[1] # r

OwnerInv ==
  /\ \A r \in unsent : Fresh(r)
  /\ \A t \in Client : Submitting(t) => Fresh(client[t].req) /\ client[t].req \notin unsent
  /\ \A t, u \in Client : Submitting(t) /\ Submitting(u) /\ client[t].req = client[u].req => t = u

(* All pieces of a request are pushed to one queue pair.                    *)
PushInv ==
  /\ \A p, o \in Piece, q, d \in QPI : On(p, q) /\ On(o, d) /\ p[1] = o[1] => q = d
  /\ \A p, o \in Piece, q \in QPI : On(p, q) /\ p[1] = o[1] => On(o, q)

(* Completions name read pieces only.                                       *)
InfoInv ==
  /\ \A i \in 1 .. Len(cq) : cq[i].info # NULL => cq[i].info \in ReadPiece
  /\ \A i \in 1 .. Len(wc) : wc[i].info # NULL => wc[i].info \in ReadPiece

(* A read piece is in one place of the queue pair it was pushed to, and     *)
(* behind the pieces of its request with smaller numbers.                   *)
PlaceInv ==
  /\ \A p \in ReadPiece, q \in QPI, s \in 1 .. 4, i \in Nat : At(p, s, q, i) => On(p, q)
  /\ \A p, o \in ReadPiece, q \in QPI, s, t \in 1 .. 4, i, j \in Nat :
       At(p, s, q, i) /\ At(o, t, q, j) /\ p[1] = o[1] =>
         /\ p[2] = o[2] => s = t /\ i = j
         /\ p[2] < o[2] => Ahead(s, i, t, j)

(* The callback has run once the last piece is through.                     *)
Placed(p) == \E s \in 1 .. 4, q \in QPI, i \in Nat : At(p, s, q, i)

Called(p) == cqPc = "release" /\ Head(wc).info = p

Last(r) == <<r, NumPieces(r)>>

CallInv ==
  \A r \in Reads :
    finished_[r] = IF (\E q \in QPI : On(Last(r), q)) /\ (Placed(Last(r)) => Called(Last(r)))
                     THEN 1 ELSE 0

(* The handle of a read is held until its callback.                         *)
HeldInv ==
  \A r \in Reads :
    Usage[r] # "forget" /\ (\E q \in QPI : On(Last(r), q)) /\ finished_[r] = 0 => r \in held

Arrived(r) == \A e \in 1 .. Size[r] : <<r, e>> \in moved

(* As long as a queue pair has not failed, the pieces that have left its    *)
(* send queue have arrived; a success that is reported, or is about to be,  *)
(* speaks for the request.                                                  *)
Gone(p, q) == \A s \in {1, 2}, i \in Nat : ~At(p, s, q, i)

GoneArrived ==
  \A p \in ReadPiece, q \in QPI :
    On(p, q) /\ qpState[q] = "RTS" /\ Gone(p, q) => Items(p, PieceSize(p)) \subseteq moved

Announces(c) == c.info # NULL /\ c.status = "SUCCESS" /\ IsLast(c.info)

AnnouncedArrived ==
  /\ \A i \in 1 .. Len(cq) : Announces(cq[i]) => Arrived(cq[i].info[1])
  /\ \A i \in 1 .. Len(wc) : Announces(wc[i]) => Arrived(wc[i].info[1])

DataInv == GoneArrived /\ AnnouncedArrived /\ SuccessMeansData
-----------------------------------------------------------------------------
(* Types, and the places of a piece after each step that moves one.         *)

(* The types that proofs use most.                                          *)
LEMMA Typed ==
  ASSUME TypeOK
  PROVE  /\ \A q \in QPI : /\ assign_queue_[q] \in Seq(Piece) /\ pushed[q] \in Seq(Piece)
                           /\ sq[q] \in Seq(Piece \union {NULL})
         /\ DOMAIN assign_queue_ = QPI /\ DOMAIN pushed = QPI /\ DOMAIN sq = QPI
         /\ DOMAIN wq = QPI /\ DOMAIN qpState = QPI
         /\ cq \in Seq(Cqe) /\ wc \in Seq(Cqe)
         /\ finished_ \in [Request -> Nat]
  BY DEF TypeOK, QueueTypeOK, CqTypeOK, DeviceTypeOK

(* Integer division by a positive divisor, from both sides.                 *)
LEMMA DivBounds ==
  ASSUME NEW a \in Nat, NEW s \in Nat, s >= 1
  PROVE  /\ (a \div s) \in Nat /\ (a \div s) * s \in Nat
         /\ (a \div s) * s <= a /\ a < (a \div s) * s + s
  OBVIOUS

(* The places in a concatenation.                                           *)
LEMMA ConcatPlace ==
  ASSUME NEW S, NEW a \in Seq(S), NEW b \in Seq(S), NEW p
  PROVE  /\ a \o b \in Seq(S) /\ Len(a \o b) = Len(a) + Len(b)
         /\ \A i \in Nat :
              i \in 1 .. Len(a \o b) /\ (a \o b)[i] = p <=>
                \/ i \in 1 .. Len(a) /\ a[i] = p
                \/ \E k \in 1 .. Len(b) : i = Len(a) + k /\ b[k] = p
  <1>1. Len(a) \in Nat /\ Len(b) \in Nat
    OBVIOUS
  <1>2. /\ a \o b \in Seq(S) /\ Len(a \o b) = Len(a) + Len(b)
        /\ \A i \in 1 .. Len(a) + Len(b) : (a \o b)[i] = IF i <= Len(a) THEN a[i] ELSE b[i - Len(a)]
    BY ConcatProperties
  <1>3. ASSUME NEW i \in Nat
        PROVE  i \in 1 .. Len(a \o b) /\ (a \o b)[i] = p <=>
                 \/ i \in 1 .. Len(a) /\ a[i] = p
                 \/ \E k \in 1 .. Len(b) : i = Len(a) + k /\ b[k] = p
    <2>1. CASE i <= Len(a)
      BY <1>1, <1>2, <2>1
    <2>2. CASE ~(i <= Len(a))
      <3>1. \A k \in 1 .. Len(b) : i = Len(a) + k <=> k = i - Len(a)
        BY <1>1
      <3>2. i \in 1 .. Len(a) + Len(b) <=> i - Len(a) \in 1 .. Len(b)
        BY <1>1, <2>2
      <3> QED
        BY <1>1, <1>2, <2>2, <3>1, <3>2
    <2> QED
      BY <2>1, <2>2
  <1> QED
    BY <1>2, <1>3

(* A read piece is a pair of a read and the number of a piece.              *)
LEMMA ReadPieceFacts ==
  \A p \in ReadPiece : /\ p \in Piece /\ p # NULL /\ IsRead(p)
                       /\ p[1] \in Reads /\ p[2] \in 1 .. NumPieces(p[1]) /\ p = <<p[1], p[2]>>
  BY NullAssumption DEF ReadPiece, Piece, IsRead, Reads

(* The pieces of a split leave no Assignment out.                           *)
LEMMA SplitCovers ==
  ASSUME NEW r \in Request, NEW e \in 1 .. Size[r]
  PROVE  \E k \in 1 .. NumPieces(r) : <<r, e>> \in Items(<<r, k>>, PieceSize(<<r, k>>))
  <1> DEFINE S == SplitStep
             k == (e - 1) \div S + 1
             n == NumPieces(r)
             base == (k - 1) * S
  <1>1. Size[r] \in Nat /\ e \in Nat /\ e >= 1 /\ e <= Size[r] /\ S \in Nat /\ S >= 1
    BY ConstantsAssumption, SplitStepType
  <1>2. k \in Nat /\ k >= 1 /\ base \in Nat /\ base <= e - 1 /\ e - 1 < base + S
    BY <1>1, DivBounds, e - 1 \in Nat
  <1>3. n \in Nat /\ Size[r] <= n * S
    <2>1. /\ n = (Size[r] + S - 1) \div S
          /\ Size[r] + S - 1 \in Nat
      BY <1>1 DEF NumPieces
    <2> HIDE DEF S, n
    <2>2. n \in Nat /\ n * S \in Nat /\ Size[r] + S - 1 < n * S + S
      BY <1>1, <2>1, DivBounds
    <2> QED
      BY <1>1, <2>2
  <1> HIDE DEF S, k, n, base
  <1>4. k <= n
    <2> SUFFICES ASSUME ~(k <= n) PROVE FALSE
      OBVIOUS
    <2>1. n <= k - 1 /\ k - 1 \in Nat
      BY <1>2, <1>3
    <2>2. n * S <= base
      BY <1>1, <1>3, <2>1, TimesMonotonic DEF base
    <2>3. n * S \in Nat
      BY <1>1, <1>3, TimesMonotonic
    <2> QED
      BY <1>1, <1>2, <1>3, <2>2, <2>3
  <1>5. FirstOf(<<r, k>>) = base + 1 /\ PieceSize(<<r, k>>) = IF S <= Size[r] - base THEN S ELSE Size[r] - base
    BY <1>1, <1>2 DEF FirstOf, PieceSize, Smaller, base, S
  <1>6. <<r, e>> \in Items(<<r, k>>, PieceSize(<<r, k>>))
    BY <1>1, <1>2, <1>5 DEF Items
  <1> QED
    BY <1>2, <1>3, <1>4, <1>6 DEF n

(* The pieces of a request are read pieces if it is a read.                 *)
LEMMA PieceOfRead ==
  ASSUME NEW r \in Request
  PROVE  /\ NumPieces(r) \in Nat
         /\ \A k \in 1 .. NumPieces(r) : <<r, k>> \in Piece
         /\ r \in Reads => \A k \in 1 .. NumPieces(r) : <<r, k>> \in ReadPiece
  <1>1. NumPieces(r) \in Nat
    BY ConstantsAssumption, SplitStepType, DivFloor, Size[r] + SplitStep - 1 \in Nat DEF NumPieces
  <1>2. \A k \in 1 .. NumPieces(r) : <<r, k>> \in Piece
    BY DEF Piece
  <1> QED
    BY <1>1, <1>2 DEF ReadPiece, Reads

(* Places depend on four variables and on which heads were just posted.     *)
LEMMA SamePlaces ==
  ASSUME UNCHANGED <<assign_queue_, sq, cq, wc>>, \A q \in QPI : wq'[q] = "pop" <=> wq[q] = "pop"
  PROVE  \A p, s, i : \A q \in QPI : At(p, s, q, i)' <=> At(p, s, q, i)
  BY DEF At

(* A completion or a fake work request that names no piece.                 *)
LEMMA StopPostPlaces ==
  ASSUME TypeOK, StopCqPost
  PROVE  \A p \in ReadPiece, s \in 1 .. 4, q \in QPI, i \in Nat : At(p, s, q, i)' <=> At(p, s, q, i)
  <1>1. UNCHANGED <<assign_queue_, wq, cq, wc>> /\ sq' = [sq EXCEPT ![0] = Append(@, NULL)]
    BY DEF StopCqPost, queueVars, cqVars, cqeVars
  <1> SUFFICES ASSUME NEW p \in ReadPiece, NEW q \in QPI, NEW i \in Nat
               PROVE  At(p, 2, q, i)' <=> At(p, 2, q, i)
    BY <1>1 DEF At
  <1>2. p # NULL
    BY ReadPieceFacts
  <1>3. sq'[q] = IF q = 0 THEN Append(sq[q], NULL) ELSE sq[q]
    BY <1>1, Typed
  <1>4. CASE q = 0
    <2>1. Len(sq'[q]) = Len(sq[q]) + 1 /\ sq'[q][Len(sq[q]) + 1] = NULL
          /\ \A j \in 1 .. Len(sq[q]) : sq'[q][j] = sq[q][j]
      BY <1>3, <1>4, Typed
    <2> QED
      BY <1>2, <2>1, Typed DEF At
  <1>5. CASE q # 0
    BY <1>3, <1>5 DEF At
  <1> QED
    BY <1>4, <1>5

(* So does a receive that completes.                                        *)
LEMMA ReceivePlaces ==
  ASSUME TypeOK, NEW d \in QPI, HwReceive(d)
  PROVE  /\ \A p \in ReadPiece, s \in 1 .. 4, q \in QPI, i \in Nat : At(p, s, q, i)' <=> At(p, s, q, i)
         /\ Len(cq') = Len(cq) + 1 /\ cq'[Len(cq) + 1].info = NULL
         /\ \A i \in 1 .. Len(cq) : cq'[i] = cq[i]
  <1>1. PICK st \in {"SUCCESS", "FAILED"} : cq' = cq \o Completions(d, <<NULL>>, st)
    BY DEF HwReceive, Complete
  <1> DEFINE new == Completions(d, <<NULL>>, st)
  <1>2. Len(new) = 1 /\ new[1].info = NULL /\ new \in Seq(Cqe)
    <2>1. <<NULL>> \in Seq(Piece \union {NULL}) /\ Len(<<NULL>>) = 1 /\ <<NULL>>[1] = NULL
      OBVIOUS
    <2>2. new \in Seq(Cqe)
      BY <2>1, CompletionsType
    <2>3. new = [i \in 1 .. 1 |-> [info |-> <<NULL>>[i], qpi |-> d, status |-> st]]
      BY <2>1 DEF Completions
    <2> QED
      BY <2>1, <2>2, <2>3
  <1> HIDE DEF new
  <1>3. Len(cq') = Len(cq) + 1 /\ cq'[Len(cq) + 1] = new[1] /\ \A i \in 1 .. Len(cq) : cq'[i] = cq[i]
    <2>1. cq \in Seq(Cqe) /\ cq' = cq \o new
      BY <1>1, Typed DEF new
    <2>2. Len(cq) \in Nat
      BY <2>1
    <2>3. \A i \in 1 .. Len(cq) + 1 : cq'[i] = IF i <= Len(cq) THEN cq[i] ELSE new[i - Len(cq)]
      <3>1. \A i \in 1 .. Len(cq) + Len(new) :
              (cq \o new)[i] = IF i <= Len(cq) THEN cq[i] ELSE new[i - Len(cq)]
        BY <1>2, <2>1, ConcatProperties
      <3> QED
        BY <1>2, <2>1, <3>1
    <2> QED
      <3>1. Len(cq') = Len(cq) + 1
        <4>1. Len(cq \o new) = Len(cq) + Len(new)
          BY <1>2, <2>1, ConcatProperties
        <4> QED
          BY <1>2, <2>1, <4>1
      <3>2. Len(cq) + 1 \in 1 .. Len(cq) + 1 /\ ~(Len(cq) + 1 <= Len(cq)) /\ Len(cq) + 1 - Len(cq) = 1
        BY <2>2
      <3>3. \A i \in 1 .. Len(cq) : i \in 1 .. Len(cq) + 1 /\ i <= Len(cq)
        BY <2>2
      <3> QED
        BY <2>3, <3>1, <3>2, <3>3
  <1>4. UNCHANGED <<assign_queue_, wq, sq, wc>>
    BY DEF HwReceive, queueVars, cqVars
  <1>5. \A p \in ReadPiece, q \in QPI, i \in Nat : At(p, 3, q, i)' <=> At(p, 3, q, i)
    BY <1>2, <1>3, ReadPieceFacts, Typed DEF At
  <1>6. \A p \in ReadPiece, s \in {1, 2, 4}, q \in QPI, i \in Nat : At(p, s, q, i)' <=> At(p, s, q, i)
    BY <1>4 DEF At
  <1>7. 1 .. 4 = {1, 2, 3, 4}
    OBVIOUS
  <1> QED
    BY <1>2, <1>3, <1>5, <1>6, <1>7

(* submit queues the pieces of a request in order.                          *)
LEMMA PushPlaces ==
  ASSUME TypeOK, NEW t \in Client, SubmitPush(t)
  PROVE  LET r == client[t].req
             d == client[t].qpi
         IN /\ r \in Request /\ d \in QPI
            /\ \A p \in Piece, q \in QPI : On(p, q)' <=> On(p, q) \/ (p[1] = r /\ q = d)
            /\ \A p \in Piece, s \in 1 .. 4, q \in QPI, i \in Nat :
                 At(p, s, q, i)' <=>
                   \/ At(p, s, q, i)
                   \/ p[1] = r /\ s = 1 /\ q = d /\ i = Len(assign_queue_[d]) + p[2]
  <1>1. PICK r \in Request, d \in QPI : r = client[t].req /\ d = client[t].qpi
    BY DEF SubmitPush, TypeOK, ClientTypeOK
  <1> DEFINE n == NumPieces(r)
             new == Pieces(r)
  <1>2. n \in Nat /\ new \in Seq(Piece) /\ Len(new) = n /\ \A k \in 1 .. n : new[k] = <<r, k>>
    BY <1>1, PieceOfRead, PiecesType DEF Pieces
  <1>3. /\ assign_queue_' = [assign_queue_ EXCEPT ![d] = @ \o new]
        /\ pushed' = [pushed EXCEPT ![d] = @ \o new]
        /\ wq' = Notified(d) /\ ~Locked(d) /\ UNCHANGED <<sq, cq, wc>>
    BY <1>1 DEF SubmitPush, cqVars, hwVars
  <1> HIDE DEF n, new
  <1>4. \A q \in QPI : (wq'[q] = "pop" <=> wq[q] = "pop") /\ wq[d] # "pop"
    BY <1>1, <1>3, Typed DEF Notified, Locked
  <1>5. \A p \in Piece, k \in Nat : (\E j \in 1 .. n : k = j /\ new[j] = p) <=> p[1] = r /\ k = p[2]
    <2>1. ASSUME NEW p \in Piece, p[1] = r
          PROVE  p[2] \in 1 .. n /\ p = <<r, p[2]>>
      BY <2>1 DEF Piece, n
    <2> QED
      BY <1>2, <2>1
  <1>6. /\ assign_queue_'[d] = assign_queue_[d] \o new
        /\ pushed'[d] = pushed[d] \o new
        /\ \A q \in QPI : q # d => assign_queue_'[q] = assign_queue_[q] /\ pushed'[q] = pushed[q]
    BY <1>1, <1>3, Typed
  <1>7. /\ assign_queue_[d] \in Seq(Piece) /\ Len(assign_queue_[d]) \in Nat
        /\ pushed[d] \in Seq(Piece) /\ Len(pushed[d]) \in Nat
    BY <1>1, Typed
  <1>8. \A p \in Piece, q \in QPI : On(p, q)' <=> On(p, q) \/ (p[1] = r /\ q = d)
    <2> SUFFICES ASSUME NEW p \in Piece PROVE On(p, d)' <=> On(p, d) \/ p[1] = r
      <3>1. \A p \in Piece, q \in QPI : q # d => (On(p, q)' <=> On(p, q))
        BY <1>6 DEF On
      <3> QED
        BY <3>1
    <2>1. /\ Len(pushed'[d]) = Len(pushed[d]) + n
          /\ \A i \in Nat :
               i \in 1 .. Len(pushed'[d]) /\ pushed'[d][i] = p <=>
                 \/ i \in 1 .. Len(pushed[d]) /\ pushed[d][i] = p
                 \/ \E k \in 1 .. n : i = Len(pushed[d]) + k /\ new[k] = p
      <3>1. new \in Seq(Piece) /\ Len(new) = n
        BY <1>2
      <3>2. /\ Len(pushed[d] \o new) = Len(pushed[d]) + Len(new)
            /\ \A i \in Nat :
                 i \in 1 .. Len(pushed[d] \o new) /\ (pushed[d] \o new)[i] = p <=>
                   \/ i \in 1 .. Len(pushed[d]) /\ pushed[d][i] = p
                   \/ \E k \in 1 .. Len(new) : i = Len(pushed[d]) + k /\ new[k] = p
        <4>1. PICK a \in Seq(Piece) : a = pushed[d]
          BY <1>7
        <4>2. PICK b \in Seq(Piece) : b = new
          BY <3>1
        <4>3. /\ Len(a \o b) = Len(a) + Len(b)
              /\ \A i \in Nat :
                   i \in 1 .. Len(a \o b) /\ (a \o b)[i] = p <=>
                     \/ i \in 1 .. Len(a) /\ a[i] = p
                     \/ \E k \in 1 .. Len(b) : i = Len(a) + k /\ b[k] = p
          BY ConcatPlace
        <4> QED
          BY <4>1, <4>2, <4>3
      <3> QED
        BY <1>6, <3>1, <3>2
    <2>2. (\E k \in 1 .. n : new[k] = p) <=> p[1] = r
      <3>1. p[1] = r => p[2] \in Nat
        BY <1>2 DEF Piece, n
      <3> QED
        BY <1>2, <1>5, <3>1
    <2>3. \A k \in 1 .. n : Len(pushed[d]) + k \in Nat
      BY <1>2, <1>7
    <2>4. (\E k \in 1 .. n : new[k] = p) => On(p, d)'
      BY <2>1, <2>3 DEF On
    <2>5. On(p, d) => On(p, d)'
      BY <1>7, <2>1 DEF On
    <2>6. On(p, d)' => On(p, d) \/ \E k \in 1 .. n : new[k] = p
      <3> SUFFICES ASSUME NEW i \in 1 .. Len(pushed'[d]), pushed'[d][i] = p
                   PROVE  On(p, d) \/ \E k \in 1 .. n : new[k] = p
        BY DEF On
      <3>1. i \in Nat
        BY <1>2, <1>7, <2>1
      <3> QED
        BY <2>1, <3>1 DEF On
    <2> QED
      BY <2>2, <2>4, <2>5, <2>6
  <1>9. ASSUME NEW p \in Piece, NEW s \in 1 .. 4, NEW q \in QPI, NEW i \in Nat
        PROVE  At(p, s, q, i)' <=>
                 \/ At(p, s, q, i)
                 \/ p[1] = r /\ s = 1 /\ q = d /\ i = Len(assign_queue_[d]) + p[2]
    <2>1. CASE s # 1 \/ q # d
      BY <1>3, <1>4, <1>6, <2>1 DEF At
    <2>2. CASE s = 1 /\ q = d
      <3>1. At(p, 1, d, i) <=> i \in 1 .. Len(assign_queue_[d]) /\ assign_queue_[d][i] = p
        BY <1>1, <1>4 DEF At
      <3>2. At(p, 1, d, i)' <=> i \in 1 .. Len(assign_queue_'[d]) /\ assign_queue_'[d][i] = p
        BY <1>1, <1>4 DEF At
      <3>3. At(p, 1, d, i)' <=>
              \/ At(p, 1, d, i)
              \/ \E k \in 1 .. n : i = Len(assign_queue_[d]) + k /\ new[k] = p
        <4>1. new \in Seq(Piece) /\ Len(new) = n
          BY <1>2
        <4>2. i \in 1 .. Len(assign_queue_[d] \o new) /\ (assign_queue_[d] \o new)[i] = p <=>
                \/ i \in 1 .. Len(assign_queue_[d]) /\ assign_queue_[d][i] = p
                \/ \E k \in 1 .. Len(new) : i = Len(assign_queue_[d]) + k /\ new[k] = p
          BY <1>7, <4>1, ConcatPlace
        <4> QED
          BY <1>6, <3>1, <3>2, <4>1, <4>2
      <3>4. (\E k \in 1 .. n : i = Len(assign_queue_[d]) + k /\ new[k] = p)
              <=> p[1] = r /\ i = Len(assign_queue_[d]) + p[2]
        <4>1. p[1] = r => p[2] \in 1 .. n /\ p[2] \in Nat
          BY <1>2 DEF Piece, n
        <4>2. \A k \in 1 .. n : new[k] = p => p[1] = r /\ k = p[2]
          BY <1>2
        <4>3. p[1] = r => new[p[2]] = p
          BY <1>2, <1>5, <4>1
        <4> QED
          BY <4>1, <4>2, <4>3
      <3> QED
        BY <2>2, <3>3, <3>4
    <2> QED
      BY <2>1, <2>2
  <1> QED
    BY <1>1, <1>8, <1>9

(* The dispatcher posts the head of its queue.                              *)
LEMMA PostPlaces ==
  ASSUME TypeOK, FlowControl, NEW d \in QPI, WqPost(d)
  PROVE  LET e == Head(assign_queue_[d])
         IN /\ \A p \in ReadPiece, i \in Nat : At(p, 1, d, i) /\ i = 1 <=> p = e /\ i = 1
            /\ \A p \in ReadPiece, s \in 1 .. 4, q \in QPI, i \in Nat :
                 At(p, s, q, i)' <=>
                   \/ At(p, s, q, i) /\ ~(s = 1 /\ q = d /\ i = 1)
                   \/ p = e /\ s = 2 /\ q = d /\ i = Len(sq[d]) + 1
  <1>1. PICK e \in Piece : e = Head(assign_queue_[d])
    BY Typed DEF WqPost, WqGoto, FlowControl
  <1>2. /\ wq[d] = "post" /\ wq' = [wq EXCEPT ![d] = "pop"]
        /\ UNCHANGED <<assign_queue_, cq, wc>>
        /\ sq' = IF Op[e[1]] = "RECV" THEN sq ELSE [sq EXCEPT ![d] = Append(@, e)]
    BY <1>1 DEF WqPost, WqGoto, cqVars, cqeVars
  <1>3. assign_queue_[d] # <<>> /\ 1 \in 1 .. Len(assign_queue_[d]) /\ assign_queue_[d][1] = e
    BY <1>1, <1>2, Typed DEF FlowControl
  <1>4. \A p \in ReadPiece, i \in Nat : At(p, 1, d, i) /\ i = 1 <=> p = e /\ i = 1
    BY <1>2, <1>3 DEF At
  <1>5. \A p \in ReadPiece, q \in QPI, i \in Nat :
          At(p, 1, q, i)' <=> At(p, 1, q, i) /\ ~(q = d /\ i = 1)
    <2>1. wq'[d] = "pop" /\ \A q \in QPI : q # d => wq'[q] = wq[q]
      BY <1>2, Typed
    <2> QED
      BY <1>2, <2>1 DEF At
  <1>6. ASSUME NEW p \in ReadPiece, NEW q \in QPI, NEW i \in Nat
        PROVE  At(p, 2, q, i)' <=> At(p, 2, q, i) \/ (p = e /\ q = d /\ i = Len(sq[d]) + 1)
    <2>1. p[1] \in Reads /\ (p = e => Op[e[1]] # "RECV")
      BY ReadPieceFacts DEF Reads
    <2>2. CASE q # d \/ Op[e[1]] = "RECV"
      <3>1. sq'[q] = sq[q]
        BY <1>2, <2>2, Typed
      <3> QED
        BY <2>1, <2>2, <3>1 DEF At
    <2>3. CASE q = d /\ Op[e[1]] # "RECV"
      <3>1. sq'[d] = Append(sq[d], e) /\ sq[d] \in Seq(Piece \union {NULL})
        BY <1>2, <2>3, Typed
      <3>2. /\ Len(sq[d]) \in Nat /\ Len(sq'[d]) = Len(sq[d]) + 1 /\ sq'[d][Len(sq[d]) + 1] = e
            /\ \A j \in 1 .. Len(sq[d]) : sq'[d][j] = sq[d][j]
        BY <3>1
      <3> QED
        BY <2>3, <3>2 DEF At
    <2> QED
      BY <2>2, <2>3
  <1>7. \A p \in ReadPiece, s \in {3, 4}, q \in QPI, i \in Nat : At(p, s, q, i)' <=> At(p, s, q, i)
    BY <1>2 DEF At
  <1>8. 1 .. 4 = {1, 2} \union {3, 4}
    OBVIOUS
  <1> QED
    BY <1>1, <1>4, <1>5, <1>6, <1>7, <1>8

(* The posted head leaves the queue.                                        *)
LEMMA PopPlaces ==
  ASSUME TypeOK, FlowControl, NEW d \in QPI, WqPop(d)
  PROVE  /\ \A p \in Piece : ~At(p, 1, d, 1)
         /\ \A p \in Piece, s \in 1 .. 4, q \in QPI, i \in Nat :
              At(p, s, q, i)' <=> IF s = 1 /\ q = d THEN At(p, 1, d, i + 1) ELSE At(p, s, q, i)
  <1>1. /\ wq[d] = "pop" /\ wq' = [wq EXCEPT ![d] = "drain"]
        /\ assign_queue_' = [assign_queue_ EXCEPT ![d] = Tail(@)]
        /\ UNCHANGED <<sq, cq, wc>>
    BY DEF WqPop, WqGoto, cqVars, hwVars
  <1>2. assign_queue_[d] # <<>> /\ assign_queue_[d] \in Seq(Piece)
    BY <1>1, Typed DEF FlowControl
  <1>3. /\ Len(assign_queue_[d]) \in Nat /\ Len(Tail(assign_queue_[d])) = Len(assign_queue_[d]) - 1
        /\ \A i \in 1 .. Len(assign_queue_[d]) - 1 : Tail(assign_queue_[d])[i] = assign_queue_[d][i + 1]
    BY <1>2
  <1>4. /\ wq'[d] = "drain" /\ assign_queue_'[d] = Tail(assign_queue_[d])
        /\ \A q \in QPI : q # d => wq'[q] = wq[q] /\ assign_queue_'[q] = assign_queue_[q]
    BY <1>1, Typed
  <1>5. \A p \in Piece : ~At(p, 1, d, 1)
    BY <1>1 DEF At
  <1>6. ASSUME NEW p \in Piece, NEW i \in Nat
        PROVE  At(p, 1, d, i)' <=> At(p, 1, d, i + 1)
    <2>1. At(p, 1, d, i)' <=> i \in 1 .. Len(assign_queue_[d]) - 1 /\ assign_queue_[d][i + 1] = p
      BY <1>3, <1>4 DEF At
    <2>2. At(p, 1, d, i + 1) <=> i + 1 \in 2 .. Len(assign_queue_[d]) /\ assign_queue_[d][i + 1] = p
      BY <1>1, <1>3 DEF At
    <2> QED
      BY <1>3, <2>1, <2>2
  <1>7. \A p \in Piece, s \in 1 .. 4, q \in QPI, i \in Nat :
          ~(s = 1 /\ q = d) => (At(p, s, q, i)' <=> At(p, s, q, i))
    BY <1>1, <1>4 DEF At
  <1> QED
    BY <1>5, <1>6, <1>7

(* The completion thread takes the oldest completions.                      *)
LEMMA PollPlaces ==
  ASSUME TypeOK, ThreadInv, CqPoll
  PROVE  \E n \in Nat :
           /\ \A i \in 1 .. Len(wc') : i \in 1 .. Len(cq) /\ wc'[i] = cq[i]
           /\ \A i \in 1 .. Len(cq') : i + n \in 1 .. Len(cq) /\ cq'[i] = cq[i + n]
           /\ \A p \in Piece, q \in QPI, i \in Nat : ~At(p, 4, q, i)
           /\ \A p \in Piece, q \in QPI, i \in Nat :
                /\ At(p, 4, q, i)' <=> i <= n /\ At(p, 3, q, i)
                /\ At(p, 3, q, i)' <=> i >= 1 /\ At(p, 3, q, i + n)
           /\ \A p \in Piece, s \in {1, 2}, q \in QPI, i \in Nat : At(p, s, q, i)' <=> At(p, s, q, i)
  <1>1. PICK n \in Nat : n = Smaller(POLL_COUNT, Len(cq)) /\ n <= Len(cq)
    BY Typed, ConstantsAssumption DEF Smaller
  <1>2. /\ cqPc = "poll" /\ wc' = SubSeq(cq, 1, n) /\ cq' = SubSeq(cq, n + 1, Len(cq))
        /\ UNCHANGED <<assign_queue_, wq, sq>>
    BY <1>1 DEF CqPoll, queueVars
  <1>3. wc = <<>>
    BY <1>2 DEF ThreadInv
  <1>4. cq \in Seq(Cqe) /\ Len(cq) \in Nat
    BY Typed
  <1>5. /\ Len(wc') = n /\ \A i \in 1 .. n : wc'[i] = cq[i]
        /\ Len(cq') = Len(cq) - n /\ \A i \in 1 .. Len(cq) - n : cq'[i] = cq[i + n]
    BY <1>1, <1>2, <1>4
  <1>6. /\ \A i \in 1 .. Len(wc') : i \in 1 .. Len(cq) /\ wc'[i] = cq[i]
        /\ \A i \in 1 .. Len(cq') : i + n \in 1 .. Len(cq) /\ cq'[i] = cq[i + n]
    BY <1>1, <1>4, <1>5
  <1>7. \A p \in Piece, q \in QPI, i \in Nat : ~At(p, 4, q, i)
    BY <1>3 DEF At
  <1>8. ASSUME NEW p \in Piece, NEW q \in QPI, NEW i \in Nat
        PROVE  /\ At(p, 4, q, i)' <=> i <= n /\ At(p, 3, q, i)
               /\ At(p, 3, q, i)' <=> i >= 1 /\ At(p, 3, q, i + n)
    <2>1. At(p, 4, q, i)' <=> i \in 1 .. n /\ cq[i].info = p /\ cq[i].qpi = q
      BY <1>5 DEF At
    <2>2. At(p, 3, q, i)' <=> i \in 1 .. Len(cq) - n /\ cq[i + n].info = p /\ cq[i + n].qpi = q
      BY <1>5 DEF At
    <2>3. At(p, 3, q, i) <=> i \in 1 .. Len(cq) /\ cq[i].info = p /\ cq[i].qpi = q
      BY DEF At
    <2>4. At(p, 3, q, i + n) <=> i + n \in 1 .. Len(cq) /\ cq[i + n].info = p /\ cq[i + n].qpi = q
      BY DEF At
    <2>5. i >= 1 => (i \in 1 .. Len(cq) - n <=> i + n \in 1 .. Len(cq))
      BY <1>1, <1>4
    <2>6. i \in 1 .. n <=> i <= n /\ i \in 1 .. Len(cq)
      BY <1>1, <1>4
    <2> QED
      BY <2>1, <2>2, <2>3, <2>4, <2>5, <2>6
  <1>9. \A p \in Piece, s \in {1, 2}, q \in QPI, i \in Nat : At(p, s, q, i)' <=> At(p, s, q, i)
    BY <1>2 DEF At
  <1> QED
    BY <1>6, <1>7, <1>8, <1>9

(* It is done with an entry.                                                *)
LEMMA DropPlaces ==
  ASSUME TypeOK, CqSkip \/ CqRelease
  PROVE  /\ \A i \in 1 .. Len(wc') : i + 1 \in 1 .. Len(wc) /\ wc'[i] = wc[i + 1]
         /\ 1 \in 1 .. Len(wc) /\ Head(wc) = wc[1]
         /\ UNCHANGED cq
         /\ \A p \in Piece, q \in QPI, i \in Nat : At(p, 4, q, i)' <=> i >= 1 /\ At(p, 4, q, i + 1)
         /\ \A p \in Piece, s \in 1 .. 3, q \in QPI, i \in Nat : At(p, s, q, i)' <=> At(p, s, q, i)
  <1>1. wc \in Seq(Cqe) /\ wc # <<>> /\ wc' = Tail(wc) /\ UNCHANGED <<assign_queue_, wq, sq, cq>>
    BY Typed DEF CqSkip, CqRelease, queueVars, hwVars, TypeOK, CqTypeOK
  <1>2. /\ Len(wc) \in Nat /\ Len(wc') = Len(wc) - 1 /\ 1 \in 1 .. Len(wc) /\ Head(wc) = wc[1]
        /\ \A i \in 1 .. Len(wc) - 1 : wc'[i] = wc[i + 1]
    BY <1>1
  <1>3. \A i \in Nat : i \in 1 .. Len(wc) - 1 <=> i >= 1 /\ i + 1 \in 1 .. Len(wc)
    BY <1>2
  <1>4. \A p \in Piece, q \in QPI, i \in Nat : At(p, 4, q, i)' <=> i >= 1 /\ At(p, 4, q, i + 1)
    BY <1>2, <1>3 DEF At
  <1>5. \A p \in Piece, s \in 1 .. 3, q \in QPI, i \in Nat : At(p, s, q, i)' <=> At(p, s, q, i)
    BY <1>1 DEF At
  <1>6. \A i \in 1 .. Len(wc') : i + 1 \in 1 .. Len(wc) /\ wc'[i] = wc[i + 1]
    BY <1>2
  <1> QED
    BY <1>1, <1>2, <1>4, <1>5, <1>6

(* A read is a chain of as many work requests as it has Assignments.        *)
LEMMA ChainLength ==
  ASSUME NEW e \in Piece \union {NULL}
  PROVE  /\ Len(WrIds(e)) = IF IsRead(e) THEN PieceSize(e) ELSE 1
         /\ DOMAIN WrIds(e) = 1 .. IF IsRead(e) THEN PieceSize(e) ELSE 1
  <1>1. CASE IsRead(e)
    <2>1. PieceSize(e) \in Nat
      BY <1>1, PieceShape DEF IsRead
    <2>2. WrIds(e) = [i \in 1 .. PieceSize(e) |-> IF i = PieceSize(e) THEN e ELSE NULL]
      BY <1>1 DEF WrIds
    <2> QED
      BY <1>1, <2>1, <2>2
  <1>2. CASE ~IsRead(e)
    <2>1. WrIds(e) = <<NULL>>
      BY <1>2 DEF WrIds
    <2> QED
      BY <1>2, <2>1
  <1> QED
    BY <1>1, <1>2

(* The entries of a chain, or of its rest: only the last one names a piece. *)
IsChain(c, n, e, q, st) ==
  /\ c \in Seq(Cqe) /\ Len(c) = n /\ n \in Nat /\ n >= 1
  /\ \A j \in 1 .. n : /\ c[j].qpi = q /\ c[j].status = st
                      /\ c[j].info = IF j = n /\ IsRead(e) THEN e ELSE NULL

LEMMA ChainEntries ==
  ASSUME NEW e \in Piece \union {NULL}, NEW k \in 1 .. Len(WrIds(e)),
         NEW q \in QPI, NEW st \in {"SUCCESS", "FAILED"}
  PROVE  IsChain(Completions(q, SubSeq(WrIds(e), k, Len(WrIds(e))), st),
                 Len(WrIds(e)) - k + 1, e, q, st)
  <1> DEFINE ids == WrIds(e)
             n == Len(ids)
             rest == SubSeq(ids, k, n)
             new == Completions(q, rest, st)
  <1>1. ids \in Seq(Piece \union {NULL}) /\ n \in Nat /\ n >= 1
    BY WrIdsType
  <1>2. \A i \in 1 .. n : ids[i] = IF i = n /\ IsRead(e) THEN e ELSE NULL
    <2>1. CASE IsRead(e)
      <3>1. e \in Piece
        BY <2>1 DEF IsRead
      <3>2. PieceSize(e) \in Nat
        BY <3>1, PieceShape
      <3>3. ids = [i \in 1 .. PieceSize(e) |-> IF i = PieceSize(e) THEN e ELSE NULL]
        BY <2>1 DEF WrIds
      <3>4. n = PieceSize(e)
        BY <3>2, <3>3
      <3> QED
        BY <2>1, <3>3, <3>4
    <2>2. CASE ~IsRead(e)
      <3>1. ids = <<NULL>>
        BY <2>2 DEF WrIds
      <3> QED
        BY <2>2, <3>1
    <2> QED
      BY <2>1, <2>2
  <1> HIDE DEF ids
  <1>3. k \in Nat /\ k >= 1 /\ k <= n
    BY <1>1 DEF ids
  <1>4. /\ rest \in Seq(Piece \union {NULL}) /\ Len(rest) = n - k + 1
        /\ \A j \in 1 .. n - k + 1 : rest[j] = ids[k + j - 1]
    BY <1>1, <1>3
  <1>5. new \in Seq(Cqe)
    BY <1>4, CompletionsType
  <1>6. new = [j \in 1 .. n - k + 1 |-> [info |-> rest[j], qpi |-> q, status |-> st]]
    BY <1>4 DEF Completions
  <1>7. n - k + 1 \in Nat /\ n - k + 1 >= 1
    BY <1>1, <1>3
  <1>8. Len(new) = n - k + 1
    BY <1>6, <1>7
  <1>9. ASSUME NEW j \in 1 .. n - k + 1
        PROVE  rest[j] = IF j = n - k + 1 /\ IsRead(e) THEN e ELSE NULL
    <2>1. k + j - 1 \in 1 .. n /\ (k + j - 1 = n <=> j = n - k + 1)
      BY <1>1, <1>3
    <2> QED
      BY <1>2, <1>4, <2>1
  <1> QED
    <2> PICK l : l = n - k + 1
      OBVIOUS
    <2> HIDE DEF rest, n, new
    <2>1. l \in Nat /\ l >= 1 /\ Len(new) = l
      BY <1>7, <1>8
    <2>2. \A j \in 1 .. l : new[j].qpi = q /\ new[j].status = st /\ new[j].info = rest[j]
      BY <1>6
    <2>3. \A j \in 1 .. l : rest[j] = IF j = l /\ IsRead(e) THEN e ELSE NULL
      BY <1>9
    <2>4. IsChain(new, l, e, q, st)
      BY <1>5, <2>1, <2>2, <2>3 DEF IsChain
    <2> QED
      BY <2>4 DEF new, rest, n, ids

(* The device has taken the chain e from the send queue of d and written m  *)
(* completions with status st: one for each work request of a read that     *)
(* does not succeed, at most, and otherwise one.                            *)
Taken(d, e, m, st) ==
  /\ e = Head(sq[d]) /\ m >= 1 /\ Len(cq') = Len(cq) + m /\ wc' = wc
  /\ m <= IF IsRead(e) /\ st = "FAILED" THEN PieceSize(e) ELSE 1
  /\ \A i \in 1 .. Len(cq) : cq'[i] = cq[i]
  /\ \A i \in 1 .. Len(cq') : i > Len(cq) =>
       /\ cq'[i].qpi = d /\ cq'[i].status = st
       /\ cq'[i].info = IF i = Len(cq) + m /\ IsRead(e) THEN e ELSE NULL
  /\ st = "SUCCESS" => HwComplete(d)
  /\ \A p \in ReadPiece, i \in Nat : At(p, 2, d, i) /\ i = 1 <=> p = e /\ i = 1
  /\ \A p \in ReadPiece, q \in QPI, i \in Nat :
       /\ At(p, 2, q, i)' <=> IF q = d THEN i >= 1 /\ At(p, 2, d, i + 1) ELSE At(p, 2, q, i)
       /\ At(p, 3, q, i)' <=> At(p, 3, q, i) \/ (p = e /\ q = d /\ i = Len(cq) + m)
  /\ \A p \in ReadPiece, s \in {1, 4}, q \in QPI, i \in Nat : At(p, s, q, i)' <=> At(p, s, q, i)

(* The device executes, fails or flushes the head of a send queue.          *)
LEMMA TakePlaces ==
  ASSUME TypeOK, NEW d \in QPI, HwComplete(d) \/ HwFail(d) \/ HwFlush(d)
  PROVE  \E e \in Piece \union {NULL}, m \in Nat, st \in {"SUCCESS", "FAILED"} : Taken(d, e, m, st)
  <1>1. sq[d] # <<>> /\ sq[d] \in Seq(Piece \union {NULL})
    BY Typed DEF HwComplete, HwFail, HwFlush
  <1>2. PICK e \in Piece \union {NULL} : e = Head(sq[d])
    BY <1>1
  <1>3. WrIds(e) \in Seq(Piece \union {NULL}) /\ Len(WrIds(e)) \in Nat /\ Len(WrIds(e)) >= 1
    BY WrIdsType
  <1>4. PICK k \in 1 .. Len(WrIds(e)), st \in {"SUCCESS", "FAILED"} :
          /\ cq' = cq \o Completions(d, SubSeq(WrIds(e), k, Len(WrIds(e))), st)
          /\ st = "SUCCESS" => HwComplete(d) /\ k = Len(WrIds(e))
    <2>1. CASE HwComplete(d)
      <3>1. Len(WrIds(e)) \in 1 .. Len(WrIds(e))
        BY <1>3
      <3>2. cq' = cq \o Completions(d, SubSeq(WrIds(e), Len(WrIds(e)), Len(WrIds(e))), "SUCCESS")
        BY <1>2, <2>1 DEF HwComplete, Complete
      <3> QED
        BY <2>1, <3>1, <3>2
    <2>2. CASE HwFail(d)
      <3>1. PICK k \in 1 .. Len(WrIds(e)) :
               cq' = cq \o Completions(d, SubSeq(WrIds(e), k, Len(WrIds(e))), "FAILED")
        BY <1>2, <2>2 DEF HwFail, Complete
      <3> QED
        BY <3>1
    <2>3. CASE HwFlush(d)
      <3>1. cq' = cq \o Completions(d, WrIds(e), "FAILED")
        BY <1>2, <2>3 DEF HwFlush, Complete
      <3>2. SubSeq(WrIds(e), 1, Len(WrIds(e))) = WrIds(e) /\ 1 \in 1 .. Len(WrIds(e))
        BY <1>3
      <3> QED
        BY <3>1, <3>2
    <2> QED
      BY <2>1, <2>2, <2>3
  <1> DEFINE new == Completions(d, SubSeq(WrIds(e), k, Len(WrIds(e))), st)
             m == Len(new)
  <1>5. /\ new \in Seq(Cqe) /\ m \in Nat /\ m >= 1
        /\ m = Len(WrIds(e)) - k + 1
        /\ \A j \in 1 .. m : /\ new[j].qpi = d /\ new[j].status = st
                             /\ new[j].info = IF j = m /\ IsRead(e) THEN e ELSE NULL
    <2>1. IsChain(new, Len(WrIds(e)) - k + 1, e, d, st)
      BY ChainEntries
    <2> HIDE DEF new
    <2>2. PICK l : l = Len(WrIds(e)) - k + 1
      OBVIOUS
    <2>3. IsChain(new, l, e, d, st) /\ m = l
      BY <2>1, <2>2 DEF IsChain
    <2> QED
      BY <2>2, <2>3 DEF IsChain
  <1>6. /\ sq' = [sq EXCEPT ![d] = Tail(@)] /\ UNCHANGED <<assign_queue_, wq, wc>> /\ cq' = cq \o new
    BY <1>4 DEF HwComplete, HwFail, HwFlush, queueVars, cqVars
  <1> HIDE DEF new
  <1>7. cq \in Seq(Cqe) /\ Len(cq) \in Nat
    BY Typed
  <1>8. /\ Len(cq') = Len(cq) + m
        /\ \A i \in 1 .. Len(cq) + m : cq'[i] = IF i <= Len(cq) THEN cq[i] ELSE new[i - Len(cq)]
    <2>1. /\ Len(cq \o new) = Len(cq) + Len(new)
          /\ \A i \in 1 .. Len(cq) + Len(new) : (cq \o new)[i] = IF i <= Len(cq) THEN cq[i] ELSE new[i - Len(cq)]
      BY <1>5, <1>7, ConcatProperties
    <2> QED
      BY <1>6, <2>1
  <1>9. \A i \in 1 .. Len(cq) : cq'[i] = cq[i]
    BY <1>5, <1>7, <1>8
  <1>10. ASSUME NEW i \in 1 .. Len(cq'), i > Len(cq)
         PROVE  /\ cq'[i].qpi = d /\ cq'[i].status = st
                /\ cq'[i].info = IF i = Len(cq) + m /\ IsRead(e) THEN e ELSE NULL
    <2>1. PICK j : j = i - Len(cq)
      OBVIOUS
    <2>2. j \in 1 .. m /\ ~(i <= Len(cq)) /\ i \in 1 .. Len(cq) + m
          /\ (j = m <=> i = Len(cq) + m)
      <3>1. i \in Nat /\ i > Len(cq) /\ i <= Len(cq) + m
        BY <1>8, <1>10
      <3> QED
        BY <1>5, <1>7, <2>1, <3>1
    <2>3. cq'[i] = new[j]
      BY <1>8, <2>1, <2>2
    <2>4. new[j].qpi = d /\ new[j].status = st /\ new[j].info = IF j = m /\ IsRead(e) THEN e ELSE NULL
      BY <1>5, <2>2
    <2> QED
      BY <2>2, <2>3, <2>4
  <1>11. /\ Len(sq[d]) \in Nat /\ 1 \in 1 .. Len(sq[d]) /\ sq[d][1] = e
         /\ Len(Tail(sq[d])) = Len(sq[d]) - 1
         /\ \A i \in 1 .. Len(sq[d]) - 1 : Tail(sq[d])[i] = sq[d][i + 1]
    BY <1>1, <1>2
  <1>12. \A p \in ReadPiece, i \in Nat : At(p, 2, d, i) /\ i = 1 <=> p = e /\ i = 1
    BY <1>11 DEF At
  <1>13. ASSUME NEW p \in ReadPiece, NEW q \in QPI, NEW i \in Nat
         PROVE  At(p, 2, q, i)' <=> IF q = d THEN i >= 1 /\ At(p, 2, d, i + 1) ELSE At(p, 2, q, i)
    <2>1. sq'[q] = IF q = d THEN Tail(sq[d]) ELSE sq[q]
      BY <1>6, Typed
    <2>2. CASE q = d
      <3>1. At(p, 2, q, i)' <=> i \in 1 .. Len(sq[d]) - 1 /\ sq[d][i + 1] = p
        BY <1>11, <2>1, <2>2 DEF At
      <3>2. At(p, 2, d, i + 1) <=> i + 1 \in 1 .. Len(sq[d]) /\ sq[d][i + 1] = p
        BY DEF At
      <3>3. i \in 1 .. Len(sq[d]) - 1 <=> i >= 1 /\ i + 1 \in 1 .. Len(sq[d])
        BY <1>11
      <3> QED
        BY <2>2, <3>1, <3>2, <3>3
    <2>3. CASE q # d
      BY <2>1, <2>3 DEF At
    <2> QED
      BY <2>2, <2>3
  <1>14. ASSUME NEW p \in ReadPiece, NEW q \in QPI, NEW i \in Nat
         PROVE  At(p, 3, q, i)' <=> At(p, 3, q, i) \/ (p = e /\ q = d /\ i = Len(cq) + m)
    <2>1. p # NULL /\ IsRead(p)
      BY ReadPieceFacts
    <2>2. At(p, 3, q, i)' <=> i \in 1 .. Len(cq) + m /\ cq'[i].info = p /\ cq'[i].qpi = q
      BY <1>8 DEF At
    <2>3. At(p, 3, q, i) <=> i \in 1 .. Len(cq) /\ cq[i].info = p /\ cq[i].qpi = q
      BY DEF At
    <2>4. CASE i <= Len(cq)
      BY <1>5, <1>7, <1>9, <2>2, <2>3, <2>4
    <2>5. CASE i > Len(cq)
      <3>1. ~At(p, 3, q, i)
        BY <1>7, <2>3, <2>5
      <3>2. i \in 1 .. Len(cq) + m =>
              cq'[i].qpi = d /\ cq'[i].info = IF i = Len(cq) + m /\ IsRead(e) THEN e ELSE NULL
        BY <1>8, <1>10, <2>5
      <3>3. Len(cq) + m \in 1 .. Len(cq) + m
        BY <1>5, <1>7
      <3> QED
        BY <2>1, <2>2, <3>1, <3>2, <3>3
    <2> QED
      BY <1>7, <2>4, <2>5
  <1>15. \A p \in ReadPiece, s \in {1, 4}, q \in QPI, i \in Nat : At(p, s, q, i)' <=> At(p, s, q, i)
    BY <1>6 DEF At
  <1>16. m \in Nat /\ m >= 1
    BY <1>5
  <1>17. wc' = wc /\ Len(cq') = Len(cq) + m /\ (st = "SUCCESS" => HwComplete(d))
    BY <1>4, <1>6, <1>8
  <1>18. m <= IF IsRead(e) /\ st = "FAILED" THEN PieceSize(e) ELSE 1
    <2>1. Len(WrIds(e)) = IF IsRead(e) THEN PieceSize(e) ELSE 1
      BY ChainLength
    <2>2. m \in Nat /\ m <= Len(WrIds(e)) /\ (st = "SUCCESS" => m = 1)
      BY <1>3, <1>4, <1>5
    <2> HIDE DEF m
    <2>3. IsRead(e) => m <= PieceSize(e)
      BY <2>1, <2>2
    <2>4. ~(IsRead(e) /\ st = "FAILED") => m <= 1
      BY <2>1, <2>2
    <2> QED
      BY <2>3, <2>4
  <1> HIDE DEF m
  <1>19. Taken(d, e, m, st)
    BY <1>2, <1>9, <1>10, <1>12, <1>13, <1>14, <1>15, <1>16, <1>17, <1>18 DEF Taken
  <1> QED
    BY <1>16, <1>19

-----------------------------------------------------------------------------
(* Steps that move no piece.                                                *)
Still ==
  /\ UNCHANGED <<assign_queue_, pushed, sq, cq, wc>>
  /\ \A q \in QPI : wq'[q] = "pop" <=> wq[q] = "pop"

Moving ==
  \/ \E t \in Client : SubmitPush(t)
  \/ \E q \in QPI : WqPost(q) \/ WqPop(q) \/ HwReceive(q)
  \/ \E q \in QPI : HwComplete(q) \/ HwFail(q) \/ HwFlush(q)
  \/ CqPoll \/ CqSkip \/ CqRelease \/ StopCqPost

(* Every step either moves no piece or is one of those above.               *)
LEMMA StillOrMoving ==
  ASSUME TypeOK, ThreadInv, Reliable, [Next]_vars
  PROVE  Still \/ Moving
  <1>1. CASE LaunchFuture
    BY <1>1, Typed DEF LaunchFuture, ThreadInv, hwVars, Still
  <1>2. ASSUME NEW t \in Client, NEW r \in Request, SubmitSelect(t, r) \/ SubmitStore(t) \/ WaitReturn(t)
        PROVE  Still
    BY <1>2 DEF SubmitSelect, SubmitStore, WaitReturn, queueVars, cqVars, hwVars, Still
  <1>3. ASSUME NEW q \in QPI, WqStep(q) \/ WqSpurious(q), ~WqPost(q), ~WqPop(q)
        PROVE  Still
    <2>1. /\ UNCHANGED <<assign_queue_, pushed, sq, cq, wc>>
          /\ \E from, to \in {"top", "pred", "park", "parked", "wake", "drain", "charge", "post", "exit"} :
               wq[q] = from /\ wq' = [wq EXCEPT ![q] = to]
      <3>1. CASE WqTop(q) \/ WqPredicate(q) \/ WqPark(q) \/ WqWake(q) \/ WqSpurious(q)
        BY <3>1 DEF WqTop, WqPredicate, WqPark, WqWake, WqSpurious, WqGoto, cqVars, hwVars
      <3>2. CASE WqDrained(q) \/ WqReserve(q) \/ WqCharge(q)
        BY <3>2 DEF WqDrained, WqReserve, WqCharge, WqGoto, cqVars, hwVars
      <3> QED
        BY <1>3, <3>1, <3>2 DEF WqStep, WqPostFails, Reliable
    <2> QED
      BY <2>1, Typed DEF Still
  <1>4. CASE CqTop \/ CqEvent \/ CqArm \/ CqCall
    BY <1>4 DEF CqTop, CqEvent, CqArm, CqCall, queueVars, hwVars, Still
  <1>5. CASE StopBegin \/ StopWqFlag \/ StopWqJoin \/ StopCqFlag \/ StopCqArm \/ StopCqJoin
    BY <1>5 DEF StopBegin, StopWqFlag, StopWqJoin, StopCqFlag, StopCqArm, StopCqJoin,
                queueVars, cqVars, hwVars, Still
  <1>6. CASE StopWqNotify
    <2>1. /\ UNCHANGED <<assign_queue_, pushed, sq, cq, wc>>
          /\ wq' = IF wq[stopper.qpi] = "parked" THEN [wq EXCEPT ![stopper.qpi] = "wake"] ELSE wq
      BY <1>6 DEF StopWqNotify, Notified, cqVars, hwVars
    <2> QED
      BY <2>1, Typed DEF Still
  <1>7. CASE UNCHANGED vars
    BY <1>7 DEF vars, queueVars, cqVars, hwVars, Still
  <1>8. CASE \E t \in Client : (\E r \in Request : SubmitSelect(t, r)) \/ ClientStep(t)
    BY <1>2, <1>8, ConstantsAssumption DEF ClientStep, Moving
  <1>9. CASE \E q \in QPI : WqStep(q) \/ WqSpurious(q)
    BY <1>3, <1>9 DEF Moving
  <1>10. CASE CqStep \/ StopStep
    BY <1>4, <1>5, <1>6, <1>10 DEF CqStep, StopStep, Moving
  <1> QED
    BY <1>1, <1>5, <1>7, <1>8, <1>9, <1>10 DEF Next, HwStep, Moving

(* The threads.                                                             *)
LEMMA ThreadStep == TypeOK /\ ThreadInv /\ [Next]_vars => ThreadInv'
  <1> SUFFICES ASSUME TypeOK, ThreadInv, [Next]_vars PROVE ThreadInv'
    OBVIOUS
  <1> USE DEF ThreadInv
  <1>1. ASSUME UNCHANGED <<cqPc, wc>>, \A q \in QPI : wq[q] = "none" => wq'[q] = "none"
        PROVE  ThreadInv'
    BY <1>1
  <1>2. CASE LaunchFuture
    BY <1>2 DEF LaunchFuture
  <1>3. ASSUME NEW t \in Client, NEW r \in Request, SubmitSelect(t, r) \/ SubmitStore(t) \/ WaitReturn(t)
        PROVE  ThreadInv'
    BY <1>1, <1>3 DEF SubmitSelect, SubmitStore, WaitReturn, queueVars, cqVars
  <1>4. ASSUME NEW t \in Client, SubmitPush(t)
        PROVE  ThreadInv'
    BY <1>1, <1>4, Typed DEF SubmitPush, Notified, cqVars
  <1>5. ASSUME NEW q \in QPI, WqStep(q) \/ WqSpurious(q)
        PROVE  ThreadInv'
    <2>1. /\ UNCHANGED <<cqPc, wc>> /\ wq[q] # "none"
          /\ \A d \in QPI : d # q => wq'[d] = wq[d]
      <3>1. UNCHANGED <<cqPc, wc>>
        BY <1>5 DEF WqStep, WqTop, WqPredicate, WqPark, WqWake, WqSpurious, WqDrained, WqReserve,
                    WqCharge, WqPost, WqPostFails, WqPop, cqVars
      <3>2. \E from \in {"top", "pred", "park", "parked", "wake", "drain", "charge", "post", "pop"} :
              wq[q] = from /\ \E to : wq' = [wq EXCEPT ![q] = to]
        BY <1>5 DEF WqStep, WqTop, WqPredicate, WqPark, WqWake, WqSpurious, WqDrained, WqReserve,
                    WqCharge, WqPost, WqPostFails, WqPop, WqGoto
      <3> QED
        BY <3>1, <3>2, Typed
    <2> QED
      BY <1>1, <2>1
  <1>6. CASE CqTop \/ CqEvent \/ CqArm \/ CqCall
    BY <1>6 DEF CqTop, CqEvent, CqArm, CqCall, queueVars
  <1>7. CASE CqPoll
    <2>1. wc' = SubSeq(cq, 1, Smaller(POLL_COUNT, Len(cq))) /\ cq \in Seq(Cqe)
          /\ (Smaller(POLL_COUNT, Len(cq)) = 0 \/ cqPc' \in {"exit", "call"})
      BY <1>7, Typed DEF CqPoll
    <2>2. cqPc' # "none" /\ (Smaller(POLL_COUNT, Len(cq)) = 0 => wc' = <<>>)
      BY <1>7, <2>1 DEF CqPoll
    <2> QED
      BY <2>1, <2>2
  <1>8. CASE CqSkip \/ CqRelease
    <2>1. wc' = Tail(wc) /\ cqPc' = AfterEntry /\ wc \in Seq(Cqe) /\ wc # <<>>
      BY <1>8, Typed DEF CqSkip, CqRelease, TypeOK, CqTypeOK
    <2>2. Len(wc) = 1 => Tail(wc) = <<>>
      BY <2>1
    <2> QED
      BY <2>1, <2>2 DEF AfterEntry
  <1>9. CASE StopBegin \/ StopStep
    <2>1. UNCHANGED <<cqPc, wc>> /\ (wq' = wq \/ wq' = Notified(stopper.qpi))
      BY <1>9 DEF StopBegin, StopStep, StopWqFlag, StopWqNotify, StopWqJoin, StopCqFlag, StopCqArm,
                  StopCqPost, StopCqJoin, queueVars, cqVars
    <2> QED
      BY <1>1, <2>1, Typed DEF Notified
  <1>10. ASSUME NEW q \in QPI, HwStep(q)
         PROVE  ThreadInv'
    BY <1>1, <1>10 DEF HwStep, HwComplete, HwFail, HwFlush, HwReceive, queueVars, cqVars
  <1>11. CASE UNCHANGED vars
    BY <1>1, <1>11 DEF vars, queueVars, cqVars
  <1>12. CASE \E t \in Client : (\E r \in Request : SubmitSelect(t, r)) \/ ClientStep(t)
    BY <1>3, <1>4, <1>12, ConstantsAssumption DEF ClientStep
  <1> QED
    BY <1>2, <1>5, <1>6, <1>7, <1>8, <1>9, <1>10, <1>11, <1>12 DEF Next, CqStep

(* Who submits what, and where it goes.                                     *)
LEMMA OwnerStep == TypeOK /\ OwnerInv /\ PushInv /\ [Next]_vars => OwnerInv' /\ PushInv'
  <1> SUFFICES ASSUME TypeOK, OwnerInv, PushInv, [Next]_vars PROVE OwnerInv' /\ PushInv'
    OBVIOUS
  <1>0. client \in [Client -> [pc : {"idle", "store", "push", "wait"},
                               req : Request \union {NULL}, qpi : QPI \union {-1}]]
    BY DEF TypeOK, ClientTypeOK
  <1>1. ASSUME UNCHANGED pushed
        PROVE  (\A p \in Piece, q \in QPI : On(p, q)' <=> On(p, q)) /\ PushInv'
    BY <1>1 DEF On, PushInv
  <1>2. CASE UNCHANGED <<client, unsent, pushed>>
    BY <1>1, <1>2 DEF OwnerInv, Fresh, Submitting
  <1>3. ASSUME NEW t \in Client, NEW r \in Request, SubmitSelect(t, r)
        PROVE  OwnerInv' /\ PushInv'
    <2>1. /\ r \in unsent /\ unsent' = unsent \ {r} /\ pushed' = pushed
          /\ client'[t].req = r /\ \A u \in Client : u # t => client'[u] = client[u]
      BY <1>0, <1>3 DEF SubmitSelect, queueVars
    <2> QED
      BY <1>1, <2>1 DEF OwnerInv, Fresh, Submitting
  <1>4. ASSUME NEW t \in Client, SubmitStore(t)
        PROVE  OwnerInv' /\ PushInv'
    <2>1. /\ UNCHANGED <<unsent, pushed>> /\ Submitting(t)
          /\ \A u \in Client : client'[u].req = client[u].req /\ (Submitting(u)' => Submitting(u))
      BY <1>0, <1>4 DEF SubmitStore, queueVars, Submitting
    <2> QED
      BY <1>1, <2>1 DEF OwnerInv, Fresh
  <1>5. ASSUME NEW t \in Client, WaitReturn(t)
        PROVE  OwnerInv' /\ PushInv'
    <2>1. /\ UNCHANGED <<unsent, pushed>>
          /\ \A u \in Client : Submitting(u)' => client'[u] = client[u] /\ Submitting(u)
      BY <1>0, <1>5 DEF WaitReturn, queueVars, Submitting, Idle
    <2> QED
      BY <1>1, <2>1 DEF OwnerInv, Fresh
  <1>6. ASSUME NEW t \in Client, SubmitPush(t)
        PROVE  OwnerInv' /\ PushInv'
    <2>1. PICK r \in Request, d \in QPI :
            /\ r = client[t].req
            /\ \A p \in Piece, q \in QPI : On(p, q)' <=> On(p, q) \/ (p[1] = r /\ q = d)
      BY <1>6, PushPlaces
    <2>2. /\ unsent' = unsent /\ Submitting(t)
          /\ \A u \in Client : Submitting(u)' => u # t /\ client'[u] = client[u] /\ Submitting(u)
      BY <1>0, <1>6 DEF SubmitPush, Submitting, Idle
    <2>3. Fresh(r) /\ r \notin unsent
      BY <2>1, <2>2 DEF OwnerInv
    <2>4. OwnerInv'
      <3>1. \A u \in Client : Submitting(u)' => client[u].req # r
        BY <2>1, <2>2 DEF OwnerInv
      <3>2. \A x : x # r /\ Fresh(x) => Fresh(x)'
        BY <2>1 DEF Fresh
      <3>3. \A x \in unsent' : Fresh(x)'
        BY <2>2, <2>3, <3>2 DEF OwnerInv
      <3>4. ASSUME NEW u \in Client, Submitting(u)'
            PROVE  /\ Fresh(client[u].req)' /\ client'[u] = client[u]
                   /\ client[u].req \notin unsent' /\ Submitting(u)
        <4>1. PICK x : x = client[u].req
          OBVIOUS
        <4>2. /\ client'[u] = client[u] /\ Submitting(u) /\ Fresh(x) /\ x # r /\ x \notin unsent'
          BY <2>2, <3>1, <3>4, <4>1 DEF OwnerInv
        <4> QED
          BY <3>2, <4>1, <4>2
      <3>5. \A u, v \in Client : Submitting(u)' /\ Submitting(v)' /\ client'[u].req = client'[v].req => u = v
        BY <3>4 DEF OwnerInv
      <3> QED
        BY <3>3, <3>4, <3>5 DEF OwnerInv
    <2>5. PushInv'
      BY <2>1, <2>3 DEF PushInv, Fresh
    <2> QED
      BY <2>4, <2>5
  <1>7. ASSUME NEW q \in QPI, WqStep(q) \/ WqSpurious(q)
        PROVE  UNCHANGED <<client, unsent, pushed>>
    BY <1>7 DEF WqStep, WqSpurious, WqTop, WqPredicate, WqPark, WqWake, WqDrained, WqReserve,
                WqCharge, WqPost, WqPostFails, WqPop, clientVars
  <1>8. CASE LaunchFuture \/ CqStep
    BY <1>2, <1>8 DEF LaunchFuture, CqStep, CqTop, CqEvent, CqArm, CqPoll, CqSkip, CqCall, CqRelease,
                      clientVars, queueVars
  <1>9. CASE StopBegin \/ StopStep
    BY <1>2, <1>9 DEF StopBegin, StopStep, StopWqFlag, StopWqNotify, StopWqJoin, StopCqFlag, StopCqArm,
                      StopCqPost, StopCqJoin, clientVars, queueVars
  <1>10. ASSUME NEW q \in QPI, HwStep(q)
         PROVE  UNCHANGED <<client, unsent, pushed>>
    BY <1>10 DEF HwStep, HwComplete, HwFail, HwFlush, HwReceive, clientVars, queueVars
  <1>11. CASE UNCHANGED vars
    BY <1>2, <1>11 DEF vars, clientVars, queueVars
  <1> QED
    BY <1>2, <1>3, <1>4, <1>5, <1>6, <1>7, <1>8, <1>9, <1>10, <1>11 DEF Next, ClientStep

-----------------------------------------------------------------------------
(* Completions, and the places of the pieces of one request.                *)

(* Only submit pushes.                                                      *)
LEMMA KeptPushed ==
  ASSUME Still \/ Moving, \A t \in Client : ~SubmitPush(t)
  PROVE  \A p, q : On(p, q)' <=> On(p, q)
  <1>1. pushed' = pushed
    BY DEF Still, Moving, WqPost, WqPop, HwReceive, HwComplete, HwFail, HwFlush, CqPoll, CqSkip,
           CqRelease, StopCqPost, queueVars
  <1> QED
    BY <1>1 DEF On

(* Completions keep naming read pieces.                                     *)
LEMMA InfoStep == TypeOK /\ ThreadInv /\ InfoInv /\ (Still \/ Moving) => InfoInv'
  <1> SUFFICES ASSUME TypeOK, ThreadInv, InfoInv, Still \/ Moving PROVE InfoInv'
    OBVIOUS
  <1> USE DEF InfoInv
  <1>1. ASSUME UNCHANGED <<cq, wc>>
        PROVE  InfoInv'
    BY <1>1
  <1>2. ASSUME NEW t \in Client, SubmitPush(t)
        PROVE  InfoInv'
    BY <1>1, <1>2 DEF SubmitPush, cqVars, hwVars
  <1>3. ASSUME NEW q \in QPI, WqPost(q) \/ WqPop(q)
        PROVE  InfoInv'
    BY <1>1, <1>3 DEF WqPost, WqPop, cqVars, hwVars, cqeVars
  <1>4. CASE StopCqPost
    BY <1>1, <1>4 DEF StopCqPost, cqVars, cqeVars
  <1>5. CASE CqPoll
    BY <1>5, PollPlaces
  <1>6. CASE CqSkip \/ CqRelease
    BY <1>6, DropPlaces
  <1>7. ASSUME NEW q \in QPI, HwReceive(q)
        PROVE  InfoInv'
    <2>1. /\ Len(cq') = Len(cq) + 1 /\ cq'[Len(cq) + 1].info = NULL
          /\ \A i \in 1 .. Len(cq) : cq'[i] = cq[i]
      BY <1>7, ReceivePlaces
    <2>2. wc' = wc /\ Len(cq) \in Nat
      BY <1>7, Typed DEF HwReceive, cqVars
    <2>3. \A i \in 1 .. Len(cq') : i \in 1 .. Len(cq) \/ i = Len(cq) + 1
      BY <2>1, <2>2
    <2> QED
      BY <2>1, <2>2, <2>3
  <1>8. ASSUME NEW d \in QPI, HwComplete(d) \/ HwFail(d) \/ HwFlush(d)
        PROVE  InfoInv'
    <2>1. PICK e \in Piece \union {NULL}, m \in Nat, st \in {"SUCCESS", "FAILED"} : Taken(d, e, m, st)
      BY <1>8, TakePlaces
    <2>2. IsRead(e) => e \in ReadPiece
      BY DEF IsRead, ReadPiece
    <2>3. \A i \in 1 .. Len(cq') : i \in 1 .. Len(cq) \/ i > Len(cq)
      BY <2>1, Typed DEF Taken
    <2> QED
      BY <2>1, <2>2, <2>3 DEF Taken
  <1> QED
    BY <1>1, <1>2, <1>3, <1>4, <1>5, <1>6, <1>7, <1>8 DEF Still, Moving

(* Indices are positive and within their sequences.                         *)
LEMMA AtBounds ==
  ASSUME TypeOK
  PROVE  \A p, s : \A q \in QPI, i \in Nat :
           At(p, s, q, i) =>
             /\ i >= 1
             /\ s = 2 => i <= Len(sq[q])
             /\ s = 3 => i <= Len(cq)
  BY Typed DEF At

(* A read piece stays in one place, in order.                               *)
LEMMA PlaceStep ==
  ASSUME TypeOK, FlowControl, ThreadInv, OwnerInv, PlaceInv, Still \/ Moving
  PROVE  PlaceInv'
  <1> USE DEF Ahead
  <1>0. \A p, o \in ReadPiece : p[1] = o[1] /\ p[2] = o[2] => p = o
    BY ReadPieceFacts
  <1>1. ASSUME \A p, q : On(p, q)' <=> On(p, q),
               \A p \in ReadPiece, s \in 1 .. 4, q \in QPI, i \in Nat : At(p, s, q, i)' <=> At(p, s, q, i)
        PROVE  PlaceInv'
    BY <1>1 DEF PlaceInv
  <1>2. CASE Still
    <2>1. \A p \in ReadPiece, s \in 1 .. 4, q \in QPI, i \in Nat : At(p, s, q, i)' <=> At(p, s, q, i)
      BY <1>2, SamePlaces DEF Still
    <2>2. \A p, q : On(p, q)' <=> On(p, q)
      BY <1>2 DEF Still, On
    <2> QED
      BY <1>1, <2>1, <2>2
  <1>3. ASSUME NEW u \in Client, SubmitPush(u)
        PROVE  PlaceInv'
    <2>1. PICK r \in Request, d \in QPI :
            /\ r = client[u].req
            /\ \A p \in Piece, q \in QPI : On(p, q)' <=> On(p, q) \/ (p[1] = r /\ q = d)
            /\ \A p \in Piece, s \in 1 .. 4, q \in QPI, i \in Nat :
                 At(p, s, q, i)' <=>
                   \/ At(p, s, q, i)
                   \/ p[1] = r /\ s = 1 /\ q = d /\ i = Len(assign_queue_[d]) + p[2]
      BY <1>3, PushPlaces
    <2>2. \A p \in ReadPiece, s \in 1 .. 4, q \in QPI, i \in Nat : At(p, s, q, i) => p[1] # r
      BY <1>3, <2>1, ReadPieceFacts DEF SubmitPush, Submitting, OwnerInv, Fresh, PlaceInv
    <2>3. Len(assign_queue_[d]) \in Nat /\ \A p \in ReadPiece : p \in Piece /\ p[2] \in Nat
      BY Typed, PieceOfRead, ReadPieceFacts DEF Reads
    <2>4. ASSUME NEW p \in ReadPiece, NEW q \in QPI, NEW s \in 1 .. 4, NEW i \in Nat, At(p, s, q, i)'
          PROVE  On(p, q)'
      BY <2>1, <2>3, <2>4 DEF PlaceInv
    <2>5. ASSUME NEW p \in ReadPiece, NEW o \in ReadPiece, NEW q \in QPI, NEW s \in 1 .. 4,
                 NEW t \in 1 .. 4, NEW i \in Nat, NEW j \in Nat,
                 At(p, s, q, i)', At(o, t, q, j)', p[1] = o[1]
          PROVE  /\ p[2] = o[2] => s = t /\ i = j
                 /\ p[2] < o[2] => Ahead(s, i, t, j)
      <3>1. CASE p[1] = r
        <4>1. ~At(p, s, q, i) /\ ~At(o, t, q, j) /\ p \in Piece /\ o \in Piece
          BY <2>2, <2>3, <2>5, <3>1
        <4>3. s = 1 /\ q = d /\ i = Len(assign_queue_[d]) + p[2]
          BY <2>1, <2>5, <4>1
        <4>4. t = 1 /\ j = Len(assign_queue_[d]) + o[2]
          BY <2>1, <2>5, <4>1
        <4>2. Len(assign_queue_[d]) \in Nat /\ p[2] \in Nat /\ o[2] \in Nat
          BY <2>3
        <4> QED
          BY <4>2, <4>3, <4>4
      <3>2. CASE p[1] # r
        <4>1. At(p, s, q, i) /\ At(o, t, q, j)
          BY <2>1, <2>3, <2>5, <3>2
        <4> QED
          BY <2>5, <4>1 DEF PlaceInv
      <3> QED
        BY <3>1, <3>2
    <2> QED
      BY <2>4, <2>5 DEF PlaceInv
  <1>4. ASSUME NEW d \in QPI, WqPost(d)
        PROVE  PlaceInv'
    <2>1. PICK e : e = Head(assign_queue_[d])
      OBVIOUS
    <2>2. /\ \A p \in ReadPiece, i \in Nat : At(p, 1, d, i) /\ i = 1 <=> p = e /\ i = 1
          /\ \A p \in ReadPiece, s \in 1 .. 4, q \in QPI, i \in Nat :
               At(p, s, q, i)' <=>
                 \/ At(p, s, q, i) /\ ~(s = 1 /\ q = d /\ i = 1)
                 \/ p = e /\ s = 2 /\ q = d /\ i = Len(sq[d]) + 1
      BY <1>4, <2>1, PostPlaces
    <2>3. \A p, q : On(p, q)' <=> On(p, q)
      BY <1>4 DEF WqPost, On
    <2>4. Len(sq[d]) \in Nat
      BY Typed
    <2>5. e \in ReadPiece => At(e, 1, d, 1)
      BY <2>2
    <2>6. ASSUME NEW p \in ReadPiece, NEW q \in QPI, NEW s \in 1 .. 4, NEW i \in Nat, At(p, s, q, i)'
          PROVE  On(p, q)'
      BY <2>2, <2>3, <2>5, <2>6 DEF PlaceInv
    <2>7. ASSUME NEW p \in ReadPiece, NEW o \in ReadPiece, NEW q \in QPI, NEW s \in 1 .. 4,
                 NEW t \in 1 .. 4, NEW i \in Nat, NEW j \in Nat,
                 At(p, s, q, i)', At(o, t, q, j)', p[1] = o[1]
          PROVE  /\ p[2] = o[2] => s = t /\ i = j
                 /\ p[2] < o[2] => Ahead(s, i, t, j)
      <3> DEFINE New(x, y, z) == x = e /\ y = 2 /\ q = d /\ z = Len(sq[d]) + 1
                 Old(x, y, z) == At(x, y, q, z) /\ ~(y = 1 /\ q = d /\ z = 1)
      <3>0. p[2] = o[2] => p = o
        BY <1>0, <2>7
      <3>1. CASE Old(p, s, i) /\ Old(o, t, j)
        BY <2>7, <3>1 DEF PlaceInv
      <3>2. CASE New(p, s, i) /\ New(o, t, j)
        <4>1. p = o /\ p[2] = o[2] /\ ~(p[2] < o[2])
          BY <3>2, ReadPieceFacts, PieceOfRead DEF Reads
        <4> QED
          BY <3>2, <4>1
      <3>3. CASE New(p, s, i) /\ Old(o, t, j)
        <4>1. At(p, 1, d, 1) /\ q = d
          BY <2>5, <3>3
        <4>2. /\ p[2] = o[2] => 1 = t /\ 1 = j
              /\ p[2] < o[2] => Ahead(1, 1, t, j)
          BY <2>7, <3>3, <4>1 DEF PlaceInv
        <4> QED
          BY <3>3, <4>1, <4>2
      <3>4. CASE Old(p, s, i) /\ New(o, t, j)
        <4>1. At(o, 1, d, 1) /\ q = d
          BY <2>5, <3>4
        <4>2. /\ p[2] = o[2] => s = 1 /\ i = 1
              /\ p[2] < o[2] => Ahead(s, i, 1, 1)
          BY <2>7, <3>4, <4>1 DEF PlaceInv
        <4>3. i >= 1 /\ (s = 2 => i <= Len(sq[d]))
          BY <3>4, <4>1, AtBounds
        <4> QED
          BY <2>4, <3>4, <4>1, <4>2, <4>3
      <3> QED
        BY <2>2, <2>7, <3>1, <3>2, <3>3, <3>4
    <2> QED
      BY <2>6, <2>7 DEF PlaceInv
  <1>5. ASSUME NEW d \in QPI, WqPop(d)
        PROVE  PlaceInv'
    <2>1. \A p \in ReadPiece, s \in 1 .. 4, q \in QPI, i \in Nat :
            At(p, s, q, i)' <=> IF s = 1 /\ q = d THEN At(p, 1, d, i + 1) ELSE At(p, s, q, i)
      BY <1>5, PopPlaces, ReadPieceFacts
    <2>2. \A p, q : On(p, q)' <=> On(p, q)
      BY <1>5 DEF WqPop, On
    <2> DEFINE From(y, q, z) == IF y = 1 /\ q = d THEN z + 1 ELSE z
    <2>3. \A p \in ReadPiece, s \in 1 .. 4, q \in QPI, i \in Nat :
            /\ From(s, q, i) \in Nat
            /\ At(p, s, q, i)' <=> At(p, s, q, From(s, q, i))
      BY <2>1
    <2>4. \A s, t \in 1 .. 4, q \in QPI, i, j \in Nat :
            Ahead(s, From(s, q, i), t, From(t, q, j)) => Ahead(s, i, t, j)
      OBVIOUS
    <2>5. \A s \in 1 .. 4, q \in QPI, i, j \in Nat : From(s, q, i) = From(s, q, j) => i = j
      OBVIOUS
    <2> HIDE DEF From, Ahead
    <2>6. ASSUME NEW p \in ReadPiece, NEW q \in QPI, NEW s \in 1 .. 4, NEW i \in Nat, At(p, s, q, i)'
          PROVE  On(p, q)'
      <3>1. PICK x \in 1 .. 4, y \in Nat : At(p, x, q, y)
        BY <2>3, <2>6
      <3> QED
        BY <2>2, <3>1 DEF PlaceInv
    <2>7. ASSUME NEW p \in ReadPiece, NEW o \in ReadPiece, NEW q \in QPI, NEW s \in 1 .. 4,
                 NEW t \in 1 .. 4, NEW i \in Nat, NEW j \in Nat,
                 At(p, s, q, i)', At(o, t, q, j)', p[1] = o[1]
          PROVE  /\ p[2] = o[2] => s = t /\ i = j
                 /\ p[2] < o[2] => Ahead(s, i, t, j)
      <3>1. PICK a \in 1 .. 4, x \in Nat : a = s /\ x = From(s, q, i) /\ At(p, a, q, x)
        BY <2>3, <2>7
      <3>2. PICK b \in 1 .. 4, y \in Nat : b = t /\ y = From(t, q, j) /\ At(o, b, q, y)
        BY <2>3, <2>7
      <3>3. /\ p[2] = o[2] => a = b /\ x = y
            /\ p[2] < o[2] => Ahead(a, x, b, y)
        BY <2>7, <3>1, <3>2 DEF PlaceInv
      <3> QED
        BY <2>3, <2>4, <2>5, <2>7, <3>1, <3>2, <3>3
    <2> QED
      BY <2>6, <2>7 DEF PlaceInv
  <1>6. CASE CqPoll
    <2>1. PICK n \in Nat :
            /\ \A p \in Piece, q \in QPI, i \in Nat : ~At(p, 4, q, i)
            /\ \A p \in Piece, q \in QPI, i \in Nat :
                 /\ At(p, 4, q, i)' <=> i <= n /\ At(p, 3, q, i)
                 /\ At(p, 3, q, i)' <=> i >= 1 /\ At(p, 3, q, i + n)
            /\ \A p \in Piece, s \in {1, 2}, q \in QPI, i \in Nat : At(p, s, q, i)' <=> At(p, s, q, i)
      BY <1>6, PollPlaces
    <2>2. \A p, q : On(p, q)' <=> On(p, q)
      BY <1>6 DEF CqPoll, queueVars, On
    <2> DEFINE Stage(s) == IF s = 4 THEN 3 ELSE s
               From(s, i) == IF s = 3 THEN i + n ELSE i
    <2>3. \A p \in ReadPiece, s \in 1 .. 4, q \in QPI, i \in Nat :
            /\ From(s, i) \in Nat /\ Stage(s) \in 1 .. 4
            /\ At(p, s, q, i)' => /\ At(p, Stage(s), q, From(s, i))
                                  /\ s = 4 => i <= n
                                  /\ s = 3 => i >= 1
      <3>1. 1 .. 4 = {1, 2, 3, 4}
        OBVIOUS
      <3> QED
        BY <2>1, <3>1, ReadPieceFacts
    <2>4. \A s, t \in 1 .. 4, i, j \in Nat :
            (s = 4 => i <= n) /\ (s = 3 => i >= 1) /\ (t = 4 => j <= n) /\ (t = 3 => j >= 1) =>
              /\ Ahead(Stage(s), From(s, i), Stage(t), From(t, j)) => Ahead(s, i, t, j)
              /\ Stage(s) = Stage(t) /\ From(s, i) = From(t, j) => s = t /\ i = j
      OBVIOUS
    <2> HIDE DEF From, Stage, Ahead
    <2>5. ASSUME NEW p \in ReadPiece, NEW q \in QPI, NEW s \in 1 .. 4, NEW i \in Nat, At(p, s, q, i)'
          PROVE  On(p, q)'
      <3>1. PICK x \in 1 .. 4, y \in Nat : At(p, x, q, y)
        BY <2>3, <2>5
      <3> QED
        BY <2>2, <3>1 DEF PlaceInv
    <2>6. ASSUME NEW p \in ReadPiece, NEW o \in ReadPiece, NEW q \in QPI, NEW s \in 1 .. 4,
                 NEW t \in 1 .. 4, NEW i \in Nat, NEW j \in Nat,
                 At(p, s, q, i)', At(o, t, q, j)', p[1] = o[1]
          PROVE  /\ p[2] = o[2] => s = t /\ i = j
                 /\ p[2] < o[2] => Ahead(s, i, t, j)
      <3>1. PICK a \in 1 .. 4, x \in Nat : a = Stage(s) /\ x = From(s, i) /\ At(p, a, q, x)
        BY <2>3, <2>6
      <3>2. PICK b \in 1 .. 4, y \in Nat : b = Stage(t) /\ y = From(t, j) /\ At(o, b, q, y)
        BY <2>3, <2>6
      <3>3. /\ p[2] = o[2] => a = b /\ x = y
            /\ p[2] < o[2] => Ahead(a, x, b, y)
        BY <2>6, <3>1, <3>2 DEF PlaceInv
      <3> QED
        BY <2>3, <2>4, <2>6, <3>1, <3>2, <3>3
    <2> QED
      BY <2>5, <2>6 DEF PlaceInv
  <1>7. CASE CqSkip \/ CqRelease
    <2>1. /\ \A p \in Piece, q \in QPI, i \in Nat : At(p, 4, q, i)' <=> i >= 1 /\ At(p, 4, q, i + 1)
          /\ \A p \in Piece, s \in 1 .. 3, q \in QPI, i \in Nat : At(p, s, q, i)' <=> At(p, s, q, i)
      BY <1>7, DropPlaces
    <2>2. \A p, q : On(p, q)' <=> On(p, q)
      BY <1>7 DEF CqSkip, CqRelease, queueVars, On
    <2> DEFINE From(s, i) == IF s = 4 THEN i + 1 ELSE i
    <2>3. \A p \in ReadPiece, s \in 1 .. 4, q \in QPI, i \in Nat :
            /\ From(s, i) \in Nat
            /\ At(p, s, q, i)' => At(p, s, q, From(s, i))
      BY <2>1, ReadPieceFacts
    <2>4. \A s, t \in 1 .. 4, i, j \in Nat :
            /\ Ahead(s, From(s, i), t, From(t, j)) => Ahead(s, i, t, j)
            /\ s = t /\ From(s, i) = From(t, j) => i = j
      OBVIOUS
    <2> HIDE DEF From, Ahead
    <2>5. ASSUME NEW p \in ReadPiece, NEW q \in QPI, NEW s \in 1 .. 4, NEW i \in Nat, At(p, s, q, i)'
          PROVE  On(p, q)'
      <3>1. PICK x \in 1 .. 4, y \in Nat : At(p, x, q, y)
        BY <2>3, <2>5
      <3> QED
        BY <2>2, <3>1 DEF PlaceInv
    <2>6. ASSUME NEW p \in ReadPiece, NEW o \in ReadPiece, NEW q \in QPI, NEW s \in 1 .. 4,
                 NEW t \in 1 .. 4, NEW i \in Nat, NEW j \in Nat,
                 At(p, s, q, i)', At(o, t, q, j)', p[1] = o[1]
          PROVE  /\ p[2] = o[2] => s = t /\ i = j
                 /\ p[2] < o[2] => Ahead(s, i, t, j)
      <3>1. PICK a \in 1 .. 4, x \in Nat : a = s /\ x = From(s, i) /\ At(p, a, q, x)
        BY <2>3, <2>6
      <3>2. PICK b \in 1 .. 4, y \in Nat : b = t /\ y = From(t, j) /\ At(o, b, q, y)
        BY <2>3, <2>6
      <3>3. /\ p[2] = o[2] => a = b /\ x = y
            /\ p[2] < o[2] => Ahead(a, x, b, y)
        BY <2>6, <3>1, <3>2 DEF PlaceInv
      <3> QED
        BY <2>3, <2>4, <2>6, <3>1, <3>2, <3>3
    <2> QED
      BY <2>5, <2>6 DEF PlaceInv
  <1>8. ASSUME NEW d \in QPI, HwComplete(d) \/ HwFail(d) \/ HwFlush(d)
        PROVE  PlaceInv'
    <2>1. PICK e \in Piece \union {NULL}, m \in Nat, st \in {"SUCCESS", "FAILED"} : Taken(d, e, m, st)
      BY <1>8, TakePlaces
    <2>2. \A p, q : On(p, q)' <=> On(p, q)
      BY <1>8 DEF HwComplete, HwFail, HwFlush, queueVars, On
    <2>3. Len(cq) \in Nat /\ m >= 1
      BY <2>1, Typed DEF Taken
    <2> DEFINE New(p, s, q, i) == p = e /\ q = d /\ s = 3 /\ i = Len(cq) + m
               Stage(p, s, q, i) == IF New(p, s, q, i) THEN 2 ELSE s
               From(p, s, q, i) == IF New(p, s, q, i) THEN 1 ELSE IF s = 2 /\ q = d THEN i + 1 ELSE i
    <2>4. ASSUME NEW p \in ReadPiece, NEW s \in 1 .. 4, NEW q \in QPI, NEW i \in Nat, At(p, s, q, i)'
          PROVE  /\ From(p, s, q, i) \in Nat /\ Stage(p, s, q, i) \in 1 .. 4
                 /\ At(p, Stage(p, s, q, i), q, From(p, s, q, i))
                 /\ s = 3 /\ ~New(p, s, q, i) => i <= Len(cq)
                 /\ s = 2 => i >= 1
      <3>1. CASE New(p, s, q, i)
        <4>1. At(p, 2, d, 1)
          BY <2>1, <3>1 DEF Taken
        <4> QED
          BY <3>1, <4>1
      <3>2. CASE ~New(p, s, q, i) /\ s = 2
        BY <2>1, <2>4, <3>2, AtBounds DEF Taken
      <3>3. CASE ~New(p, s, q, i) /\ s = 3
        <4>1. At(p, 3, q, i)
          BY <2>1, <2>4, <3>3 DEF Taken
        <4> QED
          BY <3>3, <4>1, AtBounds
      <3>4. CASE s \in {1, 4}
        BY <2>1, <2>4, <3>4 DEF Taken
      <3> QED
        BY <3>1, <3>2, <3>3, <3>4
    <2> HIDE DEF From, Stage, New, Ahead
    <2>6. ASSUME NEW p \in ReadPiece, NEW o \in ReadPiece, NEW q \in QPI, NEW s \in 1 .. 4,
                 NEW t \in 1 .. 4, NEW i \in Nat, NEW j \in Nat,
                 At(p, s, q, i)', At(o, t, q, j)', p[1] = o[1]
          PROVE  /\ p[2] = o[2] => s = t /\ i = j
                 /\ p[2] < o[2] => Ahead(s, i, t, j)
      <3>1. PICK a \in 1 .. 4, x \in Nat :
              a = Stage(p, s, q, i) /\ x = From(p, s, q, i) /\ At(p, a, q, x)
        BY <2>4, <2>6
      <3>2. PICK b \in 1 .. 4, y \in Nat :
              b = Stage(o, t, q, j) /\ y = From(o, t, q, j) /\ At(o, b, q, y)
        BY <2>4, <2>6
      <3>3. /\ p[2] = o[2] => a = b /\ x = y
            /\ p[2] < o[2] => Ahead(a, x, b, y)
        BY <2>6, <3>1, <3>2 DEF PlaceInv
      <3>4. /\ s = 3 /\ ~New(p, s, q, i) => i <= Len(cq)
            /\ s = 2 => i >= 1
            /\ t = 3 /\ ~New(o, t, q, j) => j <= Len(cq)
            /\ t = 2 => j >= 1
        BY <2>4, <2>6
      <3>5. p[2] = o[2] => p = o
        BY <1>0, <2>6
      <3>6. /\ Ahead(a, x, b, y) => Ahead(s, i, t, j)
            /\ p = o /\ a = b /\ x = y => s = t /\ i = j
        <4>1. /\ Ahead(Stage(p, s, q, i), From(p, s, q, i), Stage(o, t, q, j), From(o, t, q, j))
                    => Ahead(s, i, t, j)
              /\ /\ p = o /\ Stage(p, s, q, i) = Stage(o, t, q, j)
                 /\ From(p, s, q, i) = From(o, t, q, j)
                 => s = t /\ i = j
          BY <2>3, <2>6, <3>4 DEF From, Stage, New, Ahead
        <4> QED
          BY <3>1, <3>2, <4>1
      <3> QED
        BY <3>3, <3>5, <3>6
    <2>7. ASSUME NEW p \in ReadPiece, NEW q \in QPI, NEW s \in 1 .. 4, NEW i \in Nat, At(p, s, q, i)'
          PROVE  On(p, q)'
      <3>1. PICK x \in 1 .. 4, y \in Nat : At(p, x, q, y)
        BY <2>4, <2>7
      <3> QED
        BY <2>2, <3>1 DEF PlaceInv
    <2> QED
      BY <2>6, <2>7 DEF PlaceInv
  <1>9. ASSUME NEW d \in QPI, HwReceive(d)
        PROVE  PlaceInv'
    <2>1. \A p, q : On(p, q)' <=> On(p, q)
      BY <1>9 DEF HwReceive, queueVars, On
    <2> QED
      BY <1>1, <1>9, <2>1, ReceivePlaces
  <1>10. CASE StopCqPost
    <2>1. \A p, q : On(p, q)' <=> On(p, q)
      BY <1>10 DEF StopCqPost, queueVars, On
    <2> QED
      BY <1>1, <1>10, <2>1, StopPostPlaces
  <1> QED
    BY <1>2, <1>3, <1>4, <1>5, <1>6, <1>7, <1>8, <1>9, <1>10 DEF Moving

-----------------------------------------------------------------------------
(* Which pieces are in some place, and the other actions.                   *)
UnderWayIsPlaced == \A p \in ReadPiece : UnderWay(p) <=> Placed(p)

(* To be under way is to be in some place.                                  *)
LEMMA UnderWayPlaces == Inv => UnderWayIsPlaced
  <1> SUFFICES ASSUME Inv, NEW p \in ReadPiece PROVE UnderWay(p) <=> Placed(p)
    BY DEF UnderWayIsPlaced
  <1>0. TypeOK /\ FlowControl
    BY DEF Inv
  <1>1. \A q \in QPI : (\E i \in DOMAIN Queued(q) : Queued(q)[i] = p) <=> \E i \in Nat : At(p, 1, q, i)
    <2> SUFFICES ASSUME NEW q \in QPI
                 PROVE  (\E i \in DOMAIN Queued(q) : Queued(q)[i] = p) <=> \E i \in Nat : At(p, 1, q, i)
      OBVIOUS
    <2>1. assign_queue_[q] \in Seq(Piece) /\ Len(assign_queue_[q]) \in Nat
      BY <1>0, Typed
    <2>2. CASE wq[q] # "pop"
      BY <2>1, <2>2 DEF Queued, At
    <2>3. CASE wq[q] = "pop"
      <3>1. assign_queue_[q] # <<>>
        BY <1>0, <2>3 DEF FlowControl
      <3>2. /\ Queued(q) = Tail(assign_queue_[q])
            /\ DOMAIN Queued(q) = 1 .. Len(assign_queue_[q]) - 1
            /\ \A i \in 1 .. Len(assign_queue_[q]) - 1 : Queued(q)[i] = assign_queue_[q][i + 1]
        BY <2>1, <2>3, <3>1 DEF Queued
      <3>3. ASSUME NEW i \in Nat, At(p, 1, q, i)
            PROVE  i - 1 \in DOMAIN Queued(q) /\ Queued(q)[i - 1] = p
        <4>1. i \in 1 .. Len(assign_queue_[q]) /\ assign_queue_[q][i] = p /\ i # 1
          BY <2>3, <3>3 DEF At
        <4>2. i - 1 \in 1 .. Len(assign_queue_[q]) - 1 /\ (i - 1) + 1 = i
          BY <2>1, <4>1
        <4> QED
          BY <3>2, <4>1, <4>2
      <3>4. ASSUME NEW i \in DOMAIN Queued(q), Queued(q)[i] = p
            PROVE  i + 1 \in Nat /\ At(p, 1, q, i + 1)
        BY <2>1, <3>2, <3>4 DEF At
      <3> QED
        BY <3>3, <3>4
    <2> QED
      BY <2>2, <2>3
  <1>2. \A q \in QPI : (\E i \in DOMAIN sq[q] : sq[q][i] = p) <=> \E i \in Nat : At(p, 2, q, i)
    BY <1>0, Typed DEF At
  <1>3. (\E i \in DOMAIN cq : cq[i].info = p) <=> \E q \in QPI, i \in Nat : At(p, 3, q, i)
    <2>1. \A i \in 1 .. Len(cq) : cq[i] \in Cqe
      BY <1>0, Typed
    <2>2. DOMAIN cq = 1 .. Len(cq) /\ \A i \in 1 .. Len(cq) : i \in Nat /\ cq[i].qpi \in QPI
      BY <1>0, <2>1, Typed DEF Cqe
    <2> QED
      BY <2>2 DEF At
  <1>4. (\E i \in DOMAIN wc : wc[i].info = p) <=> \E q \in QPI, i \in Nat : At(p, 4, q, i)
    <2>1. \A i \in 1 .. Len(wc) : wc[i] \in Cqe
      BY <1>0, Typed
    <2>2. DOMAIN wc = 1 .. Len(wc) /\ \A i \in 1 .. Len(wc) : i \in Nat /\ wc[i].qpi \in QPI
      BY <1>0, <2>1, Typed DEF Cqe
    <2> QED
      BY <2>2 DEF At
  <1>5. 1 .. 4 = {1, 2, 3, 4}
    OBVIOUS
  <1> QED
    BY <1>1, <1>2, <1>3, <1>4, <1>5 DEF UnderWay, Placed

(* submit puts the pieces of its request in place ...                       *)
LEMMA PlacedPush ==
  ASSUME TypeOK, NEW t \in Client, SubmitPush(t)
  PROVE  \E r \in Request, d \in QPI :
           /\ r = client[t].req
           /\ \A p \in ReadPiece : Placed(p)' <=> Placed(p) \/ p[1] = r
           /\ \A p \in Piece, q \in QPI : On(p, q)' <=> On(p, q) \/ (p[1] = r /\ q = d)
           /\ \A p \in ReadPiece : p[1] = r => \E i \in Nat : At(p, 1, d, i)'
           /\ \A p \in ReadPiece, s \in 1 .. 4, q \in QPI, i \in Nat : At(p, s, q, i) => At(p, s, q, i)'
  <1>1. PICK r \in Request, d \in QPI :
            /\ r = client[t].req
            /\ \A p \in Piece, q \in QPI : On(p, q)' <=> On(p, q) \/ (p[1] = r /\ q = d)
            /\ \A p \in Piece, s \in 1 .. 4, q \in QPI, i \in Nat :
                 At(p, s, q, i)' <=>
                   \/ At(p, s, q, i)
                   \/ p[1] = r /\ s = 1 /\ q = d /\ i = Len(assign_queue_[d]) + p[2]
    BY PushPlaces
  <1>2. \A p \in ReadPiece : p \in Piece /\ Len(assign_queue_[d]) + p[2] \in Nat
    BY Typed, PieceOfRead, ReadPieceFacts DEF Reads
  <1>3. \A p \in ReadPiece : p[1] = r => \E i \in Nat : At(p, 1, d, i)'
    BY <1>1, <1>2
  <1>4. \A p \in ReadPiece, s \in 1 .. 4, q \in QPI, i \in Nat : At(p, s, q, i) => At(p, s, q, i)'
    BY <1>1, <1>2
  <1>5. ASSUME NEW p \in ReadPiece
        PROVE  Placed(p)' <=> Placed(p) \/ p[1] = r
    <2>1. Placed(p) => Placed(p)'
      BY <1>4 DEF Placed
    <2>2. p[1] = r => Placed(p)'
      <3>1. 1 \in 1 .. 4
        OBVIOUS
      <3> QED
        BY <1>3, <3>1 DEF Placed
    <2>3. Placed(p)' => Placed(p) \/ p[1] = r
      BY <1>1, <1>2 DEF Placed
    <2> QED
      BY <2>1, <2>2, <2>3
  <1> QED
    BY <1>1, <1>3, <1>4, <1>5

(* ... the end of a loop of cq_poll_handle takes one out ...                *)
LEMMA PlacedDrop ==
  ASSUME TypeOK, PlaceInv, PushInv, CqSkip \/ CqRelease
  PROVE  \A p \in ReadPiece : Placed(p)' <=> Placed(p) /\ Head(wc).info # p
  <1>1. /\ 1 \in 1 .. Len(wc) /\ Head(wc) = wc[1]
        /\ \A p \in Piece, q \in QPI, i \in Nat : At(p, 4, q, i)' <=> i >= 1 /\ At(p, 4, q, i + 1)
        /\ \A p \in Piece, s \in 1 .. 3, q \in QPI, i \in Nat : At(p, s, q, i)' <=> At(p, s, q, i)
    BY DropPlaces
  <1> SUFFICES ASSUME NEW p \in ReadPiece
               PROVE  Placed(p)' <=> Placed(p) /\ Head(wc).info # p
    OBVIOUS
  <1>2. p \in Piece
    BY ReadPieceFacts
  <1>3. ASSUME NEW s \in 1 .. 4, NEW q \in QPI, NEW i \in Nat, At(p, s, q, i), Head(wc).info # p
        PROVE  Placed(p)'
    <2>1. CASE s \in 1 .. 3
      BY <1>1, <1>2, <1>3, <2>1 DEF Placed
    <2>2. CASE s = 4
      <3>1. i # 1 /\ i >= 1
        BY <1>1, <1>3, <2>2 DEF At
      <3>2. PICK j \in Nat : j >= 1 /\ i = j + 1
        BY <3>1
      <3>3. At(p, 4, q, j)'
        BY <1>1, <1>2, <1>3, <2>2, <3>2
      <3> QED
        BY <3>3, 4 \in 1 .. 4 DEF Placed
    <2> QED
      BY <2>1, <2>2
  <1>4. ASSUME NEW s \in 1 .. 4, NEW q \in QPI, NEW i \in Nat, At(p, s, q, i)'
        PROVE  Placed(p) /\ Head(wc).info # p
    <2>1. PICK j \in Nat : At(p, s, q, j) /\ ~(s = 4 /\ j = 1)
      <3>1. CASE s \in 1 .. 3
        BY <1>1, <1>2, <1>4, <3>1
      <3>2. CASE s = 4
        BY <1>1, <1>2, <1>4, <3>2
      <3> QED
        BY <3>1, <3>2
    <2>2. ASSUME Head(wc).info = p
          PROVE  FALSE
      <3>1. PICK d \in QPI : At(p, 4, d, 1)
        <4>1. wc[1] \in Cqe
          BY <1>1, Typed
        <4>2. wc[1].qpi \in QPI
          BY <4>1 DEF Cqe
        <4> QED
          BY <1>1, <2>2, <4>2 DEF At
      <3>2. On(p, q) /\ On(p, d)
        BY <2>1, <3>1, 4 \in 1 .. 4, 1 \in Nat DEF PlaceInv
      <3>3. q = d
        BY <1>2, <3>2 DEF PushInv
      <3> QED
        BY <2>1, <3>1, <3>3, 4 \in 1 .. 4, 1 \in Nat DEF PlaceInv
    <2> QED
      BY <2>1, <2>2 DEF Placed
  <1> QED
    BY <1>3, <1>4 DEF Placed

(* ... and no other step changes which ones are.                            *)
Carrying ==
  \/ \E q \in QPI : WqPost(q) \/ WqPop(q) \/ HwReceive(q)
  \/ \E q \in QPI : HwComplete(q) \/ HwFail(q) \/ HwFlush(q)
  \/ CqPoll \/ StopCqPost

LEMMA PlacedCarry ==
  ASSUME TypeOK, FlowControl, ThreadInv, Still \/ Carrying
  PROVE  \A p \in ReadPiece : Placed(p)' <=> Placed(p)
  <1> SUFFICES ASSUME NEW p \in ReadPiece PROVE Placed(p)' <=> Placed(p)
    OBVIOUS
  <1>0. p \in Piece /\ 1 .. 4 = {1, 2, 3, 4}
    BY ReadPieceFacts
  <1>1. ASSUME \A s \in 1 .. 4, q \in QPI, i \in Nat : At(p, s, q, i)' <=> At(p, s, q, i)
        PROVE  Placed(p)' <=> Placed(p)
    BY <1>1 DEF Placed
  <1>2. CASE Still
    BY <1>1, <1>2, SamePlaces DEF Still
  <1>3. ASSUME NEW d \in QPI, WqPost(d)
        PROVE  Placed(p)' <=> Placed(p)
    <2>1. PICK e : e = Head(assign_queue_[d])
      OBVIOUS
    <2>2. /\ \A i \in Nat : At(p, 1, d, i) /\ i = 1 <=> p = e /\ i = 1
          /\ \A s \in 1 .. 4, q \in QPI, i \in Nat :
               At(p, s, q, i)' <=>
                 \/ At(p, s, q, i) /\ ~(s = 1 /\ q = d /\ i = 1)
                 \/ p = e /\ s = 2 /\ q = d /\ i = Len(sq[d]) + 1
      BY <1>3, <2>1, PostPlaces
    <2>3. PICK m \in Nat : m = Len(sq[d]) + 1
      BY Typed
    <2>4. ASSUME NEW s \in 1 .. 4, NEW q \in QPI, NEW i \in Nat, At(p, s, q, i)
          PROVE  Placed(p)'
      <3>1. CASE s = 1 /\ q = d /\ i = 1
        <4>1. At(p, 2, d, m)'
          BY <2>2, <2>3, <2>4, <3>1, 2 \in 1 .. 4
        <4> QED
          BY <4>1, 2 \in 1 .. 4 DEF Placed
      <3>2. CASE ~(s = 1 /\ q = d /\ i = 1)
        <4>1. At(p, s, q, i)'
          BY <2>2, <2>4, <3>2
        <4> QED
          BY <4>1 DEF Placed
      <3> QED
        BY <3>1, <3>2
    <2>5. ASSUME NEW s \in 1 .. 4, NEW q \in QPI, NEW i \in Nat, At(p, s, q, i)'
          PROVE  Placed(p)
      <3>1. At(p, s, q, i) \/ At(p, 1, d, 1)
        BY <2>2, <2>5
      <3> QED
        BY <3>1, 1 \in 1 .. 4, 1 \in Nat DEF Placed
    <2> QED
      BY <2>4, <2>5 DEF Placed
  <1>4. ASSUME NEW d \in QPI, WqPop(d)
        PROVE  Placed(p)' <=> Placed(p)
    <2>1. /\ ~At(p, 1, d, 1)
          /\ \A s \in 1 .. 4, q \in QPI, i \in Nat :
               At(p, s, q, i)' <=> IF s = 1 /\ q = d THEN At(p, 1, d, i + 1) ELSE At(p, s, q, i)
      BY <1>0, <1>4, PopPlaces
    <2>2. ASSUME NEW s \in 1 .. 4, NEW q \in QPI, NEW i \in Nat, At(p, s, q, i)
          PROVE  Placed(p)'
      <3>1. CASE s = 1 /\ q = d
        <4>1. PICK j \in Nat : i = j + 1
          BY <2>2, AtBounds
        <4>2. At(p, s, q, j)'
          BY <2>1, <2>2, <3>1, <4>1
        <4> QED
          BY <4>2 DEF Placed
      <3>2. CASE ~(s = 1 /\ q = d)
        BY <2>1, <2>2, <3>2 DEF Placed
      <3> QED
        BY <3>1, <3>2
    <2>3. ASSUME NEW s \in 1 .. 4, NEW q \in QPI, NEW i \in Nat, At(p, s, q, i)'
          PROVE  Placed(p)
      <3>1. \E j \in Nat : At(p, s, q, j)
        BY <2>1, <2>3, i + 1 \in Nat
      <3> QED
        BY <3>1 DEF Placed
    <2> QED
      BY <2>2, <2>3 DEF Placed
  <1>5. CASE CqPoll
    <2>1. PICK n \in Nat :
            /\ \A q \in QPI, i \in Nat : ~At(p, 4, q, i)
            /\ \A q \in QPI, i \in Nat :
                 /\ At(p, 4, q, i)' <=> i <= n /\ At(p, 3, q, i)
                 /\ At(p, 3, q, i)' <=> i >= 1 /\ At(p, 3, q, i + n)
            /\ \A s \in {1, 2}, q \in QPI, i \in Nat : At(p, s, q, i)' <=> At(p, s, q, i)
      BY <1>0, <1>5, PollPlaces
    <2>2. ASSUME NEW s \in 1 .. 4, NEW q \in QPI, NEW i \in Nat, At(p, s, q, i)
          PROVE  Placed(p)'
      <3>1. CASE s \in {1, 2}
        BY <2>1, <2>2, <3>1 DEF Placed
      <3>2. CASE s = 3 /\ i <= n
        <4>1. At(p, 4, q, i)'
          BY <2>1, <2>2, <3>2
        <4> QED
          BY <4>1, 4 \in 1 .. 4 DEF Placed
      <3>3. CASE s = 3 /\ ~(i <= n)
        <4>1. PICK j \in Nat : i = j + n /\ j >= 1
          BY <3>3
        <4>2. At(p, 3, q, j)'
          BY <2>1, <2>2, <3>3, <4>1
        <4> QED
          BY <4>2, 3 \in 1 .. 4 DEF Placed
      <3> QED
        BY <1>0, <2>1, <2>2, <3>1, <3>2, <3>3
    <2>3. ASSUME NEW s \in 1 .. 4, NEW q \in QPI, NEW i \in Nat, At(p, s, q, i)'
          PROVE  Placed(p)
      <3>1. \E a \in 1 .. 4, j \in Nat : At(p, a, q, j)
        BY <1>0, <2>1, <2>3, i + n \in Nat
      <3> QED
        BY <3>1 DEF Placed
    <2> QED
      BY <2>2, <2>3 DEF Placed
  <1>6. ASSUME NEW d \in QPI, HwComplete(d) \/ HwFail(d) \/ HwFlush(d)
        PROVE  Placed(p)' <=> Placed(p)
    <2>1. PICK e \in Piece \union {NULL}, m \in Nat, st \in {"SUCCESS", "FAILED"} : Taken(d, e, m, st)
      BY <1>6, TakePlaces
    <2>2. ASSUME NEW s \in 1 .. 4, NEW q \in QPI, NEW i \in Nat, At(p, s, q, i)
          PROVE  Placed(p)'
      <3>1. CASE s \in {1, 3, 4}
        <4>1. At(p, s, q, i)'
          BY <2>1, <2>2, <3>1 DEF Taken
        <4> QED
          BY <4>1 DEF Placed
      <3>2. CASE s = 2 /\ q # d
        <4>1. At(p, s, q, i)'
          BY <2>1, <2>2, <3>2 DEF Taken
        <4> QED
          BY <4>1 DEF Placed
      <3>3. CASE s = 2 /\ q = d /\ i = 1
        <4>1. PICK x \in Nat : x = Len(cq) + m
          BY Typed
        <4>2. At(p, 3, d, x)'
          BY <2>1, <2>2, <3>3, <4>1 DEF Taken
        <4> QED
          BY <4>2, 3 \in 1 .. 4 DEF Placed
      <3>4. CASE s = 2 /\ q = d /\ i # 1
        <4>1. PICK j \in Nat : i = j + 1 /\ j >= 1
          BY <2>2, <3>4, AtBounds
        <4>2. At(p, 2, d, j)'
          BY <2>1, <2>2, <3>4, <4>1 DEF Taken
        <4> QED
          BY <4>2, 2 \in 1 .. 4 DEF Placed
      <3> QED
        BY <1>0, <3>1, <3>2, <3>3, <3>4
    <2>3. ASSUME NEW s \in 1 .. 4, NEW q \in QPI, NEW i \in Nat, At(p, s, q, i)'
          PROVE  Placed(p)
      <3>1. \E a \in 1 .. 4, j \in Nat : At(p, a, q, j)
        <4>1. CASE s \in {1, 4}
          BY <2>1, <2>3, <4>1 DEF Taken
        <4>2. CASE s = 2
          BY <2>1, <2>3, <4>2, i + 1 \in Nat DEF Taken
        <4>3. CASE s = 3
          <5>1. At(p, 3, q, i) \/ (p = e /\ q = d)
            <6>1. At(p, 3, q, i)' <=> At(p, 3, q, i) \/ (p = e /\ q = d /\ i = Len(cq) + m)
              BY <2>1 DEF Taken
            <6> QED
              BY <2>3, <4>3, <6>1
          <5>2. p = e => At(p, 2, d, 1)
            BY <2>1 DEF Taken
          <5> QED
            BY <5>1, <5>2, 2 \in 1 .. 4, 3 \in 1 .. 4
        <4> QED
          BY <1>0, <4>1, <4>2, <4>3
      <3> QED
        BY <3>1 DEF Placed
    <2> QED
      BY <2>2, <2>3 DEF Placed
  <1>7. ASSUME NEW d \in QPI, HwReceive(d)
        PROVE  Placed(p)' <=> Placed(p)
    BY <1>1, <1>7, ReceivePlaces
  <1>8. CASE StopCqPost
    BY <1>1, <1>8, StopPostPlaces
  <1> QED
    BY <1>2, <1>3, <1>4, <1>5, <1>6, <1>7, <1>8 DEF Carrying

-----------------------------------------------------------------------------
(* Callbacks.                                                               *)

(* Steps that neither put a piece in place nor work on a completion.        *)
Quiet ==
  /\ UNCHANGED <<finished_, code, pushed>>
  /\ cqPc' = "release" <=> cqPc = "release"
  /\ cqPc = "release" => wc' = wc
  /\ \A r \in held : finished_[r] = 0 => r \in held'
  /\ \A p \in ReadPiece : Placed(p)' <=> Placed(p)

(* Every step is quiet, pushes, calls back, or ends a loop.                 *)
LEMMA QuietOrNot ==
  ASSUME Inv, ThreadInv, Reliable, [Next]_vars
  PROVE  Quiet \/ (\E t \in Client : SubmitPush(t)) \/ CqCall \/ CqSkip \/ CqRelease
  <1>0. TypeOK /\ FlowControl
    BY DEF Inv
  <1> DEFINE Control == /\ UNCHANGED <<finished_, code, pushed>>
                        /\ cqPc' = "release" <=> cqPc = "release"
                        /\ cqPc = "release" => wc' = wc
                        /\ \A r \in held : finished_[r] = 0 => r \in held'
  <1>1. ASSUME LaunchFuture \/ CqTop \/ CqEvent \/ CqArm \/ CqPoll
        PROVE  Control
    BY <1>1 DEF LaunchFuture, CqTop, CqEvent, CqArm, CqPoll, clientVars, queueVars
  <1>2. ASSUME NEW t \in Client, NEW r \in Request, SubmitSelect(t, r) \/ SubmitStore(t)
        PROVE  Control
    BY <1>2 DEF SubmitSelect, SubmitStore, queueVars, cqVars
  <1>3. ASSUME NEW t \in Client, WaitReturn(t)
        PROVE  Control
    <2>1. client[t].req \in Request
      BY <1>0, <1>3 DEF WaitReturn, TypeOK, ClientTypeOK
    <2>2. finished_[client[t].req] # 0
      BY <1>0, <1>3, <2>1, Typed DEF WaitReturn
    <2> QED
      BY <1>3, <2>2 DEF WaitReturn, queueVars, cqVars
  <1>4. ASSUME NEW q \in QPI, WqStep(q) \/ WqSpurious(q)
        PROVE  Control
    BY <1>4 DEF WqStep, WqSpurious, WqTop, WqPredicate, WqPark, WqWake, WqDrained, WqReserve,
                WqCharge, WqPost, WqPostFails, WqPop, clientVars, cqVars
  <1>5. ASSUME StopBegin \/ StopStep
        PROVE  Control
    BY <1>5 DEF StopBegin, StopStep, StopWqFlag, StopWqNotify, StopWqJoin, StopCqFlag, StopCqArm,
                StopCqPost, StopCqJoin, clientVars, queueVars, cqVars
  <1>6. ASSUME NEW q \in QPI, HwStep(q)
        PROVE  Control
    BY <1>6 DEF HwStep, HwComplete, HwFail, HwFlush, HwReceive, clientVars, queueVars, cqVars
  <1>7. ASSUME UNCHANGED vars
        PROVE  Control
    BY <1>7 DEF vars, clientVars, queueVars, cqVars
  <1>8. Control \/ (\E t \in Client : SubmitPush(t)) \/ CqCall \/ CqSkip \/ CqRelease
    <2>1. CASE \E t \in Client : (\E r \in Request : SubmitSelect(t, r)) \/ ClientStep(t)
      BY <1>2, <1>3, <2>1, ConstantsAssumption DEF ClientStep
    <2> HIDE DEF Control
    <2> QED
      BY <1>1, <1>4, <1>5, <1>6, <1>7, <2>1 DEF Next, CqStep
  <1>9. \/ \A p \in ReadPiece : Placed(p)' <=> Placed(p)
        \/ (\E t \in Client : SubmitPush(t)) \/ CqSkip \/ CqRelease
    <2>1. Still \/ Moving
      BY <1>0, StillOrMoving
    <2>2. \/ Still \/ Carrying
          \/ (\E t \in Client : SubmitPush(t)) \/ CqSkip \/ CqRelease
      BY <2>1 DEF Moving, Carrying
    <2> QED
      BY <1>0, <2>2, PlacedCarry
  <1> QED
    BY <1>8, <1>9 DEF Quiet

(* The last piece of a read.                                                *)
LEMMA LastOfRead ==
  ASSUME NEW r \in Reads
  PROVE  Last(r) \in ReadPiece /\ Last(r)[1] = r /\ IsLast(Last(r)) /\ r \in Request
  <1>1. r \in Request /\ NumPieces(r) \in Nat /\ NumPieces(r) >= 1
    <2>1. r \in Request /\ Size[r] \in Nat /\ Size[r] >= 1
      BY ConstantsAssumption DEF Reads
    <2> QED
      <3>1. NumPieces(r) \in Nat /\ \E k \in 1 .. NumPieces(r) : TRUE
        BY <2>1, PieceOfRead, SplitCovers, 1 \in 1 .. Size[r]
      <3> QED
        BY <2>1, <3>1
  <1>2. Last(r) \in ReadPiece
    BY <1>1, PieceOfRead DEF Last
  <1> QED
    BY <1>1, <1>2 DEF Last, IsLast

SentIsOn == \A p \in Piece : Sent(p) <=> \E q \in QPI : On(p, q)

(* To be sent is to be pushed to some queue pair.                           *)
LEMMA SentOn == TypeOK => SentIsOn
  <1> SUFFICES ASSUME TypeOK PROVE SentIsOn
    OBVIOUS
  <1>1. \A q \in QPI : DOMAIN pushed[q] = 1 .. Len(pushed[q])
    BY Typed
  <1> QED
    BY <1>1 DEF SentIsOn, Sent, On

(* CallInv says, in terms of places, what CallbackExactlyOnce says.         *)
LEMMA CallInvMeans == Inv => (CallInv <=> CallbackExactlyOnce)
  <1> SUFFICES ASSUME Inv PROVE CallInv <=> CallbackExactlyOnce
    OBVIOUS
  <1>1. TypeOK /\ UnderWayIsPlaced /\ SentIsOn
    BY SentOn, UnderWayPlaces DEF Inv
  <1>2. \A r \in Reads : /\ UnderWay(Last(r)) <=> Placed(Last(r))
                         /\ Sent(Last(r)) <=> \E q \in QPI : On(Last(r), q)
    BY <1>1, LastOfRead, ReadPieceFacts DEF UnderWayIsPlaced, SentIsOn
  <1> QED
    BY <1>2 DEF CallInv, CallbackExactlyOnce, Called, Last

(* The callback runs exactly when its piece passes.                         *)
LEMMA CallStep ==
  ASSUME Inv, ThreadInv, OwnerInv, PushInv, InfoInv, PlaceInv, CallInv, Reliable, [Next]_vars
  PROVE  CallInv'
  <1>0. TypeOK /\ FlowControl
    BY DEF Inv
  <1> SUFFICES ASSUME NEW r \in Reads
               PROVE  finished_'[r] = IF /\ \E q \in QPI : On(Last(r), q)'
                                         /\ Placed(Last(r))' => Called(Last(r))'
                                        THEN 1 ELSE 0
    BY DEF CallInv
  <1>1. PICK p \in ReadPiece : p = Last(r) /\ p[1] = r /\ IsLast(p) /\ p \in Piece /\ r \in Request
    BY LastOfRead, ReadPieceFacts
  <1>2. finished_[r] = IF (\E q \in QPI : On(p, q)) /\ (Placed(p) => Called(p)) THEN 1 ELSE 0
    BY <1>1 DEF CallInv
  <1> SUFFICES finished_'[r] = IF (\E q \in QPI : On(p, q)') /\ (Placed(p)' => Called(p)')
                                 THEN 1 ELSE 0
    BY <1>1
  <1>3. CASE Quiet
    BY <1>2, <1>3 DEF Quiet, On, Called
  <1>4. ASSUME NEW t \in Client, SubmitPush(t)
        PROVE  finished_'[r] = IF (\E q \in QPI : On(p, q)') /\ (Placed(p)' => Called(p)')
                                 THEN 1 ELSE 0
    <2>1. PICK x \in Request, d \in QPI :
            /\ x = client[t].req
            /\ \A o \in ReadPiece : Placed(o)' <=> Placed(o) \/ o[1] = x
            /\ \A o \in Piece, q \in QPI : On(o, q)' <=> On(o, q) \/ (o[1] = x /\ q = d)
      BY <1>0, <1>4, PlacedPush
    <2>2. finished_' = finished_ /\ (Called(p)' <=> Called(p)) /\ Fresh(x)
      BY <1>4, <2>1 DEF SubmitPush, cqVars, Called, OwnerInv, Submitting
    <2>3. CASE r # x
      BY <1>1, <1>2, <2>1, <2>2, <2>3
    <2>4. CASE r = x
      <3>1. \A q \in QPI : ~On(p, q)
        BY <1>1, <2>2, <2>4 DEF Fresh
      <3>2. ~Called(p)
        <4> SUFFICES ASSUME Called(p) PROVE FALSE
          OBVIOUS
        <4>1. wc # <<>> /\ wc \in Seq(Cqe) /\ Head(wc).info = p
          BY <1>0, Typed DEF Called, TypeOK, CqTypeOK
        <4>2. wc[1].info = p /\ wc[1] \in Cqe /\ 1 \in 1 .. Len(wc)
          BY <4>1
        <4>3. PICK q \in QPI : At(p, 4, q, 1)
          BY <4>2 DEF At, Cqe
        <4> QED
          BY <3>1, <4>3, 4 \in 1 .. 4, 1 \in Nat DEF PlaceInv
      <3>3. Placed(p)'
        BY <1>1, <2>1, <2>4
      <3> QED
        BY <1>2, <2>2, <3>1, <3>2, <3>3
    <2> QED
      BY <2>3, <2>4
  <1>5. wc # <<>> => \E q \in QPI : Head(wc).info = p => At(p, 4, q, 1)
    <2>1. wc # <<>> => wc[1] = Head(wc) /\ wc[1] \in Cqe /\ 1 \in 1 .. Len(wc)
      BY <1>0, Typed
    <2> QED
      BY <2>1 DEF At, Cqe
  <1>6. wc # <<>> /\ Head(wc).info = p => Placed(p) /\ \E q \in QPI : On(p, q)
    BY <1>5, 4 \in 1 .. 4, 1 \in Nat DEF Placed, PlaceInv
  <1>7. CASE CqCall
    <2>1. PICK h : h = Head(wc).info
      OBVIOUS
    <2>2. wc # <<>> /\ cqPc = "call" /\ cqPc' = "release" /\ wc' = wc /\ pushed' = pushed
      BY <1>0, <1>7 DEF CqCall, queueVars, TypeOK, CqTypeOK
    <2>3. h \in ReadPiece
      <3>1. wc[1] = Head(wc) /\ 1 \in 1 .. Len(wc)
        BY <1>0, <2>2, Typed
      <3> QED
        BY <1>7, <2>1, <3>1 DEF InfoInv, CqCall
    <2>4. record[h] = h
      BY <1>0, <2>3 DEF ReadPiece, TypeOK, RecordTypeOK, Reliable
    <2>5. IF IsLast(h) THEN finished_' = [finished_ EXCEPT ![h[1]] = @ + 1] ELSE finished_' = finished_
      BY <1>7, <2>1, <2>4 DEF CqCall
    <2>6. IsLast(h) /\ h[1] = r <=> h = p
      BY <1>1, <2>3, ReadPieceFacts DEF IsLast
    <2>7. Placed(p)' <=> Placed(p)
      <3>1. Still
        BY <1>7 DEF CqCall, queueVars, hwVars, Still
      <3> QED
        BY <1>0, <3>1, PlacedCarry
    <2>8. (\E q \in QPI : On(p, q)') <=> \E q \in QPI : On(p, q)
      BY <2>2 DEF On
    <2>9. ~Called(p) /\ (Called(p)' <=> h = p)
      BY <2>1, <2>2 DEF Called
    <2>10. finished_'[r] = IF h = p THEN finished_[r] + 1 ELSE finished_[r]
      BY <1>0, <1>1, <2>3, <2>5, <2>6, Typed
    <2>11. CASE h = p
      BY <1>2, <1>6, <2>1, <2>2, <2>7, <2>8, <2>9, <2>10, <2>11
    <2>12. CASE h # p
      BY <1>2, <2>7, <2>8, <2>9, <2>10, <2>12
    <2> QED
      BY <2>11, <2>12
  <1>8. CASE CqSkip \/ CqRelease
    <2>1. Placed(p)' <=> Placed(p) /\ Head(wc).info # p
      BY <1>0, <1>8, PlacedDrop
    <2>2. wc # <<>> /\ pushed' = pushed /\ finished_' = finished_ /\ cqPc' # "release"
      BY <1>0, <1>8 DEF CqSkip, CqRelease, AfterEntry, queueVars, TypeOK, CqTypeOK
    <2>3. Head(wc).info = p => Called(p)
      BY <1>1, <1>8, ReadPieceFacts DEF CqSkip, CqRelease, Called
    <2>4. ~Called(p)' /\ (Called(p) => Head(wc).info = p)
      BY <2>2 DEF Called
    <2>5. (\E q \in QPI : On(p, q)') <=> \E q \in QPI : On(p, q)
      BY <2>2 DEF On
    <2> QED
      BY <1>2, <1>6, <2>1, <2>2, <2>3, <2>4, <2>5
  <1> QED
    BY <1>3, <1>4, <1>7, <1>8, QuietOrNot

(* The handle is held until the callback.                                   *)
LEMMA HeldStep ==
  ASSUME Inv, ThreadInv, InfoInv, HeldInv, Reliable, [Next]_vars
  PROVE  HeldInv'
  <1>0. TypeOK /\ FlowControl
    BY DEF Inv
  <1> SUFFICES ASSUME NEW r \in Reads, Usage[r] # "forget",
                      \E q \in QPI : On(Last(r), q)', finished_'[r] = 0
               PROVE  r \in held'
    BY DEF HeldInv
  <1>1. Last(r) \in Piece /\ Last(r)[1] = r /\ r \in Request
    BY LastOfRead, ReadPieceFacts
  <1>2. CASE Quiet
    BY <1>2 DEF Quiet, On, HeldInv
  <1>3. ASSUME NEW t \in Client, SubmitPush(t)
        PROVE  r \in held'
    <2>1. PICK x \in Request, d \in QPI :
            /\ x = client[t].req
            /\ \A o \in Piece, q \in QPI : On(o, q)' <=> On(o, q) \/ (o[1] = x /\ q = d)
      BY <1>0, <1>3, PlacedPush
    <2>2. finished_' = finished_ /\ held' = IF Usage[x] = "forget" THEN held ELSE held \union {x}
      BY <1>3, <2>1 DEF SubmitPush, cqVars
    <2>3. r = x \/ \E q \in QPI : On(Last(r), q)
      BY <1>1, <2>1
    <2> QED
      BY <2>2, <2>3 DEF HeldInv
  <1>4. CASE CqCall
    <2>1. PICK h : h = Head(wc).info
      OBVIOUS
    <2>2. h \in ReadPiece
      <3>1. wc # <<>>
        BY <1>0, <1>4 DEF CqCall, TypeOK, CqTypeOK
      <3>2. wc[1] = Head(wc) /\ 1 \in 1 .. Len(wc)
        BY <1>0, <3>1, Typed
      <3> QED
        BY <1>4, <2>1, <3>2 DEF InfoInv, CqCall
    <2>3. record[h] = h
      BY <1>0, <2>2 DEF ReadPiece, TypeOK, RecordTypeOK, Reliable
    <2>4. /\ pushed' = pushed
          /\ IF IsLast(h)
               THEN /\ finished_' = [finished_ EXCEPT ![h[1]] = @ + 1]
                    /\ held' = IF Usage[h[1]] = "release" THEN held \ {h[1]} ELSE held
               ELSE UNCHANGED <<finished_, held>>
      BY <1>4, <2>1, <2>3 DEF CqCall, queueVars
    <2>5. \/ finished_'[r] = finished_[r] /\ (r \in held => r \in held')
          \/ finished_'[r] = finished_[r] + 1
      BY <1>0, <1>1, <2>2, <2>4, ReadPieceFacts, Typed
    <2>6. finished_[r] \in Nat /\ \E q \in QPI : On(Last(r), q)
      BY <1>0, <1>1, <2>4, Typed DEF On
    <2>7. finished_[r] = 0 /\ (r \in held => r \in held')
      BY <2>5, <2>6
    <2> QED
      BY <2>6, <2>7 DEF HeldInv
  <1>5. CASE CqSkip \/ CqRelease
    BY <1>5 DEF CqSkip, CqRelease, clientVars, queueVars, On, HeldInv
  <1> QED
    BY <1>2, <1>3, <1>4, <1>5, QuietOrNot

(* A completion is called back on a record that exists.                     *)
LEMMA LiveFromHeld ==
  ASSUME TypeOK, InfoInv, PlaceInv, CallInv, HeldInv
  PROVE  RecordLiveWhenCalled
  <1> SUFFICES ASSUME cqPc = "call", NEW p, p = Head(wc).info, p # NULL, IsLast(p), Usage[p[1]] # "forget"
               PROVE  Live(p)
    BY DEF RecordLiveWhenCalled
  <1>1. wc # <<>>
    BY DEF TypeOK, CqTypeOK
  <1>2. wc[1] = Head(wc) /\ 1 \in 1 .. Len(wc) /\ wc[1] \in Cqe
    BY <1>1, Typed
  <1>3. p \in ReadPiece
    BY <1>2 DEF InfoInv
  <1>4. PICK q \in QPI : At(p, 4, q, 1)
    BY <1>2 DEF At, Cqe
  <1>5. Placed(p) /\ On(p, q) /\ ~Called(p)
    BY <1>3, <1>4, 4 \in 1 .. 4, 1 \in Nat DEF PlaceInv, Placed, Called
  <1>6. p[1] \in Reads /\ p = Last(p[1])
    BY <1>3, ReadPieceFacts DEF IsLast, Last
  <1>7. finished_[p[1]] = 0
    BY <1>5, <1>6 DEF CallInv
  <1>8. p[1] \in held
    BY <1>5, <1>6, <1>7 DEF HeldInv
  <1> QED
    BY <1>8 DEF Live

-----------------------------------------------------------------------------
(* Data.                                                                    *)

(* Bytes that have arrived stay, and a failed queue pair stays failed.      *)
LEMMA DeviceKeeps ==
  ASSUME TypeOK, [Next]_vars
  PROVE  /\ moved \subseteq moved'
         /\ \A q \in QPI : qpState'[q] = "RTS" => qpState[q] = "RTS"
  <1>1. CASE UNCHANGED <<moved, qpState>>
    BY <1>1
  <1>2. ASSUME NEW q \in QPI, HwStep(q)
        PROVE  /\ moved \subseteq moved'
               /\ qpState' = qpState \/ qpState' = [qpState EXCEPT ![q] = "ERR"]
    BY <1>2 DEF HwStep, HwComplete, HwFail, HwFlush, HwReceive
  <1>3. CASE LaunchFuture \/ CqStep \/ StopBegin \/ StopStep \/ UNCHANGED vars
    BY <1>1, <1>3 DEF LaunchFuture, CqStep, CqTop, CqEvent, CqArm, CqPoll, CqSkip, CqCall, CqRelease,
       StopBegin, StopStep, StopWqFlag, StopWqNotify, StopWqJoin, StopCqFlag, StopCqArm, StopCqPost,
       StopCqJoin, vars, hwVars
  <1>4. ASSUME NEW t \in Client, (\E r \in Request : SubmitSelect(t, r)) \/ ClientStep(t)
        PROVE  UNCHANGED <<moved, qpState>>
    BY <1>4 DEF ClientStep, SubmitSelect, SubmitStore, SubmitPush, WaitReturn, hwVars
  <1>5. ASSUME NEW q \in QPI, WqStep(q) \/ WqSpurious(q)
        PROVE  UNCHANGED <<moved, qpState>>
    BY <1>5 DEF WqStep, WqSpurious, WqTop, WqPredicate, WqPark, WqWake, WqDrained, WqReserve,
                WqCharge, WqPost, WqPostFails, WqPop, hwVars
  <1>6. CASE \E q \in QPI : HwStep(q)
    BY <1>2, <1>6, Typed
  <1> QED
    BY <1>1, <1>3, <1>4, <1>5, <1>6 DEF Next

(* Only the device takes a piece from the queue and the send queue.         *)
LEMMA GoneStep ==
  ASSUME TypeOK, FlowControl, ThreadInv, Still \/ Moving,
         NEW p \in ReadPiece, NEW q \in QPI, Gone(p, q)'
  PROVE  \/ Gone(p, q)
         \/ p = Head(sq[q]) /\ (HwComplete(q) \/ HwFail(q) \/ HwFlush(q))
  <1>0. p \in Piece /\ \A s \in {1, 2} : s \in 1 .. 4
    BY ReadPieceFacts
  <1>1. ASSUME \A s \in {1, 2}, i \in Nat : At(p, s, q, i) => At(p, s, q, i)'
        PROVE  Gone(p, q)
    BY <1>1 DEF Gone
  <1>2. CASE Still
    BY <1>0, <1>1, <1>2, SamePlaces DEF Still
  <1>3. ASSUME NEW t \in Client, SubmitPush(t)
        PROVE  Gone(p, q)
    <2>1. \A s \in {1, 2}, i \in Nat : At(p, s, q, i) => At(p, s, q, i)'
      BY <1>0, <1>3, PlacedPush
    <2> QED
      BY <1>1, <2>1
  <1>4. ASSUME NEW d \in QPI, WqPost(d)
        PROVE  Gone(p, q)
    <2>1. PICK e : e = Head(assign_queue_[d])
      OBVIOUS
    <2>2. /\ \A i \in Nat : At(p, 1, d, i) /\ i = 1 <=> p = e /\ i = 1
          /\ \A s \in 1 .. 4, x \in QPI, i \in Nat :
               At(p, s, x, i)' <=>
                 \/ At(p, s, x, i) /\ ~(s = 1 /\ x = d /\ i = 1)
                 \/ p = e /\ s = 2 /\ x = d /\ i = Len(sq[d]) + 1
      BY <1>4, <2>1, PostPlaces
    <2>3. PICK m \in Nat : m = Len(sq[d]) + 1
      BY Typed
    <2>4. ASSUME NEW s \in {1, 2}, NEW i \in Nat, At(p, s, q, i)
          PROVE  At(p, s, q, i)'
      <3>1. CASE s = 1 /\ q = d /\ i = 1
        <4>1. At(p, 2, q, m)'
          BY <2>2, <2>3, <2>4, <3>1, 2 \in 1 .. 4
        <4> QED
          BY <4>1 DEF Gone
      <3>2. CASE ~(s = 1 /\ q = d /\ i = 1)
        BY <1>0, <2>2, <2>4, <3>2
      <3> QED
        BY <3>1, <3>2
    <2> QED
      BY <1>1, <2>4
  <1>5. ASSUME NEW d \in QPI, WqPop(d)
        PROVE  Gone(p, q)
    <2>1. /\ ~At(p, 1, d, 1)
          /\ \A s \in 1 .. 4, x \in QPI, i \in Nat :
               At(p, s, x, i)' <=> IF s = 1 /\ x = d THEN At(p, 1, d, i + 1) ELSE At(p, s, x, i)
      BY <1>0, <1>5, PopPlaces
    <2>2. ASSUME NEW s \in {1, 2}, NEW i \in Nat, At(p, s, q, i)
          PROVE  FALSE
      <3>1. CASE s = 1 /\ q = d
        <4>1. PICK j \in Nat : i = j + 1
          BY <2>2, AtBounds
        <4>2. At(p, 1, q, j)'
          BY <2>1, <2>2, <3>1, <4>1, 1 \in 1 .. 4
        <4> QED
          BY <4>2 DEF Gone
      <3>2. CASE ~(s = 1 /\ q = d)
        <4>1. At(p, s, q, i)'
          BY <1>0, <2>1, <2>2, <3>2
        <4> QED
          BY <4>1 DEF Gone
      <3> QED
        BY <3>1, <3>2
    <2> QED
      BY <2>2 DEF Gone
  <1>6. CASE CqPoll
    <2>1. \A s \in {1, 2}, i \in Nat : At(p, s, q, i)' <=> At(p, s, q, i)
      BY <1>0, <1>6, PollPlaces
    <2> QED
      BY <1>1, <2>1
  <1>7. CASE CqSkip \/ CqRelease
    <2>1. \A s \in 1 .. 3, i \in Nat : At(p, s, q, i)' <=> At(p, s, q, i)
      BY <1>0, <1>7, DropPlaces
    <2>2. \A s \in {1, 2} : s \in 1 .. 3
      OBVIOUS
    <2> QED
      BY <1>1, <2>1, <2>2
  <1>8. ASSUME NEW d \in QPI, HwComplete(d) \/ HwFail(d) \/ HwFlush(d),
               ~(d = q /\ p = Head(sq[q]))
        PROVE  Gone(p, q)
    <2>1. PICK e \in Piece \union {NULL}, m \in Nat, st \in {"SUCCESS", "FAILED"} : Taken(d, e, m, st)
      BY <1>8, TakePlaces
    <2>2. ASSUME NEW s \in {1, 2}, NEW i \in Nat, At(p, s, q, i)
          PROVE  FALSE
      <3>1. CASE s = 2 /\ q = d
        <4>1. p # e
          BY <1>8, <2>1, <3>1 DEF Taken
        <4>2. i # 1 /\ i >= 1
          BY <2>1, <2>2, <3>1, <4>1, AtBounds DEF Taken
        <4>3. PICK j \in Nat : i = j + 1 /\ j >= 1
          BY <4>2
        <4>4. At(p, 2, q, j)'
          BY <2>1, <2>2, <3>1, <4>3 DEF Taken
        <4> QED
          BY <4>4 DEF Gone
      <3>2. CASE ~(s = 2 /\ q = d)
        <4>1. At(p, s, q, i)'
          BY <2>1, <2>2, <3>2 DEF Taken
        <4> QED
          BY <4>1 DEF Gone
      <3> QED
        BY <3>1, <3>2
    <2> QED
      BY <2>2 DEF Gone
  <1>9. ASSUME NEW d \in QPI, HwReceive(d)
        PROVE  Gone(p, q)
    BY <1>0, <1>1, <1>9, ReceivePlaces
  <1>10. CASE StopCqPost
    BY <1>0, <1>1, <1>10, StopPostPlaces
  <1> QED
    BY <1>2, <1>3, <1>4, <1>5, <1>6, <1>7, <1>8, <1>9, <1>10 DEF Moving

(* What a completed chain has moved.                                        *)
LEMMA CompleteMoves ==
  ASSUME TypeOK, NEW p \in ReadPiece, NEW d \in QPI, HwComplete(d), p = Head(sq[d])
  PROVE  Items(p, PieceSize(p)) \subseteq moved'
  <1>1. IsRead(p) /\ p # NULL /\ PieceSize(p) \in Nat
    BY ReadPieceFacts, PieceShape
  <1>2. Len(WrIds(p)) = PieceSize(p)
    <2>1. WrIds(p) = [i \in 1 .. PieceSize(p) |-> IF i = PieceSize(p) THEN p ELSE NULL]
      BY <1>1 DEF WrIds
    <2> QED
      BY <1>1, <2>1
  <1>3. moved' = moved \union Moves(p, Len(WrIds(p)))
    BY DEF HwComplete
  <1> QED
    BY <1>1, <1>2, <1>3 DEF Moves

(* What a working queue pair has let go has arrived.                        *)
LEMMA GoneArrivedStep ==
  ASSUME Inv, ThreadInv, GoneArrived, Reliable, [Next]_vars
  PROVE  GoneArrived'
  <1>0. TypeOK /\ FlowControl
    BY DEF Inv
  <1>1. Still \/ Moving
    BY <1>0, StillOrMoving
  <1> SUFFICES ASSUME NEW p \in ReadPiece, NEW q \in QPI, On(p, q)', qpState'[q] = "RTS", Gone(p, q)'
               PROVE  Items(p, PieceSize(p)) \subseteq moved'
    BY DEF GoneArrived
  <1>2. On(p, q)
    <2>1. CASE \E t \in Client : SubmitPush(t)
      <3>1. PICK t \in Client : SubmitPush(t)
        BY <2>1
      <3>2. PICK x \in Request, d \in QPI :
              /\ \A o \in Piece, y \in QPI : On(o, y)' <=> On(o, y) \/ (o[1] = x /\ y = d)
              /\ \A o \in ReadPiece : o[1] = x => \E i \in Nat : At(o, 1, d, i)'
        BY <1>0, <3>1, PlacedPush
      <3>3. ~(p[1] = x /\ q = d)
        BY <3>2 DEF Gone
      <3> QED
        BY <3>2, <3>3, ReadPieceFacts
    <2>2. CASE ~(\E t \in Client : SubmitPush(t))
      BY <1>1, <2>2, KeptPushed
    <2> QED
      BY <2>1, <2>2
  <1>3. moved \subseteq moved' /\ qpState[q] = "RTS"
    BY <1>0, DeviceKeeps
  <1>4. CASE Gone(p, q)
    BY <1>2, <1>3, <1>4 DEF GoneArrived
  <1>5. CASE p = Head(sq[q]) /\ (HwComplete(q) \/ HwFail(q) \/ HwFlush(q))
    <2>1. HwComplete(q)
      <3>1. ~HwFlush(q)
        BY <1>3 DEF HwFlush
      <3>2. ~HwFail(q)
        <4>1. HwFail(q) => qpState'[q] = "ERR"
          BY <1>0, Typed DEF HwFail
        <4> QED
          BY <4>1
      <3> QED
        BY <1>5, <3>1, <3>2
    <2> QED
      BY <1>0, <1>5, <2>1, CompleteMoves
  <1> QED
    BY <1>0, <1>1, <1>4, <1>5, GoneStep

(* When the last piece of a read completes, the whole read has arrived.     *)
LEMMA LastCompletes ==
  ASSUME Inv, PushInv, PlaceInv, GoneArrived', NEW d \in QPI, HwComplete(d),
         NEW e \in ReadPiece, NEW m \in Nat, Taken(d, e, m, "SUCCESS"), IsLast(e)
  PROVE  Arrived(e[1])'
  <1>0. TypeOK
    BY DEF Inv
  <1>1. PICK r \in Request : r = e[1] /\ r \in Reads /\ e[2] = NumPieces(r) /\ NumPieces(r) \in Nat /\ e \in Piece
    BY ReadPieceFacts, PieceOfRead DEF IsLast, Reads
  <1>2. At(e, 2, d, 1)
    BY DEF Taken
  <1>3. On(e, d)
    BY <1>2, 2 \in 1 .. 4, 1 \in Nat DEF PlaceInv
  <1>4. ASSUME NEW k \in 1 .. NumPieces(r)
        PROVE  Items(<<r, k>>, PieceSize(<<r, k>>)) \subseteq moved'
    <2>1. PICK o : o = <<r, k>>
      OBVIOUS
    <2>2. o \in ReadPiece /\ o \in Piece /\ o[1] = r /\ o[2] = k /\ k \in Nat
      BY <1>1, <2>1, PieceOfRead
    <2>3. On(o, d)
      BY <1>1, <1>3, <2>2 DEF PushInv
    <2>4. On(o, d)' /\ qpState'[d] = "RTS"
      BY <2>3 DEF HwComplete, queueVars, On
    <2>5. ASSUME NEW s \in 1 .. 4, NEW i \in Nat, At(o, s, d, i)
          PROVE  s > 2 \/ (s = 2 /\ i <= 1)
      <3>1. /\ k = e[2] => s = 2 /\ i = 1
            /\ k < e[2] => Ahead(s, i, 2, 1)
        BY <1>1, <1>2, <2>2, <2>5, 2 \in 1 .. 4, 1 \in Nat DEF PlaceInv
      <3>2. k = e[2] \/ k < e[2]
        BY <1>1, <2>2
      <3> QED
        BY <3>1, <3>2 DEF Ahead
    <2>6. Gone(o, d)'
      <3>1. ASSUME NEW i \in Nat, At(o, 1, d, i)'
            PROVE  FALSE
        <4>1. At(o, 1, d, i)
          BY <2>2, <3>1 DEF Taken
        <4> QED
          BY <2>5, <4>1, 1 \in 1 .. 4
      <3>2. ASSUME NEW i \in Nat, At(o, 2, d, i)'
            PROVE  FALSE
        <4>1. i >= 1 /\ At(o, 2, d, i + 1)
          BY <2>2, <3>2 DEF Taken
        <4>2. i + 1 <= 1
          BY <2>5, <4>1, 2 \in 1 .. 4, i + 1 \in Nat
        <4> QED
          BY <4>1, <4>2
      <3> QED
        BY <3>1, <3>2 DEF Gone
    <2> QED
      BY <2>1, <2>2, <2>4, <2>6 DEF GoneArrived
  <1>5. \A x \in 1 .. Size[r] : <<r, x>> \in moved'
    BY <1>4, SplitCovers
  <1> QED
    BY <1>1, <1>5 DEF Arrived

(* A SUCCESS on its way speaks for the whole request.                       *)
LEMMA AnnouncedStep ==
  ASSUME Inv, ThreadInv, InfoInv, PushInv, PlaceInv, GoneArrived', AnnouncedArrived, Reliable, [Next]_vars
  PROVE  AnnouncedArrived'
  <1>0. TypeOK /\ FlowControl
    BY DEF Inv
  <1>1. Still \/ Moving
    BY <1>0, StillOrMoving
  <1>2. \A r : Arrived(r) => Arrived(r)'
    BY <1>0, DeviceKeeps DEF Arrived
  <1>3. ASSUME UNCHANGED <<cq, wc>>
        PROVE  AnnouncedArrived'
    BY <1>2, <1>3 DEF AnnouncedArrived, Announces, IsLast
  <1>4. CASE Still
    BY <1>3, <1>4 DEF Still
  <1>5. ASSUME \/ \E t \in Client : SubmitPush(t)
               \/ \E q \in QPI : WqPost(q) \/ WqPop(q)
               \/ StopCqPost
        PROVE  UNCHANGED <<cq, wc>>
    BY <1>5 DEF SubmitPush, WqPost, WqPop, StopCqPost, cqVars, hwVars, cqeVars
  <1>6. CASE CqPoll
    <2>1. PICK n \in Nat :
            /\ \A i \in 1 .. Len(wc') : i \in 1 .. Len(cq) /\ wc'[i] = cq[i]
            /\ \A i \in 1 .. Len(cq') : i + n \in 1 .. Len(cq) /\ cq'[i] = cq[i + n]
      BY <1>0, <1>6, PollPlaces
    <2>2. ASSUME NEW c, NEW i \in 1 .. Len(cq), c = cq[i], Announces(c)
          PROVE  \A x \in 1 .. Size[c.info[1]] : <<c.info[1], x>> \in moved'
      BY <1>2, <2>2 DEF AnnouncedArrived, Arrived
    <2>3. \A i \in 1 .. Len(wc') : Announces(wc'[i]) =>
            \A x \in 1 .. Size[wc'[i].info[1]] : <<wc'[i].info[1], x>> \in moved'
      BY <2>1, <2>2
    <2>4. \A i \in 1 .. Len(cq') : Announces(cq'[i]) =>
            \A x \in 1 .. Size[cq'[i].info[1]] : <<cq'[i].info[1], x>> \in moved'
      BY <2>1, <2>2
    <2>5. (\A i \in 1 .. Len(wc) : Announces(wc[i]) => Arrived(wc[i].info[1]))'
      BY <2>3 DEF Announces, Arrived, IsLast
    <2>6. (\A i \in 1 .. Len(cq) : Announces(cq[i]) => Arrived(cq[i].info[1]))'
      BY <2>4 DEF Announces, Arrived, IsLast
    <2> QED
      BY <2>5, <2>6 DEF AnnouncedArrived
  <1>7. CASE CqSkip \/ CqRelease
    <2>1. /\ cq' = cq
          /\ \A i \in 1 .. Len(wc') : i + 1 \in 1 .. Len(wc) /\ wc'[i] = wc[i + 1]
      BY <1>0, <1>7, DropPlaces
    <2> QED
      BY <1>2, <2>1 DEF AnnouncedArrived, Announces, IsLast
  <1>8. ASSUME NEW d \in QPI, HwReceive(d)
        PROVE  AnnouncedArrived'
    <2>1. /\ Len(cq') = Len(cq) + 1 /\ cq'[Len(cq) + 1].info = NULL
          /\ \A i \in 1 .. Len(cq) : cq'[i] = cq[i]
      BY <1>0, <1>8, ReceivePlaces
    <2>2. wc' = wc /\ Len(cq) \in Nat
      BY <1>0, <1>8, Typed DEF HwReceive, cqVars
    <2>3. \A i \in 1 .. Len(cq') : i \in 1 .. Len(cq) \/ i = Len(cq) + 1
      BY <2>1, <2>2
    <2> QED
      BY <1>2, <2>1, <2>2, <2>3 DEF AnnouncedArrived, Announces, IsLast
  <1>9. ASSUME NEW d \in QPI, HwComplete(d) \/ HwFail(d) \/ HwFlush(d)
        PROVE  AnnouncedArrived'
    <2> DEFINE Got(r) == \A x \in 1 .. Size[r] : <<r, x>> \in moved'
    <2>0. \A r : Arrived(r) => Got(r)
      BY <1>2 DEF Arrived
    <2>1. PICK e \in Piece \union {NULL}, m \in Nat, st \in {"SUCCESS", "FAILED"} : Taken(d, e, m, st)
      BY <1>0, <1>9, TakePlaces
    <2>2. ASSUME NEW i \in 1 .. Len(cq'), i > Len(cq), Announces(cq'[i])
          PROVE  Got(cq'[i].info[1])
      <3>1. cq'[i].info = e /\ IsRead(e) /\ IsLast(e) /\ st = "SUCCESS" /\ HwComplete(d)
        BY <2>1, <2>2 DEF Taken, Announces
      <3>2. e \in ReadPiece
        BY <3>1 DEF IsRead, ReadPiece
      <3>3. Taken(d, e, m, "SUCCESS")
        BY <2>1, <3>1
      <3>4. Got(e[1])
        BY <3>1, <3>2, <3>3, LastCompletes DEF Arrived
      <3> QED
        BY <3>1, <3>4
    <2>3. ASSUME NEW i \in 1 .. Len(cq), Announces(cq[i])
          PROVE  Got(cq[i].info[1])
      BY <2>0, <2>3 DEF AnnouncedArrived
    <2>4. wc' = wc /\ \A i \in 1 .. Len(cq) : cq'[i] = cq[i]
      BY <2>1 DEF Taken
    <2>5. \A i \in 1 .. Len(cq') : i \in 1 .. Len(cq) \/ i > Len(cq)
      BY <1>0, <2>1, Typed DEF Taken
    <2>6. \A i \in 1 .. Len(cq') : Announces(cq'[i]) => Got(cq'[i].info[1])
      BY <2>2, <2>3, <2>4, <2>5
    <2>7. \A i \in 1 .. Len(wc') : Announces(wc'[i]) => Got(wc'[i].info[1])
      BY <2>0, <2>4 DEF AnnouncedArrived
    <2> QED
      BY <2>6, <2>7 DEF AnnouncedArrived, Announces, IsLast, Arrived
  <1> QED
    BY <1>1, <1>3, <1>4, <1>5, <1>6, <1>7, <1>8, <1>9 DEF Moving

(* So does one that was reported.                                           *)
LEMMA SuccessStep ==
  ASSUME Inv, InfoInv, AnnouncedArrived, SuccessMeansData, Reliable, ThreadInv, [Next]_vars
  PROVE  SuccessMeansData'
  <1>0. TypeOK
    BY DEF Inv
  <1>1. moved \subseteq moved'
    BY <1>0, DeviceKeeps
  <1>2. ASSUME code' = code
        PROVE  SuccessMeansData'
    BY <1>1, <1>2 DEF SuccessMeansData
  <1>3. CASE CqCall
    <2>1. PICK h : h = Head(wc).info
      OBVIOUS
    <2>2. wc # <<>> /\ h # NULL
      BY <1>0, <1>3, <2>1 DEF CqCall, TypeOK, CqTypeOK
    <2>3. wc[1] = Head(wc) /\ 1 \in 1 .. Len(wc)
      BY <1>0, <2>2, Typed
    <2>4. h \in ReadPiece
      BY <2>1, <2>2, <2>3 DEF InfoInv
    <2>5. record[h] = h
      BY <1>0, <2>4 DEF ReadPiece, TypeOK, RecordTypeOK, Reliable
    <2>6. IF IsLast(h) THEN code' = [code EXCEPT ![h[1]] = Head(wc).status] ELSE code' = code
      BY <1>3, <2>1, <2>5 DEF CqCall
    <2>7. IsLast(h) /\ Head(wc).status = "SUCCESS" => Arrived(h[1])
      BY <2>1, <2>2, <2>3 DEF AnnouncedArrived, Announces
    <2>8. ASSUME NEW r \in Request, code'[r] = "SUCCESS"
          PROVE  code[r] = "SUCCESS" \/ Arrived(r)
      BY <1>0, <2>6, <2>7, <2>8 DEF TypeOK, CqTypeOK
    <2> QED
      BY <1>1, <2>8 DEF SuccessMeansData, Arrived
  <1>4. Quiet \/ (\E t \in Client : SubmitPush(t)) \/ CqSkip \/ CqRelease => code' = code
    BY DEF Quiet, SubmitPush, cqVars, CqSkip, CqRelease
  <1> QED
    BY <1>2, <1>3, <1>4, QuietOrNot

-----------------------------------------------------------------------------
(* The invariant, and what it says.                                         *)
CallbackInv ==
  /\ Reliable /\ Inv
  /\ ThreadInv /\ OwnerInv /\ PushInv /\ InfoInv
  /\ PlaceInv /\ CallInv /\ HeldInv /\ DataInv

(* The invariant holds at first, is kept, and so always holds.              *)
LEMMA CallbackInvInit == Reliable /\ Init => CallbackInv
  <1> SUFFICES ASSUME Reliable, Init PROVE CallbackInv
    OBVIOUS
  <1>1. Inv
    BY InvInit
  <1>2. /\ \A p, q : q \in QPI => ~On(p, q)
        /\ \A p, s, i : \A q \in QPI : ~At(p, s, q, i)
        /\ cq = <<>> /\ wc = <<>> /\ cqPc = "none" /\ wq = [q \in QPI |-> "none"]
        /\ \A r \in Request : finished_[r] = 0 /\ code[r] = "none"
    BY DEF Init, On, At
  <1>3. ThreadInv /\ InfoInv /\ PushInv /\ PlaceInv
    BY <1>2, ReadPieceFacts DEF ThreadInv, InfoInv, PushInv, PlaceInv
  <1>4. OwnerInv
    BY <1>2 DEF Init, OwnerInv, Fresh, Submitting, Idle
  <1>5. CallInv /\ HeldInv
    BY <1>2 DEF CallInv, HeldInv, Reads
  <1>6. DataInv
    BY <1>2, ReadPieceFacts DEF DataInv, GoneArrived, AnnouncedArrived, SuccessMeansData
  <1> QED
    BY <1>1, <1>3, <1>4, <1>5, <1>6 DEF CallbackInv

LEMMA CallbackInvStep == CallbackInv /\ [Next]_vars => CallbackInv'
  <1> SUFFICES ASSUME CallbackInv, [Next]_vars PROVE CallbackInv'
    OBVIOUS
  <1>1. /\ Reliable /\ Inv /\ TypeOK /\ FlowControl
        /\ ThreadInv /\ OwnerInv /\ PushInv /\ InfoInv
        /\ PlaceInv /\ CallInv /\ HeldInv /\ GoneArrived /\ AnnouncedArrived /\ SuccessMeansData
    BY DEF CallbackInv, Inv, DataInv
  <1>2. Reliable' /\ Inv'
    BY <1>1, InvStep DEF Reliable
  <1>3. Still \/ Moving
    BY <1>1, StillOrMoving
  <1>4. ThreadInv' /\ OwnerInv' /\ PushInv'
    BY <1>1, ThreadStep, OwnerStep
  <1>5. InfoInv' /\ PlaceInv'
    BY <1>1, <1>3, InfoStep, PlaceStep
  <1>6. CallInv' /\ HeldInv'
    BY <1>1, CallStep, HeldStep
  <1>7. GoneArrived'
    BY <1>1, GoneArrivedStep
  <1>8. AnnouncedArrived' /\ SuccessMeansData'
    BY <1>1, <1>7, AnnouncedStep, SuccessStep
  <1> QED
    BY <1>2, <1>4, <1>5, <1>6, <1>7, <1>8 DEF CallbackInv, DataInv

LEMMA CallbackInvariance == Reliable /\ Spec => []CallbackInv
  BY CallbackInvInit, CallbackInvStep, PTL DEF Spec

(* The callback of every read runs once, when its last piece has come back, *)
(* and never before, in every interleaving of submit, dispatchers, device,  *)
(* completion thread and stop_future, and whatever work request fails.      *)
THEOREM CalledBackExactlyOnce == Reliable /\ Spec => []CallbackExactlyOnce
  <1>1. CallbackInv => CallbackExactlyOnce
    BY CallInvMeans DEF CallbackInv
  <1> QED
    BY <1>1, CallbackInvariance, PTL

(* The completion thread calls back through a record that still exists,     *)
(* unless the caller has dropped the handle: the handle, or the wait, of a  *)
(* caller keeps it alive until then.                                        *)
THEOREM RecordsLiveWhenCalled == Reliable /\ Spec => []RecordLiveWhenCalled
  <1>1. CallbackInv => RecordLiveWhenCalled
    BY LiveFromHeld DEF CallbackInv, Inv
  <1> QED
    BY <1>1, CallbackInvariance, PTL

(* A request that is told SUCCESS has all its data: the completion of its   *)
(* last piece comes after those of all others, on one queue pair, in order. *)
THEOREM SuccessIsComplete == Reliable /\ Spec => []SuccessMeansData
  <1>1. CallbackInv => SuccessMeansData
    BY DEF CallbackInv, DataInv
  <1> QED
    BY <1>1, CallbackInvariance, PTL

=============================================================================
