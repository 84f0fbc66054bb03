------------------------ MODULE RDMAContextQueueProofs ------------------------
(***************************************************************************)
(* The queues of RDMAContext: pieces pass a queue pair in the order in      *)
(* which they were pushed, and its send queue never holds more work         *)
(* requests than it was created for; for every set of callers and requests, *)
(* every number of queue pairs and every depth of the send queue.           *)
(***************************************************************************)
EXTENDS RDMAContextServiceProofs

-----------------------------------------------------------------------------
(* First in, first out.                                                     *)

(* o was pushed to q after p; and it is behind p as long as p is there.     *)
Later(p, o, q) ==
  \E j, k \in 1 .. Len(pushed[q]) : j < k /\ pushed[q][j] = p /\ pushed[q][k] = o

Followed(p, o, q) ==
  \A s \in 1 .. 4, i \in Nat :
    At(p, s, q, i) => \E t \in 1 .. 4, m \in Nat : At(o, t, q, m) /\ Ahead(s, i, t, m)

OrderInv == \A p, o \in ReadPiece, q \in QPI : Later(p, o, q) => Followed(p, o, q)

(* Where the pieces of a submit come to be in what was pushed.              *)
LEMMA PushedWhere ==
  ASSUME TypeOK, NEW u \in Client, SubmitPush(u)
  PROVE  LET r == client[u].req
             d == client[u].qpi
         IN \A p \in Piece, q \in QPI, j \in Nat :
              j \in 1 .. Len(pushed'[q]) /\ pushed'[q][j] = p <=>
                \/ j \in 1 .. Len(pushed[q]) /\ pushed[q][j] = p
                \/ p[1] = r /\ q = d /\ j = Len(pushed[d]) + p[2]
  <1>1. PICK r \in Request, d \in QPI : r = client[u].req /\ d = client[u].qpi
    BY DEF SubmitPush, TypeOK, ClientTypeOK
  <1>2. PICK b : b = Pieces(r)
    OBVIOUS
  <1>3. /\ NumPieces(r) \in Nat /\ b \in Seq(Piece) /\ Len(b) = NumPieces(r)
        /\ \A k \in 1 .. NumPieces(r) : b[k] = <<r, k>>
    BY <1>2, PieceOfRead, PiecesType DEF Pieces
  <1>4. pushed' = [pushed EXCEPT ![d] = @ \o b]
    BY <1>1, <1>2 DEF SubmitPush
  <1>5. pushed'[d] = pushed[d] \o b /\ \A q \in QPI : q # d => pushed'[q] = pushed[q]
    BY <1>4, Typed
  <1>6. PICK a \in Seq(Piece) : a = pushed[d]
    BY Typed
  <1>7. ASSUME NEW p \in Piece
        PROVE  \A k \in Nat : k \in 1 .. NumPieces(r) /\ b[k] = p <=> p[1] = r /\ k = p[2]
    <2>1. p[1] = r => p[2] \in 1 .. NumPieces(r) /\ p = <<r, p[2]>>
      BY DEF Piece
    <2>2. ASSUME NEW k \in Nat, k \in 1 .. NumPieces(r), b[k] = p
          PROVE  p[1] = r /\ k = p[2]
      <3>1. p = <<r, k>>
        BY <1>3, <2>2
      <3> QED
        BY <3>1
    <2>3. p[1] = r => b[p[2]] = p
      BY <1>3, <2>1
    <2> QED
      BY <2>1, <2>2, <2>3
  <1>8. ASSUME NEW p \in Piece, NEW j \in Nat
        PROVE  j \in 1 .. Len(pushed'[d]) /\ pushed'[d][j] = p <=>
                 \/ j \in 1 .. Len(pushed[d]) /\ pushed[d][j] = p
                 \/ p[1] = r /\ j = Len(pushed[d]) + p[2]
    <2>1. j \in 1 .. Len(a \o b) /\ (a \o b)[j] = p <=>
            \/ j \in 1 .. Len(a) /\ a[j] = p
            \/ \E k \in 1 .. Len(b) : j = Len(a) + k /\ b[k] = p
      BY <1>3, ConcatPlace
    <2>2. (\E k \in 1 .. Len(b) : j = Len(a) + k /\ b[k] = p) <=> p[1] = r /\ j = Len(a) + p[2]
      <3>1. \A k \in 1 .. Len(b) : b[k] = p => p[1] = r /\ k = p[2]
        BY <1>3, <1>7
      <3>2. p[1] = r => p[2] \in 1 .. Len(b) /\ b[p[2]] = p
        BY <1>3 DEF Piece
      <3> QED
        BY <3>1, <3>2
    <2> QED
      BY <1>5, <1>6, <2>1, <2>2
  <1>9. ASSUME NEW p \in Piece, NEW q \in QPI, NEW j \in Nat
        PROVE  j \in 1 .. Len(pushed'[q]) /\ pushed'[q][j] = p <=>
                 \/ j \in 1 .. Len(pushed[q]) /\ pushed[q][j] = p
                 \/ p[1] = r /\ q = d /\ j = Len(pushed[d]) + p[2]
    <2>1. CASE q = d
      BY <1>8, <2>1
    <2>2. CASE q # d
      BY <1>5, <2>2
    <2> QED
      BY <2>1, <2>2
  <1> QED
    BY <1>1, <1>9

(* Pieces go on from place to place without overtaking each other.          *)
LEMMA OrderStep ==
  ASSUME TypeOK, FlowControl, ThreadInv, OwnerInv, PlaceInv, OrderInv, Still \/ Moving
  PROVE  OrderInv'
  <1> USE DEF Ahead
  <1>0. ASSUME NEW p \in ReadPiece, NEW q \in QPI, NEW s \in 1 .. 4, NEW t \in 1 .. 4,
               NEW i \in Nat, NEW j \in Nat, At(p, s, q, i), At(p, t, q, j)
        PROVE  s = t /\ i = j
    BY <1>0 DEF PlaceInv
  <1>1. ASSUME \A q \in QPI : pushed'[q] = pushed[q],
               ASSUME NEW p \in ReadPiece, NEW o \in ReadPiece, NEW q \in QPI,
                      NEW s \in 1 .. 4, NEW i \in Nat, Followed(p, o, q), At(p, s, q, i)'
               PROVE  \E t \in 1 .. 4, m \in Nat : At(o, t, q, m)' /\ Ahead(s, i, t, m)
        PROVE  OrderInv'
    <2> SUFFICES ASSUME NEW p \in ReadPiece, NEW o \in ReadPiece, NEW q \in QPI, Later(p, o, q)'
                 PROVE  Followed(p, o, q)'
      BY DEF OrderInv
    <2>1. Later(p, o, q)
      BY <1>1 DEF Later
    <2>2. Followed(p, o, q)
      BY <2>1 DEF OrderInv
    <2> QED
      BY <1>1, <2>2 DEF Followed
  <1>2. ASSUME \A q \in QPI : pushed'[q] = pushed[q],
               \A p \in ReadPiece, s \in 1 .. 4, q \in QPI, i \in Nat : At(p, s, q, i)' <=> At(p, s, q, i)
        PROVE  OrderInv'
    <2>1. ASSUME NEW p \in ReadPiece, NEW o \in ReadPiece, NEW q \in QPI
          PROVE  Later(p, o, q)' <=> Later(p, o, q)
      BY <1>2 DEF Later
    <2>2. ASSUME NEW p \in ReadPiece, NEW o \in ReadPiece, NEW q \in QPI, Followed(p, o, q)
          PROVE  Followed(p, o, q)'
      BY <1>2, <2>2 DEF Followed
    <2> QED
      BY <2>1, <2>2 DEF OrderInv
  <1>3. (\A u \in Client : ~SubmitPush(u)) => \A q \in QPI : pushed'[q] = pushed[q]
    BY DEF Still, Moving, WqPost, WqPop, HwReceive, HwComplete, HwFail, HwFlush, CqPoll, CqSkip,
           CqRelease, StopCqPost, queueVars
  <1>4. ASSUME NEW u \in Client, SubmitPush(u)
        PROVE  OrderInv'
    <2>1. PICK r \in Request, d \in QPI :
            /\ r = client[u].req
            /\ \A p \in Piece, s \in 1 .. 4, q \in QPI, i \in Nat :
                 At(p, s, q, i)' <=>
                   \/ At(p, s, q, i)
                   \/ p[1] = r /\ s = 1 /\ q = d /\ i = Len(assign_queue_[d]) + p[2]
            /\ \A p \in Piece, q \in QPI, j \in Nat :
                 j \in 1 .. Len(pushed'[q]) /\ pushed'[q][j] = p <=>
                   \/ j \in 1 .. Len(pushed[q]) /\ pushed[q][j] = p
                   \/ p[1] = r /\ q = d /\ j = Len(pushed[d]) + p[2]
      BY <1>4, PushPlaces, PushedWhere
    <2>2. Fresh(r)
      BY <1>4, <2>1 DEF SubmitPush, Submitting, OwnerInv
    <2>3. /\ Len(assign_queue_[d]) \in Nat /\ Len(pushed[d]) \in Nat
          /\ \A p \in ReadPiece : p \in Piece /\ p[2] \in Nat /\ p[2] >= 1
      BY Typed, PieceOfRead, ReadPieceFacts DEF Reads
    <2> SUFFICES ASSUME NEW p \in ReadPiece, NEW o \in ReadPiece, NEW q \in QPI,
                        NEW s \in 1 .. 4, NEW i \in Nat, Later(p, o, q)', At(p, s, q, i)'
                 PROVE  \E t \in 1 .. 4, m \in Nat : At(o, t, q, m)' /\ Ahead(s, i, t, m)
      BY DEF OrderInv, Followed
    <2>4. PICK j \in 1 .. Len(pushed'[q]), k \in 1 .. Len(pushed'[q]) :
            j < k /\ pushed'[q][j] = p /\ pushed'[q][k] = o
      BY DEF Later
    <2>5. j \in Nat /\ k \in Nat
      OBVIOUS
    <2>6. ASSUME NEW x \in ReadPiece, NEW y \in 1 .. Len(pushed[q]), pushed[q][y] = x
          PROVE  x[1] # r
      BY <2>2, <2>3, <2>6 DEF Fresh, On
    <2>7. ASSUME NEW x \in ReadPiece, At(x, s, q, i) PROVE x[1] # r
      BY <2>2, <2>3, <2>7 DEF Fresh, PlaceInv
    <2>8. CASE o[1] = r
      <3>1. q = d /\ k = Len(pushed[d]) + o[2]
        BY <2>1, <2>3, <2>4, <2>5, <2>6, <2>8
      <3>2. PICK y \in Nat : y = Len(assign_queue_[d]) + o[2]
        BY <2>3
      <3>3. At(o, 1, d, y)'
        BY <2>1, <2>3, <2>8, <3>2
      <3>4. CASE p[1] = r
        <4>1. j = Len(pushed[d]) + p[2]
          BY <2>1, <2>3, <2>4, <2>5, <2>6, <3>1, <3>4
        <4>2. s = 1 /\ i = Len(assign_queue_[d]) + p[2]
          BY <2>1, <2>3, <2>7, <3>4
        <4>3. p[2] < o[2]
          BY <2>3, <2>4, <3>1, <4>1
        <4>4. Ahead(s, i, 1, y)
          BY <2>3, <3>2, <4>2, <4>3
        <4> QED
          BY <3>3, <3>1, <4>4
      <3>5. CASE p[1] # r
        <4>1. At(p, s, q, i)
          BY <2>1, <2>3, <3>5
        <4>2. s = 1 => i <= Len(assign_queue_[d])
          BY <3>1, <4>1 DEF At
        <4>3. Ahead(s, i, 1, y)
          BY <2>3, <3>2, <4>2
        <4> QED
          BY <3>3, <3>1, <4>3
      <3> QED
        BY <3>4, <3>5
    <2>9. CASE o[1] # r
      <3>1. k \in 1 .. Len(pushed[q]) /\ pushed[q][k] = o
        BY <2>1, <2>3, <2>4, <2>5, <2>9
      <3>2. p[1] # r \/ q # d
        <4> SUFFICES ASSUME p[1] = r, q = d PROVE FALSE
          OBVIOUS
        <4>1. j = Len(pushed[d]) + p[2]
          BY <2>1, <2>3, <2>4, <2>5, <2>6
        <4> QED
          BY <2>3, <2>4, <3>1, <4>1
      <3>3. j \in 1 .. Len(pushed[q]) /\ pushed[q][j] = p
        <4>1. p \in Piece
          BY <2>3
        <4>2. \/ j \in 1 .. Len(pushed[q]) /\ pushed[q][j] = p
              \/ p[1] = r /\ q = d /\ j = Len(pushed[d]) + p[2]
          BY <2>1, <2>4, <2>5, <4>1
        <4> QED
          BY <3>2, <4>2
      <3>4. Later(p, o, q)
        BY <2>4, <3>1, <3>3 DEF Later
      <3>5. Later(p, o, q) /\ At(p, s, q, i)
        BY <2>1, <2>3, <3>2, <3>4
      <3>6. PICK t \in 1 .. 4, m \in Nat : At(o, t, q, m) /\ Ahead(s, i, t, m)
        BY <3>5 DEF OrderInv, Followed
      <3> QED
        BY <2>1, <2>3, <3>6
    <2> QED
      BY <2>8, <2>9
  <1>5. ASSUME NEW d \in QPI, WqPost(d)
        PROVE  OrderInv'
    <2>1. PICK e : e = Head(assign_queue_[d])
      OBVIOUS
    <2>2. /\ \A p \in ReadPiece, i \in Nat : At(p, 1, d, i) /\ i = 1 <=> p = e /\ i = 1
          /\ \A p \in ReadPiece, s \in 1 .. 4, q \in QPI, i \in Nat :
               At(p, s, q, i)' <=>
                 \/ At(p, s, q, i) /\ ~(s = 1 /\ q = d /\ i = 1)
                 \/ p = e /\ s = 2 /\ q = d /\ i = Len(sq[d]) + 1
      BY <1>5, <2>1, PostPlaces
    <2>3. Len(sq[d]) \in Nat /\ \A q \in QPI : pushed'[q] = pushed[q]
      BY <1>5, Typed DEF WqPost
    <2>4. ASSUME NEW p \in ReadPiece, NEW o \in ReadPiece, NEW q \in QPI,
                 NEW s \in 1 .. 4, NEW i \in Nat, Followed(p, o, q), At(p, s, q, i)'
          PROVE  \E t \in 1 .. 4, m \in Nat : At(o, t, q, m)' /\ Ahead(s, i, t, m)
      <3>1. CASE At(p, s, q, i) /\ ~(s = 1 /\ q = d /\ i = 1)
        <4>1. PICK t \in 1 .. 4, m \in Nat : At(o, t, q, m) /\ Ahead(s, i, t, m)
          BY <2>4, <3>1 DEF Followed
        <4>2. i >= 1 /\ (s = 2 => i <= Len(sq[q]))
          BY <3>1, AtBounds
        <4>3. CASE t = 1 /\ q = d /\ m = 1
          <5>1. o = e /\ s > 1
            BY <2>2, <4>1, <4>2, <4>3
          <5>2. PICK y \in Nat : y = Len(sq[d]) + 1
            BY <2>3
          <5>3. At(o, 2, d, y)'
            BY <2>2, <5>1, <5>2
          <5>4. Ahead(s, i, 2, y)
            BY <2>3, <4>2, <4>3, <5>1, <5>2
          <5> QED
            BY <4>3, <5>3, <5>4
        <4>4. CASE ~(t = 1 /\ q = d /\ m = 1)
          BY <2>2, <4>1, <4>4
        <4> QED
          BY <4>3, <4>4
      <3>2. CASE p = e /\ s = 2 /\ q = d /\ i = Len(sq[d]) + 1
        <4>1. At(p, 1, d, 1)
          BY <2>2, <3>2
        <4>2. PICK t \in 1 .. 4, m \in Nat : At(o, t, q, m) /\ Ahead(1, 1, t, m)
          BY <2>4, <3>2, <4>1 DEF Followed
        <4>3. t = 1 /\ m > 1
          BY <4>2
        <4>4. At(o, t, q, m)' /\ Ahead(s, i, t, m)
          BY <2>2, <3>2, <4>2, <4>3
        <4> QED
          BY <4>4
      <3> QED
        BY <2>2, <2>4, <3>1, <3>2
    <2> QED
      BY <1>1, <2>3, <2>4
  <1>6. ASSUME NEW d \in QPI, WqPop(d)
        PROVE  OrderInv'
    <2>1. /\ \A p \in ReadPiece : ~At(p, 1, d, 1)
          /\ \A p \in ReadPiece, s \in 1 .. 4, q \in QPI, i \in Nat :
               At(p, s, q, i)' <=> IF s = 1 /\ q = d THEN At(p, 1, d, i + 1) ELSE At(p, s, q, i)
      BY <1>6, PopPlaces, ReadPieceFacts
    <2>2. \A q \in QPI : pushed'[q] = pushed[q]
      BY <1>6 DEF WqPop
    <2>3. ASSUME NEW p \in ReadPiece, NEW o \in ReadPiece, NEW q \in QPI,
                 NEW s \in 1 .. 4, NEW i \in Nat, Followed(p, o, q), At(p, s, q, i)'
          PROVE  \E t \in 1 .. 4, m \in Nat : At(o, t, q, m)' /\ Ahead(s, i, t, m)
      <3>1. PICK x \in Nat : x = (IF s = 1 /\ q = d THEN i + 1 ELSE i) /\ At(p, s, q, x)
        BY <2>1, <2>3
      <3>2. PICK t \in 1 .. 4, m \in Nat : At(o, t, q, m) /\ Ahead(s, x, t, m)
        BY <2>3, <3>1 DEF Followed
      <3>3. CASE t = 1 /\ q = d
        <4>1. m >= 1 /\ m # 1
          BY <2>1, <3>2, <3>3, AtBounds
        <4>2. m - 1 \in Nat /\ (m - 1) + 1 = m
          BY <4>1
        <4>3. At(o, t, q, m - 1)'
          BY <2>1, <3>2, <3>3, <4>2
        <4>4. Ahead(s, i, t, m - 1)
          BY <3>1, <3>2, <3>3, <4>1
        <4> QED
          BY <4>2, <4>3, <4>4
      <3>4. CASE ~(t = 1 /\ q = d)
        <4>1. At(o, t, q, m)'
          BY <2>1, <3>2, <3>4
        <4>2. Ahead(s, i, t, m)
          BY <3>1, <3>2, <3>4
        <4> QED
          BY <4>1, <4>2
      <3> QED
        BY <3>3, <3>4
    <2> QED
      BY <1>1, <2>2, <2>3
  <1>7. CASE CqPoll
    <2>1. PICK n \in Nat :
            /\ \A p \in Piece, q \in QPI, i \in Nat : ~At(p, 4, q, i)
            /\ \A p \in Piece, q \in QPI, i \in Nat :
                 /\ At(p, 4, q, i)' <=> i <= n /\ At(p, 3, q, i)
                 /\ At(p, 3, q, i)' <=> i >= 1 /\ At(p, 3, q, i + n)
            /\ \A p \in Piece, s \in {1, 2}, q \in QPI, i \in Nat : At(p, s, q, i)' <=> At(p, s, q, i)
      BY <1>7, PollPlaces
    <2>2. \A q \in QPI : pushed'[q] = pushed[q]
      BY <1>7 DEF CqPoll, queueVars
    <2>3. 1 .. 4 = {1, 2, 3, 4} /\ \A p \in ReadPiece : p \in Piece
      BY ReadPieceFacts
    <2>4. ASSUME NEW p \in ReadPiece, NEW o \in ReadPiece, NEW q \in QPI,
                 NEW s \in 1 .. 4, NEW i \in Nat, Followed(p, o, q), At(p, s, q, i)'
          PROVE  \E t \in 1 .. 4, m \in Nat : At(o, t, q, m)' /\ Ahead(s, i, t, m)
      <3>1. PICK x \in 1 .. 4, y \in Nat :
              /\ At(p, x, q, y)
              /\ \/ s = 4 /\ x = 3 /\ y = i /\ i <= n
                 \/ s = 3 /\ x = 3 /\ y = i + n /\ i >= 1
                 \/ s \in {1, 2} /\ x = s /\ y = i
        BY <2>1, <2>3, <2>4
      <3>2. PICK t \in 1 .. 4, m \in Nat : At(o, t, q, m) /\ Ahead(x, y, t, m)
        BY <2>4, <3>1 DEF Followed
      <3>3. t # 4
        BY <2>1, <2>3, <3>2
      <3>4. CASE t = 3 /\ m <= n
        <4>1. At(o, 4, q, m)'
          BY <2>1, <2>3, <3>2, <3>4
        <4>2. Ahead(s, i, 4, m)
          BY <3>1, <3>2, <3>4
        <4> QED
          BY <4>1, <4>2
      <3>5. CASE t = 3 /\ ~(m <= n)
        <4>1. m - n \in Nat /\ m - n >= 1 /\ (m - n) + n = m
          BY <3>5
        <4>2. At(o, 3, q, m - n)'
          BY <2>1, <2>3, <3>2, <3>5, <4>1
        <4>3. Ahead(s, i, 3, m - n)
          BY <3>1, <3>2, <3>5
        <4> QED
          BY <4>1, <4>2, <4>3
      <3>6. CASE t \in {1, 2}
        <4>1. At(o, t, q, m)'
          BY <2>1, <2>3, <3>2, <3>6
        <4>2. Ahead(s, i, t, m)
          BY <3>1, <3>2, <3>6
        <4> QED
          BY <4>1, <4>2
      <3> QED
        BY <2>3, <3>3, <3>4, <3>5, <3>6
    <2> QED
      BY <1>1, <2>2, <2>4
  <1>8. CASE CqSkip \/ CqRelease
    <2>1. /\ \A p \in ReadPiece, q \in QPI, i \in Nat : At(p, 4, q, i)' <=> i >= 1 /\ At(p, 4, q, i + 1)
          /\ \A p \in ReadPiece, s \in 1 .. 3, q \in QPI, i \in Nat : At(p, s, q, i)' <=> At(p, s, q, i)
      BY <1>8, DropPlaces, ReadPieceFacts
    <2>2. \A q \in QPI : pushed'[q] = pushed[q]
      BY <1>8 DEF CqSkip, CqRelease, queueVars
    <2>3. ASSUME NEW p \in ReadPiece, NEW o \in ReadPiece, NEW q \in QPI,
                 NEW s \in 1 .. 4, NEW i \in Nat, Followed(p, o, q), At(p, s, q, i)'
          PROVE  \E t \in 1 .. 4, m \in Nat : At(o, t, q, m)' /\ Ahead(s, i, t, m)
      <3>1. PICK x \in Nat : x = (IF s = 4 THEN i + 1 ELSE i) /\ At(p, s, q, x) /\ (s = 4 => i >= 1)
        BY <2>1, <2>3
      <3>2. PICK t \in 1 .. 4, m \in Nat : At(o, t, q, m) /\ Ahead(s, x, t, m)
        BY <2>3, <3>1 DEF Followed
      <3>3. CASE t = 4
        <4>1. s = 4 /\ m - 1 \in Nat /\ m - 1 >= 1 /\ (m - 1) + 1 = m
          BY <3>1, <3>2, <3>3
        <4>2. At(o, 4, q, m - 1)'
          BY <2>1, <3>2, <3>3, <4>1
        <4>3. Ahead(s, i, 4, m - 1)
          BY <3>1, <3>2, <3>3, <4>1
        <4> QED
          BY <4>1, <4>2, <4>3
      <3>4. CASE t # 4
        <4>1. At(o, t, q, m)'
          BY <2>1, <3>2, <3>4
        <4>2. Ahead(s, i, t, m)
          BY <3>1, <3>2, <3>4
        <4> QED
          BY <4>1, <4>2
      <3> QED
        BY <3>3, <3>4
    <2> QED
      BY <1>1, <2>2, <2>3
  <1>9. ASSUME NEW d \in QPI, HwComplete(d) \/ HwFail(d) \/ HwFlush(d)
        PROVE  OrderInv'
    <2>1. PICK e \in Piece \union {NULL}, c \in Nat, st \in {"SUCCESS", "FAILED"} : Taken(d, e, c, st)
      BY <1>9, TakePlaces
    <2>2. Len(cq) \in Nat /\ c >= 1 /\ \A q \in QPI : pushed'[q] = pushed[q]
      BY <1>9, <2>1, Typed DEF Taken, HwComplete, HwFail, HwFlush, queueVars
    <2>3. /\ \A p \in ReadPiece, i \in Nat : At(p, 2, d, i) /\ i = 1 <=> p = e /\ i = 1
          /\ \A p \in ReadPiece, q \in QPI, i \in Nat :
               /\ At(p, 2, q, i)' <=> IF q = d THEN i >= 1 /\ At(p, 2, d, i + 1) ELSE At(p, 2, q, i)
               /\ At(p, 3, q, i)' <=> At(p, 3, q, i) \/ (p = e /\ q = d /\ i = Len(cq) + c)
          /\ \A p \in ReadPiece, s \in {1, 4}, q \in QPI, i \in Nat : At(p, s, q, i)' <=> At(p, s, q, i)
      BY <2>1 DEF Taken
    <2>4. 1 .. 4 = {1, 2, 3, 4}
      OBVIOUS
    <2>5. ASSUME NEW p \in ReadPiece, NEW o \in ReadPiece, NEW q \in QPI,
                 NEW s \in 1 .. 4, NEW i \in Nat, Followed(p, o, q), At(p, s, q, i)'
          PROVE  \E t \in 1 .. 4, m \in Nat : At(o, t, q, m)' /\ Ahead(s, i, t, m)
      <3>1. PICK x \in 1 .. 4, y \in Nat :
              /\ At(p, x, q, y)
              /\ \/ s = 3 /\ q = d /\ i = Len(cq) + c /\ x = 2 /\ y = 1
                 \/ s = 2 /\ q = d /\ x = 2 /\ y = i + 1 /\ i >= 1
                 \/ s = 2 /\ q # d /\ x = 2 /\ y = i
                 \/ s = 3 /\ x = 3 /\ y = i
                 \/ s \in {1, 4} /\ x = s /\ y = i
        BY <2>3, <2>4, <2>5
      <3>2. PICK t \in 1 .. 4, m \in Nat : At(o, t, q, m) /\ Ahead(x, y, t, m)
        BY <2>5, <3>1 DEF Followed
      <3>3. y >= 1 /\ m >= 1 /\ (x = 3 => y <= Len(cq)) /\ (t = 3 => m <= Len(cq))
        BY <3>1, <3>2, AtBounds
      <3>4. CASE t = 2 /\ q = d /\ m = 1
        <4>1. o = e
          BY <2>3, <3>2, <3>4
        <4>2. PICK z \in Nat : z = Len(cq) + c
          BY <2>2
        <4>3. At(o, 3, q, z)'
          BY <2>3, <3>4, <4>1, <4>2
        <4>4. Ahead(s, i, 3, z)
          BY <2>2, <3>1, <3>2, <3>3, <3>4, <4>2
        <4> QED
          BY <4>3, <4>4
      <3>5. CASE t = 2 /\ q = d /\ m # 1
        <4>1. m - 1 \in Nat /\ m - 1 >= 1 /\ (m - 1) + 1 = m
          BY <3>3, <3>5
        <4>2. At(o, 2, q, m - 1)'
          BY <2>3, <3>2, <3>5, <4>1
        <4>3. Ahead(s, i, 2, m - 1)
          BY <3>1, <3>2, <3>3, <3>5
        <4> QED
          BY <4>1, <4>2, <4>3
      <3>6. CASE ~(t = 2 /\ q = d)
        <4>1. At(o, t, q, m)'
          BY <2>3, <2>4, <3>2, <3>6
        <4>2. Ahead(s, i, t, m)
          BY <2>2, <3>1, <3>2, <3>3, <3>6
        <4> QED
          BY <4>1, <4>2
      <3> QED
        BY <3>4, <3>5, <3>6
    <2> QED
      BY <1>1, <2>2, <2>5
  <1>10. CASE Still
    BY <1>2, <1>10, SamePlaces DEF Still
  <1>11. ASSUME NEW d \in QPI, HwReceive(d)
         PROVE  OrderInv'
    <2>1. \A q \in QPI : pushed'[q] = pushed[q]
      BY <1>11 DEF HwReceive, queueVars
    <2> QED
      BY <1>2, <1>11, <2>1, ReceivePlaces
  <1>12. CASE StopCqPost
    <2>1. \A q \in QPI : pushed'[q] = pushed[q]
      BY <1>12 DEF StopCqPost, queueVars
    <2> QED
      BY <1>2, <1>12, <2>1, StopPostPlaces
  <1> QED
    BY <1>4, <1>5, <1>6, <1>7, <1>8, <1>9, <1>10, <1>11, <1>12 DEF Moving

(* Nothing has been pushed at first.                                        *)
LEMMA OrderInit == Init => OrderInv
  BY DEF Init, OrderInv, Later

LEMMA OrderInvariance == Reliable /\ Spec => []OrderInv
  <1>1. CallbackInv /\ OrderInv /\ [Next]_vars => OrderInv'
    <2> SUFFICES ASSUME CallbackInv, OrderInv, [Next]_vars PROVE OrderInv'
      OBVIOUS
    <2>1. Reliable /\ TypeOK /\ FlowControl /\ ThreadInv /\ OwnerInv /\ PlaceInv
      BY DEF CallbackInv, Inv
    <2> QED
      BY <2>1, StillOrMoving, OrderStep
  <1> QED
    BY <1>1, OrderInit, CallbackInvariance, PTL DEF Spec

(* The places of FifoPipeline are those of At, which counts a posted piece  *)
(* until it is popped.                                                      *)
Shift(q) == IF wq[q] = "pop" THEN 1 ELSE 0

LEMMA PlacesAre ==
  ASSUME Inv, NEW p \in ReadPiece, NEW q \in QPI
  PROVE  \A a : a \in Places(p, q) <=>
                \E s \in 1 .. 4, i \in Nat :
                  At(p, s, q, i) /\ a = <<s, IF s = 1 THEN i - Shift(q) ELSE i>>
  <1>0. TypeOK /\ FlowControl
    BY DEF Inv
  <1>1. /\ assign_queue_[q] \in Seq(Piece) /\ Len(assign_queue_[q]) \in Nat
        /\ DOMAIN sq[q] = 1 .. Len(sq[q]) /\ DOMAIN cq = 1 .. Len(cq) /\ DOMAIN wc = 1 .. Len(wc)
    BY <1>0, Typed
  <1>2. \A x : x \in DOMAIN Queued(q) /\ Queued(q)[x] = p <=>
               \E i \in Nat : At(p, 1, q, i) /\ x = i - Shift(q)
    <2>1. CASE wq[q] # "pop"
      <3>1. \A x : x \in DOMAIN Queued(q) /\ Queued(q)[x] = p <=>
                    \E i \in Nat : At(p, 1, q, i) /\ x = i - 0
        BY <1>1, <2>1 DEF Queued, At
      <3> QED
        BY <2>1, <3>1 DEF Shift
    <2>2. CASE wq[q] = "pop"
      <3>1. assign_queue_[q] # <<>>
        BY <1>0, <2>2 DEF FlowControl
      <3>2. /\ DOMAIN Queued(q) = 1 .. Len(assign_queue_[q]) - 1
            /\ \A x \in 1 .. Len(assign_queue_[q]) - 1 : Queued(q)[x] = assign_queue_[q][x + 1]
        BY <1>1, <2>2, <3>1 DEF Queued
      <3>3. ASSUME NEW i \in Nat, At(p, 1, q, i)
            PROVE  i - 1 \in DOMAIN Queued(q) /\ Queued(q)[i - 1] = p
        <4>1. i \in 1 .. Len(assign_queue_[q]) /\ assign_queue_[q][i] = p /\ i # 1
          BY <2>2, <3>3 DEF At
        <4>2. i - 1 \in 1 .. Len(assign_queue_[q]) - 1 /\ (i - 1) + 1 = i
          BY <1>1, <4>1
        <4> QED
          BY <3>2, <4>1, <4>2
      <3>4. ASSUME NEW x \in DOMAIN Queued(q), Queued(q)[x] = p
            PROVE  \E i \in Nat : At(p, 1, q, i) /\ x = i - 1
        <4>1. x + 1 \in 1 .. Len(assign_queue_[q]) /\ x + 1 # 1 /\ x + 1 \in Nat /\ x = (x + 1) - 1
          BY <1>1, <3>2
        <4>2. At(p, 1, q, x + 1)
          BY <3>2, <3>4, <4>1 DEF At
        <4> QED
          BY <4>1, <4>2
      <3>5. \A x : x \in DOMAIN Queued(q) /\ Queued(q)[x] = p <=>
                    \E i \in Nat : At(p, 1, q, i) /\ x = i - 1
        BY <3>3, <3>4
      <3> QED
        BY <2>2, <3>5 DEF Shift
    <2> QED
      BY <2>1, <2>2
  <1>3. PICK shift : shift = Shift(q)
    OBVIOUS
  <1>4. \A x : x \in {i \in DOMAIN sq[q] : sq[q][i] = p} <=> x \in Nat /\ At(p, 2, q, x)
    BY <1>1 DEF At
  <1>5. \A x : x \in {i \in DOMAIN cq : cq[i].info = p /\ cq[i].qpi = q} <=> x \in Nat /\ At(p, 3, q, x)
    BY <1>1 DEF At
  <1>6. \A x : x \in {i \in DOMAIN wc : wc[i].info = p /\ wc[i].qpi = q} <=> x \in Nat /\ At(p, 4, q, x)
    BY <1>1 DEF At
  <1>7. ASSUME NEW a
        PROVE  a \in Places(p, q) <=>
                 \/ \E i \in Nat : At(p, 1, q, i) /\ a = <<1, i - shift>>
                 \/ \E i \in Nat : At(p, 2, q, i) /\ a = <<2, i>>
                 \/ \E i \in Nat : At(p, 3, q, i) /\ a = <<3, i>>
                 \/ \E i \in Nat : At(p, 4, q, i) /\ a = <<4, i>>
    <2>1. a \in Places(p, q) <=>
            \/ \E x \in DOMAIN Queued(q) : Queued(q)[x] = p /\ a = <<1, x>>
            \/ \E x \in {i \in DOMAIN sq[q] : sq[q][i] = p} : a = <<2, x>>
            \/ \E x \in {i \in DOMAIN cq : cq[i].info = p /\ cq[i].qpi = q} : a = <<3, x>>
            \/ \E x \in {i \in DOMAIN wc : wc[i].info = p /\ wc[i].qpi = q} : a = <<4, x>>
      BY DEF Places
    <2> QED
      BY <1>2, <1>3, <1>4, <1>5, <1>6, <2>1
  <1>8. 1 .. 4 = {1, 2, 3, 4}
    OBVIOUS
  <1>9. ASSUME NEW a
        PROVE  a \in Places(p, q) <=>
                 \E s \in 1 .. 4, i \in Nat :
                   At(p, s, q, i) /\ a = <<s, IF s = 1 THEN i - shift ELSE i>>
    BY <1>7, <1>8
  <1> QED
    BY <1>3, <1>9

(* Pieces leave a queue pair in the order in which submit pushed them, none *)
(* twice and none before its turn: through the queue of the dispatcher, the *)
(* send queue, the completion queue and the array of the completion thread, *)
(* in every interleaving and whatever work request fails.                   *)
THEOREM PipelineIsFifo == Reliable /\ Spec => []FifoPipeline
  <1>1. CallbackInv /\ OrderInv => FifoPipeline
    <2> SUFFICES ASSUME CallbackInv, OrderInv, NEW q \in QPI
                 PROVE  /\ \A p \in Piece : IsRead(p) /\ Places(p, q) # {} =>
                             /\ \E k \in DOMAIN pushed[q] : pushed[q][k] = p
                             /\ \E a \in Places(p, q) : Places(p, q) = {a}
                        /\ \A j, k \in DOMAIN pushed[q] :
                             j < k /\ IsRead(pushed[q][j]) /\ IsRead(pushed[q][k]) =>
                               \A a \in Places(pushed[q][j], q) :
                                 \E b \in Places(pushed[q][k], q) : Precedes(a, b)
      BY DEF FifoPipeline
    <2>1. Inv /\ TypeOK /\ PlaceInv
      BY DEF CallbackInv, Inv
    <2>2. pushed[q] \in Seq(Piece) /\ DOMAIN pushed[q] = 1 .. Len(pushed[q])
      BY <2>1, Typed
    <2>3. \A p \in Piece : IsRead(p) <=> p \in ReadPiece
      BY NullAssumption DEF IsRead, ReadPiece
    <2>4. PICK shift \in {0, 1} :
            \A p \in ReadPiece : \A a : a \in Places(p, q) <=>
               \E s \in 1 .. 4, i \in Nat :
                 At(p, s, q, i) /\ a = <<s, IF s = 1 THEN i - shift ELSE i>>
      <3>1. Shift(q) \in {0, 1}
        BY DEF Shift
      <3> QED
        BY <2>1, <3>1, PlacesAre
    <2>5. ASSUME NEW p \in ReadPiece, Places(p, q) # {}
          PROVE  /\ \E k \in DOMAIN pushed[q] : pushed[q][k] = p
                 /\ \E a \in Places(p, q) : Places(p, q) = {a}
      <3>1. PICK a : a \in Places(p, q)
        BY <2>5
      <3>2. PICK s \in 1 .. 4, i \in Nat :
              At(p, s, q, i) /\ a = <<s, IF s = 1 THEN i - shift ELSE i>>
        BY <2>4, <3>1
      <3>3. On(p, q)
        BY <2>1, <3>2 DEF PlaceInv
      <3>4. ASSUME NEW b \in Places(p, q) PROVE b = a
        <4>1. PICK t \in 1 .. 4, j \in Nat :
                At(p, t, q, j) /\ b = <<t, IF t = 1 THEN j - shift ELSE j>>
          BY <2>4
        <4>2. s = t /\ i = j
          BY <2>1, <3>2, <4>1 DEF PlaceInv
        <4> QED
          BY <3>2, <4>1, <4>2
      <3> QED
        BY <2>2, <3>1, <3>3, <3>4 DEF On
    <2>6. ASSUME NEW j \in 1 .. Len(pushed[q]), NEW k \in 1 .. Len(pushed[q]), j < k,
                 NEW p \in ReadPiece, NEW o \in ReadPiece, p = pushed[q][j], o = pushed[q][k],
                 NEW a \in Places(p, q)
          PROVE  \E b \in Places(o, q) : Precedes(a, b)
      <3>1. PICK s \in 1 .. 4, i \in Nat :
              At(p, s, q, i) /\ a = <<s, IF s = 1 THEN i - shift ELSE i>>
        BY <2>4
      <3>2. Later(p, o, q)
        BY <2>6 DEF Later
      <3>3. PICK t \in 1 .. 4, m \in Nat : At(o, t, q, m) /\ Ahead(s, i, t, m)
        BY <3>1, <3>2 DEF OrderInv, Followed
      <3>4. PICK b : b = <<t, IF t = 1 THEN m - shift ELSE m>>
        OBVIOUS
      <3>5. b \in Places(o, q)
        BY <2>4, <3>3, <3>4
      <3>6. Precedes(a, b)
        BY <3>1, <3>3, <3>4 DEF Precedes, Ahead
      <3> QED
        BY <3>5, <3>6
    <2>7. ASSUME NEW j \in DOMAIN pushed[q], NEW k \in DOMAIN pushed[q], j < k,
                 IsRead(pushed[q][j]), IsRead(pushed[q][k])
          PROVE  \A a \in Places(pushed[q][j], q) :
                   \E b \in Places(pushed[q][k], q) : Precedes(a, b)
      <3>1. pushed[q][j] \in ReadPiece /\ pushed[q][k] \in ReadPiece
        BY <2>2, <2>3, <2>7
      <3> QED
        BY <2>2, <2>6, <2>7, <3>1
    <2> QED
      BY <2>3, <2>5, <2>7
  <1> QED
    BY <1>1, CallbackInvariance, OrderInvariance, PTL

-----------------------------------------------------------------------------
(* The room in a send queue.                                                *)

(* Work requests that carry no wr_id of a read.  An entry of the completion *)
(* queue without one belongs to the failed read that is reported behind it, *)
(* or to a send, a receive or the fake work request of stop_future.         *)
Carries(j, k) ==
  /\ cq[j].info # NULL /\ cq[j].qpi = cq[k].qpi
  /\ j # k => k < j /\ cq[j].status = "FAILED" /\ j - k < PieceSize(cq[j].info)

Owned(k) == \E j \in 1 .. Len(cq) : Carries(j, k)

Anon(q) == {k \in 1 .. Len(cq) : cq[k].qpi = q /\ ~Owned(k)}

Plain(q) == {k \in 1 .. Len(sq[q]) : ~IsRead(sq[q][k])}

(* The sends and receives that have been posted, and the fake work request. *)
PostEdge(q) == Len(pushed[q]) - Len(assign_queue_[q]) + IF wq[q] = "pop" THEN 1 ELSE 0

Posts(q) == {k \in 1 .. PostEdge(q) : ~IsRead(pushed[q][k])}

Fake(q) == IF q = 0 /\ stopper.pc \in {"cq_join", "done"} THEN 1 ELSE 0

(* Each of them is in one place, or gone.                                   *)
Ledger(q) == Cardinality(Plain(q)) + rq[q] + Cardinality(Anon(q)) <= Cardinality(Posts(q)) + Fake(q)

LedgerInv == \A q \in QPI : Ledger(q)

(* A set of indices is finite, and has no more members than one it can be   *)
(* shifted into.                                                            *)
LEMMA IndexSet ==
  ASSUME NEW S, NEW n \in Nat, S \subseteq 1 .. n
  PROVE  IsFiniteSet(S) /\ Cardinality(S) \in Nat
  <1>1. IsFiniteSet(1 .. n)
    BY FS_Interval
  <1> QED
    BY <1>1, FS_Subset, FS_CardinalityType

LEMMA Shifted ==
  ASSUME NEW S, NEW T, NEW n \in Nat, NEW m \in Nat, NEW k \in Nat,
         S \subseteq 1 .. m, T \subseteq 1 .. n, \A i \in S : i + k \in T
  PROVE  /\ Cardinality(S) \in Nat /\ Cardinality(T) \in Nat
         /\ Cardinality(S) <= Cardinality(T)
  <1>1. IsFiniteSet(T) /\ Cardinality(S) \in Nat /\ Cardinality(T) \in Nat
    BY IndexSet
  <1>2. PICK f : f = [i \in S |-> i + k]
    OBVIOUS
  <1>3. f \in [S -> T]
    BY <1>2
  <1>4. ASSUME NEW i \in S, NEW j \in S, f[i] = f[j]
        PROVE  i = j
    <2>1. i \in Nat /\ j \in Nat /\ i + k = j + k
      BY <1>2, <1>4
    <2> QED
      BY <2>1
  <1>5. f \in Injection(S, T)
    BY <1>3, <1>4, Fun_IsInj
  <1> QED
    BY <1>1, <1>5, FS_Injection

(* One index more.                                                          *)
LEMMA OneMore ==
  ASSUME NEW S, NEW T, NEW n \in Nat, NEW x, S \subseteq 1 .. n, T \subseteq S \union {x}
  PROVE  /\ Cardinality(S) \in Nat /\ Cardinality(T) \in Nat
         /\ Cardinality(T) <= Cardinality(S) + 1
  <1>1. IsFiniteSet(S) /\ Cardinality(S) \in Nat
    BY IndexSet
  <1>2. PICK U : U = S \union {x}
    OBVIOUS
  <1>3. /\ IsFiniteSet(U)
        /\ Cardinality(U) = IF x \in S THEN Cardinality(S) ELSE Cardinality(S) + 1
    BY <1>1, <1>2, FS_AddElement
  <1>4. IsFiniteSet(T) /\ Cardinality(T) <= Cardinality(U)
    BY <1>2, <1>3, FS_Subset
  <1>5. Cardinality(T) \in Nat /\ Cardinality(U) \in Nat
    BY <1>3, <1>4, FS_CardinalityType
  <1> QED
    BY <1>1, <1>3, <1>4, <1>5

LEMMA LedgerSizes ==
  ASSUME Inv, QueueInv, NEW q \in QPI
  PROVE  /\ Len(sq[q]) \in Nat /\ Plain(q) \subseteq 1 .. Len(sq[q])
         /\ Len(cq) \in Nat /\ Anon(q) \subseteq 1 .. Len(cq)
         /\ PostEdge(q) \in Nat /\ PostEdge(q) <= Len(pushed[q])
         /\ PostEdge(q) <= Edge(q) /\ Posts(q) \subseteq 1 .. PostEdge(q)
         /\ rq[q] \in Nat /\ Fake(q) \in {0, 1}
  <1>0. TypeOK /\ FlowControl
    BY DEF Inv
  <1>1. Len(sq[q]) \in Nat /\ Len(cq) \in Nat
    BY <1>0, Typed
  <1>2. rq[q] \in Nat
    BY <1>0 DEF TypeOK, DeviceTypeOK
  <1>3. PICK x, y, u, v : /\ x = Len(pushed[q]) /\ y = Len(assign_queue_[q])
                          /\ u = IF wq[q] = "pop" THEN 1 ELSE 0
                          /\ v = IF wq[q] \in {"post", "pop"} THEN 1 ELSE 0
    OBVIOUS
  <1>4. x \in Nat /\ y \in Nat /\ y <= x
    BY <1>3, EdgeBounds
  <1>5. u = 1 => y >= 1
    BY <1>0, <1>3, <1>4, Typed DEF FlowControl
  <1>6. PostEdge(q) = x - y + u /\ Edge(q) = x - y + v
    BY <1>3 DEF PostEdge, Edge
  <1>7. (u = 0 \/ u = 1) /\ (v = 0 \/ v = 1) /\ (u = 1 => v = 1)
    BY <1>3
  <1>8. PostEdge(q) \in Nat /\ PostEdge(q) <= x /\ PostEdge(q) <= Edge(q)
    BY <1>4, <1>5, <1>6, <1>7
  <1> QED
    BY <1>1, <1>2, <1>3, <1>8 DEF Plain, Anon, Posts, Fake

(* Only WqPost counts a piece as posted, the front one.                     *)
LEMMA PostsStep ==
  ASSUME Inv, QueueInv, OwnerInv, Still \/ Moving, NEW q \in QPI
  PROVE  /\ ~WqPost(q) => Posts(q)' = Posts(q)
         /\ WqPost(q) => Posts(q)' = Posts(q) \union
                                       IF IsRead(Head(assign_queue_[q])) THEN {} ELSE {PostEdge(q) + 1}
  <1>0. TypeOK /\ FlowControl
    BY DEF Inv
  <1>1. /\ PostEdge(q) \in Nat /\ PostEdge(q) <= Len(pushed[q])
        /\ Len(pushed[q]) \in Nat /\ Len(assign_queue_[q]) \in Nat
    BY LedgerSizes, EdgeBounds
  <1>2. ASSUME PostEdge(q)' = PostEdge(q), \A k \in 1 .. PostEdge(q) : pushed'[q][k] = pushed[q][k]
        PROVE  Posts(q)' = Posts(q)
    BY <1>2 DEF Posts, IsRead
  <1>3. ASSUME pushed'[q] = pushed[q], assign_queue_'[q] = assign_queue_[q],
               wq'[q] = "pop" <=> wq[q] = "pop"
        PROVE  Posts(q)' = Posts(q)
    <2>1. PostEdge(q)' = PostEdge(q)
      BY <1>3 DEF PostEdge
    <2> QED
      BY <1>2, <1>3, <2>1
  <1>4. ASSUME WqPost(q)
        PROVE  Posts(q)' = Posts(q) \union
                             IF IsRead(Head(assign_queue_[q])) THEN {} ELSE {PostEdge(q) + 1}
    <2>1. /\ pushed' = pushed /\ assign_queue_' = assign_queue_ /\ wq[q] = "post" /\ wq'[q] = "pop"
          /\ assign_queue_[q] # <<>> /\ assign_queue_[q] \in Seq(Piece)
      BY <1>0, <1>4, Typed DEF WqPost, WqGoto, FlowControl
    <2>2. Head(assign_queue_[q]) = assign_queue_[q][1] /\ 1 \in 1 .. Len(assign_queue_[q])
      BY <2>1
    <2>3. PostEdge(q) = Len(pushed[q]) - Len(assign_queue_[q]) /\ PostEdge(q)' = PostEdge(q) + 1
      BY <1>1, <2>1 DEF PostEdge
    <2>4. Head(assign_queue_[q]) = pushed[q][PostEdge(q) + 1]
      BY <2>2, <2>3, QueueFacts
    <2>5. \A k : k \in 1 .. PostEdge(q) + 1 <=> k \in 1 .. PostEdge(q) \/ k = PostEdge(q) + 1
      BY <1>1
    <2>6. PICK n : n = PostEdge(q)
      OBVIOUS
    <2>7. Posts(q)' = {k \in 1 .. n + 1 : ~IsRead(pushed[q][k])}
      BY <2>1, <2>3, <2>6 DEF Posts, IsRead
    <2>8. Posts(q) = {k \in 1 .. n : ~IsRead(pushed[q][k])}
      BY <2>6 DEF Posts
    <2> QED
      BY <2>4, <2>5, <2>6, <2>7, <2>8
  <1>5. ASSUME NEW d \in QPI, WqPost(d), d # q
        PROVE  Posts(q)' = Posts(q)
    BY <1>0, <1>3, <1>5, Typed DEF WqPost, WqGoto
  <1>6. ASSUME NEW d \in QPI, WqPop(d)
        PROVE  Posts(q)' = Posts(q)
    <2>1. CASE d = q
      <3>1. /\ pushed' = pushed /\ wq[q] = "pop" /\ wq'[q] = "drain"
            /\ Len(assign_queue_'[q]) = Len(assign_queue_[q]) - 1
        BY <1>6, <2>1, ChargeQueues
      <3>2. PostEdge(q)' = PostEdge(q)
        BY <1>1, <3>1 DEF PostEdge
      <3> QED
        BY <1>2, <3>1, <3>2
    <2>2. CASE d # q
      BY <1>3, <1>6, <2>2, ChargeQueues
    <2> QED
      BY <2>1, <2>2
  <1>7. ASSUME NEW t \in Client, SubmitPush(t)
        PROVE  Posts(q)' = Posts(q)
    <2>1. PICK r \in Request, d \in QPI :
             /\ Pieces(r) \in Seq(Piece)
             /\ assign_queue_' = [assign_queue_ EXCEPT ![d] = @ \o Pieces(r)]
             /\ pushed' = [pushed EXCEPT ![d] = @ \o Pieces(r)]
      BY <1>0, <1>7, PushQueues
    <2>2. wq'[q] = "pop" <=> wq[q] = "pop"
      BY <1>0, <1>7, Typed DEF SubmitPush, Notified
    <2>3. CASE q # d
      BY <1>0, <1>3, <2>1, <2>2, <2>3, Typed
    <2>4. CASE q = d
      <3>1. PICK a, b, c \in Seq(Piece) : a = assign_queue_[q] /\ b = pushed[q] /\ c = Pieces(r)
        BY <1>0, <2>1, Typed
      <3>2. assign_queue_'[q] = a \o c /\ pushed'[q] = b \o c
        BY <1>0, <2>1, <2>4, <3>1, Typed
      <3>3. /\ Len(a \o c) = Len(a) + Len(c) /\ Len(b \o c) = Len(b) + Len(c)
            /\ Len(a) \in Nat /\ Len(b) \in Nat /\ Len(c) \in Nat
            /\ \A k \in 1 .. Len(b) + Len(c) : (b \o c)[k] = IF k <= Len(b) THEN b[k] ELSE c[k - Len(b)]
        BY ConcatProperties
      <3>4. PICK u \in {0, 1} : u = IF wq[q] = "pop" THEN 1 ELSE 0
        OBVIOUS
      <3>5. PostEdge(q)' = Len(b \o c) - Len(a \o c) + u /\ PostEdge(q) = Len(b) - Len(a) + u
        BY <2>2, <3>1, <3>2, <3>4 DEF PostEdge
      <3>6. PostEdge(q)' = PostEdge(q)
        BY <3>3, <3>5
      <3>7. \A k \in 1 .. PostEdge(q) : k \in 1 .. Len(b) + Len(c) /\ k <= Len(b)
        BY <1>1, <3>1, <3>3
      <3>8. \A k \in 1 .. PostEdge(q) : pushed'[q][k] = pushed[q][k]
        BY <3>1, <3>2, <3>3, <3>7
      <3> QED
        BY <1>2, <3>6, <3>8
    <2> QED
      BY <2>3, <2>4
  <1>8. Still => Posts(q)' = Posts(q)
    BY <1>3 DEF Still
  <1>9. ASSUME NEW d \in QPI, HwReceive(d) \/ HwComplete(d) \/ HwFail(d) \/ HwFlush(d)
        PROVE  Posts(q)' = Posts(q)
    BY <1>3, <1>9 DEF HwReceive, HwComplete, HwFail, HwFlush, queueVars
  <1>10. CqPoll \/ CqSkip \/ CqRelease \/ StopCqPost => Posts(q)' = Posts(q)
    BY <1>3 DEF CqPoll, CqSkip, CqRelease, StopCqPost, queueVars
  <1>11. WqPost(q) => ~Still
    BY <1>0, Typed DEF WqPost, WqGoto, Still
  <1>12. \/ WqPost(q)
         \/ Posts(q)' = Posts(q)
    BY <1>5, <1>6, <1>7, <1>8, <1>9, <1>10 DEF Moving
  <1> QED
    BY <1>4, <1>12

(* What a step does to the posted receives and to the fake work request.    *)
LEMMA ReceiveStep ==
  ASSUME TypeOK, [Next]_vars, NEW q \in QPI
  PROVE  /\ rq'[q] = IF WqPost(q) /\ Op[Head(assign_queue_[q])[1]] = "RECV" THEN rq[q] + 1
                     ELSE IF HwReceive(q) THEN rq[q] - 1 ELSE rq[q]
         /\ HwReceive(q) => rq[q] > 0
         /\ Fake(q)' = 1 \/ Fake(q)' = Fake(q)
         /\ StopCqPost /\ q = 0 => Fake(q)' = 1 /\ Fake(q) = 0
  <1>1. rq \in [QPI -> Nat]
    BY DEF TypeOK, DeviceTypeOK
  <1>2. ASSUME ~WqPost(q), ~HwReceive(q)
        PROVE  rq'[q] = rq[q]
    <2>1. \A t \in Client, r \in Request : SubmitSelect(t, r) \/ ClientStep(t) => rq' = rq
      BY DEF SubmitSelect, ClientStep, SubmitStore, SubmitPush, WaitReturn, hwVars
    <2>2. \A d \in QPI : WqStep(d) \/ WqSpurious(d) => WqPost(d) \/ rq' = rq
      BY DEF WqStep, WqSpurious, WqTop, WqPredicate, WqPark, WqWake, WqDrained, WqReserve,
             WqCharge, WqPostFails, WqPop, hwVars
    <2>3. LaunchFuture \/ CqStep => rq' = rq
      BY DEF LaunchFuture, CqStep, CqTop, CqEvent, CqArm, CqPoll, CqSkip, CqCall, CqRelease, hwVars
    <2>4. StopBegin \/ StopStep => rq' = rq
      BY DEF StopBegin, StopStep, StopWqFlag, StopWqNotify, StopWqJoin, StopCqFlag, StopCqArm,
             StopCqPost, StopCqJoin, hwVars
    <2>5. \A d \in QPI : HwStep(d) => HwReceive(d) \/ rq' = rq
      BY DEF HwStep, HwComplete, HwFail, HwFlush
    <2>6. UNCHANGED vars => rq' = rq
      BY DEF vars, hwVars
    <2>7. \A d \in QPI : d # q /\ (WqPost(d) \/ HwReceive(d)) => rq'[q] = rq[q]
      BY <1>1 DEF WqPost, HwReceive
    <2> QED
      BY <1>2, <2>1, <2>2, <2>3, <2>4, <2>5, <2>6, <2>7, ConstantsAssumption DEF Next
  <1>3. WqPost(q) => ~HwReceive(q) /\ rq'[q] = IF Op[Head(assign_queue_[q])[1]] = "RECV" THEN rq[q] + 1 ELSE rq[q]
    <2>1. WqPost(q) => wq'[q] # wq[q]
      BY Typed DEF WqPost, WqGoto
    <2>2. HwReceive(q) => wq' = wq
      BY DEF HwReceive, queueVars
    <2> QED
      BY <1>1, <2>1, <2>2 DEF WqPost
  <1>4. HwReceive(q) => rq[q] > 0 /\ rq'[q] = rq[q] - 1
    BY <1>1 DEF HwReceive
  <1>5. Fake(q)' = 1 \/ Fake(q)' = Fake(q)
    <2>1. StopBegin \/ StopStep => Fake(q)' = 1 \/ Fake(q)' = Fake(q)
      <3>1. PICK pc, d : stopper = [pc |-> pc, qpi |-> d]
        BY DEF TypeOK, StopTypeOK
      <3>2. \A from, to : StopGoto(from, to) => stopper.pc = from /\ stopper'.pc = to
        BY <3>1 DEF StopGoto
      <3>3. StopBegin => stopper.pc = "idle" /\ stopper'.pc = "wq_flag"
        BY <3>2 DEF StopBegin
      <3>4. StopWqFlag \/ StopWqNotify \/ StopCqFlag \/ StopCqArm =>
              /\ stopper.pc \notin {"cq_join", "done"}
              /\ stopper'.pc \notin {"cq_join", "done"}
        BY <3>2 DEF StopWqFlag, StopWqNotify, StopCqFlag, StopCqArm
      <3>5. StopWqJoin => /\ stopper.pc \notin {"cq_join", "done"}
                         /\ stopper'.pc \notin {"cq_join", "done"}
        BY DEF StopWqJoin
      <3>6. StopCqPost => stopper'.pc = "cq_join"
        BY <3>2 DEF StopCqPost
      <3>7. StopCqJoin => stopper.pc = "cq_join" /\ stopper'.pc = "done"
        BY <3>2 DEF StopCqJoin
      <3> QED
        BY <3>3, <3>4, <3>5, <3>6, <3>7 DEF StopStep, Fake
    <2>2. ASSUME stopper' = stopper
          PROVE  Fake(q)' = Fake(q)
      BY <2>2 DEF Fake
    <2>3. \A t \in Client, r \in Request : SubmitSelect(t, r) \/ ClientStep(t) => stopper' = stopper
      BY DEF SubmitSelect, ClientStep, SubmitStore, SubmitPush, WaitReturn, stopVars
    <2>4. \A d \in QPI : WqStep(d) \/ WqSpurious(d) => stopper' = stopper
      BY DEF WqStep, WqSpurious, WqTop, WqPredicate, WqPark, WqWake, WqDrained, WqReserve,
             WqCharge, WqPost, WqPostFails, WqPop, stopVars
    <2>5. LaunchFuture \/ CqStep => stopper' = stopper
      BY DEF LaunchFuture, CqStep, CqTop, CqEvent, CqArm, CqPoll, CqSkip, CqCall, CqRelease, stopVars
    <2>6. \A d \in QPI : HwStep(d) => stopper' = stopper
      BY DEF HwStep, HwComplete, HwFail, HwFlush, HwReceive, stopVars
    <2>7. UNCHANGED vars => stopper' = stopper
      BY DEF vars, stopVars
    <2> QED
      BY <2>1, <2>2, <2>3, <2>4, <2>5, <2>6, <2>7, ConstantsAssumption DEF Next
  <1>6. StopCqPost /\ q = 0 => Fake(q)' = 1 /\ Fake(q) = 0
    <2>1. StopCqPost => stopper.pc = "cq_post" /\ stopper'.pc = "cq_join"
      BY DEF StopCqPost, StopGoto, TypeOK, StopTypeOK
    <2> QED
      BY <2>1 DEF Fake
  <1> QED
    BY <1>2, <1>3, <1>4, <1>5, <1>6

(* Nothing else than the completion queue matters to its entries.           *)
LEMMA AnonSame ==
  ASSUME cq' = cq, NEW q \in QPI
  PROVE  Anon(q)' = Anon(q)
  BY DEF Anon, Owned, Carries

(* An entry that gets a neighbour behind it keeps its owner.                *)
LEMMA AnonLonger ==
  ASSUME NEW q \in QPI, NEW n \in Nat, NEW m \in Nat, Len(cq) = n, Len(cq') = n + m,
         \A i \in 1 .. n : cq'[i] = cq[i]
  PROVE  \A k \in Anon(q)' : k \in Anon(q) \/ k \in n + 1 .. n + m
  <1> SUFFICES ASSUME NEW k \in 1 .. n + m, k <= n, cq'[k].qpi = q, ~(Owned(k))'
               PROVE  k \in Anon(q)
    BY DEF Anon
  <1>1. k \in 1 .. n
    OBVIOUS
  <1>2. ASSUME NEW j \in 1 .. n, Carries(j, k)
        PROVE  FALSE
    <2>1. Carries(j, k)'
      BY <1>1, <1>2 DEF Carries
    <2>2. j \in 1 .. n + m
      OBVIOUS
    <2> QED
      BY <2>1, <2>2 DEF Owned
  <1> QED
    BY <1>1, <1>2 DEF Anon, Owned

(* The device takes a chain from a send queue: what it has not to name      *)
(* moves to the completion queue, and the chain of a read names its piece.  *)
LEMMA LedgerTake ==
  ASSUME Inv, NEW d \in QPI, HwComplete(d) \/ HwFail(d) \/ HwFlush(d), NEW q \in QPI,
         NEW P, NEW A, NEW P2, NEW A2,
         P = Plain(q), A = Anon(q), P2 = Plain(q)', A2 = Anon(q)'
  PROVE  /\ Cardinality(P) \in Nat /\ Cardinality(A) \in Nat
         /\ Cardinality(P2) \in Nat /\ Cardinality(A2) \in Nat
         /\ Cardinality(P2) + Cardinality(A2) <= Cardinality(P) + Cardinality(A)
  <1>0. TypeOK
    BY DEF Inv
  <1>1. PICK e \in Piece \union {NULL}, m \in Nat, st \in {"SUCCESS", "FAILED"} : Taken(d, e, m, st)
    BY <1>0, TakePlaces
  <1>2. PICK n \in Nat, l \in Nat : n = Len(cq) /\ l = Len(sq[q])
    BY <1>0, Typed
  <1>3. /\ e = Head(sq[d]) /\ m >= 1 /\ Len(cq') = n + m
        /\ m <= IF IsRead(e) /\ st = "FAILED" THEN PieceSize(e) ELSE 1
        /\ \A i \in 1 .. n : cq'[i] = cq[i]
        /\ \A i \in 1 .. n + m : i > n =>
             /\ cq'[i].qpi = d /\ cq'[i].status = st
             /\ cq'[i].info = IF i = n + m /\ IsRead(e) THEN e ELSE NULL
    BY <1>1, <1>2 DEF Taken
  <1>4. sq' = [sq EXCEPT ![d] = Tail(@)] /\ sq[d] # <<>>
    BY DEF HwComplete, HwFail, HwFlush
  <1>5. sq'[d] = Tail(sq[d]) /\ \A c \in QPI : c # d => sq'[c] = sq[c]
    BY <1>0, <1>4, Typed
  <1>6. P \subseteq 1 .. l /\ A \subseteq 1 .. n
    BY <1>2 DEF Plain, Anon
  <1>7. \A k \in A2 : k \in A \/ k \in n + 1 .. n + m
    BY <1>2, <1>3, AnonLonger
  <1>8. CASE q # d
    <2>1. P2 = P
      BY <1>5, <1>8 DEF Plain, IsRead
    <2>2. \A k \in A2 : k \in 1 .. n + m /\ cq'[k].qpi = q
      BY <1>3 DEF Anon
    <2>3. \A k \in n + 1 .. n + m : k \in 1 .. n + m /\ k > n
      OBVIOUS
    <2>4. \A k \in A2 : k + 0 \in A
      BY <1>3, <1>6, <1>7, <1>8, <2>2, <2>3
    <2>5. A2 \subseteq 1 .. n + m /\ n + m \in Nat
      BY <2>2
    <2>6. /\ Cardinality(A2) \in Nat /\ Cardinality(A) \in Nat
          /\ Cardinality(A2) <= Cardinality(A)
      BY <1>6, <2>4, <2>5, Shifted
    <2>7. Cardinality(P) \in Nat
      BY <1>6, IndexSet
    <2> QED
      BY <2>1, <2>6, <2>7
  <1>9. CASE q = d
    <2>1. /\ l >= 1 /\ Len(sq'[q]) = l - 1 /\ sq[q][1] = e
          /\ \A i \in 1 .. l - 1 : sq'[q][i] = sq[q][i + 1]
      BY <1>0, <1>2, <1>3, <1>4, <1>5, <1>9, Typed
    <2>2. P2 = {k \in 1 .. l - 1 : ~IsRead(sq'[q][k])}
      BY <2>1 DEF Plain, IsRead
    <2>3. P = {k \in 1 .. l : ~IsRead(sq[q][k])}
      BY <1>2 DEF Plain
    <2>4. \A k \in P2 : k + 1 \in P /\ k + 1 # 1
      <3>1. \A k \in 1 .. l - 1 : k + 1 \in 1 .. l /\ k + 1 # 1
        BY <1>2
      <3> QED
        BY <2>1, <2>2, <2>3, <3>1
    <2>5. P2 \subseteq 1 .. l - 1 /\ l - 1 \in Nat
      BY <2>1, <2>2
    <2>6. CASE IsRead(e)
      <3>1. \A k \in n + 1 .. n + m : k \notin A2
        <4> SUFFICES ASSUME NEW k \in n + 1 .. n + m
                     PROVE  Owned(k)'
          BY DEF Anon
        <4>1. /\ k \in 1 .. n + m /\ k > n /\ n + m \in 1 .. n + m /\ n + m > n
              /\ n + m # k => k < n + m /\ m > 1 /\ n + m - k < m
          BY <1>3
        <4>2. e # NULL /\ PieceSize(e) \in Nat
          BY <2>6, PieceShape DEF IsRead
        <4>3. /\ cq'[n + m].info = e /\ cq'[n + m].qpi = d /\ cq'[n + m].status = st
              /\ cq'[k].qpi = d
          BY <1>3, <2>6, <4>1
        <4>4. m > 1 => st = "FAILED" /\ m <= PieceSize(e)
          BY <1>3, <2>6
        <4>5. n + m # k => k < n + m /\ cq'[n + m].status = "FAILED" /\ n + m - k < PieceSize(cq'[n + m].info)
          BY <4>1, <4>2, <4>3, <4>4
        <4>6. Carries(n + m, k)'
          BY <4>2, <4>3, <4>5 DEF Carries, PieceSize, FirstOf
        <4> QED
          BY <1>3, <4>1, <4>6 DEF Owned
      <3>2. A2 \subseteq A /\ \A k \in A2 : k + 0 \in A
        BY <1>6, <1>7, <3>1
      <3>3. /\ Cardinality(A2) \in Nat /\ Cardinality(A) \in Nat
            /\ Cardinality(A2) <= Cardinality(A)
        BY <1>6, <3>2, Shifted
      <3>4. /\ Cardinality(P2) \in Nat /\ Cardinality(P) \in Nat
            /\ Cardinality(P2) <= Cardinality(P)
        BY <1>6, <2>4, <2>5, Shifted
      <3> QED
        BY <3>3, <3>4
    <2>7. CASE ~IsRead(e)
      <3>1. m = 1
        BY <1>3, <2>7
      <3>2. A2 \subseteq A \union {n + 1}
        BY <1>7, <3>1
      <3>3. /\ Cardinality(A) \in Nat /\ Cardinality(A2) \in Nat
            /\ Cardinality(A2) <= Cardinality(A) + 1
        BY <1>6, <3>2, OneMore
      <3>4. 1 \in P /\ IsFiniteSet(P)
        BY <1>6, <2>1, <2>3, <2>7, IndexSet
      <3>5. PICK R : R = P \ {1}
        OBVIOUS
      <3>6. Cardinality(R) = Cardinality(P) - 1
        BY <3>4, <3>5, FS_RemoveElement
      <3>7. R \subseteq 1 .. l /\ \A k \in P2 : k + 1 \in R
        BY <1>6, <2>4, <3>5
      <3>8. /\ Cardinality(P2) \in Nat /\ Cardinality(R) \in Nat
            /\ Cardinality(P2) <= Cardinality(R)
        BY <2>5, <3>7, Shifted
      <3>9. Cardinality(P) \in Nat
        BY <1>6, IndexSet
      <3> QED
        BY <3>3, <3>6, <3>8, <3>9
    <2> QED
      BY <2>6, <2>7
  <1> QED
    BY <1>8, <1>9

(* The completion thread takes entries from the front.                      *)
LEMMA LedgerPoll ==
  ASSUME TypeOK, CqPoll, NEW q \in QPI
  PROVE  /\ Cardinality(Anon(q))' \in Nat
         /\ Cardinality(Anon(q))' <= Cardinality(Anon(q))
  <1>1. PICK n \in Nat, l \in Nat : /\ n = Smaller(POLL_COUNT, Len(cq)) /\ l = Len(cq) /\ n <= l
    BY Typed, ConstantsAssumption DEF Smaller
  <1>2. cq' = SubSeq(cq, n + 1, l) /\ cq \in Seq(Cqe)
    BY <1>1, Typed DEF CqPoll
  <1>3. Len(cq') = l - n /\ \A i \in 1 .. l - n : cq'[i] = cq[i + n]
    BY <1>1, <1>2
  <1>4. PICK A, B : A = Anon(q) /\ B = Anon(q)'
    OBVIOUS
  <1>5. A \subseteq 1 .. l /\ B \subseteq 1 .. l - n /\ l - n \in Nat
    BY <1>1, <1>3, <1>4 DEF Anon
  <1>6. ASSUME NEW k \in B
        PROVE  k + n \in A
    <2>1. k \in 1 .. l - n /\ cq'[k].qpi = q /\ ~(Owned(k))'
      BY <1>3, <1>4 DEF Anon
    <2>2. k + n \in 1 .. l /\ cq[k + n].qpi = q
      BY <1>3, <2>1
    <2>3. ASSUME NEW j \in 1 .. l, Carries(j, k + n)
          PROVE  FALSE
      <3>1. j >= k + n
        BY <2>1, <2>3 DEF Carries
      <3>2. PICK i : i = j - n
        OBVIOUS
      <3>3. i \in 1 .. l - n /\ j = i + n /\ (j # k + n <=> i # k) /\ (k + n < j <=> k < i)
            /\ j - (k + n) = i - k
        BY <2>1, <3>1, <3>2
      <3>4. cq'[i] = cq[j] /\ cq'[k] = cq[k + n]
        BY <1>3, <2>1, <3>3
      <3>5. Carries(i, k)'
        BY <2>3, <3>3, <3>4 DEF Carries
      <3> QED
        BY <1>3, <2>1, <3>3, <3>5 DEF Owned
    <2> QED
      BY <1>1, <1>4, <2>2, <2>3 DEF Anon, Owned
  <1>7. Cardinality(B) \in Nat /\ Cardinality(B) <= Cardinality(A)
    BY <1>5, <1>6, Shifted
  <1> QED
    BY <1>4, <1>7

(* A chain, or the fake work request, is appended to a send queue.          *)
LEMMA PlainAppend ==
  ASSUME TypeOK, NEW d \in QPI, NEW e, sq' = [sq EXCEPT ![d] = Append(@, e)]
  PROVE  \A q \in QPI : Plain(q)' = Plain(q) \union
                                    IF q = d /\ ~IsRead(e) THEN {Len(sq[q]) + 1} ELSE {}
  <1> SUFFICES ASSUME NEW q \in QPI
               PROVE  Plain(q)' = Plain(q) \union
                                  IF q = d /\ ~IsRead(e) THEN {Len(sq[q]) + 1} ELSE {}
    OBVIOUS
  <1>1. CASE q # d
    <2>1. sq'[q] = sq[q]
      BY <1>1, Typed
    <2> QED
      BY <1>1, <2>1 DEF Plain, IsRead
  <1>2. CASE q = d
    <2>1. PICK n \in Nat : n = Len(sq[q])
      BY Typed
    <2>2. Len(sq'[q]) = n + 1 /\ sq'[q][n + 1] = e /\ \A k \in 1 .. n : sq'[q][k] = sq[q][k]
      BY <1>2, <2>1, Typed
    <2>3. Plain(q)' = {k \in 1 .. n + 1 : ~IsRead(sq'[q][k])}
      BY <2>2 DEF Plain, IsRead
    <2>4. Plain(q) = {k \in 1 .. n : ~IsRead(sq[q][k])}
      BY <2>1 DEF Plain
    <2>5. \A k : k \in 1 .. n + 1 <=> k \in 1 .. n \/ k = n + 1
      BY <2>1
    <2> QED
      BY <1>2, <2>1, <2>2, <2>3, <2>4, <2>5
  <1> QED
    BY <1>1, <1>2

(* Every step keeps the ledger of a queue pair.                             *)
LEMMA LedgerStep ==
  ASSUME AccountInv, [Next]_vars, NEW q \in QPI, Ledger(q)
  PROVE  Ledger(q)'
  <1>0. /\ Inv /\ TypeOK /\ FlowControl /\ ThreadInv /\ OwnerInv /\ QueueInv /\ Reliable
    BY DEF AccountInv, CallbackInv, Inv
  <1>1. Still \/ Moving
    BY <1>0, StillOrMoving
  <1>2. PICK P, A, S, P2, A2, S2 :
          /\ P = Plain(q) /\ A = Anon(q) /\ S = Posts(q)
          /\ P2 = Plain(q)' /\ A2 = Anon(q)' /\ S2 = Posts(q)'
    OBVIOUS
  <1>3. PICK l \in Nat, n \in Nat, b \in Nat :
          /\ l = Len(sq[q]) /\ n = Len(cq) /\ b = PostEdge(q)
          /\ P \subseteq 1 .. l /\ A \subseteq 1 .. n /\ S \subseteq 1 .. b
    BY <1>0, <1>2, LedgerSizes
  <1>4. PICK r, r2, f, f2 : r = rq[q] /\ r2 = rq'[q] /\ f = Fake(q) /\ f2 = Fake(q)'
    OBVIOUS
  <1>5. PICK p, a, s, p2, a2, s2 :
          /\ p = Cardinality(P) /\ a = Cardinality(A) /\ s = Cardinality(S)
          /\ p2 = Cardinality(P2) /\ a2 = Cardinality(A2) /\ s2 = Cardinality(S2)
    OBVIOUS
  <1>6. p \in Nat /\ a \in Nat /\ s \in Nat /\ r \in Nat /\ f \in {0, 1} /\ p + r + a <= s + f
    <2>1. p + r + a <= s + f
      BY <1>2, <1>4, <1>5 DEF Ledger
    <2>2. r \in Nat /\ f \in {0, 1}
      BY <1>0, <1>4, LedgerSizes
    <2> QED
      BY <1>3, <1>5, <2>1, <2>2, IndexSet
  <1>7. SUFFICES p2 + r2 + a2 <= s2 + f2
    BY <1>2, <1>4, <1>5 DEF Ledger
  <1>8. /\ r2 = IF WqPost(q) /\ Op[Head(assign_queue_[q])[1]] = "RECV" THEN r + 1
                ELSE IF HwReceive(q) THEN r - 1 ELSE r
        /\ HwReceive(q) => r > 0
        /\ f2 = 1 \/ f2 = f
        /\ StopCqPost /\ q = 0 => f2 = 1 /\ f = 0
    BY <1>0, <1>4, ReceiveStep
  <1>9. /\ ~WqPost(q) => S2 = S
        /\ WqPost(q) => S2 = S \union IF IsRead(Head(assign_queue_[q])) THEN {} ELSE {b + 1}
    BY <1>0, <1>1, <1>2, <1>3, PostsStep
  <1>10. f2 >= f /\ f2 \in {0, 1}
    BY <1>6, <1>8
  <1>11. sq' = sq => P2 = P
    BY <1>2 DEF Plain, IsRead
  <1>12. cq' = cq => A2 = A
    BY <1>2, AnonSame
  <1>13. ~WqPost(q) => s2 = s /\ r2 = IF HwReceive(q) THEN r - 1 ELSE r
    BY <1>5, <1>8, <1>9
  <1>14. ASSUME sq' = sq, cq' = cq, ~WqPost(q)
         PROVE  p2 + r2 + a2 <= s2 + f2
    BY <1>5, <1>6, <1>8, <1>10, <1>11, <1>12, <1>13, <1>14
  <1>15. ASSUME WqPost(q)
         PROVE  p2 + r2 + a2 <= s2 + f2
    <2>1. PICK e \in Piece : e = Head(assign_queue_[q])
      BY <1>0, <1>15, Typed DEF WqPost, WqGoto, FlowControl
    <2>2. /\ cq' = cq /\ Op[e[1]] \in OpCode
          /\ Op[e[1]] = "RECV" => sq' = sq
          /\ Op[e[1]] # "RECV" => sq' = [sq EXCEPT ![q] = Append(@, e)]
      <3>1. e[1] \in Request
        BY DEF Piece
      <3>2. cq' = cq
        BY <1>15 DEF WqPost, cqeVars
      <3> QED
        BY <1>15, <2>1, <3>1, <3>2, ConstantsAssumption DEF WqPost
    <2>3. IsRead(e) <=> Op[e[1]] = "READ"
      BY NullAssumption DEF IsRead
    <2>4. A2 = A /\ a2 = a
      BY <1>5, <1>12, <2>2
    <2>5. CASE Op[e[1]] = "READ"
      <3>1. P2 = P \/ P2 = P \union {}
        BY <1>0, <1>2, <2>2, <2>3, <2>5, PlainAppend
      <3>2. p2 = p /\ s2 = s /\ r2 = r
        <4>1. S2 = S
          BY <1>9, <1>15, <2>1, <2>3, <2>5
        <4>2. ~HwReceive(q)
          <5>1. WqPost(q) => wq'[q] # wq[q]
            BY <1>0, Typed DEF WqPost, WqGoto
          <5>2. HwReceive(q) => wq' = wq
            BY DEF HwReceive, queueVars
          <5> QED
            BY <1>15, <5>1, <5>2
        <4> QED
          BY <1>5, <1>8, <2>1, <2>5, <3>1, <4>1, <4>2
      <3> QED
        BY <1>6, <1>10, <2>4, <3>2
    <2>6. CASE Op[e[1]] # "READ"
      <3>1. S2 = S \union {b + 1}
        BY <1>9, <1>15, <2>1, <2>3, <2>6
      <3>2. IsFiniteSet(S) /\ b + 1 \notin S
        <4>1. b + 1 \notin 1 .. b
          OBVIOUS
        <4> QED
          BY <1>3, <4>1, IndexSet
      <3>3. s2 = s + 1
        BY <1>5, <3>1, <3>2, FS_AddElement
      <3>4. ~HwReceive(q)
        <4>1. WqPost(q) => wq'[q] # wq[q]
          BY <1>0, Typed DEF WqPost, WqGoto
        <4>2. HwReceive(q) => wq' = wq
          BY DEF HwReceive, queueVars
        <4> QED
          BY <1>15, <4>1, <4>2
      <3>5. CASE Op[e[1]] = "RECV"
        <4>1. p2 = p
          BY <1>5, <1>11, <2>2, <3>5
        <4>2. r2 = r + 1
          BY <1>8, <1>15, <2>1, <3>5
        <4> QED
          BY <1>6, <1>10, <2>4, <3>3, <4>1, <4>2
      <3>6. CASE Op[e[1]] # "RECV"
        <4>1. Plain(q)' = Plain(q) \union IF q = q /\ ~IsRead(e) THEN {Len(sq[q]) + 1} ELSE {}
          BY <1>0, <2>2, <3>6, PlainAppend
        <4>2. P2 = P \union {l + 1}
          BY <1>2, <1>3, <2>3, <2>6, <4>1
        <4>3. P \subseteq 1 .. l /\ P2 \subseteq P \union {l + 1}
          BY <1>3, <4>2
        <4>4. p2 \in Nat /\ p2 <= p + 1
          BY <1>5, <4>3, OneMore
        <4>5. r2 = r
          BY <1>8, <2>1, <3>4, <3>6
        <4> QED
          BY <1>6, <1>10, <2>4, <3>3, <4>4, <4>5
      <3> QED
        BY <3>5, <3>6
    <2> QED
      BY <2>5, <2>6
  <1>16. ASSUME NEW d \in QPI, WqPost(d), d # q
         PROVE  p2 + r2 + a2 <= s2 + f2
    <2>1. PICK e : e = Head(assign_queue_[d])
      OBVIOUS
    <2>2. cq' = cq /\ (sq' = sq \/ sq' = [sq EXCEPT ![d] = Append(@, e)])
      BY <1>16, <2>1 DEF WqPost, cqeVars
    <2>3. P2 = P
      BY <1>0, <1>2, <1>11, <1>16, <2>2, PlainAppend
    <2>4. ~WqPost(q)
      <3>1. wq[d] = "post" /\ wq'[d] = "pop" /\ (WqPost(q) => wq' = [wq EXCEPT ![q] = "pop"])
        BY <1>0, <1>16, Typed DEF WqPost, WqGoto
      <3> QED
        BY <1>0, <1>16, <3>1, Typed
    <2>5. p2 = p /\ a2 = a /\ s2 = s
      BY <1>5, <1>12, <1>13, <2>2, <2>3, <2>4
    <2>6. r2 = r \/ r2 = r - 1
      BY <1>13, <2>4
    <2> QED
      BY <1>6, <1>10, <2>5, <2>6
  <1>17. ASSUME NEW d \in QPI, HwComplete(d) \/ HwFail(d) \/ HwFlush(d)
         PROVE  p2 + r2 + a2 <= s2 + f2
    <2>1. p2 \in Nat /\ a2 \in Nat /\ p2 + a2 <= p + a
      BY <1>0, <1>2, <1>5, <1>17, LedgerTake
    <2>2. wq' = wq /\ (WqPost(q) => wq'[q] # wq[q])
      BY <1>0, <1>17, Typed DEF WqPost, WqGoto, HwComplete, HwFail, HwFlush, queueVars
    <2> QED
      BY <1>6, <1>8, <1>10, <1>13, <2>1, <2>2
  <1>18. ASSUME NEW d \in QPI, HwReceive(d)
         PROVE  p2 + r2 + a2 <= s2 + f2
    <2>1. /\ Len(cq') = n + 1 /\ \A i \in 1 .. n : cq'[i] = cq[i]
      BY <1>0, <1>3, <1>18, ReceivePlaces
    <2>2. \A k \in A2 : k \in A \/ k \in n + 1 .. n + 1
      BY <1>2, <1>3, <2>1, AnonLonger
    <2>3. A2 \subseteq A \union {n + 1}
      BY <2>2
    <2>4. a2 \in Nat /\ a2 <= a + 1
      BY <1>3, <1>5, <2>3, OneMore
    <2>5. wq' = wq /\ sq' = sq /\ (WqPost(q) => wq'[q] # wq[q])
      BY <1>0, <1>18, Typed DEF WqPost, WqGoto, HwReceive, queueVars
    <2>6. p2 = p
      BY <1>5, <1>11, <2>5
    <2>7. CASE d = q
      BY <1>6, <1>8, <1>10, <1>13, <1>18, <2>4, <2>5, <2>6, <2>7
    <2>8. CASE d # q
      <3>1. HwReceive(q) => FALSE
        <4>1. rq' = [rq EXCEPT ![d] = @ - 1] /\ (HwReceive(q) => rq' = [rq EXCEPT ![q] = @ - 1])
          BY <1>18 DEF HwReceive
        <4>2. rq \in [QPI -> Nat]
          BY <1>0 DEF TypeOK, DeviceTypeOK
        <4> QED
          BY <2>8, <4>1, <4>2
      <3>2. cq'[n + 1].qpi = d
        <4>1. PICK st \in {"SUCCESS", "FAILED"} : cq' = cq \o Completions(d, <<NULL>>, st)
          BY <1>18 DEF HwReceive, Complete
        <4>2. Completions(d, <<NULL>>, st) = <<[info |-> NULL, qpi |-> d, status |-> st]>>
          BY DEF Completions
        <4>3. cq \in Seq(Cqe)
          BY <1>0, Typed
        <4> QED
          BY <1>3, <4>1, <4>2, <4>3
      <3>3. n + 1 \notin A2
        BY <1>2, <2>8, <3>2 DEF Anon
      <3>4. A2 \subseteq A /\ \A k \in A2 : k + 0 \in A
        BY <1>3, <2>3, <3>3
      <3>5. A2 \subseteq 1 .. n /\ a2 <= a
        BY <1>3, <1>5, <3>4, Shifted
      <3> QED
        BY <1>6, <1>8, <1>10, <1>13, <2>4, <2>5, <2>6, <3>1, <3>5
    <2> QED
      BY <2>7, <2>8
  <1>19. ASSUME CqPoll
         PROVE  p2 + r2 + a2 <= s2 + f2
    <2>1. a2 \in Nat /\ a2 <= a
      BY <1>0, <1>2, <1>5, <1>19, LedgerPoll
    <2>2. wq' = wq /\ sq' = sq /\ rq' = rq
      BY <1>19 DEF CqPoll, queueVars
    <2>3. ~WqPost(q) /\ r2 = r
      BY <1>0, <1>4, <2>2, Typed DEF WqPost, WqGoto
    <2>4. p2 = p /\ s2 = s
      BY <1>5, <1>11, <1>13, <2>2, <2>3
    <2> QED
      BY <1>6, <1>10, <2>1, <2>3, <2>4
  <1>20. ASSUME StopCqPost
         PROVE  p2 + r2 + a2 <= s2 + f2
    <2>1. wq' = wq /\ cq' = cq /\ rq' = rq /\ sq' = [sq EXCEPT ![0] = Append(@, NULL)]
      BY <1>20 DEF StopCqPost, queueVars, cqeVars
    <2>2. ~WqPost(q) /\ r2 = r /\ a2 = a /\ 0 \in QPI
      BY <1>0, <1>4, <1>5, <1>12, <2>1, Typed, ConstantsAssumption DEF WqPost, WqGoto, QPI
    <2>3. ~IsRead(NULL)
      BY DEF IsRead
    <2>4. CASE q = 0
      <3>1. Plain(q)' = Plain(q) \union IF q = 0 /\ ~IsRead(NULL) THEN {Len(sq[q]) + 1} ELSE {}
        BY <1>0, <2>1, <2>2, PlainAppend
      <3>2. P2 = P \union {l + 1}
        BY <1>2, <1>3, <2>3, <2>4, <3>1
      <3>3. P \subseteq 1 .. l /\ P2 \subseteq P \union {l + 1}
        BY <1>3, <3>2
      <3>4. p2 \in Nat /\ p2 <= p + 1
        BY <1>5, <3>3, OneMore
      <3> QED
        BY <1>6, <1>8, <1>13, <1>20, <2>2, <2>4, <3>4
    <2>5. CASE q # 0
      <3>1. P2 = P \union {}
        BY <1>0, <1>2, <2>1, <2>2, <2>5, PlainAppend
      <3> QED
        BY <1>5, <1>6, <1>10, <1>13, <2>2, <3>1
    <2> QED
      BY <2>4, <2>5
  <1>21. ASSUME Still \/ CqSkip \/ CqRelease \/ (\E d \in QPI : WqPop(d)) \/ (\E t \in Client : SubmitPush(t))
         PROVE  p2 + r2 + a2 <= s2 + f2
    <2>1. sq' = sq /\ cq' = cq
      BY <1>21 DEF Still, CqSkip, CqRelease, WqPop, SubmitPush, hwVars
    <2> QED
      BY <1>14, <1>15, <2>1
  <1> QED
    BY <1>1, <1>15, <1>16, <1>17, <1>18, <1>19, <1>20, <1>21 DEF Moving

LEMMA LedgerInit == Init => LedgerInv
  <1> SUFFICES ASSUME Init, NEW q \in QPI PROVE Ledger(q)
    BY DEF LedgerInv
  <1>1. /\ sq[q] = <<>> /\ cq = <<>> /\ rq[q] = 0
        /\ pushed[q] = <<>> /\ assign_queue_[q] = <<>> /\ wq[q] = "none" /\ stopper.pc = "idle"
    BY DEF Init
  <1>2. Plain(q) = {} /\ Anon(q) = {}
    BY <1>1 DEF Plain, Anon
  <1>3. PostEdge(q) = 0 /\ Fake(q) = 0
    BY <1>1 DEF PostEdge, Fake
  <1>4. Posts(q) = {}
    BY <1>3 DEF Posts
  <1>5. Cardinality({}) = 0
    BY FS_EmptySet
  <1> QED
    BY <1>1, <1>2, <1>3, <1>4, <1>5 DEF Ledger

LEMMA LedgerInvariance == Reliable /\ Spec => []LedgerInv
  <1>1. AccountInv /\ LedgerInv /\ [Next]_vars => LedgerInv'
    BY LedgerStep DEF LedgerInv
  <1> QED
    BY <1>1, LedgerInit, AccountInvariance, PTL DEF Spec

(* Sums of sizes.                                                           *)
LEMMA TwoParts ==
  ASSUME NEW S, NEW A, NEW B, IsFiniteSet(A), IsFiniteSet(B), S \subseteq A \union B
  PROVE  /\ IsFiniteSet(S) /\ Cardinality(S) \in Nat
         /\ Cardinality(A) \in Nat /\ Cardinality(B) \in Nat
         /\ Cardinality(S) <= Cardinality(A) + Cardinality(B)
  <1>1. PICK U : U = A \union B
    OBVIOUS
  <1>2. IsFiniteSet(A \cap B)
    BY FS_Subset
  <1>3. IsFiniteSet(U) /\ Cardinality(U) = Cardinality(A) + Cardinality(B) - Cardinality(A \cap B)
    BY <1>1, FS_Union
  <1>4. IsFiniteSet(S) /\ Cardinality(S) <= Cardinality(U)
    BY <1>1, <1>3, FS_Subset
  <1>5. PICK s, a, b, c, u : /\ s = Cardinality(S) /\ a = Cardinality(A) /\ b = Cardinality(B)
                             /\ c = Cardinality(A \cap B) /\ u = Cardinality(U)
    OBVIOUS
  <1>6. s \in Nat /\ a \in Nat /\ b \in Nat /\ c \in Nat
    BY <1>2, <1>4, <1>5, FS_CardinalityType
  <1>7. u = a + b - c /\ s <= u
    BY <1>3, <1>4, <1>5
  <1>8. s <= a + b
    BY <1>6, <1>7
  <1> QED
    BY <1>4, <1>5, <1>6, <1>8

LEMMA ThreeParts ==
  ASSUME NEW S, NEW A, NEW B, NEW C, IsFiniteSet(S), A \subseteq S, B \subseteq S, C \subseteq S,
         A \cap B = {}, A \cap C = {}, B \cap C = {}
  PROVE  /\ IsFiniteSet(A) /\ IsFiniteSet(B) /\ IsFiniteSet(C)
         /\ Cardinality(A) + Cardinality(B) + Cardinality(C) <= Cardinality(S)
  <1>1. IsFiniteSet(A) /\ IsFiniteSet(B) /\ IsFiniteSet(C)
    BY FS_Subset
  <1>2. PICK D, E : D = A \union B /\ E = D \union C
    OBVIOUS
  <1>3. IsFiniteSet(D) /\ Cardinality(D) = Cardinality(A) + Cardinality(B) - Cardinality({})
    <2>1. /\ IsFiniteSet(A \union B)
          /\ Cardinality(A \union B) = Cardinality(A) + Cardinality(B) - Cardinality(A \cap B)
      BY <1>1, FS_Union
    <2> QED
      BY <1>2, <2>1
  <1>4. D \cap C = {}
    BY <1>2
  <1>5. IsFiniteSet(E) /\ Cardinality(E) = Cardinality(D) + Cardinality(C) - Cardinality({})
    <2>1. /\ IsFiniteSet(D \union C)
          /\ Cardinality(D \union C) = Cardinality(D) + Cardinality(C) - Cardinality(D \cap C)
      BY <1>1, <1>3, FS_Union
    <2> QED
      BY <1>2, <1>4, <2>1
  <1>6. Cardinality(E) <= Cardinality(S)
    BY <1>2, FS_Subset
  <1>7. Cardinality({}) = 0
    BY FS_EmptySet
  <1>8. /\ Cardinality(A) \in Nat /\ Cardinality(B) \in Nat /\ Cardinality(C) \in Nat
        /\ Cardinality(D) \in Nat /\ Cardinality(E) \in Nat
    BY <1>1, <1>3, <1>5, FS_CardinalityType
  <1> QED
    BY <1>1, <1>3, <1>5, <1>6, <1>7, <1>8

(* No Assignment is in two disjoint sets of pieces.                         *)
LEMMA ContentDisjoint ==
  ASSUME NEW S \in SUBSET Piece, NEW T \in SUBSET Piece, S \cap T = {}
  PROVE  Content(S) \cap Content(T) = {}
  <1>1. ASSUME NEW x, NEW p \in S, NEW o \in T, x \in Items(p, PieceSize(p)), x \in Items(o, PieceSize(o))
        PROVE  FALSE
    <2>1. p # o /\ p \in Piece /\ o \in Piece
      OBVIOUS
    <2> QED
      BY <1>1, <2>1, ItemsDisjoint
  <1> QED
    BY <1>1 DEF Content

(* Things that can be numbered within some pieces are no more than the      *)
(* pieces have Assignments.                                                 *)
LEMMA Numbered ==
  ASSUME NEW X, NEW Q \in SUBSET Piece, IsFiniteSet(Content(Q)),
         NEW f, NEW g,
         \A x \in X : f[x] \in Q /\ g[x] \in Nat /\ g[x] >= 1 /\ g[x] <= PieceSize(f[x]),
         \A x, y \in X : f[x] = f[y] /\ g[x] = g[y] => x = y
  PROVE  IsFiniteSet(X) /\ Cardinality(X) <= Cardinality(Content(Q))
  <1>1. PICK h : h = [x \in X |-> <<f[x][1], FirstOf(f[x]) + g[x] - 1>>]
    OBVIOUS
  <1>2. ASSUME NEW x \in X
        PROVE  /\ f[x] \in Piece /\ h[x] \in Items(f[x], PieceSize(f[x]))
               /\ h[x][2] = FirstOf(f[x]) + g[x] - 1
    <2>1. PICK p \in Piece, i \in Nat : p = f[x] /\ i = g[x] /\ i >= 1 /\ i <= PieceSize(p)
      OBVIOUS
    <2>2. FirstOf(p) \in Nat /\ PieceSize(p) \in Nat
      BY PieceShape
    <2>3. PICK a \in Nat, n \in Nat : a = FirstOf(p) /\ n = PieceSize(p)
      BY <2>2
    <2>4. a + i - 1 \in a .. a + n - 1
      BY <2>1, <2>3
    <2>5. h[x] = <<p[1], a + i - 1>>
      BY <1>1, <2>1, <2>3
    <2> QED
      BY <2>1, <2>3, <2>4, <2>5 DEF Items
  <1>3. h \in [X -> Content(Q)]
    <2>1. \A x \in X : h[x] \in Content(Q)
      BY <1>2 DEF Content
    <2>2. h = [x \in X |-> h[x]]
      BY <1>1
    <2> QED
      BY <2>1, <2>2
  <1>4. ASSUME NEW x \in X, NEW y \in X, h[x] = h[y]
        PROVE  x = y
    <2>1. f[x] = f[y]
      <3>1. h[x] \in Items(f[x], PieceSize(f[x])) \cap Items(f[y], PieceSize(f[y]))
        BY <1>2, <1>4
      <3> QED
        BY <1>2, <3>1, ItemsDisjoint
    <2>2. FirstOf(f[x]) \in Nat /\ g[x] \in Nat /\ g[y] \in Nat
      BY <1>2, PieceShape
    <2>3. FirstOf(f[x]) + g[x] - 1 = FirstOf(f[x]) + g[y] - 1
      BY <1>2, <1>4, <2>1
    <2>4. g[x] = g[y]
      BY <2>2, <2>3
    <2> QED
      BY <2>1, <2>4
  <1>5. h \in Injection(X, Content(Q))
    BY <1>3, <1>4, Fun_IsInj
  <1> QED
    BY <1>5, FS_Injection

(* A set of pairs <<k, 1>> is no larger than the set of the ks.             *)
LEMMA FirstsOnly ==
  ASSUME NEW X, NEW K, IsFiniteSet(K), \A x \in X : x[1] \in K /\ x = <<x[1], 1>>
  PROVE  IsFiniteSet(X) /\ Cardinality(X) <= Cardinality(K)
  <1>1. PICK f : f = [x \in X |-> x[1]]
    OBVIOUS
  <1>2. f \in [X -> K] /\ \A x, y \in X : f[x] = f[y] => x = y
    BY <1>1
  <1>3. f \in Injection(X, K)
    BY <1>2, Fun_IsInj
  <1> QED
    BY <1>3, FS_Injection

(* Each read that is posted to q, or whose completion waits to be polled,   *)
(* and each send or receive of q that has been posted.                      *)
PostedReads(q) == {p \in ReadPiece : \E i \in Nat : At(p, 2, q, i)}

CompletedReads(q) == {p \in ReadPiece : \E i \in Nat : At(p, 3, q, i)}

PostedOthers(q) == {pushed[q][k] : k \in Posts(q)}

(* All of these are charged, each once.                                     *)
LEMMA ChargedApart ==
  ASSUME AccountInv, NEW q \in QPI
  PROVE  LET a == Cardinality(Content(PostedReads(q)))
             b == Cardinality(Content(CompletedReads(q)))
             c == Cardinality(Content(PostedOthers(q)))
         IN /\ PostedReads(q) \subseteq Piece /\ CompletedReads(q) \subseteq Piece
            /\ PostedOthers(q) \subseteq Piece
            /\ IsFiniteSet(Content(PostedReads(q))) /\ IsFiniteSet(Content(CompletedReads(q)))
            /\ IsFiniteSet(Content(PostedOthers(q)))
            /\ a \in Nat /\ b \in Nat /\ c \in Nat /\ a + b + c <= MAX_SEND_WR - 1
  <1>0. /\ Inv /\ TypeOK /\ FlowControl /\ PlaceInv /\ QueueInv /\ AccInv
    BY DEF AccountInv, CallbackInv, Inv
  <1>1. PICK R, C, O : R = PostedReads(q) /\ C = CompletedReads(q) /\ O = PostedOthers(q)
    OBVIOUS
  <1>2. \A p : p \in Busy(q) <=> p \in ReadPiece /\ \E s \in 2 .. 4, i \in Nat : At(p, s, q, i)
    BY <1>0, BusyMeans
  <1>3. R \subseteq Busy(q) /\ C \subseteq Busy(q)
    <2>1. 2 \in 2 .. 4 /\ 3 \in 2 .. 4
      OBVIOUS
    <2> QED
      BY <1>1, <1>2, <2>1 DEF PostedReads, CompletedReads
  <1>4. R \subseteq ReadPiece /\ C \subseteq ReadPiece
    BY <1>1 DEF PostedReads, CompletedReads
  <1>5. R \cap C = {}
    <2>1. 2 \in 1 .. 4 /\ 3 \in 1 .. 4 /\ 2 # 3
      OBVIOUS
    <2>2. ASSUME NEW p \in R, p \in C
          PROVE  FALSE
      <3>1. PICK i \in Nat, j \in Nat : At(p, 2, q, i) /\ At(p, 3, q, j)
        BY <1>1, <2>2 DEF PostedReads, CompletedReads
      <3> QED
        BY <1>0, <1>4, <2>1, <3>1 DEF PlaceInv
    <2> QED
      BY <2>2
  <1>6. Spent(q) \subseteq Piece /\ \A p \in Piece : p \in Spent(q) <=> Started(p, q) /\ p \notin ReadPiece
    BY <1>0, SpentMeans
  <1>7. O \subseteq Spent(q)
    <2>1. /\ PostEdge(q) <= Len(pushed[q]) /\ PostEdge(q) <= Edge(q) /\ PostEdge(q) \in Nat
          /\ Edge(q) \in Nat /\ Len(pushed[q]) \in Nat
      BY <1>0, LedgerSizes, EdgeBounds
    <2>2. ASSUME NEW k \in Posts(q)
          PROVE  pushed[q][k] \in Spent(q)
      <3>1. k \in 1 .. PostEdge(q) /\ ~IsRead(pushed[q][k])
        BY DEF Posts
      <3>2. k \in 1 .. Len(pushed[q]) /\ k \in 1 .. Edge(q)
        BY <2>1, <3>1
      <3>3. pushed[q][k] \in Piece
        BY <1>0, <3>2, Typed
      <3>4. pushed[q][k] \notin ReadPiece
        BY <3>1, ReadPieceFacts
      <3>5. Started(pushed[q][k], q)
        BY <3>2 DEF Started
      <3> QED
        BY <1>6, <3>3, <3>4, <3>5
    <2> QED
      BY <1>1, <2>2 DEF PostedOthers
  <1>8. O \cap R = {} /\ O \cap C = {}
    BY <1>4, <1>6, <1>7
  <1>9. R \subseteq Piece /\ C \subseteq Piece /\ O \subseteq Piece
    BY <1>4, <1>6, <1>7 DEF ReadPiece
  <1>10. PICK H : H = ChargedPieces(q)
    OBVIOUS
  <1>11. R \subseteq H /\ C \subseteq H /\ O \subseteq H
    <2>1. Spent(q) \subseteq H /\ Busy(q) \subseteq H
      BY <1>10 DEF ChargedPieces, Busy
    <2> QED
      BY <1>3, <1>7, <2>1
  <1>12. PICK n \in Int : n = outstanding_rdma_reads_[q] /\ n < MAX_SEND_WR
    BY <1>0 DEF FlowControl, TypeOK, QueueTypeOK
  <1>13. IsFiniteSet(Content(H)) /\ n = Cardinality(Content(H))
    BY <1>0, <1>10, <1>12 DEF AccInv
  <1>14. Content(R) \subseteq Content(H) /\ Content(C) \subseteq Content(H) /\ Content(O) \subseteq Content(H)
    BY <1>11 DEF Content
  <1>15. Content(R) \cap Content(C) = {} /\ Content(R) \cap Content(O) = {} /\ Content(C) \cap Content(O) = {}
    BY <1>5, <1>8, <1>9, ContentDisjoint
  <1>16. /\ IsFiniteSet(Content(R)) /\ IsFiniteSet(Content(C)) /\ IsFiniteSet(Content(O))
         /\ Cardinality(Content(R)) + Cardinality(Content(C)) + Cardinality(Content(O)) <= n
    BY <1>13, <1>14, <1>15, ThreeParts
  <1>17. PICK a, b, c : /\ a = Cardinality(Content(R)) /\ b = Cardinality(Content(C))
                        /\ c = Cardinality(Content(O))
    OBVIOUS
  <1>18. a \in Nat /\ b \in Nat /\ c \in Nat
    BY <1>16, <1>17, FS_CardinalityType
  <1>19. a + b + c <= MAX_SEND_WR - 1
    BY <1>12, <1>16, <1>17, <1>18, ConstantsAssumption
  <1> QED
    BY <1>1, <1>9, <1>16, <1>17, <1>18, <1>19

(* A send or receive is one work request.                                   *)
LEMMA OthersCount ==
  ASSUME AccountInv, NEW q \in QPI
  PROVE  Cardinality(Posts(q)) <= Cardinality(Content(PostedOthers(q)))
  <1>0. Inv /\ TypeOK /\ QueueInv
    BY DEF AccountInv, CallbackInv, Inv
  <1>1. PICK K, O : K = Posts(q) /\ O = PostedOthers(q)
    OBVIOUS
  <1>2. O \in SUBSET Piece /\ IsFiniteSet(Content(O))
    BY <1>1, ChargedApart
  <1>3. PICK f, g : f = [k \in K |-> pushed[q][k]] /\ g = [k \in K |-> 1]
    OBVIOUS
  <1>4. \A k \in K : f[k] \in O
    BY <1>1, <1>3 DEF PostedOthers
  <1>5. \A k \in K : f[k] \in O /\ g[k] \in Nat /\ g[k] >= 1 /\ g[k] <= PieceSize(f[k])
    <2>1. \A k \in K : f[k] \in Piece
      BY <1>2, <1>4
    <2> QED
      BY <1>3, <1>4, <2>1, PieceShape
  <1>6. ASSUME NEW j \in K, NEW k \in K, f[j] = f[k]
        PROVE  j = k
    <2>1. PostEdge(q) \in Nat /\ PostEdge(q) <= Len(pushed[q]) /\ Len(pushed[q]) \in Nat
      BY <1>0, LedgerSizes, EdgeBounds
    <2>2. j \in 1 .. PostEdge(q) /\ k \in 1 .. PostEdge(q)
      BY <1>1 DEF Posts
    <2>3. j \in 1 .. Len(pushed[q]) /\ k \in 1 .. Len(pushed[q])
      BY <2>1, <2>2
    <2> QED
      BY <1>0, <1>3, <1>6, <2>3, QueueFacts
  <1>7. Cardinality(K) <= Cardinality(Content(O))
    BY <1>2, <1>5, <1>6, Numbered
  <1> QED
    BY <1>1, <1>7

(* The chain of a read is as long as its piece; another is one work request.*)
LEMMA PostedCount ==
  ASSUME AccountInv, NEW q \in QPI
  PROVE  /\ Cardinality(PostedWrs(q)) \in Nat
         /\ Cardinality(PostedWrs(q)) <= Cardinality(Content(PostedReads(q))) + Cardinality(Plain(q))
  <1>0. Inv /\ TypeOK /\ QueueInv /\ PlaceInv
    BY DEF AccountInv, CallbackInv, Inv
  <1>1. PICK s, n : s \in Seq(Piece \union {NULL}) /\ n \in Nat /\ s = sq[q] /\ n = Len(s)
    <2>1. sq[q] \in Seq(Piece \union {NULL}) /\ Len(sq[q]) \in Nat
      BY <1>0, Typed
    <2> QED
      BY <2>1
  <1>2. PICK W, R, P : W = PostedWrs(q) /\ R = PostedReads(q) /\ P = Plain(q)
    OBVIOUS
  <1>3. R \in SUBSET Piece /\ IsFiniteSet(Content(R)) /\ Cardinality(Content(R)) \in Nat
    BY <1>2, ChargedApart
  <1>4. P = {k \in 1 .. n : ~IsRead(s[k])} /\ IsFiniteSet(P) /\ Cardinality(P) \in Nat
    <2>1. P = {k \in 1 .. n : ~IsRead(s[k])}
      BY <1>1, <1>2 DEF Plain
    <2>2. P \subseteq 1 .. n
      BY <2>1
    <2> QED
      BY <1>1, <2>1, <2>2, IndexSet
  <1>5. ASSUME NEW z \in W
        PROVE  /\ z = <<z[1], z[2]>> /\ z[1] \in 1 .. n /\ s[z[1]] \in Piece \union {NULL}
               /\ z[2] \in 1 .. IF IsRead(s[z[1]]) THEN PieceSize(s[z[1]]) ELSE 1
    <2>1. PICK k \in DOMAIN sq[q] : z \in {k} \X DOMAIN WrIds(sq[q][k])
      BY <1>2 DEF PostedWrs
    <2>2. k \in 1 .. n /\ s[k] \in Piece \union {NULL}
      BY <1>1, <2>1
    <2>3. z = <<z[1], z[2]>> /\ z[1] = k /\ z[2] \in DOMAIN WrIds(s[k])
      BY <1>1, <2>1
    <2>4. DOMAIN WrIds(s[k]) = 1 .. IF IsRead(s[k]) THEN PieceSize(s[k]) ELSE 1
      BY <2>2, ChainLength
    <2> QED
      BY <2>2, <2>3, <2>4
  <1>6. PICK A, B : /\ A = {z \in W : IsRead(s[z[1]])}
                    /\ B = {z \in W : ~IsRead(s[z[1]])}
    OBVIOUS
  <1>7. IsFiniteSet(A) /\ Cardinality(A) <= Cardinality(Content(R))
    <2>1. PICK f, g : f = [z \in A |-> s[z[1]]] /\ g = [z \in A |-> z[2]]
      OBVIOUS
    <2>2. ASSUME NEW z \in A
          PROVE  /\ f[z] \in R /\ f[z] \in ReadPiece /\ At(f[z], 2, q, z[1]) /\ z[1] \in Nat
                 /\ g[z] \in Nat /\ g[z] >= 1 /\ g[z] <= PieceSize(f[z])
      <3>1. /\ z \in W /\ IsRead(s[z[1]]) /\ f[z] = s[z[1]] /\ g[z] = z[2]
        BY <1>6, <2>1
      <3>2. /\ z[1] \in 1 .. n /\ s[z[1]] \in Piece \union {NULL}
            /\ z[2] \in 1 .. PieceSize(s[z[1]])
        BY <1>5, <3>1
      <3>3. s[z[1]] \in ReadPiece
        BY <3>1, <3>2 DEF IsRead, ReadPiece
      <3>4. PieceSize(s[z[1]]) \in Nat
        BY <3>3, PieceShape, ReadPieceFacts
      <3>5. At(s[z[1]], 2, q, z[1])
        BY <1>1, <3>2 DEF At
      <3>6. s[z[1]] \in R
        BY <1>2, <3>2, <3>3, <3>5 DEF PostedReads
      <3> QED
        BY <3>1, <3>2, <3>3, <3>4, <3>5, <3>6
    <2>3. \A z \in A : f[z] \in R /\ g[z] \in Nat /\ g[z] >= 1 /\ g[z] <= PieceSize(f[z])
      BY <2>2
    <2>4. ASSUME NEW y \in A, NEW z \in A, f[y] = f[z], g[y] = g[z]
          PROVE  y = z
      <3>1. y[1] = z[1]
        <4>1. 2 \in 1 .. 4
          OBVIOUS
        <4> QED
          BY <1>0, <2>2, <2>4, <4>1 DEF PlaceInv
      <3>2. y = <<y[1], y[2]>> /\ z = <<z[1], z[2]>> /\ g[y] = y[2] /\ g[z] = z[2]
        BY <1>5, <1>6, <2>1
      <3> QED
        BY <2>4, <3>1, <3>2
    <2> QED
      BY <1>3, <2>3, <2>4, Numbered
  <1>8. IsFiniteSet(B) /\ Cardinality(B) <= Cardinality(P)
    <2>1. ASSUME NEW z \in B
          PROVE  z[1] \in P /\ z = <<z[1], 1>>
      <3>1. z \in W /\ ~IsRead(s[z[1]])
        BY <1>6
      <3>2. z = <<z[1], z[2]>> /\ z[1] \in 1 .. n /\ z[2] \in 1 .. 1
        BY <1>5, <3>1
      <3> QED
        BY <1>4, <3>1, <3>2
    <2> QED
      BY <1>4, <2>1, FirstsOnly
  <1>9. W \subseteq A \union B
    BY <1>6
  <1>10. /\ Cardinality(W) \in Nat /\ Cardinality(A) \in Nat /\ Cardinality(B) \in Nat
         /\ Cardinality(W) <= Cardinality(A) + Cardinality(B)
    BY <1>7, <1>8, <1>9, TwoParts
  <1>11. Cardinality(W) <= Cardinality(Content(R)) + Cardinality(P)
    BY <1>3, <1>4, <1>7, <1>8, <1>10
  <1> QED
    BY <1>2, <1>10, <1>11

(* The owner of an entry: itself if it names a piece, or the failed read    *)
(* that is reported behind it.                                              *)
Owner(k) ==
  IF cq[k].info # NULL THEN k ELSE CHOOSE j \in 1 .. Len(cq) : Carries(j, k)

(* The entries of a failed read, or the last one of a successful read, stand*)
(* for no more work requests than its piece has Assignments.                *)
LEMMA UnpolledCount ==
  ASSUME AccountInv, NEW q \in QPI
  PROVE  /\ IsFiniteSet(UnpolledWrs(q)) /\ Cardinality(UnpolledWrs(q)) \in Nat
         /\ Cardinality(UnpolledWrs(q)) <= Cardinality(Content(CompletedReads(q))) + Cardinality(Anon(q))
  <1>0. Inv /\ TypeOK /\ QueueInv /\ PlaceInv /\ InfoInv
    BY DEF AccountInv, CallbackInv, Inv
  <1>1. PICK n \in Nat : n = Len(cq)
    BY <1>0, Typed
  <1>2. PICK W, R, P : W = UnpolledWrs(q) /\ R = CompletedReads(q) /\ P = Anon(q)
    OBVIOUS
  <1>3. R \in SUBSET Piece /\ IsFiniteSet(Content(R)) /\ Cardinality(Content(R)) \in Nat
    BY <1>2, ChargedApart
  <1>4. P = {k \in 1 .. n : cq[k].qpi = q /\ ~Owned(k)} /\ IsFiniteSet(P) /\ Cardinality(P) \in Nat
    <2>1. P = {k \in 1 .. n : cq[k].qpi = q /\ ~Owned(k)}
      BY <1>1, <1>2 DEF Anon
    <2>2. P \subseteq 1 .. n
      BY <2>1
    <2> QED
      BY <2>1, <2>2, IndexSet
  <1>5. ASSUME NEW z \in W
        PROVE  /\ z = <<z[1], z[2]>> /\ z[1] \in 1 .. n /\ cq[z[1]].qpi = q
               /\ z[2] \in 1 .. IF cq[z[1]].info = NULL \/ cq[z[1]].status = "FAILED"
                                  THEN 1 ELSE PieceSize(cq[z[1]].info)
    <2>1. DOMAIN cq = 1 .. n
      BY <1>0, <1>1, Typed
    <2>2. PICK k \in {j \in DOMAIN cq : cq[j].qpi = q} :
             z \in {k} \X (1 .. IF cq[k].info = NULL \/ cq[k].status = "FAILED"
                                THEN 1 ELSE PieceSize(cq[k].info))
      BY <1>2 DEF UnpolledWrs
    <2> QED
      BY <2>1, <2>2
  <1>6. PICK A, B : A = {z \in W : Owned(z[1])} /\ B = {z \in W : ~Owned(z[1])}
    OBVIOUS
  <1>7. ASSUME NEW k \in 1 .. n, Owned(k), cq[k].qpi = q
        PROVE  LET j == Owner(k) IN
               /\ j \in 1 .. n /\ cq[j].info \in R /\ cq[j].info \in ReadPiece
               /\ At(cq[j].info, 3, q, j)
               /\ cq[k].info # NULL => j = k
               /\ j # k => k < j /\ cq[j].status = "FAILED" /\ j - k < PieceSize(cq[j].info)
    <2>1. PICK j : j = Owner(k)
      OBVIOUS
    <2>2. cq[k].info # NULL => j = k
      BY <2>1 DEF Owner
    <2>3. j \in 1 .. n /\ Carries(j, k)
      <3>1. CASE cq[k].info # NULL
        BY <2>2, <3>1 DEF Carries
      <3>2. CASE cq[k].info = NULL
        <4>1. j = CHOOSE i \in 1 .. n : Carries(i, k)
          BY <1>1, <2>1, <3>2 DEF Owner
        <4>2. \E i \in 1 .. n : Carries(i, k)
          BY <1>1, <1>7 DEF Owned
        <4> QED
          BY <4>1, <4>2
      <3> QED
        BY <3>1, <3>2
    <2>4. /\ cq[j].info # NULL /\ cq[j].qpi = q
          /\ j # k => k < j /\ cq[j].status = "FAILED" /\ j - k < PieceSize(cq[j].info)
      BY <1>7, <2>3 DEF Carries
    <2>5. cq[j].info \in ReadPiece
      BY <1>0, <1>1, <2>3, <2>4 DEF InfoInv
    <2>6. At(cq[j].info, 3, q, j)
      BY <1>1, <2>3, <2>4 DEF At
    <2>7. cq[j].info \in R
      BY <1>2, <2>3, <2>5, <2>6 DEF CompletedReads
    <2> QED
      BY <2>1, <2>2, <2>3, <2>4, <2>5, <2>6, <2>7
  <1>8. IsFiniteSet(A) /\ Cardinality(A) <= Cardinality(Content(R))
    <2>1. PICK f, g :
             /\ f = [z \in A |-> cq[Owner(z[1])].info]
             /\ g = [z \in A |-> IF cq[Owner(z[1])].status = "FAILED"
                                 THEN PieceSize(cq[Owner(z[1])].info) - (Owner(z[1]) - z[1])
                                 ELSE z[2]]
      OBVIOUS
    <2>2. ASSUME NEW z \in A
          PROVE  \E k \in 1 .. n, j \in 1 .. n, m \in Nat, i \in Nat :
                   /\ z = <<k, i>> /\ j = Owner(k)
                   /\ f[z] = cq[j].info /\ f[z] \in R /\ f[z] \in ReadPiece /\ At(f[z], 3, q, j)
                   /\ m = PieceSize(f[z]) /\ g[z] \in Nat /\ g[z] >= 1 /\ g[z] <= m
                   /\ cq[j].status = "FAILED" => g[z] = m - (j - k) /\ i = 1
                   /\ cq[j].status # "FAILED" => g[z] = i /\ k = j
      <3>1. z \in W /\ Owned(z[1])
        BY <1>6
      <3>2. PICK k, i : k = z[1] /\ i = z[2]
        OBVIOUS
      <3>3. /\ z = <<k, i>> /\ k \in 1 .. n /\ cq[k].qpi = q
            /\ i \in 1 .. IF cq[k].info = NULL \/ cq[k].status = "FAILED"
                            THEN 1 ELSE PieceSize(cq[k].info)
        BY <1>5, <3>1, <3>2
      <3>4. PICK j : j = Owner(k)
        OBVIOUS
      <3>5. /\ j \in 1 .. n /\ cq[j].info \in R /\ cq[j].info \in ReadPiece
            /\ At(cq[j].info, 3, q, j)
            /\ cq[k].info # NULL => j = k
            /\ j # k => k < j /\ cq[j].status = "FAILED" /\ j - k < PieceSize(cq[j].info)
        BY <1>7, <3>1, <3>2, <3>3, <3>4
      <3>6. PICK m \in Nat : m = PieceSize(cq[j].info) /\ m >= 1
        BY <3>5, ReadPieceFacts, PieceShape
      <3>7. /\ f[z] = cq[j].info
            /\ g[z] = IF cq[j].status = "FAILED" THEN m - (j - k) ELSE i
        BY <2>1, <3>2, <3>4, <3>6
      <3>8. CASE cq[j].status = "FAILED"
        <4>1. i = 1
          <5>1. cq[k].info = NULL \/ k = j
            BY <3>5
          <5> QED
            BY <3>3, <3>8, <5>1
        <4>2. k <= j /\ j - k < m
          BY <3>3, <3>5, <3>6
        <4>3. g[z] = m - (j - k) /\ g[z] \in Nat /\ g[z] >= 1 /\ g[z] <= m
          BY <3>3, <3>5, <3>6, <3>7, <3>8, <4>2
        <4> QED
          BY <3>3, <3>4, <3>5, <3>6, <3>7, <3>8, <4>1, <4>3
      <3>9. CASE cq[j].status # "FAILED"
        <4>1. k = j /\ cq[k].info # NULL
          BY <3>5, <3>9, ReadPieceFacts
        <4>2. i \in 1 .. m
          BY <3>3, <3>6, <3>9, <4>1
        <4>3. i \in Nat /\ g[z] = i /\ g[z] \in Nat /\ g[z] >= 1 /\ g[z] <= m
          BY <3>7, <3>9, <4>2
        <4> QED
          BY <3>3, <3>4, <3>5, <3>6, <3>7, <3>9, <4>1, <4>3
      <3> QED
        BY <3>8, <3>9
    <2>3. \A z \in A : f[z] \in R /\ g[z] \in Nat /\ g[z] >= 1 /\ g[z] <= PieceSize(f[z])
      BY <2>2
    <2>4. ASSUME NEW y \in A, NEW z \in A, f[y] = f[z], g[y] = g[z]
          PROVE  y = z
      <3>1. PICK k \in 1 .. n, j \in 1 .. n, m \in Nat, i \in Nat :
              /\ z = <<k, i>> /\ f[z] \in ReadPiece /\ At(f[z], 3, q, j)
              /\ m = PieceSize(f[z])
              /\ cq[j].status = "FAILED" => g[z] = m - (j - k) /\ i = 1
              /\ cq[j].status # "FAILED" => g[z] = i /\ k = j
        BY <2>2
      <3>2. PICK k2 \in 1 .. n, j2 \in 1 .. n, m2 \in Nat, i2 \in Nat :
              /\ y = <<k2, i2>> /\ f[y] \in ReadPiece /\ At(f[y], 3, q, j2)
              /\ m2 = PieceSize(f[y])
              /\ cq[j2].status = "FAILED" => g[y] = m2 - (j2 - k2) /\ i2 = 1
              /\ cq[j2].status # "FAILED" => g[y] = i2 /\ k2 = j2
        BY <2>2
      <3>3. 3 \in 1 .. 4 /\ j \in Nat /\ j2 \in Nat
        OBVIOUS
      <3>4. j = j2
        BY <1>0, <2>4, <3>1, <3>2, <3>3 DEF PlaceInv
      <3>5. m = m2
        BY <2>4, <3>1, <3>2
      <3>6. CASE cq[j].status = "FAILED"
        <4>1. m - (j - k) = m - (j - k2) /\ i = 1 /\ i2 = 1
          BY <2>4, <3>1, <3>2, <3>4, <3>5, <3>6
        <4>2. k = k2
          BY <4>1
        <4> QED
          BY <3>1, <3>2, <4>1, <4>2
      <3>7. CASE cq[j].status # "FAILED"
        <4>1. i = i2 /\ k = k2
          BY <2>4, <3>1, <3>2, <3>4, <3>7
        <4> QED
          BY <3>1, <3>2, <4>1
      <3> QED
        BY <3>6, <3>7
    <2> QED
      BY <1>3, <2>3, <2>4, Numbered
  <1>9. IsFiniteSet(B) /\ Cardinality(B) <= Cardinality(P)
    <2>1. ASSUME NEW z \in B
          PROVE  z[1] \in P /\ z = <<z[1], 1>>
      <3>1. z \in W /\ ~Owned(z[1])
        BY <1>6
      <3>2. /\ z = <<z[1], z[2]>> /\ z[1] \in 1 .. n /\ cq[z[1]].qpi = q
            /\ z[2] \in 1 .. IF cq[z[1]].info = NULL \/ cq[z[1]].status = "FAILED"
                               THEN 1 ELSE PieceSize(cq[z[1]].info)
        BY <1>5, <3>1
      <3>3. cq[z[1]].info = NULL
        BY <1>1, <3>1, <3>2 DEF Owned, Carries
      <3> QED
        BY <1>4, <3>1, <3>2, <3>3
    <2> QED
      BY <1>4, <2>1, FirstsOnly
  <1>10. W \subseteq A \union B
    BY <1>6
  <1>11. /\ IsFiniteSet(W) /\ Cardinality(W) \in Nat /\ Cardinality(A) \in Nat /\ Cardinality(B) \in Nat
         /\ Cardinality(W) <= Cardinality(A) + Cardinality(B)
    BY <1>8, <1>9, <1>10, TwoParts
  <1>12. Cardinality(W) <= Cardinality(Content(R)) + Cardinality(P)
    BY <1>3, <1>4, <1>8, <1>9, <1>11
  <1> QED
    BY <1>2, <1>11, <1>12

(* What a queue pair has in its send queue and in the completion queue      *)
(* together.                                                                *)
LEMMA RoomOfQueuePair ==
  ASSUME AccountInv, LedgerInv, NEW q \in QPI
  PROVE  /\ IsFiniteSet(UnpolledWrs(q)) /\ Cardinality(UnpolledWrs(q)) \in Nat
         /\ Cardinality(PostedWrs(q)) \in Nat /\ Fake(q) \in {0, 1}
         /\ Cardinality(PostedWrs(q)) + Cardinality(UnpolledWrs(q)) <= MAX_SEND_WR - 1 + Fake(q)
  <1>0. Inv /\ QueueInv
    BY DEF AccountInv, CallbackInv
  <1>1. PICK w, u, p, a, s, r, f, x, y, z :
          /\ w = Cardinality(PostedWrs(q)) /\ u = Cardinality(UnpolledWrs(q))
          /\ p = Cardinality(Plain(q)) /\ a = Cardinality(Anon(q)) /\ s = Cardinality(Posts(q))
          /\ r = rq[q] /\ f = Fake(q)
          /\ x = Cardinality(Content(PostedReads(q)))
          /\ y = Cardinality(Content(CompletedReads(q)))
          /\ z = Cardinality(Content(PostedOthers(q)))
    OBVIOUS
  <1>2. w \in Nat /\ u \in Nat /\ w <= x + p /\ u <= y + a /\ s <= z
    BY <1>1, PostedCount, UnpolledCount, OthersCount
  <1>3. p + r + a <= s + f
    BY <1>1 DEF LedgerInv, Ledger
  <1>4. r \in Nat /\ f \in {0, 1}
    BY <1>0, <1>1, LedgerSizes
  <1>5. p \in Nat /\ a \in Nat /\ s \in Nat
    <2>1. PICK l \in Nat, n \in Nat, b \in Nat :
            Plain(q) \subseteq 1 .. l /\ Anon(q) \subseteq 1 .. n /\ Posts(q) \subseteq 1 .. b
      BY <1>0, LedgerSizes
    <2> QED
      BY <1>1, <2>1, IndexSet
  <1>6. x \in Nat /\ y \in Nat /\ z \in Nat /\ x + y + z <= MAX_SEND_WR - 1
    BY <1>1, ChargedApart
  <1>7. w + u <= MAX_SEND_WR - 1 + f
    BY <1>2, <1>3, <1>4, <1>5, <1>6, ConstantsAssumption
  <1>8. IsFiniteSet(UnpolledWrs(q))
    BY UnpolledCount
  <1> QED
    BY <1>1, <1>2, <1>4, <1>7, <1>8

(* A send queue never overflows: the work requests that have been posted to *)
(* a queue pair and whose completions have not been polled are never more   *)
(* than the MAX_SEND_WR it was created for, the fake one of stop_future     *)
(* included.                                                                *)
THEOREM SendQueueNeverOverflows == Reliable /\ Spec => []SendQueueRoom
  <1>1. ASSUME AccountInv, LedgerInv
        PROVE  SendQueueRoom
    <2> SUFFICES ASSUME NEW q \in QPI
                 PROVE  Cardinality(PostedWrs(q)) + Cardinality(UnpolledWrs(q)) <= MAX_SEND_WR
      BY DEF SendQueueRoom
    <2>1. PICK w, u, f : /\ w = Cardinality(PostedWrs(q)) /\ u = Cardinality(UnpolledWrs(q))
                         /\ f = Fake(q)
      OBVIOUS
    <2>2. w \in Nat /\ u \in Nat /\ f \in {0, 1} /\ w + u <= MAX_SEND_WR - 1 + f
      BY <1>1, <2>1, RoomOfQueuePair
    <2>3. w + u <= MAX_SEND_WR
      BY <2>2, ConstantsAssumption
    <2> QED
      BY <2>1, <2>3
  <1> QED
    BY <1>1, AccountInvariance, LedgerInvariance, PTL

-----------------------------------------------------------------------------
(* The room in the completion queue.                                        *)

(* n queue pairs with up to m entries each, the first with one more.        *)
LEMMA ManyOfEach ==
  ASSUME NEW n \in Nat, NEW m \in Nat, n > 0
  PROVE  LET S == ((0 .. (n - 1)) \X (1 .. m)) \union {<<0, m + 1>>}
         IN IsFiniteSet(S) /\ Cardinality(S) \in Nat /\ Cardinality(S) <= n * m + 1
  <1>1. PICK A, B, P, S : /\ A = 0 .. (n - 1) /\ B = 1 .. m /\ P = A \X B
                          /\ S = P \union {<<0, m + 1>>}
    OBVIOUS
  <1>2. IsFiniteSet(A) /\ Cardinality(A) = n /\ IsFiniteSet(B) /\ Cardinality(B) = m
    <2>1. IsFiniteSet(A) /\ Cardinality(A) = IF 0 > n - 1 THEN 0 ELSE (n - 1) - 0 + 1
      BY <1>1, FS_Interval
    <2>2. IsFiniteSet(B) /\ Cardinality(B) = IF 1 > m THEN 0 ELSE m - 1 + 1
      BY <1>1, FS_Interval
    <2> QED
      BY <2>1, <2>2
  <1>3. IsFiniteSet(P) /\ Cardinality(P) = n * m
    <2>1. IsFiniteSet(A \X B) /\ Cardinality(A \X B) = Cardinality(A) * Cardinality(B)
      BY <1>2, FS_Product, Zenon
    <2> QED
      BY <1>1, <1>2, <2>1
  <1>4. /\ IsFiniteSet(S)
        /\ Cardinality(S) = IF <<0, m + 1>> \in P THEN Cardinality(P) ELSE Cardinality(P) + 1
    BY <1>1, <1>3, FS_AddElement
  <1>5. n * m \in Nat
    OBVIOUS
  <1>6. Cardinality(S) \in Nat /\ Cardinality(S) <= n * m + 1
    BY <1>3, <1>4, <1>5
  <1> QED
    BY <1>1, <1>4, <1>6

(* The entries of the completion queue, numbered for each queue pair.       *)
LEMMA CompletionsNumbered ==
  ASSUME AccountInv, LedgerInv, NEW q \in QPI
  PROVE  \E u \in Nat, g \in [Nat -> Nat] :
           /\ u <= MAX_SEND_WR - 1 + Fake(q)
           /\ \A k \in 1 .. Len(cq) : cq[k].qpi = q => \E i \in 1 .. u : g[i] = k
  <1>0. TypeOK /\ Inv /\ InfoInv
    BY DEF AccountInv, CallbackInv, Inv
  <1>1. PICK U, u, w, f : /\ U = UnpolledWrs(q) /\ u = Cardinality(U)
                          /\ w = Cardinality(PostedWrs(q)) /\ f = Fake(q)
    OBVIOUS
  <1>2. IsFiniteSet(U) /\ u \in Nat /\ w \in Nat /\ f \in {0, 1} /\ w + u <= MAX_SEND_WR - 1 + f
    BY <1>1, RoomOfQueuePair
  <1>3. u <= MAX_SEND_WR - 1 + f
    BY <1>2, ConstantsAssumption
  <1>4. PICK b : b \in Surjection(1 .. u, U)
    <2>1. ExistsBijection(1 .. u, U)
      BY <1>1, <1>2, FS_CardinalityType
    <2> QED
      BY <2>1 DEF ExistsBijection, Bijection
  <1>5. \A x \in U : \E i \in 1 .. u : b[i] = x
    BY <1>4 DEF Surjection
  <1>6. ASSUME NEW k \in 1 .. Len(cq), cq[k].qpi = q
        PROVE  <<k, 1>> \in U
    <2>1. k \in DOMAIN cq /\ cq[k] \in Cqe
      BY <1>0, Typed DEF TypeOK, DeviceTypeOK
    <2>2. cq[k].info # NULL => 1 <= PieceSize(cq[k].info) /\ PieceSize(cq[k].info) \in Nat
      BY <2>1, PieceShape DEF Cqe
    <2>3. <<k, 1>> \in {k} \X (1 .. IF cq[k].info = NULL \/ cq[k].status = "FAILED"
                                     THEN 1 ELSE PieceSize(cq[k].info))
      BY <2>2
    <2> QED
      BY <1>1, <1>6, <2>1, <2>3 DEF UnpolledWrs
  <1>7. PICK g : g = [i \in Nat |-> IF i \in 1 .. u /\ b[i][1] \in Nat THEN b[i][1] ELSE 0]
    OBVIOUS
  <1>8. g \in [Nat -> Nat]
    BY <1>7
  <1>9. ASSUME NEW k \in 1 .. Len(cq), cq[k].qpi = q
        PROVE  \E i \in 1 .. u : g[i] = k
    <2>1. PICK i \in 1 .. u : b[i] = <<k, 1>>
      BY <1>5, <1>6, <1>9
    <2>2. i \in Nat /\ k \in Nat
      BY <1>2
    <2>3. g[i] = k
      BY <1>7, <2>1, <2>2
    <2> QED
      BY <2>3
  <1> QED
    BY <1>1, <1>2, <1>3, <1>8, <1>9

(* The completion queue serves every queue pair and the code creates it     *)
(* with MAX_SEND_WR + MAX_RECV_WR entries, 2 * MAX_SEND_WR of them: it      *)
(* never holds more than MAX_SEND_WR - 1 for each queue pair and one for    *)
(* the stop, however late the completion thread polls.                      *)
CompletionsFit == Len(cq) <= QpListLen * (MAX_SEND_WR - 1) + 1

THEOREM CompletionsAreBounded == Reliable /\ Spec => []CompletionsFit
  <1>1. ASSUME AccountInv, LedgerInv
        PROVE  CompletionsFit
    <2>0. TypeOK /\ cq \in Seq(Cqe) /\ Len(cq) \in Nat
      BY <1>1 DEF AccountInv, CallbackInv, Inv, TypeOK, DeviceTypeOK
    <2>1. PICK m \in Nat : m = MAX_SEND_WR - 1
      BY ConstantsAssumption
    <2>2. QpListLen \in Nat /\ QpListLen > 0 /\ 0 \in QPI
      BY ConstantsAssumption DEF QPI
    <2>3. PICK S, n, l : /\ S = ((0 .. (QpListLen - 1)) \X (1 .. m)) \union {<<0, m + 1>>}
                         /\ n = Cardinality(S) /\ l = Len(cq)
      OBVIOUS
    <2>4. IsFiniteSet(S) /\ n \in Nat /\ n <= QpListLen * m + 1
      BY <2>2, <2>3, ManyOfEach
    <2> DEFINE Good(q, u, g) ==
          /\ u \in Nat /\ u <= MAX_SEND_WR - 1 + Fake(q)
          /\ \A k \in 1 .. l : cq[k].qpi = q => \E i \in 1 .. u : g[i] = k
    <2>5. PICK U : U = [q \in QPI |-> CHOOSE u : \E g : Good(q, u, g)]
      OBVIOUS
    <2>6. PICK G : G = [q \in QPI |-> CHOOSE g : Good(q, U[q], g)]
      OBVIOUS
    <2>7. ASSUME NEW q \in QPI
          PROVE  Good(q, U[q], G[q])
      <3>1. PICK u, g : Good(q, u, g)
        <4>1. PICK u \in Nat, g \in [Nat -> Nat] :
                /\ u <= MAX_SEND_WR - 1 + Fake(q)
                /\ \A k \in 1 .. Len(cq) : cq[k].qpi = q => \E i \in 1 .. u : g[i] = k
          BY <1>1, CompletionsNumbered
        <4>2. Good(q, u, g)
          BY <2>3, <4>1
        <4> HIDE DEF Good
        <4> QED
          BY <4>2
      <3> HIDE DEF Good
      <3>2. \E v : \E o : Good(q, v, o)
        BY <3>1
      <3>3. \E o : Good(q, U[q], o)
        BY <2>5, <3>2
      <3> QED
        BY <2>6, <3>3
    <2>8. ASSUME NEW k \in 1 .. l
          PROVE  \E x \in S : x[1] \in QPI /\ x[2] \in 1 .. U[x[1]] /\ G[x[1]][x[2]] = k
      <3>1. PICK q \in QPI : cq[k].qpi = q
        <4>1. cq[k] \in Cqe
          BY <2>0, <2>3, <2>8
        <4> QED
          BY <4>1 DEF Cqe
      <3>2. PICK i \in 1 .. U[q] : G[q][i] = k
        BY <2>7, <3>1
      <3>3. i \in Nat /\ i >= 1 /\ i <= m + Fake(q) /\ Fake(q) \in {0, 1}
        BY <1>1, <2>1, <2>7, RoomOfQueuePair
      <3>4. <<q, i>> \in S
        <4>1. CASE i \in 1 .. m
          BY <2>3, <4>1 DEF QPI
        <4>2. CASE i \notin 1 .. m
          <5>1. Fake(q) = 1 /\ i = m + 1
            BY <3>3, <4>2
          <5>2. q = 0
            BY <5>1 DEF Fake
          <5> QED
            BY <2>3, <5>1, <5>2
        <4> QED
          BY <4>1, <4>2
      <3> QED
        BY <3>2, <3>4
    <2>9. PICK h : h = [x \in S |-> IF x[1] \in QPI /\ x[2] \in 1 .. U[x[1]] /\ G[x[1]][x[2]] \in 1 .. l
                                     THEN G[x[1]][x[2]] ELSE 1]
      OBVIOUS
    <2>10. CASE l = 0
      <3>1. QpListLen * m \in Nat
        BY <2>2
      <3> QED
        BY <2>1, <2>3, <2>10, <3>1 DEF CompletionsFit
    <2>11. CASE l # 0
      <3>1. l \in Nat /\ 1 \in 1 .. l
        BY <2>0, <2>3, <2>11
      <3>2. h \in [S -> 1 .. l]
        BY <2>9, <3>1
      <3>3. \A k \in 1 .. l : \E x \in S : h[x] = k
        BY <2>8, <2>9
      <3>4. h \in Surjection(S, 1 .. l)
        BY <3>2, <3>3 DEF Surjection
      <3>5. Cardinality(1 .. l) <= n
        BY <2>3, <2>4, <3>4, FS_Surjection
      <3>6. Cardinality(1 .. l) = l
        BY <3>1, FS_Interval
      <3>7. l <= n
        BY <3>5, <3>6
      <3>8. l <= QpListLen * m + 1
        <4>1. QpListLen * m \in Nat
          BY <2>2
        <4> QED
          BY <2>4, <3>1, <3>7, <4>1
      <3> QED
        BY <2>1, <2>3, <3>8 DEF CompletionsFit
    <2> QED
      BY <2>10, <2>11
  <1> QED
    BY <1>1, AccountInvariance, LedgerInvariance, PTL
=============================================================================
