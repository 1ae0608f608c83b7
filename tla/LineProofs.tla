----------------------------- MODULE LineProofs -----------------------------
(***************************************************************************)
(* Proofs about the line between TaskExecutor and the board: replies carry *)
(* no number, so each has to meet the exchange that waits for it by its    *)
(* place alone, with interrupts in between.                                *)
(***************************************************************************)
EXTENDS ServiceProofs, FunctionTheorems

-----------------------------------------------------------------------------
(* Awaited replies, in order, against what is on the line.                 *)

\* A request is awaited by its task or by the synchronous exchange.
RequestOf(n) == [from |-> n, kind |-> task[n].kind]

Accepts(a, p) == p.from = a.from /\ p.opcode \in {ExpectedOpcode(a.kind), "NACK"}

\* The first m awaited replies A are on the line P, at the places h and in this
\* order, with interrupts and nothing else between them; the board has yet to
\* answer the others, which are the requests R.
Fits(m, h, A, P, R) ==
    /\ m \in Nat /\ Len(A) = m + Len(R)
    /\ h \in [1 .. m -> 1 .. Len(P)]
    /\ \A i, j \in 1 .. m : i < j => h[i] < h[j]
    /\ \A k \in 1 .. Len(P) : P[k].opcode = "INT" \/ \E i \in 1 .. m : h[i] = k
    /\ \A i \in 1 .. m : Accepts(A[i], P[h[i]])
    /\ \A i \in 1 .. Len(R) : R[i] = A[m + i]

InOrder(A, P, R) == \E m, h : Fits(m, h, A, P, R)

LEMMA AcceptsReply ==
    ASSUME NEW a, NEW p, Accepts(a, p)
    PROVE  p.opcode # "INT" /\ p.opcode # "other"
BY DEF Accepts, ExpectedOpcode

LEMMA FitsSend ==
    ASSUME NEW A \in Seq(Requests), NEW P \in Seq(Replies), NEW R \in Seq(Requests),
           NEW a \in Requests, InOrder(A, P, R)
    PROVE  InOrder(Append(A, a), P, Append(R, a))
<1>1. PICK m, h : Fits(m, h, A, P, R)
  BY DEF InOrder
<1>2. /\ Len(A) \in Nat /\ Len(R) \in Nat /\ m \in Nat /\ Len(A) = m + Len(R)
      /\ Len(Append(A, a)) = Len(A) + 1 /\ Len(Append(R, a)) = Len(R) + 1
      /\ \A i \in 1 .. Len(A) : Append(A, a)[i] = A[i]
      /\ \A i \in 1 .. Len(R) : Append(R, a)[i] = R[i]
      /\ Append(A, a)[Len(A) + 1] = a /\ Append(R, a)[Len(R) + 1] = a
  BY <1>1, AppendProperties, LenProperties DEF Fits
<1>3. \A i \in 1 .. m : Accepts(Append(A, a)[i], P[h[i]])
  BY <1>1, <1>2 DEF Fits
<1>4. \A i \in 1 .. Len(Append(R, a)) : Append(R, a)[i] = Append(A, a)[m + i]
  <2>1. ASSUME NEW i \in 1 .. Len(R)
        PROVE  Append(R, a)[i] = Append(A, a)[m + i]
    BY <1>1, <1>2 DEF Fits
  <2>. QED
    BY <1>2, <2>1
<1>5. Len(Append(A, a)) = m + Len(Append(R, a))
  BY <1>2
<1>6. Fits(m, h, Append(A, a), P, Append(R, a))
  <2>1. /\ m \in Nat /\ h \in [1 .. m -> 1 .. Len(P)]
        /\ \A i, j \in 1 .. m : i < j => h[i] < h[j]
        /\ \A k \in 1 .. Len(P) : P[k].opcode = "INT" \/ \E i \in 1 .. m : h[i] = k
    BY <1>1 DEF Fits
  <2>. QED
    BY <1>3, <1>4, <1>5, <2>1 DEF Fits
<1>. QED
  BY <1>6 DEF InOrder

LEMMA FitsAnswer ==
    ASSUME NEW A \in Seq(Requests), NEW P \in Seq(Replies), NEW R \in Seq(Requests),
           R # << >>, NEW p \in Replies, Accepts(Head(R), p), InOrder(A, P, R)
    PROVE  InOrder(A, Append(P, p), Tail(R))
<1>1. PICK m, h : Fits(m, h, A, P, R)
  BY DEF InOrder
<1>. DEFINE Q == Append(P, p)
            g == [i \in 1 .. m + 1 |-> IF i = m + 1 THEN Len(P) + 1 ELSE h[i]]
<1>2. /\ Len(P) \in Nat /\ m \in Nat /\ Len(A) = m + Len(R)
      /\ Len(Q) = Len(P) + 1 /\ Q[Len(P) + 1] = p
      /\ \A k \in 1 .. Len(P) : Q[k] = P[k]
  BY <1>1, AppendProperties, LenProperties DEF Fits
<1>3. /\ Len(R) \in Nat \ {0} /\ Len(Tail(R)) = Len(R) - 1 /\ Head(R) = R[1]
      /\ \A i \in 1 .. Len(R) - 1 : Tail(R)[i] = R[i + 1]
  BY HeadTailProperties, EmptySeq
<1>4. h \in [1 .. m -> 1 .. Len(P)]
  BY <1>1 DEF Fits
<1>5. /\ g \in [1 .. m + 1 -> 1 .. Len(Q)] /\ g[m + 1] = Len(P) + 1
      /\ \A i \in 1 .. m : g[i] = h[i]
  BY <1>2, <1>4
<1>. HIDE DEF g, Q
<1>6. \A i, j \in 1 .. m + 1 : i < j => g[i] < g[j]
  <2>1. \A i, j \in 1 .. m : i < j => h[i] < h[j]
    BY <1>1 DEF Fits
  <2>. QED
    BY <1>2, <1>4, <1>5, <2>1
<1>7. \A k \in 1 .. Len(Q) : Q[k].opcode = "INT" \/ \E i \in 1 .. m + 1 : g[i] = k
  <2>1. \A k \in 1 .. Len(P) : P[k].opcode = "INT" \/ \E i \in 1 .. m : h[i] = k
    BY <1>1 DEF Fits
  <2>2. ASSUME NEW k \in 1 .. Len(Q)
        PROVE  Q[k].opcode = "INT" \/ \E i \in 1 .. m + 1 : g[i] = k
    <3>1. CASE k = Len(P) + 1
      BY <1>2, <1>5, <3>1
    <3>2. CASE k \in 1 .. Len(P)
      BY <1>2, <1>5, <2>1, <3>2
    <3>. QED
      BY <1>2, <3>1, <3>2
  <2>. QED
    BY <2>2
<1>8. \A i \in 1 .. m + 1 : Accepts(A[i], Q[g[i]])
  <2>0. /\ \A i \in 1 .. m : Accepts(A[i], P[h[i]])
        /\ \A i \in 1 .. Len(R) : R[i] = A[m + i]
    BY <1>1 DEF Fits
  <2>1. R[1] = A[m + 1]
    BY <1>3, <2>0
  <2>2. ASSUME NEW i \in 1 .. m
        PROVE  Accepts(A[i], Q[g[i]])
    <3>1. h[i] \in 1 .. Len(P) /\ g[i] = h[i]
      BY <1>4, <1>5
    <3>2. Q[g[i]] = P[h[i]]
      BY <1>2, <3>1
    <3>. QED
      BY <2>0, <3>2
  <2>3. Accepts(A[m + 1], Q[g[m + 1]])
    BY <1>2, <1>3, <1>5, <2>1
  <2>. QED
    BY <1>2, <2>2, <2>3
<1>9. \A i \in 1 .. Len(Tail(R)) : Tail(R)[i] = A[m + 1 + i]
  <2>1. ASSUME NEW i \in 1 .. Len(R) - 1
        PROVE  R[i + 1] = A[m + (i + 1)]
    BY <1>1, <1>3 DEF Fits
  <2>. QED
    BY <1>2, <1>3, <2>1
<1>10. m + 1 \in Nat /\ Len(A) = m + 1 + Len(Tail(R))
  BY <1>2, <1>3
<1>11. Fits(m + 1, g, A, Q, Tail(R))
  BY <1>5, <1>6, <1>7, <1>8, <1>9, <1>10 DEF Fits
<1>. QED
  BY <1>11 DEF InOrder, Q

LEMMA FitsInterrupt ==
    ASSUME NEW A \in Seq(Requests), NEW P \in Seq(Replies), NEW R \in Seq(Requests),
           NEW p \in Replies, p.opcode = "INT", InOrder(A, P, R)
    PROVE  InOrder(A, Append(P, p), R)
<1>1. PICK m, h : Fits(m, h, A, P, R)
  BY DEF InOrder
<1>. DEFINE Q == Append(P, p)
<1>2. /\ Len(P) \in Nat /\ Len(Q) = Len(P) + 1 /\ Q[Len(P) + 1] = p
      /\ \A k \in 1 .. Len(P) : Q[k] = P[k]
  BY AppendProperties, LenProperties
<1>. HIDE DEF Q
<1>3. h \in [1 .. m -> 1 .. Len(P)] /\ h \in [1 .. m -> 1 .. Len(Q)]
  BY <1>1, <1>2 DEF Fits
<1>4. \A k \in 1 .. Len(Q) : Q[k].opcode = "INT" \/ \E i \in 1 .. m : h[i] = k
  <2>1. \A k \in 1 .. Len(P) : P[k].opcode = "INT" \/ \E i \in 1 .. m : h[i] = k
    BY <1>1 DEF Fits
  <2>2. ASSUME NEW k \in 1 .. Len(Q)
        PROVE  Q[k].opcode = "INT" \/ \E i \in 1 .. m : h[i] = k
    <3>1. k = Len(P) + 1 \/ k \in 1 .. Len(P)
      BY <1>2
    <3>. QED
      BY <1>2, <2>1, <3>1
  <2>. QED
    BY <2>2
<1>5. \A i \in 1 .. m : Accepts(A[i], Q[h[i]])
  BY <1>1, <1>2, <1>3 DEF Fits
<1>6. Fits(m, h, A, Q, R)
  BY <1>1, <1>3, <1>4, <1>5 DEF Fits
<1>. QED
  BY <1>6 DEF InOrder, Q

LEMMA FitsSkip ==
    ASSUME NEW A \in Seq(Requests), NEW P \in Seq(Replies), NEW R \in Seq(Requests),
           P # << >>, Head(P).opcode = "INT", InOrder(A, P, R)
    PROVE  InOrder(A, Tail(P), R)
<1>1. PICK m, h : Fits(m, h, A, P, R)
  BY DEF InOrder
<1>. DEFINE Q == Tail(P)
            g == [i \in 1 .. m |-> h[i] - 1]
<1>2. /\ Len(P) \in Nat \ {0} /\ Len(Q) = Len(P) - 1 /\ Head(P) = P[1]
      /\ \A k \in 1 .. Len(P) - 1 : Q[k] = P[k + 1]
  BY HeadTailProperties, EmptySeq
<1>3. m \in Nat /\ h \in [1 .. m -> 1 .. Len(P)]
  BY <1>1 DEF Fits
<1>4. ASSUME NEW i \in 1 .. m
      PROVE  h[i] \in 2 .. Len(P)
  <2>1. P[h[i]].opcode # "INT"
    BY <1>1, AcceptsReply DEF Fits
  <2>. QED
    BY <1>2, <1>3, <2>1
<1>5. g \in [1 .. m -> 1 .. Len(Q)] /\ \A i \in 1 .. m : g[i] = h[i] - 1
  BY <1>2, <1>4
<1>. HIDE DEF g, Q
<1>6. \A i, j \in 1 .. m : i < j => g[i] < g[j]
  <2>1. \A i, j \in 1 .. m : i < j => h[i] < h[j]
    BY <1>1 DEF Fits
  <2>2. \A i \in 1 .. m : h[i] \in Nat /\ g[i] = h[i] - 1
    BY <1>2, <1>4, <1>5
  <2>. QED
    BY <2>1, <2>2
<1>7. \A k \in 1 .. Len(Q) : Q[k].opcode = "INT" \/ \E i \in 1 .. m : g[i] = k
  <2>1. \A k \in 1 .. Len(P) : P[k].opcode = "INT" \/ \E i \in 1 .. m : h[i] = k
    BY <1>1 DEF Fits
  <2>2. ASSUME NEW k \in 1 .. Len(Q)
        PROVE  Q[k].opcode = "INT" \/ \E i \in 1 .. m : g[i] = k
    <3>1. k + 1 \in 1 .. Len(P) /\ Q[k] = P[k + 1]
      BY <1>2
    <3>2. P[k + 1].opcode = "INT" \/ \E i \in 1 .. m : h[i] = k + 1
      BY <2>1, <3>1
    <3>. QED
      BY <1>5, <3>1, <3>2
  <2>. QED
    BY <2>2
<1>8. ASSUME NEW i \in 1 .. m
      PROVE  Accepts(A[i], Q[g[i]])
  <2>1. g[i] \in 1 .. Len(P) - 1 /\ g[i] + 1 = h[i]
    BY <1>2, <1>4, <1>5
  <2>2. Q[g[i]] = P[h[i]]
    BY <1>2, <2>1
  <2>. QED
    BY <1>1, <2>2 DEF Fits
<1>9. Fits(m, g, A, Q, R)
  BY <1>1, <1>5, <1>6, <1>7, <1>8 DEF Fits
<1>. QED
  BY <1>9 DEF InOrder, Q

\* A reply at the head of the line is the first one awaited.
LEMMA FitsReceive ==
    ASSUME NEW A \in Seq(Requests), NEW P \in Seq(Replies), NEW R \in Seq(Requests),
           P # << >>, Head(P).opcode # "INT", InOrder(A, P, R)
    PROVE  A # << >> /\ Accepts(Head(A), Head(P)) /\ InOrder(Tail(A), Tail(P), R)
<1>1. PICK m, h : Fits(m, h, A, P, R)
  BY DEF InOrder
<1>. DEFINE B == Tail(A)
            Q == Tail(P)
            g == [i \in 1 .. m - 1 |-> h[i + 1] - 1]
<1>2. /\ Len(P) \in Nat \ {0} /\ Len(Q) = Len(P) - 1 /\ Head(P) = P[1]
      /\ \A k \in 1 .. Len(P) - 1 : Q[k] = P[k + 1]
  BY HeadTailProperties, EmptySeq
<1>3. /\ m \in Nat /\ Len(A) = m + Len(R) /\ Len(R) \in Nat /\ h \in [1 .. m -> 1 .. Len(P)]
      /\ \A i, j \in 1 .. m : i < j => h[i] < h[j]
  BY <1>1, LenProperties DEF Fits
<1>4. /\ \A k \in 1 .. Len(P) : P[k].opcode = "INT" \/ \E i \in 1 .. m : h[i] = k
      /\ \A i \in 1 .. m : Accepts(A[i], P[h[i]])
      /\ \A i \in 1 .. Len(R) : R[i] = A[m + i]
  BY <1>1 DEF Fits
<1>5. m >= 1 /\ h[1] = 1
  <2>1. PICK i \in 1 .. m : h[i] = 1
    BY <1>2, <1>4
  <2>2. h[1] \in 1 .. Len(P) /\ (1 < i => h[1] < h[i])
    BY <1>3
  <2>. QED
    BY <1>2, <1>3, <2>1, <2>2
<1>6. /\ A # << >> /\ Len(B) = Len(A) - 1 /\ Head(A) = A[1]
      /\ \A k \in 1 .. Len(A) - 1 : B[k] = A[k + 1]
  <2>1. A # << >>
    BY <1>3, <1>5
  <2>. QED
    BY <2>1, HeadTailProperties
<1>7. Accepts(Head(A), Head(P))
  BY <1>2, <1>3, <1>4, <1>5, <1>6
<1>8. ASSUME NEW i \in 1 .. m - 1
      PROVE  i + 1 \in 1 .. m /\ h[i + 1] \in 2 .. Len(P)
  <2>1. i + 1 \in 1 .. m /\ 1 \in 1 .. m /\ 1 < i + 1
    BY <1>3
  <2>2. h[1] < h[i + 1] /\ h[i + 1] \in 1 .. Len(P)
    BY <1>3, <2>1
  <2>. QED
    BY <1>2, <1>5, <2>1, <2>2
<1>9. g \in [1 .. m - 1 -> 1 .. Len(Q)] /\ \A i \in 1 .. m - 1 : g[i] = h[i + 1] - 1
  BY <1>2, <1>8
<1>. HIDE DEF g, B, Q
<1>10. ASSUME NEW i \in 1 .. m - 1, NEW j \in 1 .. m - 1, i < j
       PROVE  g[i] < g[j]
  <2>1. h[i + 1] < h[j + 1]
    BY <1>3, <1>8, <1>10
  <2>. QED
    BY <1>8, <1>9, <2>1
<1>11. ASSUME NEW k \in 1 .. Len(Q)
       PROVE  Q[k].opcode = "INT" \/ \E i \in 1 .. m - 1 : g[i] = k
  <2>1. k + 1 \in 1 .. Len(P) /\ Q[k] = P[k + 1]
    BY <1>2
  <2>2. CASE P[k + 1].opcode = "INT"
    BY <2>1, <2>2
  <2>3. CASE \E i \in 1 .. m : h[i] = k + 1
    <3>1. PICK i \in 1 .. m : h[i] = k + 1
      BY <2>3
    <3>2. PICK j \in 1 .. m - 1 : i = j + 1
      BY <1>2, <1>3, <1>5, <3>1
    <3>. QED
      BY <1>9, <3>1, <3>2
  <2>. QED
    BY <1>4, <2>1, <2>2, <2>3
<1>12. ASSUME NEW i \in 1 .. m - 1
       PROVE  Accepts(B[i], Q[g[i]])
  <2>1. g[i] \in 1 .. Len(P) - 1 /\ g[i] + 1 = h[i + 1]
    BY <1>2, <1>8, <1>9
  <2>2. Q[g[i]] = P[h[i + 1]]
    BY <1>2, <2>1
  <2>3. B[i] = A[i + 1]
    BY <1>3, <1>6
  <2>. QED
    BY <1>4, <1>8, <2>2, <2>3
<1>13. ASSUME NEW i \in 1 .. Len(R)
       PROVE  R[i] = B[m - 1 + i]
  <2>1. m - 1 + i \in 1 .. Len(A) - 1 /\ (m - 1 + i) + 1 = m + i
    BY <1>3, <1>5
  <2>. QED
    BY <1>4, <1>6, <2>1
<1>14. m - 1 \in Nat /\ Len(B) = m - 1 + Len(R)
  BY <1>3, <1>5, <1>6
<1>15. Fits(m - 1, g, B, Q, R)
  BY <1>9, <1>10, <1>11, <1>12, <1>13, <1>14 DEF Fits
<1>16. InOrder(B, Q, R)
  BY <1>15 DEF InOrder
<1>. QED
  BY <1>6, <1>7, <1>16 DEF B, Q

\* Nothing is on the line but interrupts when no reply is awaited, and a reply
\* that is awaited is on the line or requested.
LEMMA FitsNone ==
    ASSUME NEW A \in Seq(Requests), NEW P \in Seq(Replies), NEW R \in Seq(Requests),
           InOrder(A, P, R)
    PROVE  /\ A = << >> => R = << >> /\ \A k \in 1 .. Len(P) : P[k].opcode = "INT"
           /\ P = << >> /\ R = << >> => A = << >>
           /\ \A k \in 1 .. Len(P) : P[k].opcode # "other"
<1>1. PICK m, h : Fits(m, h, A, P, R)
  BY DEF InOrder
<1>2. /\ m \in Nat /\ Len(A) = m + Len(R) /\ Len(R) \in Nat /\ h \in [1 .. m -> 1 .. Len(P)]
      /\ \A k \in 1 .. Len(P) : P[k].opcode = "INT" \/ \E i \in 1 .. m : h[i] = k
  BY <1>1, LenProperties DEF Fits
<1>3. CASE A = << >>
  <2>1. m = 0 /\ Len(R) = 0
    BY <1>2, <1>3
  <2>. QED
    BY <1>2, <2>1, EmptySeq
<1>4. CASE P = << >> /\ R = << >>
  <2>1. m = 0
    <3>1. Len(P) = 0
      BY <1>4
    <3>2. m # 0 => h[1] \in 1 .. 0
      BY <1>2, <3>1
    <3>. QED
      BY <1>2, <3>2
  <2>2. Len(A) = 0
    BY <1>2, <1>4, <2>1
  <2>. QED
    BY <1>4, <2>2, EmptySeq
<1>5. \A k \in 1 .. Len(P) : P[k].opcode # "other"
  <2>1. \A i \in 1 .. m : Accepts(A[i], P[h[i]])
    BY <1>1 DEF Fits
  <2>. QED
    BY <1>2, <2>1, AcceptsReply
<1>. QED
  BY <1>3, <1>4, <1>5

LEMMA FitsEmpty == InOrder(<< >>, << >>, << >>)
<1>. DEFINE h == [i \in 1 .. 0 |-> i]
<1>1. Fits(0, h, << >>, << >>, << >>)
  BY DEF Fits
<1>. QED
  BY <1>1 DEF InOrder

-----------------------------------------------------------------------------
(* The replies the host awaits.                                            *)

\* The reply the innermost call waits for, and those of the running tasks.
First   == IF At("recv") THEN << [from |-> Top.task, kind |-> Expects] >> ELSE << >>
Rest    == [i \in 1 .. Len(running) |-> RequestOf(running[i])]
Awaited == First \o Rest

LEMMA AwaitedType ==
    ASSUME IInv
    PROVE  First \in Seq(Requests) /\ Rest \in Seq(Requests) /\ Awaited \in Seq(Requests)
<1>1. ASSUME NEW n \in Requested
      PROVE  n \in Num /\ RequestOf(n) \in Requests
  <2>1. n \in Num /\ task[n] \in Tasks
    BY AcceptedTask DEF IInv, Requested
  <2>. QED
    BY <2>1 DEF Tasks, Requests, RequestOf
<1>2. running \in Seq(Requested)
  BY DEF IInv, TasksInPlace
<1>3. Rest \in Seq(Requests)
  <2>1. Len(running) \in Nat /\ \A i \in 1 .. Len(running) : running[i] \in Requested
    BY <1>2
  <2>2. \A i \in 1 .. Len(running) : RequestOf(running[i]) \in Requests
    BY <1>1, <2>1
  <2>. QED
    BY <2>1, <2>2 DEF Rest
<1>4. First \in Seq(Requests)
  <2>1. CASE At("recv")
    <3>1. Top \in GoodFrames /\ Top \in Frames /\ Top.at = "recv"
      BY <2>1, TopInPlace DEF IInv, At, GoodFrames
    <3>2. Top.task \in Num \cup {Sync} /\ Expects \in AllKinds
      <4>1. Top.task \in Requested \cup {Sync} /\ Top.kind \in AllKinds
        BY <3>1 DEF GoodFrames, Frames
      <4>2. Top.task # Sync => task[Top.task] \in Tasks
        BY <4>1, AcceptedTask DEF IInv, Requested
      <4>3. Top.task \in Num \cup {Sync}
        BY <3>1 DEF Frames
      <4>. QED
        BY <4>1, <4>2, <4>3 DEF Expects, Tasks
    <3>3. [from |-> Top.task, kind |-> Expects] \in Requests
      BY <3>2 DEF Requests
    <3>. QED
      BY <2>1, <3>3 DEF First
  <2>2. CASE ~At("recv")
    BY <2>2, EmptySeq DEF First
  <2>. QED
    BY <2>1, <2>2
<1>. QED
  BY <1>3, <1>4, ConcatProperties DEF Awaited

\* No step changes the exchange an accepted task stands for.
KindsKept == \A n \in Accepted : task'[n].kind = task[n].kind

LEMMA AttemptKind ==
    ASSUME TypeOK, NEW n \in Accepted, task' = [task EXCEPT ![n].attempt = @ + 1]
    PROVE  KindsKept
<1>1. n \in Num /\ task[n] \in Tasks /\ task \in [Num -> Tasks \cup {NoTask}]
  BY AcceptedTask DEF TypeOK
<1>2. task'[n].kind = task[n].kind /\ \A m \in Num : m # n => task'[m] = task[m]
  BY <1>1 DEF Tasks
<1>. QED
  BY <1>2 DEF KindsKept, Accepted

LEMMA RestSame ==
    ASSUME IInv, KindsKept, running' = running
    PROVE  Rest' = Rest
<1>1. \A i \in 1 .. Len(running) : running[i] \in Accepted
  BY DEF IInv, TasksInPlace, Requested
<1>2. \A i \in 1 .. Len(running) : RequestOf(running[i])' = RequestOf(running[i])
  BY <1>1 DEF KindsKept, RequestOf
<1>. QED
  BY <1>2 DEF Rest

LEMMA RestMore ==
    ASSUME IInv, KindsKept, NEW n \in Num, running' = Append(running, n)
    PROVE  Rest' = Append(Rest, [from |-> n, kind |-> task'[n].kind])
<1>1. running \in Seq(Num) /\ \A i \in 1 .. Len(running) : running[i] \in Accepted
  BY DEF IInv, TypeOK, TasksInPlace, Requested
<1>2. /\ Len(running) \in Nat /\ Len(running') = Len(running) + 1
      /\ running'[Len(running) + 1] = n
      /\ \A i \in 1 .. Len(running) : running'[i] = running[i]
  BY <1>1, AppendProperties, LenProperties
<1>. DEFINE r == [from |-> n, kind |-> task'[n].kind]
<1>3. Rest \in Seq(Requests) /\ Len(Rest) = Len(running)
  BY <1>2, AwaitedType DEF Rest
<1>4. Rest \in Seq(Requests \cup {r}) /\ r \in Requests \cup {r}
  BY <1>3, SeqMonotonic
<1>. HIDE DEF r
<1>5. /\ Append(Rest, r) \in Seq(Requests \cup {r}) /\ Len(Append(Rest, r)) = Len(running) + 1
      /\ Append(Rest, r)[Len(running) + 1] = r
      /\ \A i \in 1 .. Len(running) : Append(Rest, r)[i] = Rest[i]
  BY <1>3, <1>4, AppendProperties
<1>. DEFINE next(i) == [from |-> running'[i], kind |-> task'[running'[i]].kind]
<1>6. Rest' = [i \in 1 .. Len(running) + 1 |-> next(i)]
  BY <1>2 DEF Rest, RequestOf
<1>7. ASSUME NEW i \in 1 .. Len(running) + 1
      PROVE  next(i) = Append(Rest, r)[i]
  <2>1. CASE i \in 1 .. Len(running)
    <3>1. next(i) = RequestOf(running[i])
      BY <1>1, <1>2, <2>1 DEF KindsKept, RequestOf
    <3>2. Rest[i] = RequestOf(running[i])
      BY <2>1 DEF Rest
    <3>. QED
      BY <1>5, <2>1, <3>1, <3>2
  <2>2. CASE i = Len(running) + 1
    <3>1. running'[i] = n
      BY <1>2, <2>2
    <3>2. next(i) = r
      BY <3>1 DEF r
    <3>. QED
      BY <1>5, <2>2, <3>2
  <2>3. i \in 1 .. Len(running) \/ i = Len(running) + 1
    <3>1. Len(running) \in Nat
      BY <1>2
    <3>. QED
      BY <3>1
  <2>. QED
    BY <2>1, <2>2, <2>3
<1>8. Append(Rest, r) = [i \in 1 .. Len(running) + 1 |-> Append(Rest, r)[i]]
  <2>. DEFINE s == Append(Rest, r)
  <2>1. s \in Seq(Requests \cup {r}) /\ Len(s) = Len(running) + 1
    BY <1>5
  <2>. HIDE DEF s
  <2>2. s = [i \in 1 .. Len(s) |-> s[i]]
    BY <2>1
  <2>. QED
    BY <2>1, <2>2 DEF s
<1>. QED
  BY <1>6, <1>7, <1>8 DEF r

LEMMA RestLess ==
    ASSUME IInv, running # << >>, running' = Tail(running), task' = task
    PROVE  Rest = << RequestOf(Head(running)) >> \o Rest'
<1>1. running \in Seq(Num)
  BY DEF IInv, TypeOK
<1>2. /\ Len(running) \in Nat \ {0} /\ Len(running') = Len(running) - 1
      /\ Head(running) = running[1]
      /\ \A i \in 1 .. Len(running) - 1 : running'[i] = running[i + 1]
  BY <1>1, HeadTailProperties, EmptySeq
<1>. DEFINE r == RequestOf(Head(running))
            s == [i \in 1 .. Len(running) - 1 |-> RequestOf(running[i + 1])]
<1>3. Rest' = s
  BY <1>2 DEF Rest, RequestOf
<1>4. /\ << r >> \o s = [i \in 1 .. 1 + Len(s) |-> IF i <= 1 THEN << r >>[i] ELSE s[i - 1]]
      /\ Len(s) = Len(running) - 1
  BY <1>2
<1>5. Len(running) = 1 + Len(s)
  BY <1>2, <1>4
<1>6. ASSUME NEW i \in 1 .. Len(running)
      PROVE  RequestOf(running[i]) = IF i <= 1 THEN << r >>[i] ELSE s[i - 1]
  BY <1>2
<1>. QED
  BY <1>3, <1>4, <1>5, <1>6 DEF Rest

LEMMA FirstGoto ==
    ASSUME TypeOK, stack # << >>, NEW f \in Frames, Goto(f)
    PROVE  First' = IF f.at = "recv"
                    THEN << [from |-> f.task,
                             kind |-> IF f.task = Sync THEN f.kind ELSE task'[f.task].kind] >>
                    ELSE << >>
<1>1. stack' # << >> /\ Head(stack') = f
  BY GotoFrame DEF TypeOK, Goto
<1>. QED
  BY <1>1 DEF First, At, Top, Expects

-----------------------------------------------------------------------------
(* The inductive invariant: every reply meets the exchange it answers.     *)

\* The board's replies arrive complete, in time and with their opcode, and no
\* interrupt service routine runs where a synchronous exchange is made.
Orderly == /\ Faults \cap {"opcode", "lose", "late"} = {}
           /\ Cores = {} \/ MaxSync = 0

\* Only doSyncTask() waits for the reply of a synchronous exchange, and only
\* interrupts bring a call into a service routine or to an end.
Tame == { f \in Frames :
            /\ f.caller = "sync" => Cores = {}
            /\ f.at = "send" \/ (f.at = "recv" /\ f.task = Sync) => f.caller = "sync"
            /\ f.at \in {"isr", "aborted"} => Cores # {} }

\* A synchronous exchange is made when no asynchronous reply is awaited.
Alone(f) == /\ f.caller = "sync"
            /\ f.at \in {"return", "send"} \/ (f.at = "recv" /\ f.task = Sync)

Handed ==
    /\ ~Aborted => InOrder(Awaited, replies, requests)
    /\ stack \in Seq(Tame)
    /\ stack # << >> /\ Alone(Top) => running = << >>
    /\ OwnReply

LEMMA TameTop ==
    ASSUME Handed, stack # << >>
    PROVE  Top \in Tame /\ Tail(stack) \in Seq(Tame)
BY HeadTailProperties DEF Handed, Top

\* Steps of the innermost call.
LEMMA GotoHanded ==
    ASSUME TypeOK, Handed, OwnReply', stack # << >>, NEW f \in Tame, Goto(f),
           Alone(f) => running' = << >>,
           f.at # "aborted" => InOrder(Awaited', replies', requests')
    PROVE  Handed'
<1>1. /\ stack' \in Seq(Tame) /\ stack' # << >> /\ Head(stack') = f
  BY GotoFrame DEF Handed, Goto
<1>2. Top' = f
  BY <1>1 DEF Top
<1>3. ~Aborted' => f.at # "aborted"
  BY <1>1, <1>2 DEF Aborted, At
<1>4. Alone(Top') => running' = << >>
  BY <1>2
<1>. QED
  BY <1>1, <1>2, <1>3, <1>4 DEF Handed, Alone

LEMMA ReturnHanded ==
    ASSUME TypeOK, Handed, Suspended, OwnReply', stack # << >>, Return,
           InOrder(Rest', replies', requests'), Rest' \in Seq(Requests)
    PROVE  Handed'
<1>1. /\ stack' \in Seq(Tame) /\ Len(stack') = Len(stack) - 1
      /\ Len(stack) \in Nat \ {0}
      /\ \A i \in 1 .. Len(stack) - 1 : stack'[i] = stack[i + 1]
  BY HeadTailProperties, TopFrame DEF Return, Handed
<1>2. \A i \in 1 .. Len(stack') : stack'[i].at \in {"callback", "isr"}
  BY <1>1 DEF Suspended
<1>3. stack' # << >> => Head(stack') = stack'[1] /\ 1 \in 1 .. Len(stack')
  BY <1>1, HeadTailProperties, EmptySeq
<1>4. stack' # << >> => Top' = stack'[1] /\ Top'.at \in {"callback", "isr"}
  BY <1>2, <1>3 DEF Top
<1>5. First' = << >>
  BY <1>4 DEF First, At
<1>6. Awaited' = Rest'
  BY <1>5 DEF Awaited
<1>7. stack' # << >> => ~Alone(Top')
  BY <1>4 DEF Alone
<1>. QED
  BY <1>1, <1>6, <1>7 DEF Handed, Alone

LEMMA CallHanded ==
    ASSUME TypeOK, Handed, UserCode, OwnReply', NEW f \in Tame, f.at = "loop", Call(f),
           InOrder(Awaited, replies', requests'), Rest' = Rest
    PROVE  Handed'
<1>1. stack' \in Seq(Tame) /\ stack' # << >> /\ stack'[1] = f
  BY CallFrame DEF Handed, Call
<1>2. Top' = f
  BY <1>1, HeadTailProperties DEF Top
<1>3. First' = << >> /\ First = << >>
  BY <1>2 DEF First, At, UserCode
<1>4. Awaited' = Awaited
  BY <1>3 DEF Awaited
<1>5. ~Alone(Top')
  BY <1>2 DEF Alone
<1>. QED
  BY <1>1, <1>4, <1>5 DEF Handed, Alone

\* Steps that leave the stack alone.
LEMMA StillHanded ==
    ASSUME TypeOK, Handed, OwnReply', UNCHANGED stack,
           First' = First, stack # << >> /\ Alone(Top) => running' = << >>,
           ~Aborted => InOrder(First \o Rest', replies', requests')
    PROVE  Handed'
<1>1. Top' = Top /\ Aborted' = Aborted
  BY DEF Top, Aborted, At
<1>2. Awaited' = First \o Rest'
  BY DEF Awaited
<1>. QED
  BY <1>1, <1>2 DEF Handed, Alone

\* A frame that keeps its caller.
LEMMA TameFrame ==
    ASSUME NEW f \in Frames, NEW g \in Tame, f.caller = g.caller,
           f.at = "send" \/ (f.at = "recv" /\ f.task = Sync) => f.caller = "sync",
           f.at \in {"isr", "aborted"} => Cores # {}
    PROVE  f \in Tame
BY DEF Tame

-----------------------------------------------------------------------------
(* What a reply at the head of the line is.                                *)

LEMMA ReceiveHanded ==
    ASSUME IInv, Handed, NEW state, Receive(state)
    PROVE  /\ Head(replies).from = Top.task
           /\ state # "UNEXPECTED_OPCODE_ERROR"
           /\ replies' = Tail(replies)
           /\ InOrder(Rest, replies', requests)
<1>1. /\ stack # << >> /\ Top.at = "recv" /\ ~Aborted
      /\ replies # << >> /\ Head(replies).opcode # "INT"
      /\ replies \in Seq(Replies) /\ requests \in Seq(Requests)
  BY DEF Receive, At, Aborted, IInv, TypeOK
<1>. DEFINE a == [from |-> Top.task, kind |-> Expects]
<1>2. First = << a >>
  BY <1>1 DEF First, At
<1>3. Awaited \in Seq(Requests) /\ First \in Seq(Requests) /\ Rest \in Seq(Requests)
  BY AwaitedType
<1>4. a \in Requests
  BY <1>2, <1>3, HeadTailProperties
<1>5. Awaited = << a >> \o Rest
  BY <1>2 DEF Awaited
<1>. HIDE DEF a
<1>6. Head(Awaited) = a /\ Tail(Awaited) = Rest
  BY <1>3, <1>4, <1>5
<1>7. Accepts(a, Head(replies)) /\ InOrder(Rest, Tail(replies), requests)
  <2>1. InOrder(Awaited, replies, requests)
    BY <1>1 DEF Handed
  <2>. QED
    BY <1>1, <1>3, <1>6, <2>1, FitsReceive
<1>8. /\ Head(replies).from = Top.task
      /\ Head(replies).opcode \in {ExpectedOpcode(Expects), "NACK"}
  BY <1>7 DEF Accepts, a
<1>9. state # "UNEXPECTED_OPCODE_ERROR"
  BY <1>8 DEF Receive, ReceiveState
<1>10. replies' = Tail(replies)
  <2>1. replies' = << >> \o Tail(replies)
    BY <1>9 DEF Receive, Unread
  <2>2. Tail(replies) \in Seq(Replies)
    BY <1>1, HeadTailProperties
  <2>. QED
    BY <2>1, <2>2
<1>. QED
  BY <1>7, <1>8, <1>9, <1>10

\* A reply that is awaited comes.
LEMMA NoTimeout ==
    ASSUME IInv, Handed, Orderly, Timeout
    PROVE  FALSE
<1>1. /\ stack # << >> /\ Top.at = "recv" /\ ~Aborted /\ replies = << >>
      /\ replies \in Seq(Replies) /\ requests \in Seq(Requests)
  BY DEF Timeout, At, Aborted, IInv, TypeOK
<1>2. requests = << >>
  BY DEF Timeout, Fault, Orderly
<1>3. First # << >> /\ Awaited \in Seq(Requests) /\ First \in Seq(Requests) /\ Rest \in Seq(Requests)
  BY <1>1, AwaitedType DEF First, At
<1>4. Awaited # << >>
  <2>1. Len(Awaited) = Len(First) + Len(Rest) /\ Len(Rest) \in Nat /\ Len(First) \in Nat \ {0}
    BY <1>3, ConcatProperties, EmptySeq, LenProperties DEF Awaited
  <2>. QED
    BY <2>1, EmptySeq
<1>5. InOrder(Awaited, replies, requests)
  BY <1>1 DEF Handed
<1>. QED
  BY <1>1, <1>2, <1>3, <1>4, <1>5, FitsNone

-----------------------------------------------------------------------------
(* The steps.                                                              *)

\* What the awaited replies are while no reply is read.
LEMMA NotReading ==
    ASSUME IInv, Handed, stack # << >> => Top.at \notin {"recv", "aborted"}
    PROVE  First = << >> /\ Awaited = Rest /\ InOrder(Rest, replies, requests)
<1>1. First = << >> /\ ~Aborted
  BY DEF First, At, Aborted
<1>2. << >> \o Rest = Rest
  BY AwaitedType
<1>. QED
  BY <1>1, <1>2 DEF Awaited, Handed

\* A request that is sent is awaited behind all others.
LEMMA RequestHanded ==
    ASSUME IInv, InOrder(Rest, replies, requests), KindsKept, NEW n \in Num, NEW kind,
           task'[n].kind = kind, Send(n, kind), running' = Append(running, n),
           replies' = replies, [from |-> n, kind |-> kind] \in Requests
    PROVE  InOrder(Rest', replies', requests')
<1>1. Rest' = Append(Rest, [from |-> n, kind |-> kind])
  BY RestMore
<1>2. /\ Rest \in Seq(Requests) /\ replies \in Seq(Replies) /\ requests \in Seq(Requests)
      /\ requests' = Append(requests, [from |-> n, kind |-> kind])
  BY AwaitedType DEF IInv, TypeOK, Send
<1>. QED
  BY <1>1, <1>2, FitsSend

LEMMA StartHanded ==
    ASSUME IInv, Handed, NEW kind \in Kinds, NEW dep \in Accepted \cup {0},
           StartAsyncTask(kind, dep)
    PROVE  Handed'
<1>. DEFINE n == counter + 1
<1>1. n \in Num /\ task[n] = NoTask /\ n \notin Accepted
  BY ConstantsAssumption
     DEF ConstantsAssumption, IInv, TypeOK, Fresh, StartAsyncTask, Num, Accepted
<1>2. TypeOK /\ task \in [Num -> Tasks \cup {NoTask}] /\ kind \in AllKinds
  BY ConstantsAssumption DEF ConstantsAssumption, IInv, TypeOK
<1>3. UNCHANGED <<stack, answers, replies>> /\ UserCode
  BY DEF StartAsyncTask
<1>4. /\ stack # << >> => Top.at \notin {"recv", "aborted"}
      /\ stack # << >> => ~Alone(Top)
  BY <1>3 DEF UserCode, Alone
<1>5. First = << >> /\ InOrder(Rest, replies, requests)
  BY <1>4, NotReading
<1>6. First' = First /\ OwnReply'
  BY <1>3, <1>4 DEF First, At, Top, Handed, OwnReply
<1>7. KindsKept
  <2>1. \/ task' = task
        \/ task' = [task EXCEPT ![n] = NewTask(kind, dep, TRUE, 1)]
        \/ task' = [task EXCEPT ![n] = NewTask(kind, dep, FALSE, 2)]
    BY DEF StartAsyncTask
  <2>2. \A m \in Num : m # n => task'[m] = task[m]
    BY <1>2, <2>1
  <2>. QED
    BY <1>1, <2>2 DEF KindsKept, Accepted
<1>8. CASE UNCHANGED <<running, requests>>
  <2>1. Rest' = Rest
    BY <1>7, <1>8, RestSame
  <2>2. InOrder(First \o Rest', replies', requests')
    <3>1. << >> \o Rest = Rest
      BY AwaitedType
    <3>. QED
      BY <1>3, <1>5, <1>8, <2>1, <3>1
  <2>. QED
    BY <1>2, <1>3, <1>4, <1>6, <2>2, StillHanded
<1>9. CASE /\ Send(n, kind) /\ running' = Append(running, n)
           /\ task' = [task EXCEPT ![n] = NewTask(kind, dep, FALSE, 2)]
  <2>1. task'[n].kind = kind
    BY <1>1, <1>2, <1>9 DEF NewTask
  <2>2. [from |-> n, kind |-> kind] \in Requests
    BY <1>1, <1>2 DEF Requests
  <2>. HIDE DEF n
  <2>3. InOrder(Rest', replies', requests')
    BY <1>1, <1>3, <1>5, <1>7, <1>9, <2>1, <2>2, RequestHanded
  <2>4. First \o Rest' = Rest'
    BY <1>5 DEF Rest
  <2>. QED
    BY <1>2, <1>3, <1>4, <1>6, <2>3, <2>4, StillHanded
<1>. QED
  BY <1>8, <1>9 DEF StartAsyncTask, SendFails

LEMMA EnterHanded ==
    ASSUME TypeOK', IInv, Handed, Orderly,
           (\E kind \in Kinds : DoSyncTask(kind)) \/ HandleReplies
    PROVE  Handed'
<1>1. PICK caller \in {"handle", "sync"}, kind \in AllKinds :
          /\ Call(Fetch(caller, kind))
          /\ caller = "sync" => Cores = {}
  <2>1. CASE \E kind \in Kinds : DoSyncTask(kind)
    <3>1. PICK kind \in Kinds : DoSyncTask(kind)
      BY <2>1
    <3>2. MaxSync # 0
      BY <3>1, ConstantsAssumption DEF ConstantsAssumption, DoSyncTask, IInv, TypeOK
    <3>3. kind \in AllKinds
      BY ConstantsAssumption DEF ConstantsAssumption
    <3>. QED
      BY <3>1, <3>2, <3>3 DEF DoSyncTask, Orderly
  <2>2. CASE HandleReplies
    BY <2>2 DEF HandleReplies, AllKinds
  <2>. QED
    BY <2>1, <2>2
<1>2. /\ UserCode /\ TypeOK
      /\ UNCHANGED <<task, running, answers, requests, replies>>
  BY DEF IInv, DoSyncTask, HandleReplies
<1>. DEFINE f == Fetch(caller, kind)
<1>3. f \in Frames /\ f.at = "loop" /\ f.caller = caller
  BY DEF Fetch, Frames, Places, Sync
<1>4. f \in Tame
  BY <1>1, <1>3 DEF Tame
<1>. HIDE DEF f
<1>5. Rest' = Rest
  BY <1>2 DEF Rest, RequestOf
<1>6. InOrder(Awaited, replies', requests') /\ OwnReply'
  BY <1>2 DEF Handed, OwnReply, UserCode, Aborted, At
<1>7. Call(f)
  BY <1>1 DEF f
<1>. QED
  BY <1>2, <1>3, <1>4, <1>5, <1>6, <1>7, CallHanded

LEMMA UserReturnsHanded ==
    ASSUME IInv, Handed, UserReturns
    PROVE  Handed'
<1>1. /\ TypeOK /\ stack # << >> /\ Top \in Frames /\ Top \in Tame
      /\ Top.at \in {"callback", "isr"}
      /\ UNCHANGED <<task, running, answers, requests, replies>>
  BY TopFrame, TameTop DEF IInv, UserReturns, At
<1>2. InOrder(Rest, replies, requests)
  BY <1>1, NotReading
<1>3. Rest' = Rest /\ OwnReply'
  BY <1>1 DEF Rest, RequestOf, Handed, OwnReply
<1>4. PICK f \in Frames : /\ Goto(f) /\ f.caller = Top.caller
                          /\ \/ f.at = "release"
                             \/ f.at = "return" /\ Top.at = "isr"
  <2>1. CASE At("callback") /\ Goto([Top EXCEPT !.at = "release"])
    BY <1>1, <2>1 DEF Frames, Places
  <2>2. CASE At("isr") /\ Goto([Top EXCEPT !.at = "return"])
    BY <1>1, <2>2 DEF Frames, Places, At
  <2>. QED
    BY <2>1, <2>2 DEF UserReturns
<1>5. f \in Tame /\ ~Alone(f)
  BY <1>1, <1>4 DEF Tame, Alone
<1>6. First' = << >>
  BY <1>1, <1>4, FirstGoto
<1>7. Awaited' = Rest
  BY <1>3, <1>6, AwaitedType DEF Awaited
<1>. QED
  BY <1>1, <1>2, <1>3, <1>4, <1>5, <1>7, GotoHanded

LEMMA TakeHanded ==
    ASSUME IInv, Handed, TakeRunning
    PROVE  Handed'
<1>. DEFINE f == [Top EXCEPT !.at = "recv", !.task = Head(running), !.depth = 0]
<1>1. /\ TypeOK /\ stack # << >> /\ Top \in Frames /\ Top \in Tame /\ Top.at = "loop"
      /\ running \in Seq(Num) /\ running # << >>
      /\ running' = Tail(running) /\ UNCHANGED <<task, answers, requests, replies>>
  BY TopFrame, TameTop DEF IInv, TypeOK, TakeRunning, At
<1>2. InOrder(Rest, replies, requests)
  BY <1>1, NotReading
<1>3. /\ Head(running) \in Num /\ Head(running) # Sync
  <2>1. Head(running) \in Num
    BY <1>1, HeadTailProperties
  <2>. QED
    BY <2>1, ConstantsAssumption DEF ConstantsAssumption, Num, Sync
<1>4. f \in Frames /\ f.at = "recv" /\ f.task = Head(running) /\ f.caller = Top.caller
  BY <1>1, <1>3, 0 \in 0 .. 1 DEF Frames, Places
<1>5. Goto(f)
  BY DEF TakeRunning
<1>. HIDE DEF f
<1>6. f \in Tame /\ ~Alone(f)
  BY <1>1, <1>3, <1>4 DEF Tame, Alone
<1>7. First' = << RequestOf(Head(running)) >>
  BY <1>1, <1>3, <1>4, <1>5, FirstGoto DEF RequestOf
<1>8. Awaited' = Rest
  BY <1>1, <1>7, RestLess DEF Awaited
<1>9. OwnReply'
  BY <1>1 DEF Handed, OwnReply
<1>. QED
  BY <1>1, <1>2, <1>5, <1>6, <1>8, <1>9, GotoHanded

\* An interrupt in front of a reply is skipped.
LEMMA InterruptHanded ==
    ASSUME IInv, Handed, ReceiveInterrupt
    PROVE  Handed'
<1>1. /\ TypeOK /\ stack # << >> /\ Top \in Frames /\ Top \in Tame /\ Top.at = "recv"
      /\ ~Aborted /\ replies # << >> /\ Head(replies).opcode = "INT"
      /\ replies \in Seq(Replies) /\ requests \in Seq(Requests)
      /\ UNCHANGED <<task, running, answers, requests>>
  BY TopFrame, TameTop DEF IInv, TypeOK, ReceiveInterrupt, At, Aborted
<1>2. Head(replies) \in Replies
  BY <1>1
<1>3. Cores # {}
  BY <1>1, <1>2 DEF Replies
<1>4. Rest' = Rest /\ OwnReply' /\ Awaited \in Seq(Requests)
  BY <1>1, AwaitedType DEF Rest, RequestOf, Handed, OwnReply
<1>5. InOrder(Awaited, replies, requests)
  BY <1>1 DEF Handed
<1>6. CASE Goto([Top EXCEPT !.depth = 1]) /\ replies' = Tail(replies)
  <2>. DEFINE f == [Top EXCEPT !.depth = 1]
  <2>1. /\ f \in Frames /\ f.at = "recv" /\ f.task = Top.task /\ f.caller = Top.caller
        /\ f.kind = Top.kind /\ Goto(f)
    BY <1>1, <1>6, 1 \in 0 .. 1 DEF Frames
  <2>. HIDE DEF f
  <2>2. f \in Tame
    BY <1>1, <2>1 DEF Tame
  <2>3. First' = First
    BY <1>1, <2>1, FirstGoto DEF First, At, Expects
  <2>4. Awaited' = Awaited
    BY <1>4, <2>3 DEF Awaited
  <2>5. InOrder(Awaited', replies', requests')
    BY <1>1, <1>4, <1>5, <1>6, <2>4, FitsSkip
  <2>6. Alone(f) => running' = << >>
    BY <1>1, <2>1 DEF Handed, Alone
  <2>. QED
    BY <1>1, <1>4, <2>1, <2>2, <2>5, <2>6, GotoHanded
<1>7. CASE Abort(Top.task)
  <2>. DEFINE f == [Top EXCEPT !.at = "aborted", !.task = Top.task]
  <2>1. f \in Frames /\ f.at = "aborted" /\ f.caller = Top.caller /\ Goto(f)
    BY <1>1, <1>7 DEF Frames, Places, Abort
  <2>. HIDE DEF f
  <2>2. f \in Tame /\ ~Alone(f)
    BY <1>1, <1>3, <2>1 DEF Tame, Alone
  <2>. QED
    BY <1>1, <1>4, <2>1, <2>2, GotoHanded
<1>. QED
  BY <1>6, <1>7 DEF ReceiveInterrupt

\* A reply is read and the call goes on elsewhere.
LEMMA ReadHanded ==
    ASSUME IInv, Handed, OwnReply', NEW state, Receive(state),
           UNCHANGED <<task, running, requests>>,
           NEW f \in Tame, f \in Frames, Goto(f), f.at \notin {"recv", "aborted"},
           Alone(f) => Alone(Top)
    PROVE  Handed'
<1>1. TypeOK /\ stack # << >>
  BY DEF IInv, Receive, At
<1>2. InOrder(Rest, replies', requests)
  BY ReceiveHanded
<1>3. Rest' = Rest
  BY DEF Rest, RequestOf
<1>4. First' = << >>
  BY <1>1, FirstGoto
<1>5. << >> \o Rest = Rest
  BY AwaitedType
<1>6. Awaited' = Rest
  BY <1>3, <1>4, <1>5 DEF Awaited
<1>7. Alone(f) => running' = << >>
  BY <1>1 DEF Handed
<1>. QED
  BY <1>1, <1>2, <1>6, <1>7, GotoHanded

LEMMA SuccessHanded ==
    ASSUME IInv, Handed, AsyncSuccess
    PROVE  Handed'
<1>1. /\ TypeOK /\ stack # << >> /\ Top \in Frames /\ Top \in Tame /\ Top.at = "recv"
      /\ Top.task # Sync /\ Receive("SUCCESS") /\ pending \in [Num -> Seq(Num)]
      /\ UNCHANGED <<task, running, requests>>
  BY TopFrame, TameTop DEF IInv, TypeOK, AsyncSuccess, Receive, At
<1>2. Head(replies).from = Top.task
  BY <1>1, ReceiveHanded
<1>3. answers' = answers \cup {<<Top.task, Top.task>>}
  BY <1>2 DEF AsyncSuccess
<1>4. OwnReply'
  BY <1>3 DEF Handed, OwnReply
<1>. DEFINE q == IF Top.task \in dependent THEN Retained(Top.task) ELSE << >>
<1>5. q \in Seq(Num)
  BY <1>1 DEF Frames, Retained
<1>. HIDE DEF q
<1>6. PICK at \in {"callback", "release"} : Goto([Top EXCEPT !.at = at, !.retained = q])
  BY DEF AsyncSuccess, q
<1>. DEFINE f == [Top EXCEPT !.at = at, !.retained = q]
<1>7. f \in Frames /\ f.at = at /\ f.caller = Top.caller /\ Goto(f)
  BY <1>1, <1>5, <1>6 DEF Frames, Places
<1>. HIDE DEF f
<1>8. f \in Tame /\ ~Alone(f)
  BY <1>1, <1>7 DEF Tame, Alone
<1>. QED
  BY <1>1, <1>4, <1>7, <1>8, ReadHanded

LEMMA FailureHanded ==
    ASSUME IInv, Handed, Orderly, AsyncFailure
    PROVE  Handed'
<1>1. PICK state : Receive(state)
  BY NoTimeout DEF AsyncFailure
<1>2. /\ TypeOK /\ stack # << >> /\ Top \in Frames /\ Top \in Tame
      /\ UNCHANGED <<task, running, answers, requests>>
  BY TopFrame, TameTop DEF IInv, AsyncFailure, At
<1>. DEFINE f == [Top EXCEPT !.at = "retry"]
<1>3. f \in Frames /\ f.at = "retry" /\ f.caller = Top.caller /\ Goto(f)
  BY <1>2 DEF Frames, Places, AsyncFailure
<1>. HIDE DEF f
<1>4. f \in Tame /\ ~Alone(f)
  BY <1>2, <1>3 DEF Tame, Alone
<1>5. OwnReply'
  BY <1>2 DEF Handed, OwnReply
<1>. QED
  BY <1>1, <1>2, <1>3, <1>4, <1>5, ReadHanded

LEMMA SyncRetryHanded ==
    ASSUME IInv, Handed, Suspended, SyncRetry
    PROVE  Handed'
<1>1. PICK state : Receive(state)
  BY DEF SyncRetry
<1>2. /\ TypeOK /\ stack # << >> /\ Top \in Frames /\ Top \in Tame
      /\ Top.at = "recv" /\ Top.task = Sync
      /\ UNCHANGED <<task, running, answers, requests>>
  BY <1>1, TopFrame, TameTop DEF IInv, SyncRetry, Receive, At
<1>3. Top.caller = "sync" /\ Alone(Top) /\ OwnReply'
  BY <1>2 DEF Tame, Alone, Handed, OwnReply
<1>4. CASE Goto([Top EXCEPT !.at = "send"])
  <2>. DEFINE f == [Top EXCEPT !.at = "send"]
  <2>1. f \in Frames /\ f.at = "send" /\ f.caller = "sync" /\ Goto(f)
    BY <1>2, <1>3, <1>4 DEF Frames, Places
  <2>. HIDE DEF f
  <2>2. f \in Tame
    BY <1>2, <1>3, <2>1 DEF Tame
  <2>. QED
    BY <1>1, <1>2, <1>3, <2>1, <2>2, ReadHanded
<1>5. CASE Return
  <2>1. Rest' = Rest /\ Rest \in Seq(Requests)
    BY <1>2, AwaitedType DEF Rest, RequestOf
  <2>2. InOrder(Rest, replies', requests)
    BY <1>1, ReceiveHanded
  <2>. QED
    BY <1>2, <1>3, <1>5, <2>1, <2>2, ReturnHanded
<1>. QED
  BY <1>4, <1>5 DEF SyncRetry, NextAttempt

\* A call goes on to where no reply is read.
LEMMA GoHanded ==
    ASSUME TypeOK, Handed, OwnReply', stack # << >>, NEW f \in Tame, f \in Frames, Goto(f),
           f.at \notin {"recv", "aborted"}, Alone(f) => running' = << >>,
           InOrder(Rest', replies', requests')
    PROVE  Handed'
<1>1. First' = << >>
  BY FirstGoto
<1>2. Awaited' = << >> \o Rest'
  BY <1>1 DEF Awaited
<1>3. << >> \o Rest' = Rest'
  BY DEF Rest
<1>. QED
  BY <1>2, <1>3, GotoHanded

LEMMA RetryHanded ==
    ASSUME IInv, Handed, Retry
    PROVE  Handed'
<1>. DEFINE n == Top.task
<1>1. /\ TypeOK /\ stack # << >> /\ Top \in Frames /\ Top \in Tame /\ Top.at = "retry"
      /\ UNCHANGED <<answers, replies>>
  BY TopFrame, TameTop DEF IInv, Retry, At
<1>2. n \in Accepted /\ n \in Num /\ task[n] \in Tasks
  <2>1. n \in Requested
    BY <1>1, TopInPlace DEF IInv, GoodFrames
  <2>. QED
    BY <1>1, <2>1, AcceptedTask DEF Requested
<1>3. InOrder(Rest, replies, requests) /\ OwnReply'
  BY <1>1, NotReading DEF Handed, OwnReply
<1>4. PICK f \in Frames : Goto(f) /\ f.at = "loop" /\ f.caller = Top.caller
  <2>1. CASE Goto([Top EXCEPT !.at = "loop"])
    BY <1>1, <2>1 DEF Frames, Places
  <2>2. CASE Goto([Top EXCEPT !.at = "loop", !.ok = FALSE])
    <3>. DEFINE f == [Top EXCEPT !.at = "loop", !.ok = FALSE]
    <3>1. f \in Frames
      BY <1>1 DEF Frames, Places
    <3>2. f.at = "loop" /\ f.caller = Top.caller
      BY <1>1 DEF Frames
    <3>. QED
      BY <2>2, <3>1, <3>2
  <2>. QED
    BY <2>1, <2>2 DEF Retry, GiveUp
<1>5. f \in Tame /\ ~Alone(f)
  BY <1>1, <1>4 DEF Tame, Alone
<1>6. KindsKept
  <2>1. task' = task \/ task' = [task EXCEPT ![n].attempt = @ + 1]
    BY DEF Retry
  <2>. QED
    BY <1>1, <1>2, <2>1, AttemptKind DEF KindsKept
<1>7. InOrder(Rest', replies', requests')
  <2>1. CASE UNCHANGED <<running, requests>>
    BY <1>1, <1>3, <1>6, <2>1, RestSame
  <2>2. CASE Send(n, task[n].kind) /\ running' = Append(running, n)
    <3>1. task'[n].kind = task[n].kind
      BY <1>2, <1>6 DEF KindsKept
    <3>2. [from |-> n, kind |-> task[n].kind] \in Requests
      BY <1>2 DEF Tasks, Requests
    <3>. HIDE DEF n
    <3>. QED
      BY <1>1, <1>2, <1>3, <1>6, <2>2, <3>1, <3>2, RequestHanded
  <2>. QED
    BY <2>1, <2>2 DEF Retry, Requeue, SendFails
<1>. QED
  BY <1>1, <1>3, <1>4, <1>5, <1>7, GoHanded

LEMMA ReleaseHanded ==
    ASSUME IInv, Handed, Release
    PROVE  Handed'
<1>. DEFINE n == Head(Top.retained)
<1>1. /\ TypeOK /\ stack # << >> /\ Top \in Frames /\ Top \in Tame /\ Top.at = "release"
      /\ Top.retained \in Seq(Num) /\ UNCHANGED <<answers, replies>>
  BY TopFrame, TameTop DEF IInv, Release, At, Frames
<1>2. InOrder(Rest, replies, requests) /\ OwnReply'
  BY <1>1, NotReading DEF Handed, OwnReply
<1>3. PICK f \in Frames : Goto(f) /\ f.at \in {"loop", "release"} /\ f.caller = Top.caller
  <2>1. CASE Goto([Top EXCEPT !.at = "loop"])
    BY <1>1, <2>1 DEF Frames, Places
  <2>2. CASE Top.retained # << >> /\ Goto([Top EXCEPT !.retained = Tail(@)])
    <3>. DEFINE f == [Top EXCEPT !.retained = Tail(@)]
    <3>1. Tail(Top.retained) \in Seq(Num)
      BY <1>1, <2>2, HeadTailProperties
    <3>2. f \in Frames
      BY <1>1, <3>1 DEF Frames
    <3>3. f.at = Top.at /\ f.caller = Top.caller
      BY <1>1 DEF Frames
    <3>. QED
      BY <1>1, <2>2, <3>2, <3>3
  <2>. QED
    BY <2>1, <2>2 DEF Release
<1>4. f \in Tame /\ ~Alone(f)
  BY <1>1, <1>3 DEF Tame, Alone
<1>5. InOrder(Rest', replies', requests')
  <2>1. CASE UNCHANGED <<task, running, requests>>
    BY <1>1, <1>2, <2>1 DEF Rest, RequestOf
  <2>2. CASE /\ Top.retained # << >> /\ task' = [task EXCEPT ![n].attempt = @ + 1]
             /\ \/ UNCHANGED <<running, requests>>
                \/ Send(n, task[n].kind) /\ running' = Append(running, n)
    <3>1. n \in Accepted
      <4>1. Top.retained \in Seq(Releasable)
        BY <1>1, TopInPlace DEF IInv, GoodFrames
      <4>. QED
        BY <2>2, <4>1, HeadTailProperties DEF Releasable
    <3>2. n \in Num /\ task[n] \in Tasks
      BY <1>1, <3>1, AcceptedTask
    <3>3. KindsKept
      BY <1>1, <2>2, <3>1, AttemptKind
    <3>4. CASE UNCHANGED <<running, requests>>
      BY <1>1, <1>2, <3>3, <3>4, RestSame
    <3>5. CASE Send(n, task[n].kind) /\ running' = Append(running, n)
      <4>1. task'[n].kind = task[n].kind
        BY <3>1, <3>3 DEF KindsKept
      <4>2. [from |-> n, kind |-> task[n].kind] \in Requests
        BY <3>2 DEF Tasks, Requests
      <4>. HIDE DEF n
      <4>. QED
        BY <1>1, <1>2, <3>2, <3>3, <3>5, <4>1, <4>2, RequestHanded
    <3>. QED
      BY <2>2, <3>4, <3>5
  <2>. QED
    BY <2>1, <2>2 DEF Release, SendFails
<1>. QED
  BY <1>1, <1>2, <1>3, <1>4, <1>5, GoHanded

\* Once no task runs, only interrupts are left on the line.
LEMMA OnlyInts ==
    ASSUME IInv, Handed, Drain, replies # << >>
    PROVE  Head(replies).opcode = "INT" /\ Head(replies).from \in Cores
<1>1. /\ stack # << >> /\ Top.at = "loop" /\ running = << >>
      /\ replies \in Seq(Replies) /\ requests \in Seq(Requests)
  BY DEF IInv, TypeOK, Drain, At
<1>2. InOrder(Rest, replies, requests) /\ Rest = << >> /\ Rest \in Seq(Requests)
  BY <1>1, NotReading, AwaitedType DEF Rest
<1>3. /\ Head(replies) = replies[1] /\ Head(replies) \in Replies
      /\ Len(replies) \in Nat \ {0}
  BY <1>1, HeadTailProperties, EmptySeq
<1>4. \A k \in 1 .. Len(replies) : replies[k].opcode = "INT"
  BY <1>1, <1>2, FitsNone
<1>. QED
  BY <1>3, <1>4 DEF Replies

LEMMA DrainHanded ==
    ASSUME IInv, Handed, Drain
    PROVE  Handed'
<1>. DEFINE interrupt == replies # << >> /\ Head(replies).opcode = "INT"
            core == IF interrupt THEN Head(replies).from ELSE triggeringCore
<1>1. /\ TypeOK /\ stack # << >> /\ Top \in Frames /\ Top \in Tame /\ Top.at = "loop"
      /\ running = << >> /\ replies \in Seq(Replies) /\ requests \in Seq(Requests)
      /\ UNCHANGED <<task, running, answers, requests>>
  BY TopFrame, TameTop DEF IInv, TypeOK, Drain, At
<1>2. InOrder(Rest, replies, requests) /\ OwnReply'
  BY <1>1, NotReading DEF Handed, OwnReply
<1>3. Rest = << >> /\ Rest' = Rest /\ Rest \in Seq(Requests)
  BY <1>1, AwaitedType DEF Rest, RequestOf
<1>4. replies # << >> => interrupt /\ Head(replies).from \in Cores
  BY OnlyInts
<1>5. PICK at \in {"isr", "return", "aborted"}, f \in Frames :
          /\ Goto(f) /\ f.at = at /\ f.caller = Top.caller
          /\ at = "isr" => InterruptOccured(core)
          /\ at = "aborted" => replies # << >>
          /\ at # "aborted" => replies' = IF interrupt THEN Tail(replies) ELSE replies
  <2>1. CASE Goto([Top EXCEPT !.at = "isr"]) /\ InterruptOccured(core)
             /\ replies' = IF interrupt THEN Tail(replies) ELSE replies
    <3>. DEFINE f == [Top EXCEPT !.at = "isr"]
    <3>1. f \in Frames /\ f.at = "isr" /\ f.caller = Top.caller
      BY <1>1 DEF Frames, Places
    <3>. QED
      BY <2>1, <3>1
  <2>2. CASE Goto([Top EXCEPT !.at = "return"])
             /\ replies' = IF interrupt THEN Tail(replies) ELSE replies
    <3>. DEFINE f == [Top EXCEPT !.at = "return"]
    <3>1. f \in Frames /\ f.at = "return" /\ f.caller = Top.caller
      BY <1>1 DEF Frames, Places
    <3>. QED
      BY <2>2, <3>1
  <2>3. CASE Abort(Sync) /\ replies # << >>
    <3>. DEFINE f == [Top EXCEPT !.at = "aborted", !.task = Sync]
    <3>1. f \in Frames /\ f.at = "aborted" /\ f.caller = Top.caller
      BY <1>1 DEF Frames, Places, Sync
    <3>. QED
      BY <2>3, <3>1 DEF Abort
  <2>. QED
    BY <2>1, <2>2, <2>3 DEF Drain
<1>6. at \in {"isr", "aborted"} => Cores # {}
  <2>1. ASSUME at = "isr" PROVE Cores # {}
    <3>1. core \in Cores \cup {NoCore}
      BY <1>1, <1>4 DEF TypeOK
    <3>2. core # NoCore
      BY <1>5, <2>1 DEF InterruptOccured, NoCore
    <3>. QED
      BY <3>1, <3>2
  <2>. QED
    BY <1>4, <1>5, <2>1
<1>7. f \in Tame
  BY <1>1, <1>5, <1>6 DEF Tame
<1>8. at # "aborted" => InOrder(Rest', replies', requests')
  BY <1>1, <1>2, <1>3, <1>5, FitsSkip
<1>9. CASE at = "aborted"
  BY <1>1, <1>2, <1>5, <1>7, <1>9, GotoHanded
<1>10. CASE at # "aborted"
  BY <1>1, <1>2, <1>5, <1>7, <1>8, <1>10, GoHanded
<1>. QED
  BY <1>9, <1>10

LEMMA FetchReturnsHanded ==
    ASSUME IInv, Handed, Suspended, FetchReturns
    PROVE  Handed'
<1>1. /\ TypeOK /\ stack # << >> /\ Top \in Frames /\ Top \in Tame /\ Top.at = "return"
      /\ UNCHANGED <<task, running, answers, requests, replies>>
  BY TopFrame, TameTop DEF IInv, FetchReturns, At
<1>2. InOrder(Rest, replies, requests) /\ OwnReply'
  BY <1>1, NotReading DEF Handed, OwnReply
<1>3. Rest' = Rest /\ Rest \in Seq(Requests)
  BY <1>1, AwaitedType DEF Rest, RequestOf
<1>4. CASE Top.caller = "sync" /\ Goto([Top EXCEPT !.at = "send"])
  <2>. DEFINE f == [Top EXCEPT !.at = "send"]
  <2>1. f \in Frames /\ f.at = "send" /\ f.caller = "sync" /\ Goto(f)
    BY <1>1, <1>4 DEF Frames, Places
  <2>. HIDE DEF f
  <2>2. f \in Tame /\ running = << >>
    BY <1>1, <1>4, <2>1 DEF Tame, Alone, Handed
  <2>. QED
    BY <1>1, <1>2, <1>3, <2>1, <2>2, GoHanded
<1>5. CASE Return
  BY <1>1, <1>2, <1>3, <1>5, ReturnHanded
<1>. QED
  BY <1>4, <1>5 DEF FetchReturns

LEMMA SyncSendHanded ==
    ASSUME IInv, Handed, Suspended, SyncSend
    PROVE  Handed'
<1>1. /\ TypeOK /\ stack # << >> /\ Top \in Frames /\ Top \in Tame /\ Top.at = "send"
      /\ replies \in Seq(Replies) /\ requests \in Seq(Requests)
      /\ UNCHANGED <<task, running, answers, replies>>
  BY TopFrame, TameTop DEF IInv, TypeOK, SyncSend, At
<1>2. InOrder(Rest, replies, requests) /\ OwnReply'
  BY <1>1, NotReading DEF Handed, OwnReply
<1>3. Top.caller = "sync" /\ running = << >> /\ Rest' = Rest /\ Rest = << >>
  BY <1>1 DEF Tame, Alone, Handed, Rest, RequestOf
<1>4. /\ Top.attempt + 1 \in Nat /\ 0 \in 0 .. 1 /\ Rest \in Seq(Requests)
      /\ Top.kind \in AllKinds
  BY <1>1, AwaitedType DEF Frames
<1>5. CASE /\ Send(Sync, Top.kind)
           /\ Goto([[Top EXCEPT !.attempt = @ + 1] EXCEPT !.at = "recv", !.task = Sync, !.depth = 0])
  <2>. DEFINE f == [[Top EXCEPT !.attempt = @ + 1] EXCEPT !.at = "recv", !.task = Sync, !.depth = 0]
              a == [from |-> Sync, kind |-> Top.kind]
  <2>1. /\ f \in Frames /\ f.at = "recv" /\ f.task = Sync /\ f.caller = "sync"
        /\ f.kind = Top.kind /\ Goto(f)
    BY <1>1, <1>3, <1>4, <1>5 DEF Frames, Places
  <2>. HIDE DEF f
  <2>2. f \in Tame
    BY <1>1, <1>3, <2>1 DEF Tame
  <2>3. First' = << a >>
    BY <1>1, <2>1, FirstGoto
  <2>4. Awaited' = << a >>
    BY <1>3, <2>3 DEF Awaited
  <2>5. a \in Requests /\ requests' = Append(requests, a)
    BY <1>4, <1>5 DEF Requests, Send
  <2>. HIDE DEF a
  <2>6. Awaited' = Append(Rest, a)
    BY <1>3, <2>4
  <2>7. InOrder(Awaited', replies', requests')
    BY <1>1, <1>2, <1>4, <2>5, <2>6, FitsSend
  <2>. QED
    BY <1>1, <1>2, <1>3, <2>1, <2>2, <2>7, GotoHanded
<1>6. CASE requests' = requests /\ NextAttempt([Top EXCEPT !.attempt = @ + 1])
  <2>1. CASE Goto([[Top EXCEPT !.attempt = @ + 1] EXCEPT !.at = "send"])
    <3>. DEFINE f == [[Top EXCEPT !.attempt = @ + 1] EXCEPT !.at = "send"]
    <3>1. f \in Frames /\ f.at = "send" /\ f.caller = "sync" /\ Goto(f)
      BY <1>1, <1>3, <1>4, <2>1 DEF Frames, Places
    <3>. HIDE DEF f
    <3>2. f \in Tame
      BY <1>1, <1>3, <3>1 DEF Tame
    <3>. QED
      BY <1>1, <1>2, <1>3, <1>6, <3>1, <3>2, GoHanded
  <2>2. CASE Return
    BY <1>1, <1>2, <1>3, <1>4, <1>6, <2>2, ReturnHanded
  <2>. QED
    BY <1>6, <2>1, <2>2 DEF NextAttempt
<1>. QED
  BY <1>5, <1>6 DEF SyncSend, SendFails

LEMMA SyncSuccessHanded ==
    ASSUME IInv, Handed, Suspended, SyncSuccess
    PROVE  Handed'
<1>1. /\ TypeOK /\ stack # << >> /\ Receive("SUCCESS") /\ Top.task = Sync
      /\ UNCHANGED <<task, running, requests>> /\ Return
  BY DEF IInv, SyncSuccess, Receive, At
<1>2. Head(replies).from = Sync /\ InOrder(Rest, replies', requests)
  BY <1>1, ReceiveHanded
<1>3. OwnReply'
  BY <1>2 DEF Handed, OwnReply, SyncSuccess
<1>4. Rest' = Rest /\ Rest \in Seq(Requests)
  BY <1>1, AwaitedType DEF Rest, RequestOf
<1>. QED
  BY <1>1, <1>2, <1>3, <1>4, ReturnHanded

\* The assert() of doSyncTask() cannot fail.
LEMMA SyncAbortHanded ==
    ASSUME IInv, Handed, Orderly, SyncAbort
    PROVE  FALSE
BY ReceiveHanded, NoTimeout DEF SyncAbort

\* The board's answer to the first request on the line.
LEMMA AnswerReply ==
    ASSUME TypeOK, Answer
    PROVE  \/ UNCHANGED replies /\ "lose" \in Faults
           \/ \E p \in Replies :
                /\ replies' = Append(replies, p) /\ p.opcode # "INT"
                /\ Accepts(Head(requests), p) \/ "opcode" \in Faults
<1>. DEFINE r    == Head(requests)
            good == Reply(ExpectedOpcode(r.kind), r.from, TRUE)
            bad  == Reply("NACK", r.from, TRUE)
<1>1. r \in Requests /\ r.from \in Nat
  <2>1. r \in Requests
    BY HeadTailProperties DEF Answer, TypeOK
  <2>. QED
    BY <2>1, ConstantsAssumption DEF ConstantsAssumption, Requests, Num, Sync
<1>2. ASSUME NEW op \in {ExpectedOpcode(r.kind), "NACK"}
      PROVE  /\ Reply(op, r.from, TRUE) \in Replies /\ op # "INT"
             /\ Reply(op, r.from, TRUE).from = r.from /\ Reply(op, r.from, TRUE).opcode = op
  <2>1. op \in {"ACK", "DATA", "NACK"}
    BY DEF ExpectedOpcode
  <2>2. ReplyLength[op] \in 1 .. 4 /\ op \in Opcodes /\ op # "INT"
    BY <2>1 DEF ReplyLength, Opcodes
  <2>. QED
    BY <1>1, <2>2 DEF Reply, Replies
<1>3. \/ replies' = Append(replies, good)
      \/ replies' = Append(replies, bad)
      \/ replies' = Append(replies, [good EXCEPT !.intact = FALSE])
      \/ replies' = Append(replies, [good EXCEPT !.opcode = "other"]) /\ "opcode" \in Faults
      \/ UNCHANGED replies /\ "lose" \in Faults
  BY DEF Answer, Fault
<1>4. /\ good \in Replies /\ good.from = r.from /\ good.opcode = ExpectedOpcode(r.kind)
      /\ good.opcode # "INT"
      /\ bad \in Replies /\ bad.from = r.from /\ bad.opcode = "NACK"
  BY <1>2
<1>. HIDE DEF good, bad
<1>5. /\ [good EXCEPT !.intact = FALSE] \in Replies
      /\ [good EXCEPT !.intact = FALSE].from = r.from
      /\ [good EXCEPT !.intact = FALSE].opcode = good.opcode
  BY <1>4 DEF Replies
<1>6. /\ [good EXCEPT !.opcode = "other"] \in Replies
      /\ [good EXCEPT !.opcode = "other"].opcode = "other"
  BY <1>4 DEF Replies, Opcodes
<1>. QED
  BY <1>3, <1>4, <1>5, <1>6 DEF Accepts

LEMMA AnswerHanded ==
    ASSUME IInv, Handed, Orderly, Answer
    PROVE  Handed'
<1>1. /\ TypeOK /\ requests # << >> /\ requests' = Tail(requests)
      /\ replies \in Seq(Replies) /\ requests \in Seq(Requests)
      /\ UNCHANGED <<stack, task, running, answers>>
  BY DEF IInv, TypeOK, Answer, hostVars
<1>2. PICK p \in Replies : replies' = Append(replies, p) /\ Accepts(Head(requests), p)
  BY <1>1, AnswerReply DEF Orderly
<1>3. First' = First /\ Rest' = Rest /\ Awaited \in Seq(Requests) /\ OwnReply'
  BY <1>1, AwaitedType DEF First, Rest, RequestOf, At, Top, Expects, Handed, OwnReply
<1>4. ~Aborted => InOrder(Awaited, replies', requests')
  BY <1>1, <1>2, <1>3, FitsAnswer DEF Handed
<1>. QED
  BY <1>1, <1>3, <1>4, StillHanded DEF Handed, Awaited

\* What an interrupt puts on the line.
LEMMA RaiseReply ==
    ASSUME TypeOK, NEW core \in Cores, RaiseInterrupt(core)
    PROVE  \E p \in Replies : /\ replies' = Append(replies, p) /\ p.opcode = "INT"
                              /\ "garble" \notin Faults => p.intact
<1>1. ASSUME NEW intact \in BOOLEAN
      PROVE  LET p == Reply("INT", core, intact)
             IN  p \in Replies /\ p.opcode = "INT" /\ p.intact = intact
  <2>. DEFINE p == Reply("INT", core, intact)
  <2>1. p = [opcode |-> "INT", from |-> core, intact |-> intact, len |-> 3]
    BY DEF Reply, ReplyLength
  <2>2. core \in Nat
    BY ConstantsAssumption DEF ConstantsAssumption
  <2>. QED
    BY <2>1, <2>2 DEF Replies, Opcodes, ReplyLength
<1>2. PICK intact \in BOOLEAN : /\ replies' = Append(replies, Reply("INT", core, intact))
                                /\ "garble" \notin Faults => intact
  BY DEF RaiseInterrupt, Fault
<1>. QED
  BY <1>1, <1>2

LEMMA RaiseHanded ==
    ASSUME IInv, Handed, NEW core \in Cores, RaiseInterrupt(core)
    PROVE  Handed'
<1>1. /\ TypeOK /\ replies \in Seq(Replies) /\ requests \in Seq(Requests)
      /\ UNCHANGED <<stack, task, running, answers, requests>>
  BY DEF IInv, TypeOK, RaiseInterrupt, hostVars
<1>2. PICK p \in Replies : replies' = Append(replies, p) /\ p.opcode = "INT"
  BY <1>1, RaiseReply
<1>3. First' = First /\ Rest' = Rest /\ Awaited \in Seq(Requests) /\ OwnReply'
  BY <1>1, AwaitedType DEF First, Rest, RequestOf, At, Top, Expects, Handed, OwnReply
<1>4. ~Aborted => InOrder(Awaited, replies', requests')
  BY <1>1, <1>2, <1>3, FitsInterrupt DEF Handed
<1>. QED
  BY <1>1, <1>3, <1>4, StillHanded DEF Handed, Awaited

LEMMA HandedNext ==
    ASSUME IInv, TypeOK', Handed, Suspended, Orderly, [Next]_vars
    PROVE  Handed'
<1>1. CASE \E kind \in Kinds : \E dep \in Accepted \cup {0} : StartAsyncTask(kind, dep)
  BY <1>1, StartHanded
<1>2. CASE (\E kind \in Kinds : DoSyncTask(kind)) \/ HandleReplies
  BY <1>2, EnterHanded
<1>3. CASE UserReturns
  BY <1>3, UserReturnsHanded
<1>4. CASE TakeRunning
  BY <1>4, TakeHanded
<1>5. CASE ReceiveInterrupt
  BY <1>5, InterruptHanded
<1>6. CASE AsyncSuccess
  BY <1>6, SuccessHanded
<1>7. CASE AsyncFailure
  BY <1>7, FailureHanded
<1>8. CASE Retry
  BY <1>8, RetryHanded
<1>9. CASE Release
  BY <1>9, ReleaseHanded
<1>10. CASE Drain
  BY <1>10, DrainHanded
<1>11. CASE FetchReturns
  BY <1>11, FetchReturnsHanded
<1>12. CASE SyncSend
  BY <1>12, SyncSendHanded
<1>13. CASE SyncSuccess
  BY <1>13, SyncSuccessHanded
<1>14. CASE SyncRetry
  BY <1>14, SyncRetryHanded
<1>15. CASE SyncAbort
  BY <1>15, SyncAbortHanded
<1>16. CASE Answer
  BY <1>16, AnswerHanded
<1>17. CASE \E core \in Cores : RaiseInterrupt(core)
  BY <1>17, RaiseHanded
<1>18. CASE UNCHANGED vars
  BY <1>18 DEF vars, hostVars, Handed, Awaited, First, Rest, RequestOf, At, Top, Expects,
               Alone, Aborted, OwnReply
<1>. QED
  BY <1>1, <1>2, <1>3, <1>4, <1>5, <1>6, <1>7, <1>8, <1>9, <1>10, <1>11, <1>12, <1>13,
     <1>14, <1>15, <1>16, <1>17, <1>18 DEF Next, User, Host, Board

LEMMA HandedInit == Init => Handed
<1>. SUFFICES ASSUME Init PROVE Handed
  OBVIOUS
<1>1. /\ stack = << >> /\ running = << >> /\ replies = << >> /\ requests = << >>
      /\ answers = {}
  BY DEF Init
<1>2. Awaited = << >>
  BY <1>1 DEF Awaited, First, Rest, At
<1>3. InOrder(Awaited, replies, requests)
  BY <1>1, <1>2, FitsEmpty
<1>. QED
  BY <1>1, <1>3 DEF Handed, OwnReply

\* The inductive invariant of an orderly line.
THEOREM Matching == ASSUME Orderly PROVE Spec => [](SInv /\ Handed)
<1>1. Init => Handed
  BY HandedInit
<1>2. SInv /\ Handed /\ SInv' /\ [Next]_vars => Handed'
  BY HandedNext DEF SInv, OInv, IInv, Kept
<1>. QED
  BY <1>1, <1>2, Bookkeeping, PTL DEF Spec

\* No exchange is given the reply of another one: while replies arrive complete
\* and in time, their order is enough to tell them apart, however many callbacks,
\* retries, refused, garbled and negative answers and interrupts come in between.
THEOREM ReplyCorrect == ASSUME Orderly PROVE Spec => []OwnReply
<1>1. SInv /\ Handed => OwnReply
  BY DEF Handed
<1>. QED
  BY <1>1, Matching, PTL

-----------------------------------------------------------------------------
(* Interrupts on the line.                                                 *)

Ints(s) == { i \in DOMAIN s : s[i].opcode = "INT" }

\* Interrupts on the line arrive undamaged.
Intact(s) == \A i \in Ints(s) : s[i].intact

LEMMA IntsFinite ==
    ASSUME NEW s \in Seq(Replies)
    PROVE  IsFiniteSet(Ints(s)) /\ Cardinality(Ints(s)) \in Nat
<1>1. DOMAIN s = 1 .. Len(s) /\ Len(s) \in Nat
  BY LenProperties
<1>2. Ints(s) \in SUBSET (1 .. Len(s)) /\ IsFiniteSet(1 .. Len(s))
  BY <1>1, FS_Interval DEF Ints
<1>3. IsFiniteSet(Ints(s))
  BY <1>2, FS_Subset
<1>. QED
  BY <1>3, FS_CardinalityType

LEMMA IntsAppend ==
    ASSUME NEW s \in Seq(Replies), NEW p \in Replies
    PROVE  /\ Cardinality(Ints(Append(s, p))) =
                  Cardinality(Ints(s)) + (IF p.opcode = "INT" THEN 1 ELSE 0)
           /\ Intact(s) /\ (p.opcode = "INT" => p.intact) => Intact(Append(s, p))
<1>. DEFINE t == Append(s, p)
            n == Len(s) + 1
<1>1. /\ t \in Seq(Replies) /\ Len(t) = n /\ Len(s) \in Nat
      /\ DOMAIN t = 1 .. n /\ DOMAIN s = 1 .. Len(s) /\ t[n] = p
      /\ \A i \in 1 .. Len(s) : t[i] = s[i]
  BY AppendProperties, LenProperties
<1>. HIDE DEF t
<1>2. n \notin Ints(s) /\ 1 .. n = (1 .. Len(s)) \cup {n}
  BY <1>1 DEF Ints
<1>. HIDE DEF n
<1>3. CASE p.opcode = "INT"
  <2>1. Ints(t) = Ints(s) \cup {n}
    BY <1>1, <1>2, <1>3 DEF Ints
  <2>2. Cardinality(Ints(t)) = Cardinality(Ints(s)) + 1
    BY <1>2, <2>1, IntsFinite, FS_AddElement
  <2>3. Intact(s) /\ p.intact => Intact(t)
    BY <1>1, <2>1 DEF Intact, Ints
  <2>. QED
    BY <1>3, <2>2, <2>3 DEF t
<1>4. CASE p.opcode # "INT"
  <2>1. Ints(t) = Ints(s)
    BY <1>1, <1>2, <1>4 DEF Ints
  <2>2. Intact(s) => Intact(t)
    BY <1>1, <2>1 DEF Intact, Ints
  <2>. QED
    BY <1>4, <2>1, <2>2, IntsFinite DEF t
<1>. QED
  BY <1>3, <1>4

LEMMA IntsTail ==
    ASSUME NEW s \in Seq(Replies), s # << >>
    PROVE  /\ Cardinality(Ints(s)) =
                  Cardinality(Ints(Tail(s))) + (IF Head(s).opcode = "INT" THEN 1 ELSE 0)
           /\ Intact(s) => Intact(Tail(s)) /\ (Head(s).opcode = "INT" => Head(s).intact)
<1>. DEFINE t == Tail(s)
            I == Ints(s) \ {1}
            g == [i \in Ints(t) |-> i + 1]
<1>1. /\ t \in Seq(Replies) /\ Len(t) = Len(s) - 1 /\ Len(s) \in Nat \ {0} /\ Head(s) = s[1]
      /\ DOMAIN t = 1 .. Len(t) /\ DOMAIN s = 1 .. Len(s)
      /\ \A i \in 1 .. Len(s) - 1 : t[i] = s[i + 1]
  BY HeadTailProperties, EmptySeq
<1>. HIDE DEF t
<1>2. ASSUME NEW i \in Ints(t)
      PROVE  i \in Nat /\ i + 1 \in I /\ s[i + 1] = t[i]
  BY <1>1 DEF Ints
<1>3. ASSUME NEW j \in I
      PROVE  j - 1 \in Ints(t) /\ (j - 1) + 1 = j
  BY <1>1 DEF Ints
<1>4. g \in Bijection(Ints(t), I)
  <2>1. g \in [Ints(t) -> I]
    BY <1>2
  <2>2. \A a, b \in Ints(t) : g[a] = g[b] => a = b
    BY <1>2
  <2>3. \A j \in I : \E i \in Ints(t) : g[i] = j
    BY <1>3
  <2>. QED
    BY <2>1, <2>2, <2>3, Fun_IsBij
<1>5. IsFiniteSet(Ints(s)) /\ IsFiniteSet(Ints(t)) /\ Cardinality(Ints(s)) \in Nat
  BY <1>1, IntsFinite
<1>. HIDE DEF I, g
<1>6. Cardinality(I) = Cardinality(Ints(t))
  BY <1>4, <1>5, FS_Bijection, Fun_ExistsBij
<1>7. Cardinality(I) = IF 1 \in Ints(s) THEN Cardinality(Ints(s)) - 1 ELSE Cardinality(Ints(s))
  BY <1>5, FS_RemoveElement DEF I
<1>8. 1 \in Ints(s) <=> Head(s).opcode = "INT"
  BY <1>1 DEF Ints
<1>9. Intact(s) => Intact(t) /\ (Head(s).opcode = "INT" => Head(s).intact)
  BY <1>1, <1>2, <1>8 DEF Intact, I
<1>. QED
  BY <1>5, <1>6, <1>7, <1>8, <1>9 DEF t

\* Reading a reply leaves the interrupts on the line alone, the rest of a reply
\* with an unexpected opcode included.
LEMMA IntsRead ==
    ASSUME TypeOK, NEW state, Receive(state)
    PROVE  /\ Cardinality(Ints(replies')) = Cardinality(Ints(replies))
           /\ Intact(replies) => Intact(replies')
<1>1. /\ replies \in Seq(Replies) /\ replies # << >> /\ Head(replies).opcode # "INT"
      /\ Head(replies) \in Replies /\ Tail(replies) \in Seq(Replies)
  BY HeadTailProperties DEF TypeOK, Receive
<1>2. /\ Cardinality(Ints(replies)) = Cardinality(Ints(Tail(replies)))
      /\ Intact(replies) => Intact(Tail(replies))
  <2>1. Cardinality(Ints(Tail(replies))) \in Nat
    BY <1>1, IntsFinite
  <2>2. /\ Cardinality(Ints(replies)) = Cardinality(Ints(Tail(replies)))
               + (IF Head(replies).opcode = "INT" THEN 1 ELSE 0)
        /\ Intact(replies) => Intact(Tail(replies))
    BY <1>1, IntsTail
  <2>. QED
    BY <1>1, <2>1, <2>2
<1>3. CASE replies' = << >> \o Tail(replies)
  BY <1>1, <1>2, <1>3
<1>4. CASE replies' = << [Head(replies) EXCEPT !.opcode = "other", !.len = @ - 1] >> \o Tail(replies)
  <2>. DEFINE p == [Head(replies) EXCEPT !.opcode = "other", !.len = @ - 1]
  <2>1. p.opcode # "INT"
    BY <1>1 DEF Replies
  <2>. HIDE DEF p
  <2>2. Tail(replies) \in Seq(Replies \cup {p}) /\ replies \in Seq(Replies \cup {p})
    BY <1>1, SeqMonotonic
  <2>3. p \in Replies \cup {p} /\ replies' = << p >> \o Tail(replies)
    BY <1>4 DEF p
  <2>4. /\ replies' \in Seq(Replies \cup {p}) /\ Len(replies') = Len(replies)
        /\ replies'[1] = p
        /\ \A i \in 2 .. Len(replies) : replies'[i] = replies[i]
    BY <1>1, <2>2, <2>3, GotoFrame
  <2>5. /\ DOMAIN replies' = 1 .. Len(replies) /\ DOMAIN replies = 1 .. Len(replies)
        /\ Head(replies) = replies[1]
    BY <1>1, <2>4
  <2>6. ASSUME NEW i \in 1 .. Len(replies)
        PROVE  i # 1 => i \in 2 .. Len(replies)
    BY <1>1
  <2>7. Ints(replies') = Ints(replies)
    BY <1>1, <2>1, <2>4, <2>5, <2>6 DEF Ints
  <2>8. Intact(replies) => Intact(replies')
    BY <1>1, <2>1, <2>4, <2>5, <2>6, <2>7 DEF Intact, Ints
  <2>. QED
    BY <2>7, <2>8
<1>. QED
  BY <1>3, <1>4 DEF Receive, Unread

\* The interrupts that are still to be served.
Noted   == IF triggeringCore = NoCore THEN 0 ELSE 1
Waiters == Noted + Cardinality(Ints(replies))

LEMMA WaitersType ==
    ASSUME TypeOK
    PROVE  /\ Noted \in 0 .. 1 /\ Cardinality(Ints(replies)) \in Nat
           /\ Waiters \in Nat /\ served \in Nat /\ irqs \in Nat
<1>1. /\ replies \in Seq(Replies) /\ served \in Nat /\ irqs \in 0 .. MaxIrqs
  BY DEF TypeOK
<1>2. irqs \in Nat
  BY <1>1, ConstantsAssumption DEF ConstantsAssumption
<1>. QED
  BY <1>1, <1>2, IntsFinite DEF Noted, Waiters

\* Steps that neither take an interrupt from the line nor put one there.
LEMMA OtherInts ==
    ASSUME TypeOK, [Next]_vars, ~ReceiveInterrupt, ~Drain,
           ~(\E core \in Cores : RaiseInterrupt(core))
    PROVE  /\ UNCHANGED <<triggeringCore, served, irqs>>
           /\ Waiters' = Waiters
           /\ Intact(replies) => Intact(replies')
<1>. USE DEF hostVars, boardVars
<1>1. CASE UNCHANGED <<triggeringCore, served, irqs, replies>>
  BY <1>1 DEF Waiters, Noted, Ints, Intact
<1>2. CASE /\ UNCHANGED <<triggeringCore, served, irqs>>
           /\ \E state : Receive(state)
  BY <1>2, IntsRead DEF Waiters, Noted
<1>3. CASE /\ UNCHANGED <<triggeringCore, served, irqs>>
           /\ \E p \in Replies : p.opcode # "INT" /\ replies' = Append(replies, p)
  <2>1. PICK p \in Replies : p.opcode # "INT" /\ replies' = Append(replies, p)
    BY <1>3
  <2>2. replies \in Seq(Replies) /\ Cardinality(Ints(replies)) \in Nat
    BY IntsFinite DEF TypeOK
  <2>3. /\ Cardinality(Ints(replies')) = Cardinality(Ints(replies))
        /\ Intact(replies) => Intact(replies')
    BY <2>1, <2>2, IntsAppend
  <2>. QED
    BY <1>3, <2>3 DEF Waiters, Noted
<1>4. CASE \/ \E kind \in Kinds : \E dep \in Accepted \cup {0} : StartAsyncTask(kind, dep)
           \/ \E kind \in Kinds : DoSyncTask(kind)
           \/ HandleReplies \/ UserReturns \/ TakeRunning
  BY <1>1, <1>4 DEF StartAsyncTask, DoSyncTask, HandleReplies, UserReturns, TakeRunning
<1>5. CASE Retry \/ Release \/ FetchReturns \/ SyncSend
  BY <1>1, <1>5 DEF Retry, Release, FetchReturns, SyncSend
<1>6. CASE AsyncSuccess \/ SyncSuccess \/ SyncRetry
  BY <1>2, <1>6 DEF AsyncSuccess, SyncSuccess, SyncRetry
<1>7. CASE AsyncFailure \/ SyncAbort
  BY <1>1, <1>2, <1>7 DEF AsyncFailure, SyncAbort, Timeout
<1>8. CASE Answer
  <2>1. UNCHANGED <<triggeringCore, served, irqs>>
    BY <1>8 DEF Answer
  <2>2. UNCHANGED replies \/ \E p \in Replies : p.opcode # "INT" /\ replies' = Append(replies, p)
    BY <1>8, AnswerReply
  <2>. QED
    BY <1>1, <1>3, <2>1, <2>2
<1>9. CASE UNCHANGED vars
  BY <1>1, <1>9 DEF vars
<1>. QED
  BY <1>4, <1>5, <1>6, <1>7, <1>8, <1>9 DEF Next, User, Host, Board

\* Task::receive() notes the core of an interrupt it meets.
LEMMA ReceiveInts ==
    ASSUME TypeOK, ReceiveInterrupt
    PROVE  /\ UNCHANGED <<served, irqs>>
           /\ \/ UNCHANGED <<replies, triggeringCore>>
              \/ /\ Waiters >= 1 + Noted /\ Waiters' = Waiters - 1 - Noted + Noted'
                 /\ Intact(replies) => Intact(replies') /\ Noted' = 1
<1>1. UNCHANGED <<served, irqs>> /\ replies # << >> /\ Head(replies).opcode = "INT"
  BY DEF ReceiveInterrupt, boardVars
<1>2. replies \in Seq(Replies) /\ Head(replies) \in Replies /\ Tail(replies) \in Seq(Replies)
  BY <1>1, HeadTailProperties DEF TypeOK
<1>3. /\ Cardinality(Ints(replies)) = Cardinality(Ints(Tail(replies))) + 1
      /\ Intact(replies) => Intact(Tail(replies)) /\ Head(replies).intact
  BY <1>1, <1>2, IntsTail
<1>4. Cardinality(Ints(Tail(replies))) \in Nat /\ Cardinality(Ints(replies)) \in Nat
  BY <1>2, IntsFinite
<1>5. CASE /\ replies' = Tail(replies)
           /\ triggeringCore' = IF Head(replies).intact THEN Head(replies).from
                                                        ELSE triggeringCore
  <2>1. Head(replies).intact => triggeringCore' # NoCore
    BY <1>1, <1>2, <1>5, ConstantsAssumption DEF ConstantsAssumption, Replies, NoCore
  <2>2. Noted \in 0 .. 1 /\ Noted' \in 0 .. 1
    BY DEF Noted
  <2>3. Head(replies).intact => Noted' = 1
    BY <2>1 DEF Noted
  <2>4. Waiters >= 1 + Noted /\ Waiters' = Waiters - 1 - Noted + Noted'
    BY <1>3, <1>4, <1>5, <2>2 DEF Waiters
  <2>. QED
    BY <1>1, <1>3, <1>5, <2>3, <2>4
<1>. QED
  BY <1>1, <1>5 DEF ReceiveInterrupt

\* The end of fetchAsyncReplies() serves one interrupt: the one on the line, or
\* else the one that was noted.
LEMMA DrainInts ==
    ASSUME TypeOK, Drain
    PROVE  /\ UNCHANGED irqs
           /\ \/ UNCHANGED <<served, replies, triggeringCore>>
              \/ /\ Noted' = 0
                 /\ Intact(replies) => Intact(replies')
                 /\ \/ /\ replies' = replies /\ served' = served + Noted
                    \/ /\ Cardinality(Ints(replies)) = Cardinality(Ints(replies')) + 1
                       /\ served' = served + 1
<1>. DEFINE interrupt == replies # << >> /\ Head(replies).opcode = "INT"
            core == IF interrupt THEN Head(replies).from ELSE triggeringCore
<1>1. /\ UNCHANGED irqs /\ replies \in Seq(Replies) /\ served \in Nat
      /\ triggeringCore \in Cores \cup {NoCore}
  BY DEF Drain, boardVars, TypeOK
<1>2. interrupt =>
          /\ Head(replies).from \in Cores
          /\ Cardinality(Ints(replies)) = Cardinality(Ints(Tail(replies))) + 1
          /\ Intact(replies) => Intact(Tail(replies))
  <2>1. ASSUME interrupt PROVE Head(replies) \in Replies
    BY <1>1, <2>1, HeadTailProperties
  <2>2. interrupt => Head(replies).from \in Cores
    BY <2>1 DEF Replies
  <2>. QED
    BY <1>1, <2>2, IntsTail
<1>3. InterruptOccured(core) <=> core # NoCore
  <2>1. core \in Cores \cup {NoCore}
    BY <1>1, <1>2
  <2>. HIDE DEF core
  <2>2. core \in Nat \ {0} \/ core = NoCore
    BY <2>1, ConstantsAssumption DEF ConstantsAssumption
  <2>. QED
    BY <2>2 DEF InterruptOccured, NoCore
<1>4. CASE /\ replies' = IF interrupt THEN Tail(replies) ELSE replies
           /\ triggeringCore' = NoCore
           /\ served' = served + (IF core # NoCore THEN 1 ELSE 0)
  <2>1. Noted' = 0
    BY <1>4 DEF Noted
  <2>2. Intact(replies) => Intact(replies')
    BY <1>2, <1>4
  <2>3. CASE interrupt
    <3>1. core # NoCore
      BY <1>2, <2>3, ConstantsAssumption DEF ConstantsAssumption, NoCore
    <3>. QED
      BY <1>1, <1>2, <1>4, <2>1, <2>2, <2>3, <3>1
  <2>4. CASE ~interrupt
    <3>1. served' = served + Noted
      BY <1>1, <1>4, <2>4 DEF Noted
    <3>. QED
      BY <1>1, <1>4, <2>1, <2>2, <2>4, <3>1
  <2>. QED
    BY <2>3, <2>4
<1>5. \/ UNCHANGED <<served, replies, triggeringCore>>
      \/ /\ replies' = IF interrupt THEN Tail(replies) ELSE replies
         /\ triggeringCore' = NoCore
         /\ \/ InterruptOccured(core) /\ served' = served + 1
            \/ ~InterruptOccured(core) /\ served' = served
  BY DEF Drain, ResetTriggeringCore
<1>6. CASE UNCHANGED <<served, replies, triggeringCore>>
  BY <1>1, <1>6
<1>. QED
  BY <1>1, <1>3, <1>4, <1>5, <1>6

LEMMA RaiseInts ==
    ASSUME TypeOK, NEW core \in Cores, RaiseInterrupt(core)
    PROVE  /\ UNCHANGED <<triggeringCore, served>> /\ irqs' = irqs + 1
           /\ Waiters' = Waiters + 1
           /\ "garble" \notin Faults /\ Intact(replies) => Intact(replies')
<1>1. /\ UNCHANGED <<triggeringCore, served>> /\ irqs' = irqs + 1
      /\ replies \in Seq(Replies)
  BY DEF RaiseInterrupt, hostVars, TypeOK
<1>2. PICK p \in Replies : /\ replies' = Append(replies, p) /\ p.opcode = "INT"
                           /\ "garble" \notin Faults => p.intact
  BY RaiseReply
<1>3. /\ Cardinality(Ints(replies')) = Cardinality(Ints(replies)) + 1
      /\ Intact(replies) /\ p.intact => Intact(replies')
  BY <1>1, <1>2, IntsAppend
<1>4. Waiters' = Waiters + 1
  BY <1>1, <1>3, WaitersType DEF Waiters, Noted
<1>. QED
  BY <1>1, <1>2, <1>3, <1>4

\* No interrupt is counted twice.
ServedOnce == served + Waiters <= irqs

LEMMA ServedNext ==
    ASSUME TypeOK, TypeOK', ServedOnce, [Next]_vars
    PROVE  ServedOnce'
<1>1. /\ Noted \in 0 .. 1 /\ Waiters \in Nat /\ served \in Nat /\ irqs \in Nat
      /\ Cardinality(Ints(replies)) \in Nat
  BY WaitersType
<1>2. /\ Noted' \in 0 .. 1
      /\ replies' \in Seq(Replies) /\ Cardinality(Ints(replies')) \in Nat
  BY IntsFinite DEF TypeOK, Noted
<1>3. CASE ReceiveInterrupt
  <2>1. CASE UNCHANGED <<replies, triggeringCore>>
    BY <1>3, <2>1, ReceiveInts DEF ServedOnce, Waiters, Noted
  <2>2. CASE /\ Waiters >= 1 + Noted /\ Waiters' = Waiters - 1 - Noted + Noted'
             /\ UNCHANGED <<served, irqs>>
    <3>1. Waiters' \in Nat /\ Waiters' <= Waiters
      <4>1. ASSUME NEW w \in Nat, NEW n \in 0 .. 1, NEW m \in 0 .. 1, w >= 1 + n
            PROVE  w - 1 - n + m \in Nat /\ w - 1 - n + m <= w
        BY <4>1
      <4>. QED
        BY <1>1, <1>2, <2>2, <4>1
    <3>. QED
      BY <1>1, <2>2, <3>1 DEF ServedOnce
  <2>. QED
    BY <1>3, <2>1, <2>2, ReceiveInts
<1>4. CASE Drain
  <2>1. CASE UNCHANGED <<irqs, served, replies, triggeringCore>>
    BY <2>1 DEF ServedOnce, Waiters, Noted
  <2>2. CASE /\ UNCHANGED irqs /\ Noted' = 0
             /\ replies' = replies /\ served' = served + Noted
    BY <1>1, <2>2 DEF ServedOnce, Waiters
  <2>3. CASE /\ UNCHANGED irqs /\ Noted' = 0 /\ served' = served + 1
             /\ Cardinality(Ints(replies)) = Cardinality(Ints(replies')) + 1
    BY <1>1, <1>2, <2>3 DEF ServedOnce, Waiters
  <2>. QED
    BY <1>4, <2>1, <2>2, <2>3, DrainInts
<1>5. CASE \E core \in Cores : RaiseInterrupt(core)
  BY <1>1, <1>5, RaiseInts DEF ServedOnce
<1>6. CASE ~ReceiveInterrupt /\ ~Drain /\ ~(\E core \in Cores : RaiseInterrupt(core))
  BY <1>6, OtherInts DEF ServedOnce
<1>. QED
  BY <1>3, <1>4, <1>5, <1>6

LEMMA NoInts == Init => Waiters = 0 /\ Intact(replies)
<1>. SUFFICES ASSUME Init PROVE Waiters = 0 /\ Intact(replies)
  OBVIOUS
<1>1. Ints(replies) = {} /\ Noted = 0
  BY DEF Init, Ints, Noted
<1>. QED
  BY <1>1, FS_EmptySet DEF Waiters, Intact

\* No interrupt is served twice, whatever goes wrong on the line: one that has
\* been served is neither noted any more nor left on the line.
THEOREM ServedCorrect == Spec => []ServedOnce
<1>1. Init => ServedOnce
  BY NoInts DEF Init, ServedOnce
<1>2. TypeOK /\ TypeOK' /\ ServedOnce /\ [Next]_vars => ServedOnce'
  BY ServedNext
<1>. QED
  BY <1>1, <1>2, TypeCorrect, PTL DEF Spec

\* The host notes one interrupt at a time, and only if it can read it.
Solitary == MaxIrqs <= 1 /\ "garble" \notin Faults

\* A call that has met an interrupt in front of its reply has noted it.
Met   == At("recv") /\ Top.depth = 1
Heard == Met => Noted = 1

Accounted == irqs = served + Waiters /\ Intact(replies) /\ Heard

\* A call that has neither met an interrupt nor come to an end.
Calm(f) == f.at # "aborted" /\ (f.at = "recv" => f.depth = 0)

LEMMA CalmGoto ==
    ASSUME TypeOK, TypeOK', stack # << >>, NEW f, Goto(f), Calm(f)
    PROVE  Calm(Top')
<1>1. f \in Frames /\ stack \in Seq(Frames)
  BY NewTop DEF TypeOK
<1>2. Top' = f
  BY <1>1, GotoFrame DEF Goto, Top
<1>. QED
  BY <1>2

LEMMA CalmReturn ==
    ASSUME TypeOK, Suspended, stack # << >>, Return, stack' # << >>
    PROVE  Calm(Top')
<1>1. /\ stack' \in Seq(Frames) /\ Len(stack') = Len(stack) - 1 /\ Len(stack) \in Nat \ {0}
      /\ \A i \in 1 .. Len(stack) - 1 : stack'[i] = stack[i + 1]
  BY HeadTailProperties, TopFrame DEF Return, TypeOK
<1>2. Top' = stack'[1] /\ 1 \in 1 .. Len(stack) - 1
  BY <1>1, HeadTailProperties, EmptySeq DEF Top
<1>3. Top' = stack[2] /\ 2 \in 2 .. Len(stack)
  BY <1>1, <1>2
<1>. QED
  BY <1>3 DEF Suspended, Calm

LEMMA CalmCall ==
    ASSUME TypeOK, NEW caller \in {"handle", "sync"}, NEW kind \in AllKinds,
           Call(Fetch(caller, kind))
    PROVE  Calm(Top')
<1>. DEFINE f == Fetch(caller, kind)
<1>1. f \in Frames /\ f.at = "loop"
  BY DEF Fetch, Frames, Places, Sync
<1>. HIDE DEF f
<1>2. stack' = << f >> \o stack /\ stack \in Seq(Frames)
  BY DEF Call, TypeOK, f
<1>3. Top' = f
  BY <1>1, <1>2, CallFrame, HeadTailProperties DEF Top
<1>. QED
  BY <1>1, <1>3 DEF Calm

\* Only ReceiveInterrupt, Drain and SyncAbort disturb a call.
LEMMA CalmHost ==
    ASSUME TypeOK, TypeOK', Suspended, UserReturns \/ Host,
           ~ReceiveInterrupt, ~Drain, ~SyncAbort, stack' # << >>
    PROVE  Calm(Top')
<1>3. ASSUME stack # << >>
      PROVE  Top \in Frames
  BY <1>3, TopFrame
<1>4. CASE UserReturns \/ AsyncFailure \/ FetchReturns
  <2>1. stack # << >>
    BY <1>4 DEF UserReturns, AsyncFailure, FetchReturns, At
  <2>2. ASSUME NEW place \in {"release", "return", "retry", "send"},
               Goto([Top EXCEPT !.at = place])
        PROVE  Calm(Top')
    <3>1. [Top EXCEPT !.at = place].at = place
      BY <1>3, <2>1 DEF Frames
    <3>2. Calm([Top EXCEPT !.at = place])
      BY <3>1 DEF Calm
    <3>. QED
      BY <2>1, <2>2, <3>2, CalmGoto
  <2>3. Return \/ \E place \in {"release", "return", "retry", "send"} : Goto([Top EXCEPT !.at = place])
    BY <1>4 DEF UserReturns, AsyncFailure, FetchReturns
  <2>. QED
    BY <2>1, <2>2, <2>3, CalmReturn
<1>5. CASE TakeRunning
  <2>. DEFINE f == [Top EXCEPT !.at = "recv", !.task = Head(running), !.depth = 0]
  <2>1. stack # << >> /\ Goto(f)
    BY <1>5 DEF TakeRunning, At
  <2>2. f.depth = 0 /\ f.at = "recv"
    BY <1>3, <2>1 DEF Frames
  <2>. HIDE DEF f
  <2>. QED
    BY <2>1, <2>2, CalmGoto DEF Calm
<1>6. CASE AsyncSuccess
  <2>. DEFINE q == IF Top.task \in dependent THEN Retained(Top.task) ELSE << >>
              f(at) == [Top EXCEPT !.at = at, !.retained = q]
  <2>1. stack # << >> /\ (Goto(f("callback")) \/ Goto(f("release")))
    BY <1>6 DEF AsyncSuccess, Receive, At
  <2>2. f("callback").at = "callback" /\ f("release").at = "release"
    BY <1>3, <2>1 DEF Frames
  <2>. HIDE DEF f
  <2>. QED
    BY <2>1, <2>2, CalmGoto DEF Calm
<1>7. CASE Retry
  <2>. DEFINE f == [Top EXCEPT !.at = "loop"]
              g == [Top EXCEPT !.at = "loop", !.ok = FALSE]
  <2>1. stack # << >> /\ (Goto(f) \/ Goto(g))
    BY <1>7 DEF Retry, At, GiveUp
  <2>2. f.at = "loop" /\ g.at = "loop"
    BY <1>3, <2>1 DEF Frames
  <2>. HIDE DEF f, g
  <2>. QED
    BY <2>1, <2>2, CalmGoto DEF Calm
<1>8. CASE Release
  <2>. DEFINE f == [Top EXCEPT !.at = "loop"]
              g == [Top EXCEPT !.retained = Tail(@)]
  <2>1. stack # << >> /\ Top.at = "release" /\ (Goto(f) \/ Goto(g))
    BY <1>8 DEF Release, At
  <2>2. f.at = "loop" /\ g.at = "release"
    BY <1>3, <2>1 DEF Frames
  <2>. HIDE DEF f, g
  <2>. QED
    BY <2>1, <2>2, CalmGoto DEF Calm
<1>9. CASE SyncSend \/ SyncSuccess \/ SyncRetry
  <2>. DEFINE f == [Top EXCEPT !.attempt = @ + 1]
              g == [f EXCEPT !.at = "recv", !.task = Sync, !.depth = 0]
              h == [f EXCEPT !.at = "send"]
              k == [Top EXCEPT !.at = "send"]
  <2>1. stack # << >> /\ (Return \/ Goto(g) \/ Goto(h) \/ Goto(k))
    BY <1>9 DEF SyncSend, SyncSuccess, SyncRetry, Receive, At, NextAttempt
  <2>2. g.depth = 0 /\ g.at = "recv" /\ h.at = "send" /\ k.at = "send"
    BY <1>3, <2>1 DEF Frames
  <2>. HIDE DEF g, h, k
  <2>. QED
    BY <2>1, <2>2, CalmGoto, CalmReturn DEF Calm
<1>. QED
  BY <1>4, <1>5, <1>6, <1>7, <1>8, <1>9 DEF Host

LEMMA CalmNext ==
    ASSUME TypeOK, TypeOK', Suspended, [Next]_vars,
           ~ReceiveInterrupt, ~Drain, ~SyncAbort, stack' # << >>
    PROVE  UNCHANGED <<stack, triggeringCore>> \/ Calm(Top')
<1>. USE DEF hostVars
<1>1. CASE \/ \E kind \in Kinds : \E dep \in Accepted \cup {0} : StartAsyncTask(kind, dep)
           \/ Board \/ UNCHANGED vars
  BY <1>1 DEF StartAsyncTask, Board, Answer, RaiseInterrupt, vars
<1>2. CASE (\E kind \in Kinds : DoSyncTask(kind)) \/ HandleReplies
  <2>1. PICK caller \in {"handle", "sync"}, kind \in AllKinds : Call(Fetch(caller, kind))
    BY <1>2, ConstantsAssumption DEF ConstantsAssumption, DoSyncTask, HandleReplies, AllKinds
  <2>. QED
    BY <2>1, CalmCall
<1>3. CASE UserReturns \/ Host
  BY <1>3, CalmHost
<1>. QED
  BY <1>1, <1>2, <1>3 DEF Next, User

\* A call ends where its assert() fails.
LEMMA SyncAbortTop ==
    ASSUME TypeOK, TypeOK', SyncAbort
    PROVE  Top'.at = "aborted"
<1>1. stack # << >> /\ Top \in Frames /\ Goto([Top EXCEPT !.at = "aborted", !.task = Sync])
  BY TopFrame DEF SyncAbort, Abort, Receive, Timeout, At
<1>. DEFINE f == [Top EXCEPT !.at = "aborted", !.task = Sync]
<1>2. f.at = "aborted" /\ Goto(f)
  BY <1>1 DEF Frames
<1>. HIDE DEF f
<1>3. f \in Frames /\ stack \in Seq(Frames)
  BY <1>1, <1>2, NewTop DEF TypeOK
<1>4. Top' = f
  BY <1>1, <1>2, <1>3, GotoFrame DEF Goto, Top
<1>. QED
  BY <1>2, <1>4

LEMMA DrainTop ==
    ASSUME TypeOK, TypeOK', Drain
    PROVE  Top'.at # "recv"
<1>1. stack # << >> /\ Top \in Frames
  BY TopFrame DEF Drain, At
<1>. DEFINE f(at) == [Top EXCEPT !.at = at]
            g == [Top EXCEPT !.at = "aborted", !.task = Sync]
<1>2. Goto(f("isr")) \/ Goto(f("return")) \/ Goto(g)
  BY DEF Drain, Abort
<1>3. f("isr").at = "isr" /\ f("return").at = "return" /\ g.at = "aborted"
  BY <1>1 DEF Frames
<1>. HIDE DEF f, g
<1>4. ASSUME NEW h, Goto(h)
      PROVE  Top' = h
  <2>1. h \in Frames /\ stack \in Seq(Frames)
    BY <1>1, <1>4, NewTop DEF TypeOK
  <2>. QED
    BY <1>1, <1>4, <2>1, GotoFrame DEF Goto, Top
<1>. QED
  BY <1>2, <1>3, <1>4

\* When there is one interrupt at most, meeting it on the line means that it
\* has neither been noted nor served before.
LEMMA OnlyOne ==
    ASSUME TypeOK, Solitary, Accounted, Cardinality(Ints(replies)) >= 1
    PROVE  Noted = 0 /\ served = 0
<1>1. irqs <= 1
  BY ConstantsAssumption DEF ConstantsAssumption, TypeOK, Solitary
<1>2. irqs = served + Noted + Cardinality(Ints(replies))
  BY WaitersType DEF Accounted, Waiters
<1>. QED
  BY <1>1, <1>2, WaitersType

LEMMA HeadInts ==
    ASSUME TypeOK, replies # << >>, Head(replies).opcode = "INT"
    PROVE  Cardinality(Ints(replies)) >= 1 /\ (Intact(replies) => Head(replies).intact)
<1>1. replies \in Seq(Replies) /\ Tail(replies) \in Seq(Replies)
  BY HeadTailProperties DEF TypeOK
<1>2. Cardinality(Ints(Tail(replies))) \in Nat
  BY <1>1, IntsFinite
<1>. QED
  BY <1>1, <1>2, IntsTail

LEMMA AccountedNext ==
    ASSUME TypeOK, TypeOK', Suspended, Solitary, Accounted, [Next]_vars
    PROVE  Accounted'
<1>1. /\ Noted \in 0 .. 1 /\ Waiters \in Nat /\ served \in Nat /\ irqs \in Nat
      /\ Cardinality(Ints(replies)) \in Nat
      /\ irqs = served + Waiters /\ Intact(replies) /\ Heard
  BY WaitersType DEF Accounted
<1>2. /\ Noted' \in 0 .. 1
      /\ replies' \in Seq(Replies) /\ Cardinality(Ints(replies')) \in Nat
  BY IntsFinite DEF TypeOK, Noted
<1>3. CASE ReceiveInterrupt
  <2>1. /\ Noted = 0 /\ UNCHANGED <<served, irqs>>
        /\ Top.depth = 0 /\ stack # << >> /\ Top.at = "recv"
    <3>1. Noted = 0
      BY <1>3, HeadInts, OnlyOne DEF ReceiveInterrupt
    <3>2. At("recv") /\ stack # << >> /\ Top.at = "recv" /\ Top.depth # 1
      BY <1>1, <1>3, <3>1 DEF ReceiveInterrupt, Heard, Met, At
    <3>3. Top.depth \in {0, 1}
      BY <1>3 DEF ReceiveInterrupt
    <3>. QED
      BY <1>3, <3>1, <3>2, <3>3, ReceiveInts
  <2>2. triggeringCore' # triggeringCore /\ Noted' = 1
    <3>1. Head(replies).intact /\ Head(replies) \in Replies /\ Head(replies).opcode = "INT"
      BY <1>1, <1>3, HeadInts, HeadTailProperties DEF ReceiveInterrupt, TypeOK
    <3>2. triggeringCore' = Head(replies).from
      BY <1>3, <2>1, <3>1 DEF ReceiveInterrupt
    <3>3. Head(replies).from # NoCore
      BY <3>1, ConstantsAssumption DEF ConstantsAssumption, Replies, NoCore
    <3>. QED
      BY <2>1, <3>2, <3>3 DEF Noted
  <2>3. Waiters' = Waiters - 1 - Noted + Noted' /\ Intact(replies')
    BY <1>1, <1>3, <2>2, ReceiveInts
  <2>4. Waiters' = Waiters
    BY <1>1, <2>1, <2>2, <2>3
  <2>. QED
    BY <1>1, <2>1, <2>2, <2>3, <2>4 DEF Accounted, Heard, Met
<1>4. CASE Drain
  <2>1. Heard'
    BY <1>4, DrainTop DEF Heard, Met, At
  <2>2. CASE UNCHANGED <<irqs, served, replies, triggeringCore>>
    BY <1>1, <2>1, <2>2 DEF Accounted, Waiters, Noted, Intact, Ints
  <2>3. CASE /\ UNCHANGED irqs /\ Noted' = 0 /\ Intact(replies')
             /\ replies' = replies /\ served' = served + Noted
    <3>1. Waiters' = Cardinality(Ints(replies))
      BY <1>1, <2>3 DEF Waiters
    <3>2. irqs' = served' + Waiters'
      BY <1>1, <2>3, <3>1 DEF Waiters
    <3>. QED
      BY <2>1, <2>3, <3>2 DEF Accounted
  <2>4. CASE /\ UNCHANGED irqs /\ Noted' = 0 /\ Intact(replies') /\ served' = served + 1
             /\ Cardinality(Ints(replies)) = Cardinality(Ints(replies')) + 1
    <3>1. Noted = 0
      BY <1>1, <1>2, <2>4, OnlyOne
    <3>2. Waiters = Cardinality(Ints(replies')) + 1 /\ Waiters' = Cardinality(Ints(replies'))
      BY <1>1, <1>2, <2>4, <3>1 DEF Waiters
    <3>3. irqs' = served' + Waiters'
      BY <1>1, <1>2, <2>4, <3>2
    <3>. QED
      BY <2>1, <2>4, <3>3 DEF Accounted
  <2>. QED
    BY <1>1, <1>4, <2>2, <2>3, <2>4, DrainInts
<1>5. CASE ~ReceiveInterrupt /\ ~Drain
  <2>1. irqs' = served' + Waiters' /\ Intact(replies') /\ triggeringCore' = triggeringCore
    <3>1. CASE \E core \in Cores : RaiseInterrupt(core)
      BY <1>1, <3>1, RaiseInts DEF Solitary
    <3>2. CASE ~(\E core \in Cores : RaiseInterrupt(core))
      BY <1>1, <1>5, <3>2, OtherInts
    <3>. QED
      BY <3>1, <3>2
  <2>2. Heard'
    <3>1. CASE SyncAbort
      BY <3>1, SyncAbortTop DEF Heard, Met, At
    <3>2. CASE ~SyncAbort /\ stack' # << >>
      <4>1. CASE UNCHANGED <<stack, triggeringCore>>
        BY <1>1, <4>1 DEF Heard, Met, At, Top, Noted
      <4>2. CASE Calm(Top')
        BY <4>2 DEF Calm, Heard, Met, At
      <4>. QED
        BY <1>5, <3>2, <4>1, <4>2, CalmNext
    <3>3. CASE stack' = << >>
      BY <3>3 DEF Heard, Met, At
    <3>. QED
      BY <3>1, <3>2, <3>3
  <2>. QED
    BY <2>1, <2>2 DEF Accounted
<1>. QED
  BY <1>3, <1>4, <1>5

LEMMA AccountedInit == Init => Accounted
<1>. SUFFICES ASSUME Init PROVE Accounted
  OBVIOUS
<1>1. irqs = 0 /\ served = 0 /\ stack = << >>
  BY DEF Init
<1>. QED
  BY <1>1, NoInts DEF Accounted, Heard, Met, At

\* Every interrupt is on the line, noted or served once: as long as there is one
\* at a time and it arrives undamaged, neither Task::receive() nor the end of
\* fetchAsyncReplies() forgets it, however they are nested.
THEOREM InterruptsCorrect == ASSUME Solitary PROVE Spec => []InterruptsAccounted
<1>1. SInv /\ SInv' /\ Accounted /\ [Next]_vars => Accounted'
  BY AccountedNext DEF SInv, OInv, IInv, Kept
<1>2. SInv /\ Accounted => InterruptsAccounted
  <2>. SUFFICES ASSUME TypeOK, Accounted PROVE InterruptsAccounted
    BY DEF SInv, OInv, IInv
  <2>1. Ints(replies) = { i \in DOMAIN replies : replies[i].opcode = "INT" }
    BY DEF Ints
  <2>2. irqs = served + Noted + Cardinality(Ints(replies))
    BY WaitersType DEF Accounted, Waiters
  <2>. QED
    BY <2>1, <2>2 DEF InterruptsAccounted, Noted
<1>. QED
  BY <1>1, <1>2, AccountedInit, Bookkeeping, PTL DEF Spec

-----------------------------------------------------------------------------
(* The assertions of the executor.                                         *)

\* No interrupt follows another one.
Spaced(s) == \A i \in 1 .. Len(s) - 1 : s[i].opcode = "INT" => s[i + 1].opcode # "INT"

LEMMA SpacedTail ==
    ASSUME NEW s \in Seq(Replies), s # << >>, Spaced(s)
    PROVE  /\ Spaced(Tail(s))
           /\ Tail(s) # << >> => /\ Tail(s)[Len(Tail(s))] = s[Len(s)]
                                 /\ Head(s).opcode = "INT" => Head(Tail(s)).opcode # "INT"
           /\ Tail(s) = << >> => s[Len(s)] = Head(s)
<1>. DEFINE t == Tail(s)
<1>1. /\ t \in Seq(Replies) /\ Len(t) = Len(s) - 1 /\ Len(s) \in Nat \ {0} /\ Head(s) = s[1]
      /\ \A i \in 1 .. Len(s) - 1 : t[i] = s[i + 1]
  BY HeadTailProperties, EmptySeq
<1>. HIDE DEF t
<1>2. Spaced(t)
  <2>1. ASSUME NEW i \in 1 .. Len(t) - 1
        PROVE  t[i] = s[i + 1] /\ t[i + 1] = s[(i + 1) + 1] /\ i + 1 \in 1 .. Len(s) - 1
    BY <1>1
  <2>. QED
    BY <2>1 DEF Spaced
<1>3. ASSUME t # << >>
      PROVE  t[Len(t)] = s[Len(s)] /\ (Head(s).opcode = "INT" => Head(t).opcode # "INT")
  <2>1. Len(t) \in Nat \ {0} /\ Head(t) = t[1]
    BY <1>1, <1>3, HeadTailProperties, EmptySeq
  <2>2. t[Len(t)] = s[Len(s)] /\ t[1] = s[1 + 1] /\ 1 \in 1 .. Len(s) - 1
    BY <1>1, <2>1
  <2>. QED
    BY <1>1, <2>1, <2>2 DEF Spaced
<1>4. ASSUME t = << >>
      PROVE  s[Len(s)] = Head(s)
  <2>1. Len(t) = 0
    BY <1>4
  <2>2. Len(s) = 1
    BY <1>1, <2>1
  <2>. QED
    BY <1>1, <2>2
<1>. QED
  BY <1>2, <1>3, <1>4 DEF t

LEMMA SpacedAppend ==
    ASSUME NEW s \in Seq(Replies), NEW p \in Replies, Spaced(s),
           p.opcode = "INT" /\ s # << >> => s[Len(s)].opcode # "INT"
    PROVE  /\ Spaced(Append(s, p)) /\ Append(s, p) # << >>
           /\ Append(s, p)[Len(Append(s, p))] = p
           /\ Head(Append(s, p)) = IF s = << >> THEN p ELSE Head(s)
<1>. DEFINE t == Append(s, p)
<1>1. /\ t \in Seq(Replies) /\ t # << >> /\ Len(t) = Len(s) + 1 /\ Len(s) \in Nat
      /\ t[Len(s) + 1] = p /\ \A i \in 1 .. Len(s) : t[i] = s[i]
  BY AppendProperties, LenProperties
<1>. HIDE DEF t
<1>2. ASSUME NEW i \in 1 .. Len(t) - 1, t[i].opcode = "INT"
      PROVE  t[i + 1].opcode # "INT"
  <2>1. CASE i = Len(s)
    <3>1. s # << >> /\ s[Len(s)].opcode = "INT" /\ t[i + 1] = p
      BY <1>1, <1>2, <2>1
    <3>. QED
      BY <3>1
  <2>2. CASE i \in 1 .. Len(s) - 1
    <3>1. t[i] = s[i] /\ t[i + 1] = s[i + 1]
      BY <1>1, <2>2
    <3>. QED
      BY <1>2, <2>2, <3>1 DEF Spaced
  <2>. QED
    BY <1>1, <2>1, <2>2
<1>3. Head(t) = t[1] /\ (s # << >> => Head(s) = s[1] /\ 1 \in 1 .. Len(s))
  BY <1>1, HeadTailProperties, EmptySeq
<1>4. Head(t) = IF s = << >> THEN p ELSE Head(s)
  BY <1>1, <1>3, EmptySeq
<1>. QED
  BY <1>1, <1>2, <1>4 DEF Spaced, t

\* The board interrupts once between two replies to an "enable", and the reply
\* that enables it again is on the line behind the interrupt.
Gapped ==
    /\ Intact(replies) /\ Spaced(replies)
    /\ Met /\ replies # << >> => Head(replies).opcode # "INT"
    /\ irqEnabled => IF replies = << >> THEN ~Met
                                        ELSE replies[Len(replies)].opcode # "INT"

LEMMA IntactNext ==
    ASSUME TypeOK, Intact(replies), "garble" \notin Faults, [Next]_vars
    PROVE  Intact(replies')
<1>1. CASE ReceiveInterrupt
  BY <1>1, ReceiveInts DEF Intact, Ints
<1>2. CASE Drain
  BY <1>2, DrainInts DEF Intact, Ints
<1>3. CASE \E core \in Cores : RaiseInterrupt(core)
  BY <1>3, RaiseInts
<1>4. CASE ~ReceiveInterrupt /\ ~Drain /\ ~(\E core \in Cores : RaiseInterrupt(core))
  BY <1>4, OtherInts
<1>. QED
  BY <1>1, <1>2, <1>3, <1>4

\* A call meets an interrupt in ReceiveInterrupt only.
LEMMA MetNext ==
    ASSUME TypeOK, TypeOK', Suspended, [Next]_vars, ~ReceiveInterrupt, Met'
    PROVE  Met /\ UNCHANGED stack
<1>1. stack' # << >> /\ Top'.at = "recv" /\ Top'.depth = 1
  BY DEF Met, At
<1>2. ~Drain
  BY <1>1, DrainTop
<1>3. ~SyncAbort
  BY <1>1, SyncAbortTop
<1>4. ~Calm(Top')
  BY <1>1 DEF Calm
<1>5. UNCHANGED stack
  BY <1>1, <1>2, <1>3, <1>4, CalmNext
<1>. QED
  BY <1>1, <1>5 DEF Met, At, Top

LEMMA GappedNext ==
    ASSUME IInv, TypeOK', Suspended, Orderly, "garble" \notin Faults,
           Handed, Gapped, [Next]_vars
    PROVE  Gapped'
<1>1. /\ TypeOK /\ replies \in Seq(Replies) /\ Spaced(replies)
  BY DEF IInv, TypeOK, Gapped
<1>2. Intact(replies')
  BY <1>1, IntactNext DEF Gapped
<1>3. CASE ReceiveInterrupt
  <2>1. replies # << >> /\ Head(replies).opcode = "INT" /\ UNCHANGED irqEnabled
    BY <1>3 DEF ReceiveInterrupt, boardVars
  <2>2. replies' = Tail(replies)
    BY <1>3, <2>1 DEF ReceiveInterrupt, Gapped, Met
  <2>. QED
    BY <1>1, <1>2, <2>1, <2>2, SpacedTail DEF Gapped
<1>4. CASE ~ReceiveInterrupt /\ (UNCHANGED <<replies, irqEnabled>>)
  <2>1. Met' => Met
    BY <1>1, <1>4, MetNext
  <2>. QED
    BY <1>2, <1>4, <2>1 DEF Gapped
<1>5. CASE ~Met' /\ replies # << >> /\ replies' = Tail(replies) /\ UNCHANGED irqEnabled
  BY <1>1, <1>2, <1>5, SpacedTail DEF Gapped
<1>6. CASE Answer
  <2>1. PICK p \in Replies : p.opcode # "INT" /\ replies' = Append(replies, p)
    BY <1>1, <1>6, AnswerReply DEF Orderly
  <2>2. Met' = Met
    BY <1>6 DEF Answer, hostVars, Met, At, Top
  <2>. QED
    BY <1>1, <1>2, <2>1, <2>2, SpacedAppend DEF Gapped
<1>7. CASE \E core \in Cores : RaiseInterrupt(core)
  <2>1. PICK p \in Replies : p.opcode = "INT" /\ replies' = Append(replies, p)
    BY <1>1, <1>7, RaiseReply
  <2>2. Met' = Met /\ irqEnabled /\ ~irqEnabled'
    BY <1>7 DEF RaiseInterrupt, hostVars, Met, At, Top
  <2>. QED
    BY <1>1, <1>2, <2>1, <2>2, SpacedAppend DEF Gapped
<1>8. CASE Drain
  <2>1. ~Met'
    BY <1>1, <1>8, DrainTop DEF Met, At
  <2>2. /\ UNCHANGED irqEnabled
        /\ UNCHANGED replies \/ (replies # << >> /\ replies' = Tail(replies))
    BY <1>8 DEF Drain, boardVars
  <2>3. CASE UNCHANGED replies
    BY <1>2, <2>1, <2>2, <2>3 DEF Gapped
  <2>. QED
    BY <1>5, <2>1, <2>2, <2>3
<1>9. CASE /\ AsyncSuccess \/ AsyncFailure \/ SyncSuccess \/ SyncRetry
           /\ ~ReceiveInterrupt /\ ~Drain /\ ~SyncAbort
  <2>1. PICK state : Receive(state)
    BY <1>9, NoTimeout DEF AsyncSuccess, AsyncFailure, SyncSuccess, SyncRetry
  <2>2. replies # << >> /\ replies' = Tail(replies) /\ UNCHANGED irqEnabled
    BY <1>9, <2>1, ReceiveHanded
       DEF Receive, boardVars, AsyncSuccess, AsyncFailure, SyncSuccess, SyncRetry
  <2>3. stack' # << >> => Calm(Top')
    BY <1>1, <1>9, CalmHost DEF Host
  <2>4. ~Met'
    BY <2>3 DEF Met, At, Calm
  <2>. QED
    BY <1>5, <2>2, <2>4
<1>10. CASE SyncAbort
  BY <1>10, SyncAbortHanded
<1>11. CASE \/ \E kind \in Kinds : \E dep \in Accepted \cup {0} : StartAsyncTask(kind, dep)
            \/ \E kind \in Kinds : DoSyncTask(kind)
            \/ HandleReplies \/ UserReturns \/ TakeRunning \/ Retry \/ Release
            \/ FetchReturns \/ SyncSend \/ UNCHANGED vars
  <2>1. UNCHANGED <<replies, irqEnabled>>
    BY <1>11 DEF StartAsyncTask, DoSyncTask, HandleReplies, UserReturns, TakeRunning, Retry,
                 Release, FetchReturns, SyncSend, vars, boardVars
  <2>. QED
    BY <1>3, <1>4, <2>1
<1>. QED
  BY <1>3, <1>6, <1>7, <1>8, <1>9, <1>10, <1>11 DEF Next, User, Host, Board

LEMMA NeverAbortedNext ==
    ASSUME SInv, SInv', Orderly, Handed, Handed', NeverAborted, [Next]_vars,
           Cores = {} \/ ("partial" \notin Faults /\ Gapped)
    PROVE  NeverAborted'
<1>1. TypeOK /\ TypeOK' /\ IInv /\ Suspended
  BY DEF SInv, OInv, IInv, Kept
<1>2. SUFFICES ASSUME Aborted' PROVE FALSE
  BY DEF NeverAborted
<1>3. stack' # << >> /\ Top'.at = "aborted"
  BY <1>2 DEF Aborted, At
<1>4. CASE Cores = {}
  <2>1. stack' \in Seq(Tame) /\ Top' = Head(stack')
    BY DEF Handed, Top
  <2>2. Top' \in Tame
    BY <1>3, <2>1, HeadTailProperties
  <2>. QED
    BY <1>3, <1>4, <2>2 DEF Tame
<1>5. CASE "partial" \notin Faults /\ Gapped
  <2>1. CASE ReceiveInterrupt
    <3>1. Goto([Top EXCEPT !.depth = 1]) /\ stack # << >> /\ Top.at = "recv"
      BY <1>5, <2>1 DEF ReceiveInterrupt, Gapped, Met, At
    <3>. DEFINE f == [Top EXCEPT !.depth = 1]
    <3>2. f.at = "recv" /\ Goto(f)
      BY <1>1, <3>1, TopFrame DEF Frames
    <3>. HIDE DEF f
    <3>3. f \in Frames /\ stack \in Seq(Frames)
      BY <1>1, <3>1, <3>2, NewTop DEF TypeOK
    <3>4. Top' = f
      BY <3>1, <3>2, <3>3, GotoFrame DEF Goto, Top
    <3>. QED
      BY <1>3, <3>2, <3>4
  <2>2. CASE Drain
    <3>1. stack # << >> /\ Top \in Frames
      BY <1>1, <2>2, TopFrame DEF Drain, At
    <3>. DEFINE f(at) == [Top EXCEPT !.at = at]
    <3>2. Goto(f("isr")) \/ Goto(f("return"))
      <4>1. replies # << >> => Head(replies).opcode = "INT" /\ Head(replies).intact
        BY <1>1, <1>5, <2>2, OnlyInts, HeadInts DEF Gapped
      <4>. QED
        BY <1>5, <2>2, <4>1 DEF Drain, Fault
    <3>3. f("isr").at = "isr" /\ f("return").at = "return"
      BY <3>1 DEF Frames
    <3>. HIDE DEF f
    <3>. QED
      BY <1>1, <1>3, <3>1, <3>2, <3>3, CalmGoto DEF Calm
  <2>3. CASE SyncAbort
    BY <1>1, <2>3, SyncAbortHanded
  <2>4. CASE ~ReceiveInterrupt /\ ~Drain /\ ~SyncAbort
    <3>1. UNCHANGED stack \/ Calm(Top')
      BY <1>1, <1>3, <2>4, CalmNext
    <3>. QED
      BY <1>2, <1>3, <3>1 DEF NeverAborted, Aborted, At, Top, Calm
  <2>. QED
    BY <2>1, <2>2, <2>3, <2>4
<1>. QED
  BY <1>4, <1>5

\* assert() never fails on an orderly line on which interrupts arrive undamaged
\* and whole before they are counted: what fetchAsyncReplies(), doSyncTask() and
\* Task::receive() take for granted of the line holds, since two interrupts never
\* follow each other.
THEOREM AbortCorrect ==
    ASSUME Orderly, Cores = {} \/ Faults \cap {"garble", "partial"} = {}
    PROVE  Spec => []NeverAborted
<1>1. Init => NeverAborted
  BY DEF Init, NeverAborted, Aborted, At
<1>2. CASE Cores = {}
  <2>1. /\ SInv /\ SInv' /\ Handed /\ Handed' /\ NeverAborted /\ [Next]_vars
        => NeverAborted'
    BY <1>2, NeverAbortedNext
  <2>. QED
    BY <1>1, <2>1, Matching, PTL DEF Spec
<1>3. CASE Faults \cap {"garble", "partial"} = {}
  <2>1. Init => Gapped
    <3>1. Init => Spaced(replies) /\ replies = << >> /\ ~irqEnabled
      BY DEF Init, Spaced
    <3>. QED
      BY <3>1, NoInts DEF Gapped
  <2>2. SInv /\ SInv' /\ Handed /\ Gapped /\ [Next]_vars => Gapped'
    BY <1>3, GappedNext DEF SInv, OInv, IInv, Kept
  <2>3. /\ SInv /\ SInv' /\ Handed /\ Handed' /\ Gapped /\ NeverAborted /\ [Next]_vars
        => NeverAborted'
    BY <1>3, NeverAbortedNext
  <2>. QED
    BY <1>1, <2>1, <2>2, <2>3, Matching, PTL DEF Spec
<1>. QED
  BY <1>2, <1>3
=============================================================================
