----------------------------- MODULE Packer_proofs -----------------------------
(***************************************************************************)
(* Theorems about Packer for every number of types, capacities, sizes and  *)
(* lengths: no sample is lost, doubled or reordered on its way into the    *)
(* batches, a batch fits the length the transport allows (and in binary    *)
(* the buffer), and pack() gives up only if nothing fits.                  *)
(***************************************************************************)
EXTENDS Packer, SequenceTheorems, TLAPS

-----------------------------------------------------------------------------
(* Sequences. *)

LEMMA DropAppended ==
  ASSUME NEW S, NEW s \in Seq(S), NEW x \in S
  PROVE  SubSeq(Append(s, x), 1, Len(Append(s, x)) - 1) = s
<1>1. Append(s, x) \in Seq(S) /\ Len(Append(s, x)) = Len(s) + 1 /\ Len(s) \in Nat
  OBVIOUS
<1>2. \A k \in 1..Len(s) : Append(s, x)[k] = s[k]
  OBVIOUS
<1>3. /\ SubSeq(Append(s, x), 1, Len(s)) \in Seq(S)
      /\ Len(SubSeq(Append(s, x), 1, Len(s))) = Len(s)
      /\ \A k \in 1..Len(s) : SubSeq(Append(s, x), 1, Len(s))[k] = s[k]
  BY <1>1, <1>2
<1>4. QED
  BY <1>1, <1>3, SeqEqual

\* Moving the first element of q to the end of s leaves their concatenation alone.
LEMMA MoveHead ==
  ASSUME NEW S, NEW s \in Seq(S), NEW q \in Seq(S), q # <<>>
  PROVE  s \o q = Append(s, Head(q)) \o Tail(q)
<1>1. /\ s \o q \in Seq(S) /\ Append(s, Head(q)) \o Tail(q) \in Seq(S)
      /\ Len(s \o q) = Len(Append(s, Head(q)) \o Tail(q))
  OBVIOUS
<1>2. \A k \in 1..Len(s \o q) : (s \o q)[k] = (Append(s, Head(q)) \o Tail(q))[k]
  OBVIOUS
<1>3. QED
  BY <1>1, <1>2, SeqEqual

LEMMA AppendFront ==
  ASSUME NEW S, NEW s \in Seq(S), s # <<>>
  PROVE  /\ SubSeq(s, 1, Len(s) - 1) \in Seq(S)
         /\ Len(SubSeq(s, 1, Len(s) - 1)) = Len(s) - 1
         /\ Append(SubSeq(s, 1, Len(s) - 1), s[Len(s)]) = s
<1>1. Len(s) \in Nat \ {0} /\ s[Len(s)] \in S
  OBVIOUS
<1> DEFINE f == SubSeq(s, 1, Len(s) - 1)
<1>2. f \in Seq(S) /\ Len(f) = Len(s) - 1 /\ \A k \in 1..(Len(s) - 1) : f[k] = s[k]
  <2>1. 1 \in Int /\ Len(s) - 1 \in Int /\ \A k \in 1..(Len(s) - 1) : s[k] \in S
    BY <1>1
  <2>2. /\ f \in Seq(S) /\ Len(f) = IF 1 <= Len(s) - 1 THEN Len(s) - 1 - 1 + 1 ELSE 0
        /\ \A k \in 1..(Len(s) - 1 - 1 + 1) : f[k] = s[1 + k - 1]
    BY <2>1, SubSeqProperties
  <2>3. Len(s) - 1 - 1 + 1 = Len(s) - 1 /\ (Len(s) = 1 => Len(s) - 1 = 0)
    BY <1>1
  <2> HIDE DEF f
  <2>4. Len(f) = Len(s) - 1
    <3>1. CASE Len(s) = 1
      BY <2>2, <3>1
    <3>2. CASE Len(s) # 1
      <4>1. 1 <= Len(s) - 1
        BY <1>1, <3>2
      <4>2. QED
        BY <2>2, <2>3, <4>1
    <3>3. QED
      BY <3>1, <3>2
  <2>5. ASSUME NEW k \in 1..(Len(s) - 1) PROVE f[k] = s[k]
    <3>1. 1 + k - 1 = k
      OBVIOUS
    <3>2. QED
      BY <2>2, <2>3, <3>1
  <2>6. QED
    BY <2>2, <2>4, <2>5
<1> HIDE DEF f
<1>3. /\ Append(f, s[Len(s)]) \in Seq(S) /\ Len(Append(f, s[Len(s)])) = Len(s)
      /\ \A k \in 1..Len(s) : Append(f, s[Len(s)])[k] = s[k]
  BY <1>1, <1>2
<1>4. Append(f, s[Len(s)]) = s
  BY <1>3, SeqEqual
<1>5. QED
  BY <1>2, <1>4 DEF f

LEMMA AppendConcat ==
  ASSUME NEW S, NEW a \in Seq(S), NEW c \in Seq(S), NEW x \in S
  PROVE  a \o Append(c, x) = Append(a \o c, x)
<1>1. /\ a \o Append(c, x) \in Seq(S) /\ Append(a \o c, x) \in Seq(S)
      /\ Len(a \o Append(c, x)) = Len(Append(a \o c, x))
  OBVIOUS
<1>2. \A k \in 1..Len(a \o Append(c, x)) : (a \o Append(c, x))[k] = Append(a \o c, x)[k]
  OBVIOUS
<1>3. QED
  BY <1>1, <1>2, SeqEqual

-----------------------------------------------------------------------------
(* The types. *)

LEMMA AtMost ==
  ASSUME NEW a \in Nat, NEW b \in Nat, NEW c \in Nat, a <= b, b <= c
  PROVE  a <= c
OBVIOUS

LEMMA LengthType ==
  ASSUME NEW u \in Nat, NEW p \in BOOLEAN
  PROVE  u + (IF p THEN 2 ELSE 0) \in Nat
OBVIOUS

LEMMA EmptyType == Empty \in [Types -> Seq(Sample)]
BY DEF Empty

LEMMA InitInv == Init => IInv
<1> SUFFICES ASSUME Init PROVE IInv
  OBVIOUS
<1> USE PackerAssumption, EmptyType DEF Init
<1>1. TypeOK
  BY DEF TypeOK, Empty, Types
<1>2. StageInv /\ BatchFits /\ NothingYet
  BY DEF StageInv, BatchFits, NothingYet, Empty
<1>3. EachSampleOnce
  BY DEF EachSampleOnce, Kept, Empty
<1>4. QED
  BY <1>1, <1>2, <1>3 DEF IInv

LEMMA PublishType ==
  ASSUME TypeOK, NEW t \in Types, NEW s \in Sample, Publish(t, s)
  PROVE  /\ TypeOK'
         /\ queue'[t] = Append(queue[t], s) /\ accepted'[t] = Append(accepted[t], s)
         /\ \A u \in Types \ {t} : queue'[u] = queue[u] /\ accepted'[u] = accepted[u]
<1>1. queue' \in [Types -> Seq(Sample)] /\ accepted' \in [Types -> Seq(Sample)]
  BY DEF TypeOK, Publish
<1>2. /\ queue'[t] = Append(queue[t], s) /\ accepted'[t] = Append(accepted[t], s)
      /\ \A u \in Types \ {t} : queue'[u] = queue[u] /\ accepted'[u] = accepted[u]
  BY DEF TypeOK, Publish
<1>3. Len(queue'[t]) <= Capacity
  BY <1>2, PackerAssumption DEF TypeOK, Publish
<1>4. \A u \in Types : Len(queue'[u]) <= Capacity
  BY <1>2, <1>3 DEF TypeOK
<1>5. QED
  BY <1>1, <1>2, <1>4 DEF TypeOK, Publish, packVars

\* The first sample of the queue of t, and what is left of the queue without it.
LEMMA HeadOf ==
  ASSUME TypeOK, NEW t \in Types, t \in Pending
  PROVE  /\ Head(queue[t]) \in Sample /\ Head(queue[t]).size \in Nat \ {0}
         /\ Tail(queue[t]) \in Seq(Sample) /\ Len(Tail(queue[t])) <= Capacity
         /\ Append(batch[t], Head(queue[t])) \in Seq(Sample)
<1>1. queue[t] \in Seq(Sample) /\ queue[t] # <<>> /\ Len(queue[t]) <= Capacity
  BY DEF TypeOK, Pending
<1>2. Head(queue[t]) \in Sample /\ Tail(queue[t]) \in Seq(Sample) /\ Len(Tail(queue[t])) = Len(queue[t]) - 1
  BY <1>1
<1>3. batch[t] \in Seq(Sample)
  BY DEF TypeOK
<1>4. Append(batch[t], Head(queue[t])) \in Seq(Sample)
  BY <1>2, <1>3
<1>5. QED
  BY <1>1, <1>2, <1>4, PackerAssumption DEF Sample

\* Taking the first sample off the queue of t.
LEMMA DequeueType ==
  ASSUME TypeOK, NEW t \in Types, t \in Pending, Dequeue(t)
  PROVE  /\ queue' \in [Types -> Seq(Sample)]
         /\ \A u \in Types : Len(queue'[u]) <= Capacity
         /\ queue'[t] = Tail(queue[t]) /\ \A u \in Types \ {t} : queue'[u] = queue[u]
<1>1. queue'[t] = Tail(queue[t]) /\ \A u \in Types \ {t} : queue'[u] = queue[u]
  BY DEF Dequeue, TypeOK
<1>2. Tail(queue[t]) \in Seq(Sample) /\ Len(Tail(queue[t])) <= Capacity
  BY HeadOf
<1>3. queue' \in [Types -> Seq(Sample)]
  BY <1>2 DEF Dequeue, TypeOK
<1>4. QED
  BY <1>1, <1>2, <1>3 DEF TypeOK

LEMMA PackType ==
  ASSUME TypeOK, StageInv, Pack
  PROVE  TypeOK'
<1> USE PackerAssumption DEF TypeOK
<1>1. CASE Start
  <2>1. maxLen' \in Nat /\ used' \in Nat
    BY <1>1 DEF Start, Lens, UsedBefore
  <2>2. QED
    BY <1>1, <2>1 DEF Start
<1>2. CASE Peek
  <2>1. turn \in Types /\ turn + 1 \in 1..(NTypes + 1)
    BY <1>2 DEF Peek, Types
  <2>2. CASE turn \in Pending /\ Len(batch[turn]) < MaxPerType
    <3>1. Append(batch[turn], Head(queue[turn])) \in Seq(Sample)
      BY <2>1, <2>2, HeadOf
    <3>2. batch' \in [Types -> Seq(Sample)]
      BY <1>2, <2>1, <2>2, <3>1 DEF Peek
    <3>3. QED
      BY <1>2, <2>2, <3>2 DEF Peek
  <2>3. CASE ~(turn \in Pending /\ Len(batch[turn]) < MaxPerType)
    BY <1>2, <2>1, <2>3 DEF Peek, NextTurn
  <2>4. QED
    BY <2>2, <2>3
<1>3. CASE Check
  <2> DEFINE size == Head(queue[turn]).size
  <2>1. turn \in Types /\ turn \in Pending /\ turn + 1 \in 1..(NTypes + 1) /\ size \in Nat
    BY <1>3, HeadOf DEF Check, StageInv, Pending, Types
  <2> HIDE DEF size
  <2>2. CASE used + size <= maxLen
    <3>1. Dequeue(turn) /\ used' = used + size /\ pc' = "pack"
          /\ UNCHANGED <<turn, batch, format, maxLen, begun, accepted, handed>>
      BY <1>3, <2>2 DEF Check, size
    <3>2. queue' \in [Types -> Seq(Sample)] /\ \A u \in Types : Len(queue'[u]) <= Capacity
      BY <2>1, <3>1, DequeueType
    <3>3. used' \in Nat
      BY <2>1, <3>1
    <3>4. QED
      BY <3>1, <3>2, <3>3
  <2>3. CASE ~(used + size <= maxLen)
    <3>1. batch' = [batch EXCEPT ![turn] = SubSeq(@, 1, Len(@) - 1)] /\ NextTurn
          /\ UNCHANGED <<used, queue, format, maxLen, begun, accepted, handed>>
      BY <1>3, <2>3 DEF Check, size
    <3>2. SubSeq(batch[turn], 1, Len(batch[turn]) - 1) \in Seq(Sample)
      BY <1>3, <2>1, AppendFront DEF Check, StageInv
    <3>3. batch' \in [Types -> Seq(Sample)]
      BY <2>1, <3>1, <3>2
    <3>4. QED
      BY <2>1, <3>1, <3>3 DEF NextTurn
  <2>4. QED
    BY <2>2, <2>3
<1>4. CASE Write
  <2>0. turn \in Types /\ turn + 1 \in 1..(NTypes + 1)
    BY <1>4 DEF Write, Types
  <2>1. CASE turn \in Pending /\ used + ElementMax + Margin < maxLen
    <3>1. /\ used' = used + Comma + Head(queue[turn]).size /\ Dequeue(turn)
          /\ batch' = [batch EXCEPT ![turn] = Append(@, Head(queue[turn]))]
          /\ UNCHANGED <<pc, turn, format, maxLen, begun, accepted, handed>>
      BY <1>4, <2>1 DEF Write
    <3>2. used' \in Nat
      <4>1. Comma \in Nat /\ Head(queue[turn]).size \in Nat
        BY <2>0, <2>1, HeadOf DEF Comma
      <4> DEFINE c == Comma
                 z == Head(queue[turn]).size
      <4>2. used' = used + c + z /\ used \in Nat /\ c \in Nat /\ z \in Nat
        BY <3>1, <4>1
      <4> HIDE DEF c, z
      <4>3. QED
        BY <4>2
    <3>3. batch' \in [Types -> Seq(Sample)]
      <4>1. Append(batch[turn], Head(queue[turn])) \in Seq(Sample)
        BY <2>0, <2>1, HeadOf
      <4>2. QED
        BY <2>0, <3>1, <4>1
    <3>4. queue' \in [Types -> Seq(Sample)] /\ \A u \in Types : Len(queue'[u]) <= Capacity
      BY <2>0, <2>1, <3>1, DequeueType
    <3>5. QED
      BY <3>1, <3>2, <3>3, <3>4
  <2>2. CASE ~(turn \in Pending /\ used + ElementMax + Margin < maxLen)
    BY <1>4, <2>0, <2>2 DEF Write, NextTurn
  <2>3. QED
    BY <2>1, <2>2
<1>5. CASE Return
  <2>1. handed' \in [Types -> Seq(Sample)]
    BY <1>5 DEF Return
  <2>2. QED
    BY <1>5, <2>1, EmptyType DEF Return
<1>6. QED
  BY <1>1, <1>2, <1>3, <1>4, <1>5 DEF Pack

-----------------------------------------------------------------------------
(* What the batch keeps. *)

LEMMA KeptType ==
  ASSUME TypeOK, StageInv
  PROVE  \A t \in Types : Kept(t) \in Seq(Sample)
<1> SUFFICES ASSUME NEW t \in Types PROVE Kept(t) \in Seq(Sample)
  OBVIOUS
<1>1. CASE pc = "check" /\ t = turn
  BY <1>1, AppendFront DEF Kept, TypeOK, StageInv
<1>2. CASE ~(pc = "check" /\ t = turn)
  BY <1>2 DEF Kept, TypeOK
<1>3. QED
  BY <1>1, <1>2

LEMMA PublishInv ==
  ASSUME IInv, NEW t \in Types, NEW s \in Sample, Publish(t, s)
  PROVE  IInv'
<1>1. /\ TypeOK /\ StageInv /\ EachSampleOnce /\ BatchFits /\ NothingYet
  BY DEF IInv
<1>2. /\ TypeOK'
      /\ queue'[t] = Append(queue[t], s) /\ accepted'[t] = Append(accepted[t], s)
      /\ \A u \in Types \ {t} : queue'[u] = queue[u] /\ accepted'[u] = accepted[u]
  BY <1>1, PublishType
<1>3. UNCHANGED <<format, pc, turn, batch, used, maxLen, begun, handed>>
  BY DEF Publish, packVars
<1>4. \A u \in Types : u \in Pending => u \in Pending' /\ Head(queue'[u]) = Head(queue[u])
  <2> SUFFICES ASSUME NEW u \in Types, u \in Pending
               PROVE  u \in Pending' /\ Head(queue'[u]) = Head(queue[u])
    OBVIOUS
  <2>1. queue[u] \in Seq(Sample) /\ queue[u] # <<>>
    BY <1>1 DEF TypeOK, Pending
  <2>2. CASE u = t
    <3>1. Append(queue[u], s) # <<>> /\ Head(Append(queue[u], s)) = Head(queue[u])
      BY <2>1
    <3>2. QED
      BY <1>2, <2>2, <3>1 DEF Pending
  <2>3. CASE u # t
    BY <1>2, <2>1, <2>3 DEF Pending
  <2>4. QED
    BY <2>2, <2>3
<1>5. /\ \A u \in Types : Kept(u)' = Kept(u)
      /\ NothingKept' <=> NothingKept
  BY <1>3 DEF Kept, NothingKept
<1>6. StageInv'
  <2>1. turn \in Types => (turn \in Pending => Head(queue'[turn]) = Head(queue[turn]) /\ turn \in Pending')
    BY <1>4
  <2>2. turn \in Pending => turn \in Types
    BY DEF Pending
  <2>3. (Empty = Empty') /\ (Types = Types')
    BY DEF Empty, Types
  <2>4. QED
    BY <1>1, <1>3, <2>1, <2>2, <2>3 DEF StageInv, Lens
<1>7. EachSampleOnce'
  <2> SUFFICES ASSUME NEW u \in Types
               PROVE  accepted'[u] = handed'[u] \o Kept(u)' \o queue'[u]
    BY DEF EachSampleOnce
  <2>1. accepted[u] = handed[u] \o Kept(u) \o queue[u]
    BY <1>1 DEF EachSampleOnce
  <2>2. CASE u = t
    <3>1. handed[t] \in Seq(Sample) /\ Kept(t) \in Seq(Sample) /\ queue[t] \in Seq(Sample)
      BY <1>1, KeptType DEF TypeOK
    <3>2. handed[t] \o Kept(t) \in Seq(Sample)
      BY <3>1
    <3>3. handed[t] \o Kept(t) \o Append(queue[t], s) = Append(handed[t] \o Kept(t) \o queue[t], s)
      <4> DEFINE p == handed[t] \o Kept(t)
                 q == queue[t]
      <4>1. p \in Seq(Sample) /\ q \in Seq(Sample)
        BY <3>1, <3>2
      <4> HIDE DEF p, q
      <4>2. p \o Append(q, s) = Append(p \o q, s)
        BY <4>1, AppendConcat
      <4>3. QED
        BY <4>2 DEF p, q
    <3>4. QED
      BY <1>2, <1>3, <1>5, <2>1, <2>2, <3>3
  <2>3. CASE u # t
    BY <1>2, <1>3, <1>5, <2>1, <2>3
  <2>4. QED
    BY <2>2, <2>3
<1>8. BatchFits'
  BY <1>1, <1>3, <1>5 DEF BatchFits, BatchLength
<1>9. NothingYet'
  BY <1>1, <1>3, <1>4, <1>5 DEF NothingYet, UsedBefore, FitsAlone
<1>10. QED
  BY <1>2, <1>6, <1>7, <1>8, <1>9 DEF IInv

LEMMA StartInv ==
  ASSUME IInv, TypeOK', Start
  PROVE  IInv'
<1>1. TypeOK /\ StageInv /\ EachSampleOnce /\ batch = Empty
  BY DEF IInv, Start, StageInv
<1>2. /\ \A t \in Types : Kept(t)' = Kept(t) /\ Kept(t) = <<>> /\ batch'[t] = <<>>
      /\ NothingKept'
  BY <1>1 DEF Start, Kept, NothingKept, Empty
<1>3. StageInv'
  BY <1>1, <1>2 DEF Start, StageInv, Lens
<1>4. EachSampleOnce'
  BY <1>1, <1>2 DEF Start, EachSampleOnce
<1>5. BatchFits'
  <2>1. \A t \in Types : Len(batch'[t]) <= MaxPerType
    BY <1>2, PackerAssumption
  <2>2. QED
    BY <1>2, <2>1 DEF BatchFits
<1>6. NothingYet'
  <2>1. \A t \in Types : ~(t < 1) /\ t >= 1
    BY PackerAssumption DEF Types
  <2>2. QED
    BY <2>1 DEF Start, NothingYet, UsedBefore, Pending
<1>7. QED
  BY <1>3, <1>4, <1>5, <1>6 DEF IInv

\* The loop of a type ends, and what is kept, used and queued stays as it is.
LEMMA NextTurnInv ==
  ASSUME IInv, TypeOK', NextTurn, turn \in Types, pc # "idle",
         UNCHANGED <<format, queue, used, maxLen, begun, accepted, handed>>,
         \A t \in Types : batch'[t] = Kept(t),
         (NothingKept /\ used = UsedBefore /\ begun[turn] # <<>> /\ turn \in Pending
            /\ Head(queue[turn]) = Head(begun[turn])) => ~FitsAlone(Head(begun[turn]), maxLen)
  PROVE  IInv'
<1>1. TypeOK /\ StageInv /\ EachSampleOnce /\ BatchFits /\ NothingYet
  BY DEF IInv
<1>2. pc' = "pack" /\ turn' = turn + 1 /\ turn \in Nat
  BY <1>1 DEF NextTurn, TypeOK
<1>3. /\ \A t \in Types : Kept(t)' = Kept(t)
      /\ NothingKept' <=> NothingKept
  BY <1>2 DEF Kept, NothingKept
<1>4. \A t \in Types : (t > turn + 1 => t > turn) /\ (t < turn + 1 => (t < turn \/ t = turn)) /\ (t >= turn + 1 => t >= turn /\ t > turn /\ t # turn)
  BY <1>2, PackerAssumption DEF Types
<1>5. StageInv'
  <2>1. \A t \in Types : t > turn => t # turn
    BY <1>2, PackerAssumption DEF Types
  <2>2. QED
    BY <1>1, <1>2, <1>4, <2>1 DEF StageInv, Kept, Lens
<1>6. EachSampleOnce'
  BY <1>1, <1>3 DEF EachSampleOnce
<1>7. BatchFits'
  <2>1. \A t \in Types : format = "binary" => Len(Kept(t)) <= MaxPerType
    <3> SUFFICES ASSUME NEW t \in Types, format = "binary" PROVE Len(Kept(t)) <= MaxPerType
      OBVIOUS
    <3>1. Len(batch[t]) <= MaxPerType /\ batch[t] \in Seq(Sample)
      BY <1>1 DEF BatchFits, TypeOK
    <3>2. CASE pc = "check" /\ t = turn
      <4>1. batch[t] # <<>>
        BY <1>1, <3>2 DEF StageInv
      <4>2. Len(Kept(t)) = Len(batch[t]) - 1
        BY <3>1, <3>2, <4>1, AppendFront DEF Kept
      <4>3. Len(batch[t]) \in Nat
        BY <3>1
      <4>4. QED
        BY <3>1, <4>2, <4>3, PackerAssumption
    <3>3. CASE ~(pc = "check" /\ t = turn)
      BY <3>1, <3>3 DEF Kept
    <3>4. QED
      BY <3>2, <3>3
  <2>2. QED
    BY <1>1, <1>2, <1>3, <2>1 DEF BatchFits, BatchLength
<1>8. NothingYet'
  <2> SUFFICES ASSUME NothingKept' PROVE NothingYet'
    BY DEF NothingYet
  <2>1. NothingKept
    BY <1>3
  <2>2. /\ used = UsedBefore
        /\ \A t \in Types : begun[t] # <<>> =>
             /\ t < turn => ~FitsAlone(Head(begun[t]), maxLen)
             /\ t >= turn => t \in Pending /\ Head(queue[t]) = Head(begun[t])
    BY <1>1, <2>1 DEF NothingYet
  <2>3. used' = UsedBefore' /\ (Pending' = Pending)
    BY <2>2 DEF UsedBefore, Pending
  <2>4. ASSUME NEW t \in Types, begun[t] # <<>>, t < turn + 1
        PROVE  ~FitsAlone(Head(begun[t]), maxLen)
    <3>1. CASE t < turn
      BY <2>2, <2>4, <3>1
    <3>2. CASE t = turn
      <4>1. t >= turn
        BY <1>2, <3>2
      <4>2. QED
        BY <2>1, <2>2, <2>4, <3>2, <4>1
    <3>3. QED
      BY <1>4, <2>4, <3>1, <3>2
  <2>5. \A t \in Types : (FitsAlone(Head(begun[t]), maxLen))' = FitsAlone(Head(begun[t]), maxLen)
    BY DEF FitsAlone
  <2>6. \A t \in Types : begun[t] # <<>> =>
             /\ t < turn + 1 => ~FitsAlone(Head(begun[t]), maxLen)
             /\ t >= turn + 1 => t \in Pending /\ Head(queue[t]) = Head(begun[t])
    BY <1>4, <2>2, <2>4
  <2>7. QED
    BY <1>2, <2>3, <2>5, <2>6 DEF NothingYet
<1>9. QED
  BY <1>5, <1>6, <1>7, <1>8 DEF IInv

LEMMA PeekInv ==
  ASSUME IInv, TypeOK', Peek
  PROVE  IInv'
<1>1. TypeOK /\ StageInv /\ EachSampleOnce /\ BatchFits /\ NothingYet
  BY DEF IInv
<1>2. /\ pc = "pack" /\ turn \in Types /\ format = "binary"
      /\ UNCHANGED <<format, queue, used, maxLen, begun, accepted, handed>>
      /\ \A t \in Types : Kept(t) = batch[t]
  BY DEF Peek, Kept
<1>3. CASE turn \in Pending /\ Len(batch[turn]) < MaxPerType
  <2> DEFINE x == Head(queue[turn])
  <2>1. x \in Sample /\ batch[turn] \in Seq(Sample)
    BY <1>1, <1>2, <1>3, HeadOf DEF TypeOK
  <2>2. /\ batch'[turn] = Append(batch[turn], x) /\ pc' = "check" /\ turn' = turn
        /\ \A t \in Types \ {turn} : batch'[t] = batch[t]
    BY <1>1, <1>2, <1>3 DEF Peek, TypeOK
  <2> HIDE DEF x
  <2>3. /\ batch'[turn] # <<>> /\ batch'[turn][Len(batch'[turn])] = x
        /\ Len(batch'[turn]) = Len(batch[turn]) + 1
        /\ Len(batch'[turn]) <= MaxPerType
    BY <1>3, <2>1, <2>2, PackerAssumption
  <2>4. SubSeq(batch'[turn], 1, Len(batch'[turn]) - 1) = batch[turn]
    BY <2>1, <2>2, DropAppended
  <2>5. /\ \A t \in Types : Kept(t)' = Kept(t)
        /\ NothingKept' <=> NothingKept
    BY <1>2, <2>2, <2>4 DEF Kept, NothingKept
  <2>6. StageInv'
    <3>1. \A t \in Types : t > turn => t # turn
      BY PackerAssumption DEF Types
    <3>2. turn \in Pending'
      BY <1>2, <1>3 DEF Pending
    <3>3. QED
      BY <1>1, <1>2, <1>3, <2>2, <2>3, <3>1, <3>2 DEF StageInv, x, Lens
  <2>7. EachSampleOnce'
    BY <1>1, <1>2, <2>5 DEF EachSampleOnce
  <2>8. BatchFits'
    BY <1>1, <1>2, <2>2, <2>3, <2>5 DEF BatchFits, BatchLength
  <2>9. NothingYet'
    BY <1>1, <1>2, <2>2, <2>5 DEF NothingYet, UsedBefore, FitsAlone, Pending
  <2>10. QED
    BY <2>6, <2>7, <2>8, <2>9 DEF IInv
<1>4. CASE ~(turn \in Pending /\ Len(batch[turn]) < MaxPerType)
  <2>1. NextTurn /\ batch' = batch
    BY <1>4 DEF Peek
  <2>2. ~(NothingKept /\ turn \in Pending)
    <3>1. Len(<<>>) < MaxPerType
      BY PackerAssumption
    <3>2. QED
      BY <1>2, <1>4, <3>1 DEF NothingKept
  <2>3. QED
    BY <1>2, <2>1, <2>2, NextTurnInv
<1>5. QED
  BY <1>3, <1>4

\* A sample of the type whose turn it is leaves the queue and is kept.
LEMMA KeepInv ==
  ASSUME IInv, TypeOK', turn \in Types, turn \in Pending, Dequeue(turn), pc' = "pack",
         batch'[turn] = Append(Kept(turn), Head(queue[turn])),
         \A t \in Types \ {turn} : batch'[t] = batch[t],
         format = "binary" => Len(batch'[turn]) <= MaxPerType,
         BatchLength' <= maxLen, pc # "idle",
         UNCHANGED <<format, turn, maxLen, begun, accepted, handed>>
  PROVE  IInv'
<1>1. TypeOK /\ StageInv /\ EachSampleOnce /\ BatchFits /\ NothingYet
  BY DEF IInv
<1>2. queue'[turn] = Tail(queue[turn]) /\ \A u \in Types \ {turn} : queue'[u] = queue[u]
  BY <1>1, DequeueType
<1>3. \A t \in Types : Kept(t)' = batch'[t]
  BY DEF Kept
<1>4. \A t \in Types \ {turn} : Kept(t)' = Kept(t)
  BY <1>3 DEF Kept
<1>5. Kept(turn) \in Seq(Sample) /\ Head(queue[turn]) \in Sample
  BY <1>1, KeptType, HeadOf
<1>6. ~NothingKept'
  <2>1. batch'[turn] # <<>>
    BY <1>5
  <2>2. QED
    BY <1>3, <2>1 DEF NothingKept, Types
<1>7. StageInv'
  <2>1. \A t \in Types : t > turn => t # turn
    BY PackerAssumption DEF Types
  <2>2. QED
    BY <1>1, <2>1 DEF StageInv, Lens
<1>8. EachSampleOnce'
  <2> SUFFICES ASSUME NEW u \in Types
               PROVE  accepted'[u] = handed'[u] \o Kept(u)' \o queue'[u]
    BY DEF EachSampleOnce
  <2>1. accepted[u] = handed[u] \o Kept(u) \o queue[u]
    BY <1>1 DEF EachSampleOnce
  <2>2. CASE u = turn
    <3>1. handed[turn] \in Seq(Sample) /\ queue[turn] \in Seq(Sample) /\ queue[turn] # <<>>
      BY <1>1 DEF TypeOK, Pending
    <3>2. handed[turn] \o Kept(turn) \o queue[turn]
            = handed[turn] \o Append(Kept(turn), Head(queue[turn])) \o Tail(queue[turn])
      <4> DEFINE a == handed[turn]
                 k == Kept(turn)
                 q == queue[turn]
      <4>1. a \in Seq(Sample) /\ k \in Seq(Sample) /\ q \in Seq(Sample) /\ q # <<>>
        BY <1>5, <3>1
      <4> HIDE DEF a, k, q
      <4>2. a \o k \o q = a \o Append(k, Head(q)) \o Tail(q)
        <5> DEFINE h == Head(q)
                   r == Tail(q)
                   p == a \o k
        <5>1. h \in Sample /\ p \in Seq(Sample)
          BY <4>1
        <5>2. p \o q = Append(p, h) \o r
          BY <4>1, <5>1, MoveHead
        <5> HIDE DEF h, r
        <5>3. a \o Append(k, h) = Append(p, h)
          BY <4>1, <5>1, AppendConcat
        <5>4. a \o k \o q = a \o Append(k, h) \o r
          BY <5>2, <5>3
        <5>5. QED
          BY <5>4 DEF h, r
      <4>3. QED
        BY <4>2 DEF a, k, q
    <3>3. QED
      BY <1>2, <1>3, <2>1, <2>2, <3>2
  <2>3. CASE u # turn
    BY <1>2, <1>4, <2>1, <2>3
  <2>4. QED
    BY <2>2, <2>3
<1>9. BatchFits'
  <2>1. ASSUME format = "binary" PROVE BatchLength' <= PbBufMax
    <3>1. maxLen \in BinaryLens
      BY <1>1, <2>1 DEF StageInv, Lens
    <3>2. maxLen <= PbBufMax /\ maxLen \in Nat /\ PbBufMax \in Nat
      BY <3>1, LoRaLenAssumption, PackerAssumption
    <3>3. BatchLength' \in Nat
      <4>1. used' \in Nat
        BY DEF TypeOK
      <4>2. QED
        BY <4>1, LengthType DEF BatchLength
    <3>4. QED
      BY <3>2, <3>3, AtMost
  <2>2. QED
    BY <1>1, <2>1 DEF BatchFits
<1>10. NothingYet'
  BY <1>6 DEF NothingYet
<1>11. QED
  BY <1>7, <1>8, <1>9, <1>10 DEF IInv

LEMMA CheckInv ==
  ASSUME IInv, TypeOK', Check
  PROVE  IInv'
<1> DEFINE size == Head(queue[turn]).size
<1>1. TypeOK /\ StageInv /\ BatchFits /\ NothingYet
  BY DEF IInv
<1>2. /\ pc = "check" /\ turn \in Pending /\ turn \in Types /\ format = "binary"
      /\ batch[turn] # <<>> /\ batch[turn][Len(batch[turn])] = Head(queue[turn])
      /\ batch[turn] \in Seq(Sample)
  BY <1>1 DEF Check, StageInv, Pending, TypeOK
<1>3. Kept(turn) = SubSeq(batch[turn], 1, Len(batch[turn]) - 1)
  BY <1>2 DEF Kept
<1>4. CASE used + size <= maxLen
  <2>1. /\ used' = used + size /\ Dequeue(turn) /\ pc' = "pack"
        /\ UNCHANGED <<turn, batch, format, maxLen, begun, accepted, handed>>
    BY <1>4 DEF Check
  <2>2. Append(Kept(turn), Head(queue[turn])) = batch[turn]
    BY <1>2, <1>3, AppendFront
  <2>3. Len(batch[turn]) <= MaxPerType
    BY <1>1, <1>2 DEF BatchFits
  <2>4. BatchLength' <= maxLen
    <3>1. used \in Nat /\ size \in Nat
      BY <1>1, <1>2, HeadOf DEF TypeOK
    <3> HIDE DEF size
    <3>2. QED
      BY <1>2, <1>4, <2>1, <3>1 DEF BatchLength
  <2>5. QED
    BY <1>2, <2>1, <2>2, <2>3, <2>4, KeepInv
<1>5. CASE ~(used + size <= maxLen)
  <2>1. /\ batch' = [batch EXCEPT ![turn] = SubSeq(@, 1, Len(@) - 1)] /\ NextTurn
        /\ UNCHANGED <<used, queue, format, maxLen, begun, accepted, handed>>
    BY <1>5 DEF Check
  <2>2. \A t \in Types : batch'[t] = Kept(t)
    BY <1>1, <1>2, <2>1 DEF Kept, TypeOK
  <2>3. (used = UsedBefore /\ Head(queue[turn]) = Head(begun[turn])) => ~FitsAlone(Head(begun[turn]), maxLen)
    <3>1. SUFFICES ASSUME used = UsedBefore, Head(queue[turn]) = Head(begun[turn])
                   PROVE  ~(Head(begun[turn]).size <= maxLen)
      BY <1>2 DEF FitsAlone
    <3>2. used = 0 /\ size \in Nat /\ Head(begun[turn]).size = size
      BY <1>1, <1>2, <3>1, HeadOf DEF UsedBefore
    <3> HIDE DEF size
    <3>3. QED
      BY <1>5, <3>2
  <2>4. QED
    BY <1>2, <2>1, <2>2, <2>3, NextTurnInv
<1>6. QED
  BY <1>4, <1>5

LEMMA WriteInv ==
  ASSUME IInv, TypeOK', Write
  PROVE  IInv'
<1>1. TypeOK /\ StageInv /\ BatchFits /\ NothingYet
  BY DEF IInv
<1>2. /\ pc = "pack" /\ turn \in Types /\ format = "json"
      /\ \A t \in Types : Kept(t) = batch[t]
  BY DEF Write, Kept
<1>3. CASE turn \in Pending /\ used + ElementMax + Margin < maxLen
  <2>1. /\ used' = used + Comma + Head(queue[turn]).size /\ Dequeue(turn)
        /\ batch' = [batch EXCEPT ![turn] = Append(@, Head(queue[turn]))]
        /\ UNCHANGED <<pc, turn, format, maxLen, begun, accepted, handed>>
    BY <1>3 DEF Write
  <2>2. /\ batch'[turn] = Append(Kept(turn), Head(queue[turn]))
        /\ \A t \in Types \ {turn} : batch'[t] = batch[t]
    BY <1>1, <1>2, <2>1 DEF TypeOK
  <2>3. BatchLength' <= maxLen
    <3> DEFINE c == Comma
               z == Head(queue[turn]).size
    <3>1. c \in Nat /\ c <= 1
      BY DEF Comma
    <3>2. z \in Nat /\ z <= ElementMax
      BY <1>1, <1>2, <1>3, HeadOf, JsonAssumption DEF Sample
    <3>3. used' = used + c + z
      BY <2>1
    <3> HIDE DEF c, z
    <3>4. QED
      BY <1>1, <1>2, <1>3, <2>1, <3>1, <3>2, <3>3, PackerAssumption, JsonAssumption
      DEF TypeOK, BatchLength
  <2>4. QED
    BY <1>2, <1>3, <2>1, <2>2, <2>3, KeepInv
<1>4. CASE ~(turn \in Pending /\ used + ElementMax + Margin < maxLen)
  <2>1. NextTurn /\ UNCHANGED <<format, queue, used, maxLen, begun, accepted, handed, batch>>
    BY <1>4 DEF Write
  <2>2. (used = UsedBefore /\ turn \in Pending) => ~FitsAlone(Head(begun[turn]), maxLen)
    BY <1>2, <1>4 DEF FitsAlone, UsedBefore
  <2>3. QED
    BY <1>2, <2>1, <2>2, NextTurnInv
<1>5. QED
  BY <1>3, <1>4

LEMMA ReturnInv ==
  ASSUME IInv, TypeOK', Return
  PROVE  IInv'
<1>1. TypeOK /\ EachSampleOnce
  BY DEF IInv
<1>2. /\ pc = "pack" /\ pc' = "idle" /\ batch' = Empty
      /\ handed' = [t \in Types |-> handed[t] \o batch[t]]
      /\ UNCHANGED <<format, queue, accepted>>
  BY DEF Return
<1>3. StageInv' /\ BatchFits' /\ NothingYet'
  BY <1>2 DEF StageInv, BatchFits, NothingYet, Empty
<1>4. EachSampleOnce'
  <2> SUFFICES ASSUME NEW u \in Types
               PROVE  accepted'[u] = handed'[u] \o Kept(u)' \o queue'[u]
    BY DEF EachSampleOnce
  <2>1. accepted[u] = handed[u] \o batch[u] \o queue[u]
    BY <1>1, <1>2 DEF EachSampleOnce, Kept
  <2>2. Kept(u)' = <<>>
    BY <1>2 DEF Kept, Empty
  <2>3. handed[u] \in Seq(Sample) /\ batch[u] \in Seq(Sample)
    BY <1>1 DEF TypeOK
  <2>4. handed[u] \o batch[u] \o <<>> = handed[u] \o batch[u]
    BY <2>3
  <2>5. QED
    BY <1>2, <2>1, <2>2, <2>4
<1>5. QED
  BY <1>3, <1>4 DEF IInv

-----------------------------------------------------------------------------
(* The theorems. *)

LEMMA StutterInv == IInv /\ UNCHANGED vars => IInv'
<1> SUFFICES ASSUME IInv, UNCHANGED vars PROVE IInv'
  OBVIOUS
<1>1. TypeOK' /\ StageInv' /\ EachSampleOnce'
  BY DEF IInv, vars, packVars, TypeOK, StageInv, EachSampleOnce, Kept, Pending, Lens
<1>2. BatchFits' /\ NothingYet'
  BY DEF IInv, vars, packVars, BatchFits, BatchLength, NothingYet, NothingKept, Kept, Pending,
         UsedBefore, FitsAlone
<1>3. QED
  BY <1>1, <1>2 DEF IInv

LEMMA NextInv == IInv /\ [Next]_vars => IInv'
<1> SUFFICES ASSUME IInv, [Next]_vars PROVE IInv'
  OBVIOUS
<1>1. ASSUME NEW t \in Types, NEW size \in Sizes, Publish(t, [nr |-> Len(accepted[t]), size |-> size])
      PROVE  IInv'
  <2>1. accepted[t] \in Seq(Sample)
    BY DEF IInv, TypeOK
  <2>2. [nr |-> Len(accepted[t]), size |-> size] \in Sample
    BY <2>1 DEF Sample
  <2>3. QED
    BY <1>1, <2>2, PublishInv
<1>2. ASSUME Pack PROVE IInv'
  <2>1. TypeOK'
    BY <1>2, PackType DEF IInv
  <2>2. QED
    BY <1>2, <2>1, StartInv, PeekInv, CheckInv, WriteInv, ReturnInv DEF Pack
<1>3. QED
  BY <1>1, <1>2, StutterInv DEF Next

\* IInv is inductive.
THEOREM Inductive == Spec => []IInv
BY InitInv, NextInv, PTL DEF Spec

\* The queues stay within the capacity they were made with.
THEOREM TypeCorrect == Spec => []TypeOK
<1>1. IInv => TypeOK
  BY DEF IInv
<1>2. QED
  BY <1>1, Inductive, PTL

\* No sample is lost, doubled or reordered between the queues and the batches, although
\* pack() peeks and removes in two steps while the scanners publish.
THEOREM SamplesAreKept == Spec => []EachSampleOnce
<1>1. IInv => EachSampleOnce
  BY DEF IInv
<1>2. QED
  BY <1>1, Inductive, PTL

\* A batch fits the length the transport allows, and a binary one also pb_buf and the arrays
\* of the message.  A JSON batch need not fit pb_buf, and with the code's numbers none does.
THEOREM BatchesFit == Spec => []BatchFits
<1>1. IInv => BatchFits
  BY DEF IInv
<1>2. QED
  BY <1>1, Inductive, PTL

\* What is missing for a batch of either build to fit pb_buf: a max_len that is no larger
\* (cloud_sender.cpp:104-110).
THEOREM FitsBufferOfItsLength ==
  ASSUME \A len \in JsonLens : len <= PbBufMax
  PROVE  Spec => []BatchFitsBuffer
<1>1. IInv => BatchFitsBuffer
  <2> SUFFICES ASSUME IInv, pc # "idle", ~NothingKept PROVE BatchLength <= PbBufMax
    BY DEF BatchFitsBuffer
  <2>1. BatchLength <= maxLen /\ maxLen \in Lens
    BY DEF IInv, BatchFits, StageInv
  <2>2. maxLen <= PbBufMax
    BY <2>1, LoRaLenAssumption DEF Lens
  <2>3. BatchLength \in Nat /\ maxLen \in Nat /\ PbBufMax \in Nat
    BY PackerAssumption DEF IInv, TypeOK, BatchLength
  <2>4. QED
    BY <2>1, <2>2, <2>3
<1>2. QED
  BY <1>1, Inductive, PTL

\* pack() gives up with nothing only if no first sample fits a batch of its own.
THEOREM GivesUpForAReason == Spec => []NothingMeansNoneFits
<1>1. IInv => NothingMeansNoneFits
  <2> SUFFICES ASSUME IInv, pc = "pack", turn = NTypes + 1, NothingKept,
                      NEW t \in Types, begun[t] # <<>>
               PROVE  ~FitsAlone(Head(begun[t]), maxLen)
    BY DEF NothingMeansNoneFits
  <2>1. t < turn
    BY PackerAssumption DEF Types
  <2>2. QED
    BY <2>1 DEF IInv, NothingYet
<1>2. QED
  BY <1>1, Inductive, PTL
=============================================================================
