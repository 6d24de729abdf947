-------------------------------- MODULE Packer --------------------------------
(***************************************************************************)
(* The way of the samples from the scanners into a batch: the topics and   *)
(* the queues of their subscriber (src/includes/pubsub,                    *)
(* src/includes/serialization/data_subscriber.hpp) and pack() of the two   *)
(* serializers (src/src/serialization).  The scanners publish while        *)
(* cloud_send packs.                                                       *)
(***************************************************************************)
EXTENDS Integers, Sequences

CONSTANTS
  NTypes,      \* types of samples; pack() takes them in this order
  Capacity,    \* NUM_MSG of Subscriber
  MaxPerType,  \* most samples of a type in a binary batch
  Sizes,       \* encoded sizes of a sample
  BinaryLens,  \* values of max_len from the LoRa transport
  JsonLens,    \* values of max_len from the 4G transport
  PbBufMax,    \* PB_BUF_MAX of cloud_sender.cpp: the bytes of pb_buf, which pack() writes
  Header,      \* length of what a JSON batch begins with
  ElementMax, Margin,
  MaxSamples   \* bound: samples published of a type

ASSUME PackerAssumption ==
  /\ {NTypes, Capacity, MaxPerType, MaxSamples, PbBufMax} \subseteq Nat \ {0}
  /\ Sizes \cup BinaryLens \cup JsonLens \subseteq Nat \ {0}
  /\ Header \in Nat /\ ElementMax \in Nat /\ Margin \in Nat

\* The buffer of a JSON element holds every sample, its comma and what ends the batch.
ASSUME JsonAssumption == Margin >= 3 /\ \A s \in Sizes : s <= ElementMax

\* At data rate 1 (lora_statemachine.cpp:390) the radio module allows no more than pb_buf
\* was made for; the code takes what the module reports as it is (lora_statemachine.cpp:542).
ASSUME LoRaLenAssumption == \A len \in BinaryLens : len <= PbBufMax

VARIABLES
  format,    \* CONFIG_CLOUD_SEND_LORA or CONFIG_CLOUD_SEND_4G
  queue,     \* the subscriber queues
  pc,        \* where pack() is
  turn,      \* the type whose loop is running
  batch,     \* the arrays of msg, or what was written so far
  used,      \* enc_size of what was kept, or pos
  maxLen,    \* max_len
  begun,     \* the queues as they were when pack() was called
  accepted,  \* the samples the queues took, in order
  handed     \* the samples of the batches pack() returned, in order

packVars == <<pc, turn, batch, used, maxLen>>
vars     == <<format, queue, packVars, begun, accepted, handed>>

Types  == 1..NTypes
Sample == [nr : Nat, size : Sizes]
Empty  == [t \in Types |-> <<>>]

\* Mutant: either transport may allow what the other does.
LensOfBoth == BinaryLens \cup JsonLens

\* max_payload() of the transport of the build; pack() is given this, not the size of pb_buf.
Lens == IF format = "binary" THEN BinaryLens ELSE JsonLens

\* pending()
Pending == {t \in Types : queue[t] # <<>>}

\* A batch that is still empty: its length, and what it has room for.
UsedBefore == IF format = "binary" THEN 0 ELSE Header
FitsAlone(s, len) ==
  IF format = "binary" THEN s.size <= len ELSE Header + ElementMax + Margin < len

Init ==
  /\ format \in {"binary", "json"}
  /\ queue = Empty /\ batch = Empty /\ begun = Empty /\ accepted = Empty /\ handed = Empty
  /\ pc = "idle" /\ turn = 1 /\ used = 0 /\ maxLen = 0

-----------------------------------------------------------------------------
(* The scanners. *)

\* Mutant: the queue grows beyond its capacity.
PublishGrowing(t, s) ==
  /\ Len(accepted[t]) < MaxSamples
  /\ accepted' = [accepted EXCEPT ![t] = Append(@, s)]
  /\ queue' = [queue EXCEPT ![t] = Append(@, s)]
  /\ UNCHANGED <<format, packVars, begun, handed>>

\* Topic::publish: a sample is dropped if the queue is full, and nobody looks.
Publish(t, s) ==
  /\ Len(accepted[t]) < MaxSamples
  /\ Len(queue[t]) < Capacity
  /\ accepted' = [accepted EXCEPT ![t] = Append(@, s)]
  /\ queue' = [queue EXCEPT ![t] = Append(@, s)]
  /\ UNCHANGED <<format, packVars, begun, handed>>

-----------------------------------------------------------------------------
(* cloud_send. *)

\* run() has seen something pending and lets pack() write up to max_len bytes to pb_buf.
Start ==
  /\ pc = "idle" /\ Pending # {}
  /\ pc' = "pack" /\ turn' = 1
  /\ maxLen' \in Lens
  /\ used' = UsedBefore
  /\ begun' = queue
  /\ UNCHANGED <<format, queue, batch, accepted, handed>>

NextTurn == turn' = turn + 1 /\ pc' = "pack"

\* The loop of a type: the first sample of its queue becomes part of the message ...
Peek ==
  /\ pc = "pack" /\ turn \in Types /\ format = "binary"
  /\ IF turn \in Pending /\ Len(batch[turn]) < MaxPerType
     THEN /\ batch' = [batch EXCEPT ![turn] = Append(@, Head(queue[turn]))]
          /\ pc' = "check"
          /\ UNCHANGED turn
     ELSE NextTurn /\ UNCHANGED batch
  /\ UNCHANGED <<format, queue, used, maxLen, begun, accepted, handed>>

Dequeue(t) == queue' = [queue EXCEPT ![t] = Tail(@)]

\* Mutant: the sample that does not fit stays in the message.
CheckKept ==
  /\ pc = "check"
  /\ LET size == Head(queue[turn]).size IN
       IF used + size <= maxLen
       THEN /\ used' = used + size
            /\ Dequeue(turn)
            /\ pc' = "pack"
            /\ UNCHANGED <<turn, batch>>
       ELSE NextTurn /\ UNCHANGED <<used, queue, batch>>
  /\ UNCHANGED <<format, maxLen, begun, accepted, handed>>

\* Mutant: a sample that does not fit ends the packing.
CheckStops ==
  /\ pc = "check"
  /\ LET size == Head(queue[turn]).size IN
       IF used + size <= maxLen
       THEN /\ used' = used + size
            /\ Dequeue(turn)
            /\ pc' = "pack"
            /\ UNCHANGED <<turn, batch>>
       ELSE /\ batch' = [batch EXCEPT ![turn] = SubSeq(@, 1, Len(@) - 1)]
            /\ turn' = NTypes + 1 /\ pc' = "pack"
            /\ UNCHANGED <<used, queue>>
  /\ UNCHANGED <<format, maxLen, begun, accepted, handed>>

\* ... and leaves its queue if the message still fits, or the message if it does not.
Check ==
  /\ pc = "check"
  /\ LET size == Head(queue[turn]).size IN
       IF used + size <= maxLen
       THEN /\ used' = used + size
            /\ Dequeue(turn)
            /\ pc' = "pack"
            /\ UNCHANGED <<turn, batch>>
       ELSE /\ batch' = [batch EXCEPT ![turn] = SubSeq(@, 1, Len(@) - 1)]
            /\ NextTurn
            /\ UNCHANGED <<used, queue>>
  /\ UNCHANGED <<format, maxLen, begun, accepted, handed>>

Comma == IF batch = Empty THEN 0 ELSE 1

\* JsonSerializer makes sure that there is room before it writes.
Write ==
  /\ pc = "pack" /\ turn \in Types /\ format = "json"
  /\ IF turn \in Pending /\ used + ElementMax + Margin < maxLen
     THEN /\ used' = used + Comma + Head(queue[turn]).size
          /\ batch' = [batch EXCEPT ![turn] = Append(@, Head(queue[turn]))]
          /\ Dequeue(turn)
          /\ UNCHANGED <<pc, turn>>
     ELSE NextTurn /\ UNCHANGED <<used, batch, queue>>
  /\ UNCHANGED <<format, maxLen, begun, accepted, handed>>

\* pack() returns the length, or 0 if there is nothing in the batch.
Return ==
  /\ pc = "pack" /\ turn = NTypes + 1
  /\ pc' = "idle"
  /\ handed' = [t \in Types |-> handed[t] \o batch[t]]
  /\ batch' = Empty
  /\ UNCHANGED <<format, queue, turn, used, maxLen, begun, accepted>>

Pack == Start \/ Peek \/ Check \/ Write \/ Return

Next ==
  \/ \E t \in Types, size \in Sizes : Publish(t, [nr |-> Len(accepted[t]), size |-> size])
  \/ Pack

Spec == Init /\ [][Next]_vars

\* cloud_send packs as long as something is pending (PendingIsTried of CloudSender).
FairSpec == Spec /\ WF_vars(Pack)

-----------------------------------------------------------------------------
TypeOK ==
  /\ format \in {"binary", "json"}
  /\ queue \in [Types -> Seq(Sample)] /\ batch \in [Types -> Seq(Sample)]
  /\ begun \in [Types -> Seq(Sample)] /\ accepted \in [Types -> Seq(Sample)]
  /\ handed \in [Types -> Seq(Sample)]
  /\ pc \in {"idle", "pack", "check"} /\ turn \in 1..(NTypes + 1)
  /\ used \in Nat /\ maxLen \in Nat
  /\ \A t \in Types : Len(queue[t]) <= Capacity

\* What the batch keeps of a type: not the sample that is being tried.
Kept(t) ==
  IF pc = "check" /\ t = turn THEN SubSeq(batch[t], 1, Len(batch[t]) - 1) ELSE batch[t]

NothingKept == \A t \in Types : Kept(t) = <<>>

\* Every sample a queue took is in a batch that was returned, in the present one or in the
\* queue: exactly once and in order, although pack() peeks and removes in two steps while
\* the scanners publish (binary_serializer.cpp:20-42).
EachSampleOnce ==
  \A t \in Types : accepted[t] = handed[t] \o Kept(t) \o queue[t]

\* Two characters end a JSON batch.
BatchLength == used + (IF format = "json" THEN 2 ELSE 0)

\* A batch fits the length the transport allows, and a binary one also pb_buf, which it is
\* encoded to (cloud_sender.cpp:110), and the arrays of the message, which have room for
\* MaxPerType samples (sensors.options:13-16).  That a JSON batch fits pb_buf is not said:
\* see BatchFitsBuffer.
BatchFits ==
  pc # "idle" =>
    /\ ~NothingKept => BatchLength <= maxLen
    /\ format = "binary" => /\ ~NothingKept => BatchLength <= PbBufMax
                            /\ \A t \in Types : Len(batch[t]) <= MaxPerType

\* "PB_BUF_MAX = LoRaStateMachine::PAYLOAD_MAX_LEN; //set initially for DR1"
\* (cloud_sender.cpp:19): PB_BUF_MAX is the most a batch takes, in either build.
BatchFitsBuffer == (pc # "idle" /\ ~NothingKept) => BatchLength <= PbBufMax

\* pack() gives up with nothing only if none of the samples that were first in their queues
\* when it was called fits a batch of its own (binary_serializer.cpp:98): a sample that does
\* not fit never blocks those of the other types.
NothingMeansNoneFits ==
  (pc = "pack" /\ turn = NTypes + 1 /\ NothingKept) =>
    \A t \in Types : begun[t] # <<>> => ~FitsAlone(Head(begun[t]), maxLen)

\* The length is one of the transport's, the sample that is being tried is the first of its
\* queue, and the loops come in turn.
StageInv ==
  /\ pc # "idle" => maxLen \in Lens
  /\ pc = "idle" => batch = Empty
  /\ pc = "check" => /\ format = "binary" /\ turn \in Pending
                     /\ batch[turn] # <<>> /\ batch[turn][Len(batch[turn])] = Head(queue[turn])
  /\ \A t \in Types : t > turn => batch[t] = <<>>

\* As long as nothing is kept, the types before this one had nothing that fits, and those
\* after it begin with what they began with.
NothingYet ==
  (pc # "idle" /\ NothingKept) =>
    /\ used = UsedBefore
    /\ \A t \in Types : begun[t] # <<>> =>
         /\ t < turn => ~FitsAlone(Head(begun[t]), maxLen)
         /\ t >= turn => t \in Pending /\ Head(queue[t]) = Head(begun[t])

\* The inductive invariant behind the three.
IInv == TypeOK /\ StageInv /\ EachSampleOnce /\ BatchFits /\ NothingYet

\* If every sample of a type fits a batch of its own, its queue is emptied again and again,
\* whatever blocks the queues of the other types.
NoTypeBlocksAnother ==
  \A t \in Types :
    []( \A k \in DOMAIN accepted[t] : \A len \in Lens : FitsAlone(accepted[t][k], len) )
      => (t \in Pending ~> t \notin Pending)
=============================================================================
