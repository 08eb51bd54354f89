---------------------------- MODULE Sending_proofs ----------------------------
(* Proofs about sending: the double send queue, for any number of          *)
(* producers, any buffer size and any number of calls, and the commands    *)
(* the send thread takes from it and tracks, for any set of commands,      *)
(* whatever their kinds and keys, and for any bound on the number sent.    *)
EXTENDS SendQueue, Inflight, SequenceTheorems, TLAPS

-----------------------------------------------------------------------------
(* The send queue *)

(* Each group of variables keeps its type through the steps that change    *)
(* none of it.                                                             *)
LEMMA TypesStutter ==
    /\ QueueTypes /\ UNCHANGED <<queues, accepted, sent>> => QueueTypes'
    /\ ProducerTypes /\ UNCHANGED prodVars => ProducerTypes'
    /\ CheckTypes /\ UNCHANGED checkVars => CheckTypes'
    /\ CloseTypes /\ UNCHANGED closeVars => CloseTypes'
    /\ SenderTypes /\ UNCHANGED <<spc, sw, node>> => SenderTypes'
  BY DEF queues, QueueTypes, prodVars, ProducerTypes, checkVars, CheckTypes,
         closeVars, CloseTypes, SenderTypes

(* A signal never sends the send thread into a transmission. *)
LEMMA SignalTypes ==
  ASSUME SenderTypes, spc' = AfterSignal(spc), UNCHANGED <<sw, node>>
  PROVE  SenderTypes'
  BY DEF SenderTypes, AfterSignal, SenderSteps

(* The variables of a producer keep their types through its call. *)
LEMMA ProducerTypesStep ==
  ASSUME SendQueueAssumption, ProducerTypes, NEW p \in Producers,
         \/ \E len \in FrameLens : Fill(p, len)
         \/ ReadWriteEmpty(p) \/ ReadReadEmpty(p)
         \/ Save(p) \/ SaveFails(p) \/ ProducerSignal(p)
  PROVE  ProducerTypes'
<1> USE DEF ProducerTypes
<1>1. ASSUME NEW len \in FrameLens, Fill(p, len) PROVE ProducerTypes'
  <2>1. /\ calls[p] \in 0 .. MaxCalls /\ calls[p] < MaxCalls
        /\ calls' = [calls EXCEPT ![p] = @ + 1]
    BY <1>1 DEF Fill
  <2>2. calls' \in [Producers -> 0 .. MaxCalls] /\ calls'[p] \in 1 .. MaxCalls
    BY <2>1 DEF SendQueueAssumption
  <2>3. CASE len > BufferSize
    <3>1. UNCHANGED <<buf, ppc, plen, sawEmpty>>
      BY <1>1, <2>3 DEF Fill
    <3>2. \A q \in Producers : calls[q] > 0 => calls'[q] > 0
      BY <2>1
    <3> QED
      BY <2>2, <3>1, <3>2
  <2>4. CASE ~(len > BufferSize)
    <3>1. len \in 0 .. BufferSize
      BY <2>4 DEF FrameLens, SendQueueAssumption
    <3>2. /\ buf' = <<p, calls'[p]>> /\ plen' = [plen EXCEPT ![p] = len]
          /\ ppc' = [ppc EXCEPT ![p] = "readWrite"] /\ UNCHANGED sawEmpty
      BY <1>1, <2>4 DEF Fill
    <3>3. buf' \in CallIds /\ buf' # <<>>
      BY <2>2, <3>2 DEF CallIds
    <3>4. \A q \in Producers : ppc'[q] # "idle" => calls'[q] > 0
      BY <2>1, <2>2, <3>2
    <3>5. ppc' \in [Producers -> ProducerSteps] /\ plen' \in [Producers -> 0 .. BufferSize]
      BY <3>1, <3>2 DEF ProducerSteps
    <3> QED
      BY <2>2, <3>2, <3>3, <3>4, <3>5
  <2> QED
    BY <2>3, <2>4
<1>2. CASE ReadWriteEmpty(p) \/ ReadReadEmpty(p)
  BY <1>2 DEF ReadWriteEmpty, ReadReadEmpty, ProducerSteps
<1>3. CASE Save(p) \/ SaveFails(p)
  <2>1. /\ ppc' = [ppc EXCEPT ![p] = IF sawEmpty[p] THEN "signal" ELSE "idle"]
        /\ ppc[p] = "save" /\ plen' = [plen EXCEPT ![p] = 0]
        /\ sawEmpty' = [sawEmpty EXCEPT ![p] = FALSE] /\ UNCHANGED <<buf, calls>>
    BY <1>3 DEF Save, SaveFails, AfterSave
  <2>2. 0 \in 0 .. BufferSize
    BY DEF SendQueueAssumption
  <2> QED
    BY <2>1, <2>2 DEF ProducerSteps
<1>4. CASE ProducerSignal(p)
  BY <1>4 DEF ProducerSignal, ProducerSteps
<1> QED
  BY <1>1, <1>2, <1>3, <1>4

(* A frame the producer queues is a frame. *)
LEMMA SavedFrame ==
  ASSUME ProducerTypes, NEW p \in Producers, Save(p), SendQueueAssumption
  PROVE  [call |-> <<p, calls[p]>>, len |-> plen[p], data |-> buf] \in Frames
<1>1. ppc[p] = "save" /\ plen[p] > 0
  BY DEF Save, AfterSave
<1>2. calls[p] \in 0 .. MaxCalls /\ plen[p] \in 0 .. BufferSize
  BY DEF ProducerTypes
<1>3. calls[p] > 0 /\ buf \in CallIds
  BY <1>1 DEF ProducerTypes
<1>4. calls[p] \in 1 .. MaxCalls /\ plen[p] \in 1 .. BufferSize
  BY <1>1, <1>2, <1>3 DEF SendQueueAssumption
<1>5. <<p, calls[p]>> \in CallIds
  BY <1>4 DEF CallIds
<1> QED
  BY <1>3, <1>4, <1>5 DEF Frames

(* The variables keep their types: no step stores a frame that was not     *)
(* queued through system_packet_save_send_queue, and none is queued before *)
(* the buffer has been filled.                                             *)
THEOREM TypeCorrect == Spec => []TypeOK
<1>1. Init => TypeOK
  <2> SUFFICES ASSUME Init PROVE TypeOK
    OBVIOUS
  <2>1. QueueTypes
    BY DEF Init, QueueTypes
  <2>2. ProducerTypes
    BY SendQueueAssumption DEF Init, ProducerTypes, ProducerSteps, SendQueueAssumption
  <2>3. SenderTypes /\ CheckTypes /\ CloseTypes
    BY DEF Init, SenderTypes, CheckTypes, CloseTypes, NodeTypes, SenderSteps,
           CheckSteps, CloseSteps
  <2> QED
    BY <2>1, <2>2, <2>3 DEF TypeOK
<1>2. TypeOK /\ [Next]_vars => TypeOK'
  <2> SUFFICES ASSUME TypeOK, [Next]_vars PROVE TypeOK'
    OBVIOUS
  <2> USE DEF TypeOK
  <2>1. ASSUME NEW p \in Producers, NEW len \in FrameLens, Fill(p, len) PROVE TypeOK'
    BY <2>1, TypesStutter, ProducerTypesStep, SendQueueAssumption DEF Fill
  <2>2. ASSUME NEW p \in Producers, ReadWriteEmpty(p) \/ ReadReadEmpty(p) PROVE TypeOK'
    BY <2>2, TypesStutter, ProducerTypesStep, SendQueueAssumption
       DEF ReadWriteEmpty, ReadReadEmpty
  <2>3. ASSUME NEW p \in Producers, Save(p) PROVE TypeOK'
    <3>1. QueueTypes'
      BY <2>3, SavedFrame, SendQueueAssumption, AppendProperties DEF Save, AfterSave, QueueTypes
    <3>2. ProducerTypes'
      BY <2>3, ProducerTypesStep, SendQueueAssumption
    <3> QED
      BY <2>3, <3>1, <3>2, TypesStutter DEF Save, AfterSave
  <2>4. ASSUME NEW p \in Producers, SaveFails(p) PROVE TypeOK'
    <3>1. ProducerTypes'
      BY <2>4, ProducerTypesStep, SendQueueAssumption
    <3> QED
      BY <2>4, <3>1, TypesStutter DEF SaveFails, AfterSave, queues
  <2>5. ASSUME NEW p \in Producers, ProducerSignal(p) PROVE TypeOK'
    <3>1. ProducerTypes'
      BY <2>5, ProducerTypesStep, SendQueueAssumption
    <3> QED
      BY <2>5, <3>1, TypesStutter, SignalTypes DEF ProducerSignal
  <2>6. CASE SenderLoop \/ SenderReadEmpty \/ CondWait \/ Wake \/ SpuriousWakeup
    <3>1. SenderTypes'
      BY <2>6 DEF SenderLoop, SenderReadEmpty, CondWait, Wake, SpuriousWakeup,
                  SenderTypes, SenderSteps
    <3> QED
      BY <2>6, <3>1, TypesStutter DEF SenderLoop, SenderReadEmpty, CondWait, Wake,
         SpuriousWakeup
  <2>7. CASE Swap
    <3>1. QueueTypes'
      BY <2>7 DEF Swap, QueueTypes
    <3>2. SenderTypes'
      BY <2>7 DEF Swap, SenderTypes, SenderSteps
    <3> QED
      BY <2>7, <3>1, <3>2, TypesStutter DEF Swap
  <2>8. CASE Load
    <3>1. node' \in NodeTypes
      BY <2>8, HeadTailProperties DEF Load, NodeTypes, QueueTypes
    <3>2. SenderTypes'
      BY <2>8, <3>1 DEF Load, SenderTypes, SenderSteps
    <3> QED
      BY <2>8, <3>2, TypesStutter DEF Load
  <2>9. CASE Advance
    <3>1. QueueTypes'
      BY <2>9, HeadTailProperties DEF Advance, QueueTypes
    <3>2. SenderTypes'
      BY <2>9 DEF Advance, SenderTypes, SenderSteps, NodeTypes
    <3> QED
      BY <2>9, <3>1, <3>2, TypesStutter DEF Advance
  <2>10. CASE Transmit
    <3>1. node[1] \in Frames
      BY <2>10 DEF Transmit, SenderTypes, NodeTypes
    <3>2. QueueTypes'
      BY <2>10, <3>1, AppendProperties DEF Transmit, QueueTypes, queues
    <3>3. SenderTypes'
      BY <2>10 DEF Transmit, SenderTypes, SenderSteps, NodeTypes
    <3> QED
      BY <2>10, <3>2, <3>3, TypesStutter DEF Transmit
  <2>11. CASE TimerElapses \/ CheckListen \/ CheckReadEmpty
    <3>1. CheckTypes'
      BY <2>11 DEF TimerElapses, CheckListen, CheckReadEmpty, CheckTypes, CheckSteps
    <3> QED
      BY <2>11, <3>1, TypesStutter DEF TimerElapses, CheckListen, CheckReadEmpty
  <2>12. CASE CheckSignal
    <3>1. CheckTypes'
      BY <2>12 DEF CheckSignal, CheckTypes, CheckSteps
    <3> QED
      BY <2>12, <3>1, TypesStutter, SignalTypes DEF CheckSignal
  <2>13. CASE Stop \/ Exit
    <3>1. CloseTypes'
      BY <2>13 DEF Stop, Exit, CloseTypes, CloseSteps
    <3> QED
      BY <2>13, <3>1, TypesStutter DEF Stop, Exit
  <2>14. CASE DrainLoad
    <3>1. CloseTypes'
      BY <2>14, HeadTailProperties DEF DrainLoad, CloseTypes, CloseSteps, NodeTypes, QueueTypes
    <3> QED
      BY <2>14, <3>1, TypesStutter DEF DrainLoad
  <2>15. CASE DrainAdvance
    <3>1. QueueTypes'
      BY <2>15, HeadTailProperties DEF DrainAdvance, QueueTypes
    <3>2. CloseTypes'
      BY <2>15 DEF DrainAdvance, CloseTypes, CloseSteps, NodeTypes
    <3> QED
      BY <2>15, <3>1, <3>2, TypesStutter DEF DrainAdvance
  <2>16. CASE CloseSignal
    <3>1. CloseTypes'
      BY <2>16 DEF CloseSignal, CloseTypes, CloseSteps
    <3> QED
      BY <2>16, <3>1, TypesStutter, SignalTypes DEF CloseSignal
  <2>17. CASE Terminated \/ UNCHANGED vars
    BY <2>17, TypesStutter DEF Terminated, vars, queues, prodVars, checkVars, closeVars
  <2> QED
    BY <2>1, <2>2, <2>3, <2>4, <2>5, <2>6, <2>7, <2>8, <2>9, <2>10, <2>11, <2>12,
       <2>13, <2>14, <2>15, <2>16, <2>17
       DEF Next, Producer, Sender, Check, Close
<1> QED
  BY <1>1, <1>2, PTL DEF Spec

-----------------------------------------------------------------------------
(* A nonempty sequence is its head followed by its tail. *)
LEMMA HeadTailConcat ==
  ASSUME NEW S, NEW s \in Seq(S), s # <<>>
  PROVE  s = <<Head(s)>> \o Tail(s)
<1>1. Len(s) \in Nat /\ Len(s) >= 1
  BY EmptySeq, LenProperties
<1>2. s = <<s[1]>> \o SubSeq(s, 2, Len(s))
  BY <1>1, SubSeqFull, SubSeqRecursiveFirst
<1> QED
  BY <1>2, TailIsSubSeq

(* The steps of the send thread that neither pop nor transmit, and those   *)
(* of the other threads that leave the queues alone, keep the two parts of *)
(* the invariant apart from the send thread's own position.                *)
LEMMA ConservedStutter ==
  ASSUME FifoConserved, UNCHANGED <<wq, rq, accepted, sent, node>>,
         NotDraining' => NotDraining,
         (spc = "transmit") = (spc' = "transmit")
  PROVE  FifoConserved'
  BY DEF FifoConserved, InHand

LEMMA ViewStutter ==
  ASSUME SenderView, UNCHANGED <<wq, rq, sw, node>>,
         NotDraining' => NotDraining,
         spc' \in {"readRead", "swap", "load", "advance"} => spc' = spc
  PROVE  SenderView'
  BY DEF SenderView

(* A signal only ever moves the send thread out of pthread_cond_wait. *)
LEMMA SignalKeeps ==
  ASSUME FifoConserved, SenderView, UNCHANGED <<wq, rq, accepted, sent, sw, node>>,
         NotDraining' => NotDraining, spc' = AfterSignal(spc)
  PROVE  FifoConserved' /\ SenderView'
<1>1. /\ (spc = "transmit") = (spc' = "transmit")
      /\ spc' \in {"readRead", "swap", "load", "advance"} => spc' = spc
  BY DEF AfterSignal
<1> QED
  BY <1>1, ConservedStutter, ViewStutter

(* The frame in hand, if any, is a frame. *)
LEMMA HandTypes ==
  ASSUME SenderTypes
  PROVE  InHand \in Seq(Frames)
<1>1. CASE node = <<>>
  BY <1>1 DEF InHand
<1>2. ASSUME NEW f \in Frames, node = <<f>> PROVE InHand \in Seq(Frames)
  BY <1>2 DEF InHand
<1> QED
  BY <1>1, <1>2 DEF SenderTypes, NodeTypes

(* Queueing a frame appends it to the write queue and to the history. *)
LEMMA SaveKeeps ==
  ASSUME FifoInv, NEW p \in Producers, Save(p), SendQueueAssumption
  PROVE  FifoConserved' /\ SenderView'
<1> DEFINE frame == [call |-> <<p, calls[p]>>, len |-> plen[p], data |-> buf]
<1>1. frame \in Frames
  BY SavedFrame DEF FifoInv, TypeOK
<1>2. /\ wq' = Append(wq, frame) /\ accepted' = Append(accepted, frame)
      /\ UNCHANGED <<rq, spc, sw, node, cpc, sent>>
  BY DEF Save, AfterSave, closeVars
<1>3. /\ wq \in Seq(Frames) /\ rq \in Seq(Frames) /\ accepted \in Seq(Frames)
      /\ sent \in Seq(Frames) /\ InHand \in Seq(Frames)
  BY HandTypes DEF FifoInv, TypeOK, QueueTypes
<1>4. wq' = wq \o <<frame>> /\ accepted' = accepted \o <<frame>> /\ wq' # <<>>
  <2> HIDE DEF frame
  <2> QED
    BY <1>1, <1>2, <1>3, AppendIsConcat, AppendProperties
<1>5. InHand' = InHand /\ (NotDraining' <=> NotDraining)
  BY <1>2 DEF InHand, NotDraining
<1>6. FifoConserved'
  <2> SUFFICES ASSUME NotDraining PROVE accepted' = sent' \o InHand' \o rq' \o wq'
    BY <1>5 DEF FifoConserved
  <2> DEFINE front == sent \o InHand \o rq
  <2>1. front \in Seq(Frames)
    BY <1>3, ConcatProperties
  <2>2. accepted = front \o wq
    BY DEF FifoInv, FifoConserved
  <2>3. <<frame>> \in Seq(Frames)
    BY <1>1
  <2>4. (front \o wq) \o <<frame>> = front \o (wq \o <<frame>>)
    <3> DEFINE last == <<frame>>
    <3>1. wq \in Seq(Frames) /\ last \in Seq(Frames)
      BY <1>3, <2>3
    <3> HIDE DEF front, last
    <3>2. (front \o wq) \o last = front \o (wq \o last)
      BY <2>1, <3>1, ConcatAssociative
    <3> QED
      BY <3>2 DEF last
  <2> QED
    BY <2>2, <2>4, <1>2, <1>4, <1>5
<1>7. SenderView'
  BY <1>2, <1>4, <1>5 DEF FifoInv, SenderView
<1> QED
  BY <1>6, <1>7

(* The swap moves the whole write queue behind an empty read queue. *)
LEMMA SwapKeeps ==
  ASSUME FifoInv, Swap
  PROVE  FifoConserved' /\ SenderView'
<1>1. /\ rq' = wq /\ wq' = rq /\ spc = "swap" /\ spc' = "load"
      /\ UNCHANGED <<sw, node, cpc, accepted, sent>>
  BY DEF Swap, closeVars
<1>2. NotDraining' <=> NotDraining
  BY <1>1 DEF NotDraining
<1>3. wq \in Seq(Frames) /\ sent \in Seq(Frames)
  BY DEF FifoInv, TypeOK, QueueTypes
<1> SUFFICES ASSUME NotDraining PROVE FifoConserved' /\ SenderView'
  BY <1>2 DEF FifoConserved, SenderView
<1>4. rq = <<>> /\ wq # <<>>
  BY <1>1 DEF FifoInv, SenderView
<1>5. InHand = <<>> /\ InHand' = <<>>
  BY <1>1 DEF InHand
<1>6. accepted = sent \o wq
  BY <1>3, <1>4, <1>5, ConcatEmptySeq DEF FifoInv, FifoConserved
<1>7. sent' \o InHand' \o rq' \o wq' = sent \o wq
  <2>1. sent \o wq \in Seq(Frames)
    BY <1>3, ConcatProperties
  <2> QED
    BY <2>1, <1>1, <1>3, <1>4, <1>5, ConcatEmptySeq
<1> QED
  BY <1>1, <1>4, <1>6, <1>7 DEF FifoConserved, SenderView

(* The pop takes the node the send thread has read at the head. *)
LEMMA AdvanceKeeps ==
  ASSUME FifoInv, Advance, SendQueueAssumption
  PROVE  FifoConserved' /\ SenderView'
<1>1. spc = "advance" /\ UNCHANGED <<wq, cpc, accepted, sent>>
  BY DEF Advance, closeVars
<1>2. NotDraining' <=> NotDraining
  BY <1>1 DEF NotDraining
<1> SUFFICES ASSUME NotDraining PROVE FifoConserved' /\ SenderView'
  BY <1>2 DEF FifoConserved, SenderView
<1>3. rq # <<>> /\ node = <<Head(rq)>>
  BY <1>1 DEF FifoInv, SenderView
<1>4. /\ wq \in Seq(Frames) /\ sent \in Seq(Frames) /\ rq \in Seq(Frames)
      /\ Head(rq) \in Frames /\ Tail(rq) \in Seq(Frames) /\ node \in Seq(Frames)
  BY <1>3, HeadTailProperties DEF FifoInv, TypeOK, QueueTypes
<1>5. ~(node = <<>> \/ node[1].len > BufferSize)
  <2>1. Head(rq).len \in 1 .. BufferSize
    BY <1>4 DEF Frames
  <2>2. node # <<>> /\ node[1] = Head(rq)
    BY <1>3
  <2> QED
    BY <2>1, <2>2 DEF SendQueueAssumption
<1>6. rq' = Tail(rq) /\ spc' = "transmit" /\ node' = node
  <2>1. rq' = Tail(rq)
    BY <1>3 DEF Advance
  <2>2. spc' = "transmit" /\ node' = node
    BY <1>5 DEF Advance
  <2> QED
    BY <2>1, <2>2
<1>7. InHand = <<>> /\ InHand' = node
  BY <1>1, <1>6 DEF InHand
<1>8. sent \o rq = (sent \o node) \o Tail(rq)
  BY <1>3, <1>4, HeadTailConcat, ConcatAssociative
<1>9. accepted = sent \o rq \o wq
  BY <1>4, <1>7, ConcatEmptySeq DEF FifoInv, FifoConserved
<1> QED
  BY <1>1, <1>6, <1>7, <1>8, <1>9 DEF FifoConserved, SenderView

(* The transmitted frame is the one popped. *)
LEMMA TransmitKeeps ==
  ASSUME FifoInv, Transmit
  PROVE  FifoConserved' /\ SenderView'
<1>1. /\ spc = "transmit" /\ spc' = "loop" /\ sent' = Append(sent, node[1])
      /\ UNCHANGED <<wq, rq, cpc, accepted>>
  BY DEF Transmit, queues, closeVars
<1>2. PICK f \in Frames : node = <<f>>
  BY <1>1 DEF FifoInv, TypeOK, SenderTypes, NodeTypes
<1>3. sent \in Seq(Frames) /\ node \in Seq(Frames)
  BY <1>2 DEF FifoInv, TypeOK, QueueTypes
<1>4. InHand = node /\ InHand' = <<>>
  BY <1>1 DEF InHand
<1>5. sent' = sent \o node
  BY <1>1, <1>2, <1>3, AppendIsConcat
<1>6. sent' \o InHand' = sent \o InHand
  <2>1. sent \o node \in Seq(Frames)
    BY <1>3, ConcatProperties
  <2> QED
    BY <2>1, <1>4, <1>5, ConcatEmptySeq
<1>7. NotDraining' <=> NotDraining
  BY <1>1 DEF NotDraining
<1> QED
  BY <1>1, <1>6, <1>7 DEF FifoInv, FifoConserved, SenderView

(* The pops of the send thread and of the shutdown, and the swap, keep what *)
(* the two of them rely on.                                                *)
LEMMA PopViewKept ==
  ASSUME TypeOK, PopView, [Next]_vars
  PROVE  PopView'
<1> USE DEF PopView, queues, prodVars, checkVars, closeVars
<1>1. ASSUME NEW p \in Producers,
             \/ \E len \in FrameLens : Fill(p, len)
             \/ ReadWriteEmpty(p) \/ ReadReadEmpty(p) \/ Save(p) \/ SaveFails(p)
      PROVE  PopView'
  BY <1>1 DEF Fill, ReadWriteEmpty, ReadReadEmpty, Save, SaveFails, AfterSave
<1>2. ASSUME NEW p \in Producers, ProducerSignal(p) PROVE PopView'
  BY <1>2 DEF ProducerSignal, AfterSignal
<1>3. CASE SenderLoop \/ SenderReadEmpty \/ CondWait \/ Wake \/ SpuriousWakeup
  BY <1>3 DEF SenderLoop, SenderReadEmpty, CondWait, Wake, SpuriousWakeup
<1>4. CASE Swap \/ Load \/ Advance \/ Transmit
  BY <1>4 DEF Swap, Load, Advance, Transmit
<1>5. CASE TimerElapses \/ CheckListen \/ CheckReadEmpty \/ CheckSignal
  BY <1>5 DEF TimerElapses, CheckListen, CheckReadEmpty, CheckSignal, AfterSignal
<1>6. CASE Stop \/ DrainLoad \/ DrainAdvance \/ CloseSignal \/ Exit
  BY <1>6 DEF TypeOK, CloseTypes, Stop, DrainLoad, DrainAdvance, CloseSignal, Exit,
              AfterSignal
<1>7. CASE Terminated \/ UNCHANGED vars
  BY <1>7 DEF Terminated, vars
<1> QED
  BY <1>1, <1>2, <1>3, <1>4, <1>5, <1>6, <1>7 DEF Next, Producer, Sender, Check, Close

(* Until the shutdown empties the queue, no frame is lost, repeated or     *)
(* overtaken between system_packet_save_send_queue and tx_packet_event,    *)
(* and what the send thread read without the mutex still holds at every    *)
(* step that relies on it.                                                 *)
THEOREM FifoCorrect == Spec => []FifoInv
<1>1. Init => FifoConserved /\ SenderView
  <2> SUFFICES ASSUME Init PROVE FifoConserved /\ SenderView
    OBVIOUS
  <2>1. <<>> \in Seq(Frames) /\ <<>> \o <<>> \o <<>> \o <<>> = <<>>
    BY EmptySeq, ConcatEmptySeq
  <2> QED
    BY <2>1 DEF Init, FifoConserved, SenderView, InHand
<1>2. FifoInv /\ [Next]_vars => (FifoConserved /\ SenderView)'
  <2> SUFFICES ASSUME FifoInv, [Next]_vars PROVE FifoConserved' /\ SenderView'
    OBVIOUS
  <2> USE DEF FifoInv, queues, prodVars, checkVars, closeVars
  <2>1. ASSUME NEW p \in Producers, Save(p) PROVE FifoConserved' /\ SenderView'
    BY <2>1, SaveKeeps, SendQueueAssumption
  <2>2. ASSUME NEW p \in Producers,
               \/ \E len \in FrameLens : Fill(p, len)
               \/ ReadWriteEmpty(p) \/ ReadReadEmpty(p) \/ SaveFails(p)
        PROVE  FifoConserved' /\ SenderView'
    <3>1. UNCHANGED <<wq, rq, accepted, sent, node, sw, spc, cpc>>
      BY <2>2 DEF Fill, ReadWriteEmpty, ReadReadEmpty, SaveFails, AfterSave
    <3> QED
      BY <3>1, ConservedStutter, ViewStutter DEF NotDraining
  <2>3. ASSUME NEW p \in Producers, ProducerSignal(p)
        PROVE  FifoConserved' /\ SenderView'
    BY <2>3, SignalKeeps DEF ProducerSignal, NotDraining
  <2>4. CASE SenderLoop
    <3>1. /\ FifoConserved' /\ (spc' = "readRead" => sw' = (wq = <<>>))
          /\ spc' \in {"readRead", "done"}
      BY <2>4, ConservedStutter DEF SenderLoop, NotDraining
    <3> QED
      BY <2>4, <3>1 DEF SenderLoop, SenderView, NotDraining
  <2>5. CASE SenderReadEmpty
    <3>1. FifoConserved'
      BY <2>5, ConservedStutter DEF SenderReadEmpty, NotDraining
    <3> QED
      BY <2>5, <3>1 DEF SenderReadEmpty, SenderView, NotDraining
  <2>6. CASE Swap
    BY <2>6, SwapKeeps
  <2>7. CASE CondWait \/ Wake \/ SpuriousWakeup
    <3>1. /\ UNCHANGED <<wq, rq, accepted, sent, node, sw, cpc>>
          /\ spc # "transmit" /\ spc' \in {"waiting", "loop", "woken"}
      BY <2>7 DEF CondWait, Wake, SpuriousWakeup
    <3> QED
      BY <3>1, ConservedStutter, ViewStutter DEF NotDraining
  <2>8. CASE Load
    <3>1. /\ spc = "load" /\ spc' = "advance" /\ UNCHANGED <<wq, rq, accepted, sent, cpc>>
          /\ rq # <<>> => node' = <<Head(rq)>>
      BY <2>8 DEF Load
    <3>2. FifoConserved'
      BY <3>1 DEF FifoConserved, InHand, NotDraining
    <3>3. SenderView'
      BY <3>1 DEF SenderView, NotDraining
    <3> QED
      BY <3>2, <3>3
  <2>9. CASE Advance
    BY <2>9, AdvanceKeeps, SendQueueAssumption
  <2>10. CASE Transmit
    BY <2>10, TransmitKeeps
  <2>11. CASE TimerElapses \/ CheckListen \/ CheckReadEmpty
    <3>1. UNCHANGED <<wq, rq, accepted, sent, node, sw, spc, cpc>>
      BY <2>11 DEF TimerElapses, CheckListen, CheckReadEmpty
    <3> QED
      BY <3>1, ConservedStutter, ViewStutter DEF NotDraining
  <2>12. CASE CheckSignal
    BY <2>12, SignalKeeps DEF CheckSignal, NotDraining
  <2>13. CASE Stop
    <3>1. /\ UNCHANGED <<wq, rq, accepted, sent, node, sw, spc>> /\ cpc = "none"
      BY <2>13 DEF Stop
    <3> QED
      BY <3>1, ConservedStutter, ViewStutter DEF NotDraining
  <2>14. CASE DrainLoad \/ DrainAdvance \/ CloseSignal \/ Exit
    <3>1. ~NotDraining'
      BY <2>14 DEF DrainLoad, DrainAdvance, CloseSignal, Exit, NotDraining
    <3> QED
      BY <3>1 DEF FifoConserved, SenderView
  <2>15. CASE Terminated \/ UNCHANGED vars
    BY <2>15, ConservedStutter, ViewStutter DEF Terminated, vars, NotDraining
  <2> QED
    BY <2>1, <2>2, <2>3, <2>4, <2>5, <2>6, <2>7, <2>8, <2>9, <2>10, <2>11, <2>12,
       <2>13, <2>14, <2>15
       DEF Next, Producer, Sender, Check, Close
<1>3. Init => PopView
  BY DEF Init, PopView
<1>4. FifoInv /\ [Next]_vars => PopView'
  BY PopViewKept DEF FifoInv
<1> QED
  BY <1>1, <1>2, <1>3, <1>4, TypeCorrect, PTL DEF Spec, FifoInv

-----------------------------------------------------------------------------
(* What a closing channel may do to its contents. *)
Loses(before, after) ==
    \E i \in 0 .. Len(before) : \E j \in i + 1 .. Len(before) + 1 :
        after = SubSeq(before, 1, i) \o SubSeq(before, j, Len(before))

(* Dropping k elements behind the first part of a sequence is what a       *)
(* closing channel may do.                                                 *)
LEMMA DropBehind ==
  ASSUME NEW S, NEW a \in Seq(S), NEW b \in Seq(S),
         NEW k \in Nat, k > 0, k <= Len(b)
  PROVE  Loses(a \o b, a \o SubSeq(b, k + 1, Len(b)))
<1> DEFINE p == a \o b
<1>1. Len(p) = Len(a) + Len(b) /\ p \in Seq(S) /\ Len(a) \in Nat /\ Len(b) \in Nat
  BY ConcatProperties, LenProperties
<1>2. \A i \in 1 .. Len(p) : p[i] = IF i <= Len(a) THEN a[i] ELSE b[i - Len(a)]
  BY <1>1, ConcatProperties
<1> HIDE DEF p
<1>3. SubSeq(p, 1, Len(a)) = a
  <2>1. DOMAIN a = 1 .. Len(a)
    BY LenProperties
  <2>2. /\ SubSeq(p, 1, Len(a)) = [i \in 1 .. Len(a) |-> p[i]]
        /\ a = [i \in 1 .. Len(a) |-> a[i]]
    BY <1>1, <2>1
  <2>3. \A i \in 1 .. Len(a) : p[i] = a[i]
    BY <1>1, <1>2
  <2> QED
    BY <2>2, <2>3
<1>4. SubSeq(p, Len(a) + k + 1, Len(p)) = SubSeq(b, k + 1, Len(b))
  <2>1. SubSeq(p, Len(a) + k + 1, Len(p))
          = [i \in 1 .. Len(b) - k |-> p[i + (Len(a) + k + 1) - 1]]
    BY <1>1
  <2>2. SubSeq(b, k + 1, Len(b)) = [i \in 1 .. Len(b) - k |-> b[i + (k + 1) - 1]]
    BY <1>1
  <2>3. ASSUME NEW i \in 1 .. Len(b) - k
        PROVE  p[i + (Len(a) + k + 1) - 1] = b[i + (k + 1) - 1]
    <3>1. /\ i + (Len(a) + k + 1) - 1 \in 1 .. Len(p)
          /\ i + (Len(a) + k + 1) - 1 > Len(a)
          /\ i + (Len(a) + k + 1) - 1 - Len(a) = i + (k + 1) - 1
      BY <1>1
    <3> QED
      BY <1>1, <1>2, <3>1
  <2> QED
    BY <2>1, <2>2, <2>3
<1>5. Len(a) \in 0 .. Len(p) /\ Len(a) + k + 1 \in Len(a) + 1 .. Len(p) + 1
  BY <1>1
<1> DEFINE i == Len(a)
           j == Len(a) + k + 1
<1>6. SubSeq(p, 1, i) \o SubSeq(p, j, Len(p)) = a \o SubSeq(b, k + 1, Len(b))
  BY <1>3, <1>4
<1>7. i \in 0 .. Len(p) /\ j \in i + 1 .. Len(p) + 1
  BY <1>5
<1> HIDE DEF i, j
<1> QED
  BY <1>6, <1>7 DEF Loses, p

(* What is left of a sequence without its first k elements.                *)
LEMMA RestIs ==
  ASSUME NEW S, NEW s \in Seq(S), NEW k \in Nat, k <= Len(s)
  PROVE  /\ SubSeq(s, k + 1, Len(s)) \in Seq(S)
         /\ Len(SubSeq(s, k + 1, Len(s))) = Len(s) - k
         /\ \A i \in 1 .. Len(s) - k : SubSeq(s, k + 1, Len(s))[i] = s[i + k]
<1> DEFINE rest == SubSeq(s, k + 1, Len(s))
<1>1. Len(s) \in Nat /\ \A i \in 1 .. Len(s) : s[i] \in S
  BY LenProperties, ElementOfSeq
<1>2. k + 1 \in Int /\ Len(s) \in Int /\ \A i \in k + 1 .. Len(s) : s[i] \in S
  BY <1>1
<1>3. /\ rest \in Seq(S)
      /\ Len(rest) = IF k + 1 <= Len(s) THEN Len(s) - (k + 1) + 1 ELSE 0
      /\ \A i \in 1 .. Len(s) - (k + 1) + 1 : rest[i] = s[(k + 1) + i - 1]
  BY <1>2, SubSeqProperties
<1> HIDE DEF rest
<1>4. Len(rest) = Len(s) - k
  BY <1>1, <1>3
<1>5. \A i \in 1 .. Len(s) - k : rest[i] = s[i + k]
  BY <1>1, <1>3
<1> QED
  BY <1>3, <1>4, <1>5 DEF rest

(* Dropping k elements of the first part leaves its rest and the second.   *)
LEMMA DropFront ==
  ASSUME NEW S, NEW s \in Seq(S), NEW t \in Seq(S),
         NEW k \in Nat, k > 0, k <= Len(s)
  PROVE  /\ SubSeq(s, k + 1, Len(s)) \in Seq(S)
         /\ SubSeq(s \o t, k + 1, Len(s \o t)) = SubSeq(s, k + 1, Len(s)) \o t
<1> DEFINE all == s \o t
           rest == SubSeq(s, k + 1, Len(s))
           left == SubSeq(all, k + 1, Len(all))
<1>1. /\ Len(s) \in Nat /\ Len(t) \in Nat /\ all \in Seq(S) /\ Len(all) = Len(s) + Len(t)
      /\ \A i \in 1 .. Len(s) + Len(t) : all[i] = IF i <= Len(s) THEN s[i] ELSE t[i - Len(s)]
  BY LenProperties, ConcatProperties
<1>2. /\ rest \in Seq(S) /\ Len(rest) = Len(s) - k
      /\ \A i \in 1 .. Len(s) - k : rest[i] = s[i + k]
  BY RestIs
<1> HIDE DEF all, rest
<1>3. /\ left \in Seq(S) /\ Len(left) = Len(s) + Len(t) - k
      /\ \A i \in 1 .. Len(s) + Len(t) - k : left[i] = all[i + k]
  <2>1. k <= Len(all)
    BY <1>1
  <2>2. /\ left \in Seq(S) /\ Len(left) = Len(all) - k
        /\ \A i \in 1 .. Len(all) - k : left[i] = all[i + k]
    BY <1>1, <2>1, RestIs
  <2> HIDE DEF left
  <2> QED
    BY <1>1, <2>2
<1>4. /\ rest \o t \in Seq(S) /\ Len(rest \o t) = Len(s) + Len(t) - k
      /\ \A i \in 1 .. Len(s) + Len(t) - k :
             (rest \o t)[i] = IF i <= Len(s) - k THEN rest[i] ELSE t[i - (Len(s) - k)]
  <2>1. /\ rest \o t \in Seq(S) /\ Len(rest \o t) = Len(rest) + Len(t)
        /\ \A i \in 1 .. Len(rest) + Len(t) :
               (rest \o t)[i] = IF i <= Len(rest) THEN rest[i] ELSE t[i - Len(rest)]
    BY <1>2, ConcatProperties
  <2>2. Len(rest) + Len(t) = Len(s) + Len(t) - k
    BY <1>1, <1>2
  <2> QED
    BY <1>2, <2>1, <2>2
<1> HIDE DEF left
<1>5. ASSUME NEW i \in 1 .. Len(s) + Len(t) - k PROVE left[i] = (rest \o t)[i]
  <2>1. i + k \in 1 .. Len(s) + Len(t)
    BY <1>1
  <2>2. CASE i <= Len(s) - k
    BY <1>1, <1>2, <1>3, <1>4, <2>1, <2>2
  <2>3. CASE ~(i <= Len(s) - k)
    <3>1. ~(i + k <= Len(s)) /\ (i + k) - Len(s) = i - (Len(s) - k)
      BY <1>1, <2>3
    <3>2. all[i + k] = t[(i + k) - Len(s)]
      BY <1>1, <2>1, <3>1
    <3>3. (rest \o t)[i] = t[i - (Len(s) - k)]
      BY <1>4, <2>3
    <3>4. left[i] = all[i + k]
      BY <1>3
    <3> QED
      BY <3>1, <3>2, <3>3, <3>4
  <2> QED
    BY <2>2, <2>3
<1>6. left = rest \o t
  BY <1>3, <1>4, <1>5, SeqEqual
<1> QED
  BY <1>2, <1>6 DEF all, rest, left

(* It may drop the first k elements of the middle one of three parts. *)
LEMMA DropMiddle ==
  \A n, u, w \in Seq(Frames) : \A k \in Nat :
      k > 0 /\ k <= Len(u) =>
          Loses(n \o (u \o w), n \o (SubSeq(u, k + 1, Len(u)) \o w))
<1> SUFFICES ASSUME NEW n \in Seq(Frames), NEW u \in Seq(Frames), NEW w \in Seq(Frames),
                    NEW k \in Nat, k > 0, k <= Len(u)
             PROVE  Loses(n \o (u \o w), n \o (SubSeq(u, k + 1, Len(u)) \o w))
  OBVIOUS
<1>1. Len(u) \in Nat /\ Len(w) \in Nat
  BY LenProperties
<1>2. u \o w \in Seq(Frames) /\ Len(u \o w) = Len(u) + Len(w)
  BY ConcatProperties
<1>3. k <= Len(u \o w)
  BY <1>1, <1>2
<1>4. SubSeq(u \o w, k + 1, Len(u \o w)) = SubSeq(u, k + 1, Len(u)) \o w
  BY DropFront
<1>5. ASSUME NEW r \in Seq(Frames), k <= Len(r)
      PROVE  Loses(n \o r, n \o SubSeq(r, k + 1, Len(r)))
  BY <1>5, DropBehind
<1> QED
  BY <1>2, <1>3, <1>4, <1>5

(* The parts of the channel's contents are sequences of frames. *)
LEMMA FlightTypes ==
  ASSUME TypeOK
  PROVE  /\ node \in Seq(Frames) /\ Unread \in Seq(Frames) /\ wq \in Seq(Frames)
         /\ InFlight \in Seq(Frames)
<1>1. node \in Seq(Frames)
  <2>1. ASSUME NEW f \in Frames, node = <<f>> PROVE node \in Seq(Frames)
    BY <2>1
  <2>2. CASE node = <<>>
    BY <2>2, EmptySeq
  <2> QED
    BY <2>1, <2>2 DEF TypeOK, SenderTypes, NodeTypes
<1>2. rq \in Seq(Frames) /\ wq \in Seq(Frames)
  BY DEF TypeOK, QueueTypes
<1>3. Unread \in Seq(Frames)
  BY <1>2, HeadTailProperties DEF Unread
<1> QED
  BY <1>1, <1>2, <1>3, ConcatProperties DEF InFlight

(* What a step must leave alone for the channel to stutter. *)
LEMMA FlightStutter ==
  ASSUME UNCHANGED <<wq, rq, node, accepted, sent, running>>,
         node = <<>> \/ (spc = "advance") = (spc' = "advance")
  PROVE  UNCHANGED Channel!vars
  BY DEF Channel!vars, InFlight, Unread

(* The shutdown may take frames from the front of the read queue, behind   *)
(* the one the send thread holds.                                          *)
LEMMA LoseFront ==
  ASSUME TypeOK, ~running, UNCHANGED <<wq, node, accepted, sent, running>>,
         NEW k \in Nat, k <= Len(Unread), Unread' = SubSeq(Unread, k + 1, Len(Unread))
  PROVE  [Channel!Next]_(Channel!vars)
<1>1. /\ node \in Seq(Frames) /\ Unread \in Seq(Frames) /\ wq \in Seq(Frames)
      /\ InFlight \in Seq(Frames)
  BY FlightTypes
<1>2. CASE k = 0
  <2>1. Unread' = Unread
    BY <1>1, <1>2, SubSeqFull
  <2> QED
    BY <2>1 DEF Channel!vars, InFlight
<1>3. CASE k # 0
  <2>1. k > 0
    BY <1>3
  <2>2. Loses(node \o (Unread \o wq), node \o (SubSeq(Unread, k + 1, Len(Unread)) \o wq))
    BY <1>1, <2>1, DropMiddle, Zenon
  <2>3. Loses(InFlight, InFlight')
    BY <2>2 DEF InFlight
  <2>4. Channel!Lose
    BY <2>3 DEF Channel!Lose, Loses
  <2> QED
    BY <2>4 DEF Channel!Next
<1> QED
  BY <1>2, <1>3

(* The tail, and the tail of the tail, as subsequences. *)
LEMMA Tails ==
  ASSUME NEW S, NEW s \in Seq(S), s # <<>>
  PROVE  /\ 1 \in 0 .. Len(s) /\ Tail(s) = SubSeq(s, 2, Len(s)) /\ Tail(s) \in Seq(S)
         /\ Tail(s) # <<>> => 2 \in 0 .. Len(s) /\ Tail(Tail(s)) = SubSeq(s, 3, Len(s))
<1>1. Len(s) \in Nat \ {0} /\ Tail(s) = SubSeq(s, 2, Len(s)) /\ Tail(s) \in Seq(S)
  BY EmptySeq, TailIsSubSeq, HeadTailProperties
<1>2. ASSUME Tail(s) # <<>>
      PROVE  2 \in 0 .. Len(s) /\ Tail(Tail(s)) = SubSeq(s, 3, Len(s))
  <2>1. Len(Tail(s)) \in Nat \ {0} /\ Len(Tail(s)) = Len(s) - 1
    BY <1>1, <1>2, EmptySeq, HeadTailProperties
  <2> QED
    BY <1>1, <2>1, HeadTailOfSubSeq
<1> QED
  BY <1>1, <1>2

(* What is appended to the second of two parts is appended to both. *)
LEMMA AppendBehind ==
  ASSUME NEW S, NEW a \in Seq(S), NEW b \in Seq(S), NEW e \in S
  PROVE  /\ a \o Append(b, e) = Append(a \o b, e)
         /\ a \o b \in Seq(S)
<1> DEFINE ab == a \o b
           last == <<e>>
<1>1. ab \in Seq(S) /\ last \in Seq(S)
  BY ConcatProperties
<1>2. ab \o last = a \o (b \o last)
  <2>1. last \in Seq(S)
    BY <1>1
  <2> HIDE DEF last
  <2> QED
    BY <2>1, ConcatAssociative
<1>3. Append(b, e) = b \o last
  BY AppendIsConcat
<1> HIDE DEF ab
<1>4. Append(ab, e) = ab \o last
  BY <1>1, AppendIsConcat
<1> QED
  BY <1>1, <1>2, <1>3, <1>4 DEF ab

(* The append is a Put. *)
LEMMA SavePuts ==
  ASSUME TypeOK, NEW p \in Producers, Save(p), SendQueueAssumption
  PROVE  Channel!Next
<1> DEFINE frame == [call |-> <<p, calls[p]>>, len |-> plen[p], data |-> buf]
<1>1. frame \in Frames
  BY SavedFrame DEF TypeOK
<1>2. /\ wq' = Append(wq, frame) /\ accepted' = Append(accepted, frame)
      /\ UNCHANGED <<rq, spc, node, running, sent>>
  BY DEF Save, AfterSave, closeVars
<1> HIDE DEF frame
<1>3. node \in Seq(Frames) /\ Unread \in Seq(Frames) /\ wq \in Seq(Frames)
  BY FlightTypes
<1>4. Unread' = Unread
  BY <1>2 DEF Unread
<1>5. InFlight' = Append(InFlight, frame)
  <2> DEFINE mid == Unread \o wq
  <2>1. mid \in Seq(Frames) /\ Unread \o Append(wq, frame) = Append(mid, frame)
    BY <1>1, <1>3, AppendBehind
  <2> HIDE DEF mid
  <2>2. node \o Append(mid, frame) = Append(node \o mid, frame)
    BY <1>1, <1>3, <2>1, AppendBehind
  <2> QED
    BY <1>2, <1>4, <2>1, <2>2 DEF InFlight, mid
<1>6. Channel!Put(frame)
  BY <1>2, <1>5 DEF Channel!Put
<1> QED
  BY <1>1, <1>6 DEF Channel!Next

(* The transmission is a Deliver. *)
LEMMA TransmitDelivers ==
  ASSUME TypeOK, Transmit
  PROVE  Channel!Next
<1>1. /\ spc = "transmit" /\ spc' = "loop" /\ sent' = Append(sent, node[1]) /\ node' = <<>>
      /\ UNCHANGED <<wq, rq, running, accepted>>
  BY DEF Transmit, queues, closeVars
<1>2. PICK f \in Frames : node = <<f>>
  BY <1>1 DEF TypeOK, SenderTypes, NodeTypes
<1>3. rq \in Seq(Frames) /\ wq \in Seq(Frames) /\ <<f>> \in Seq(Frames)
  BY DEF TypeOK, QueueTypes
<1>4. Unread = rq /\ Unread' = rq
  BY <1>1 DEF Unread
<1>5. rq \o wq \in Seq(Frames) /\ InFlight = <<f>> \o (rq \o wq) /\ InFlight' = rq \o wq
  <2>1. rq \o wq \in Seq(Frames)
    BY <1>3, ConcatProperties
  <2> QED
    BY <1>1, <1>2, <1>4, <2>1, ConcatEmptySeq DEF InFlight
<1>6. InFlight # <<>> /\ Head(InFlight) = f /\ Tail(InFlight) = rq \o wq
  <2> DEFINE s == rq \o wq
  <2>1. s \in Seq(Frames) /\ InFlight = <<f>> \o s
    BY <1>5
  <2> HIDE DEF s
  <2>2. /\ InFlight \in Seq(Frames) /\ Len(InFlight) = 1 + Len(s) /\ Len(s) \in Nat
        /\ \A i \in 1 .. 1 + Len(s) : InFlight[i] = IF i <= 1 THEN f ELSE s[i - 1]
    BY <1>3, <2>1, ConcatProperties, LenProperties
  <2>3. InFlight # <<>> /\ Head(InFlight) = f
    BY <2>2, EmptySeq, HeadTailProperties
  <2>4. Tail(InFlight) = s
    <3>1. /\ Tail(InFlight) \in Seq(Frames) /\ Len(Tail(InFlight)) = Len(s)
          /\ \A i \in 1 .. Len(s) : Tail(InFlight)[i] = InFlight[i + 1]
      BY <2>2, <2>3, HeadTailProperties
    <3>2. \A i \in 1 .. Len(s) : Tail(InFlight)[i] = s[i]
      BY <2>2, <3>1
    <3> QED
      BY <2>1, <3>1, <3>2, SeqEqual
  <2> QED
    BY <2>3, <2>4 DEF s
<1>7. Channel!Deliver
  BY <1>1, <1>2, <1>5, <1>6 DEF Channel!Deliver
<1> QED
  BY <1>7 DEF Channel!Next

(* The pop of the send thread removes nothing but what it holds, unless    *)
(* the shutdown has moved the head before.                                 *)
LEMMA AdvanceStep ==
  ASSUME FifoInv, Advance, SendQueueAssumption
  PROVE  [Channel!Next]_(Channel!vars)
<1>1. spc = "advance" /\ UNCHANGED <<wq, cpc, running, accepted, sent>>
      /\ rq' = IF rq = <<>> THEN <<>> ELSE Tail(rq)
  BY DEF Advance, closeVars
<1>2. TypeOK /\ SenderView /\ PopView /\ rq \in Seq(Frames)
  BY DEF FifoInv, TypeOK, QueueTypes
<1>3. CASE node = <<>>
  <2>1. rq = <<>> /\ rq' = <<>> /\ node' = <<>>
    BY <1>1, <1>2, <1>3 DEF PopView, Advance
  <2> QED
    BY <1>1, <1>3, <2>1 DEF Channel!vars, InFlight, Unread
<1>4. ASSUME NEW f \in Frames, node = <<f>>
      PROVE  [Channel!Next]_(Channel!vars)
  <2>1. ~(node = <<>> \/ node[1].len > BufferSize)
    <3>1. f.len \in 1 .. BufferSize
      BY DEF Frames
    <3> QED
      BY <3>1, <1>4 DEF SendQueueAssumption
  <2>2. spc' = "transmit" /\ node' = node
    BY <2>1 DEF Advance
  <2>3. Unread' = rq'
    BY <2>2 DEF Unread
  <2>4. CASE rq = <<>>
    BY <1>1, <2>2, <2>3, <2>4 DEF Channel!vars, InFlight, Unread
  <2>5. CASE rq # <<>> /\ node = <<Head(rq)>>
    <3>1. Unread = Tail(rq) /\ Unread' = Tail(rq)
      BY <1>1, <2>1, <2>3, <2>5 DEF Unread
    <3> QED
      BY <1>1, <2>2, <3>1 DEF Channel!vars, InFlight
  <2>6. CASE rq # <<>> /\ node # <<Head(rq)>>
    <3>1. ~running
      BY <1>1, <1>2, <2>6 DEF SenderView, PopView, NotDraining
    <3>2. Unread = rq /\ Unread' = Tail(rq)
      BY <1>1, <2>3, <2>6 DEF Unread
    <3>3. 1 \in 0 .. Len(Unread) /\ Unread' = SubSeq(Unread, 1 + 1, Len(Unread))
      BY <1>2, <2>6, <3>2, Tails
    <3> QED
      BY <1>1, <1>2, <2>2, <3>1, <3>3, LoseFront
  <2> QED
    BY <2>4, <2>5, <2>6
<1> QED
  BY <1>2, <1>3, <1>4 DEF TypeOK, SenderTypes, NodeTypes

(* The pop of the shutdown loses the head of the read queue, and the next  *)
(* one if the send thread is about to pop it for the node it holds.        *)
LEMMA DrainStep ==
  ASSUME FifoInv, DrainAdvance
  PROVE  [Channel!Next]_(Channel!vars)
<1>1. /\ cpc = "advance" /\ UNCHANGED <<wq, spc, node, running, accepted, sent>>
      /\ rq' = IF rq = <<>> THEN <<>> ELSE Tail(rq)
  BY DEF DrainAdvance
<1>2. TypeOK /\ ~running /\ rq \in Seq(Frames)
  BY <1>1 DEF FifoInv, PopView, TypeOK, QueueTypes
<1>3. CASE rq = <<>>
  BY <1>1, <1>3 DEF Channel!vars, InFlight, Unread
<1>4. CASE rq # <<>>
  <2>1. rq' = Tail(rq) /\ Tail(rq) \in Seq(Frames)
    BY <1>1, <1>2, <1>4, HeadTailProperties
  <2>2. Unread \in {rq, Tail(rq)} /\ Unread' \in {rq', Tail(rq')}
    BY DEF Unread
  <2>3. Unread = Tail(rq) => (node = <<Head(rq)>> /\ spc = "advance") \/ Unread = rq
    BY DEF Unread
  <2>4. Unread' = Tail(rq') => rq' # <<>> \/ Unread' = rq'
    BY DEF Unread
  <2>5. \E k \in 0 .. Len(Unread) : Unread' = SubSeq(Unread, k + 1, Len(Unread))
    <3>1. \A s \in Seq(Frames) : 0 \in 0 .. Len(s) /\ s = SubSeq(s, 0 + 1, Len(s))
      BY SubSeqFull, LenProperties
    <3>2. CASE Unread = rq /\ Unread' = rq'
      <4>1. 1 \in 0 .. Len(Unread) /\ Unread' = SubSeq(Unread, 1 + 1, Len(Unread))
        BY <1>2, <1>4, <2>1, <3>2, Tails
      <4> QED
        BY <4>1
    <3>3. CASE Unread = rq /\ Unread' = Tail(rq') /\ rq' # <<>>
      <4>1. 2 \in 0 .. Len(Unread) /\ Unread' = SubSeq(Unread, 2 + 1, Len(Unread))
        BY <1>2, <1>4, <2>1, <3>3, Tails
      <4> QED
        BY <4>1
    <3>4. CASE Unread = Tail(rq) /\ Unread' = rq'
      BY <2>1, <3>1, <3>4
    <3>5. CASE Unread = Tail(rq) /\ Unread' = Tail(rq') /\ rq' # <<>>
      <4>1. 1 \in 0 .. Len(Unread) /\ Unread' = SubSeq(Unread, 1 + 1, Len(Unread))
        BY <2>1, <3>5, Tails
      <4> QED
        BY <4>1
    <3> QED
      BY <2>2, <2>4, <3>2, <3>3, <3>4, <3>5
  <2> QED
    BY <1>1, <1>2, <2>5, LoseFront
<1> QED
  BY <1>3, <1>4

(* The double queue, with its unlocked tests and pops, its lost signals    *)
(* and its shutdown from under the send thread, implements one first-in    *)
(* first-out channel that loses frames only while it closes.               *)
THEOREM Refinement == Spec => ImplementsChannel
<1>1. Init => Channel!Init
  BY ConcatEmptySeq, EmptySeq DEF Init, Channel!Init, InFlight, Unread
<1>2. FifoInv /\ [Next]_vars => [Channel!Next]_(Channel!vars)
  <2> SUFFICES ASSUME FifoInv, [Next]_vars PROVE [Channel!Next]_(Channel!vars)
    OBVIOUS
  <2> USE DEF queues, prodVars, checkVars, closeVars
  <2>0. TypeOK /\ PopView /\ wq \in Seq(Frames) /\ rq \in Seq(Frames)
    BY DEF FifoInv, TypeOK, QueueTypes
  <2>1. ASSUME NEW p \in Producers, Save(p) PROVE [Channel!Next]_(Channel!vars)
    BY <2>0, <2>1, SavePuts, SendQueueAssumption
  <2>2. ASSUME NEW p \in Producers,
               \/ \E len \in FrameLens : Fill(p, len)
               \/ ReadWriteEmpty(p) \/ ReadReadEmpty(p) \/ SaveFails(p)
        PROVE  UNCHANGED Channel!vars
    BY <2>2, FlightStutter DEF Fill, ReadWriteEmpty, ReadReadEmpty, SaveFails, AfterSave
  <2>3. ASSUME NEW p \in Producers, ProducerSignal(p) PROVE UNCHANGED Channel!vars
    BY <2>3, FlightStutter DEF ProducerSignal, AfterSignal
  <2>4. CASE SenderLoop \/ SenderReadEmpty \/ CondWait \/ Wake \/ SpuriousWakeup
    <3>1. node = <<>>
      BY <2>0, <2>4 DEF PopView, SenderLoop, SenderReadEmpty, CondWait, Wake, SpuriousWakeup
    <3> QED
      BY <2>4, <3>1, FlightStutter
         DEF SenderLoop, SenderReadEmpty, CondWait, Wake, SpuriousWakeup
  <2>5. CASE Swap
    <3>1. node = <<>> /\ rq = <<>>
      BY <2>0, <2>5 DEF PopView, Swap
    <3>2. Unread = <<>> /\ Unread' = wq /\ wq' = <<>>
      BY <2>5, <3>1 DEF Swap, Unread
    <3>3. InFlight' = InFlight
      BY <2>0, <2>5, <3>1, <3>2, ConcatEmptySeq, EmptySeq DEF Swap, InFlight
    <3> QED
      BY <2>5, <3>3 DEF Swap, Channel!vars
  <2>6. CASE Load
    <3>1. node = <<>> /\ Unread = rq
      BY <2>0, <2>6 DEF PopView, Load, Unread
    <3>2. CASE rq = <<>>
      BY <2>6, <3>1, <3>2 DEF Load, Channel!vars, InFlight, Unread
    <3>3. CASE rq # <<>>
      <4>1. node' = <<Head(rq)>> /\ spc' = "advance" /\ UNCHANGED <<wq, rq, accepted, sent, running>>
        BY <2>6, <3>3 DEF Load
      <4>2. Unread' = Tail(rq)
        BY <3>3, <4>1 DEF Unread
      <4>3. InFlight = rq \o wq
        <5>1. rq \o wq \in Seq(Frames)
          BY <2>0, ConcatProperties
        <5> QED
          BY <3>1, <5>1, ConcatEmptySeq DEF InFlight
      <4>4. InFlight' = <<Head(rq)>> \o (Tail(rq) \o wq)
        BY <4>1, <4>2 DEF InFlight
      <4>5. /\ rq = <<Head(rq)>> \o Tail(rq) /\ Tail(rq) \in Seq(Frames)
            /\ <<Head(rq)>> \in Seq(Frames)
        BY <2>0, <3>3, HeadTailConcat, HeadTailProperties
      <4>6. InFlight' = InFlight
        BY <2>0, <4>3, <4>4, <4>5, ConcatAssociative
      <4> QED
        BY <4>1, <4>6 DEF Channel!vars
    <3> QED
      BY <3>2, <3>3
  <2>7. CASE Advance
    BY <2>7, AdvanceStep, SendQueueAssumption
  <2>8. CASE Transmit
    BY <2>0, <2>8, TransmitDelivers
  <2>9. CASE TimerElapses \/ CheckListen \/ CheckReadEmpty
    BY <2>9, FlightStutter DEF TimerElapses, CheckListen, CheckReadEmpty
  <2>10. CASE CheckSignal
    BY <2>10, FlightStutter DEF CheckSignal, AfterSignal
  <2>11. CASE Stop
    <3>1. running /\ ~running' /\ UNCHANGED <<wq, rq, spc, node, accepted, sent>>
      BY <2>0, <2>11 DEF PopView, Stop
    <3>2. InFlight' = InFlight
      BY <3>1 DEF InFlight, Unread
    <3>3. Channel!StartClosing
      BY <3>1, <3>2 DEF Channel!StartClosing
    <3> QED
      BY <3>3 DEF Channel!Next
  <2>12. CASE DrainLoad \/ Exit
    BY <2>12, FlightStutter DEF DrainLoad, Exit
  <2>13. CASE DrainAdvance
    BY <2>13, DrainStep
  <2>14. CASE CloseSignal
    BY <2>14, FlightStutter DEF CloseSignal, AfterSignal
  <2>15. CASE Terminated \/ UNCHANGED vars
    BY <2>15, FlightStutter DEF Terminated, vars
  <2> QED
    BY <2>1, <2>2, <2>3, <2>4, <2>5, <2>6, <2>7, <2>8, <2>9, <2>10, <2>11, <2>12,
       <2>13, <2>14, <2>15
       DEF Next, Producer, Sender, Check, Close
<1> QED
  BY <1>1, <1>2, FifoCorrect, PTL DEF Spec, ImplementsChannel, Channel!Spec

-----------------------------------------------------------------------------
(* The commands under way *)

(* What is left of a sequence without its i-th element. *)
LEMMA RemoveAtProperties ==
  ASSUME NEW S, NEW s \in Seq(S), NEW i \in 1 .. Len(s)
  PROVE  /\ RemoveAt(s, i) \in Seq(S)
         /\ Len(RemoveAt(s, i)) = Len(s) - 1
         /\ \A k \in 1 .. Len(s) - 1 :
                RemoveAt(s, i)[k] = IF k < i THEN s[k] ELSE s[k + 1]
<1> DEFINE front == SubSeq(s, 1, i - 1)
           back == SubSeq(s, i + 1, Len(s))
<1>1. Len(s) \in Nat /\ \A k \in 1 .. Len(s) : s[k] \in S
  BY LenProperties, ElementOfSeq
<1>2. /\ front \in Seq(S) /\ Len(front) = i - 1
      /\ \A k \in 1 .. i - 1 : front[k] = s[k]
  <2>1. 1 \in Int /\ i - 1 \in Int /\ \A k \in 1 .. i - 1 : s[k] \in S
    BY <1>1
  <2>2. /\ front \in Seq(S)
        /\ Len(front) = IF 1 <= i - 1 THEN (i - 1) - 1 + 1 ELSE 0
        /\ \A k \in 1 .. (i - 1) - 1 + 1 : front[k] = s[1 + k - 1]
    BY <2>1, SubSeqProperties
  <2> QED
    BY <1>1, <2>2
<1>3. /\ back \in Seq(S) /\ Len(back) = Len(s) - i
      /\ \A k \in 1 .. Len(s) - i : back[k] = s[i + k]
  <2>1. i + 1 \in Int /\ Len(s) \in Int /\ \A k \in i + 1 .. Len(s) : s[k] \in S
    BY <1>1
  <2>2. /\ back \in Seq(S)
        /\ Len(back) = IF i + 1 <= Len(s) THEN Len(s) - (i + 1) + 1 ELSE 0
        /\ \A k \in 1 .. Len(s) - (i + 1) + 1 : back[k] = s[(i + 1) + k - 1]
    BY <2>1, SubSeqProperties
  <2> QED
    BY <1>1, <2>2
<1>4. RemoveAt(s, i) = front \o back
  BY DEF RemoveAt
<1> HIDE DEF front, back
<1>5. /\ front \o back \in Seq(S) /\ Len(front \o back) = Len(front) + Len(back)
      /\ \A k \in 1 .. Len(front) + Len(back) : (front \o back)[k] =
             IF k <= Len(front) THEN front[k] ELSE back[k - Len(front)]
  BY <1>2, <1>3, ConcatProperties
<1>6. Len(front) + Len(back) = Len(s) - 1
  BY <1>1, <1>2, <1>3
<1>7. ASSUME NEW k \in 1 .. Len(s) - 1
      PROVE  (front \o back)[k] = IF k < i THEN s[k] ELSE s[k + 1]
  <2>1. CASE k < i
    BY <1>1, <1>2, <1>5, <1>6, <2>1
  <2>2. CASE ~(k < i)
    <3>1. /\ k - (i - 1) \in 1 .. Len(s) - i /\ i + (k - (i - 1)) = k + 1
          /\ k \in 1 .. Len(front) + Len(back) /\ ~(k <= Len(front))
          /\ k - Len(front) = k - (i - 1)
      BY <1>1, <1>2, <1>6, <2>2
    <3> QED
      BY <1>3, <1>5, <2>2, <3>1
  <2> QED
    BY <2>1, <2>2
<1> QED
  BY <1>4, <1>5, <1>6, <1>7

-----------------------------------------------------------------------------
(* What is known of a listed entry. *)
LEMMA ListedNode ==
  ASSUME InflightTypeOK, ListTracksPending, NEW i \in DOMAIN list
  PROVE  /\ list[i] \in Nodes /\ list[i].cmd \in Commands
         /\ list[i].retried \in 1 .. 2
         /\ st[list[i].cmd] = "pending" /\ sends[list[i].cmd] = list[i].retried
<1>1. list \in Seq(Nodes) /\ i \in 1 .. Len(list)
  BY LenProperties DEF InflightTypeOK
<1>2. list[i] \in Nodes
  BY <1>1, ElementOfSeq
<1> QED
  BY <1>2 DEF ListTracksPending, Nodes

(* The three ways a step treats the list. *)

(* A new command goes behind the listed ones. *)
LEMMA AppendTracks ==
  ASSUME InflightTypeOK, ListTracksPending, NEW c \in Commands, st[c] = "unsent",
         st' = [st EXCEPT ![c] = "pending"], sends' = [sends EXCEPT ![c] = 1],
         list' = Append(list, [cmd |-> c, retried |-> 1, elapsed |-> FALSE])
  PROVE  list' \in Seq(Nodes) /\ ListTracksPending'
<1> DEFINE entry == [cmd |-> c, retried |-> 1, elapsed |-> FALSE]
<1>1. entry \in Nodes /\ list \in Seq(Nodes)
  BY DEF InflightTypeOK, Nodes
<1>2. entry.cmd = c /\ entry.retried = 1 /\ list' = Append(list, entry)
  OBVIOUS
<1> HIDE DEF entry
<1>3. /\ list' \in Seq(Nodes) /\ DOMAIN list = 1 .. Len(list) /\ Len(list) \in Nat
      /\ DOMAIN list' = 1 .. Len(list) + 1
      /\ \A i \in 1 .. Len(list) : list'[i] = list[i]
      /\ list'[Len(list) + 1] = entry
  BY <1>1, <1>2, AppendProperties, LenProperties
<1>4. \A i \in DOMAIN list : list[i].cmd # c /\ list[i].cmd \in Commands
  BY ListedNode
<1>5. st'[c] = "pending" /\ sends'[c] = 1
      /\ \A d \in Commands \ {c} : st'[d] = st[d] /\ sends'[d] = sends[d]
  BY DEF InflightTypeOK
<1>6. \A i, j \in DOMAIN list' : list'[i].cmd = list'[j].cmd => i = j
  BY <1>2, <1>3, <1>4 DEF ListTracksPending
<1>7. \A i \in DOMAIN list' :
          st'[list'[i].cmd] = "pending" /\ sends'[list'[i].cmd] = list'[i].retried
  BY <1>2, <1>3, <1>4, <1>5 DEF ListTracksPending
<1>8. \A d \in Commands : st'[d] = "pending" => \E i \in DOMAIN list' : list'[i].cmd = d
  <2> SUFFICES ASSUME NEW d \in Commands, st'[d] = "pending"
               PROVE  \E i \in DOMAIN list' : list'[i].cmd = d
    OBVIOUS
  <2>1. CASE d = c
    <3>1. Len(list) + 1 \in DOMAIN list'
      BY <1>3
    <3> QED
      BY <1>2, <1>3, <2>1, <3>1
  <2>2. CASE d # c
    <3>1. PICK i \in DOMAIN list : list[i].cmd = d
      BY <1>5, <2>2 DEF ListTracksPending
    <3> QED
      BY <1>3, <3>1
  <2> QED
    BY <2>1, <2>2
<1> QED
  BY <1>3, <1>6, <1>7, <1>8 DEF ListTracksPending

(* An entry changes in place. *)
LEMMA UpdateTracks ==
  ASSUME InflightTypeOK, ListTracksPending, NEW i \in DOMAIN list, NEW entry \in Nodes,
         entry.cmd = list[i].cmd, st' = st,
         list' = [list EXCEPT ![i] = entry],
         sends' = [sends EXCEPT ![list[i].cmd] = entry.retried]
  PROVE  list' \in Seq(Nodes) /\ ListTracksPending'
<1>1. list \in Seq(Nodes) /\ i \in 1 .. Len(list) /\ DOMAIN list = 1 .. Len(list)
  BY LenProperties DEF InflightTypeOK
<1>2. /\ list' \in Seq(Nodes) /\ DOMAIN list' = DOMAIN list
      /\ \A j \in DOMAIN list : list'[j] = IF j = i THEN entry ELSE list[j]
  BY <1>1, ExceptSeq, LenProperties
<1>3. \A j \in DOMAIN list : list'[j].cmd = list[j].cmd /\ list[j].cmd \in Commands
  BY <1>2, ListedNode
<1>4. \A j \in DOMAIN list : sends'[list[j].cmd] = list'[j].retried
  BY <1>1, <1>2, <1>3 DEF ListTracksPending, InflightTypeOK
<1> QED
  BY <1>2, <1>3, <1>4 DEF ListTracksPending

(* The other nodes stay, in distinct places. *)
LEMMA OthersStay ==
  ASSUME InflightTypeOK, NEW i \in DOMAIN list, list' = RemoveAt(list, i)
  PROVE  /\ \A k \in DOMAIN list' : \E j \in DOMAIN list \ {i} : list'[k] = list[j]
         /\ \A j \in DOMAIN list \ {i} : \E k \in DOMAIN list' : list'[k] = list[j]
         /\ \A k, m \in DOMAIN list' : k # m =>
                \E j, l \in DOMAIN list \ {i} :
                    j # l /\ list'[k] = list[j] /\ list'[m] = list[l]
<1> DEFINE from(k) == IF k < i THEN k ELSE k + 1
<1>1. /\ list \in Seq(Nodes) /\ Len(list) \in Nat /\ DOMAIN list = 1 .. Len(list)
      /\ i \in 1 .. Len(list)
  BY LenProperties DEF InflightTypeOK
<1>2. /\ DOMAIN list' = 1 .. Len(list) - 1
      /\ \A k \in 1 .. Len(list) - 1 : list'[k] = list[from(k)]
  <2>1. /\ list' \in Seq(Nodes) /\ Len(list') = Len(list) - 1
        /\ \A k \in 1 .. Len(list) - 1 : list'[k] = IF k < i THEN list[k] ELSE list[k + 1]
    BY <1>1, RemoveAtProperties
  <2> QED
    BY <1>1, <2>1, LenProperties
<1>3. \A k \in 1 .. Len(list) - 1 : from(k) \in DOMAIN list \ {i}
  BY <1>1
<1>4. \A k, m \in 1 .. Len(list) - 1 : k # m => from(k) # from(m)
  BY <1>1
<1>5. ASSUME NEW j \in DOMAIN list \ {i}
      PROVE  \E k \in 1 .. Len(list) - 1 : from(k) = j
  <2>1. CASE j < i
    BY <1>1, <2>1
  <2>2. CASE j > i
    <3>1. j - 1 \in 1 .. Len(list) - 1 /\ from(j - 1) = j
      BY <1>1, <2>2
    <3> QED
      BY <3>1
  <2> QED
    BY <1>1, <2>1, <2>2
<1> HIDE DEF from
<1>6. /\ \A k \in DOMAIN list' : \E j \in DOMAIN list \ {i} : list'[k] = list[j]
      /\ \A j \in DOMAIN list \ {i} : \E k \in DOMAIN list' : list'[k] = list[j]
  BY <1>2, <1>3, <1>5
<1>7. \A k, m \in DOMAIN list' : k # m =>
          \E j, l \in DOMAIN list \ {i} : j # l /\ list'[k] = list[j] /\ list'[m] = list[l]
  BY <1>2, <1>3, <1>4
<1> QED
  BY <1>6, <1>7

(* A command ends and its entry is freed. *)
LEMMA RemoveTracks ==
  ASSUME InflightTypeOK, ListTracksPending, NEW i \in DOMAIN list, NEW end,
         end \in {"answered", "expired"},
         st' = [st EXCEPT ![list[i].cmd] = end],
         list' = RemoveAt(list, i), sends' = sends
  PROVE  list' \in Seq(Nodes) /\ ListTracksPending'
<1>1. list \in Seq(Nodes) /\ i \in 1 .. Len(list) /\ DOMAIN list = 1 .. Len(list)
  BY LenProperties DEF InflightTypeOK
<1>2. list' \in Seq(Nodes)
  BY <1>1, RemoveAtProperties
<1>3. \A j \in DOMAIN list : list[j].cmd \in Commands
  BY ListedNode
<1>4. \A j \in DOMAIN list \ {i} : list[j].cmd # list[i].cmd
  BY DEF ListTracksPending
<1>5. /\ st'[list[i].cmd] = end
      /\ \A d \in Commands : d # list[i].cmd => st'[d] = st[d]
  BY <1>3 DEF InflightTypeOK
<1>6. /\ \A k \in DOMAIN list' : \E j \in DOMAIN list \ {i} : list'[k] = list[j]
      /\ \A j \in DOMAIN list \ {i} : \E k \in DOMAIN list' : list'[k] = list[j]
      /\ \A k, m \in DOMAIN list' : k # m =>
             \E j, l \in DOMAIN list \ {i} :
                 j # l /\ list'[k] = list[j] /\ list'[m] = list[l]
  BY OthersStay
<1>7. ASSUME NEW k \in DOMAIN list', NEW m \in DOMAIN list', k # m
      PROVE  list'[k].cmd # list'[m].cmd
  BY <1>6, <1>7 DEF ListTracksPending
<1>8. \A k \in DOMAIN list' :
          st'[list'[k].cmd] = "pending" /\ sends'[list'[k].cmd] = list'[k].retried
  BY <1>3, <1>4, <1>5, <1>6 DEF ListTracksPending
<1>9. \A d \in Commands : st'[d] = "pending" => \E k \in DOMAIN list' : list'[k].cmd = d
  <2> SUFFICES ASSUME NEW d \in Commands, st'[d] = "pending"
               PROVE  \E k \in DOMAIN list' : list'[k].cmd = d
    OBVIOUS
  <2>1. d # list[i].cmd /\ st[d] = "pending"
    BY <1>5
  <2>2. PICK j \in DOMAIN list : list[j].cmd = d
    BY <2>1 DEF ListTracksPending
  <2> QED
    BY <1>6, <2>1, <2>2
<1> QED
  BY <1>2, <1>7, <1>8, <1>9 DEF ListTracksPending

-----------------------------------------------------------------------------
(* Steps that send, list and end nothing keep what is said of commands. *)
LEMMA CommandsStutter ==
  ASSUME ListTracksPending, AnswersAreDue, KeysApart, AnswerIsOwn,
         UNCHANGED <<list, net, ghosts>>
  PROVE  ListTracksPending' /\ AnswersAreDue' /\ KeysApart' /\ AnswerIsOwn'
  BY DEF ListTracksPending, AnswersAreDue, KeysApart, Live, AnswerIsOwn, ghosts

(* A command handed to the send thread is listed, forgotten or dropped. *)
LEMMA TransmissionKeeps ==
  ASSUME TrackingInv, AnswerIsOwn, NEW c \in Commands,
         TransmitCommand(c) \/ TransmitReply(c) \/ TransmitFails(c)
  PROVE  TrackingInv' /\ AnswerIsOwn'
<1> USE DEF TrackingInv, waitVars, epollVars
<1>1. /\ st[c] = "unsent" /\ sends[c] = 0 /\ net[c] = 0 /\ tpc = "ready"
      /\ UNCHANGED <<over, emr, idle, epc, acmpErr, by>>
  BY DEF TransmitCommand, TransmitReply, TransmitFails, Handed, AnswersAreDue,
         InflightTypeOK
<1>2. /\ tpc' \in {"ready", "activate"} /\ cur' \in MaybeCommand
      /\ tpc' # "ready" => tpc' = "activate" /\ cur' = <<c>> /\ Conference(c)
  BY <1>1 DEF TransmitCommand, TransmitReply, TransmitFails, AfterTransmit,
              InflightTypeOK, MaybeCommand
<1>3. /\ list' \in Seq(Nodes) /\ ListTracksPending' /\ sends' \in [Commands -> 0 .. 2]
      /\ st' \in [Commands -> Outcomes] /\ st'[c] \in {"pending", "untracked", "dropped"}
      /\ \A d \in Commands : d # c => st'[d] = st[d]
  <2>1. CASE TransmitCommand(c)
    <3>1. /\ st' = [st EXCEPT ![c] = "pending"] /\ sends' = [sends EXCEPT ![c] = 1]
          /\ list' = Append(list, [cmd |-> c, retried |-> 1, elapsed |-> FALSE])
      BY <1>1, <2>1 DEF TransmitCommand, GoesOut, InflightTypeOK
    <3>2. list' \in Seq(Nodes) /\ ListTracksPending'
      BY <1>1, <3>1, AppendTracks
    <3> QED
      BY <3>1, <3>2 DEF InflightTypeOK, Outcomes
  <2>2. CASE TransmitReply(c) \/ TransmitFails(c)
    <3>1. /\ list' = list
          /\ \/ st' = [st EXCEPT ![c] = "untracked"] /\ sends' = [sends EXCEPT ![c] = 1]
             \/ st' = [st EXCEPT ![c] = "dropped"] /\ sends' = sends
      BY <1>1, <2>2 DEF TransmitReply, TransmitFails, InflightTypeOK
    <3>2. \A i \in DOMAIN list : list[i].cmd # c /\ list[i].cmd \in Commands
      BY <1>1, ListedNode
    <3>3. ListTracksPending'
      BY <3>1, <3>2 DEF InflightTypeOK, ListTracksPending
    <3> QED
      BY <3>1, <3>3 DEF InflightTypeOK, Outcomes
  <2> QED
    BY <2>1, <2>2
<1>4. AnswersAreDue' /\ net' \in [Commands -> 0 .. 2]
      /\ \A d \in Commands : d # c => net'[d] = net[d] /\ sends'[d] = sends[d]
  <2>1. \/ st'[c] = "pending" /\ sends' = [sends EXCEPT ![c] = 1]
           /\ (net' = net \/ net' = [net EXCEPT ![c] = 1])
        \/ st'[c] = "untracked" /\ sends' = [sends EXCEPT ![c] = 1] /\ net' = net
        \/ st'[c] = "dropped" /\ sends' = sends /\ net' = net
    BY <1>1 DEF TransmitCommand, TransmitReply, TransmitFails, GoesOut, InflightTypeOK
  <2>2. net' \in [Commands -> 0 .. 2] /\ net'[c] <= sends'[c]
        /\ (st'[c] = "dropped" => sends'[c] = 0)
    BY <1>1, <2>1 DEF InflightTypeOK
  <2>3. \A d \in Commands : d # c => net'[d] = net[d] /\ sends'[d] = sends[d]
    BY <2>1 DEF InflightTypeOK
  <2>4. AnswersAreDue'
    BY <1>3, <2>2, <2>3 DEF AnswersAreDue
  <2> QED
    BY <2>2, <2>3, <2>4
<1>5. InflightTypeOK'
  BY <1>1, <1>2, <1>3, <1>4 DEF InflightTypeOK, SendSteps, TransmitCommand,
                                TransmitReply, TransmitFails
<1>6. WaitAgrees'
  <2>1. emr' = "idle" /\ tpc' \in {"ready", "activate"}
    BY <1>1, <1>2 DEF WaitAgrees
  <2>2. st'[c] # "unsent" /\ <<c>> # <<>> /\ <<c>>[1] = c
    BY <1>3
  <2>3. tpc' # "ready" => cur' # <<>> /\ cur'[1] = c /\ st'[c] # "unsent" /\ Conference(c)
    BY <1>2, <2>2
  <2> QED
    BY <2>1, <2>3 DEF WaitAgrees
<1>7. KeysApart'
  <2>1. CASE TransmitCommand(c)
    <3> SUFFICES ASSUME ~clash', NEW d \in Commands, NEW e \in Commands,
                        Live(d)', Live(e)', Key[d] = Key[e], d # e
                 PROVE  FALSE
      BY DEF KeysApart
    <3>1. ~clash /\ \A x \in Commands : Live(x) => Key[x] # Key[c]
      BY <2>1 DEF TransmitCommand, InflightTypeOK
    <3>2. \A x \in Commands : x # c /\ Live(x)' => Live(x)
      BY <1>3, <1>4 DEF Live
    <3> QED
      BY <3>1, <3>2 DEF KeysApart
  <2>2. CASE TransmitReply(c) \/ TransmitFails(c)
    <3>1. clash' = clash /\ net' = net
      BY <2>2 DEF TransmitReply, TransmitFails
    <3>2. st'[c] # "pending"
      BY <2>2 DEF TransmitReply, TransmitFails, InflightTypeOK
    <3>3. \A x \in Commands : Live(x)' => Live(x)
      BY <1>3, <3>1, <3>2 DEF Live
    <3> QED
      BY <3>1, <3>3 DEF KeysApart
  <2> QED
    BY <2>1, <2>2
<1>8. AnswerIsOwn'
  BY <1>1, <1>3 DEF AnswerIsOwn, InflightTypeOK, TransmitCommand, TransmitReply,
                    TransmitFails
<1> QED
  BY <1>3, <1>4, <1>5, <1>6, <1>7, <1>8

(* The send thread's wait and the epoll thread's releases: wait_msg is     *)
(* moved by the send thread alone.                                         *)
LEMMA WaitKeeps ==
  ASSUME TrackingInv, AnswerIsOwn, Wait \/ IntervalOver \/ Release
         \/ \E ok \in BOOLEAN : ReceiveOther(ok)
  PROVE  TrackingInv' /\ AnswerIsOwn'
<1> USE DEF TrackingInv, waitVars, epollVars, sendVars
<1>1. UNCHANGED <<list, net, ghosts>>
  BY DEF Wait, Activate, Arm, LeaveWait, SetIdle, IntervalOver, Release, TimeoutTest,
         TimeoutRelease, AckTest, AckStatus, AckRelease, ReceiveOther
<1>2. /\ list' = list /\ net' = net /\ st' = st /\ sends' = sends /\ by' = by
      /\ clash' = clash
  BY <1>1 DEF ghosts
<1>3. CASE Activate \/ Arm \/ LeaveWait \/ SetIdle
  <2>1. InflightTypeOK'
    BY <1>2, <1>3 DEF Activate, Arm, LeaveWait, SetIdle, InflightTypeOK, SendSteps,
                      EpollSteps,
                      MaybeCommand
  <2>2. WaitAgrees'
    BY <1>2, <1>3 DEF Activate, Arm, LeaveWait, SetIdle, WaitAgrees, InflightTypeOK
  <2> QED
    BY <1>1, <2>1, <2>2, CommandsStutter
<1>4. CASE IntervalOver \/ Release \/ \E ok \in BOOLEAN : ReceiveOther(ok)
  <2>1. InflightTypeOK'
    BY <1>2, <1>4 DEF IntervalOver, Release, TimeoutTest, TimeoutRelease, AckTest,
         AckStatus, AckRelease, ReceiveOther, AfterReceive, InflightTypeOK, EpollSteps
  <2>2. UNCHANGED <<tpc, cur, emr>>
    BY <1>4 DEF IntervalOver, Release, TimeoutTest, TimeoutRelease, AckTest, AckStatus,
         AckRelease, ReceiveOther
  <2>3. WaitAgrees'
    BY <1>2, <2>2 DEF WaitAgrees
  <2> QED
    BY <1>1, <2>1, <2>3, CommandsStutter
<1> QED
  BY <1>3, <1>4 DEF Wait

(* A timer elapses; the epoll thread sends the command once more. *)
LEMMA ResendKeeps ==
  ASSUME TrackingInv, AnswerIsOwn,
         (\E c \in Commands : Elapse(c)) \/ (\E i \in DOMAIN list : Resend(i))
  PROVE  TrackingInv' /\ AnswerIsOwn'
<1> USE DEF TrackingInv, waitVars, epollVars, sendVars, ghosts
<1>1. ASSUME NEW c \in Commands, Elapse(c) PROVE TrackingInv' /\ AnswerIsOwn'
  <2>1. PICK i \in DOMAIN list : list' = [list EXCEPT ![i].elapsed = TRUE]
    BY <1>1 DEF Elapse
  <2> DEFINE entry == [list[i] EXCEPT !.elapsed = TRUE]
  <2>2. /\ list[i] \in Nodes /\ sends[list[i].cmd] = list[i].retried
        /\ list[i].cmd \in Commands
    BY ListedNode
  <2>3. entry \in Nodes /\ entry.cmd = list[i].cmd /\ entry.retried = list[i].retried
    BY <2>2 DEF Nodes
  <2>4. UNCHANGED <<tpc, cur, over, emr, idle, epc, acmpErr, net, st, sends, by, clash>>
    BY <1>1 DEF Elapse
  <2>5. list' = [list EXCEPT ![i] = entry]
    BY <2>1
  <2>6. sends' = [sends EXCEPT ![list[i].cmd] = entry.retried]
    BY <2>2, <2>3, <2>4 DEF InflightTypeOK
  <2> HIDE DEF entry
  <2>7. list' \in Seq(Nodes) /\ ListTracksPending'
    BY <2>3, <2>4, <2>5, <2>6, UpdateTracks
  <2> QED
    BY <2>4, <2>7 DEF InflightTypeOK, WaitAgrees, AnswersAreDue, KeysApart, Live,
                      AnswerIsOwn
<1>2. ASSUME NEW i \in DOMAIN list, Resend(i) PROVE TrackingInv' /\ AnswerIsOwn'
  <2> DEFINE entry == SentAgain(list[i])
  <2>1. /\ list[i] \in Nodes /\ sends[list[i].cmd] = list[i].retried
        /\ list[i].cmd \in Commands /\ st[list[i].cmd] = "pending"
        /\ list[i].retried \in 1 .. 2
    BY ListedNode
  <2>2. list[i].retried = 1
    BY <1>2, <2>1 DEF Resend, IsRetried
  <2>3. entry \in Nodes /\ entry.cmd = list[i].cmd /\ entry.retried = 2
    BY <2>1, <2>2 DEF Nodes, SentAgain
  <2>4. list' = [list EXCEPT ![i] = entry]
    BY <1>2 DEF Resend
  <2> HIDE DEF entry
  <2>5. UNCHANGED <<tpc, cur, over, emr, idle, epc, acmpErr, st, by, clash>>
    BY <1>2 DEF Resend
  <2>6. sends' = [sends EXCEPT ![list[i].cmd] = 2]
    BY <1>2, <2>1, <2>2 DEF Resend, GoesOut, InflightTypeOK
  <2>7. list' \in Seq(Nodes) /\ ListTracksPending'
    BY <2>3, <2>4, <2>5, <2>6, UpdateTracks
  <2>8. /\ net' \in [Commands -> 0 .. 2] /\ sends' \in [Commands -> 0 .. 2]
        /\ AnswersAreDue'
    <3>1. sends' \in [Commands -> 0 .. 2] /\ sends[list[i].cmd] = 1
      BY <2>1, <2>2, <2>6 DEF InflightTypeOK
    <3>2. net' \in [Commands -> 0 .. 2]
      BY <1>2, <2>1, <2>2 DEF Resend, GoesOut, InflightTypeOK, AnswersAreDue
    <3>3. AnswersAreDue'
      BY <1>2, <2>1, <2>2, <2>5, <2>6, <3>1, <3>2
         DEF Resend, GoesOut, InflightTypeOK, AnswersAreDue
    <3> QED
      BY <3>1, <3>2, <3>3
  <2>9. InflightTypeOK' /\ WaitAgrees'
    BY <2>5, <2>7, <2>8 DEF InflightTypeOK, WaitAgrees
  <2>10. \A c \in Commands : Live(c)' => Live(c)
    BY <1>2, <2>1, <2>5 DEF Resend, GoesOut, Live, InflightTypeOK
  <2>11. KeysApart' /\ AnswerIsOwn'
    BY <2>5, <2>10 DEF KeysApart, AnswerIsOwn
  <2> QED
    BY <2>7, <2>8, <2>9, <2>11
<1> QED
  BY <1>1, <1>2

(* The second time its timer elapses the command is given up. *)
LEMMA ExpireKeeps ==
  ASSUME TrackingInv, AnswerIsOwn, NEW i \in DOMAIN list, Expire(i)
  PROVE  TrackingInv' /\ AnswerIsOwn'
<1> USE DEF TrackingInv, waitVars, epollVars, sendVars
<1>1. /\ UNCHANGED <<tpc, cur, over, emr, idle, acmpErr, net, sends, by, clash>>
      /\ st' = [st EXCEPT ![list[i].cmd] = "expired"] /\ list' = RemoveAt(list, i)
      /\ epc' \in {"poll", "timeoutTest"}
  BY DEF Expire
<1>2. list[i].cmd \in Commands /\ st[list[i].cmd] = "pending"
  BY ListedNode
<1>3. list' \in Seq(Nodes) /\ ListTracksPending'
  BY <1>1, RemoveTracks
<1>4. InflightTypeOK' /\ WaitAgrees' /\ AnswersAreDue'
  BY <1>1, <1>2, <1>3 DEF InflightTypeOK, EpollSteps, Outcomes, WaitAgrees,
                          AnswersAreDue
<1>5. \A c \in Commands : Live(c)' => Live(c)
  BY <1>1, <1>2 DEF Live, InflightTypeOK
<1>6. KeysApart' /\ AnswerIsOwn'
  BY <1>1, <1>2, <1>5 DEF KeysApart, AnswerIsOwn, InflightTypeOK
<1> QED
  BY <1>3, <1>4, <1>6

(* An answer ends the first listed command with its key, or none. *)
LEMMA AnswerKeeps ==
  ASSUME TrackingInv, AnswerIsOwn, NEW c \in Commands, TakeAnswer(c),
         UNCHANGED <<tpc, cur, over, emr, idle, sends, clash>>,
         epc' \in EpollSteps, acmpErr' \in BOOLEAN
  PROVE  TrackingInv' /\ AnswerIsOwn'
<1> USE DEF TrackingInv
<1>1. /\ net[c] > 0 /\ net' = [net EXCEPT ![c] = @ - 1]
      /\ net' \in [Commands -> 0 .. 2] /\ \A d \in Commands : net'[d] <= net[d]
  BY DEF TakeAnswer, InflightTypeOK
<1>2. CASE NoMatch(c) /\ UNCHANGED <<st, by, list>>
  <2>1. \A d \in Commands : Live(d)' => Live(d)
    BY <1>1, <1>2 DEF Live, InflightTypeOK
  <2>2. InflightTypeOK' /\ WaitAgrees' /\ ListTracksPending'
    BY <1>1, <1>2 DEF InflightTypeOK, WaitAgrees, ListTracksPending
  <2>3. AnswersAreDue'
    BY <1>1, <1>2 DEF AnswersAreDue, InflightTypeOK
  <2> QED
    BY <1>2, <2>1, <2>2, <2>3 DEF KeysApart, AnswerIsOwn
<1>3. ASSUME NEW i \in DOMAIN list, Matches(c, i), EndedBy(c, i)
      PROVE  TrackingInv' /\ AnswerIsOwn'
  <2>1. /\ list[i].cmd \in Commands /\ st[list[i].cmd] = "pending"
        /\ Key[list[i].cmd] = Key[c]
    BY <1>3, ListedNode DEF Matches
  <2>2. /\ st' = [st EXCEPT ![list[i].cmd] = "answered"]
        /\ by' = [by EXCEPT ![list[i].cmd] = <<c>>] /\ list' = RemoveAt(list, i)
    BY <1>3 DEF EndedBy
  <2>3. list' \in Seq(Nodes) /\ ListTracksPending'
    BY <2>2, RemoveTracks
  <2>4. InflightTypeOK' /\ WaitAgrees'
    BY <1>1, <2>1, <2>2, <2>3 DEF InflightTypeOK, Outcomes, MaybeCommand, WaitAgrees
  <2>5. AnswersAreDue'
    BY <1>1, <2>1, <2>2 DEF AnswersAreDue, InflightTypeOK
  <2>6. \A d \in Commands : Live(d)' => Live(d)
    BY <1>1, <2>1, <2>2 DEF Live, InflightTypeOK
  <2>7. ~clash => list[i].cmd = c
    BY <1>1, <2>1 DEF KeysApart, Live
  <2> QED
    BY <2>1, <2>2, <2>3, <2>4, <2>5, <2>6, <2>7 DEF KeysApart, AnswerIsOwn,
                                                    InflightTypeOK
<1> QED
  BY <1>2, <1>3 DEF TakeAnswer

(* Whatever the three threads do, in whatever order, the list holds each   *)
(* command in flight once, with the number of times it went out, the wait  *)
(* of the send thread agrees with wait_msg, and an answer ends no other    *)
(* command than its own while no key is used again too early.              *)
LEMMA TrackingStep ==
  ASSUME TrackingInv, AnswerIsOwn, [InflightNext]_inflightVars
  PROVE  TrackingInv' /\ AnswerIsOwn'
<1>1. CASE Transmission
  BY <1>1, TransmissionKeeps DEF Transmission
<1>2. CASE Wait \/ IntervalOver \/ Release
  BY <1>2, WaitKeeps
<1>3. ASSUME NEW c \in Commands, Elapse(c) PROVE TrackingInv' /\ AnswerIsOwn'
  BY <1>3, ResendKeeps
<1>4. ASSUME NEW c \in Commands, ReceiveElsewhere(c) PROVE TrackingInv' /\ AnswerIsOwn'
  <2>1. InflightTypeOK /\ epc' = epc /\ acmpErr' = acmpErr /\ TakeAnswer(c)
        /\ UNCHANGED <<tpc, cur, over, emr, idle, sends, clash>>
    BY <1>4 DEF ReceiveElsewhere, sendVars, waitVars, epollVars, TrackingInv
  <2> QED
    BY <2>1, AnswerKeeps DEF InflightTypeOK
<1>5. CASE Tick
  BY <1>5, ResendKeeps, ExpireKeeps DEF Tick
<1>6. CASE Receive
  <2>1. ASSUME NEW ok \in BOOLEAN, ReceiveOther(ok) PROVE TrackingInv' /\ AnswerIsOwn'
    BY <2>1, WaitKeeps
  <2>2. ASSUME NEW ok \in BOOLEAN, NEW c \in Commands, ReceiveAnswer(c, ok)
        PROVE  TrackingInv' /\ AnswerIsOwn'
    <3>1. UNCHANGED <<tpc, cur, over, emr, idle, sends, clash>> /\ TakeAnswer(c)
      BY <2>2 DEF ReceiveAnswer, sendVars, waitVars
    <3>2. epc' \in EpollSteps /\ acmpErr' \in BOOLEAN
      BY <2>2 DEF ReceiveAnswer, AfterReceive, EpollSteps
    <3> QED
      BY <3>1, <3>2, AnswerKeeps
  <2> QED
    BY <1>6, <2>1, <2>2 DEF Receive
<1>7. CASE Aborted \/ UNCHANGED inflightVars
  <2>1. UNCHANGED <<tpc, cur, over, emr, idle, list, epc, acmpErr, net, st, sends,
                    by, clash>>
    BY <1>7 DEF Aborted, inflightVars, sendVars, waitVars, epollVars, ghosts
  <2> QED
    BY <2>1 DEF TrackingInv, InflightTypeOK, WaitAgrees, ListTracksPending,
                AnswersAreDue,
       KeysApart, Live, AnswerIsOwn
<1> QED
  BY <1>1, <1>2, <1>3, <1>4, <1>5, <1>6, <1>7 DEF InflightNext

LEMMA TrackingInit ==
  ASSUME InflightInit
  PROVE  TrackingInv /\ AnswerIsOwn
<1>1. list \in Seq(Nodes) /\ DOMAIN list = {}
  BY EmptySeq, LenProperties DEF InflightInit
<1>2. InflightTypeOK
  <2>1. by \in [Commands -> MaybeCommand] /\ cur \in MaybeCommand
    BY DEF InflightInit, MaybeCommand
  <2>2. st \in [Commands -> Outcomes] /\ sends \in [Commands -> 0 .. 2]
        /\ net \in [Commands -> 0 .. 2]
    BY DEF InflightInit, Outcomes
  <2>3. /\ tpc \in SendSteps /\ over \in BOOLEAN /\ emr \in {"idle", "active"}
        /\ idle \in BOOLEAN /\ epc \in EpollSteps /\ acmpErr \in BOOLEAN
        /\ clash \in BOOLEAN
    BY DEF InflightInit, SendSteps, EpollSteps
  <2> QED
    BY <1>1, <2>1, <2>2, <2>3 DEF InflightTypeOK
<1>3. ListTracksPending /\ WaitAgrees /\ AnswersAreDue
  BY <1>1 DEF InflightInit, ListTracksPending, WaitAgrees, AnswersAreDue
<1>4. KeysApart /\ AnswerIsOwn
  BY DEF InflightInit, KeysApart, Live, AnswerIsOwn
<1> QED
  BY <1>2, <1>3, <1>4 DEF TrackingInv

(* The list holds exactly the commands in flight, each once, with the      *)
(* number of times it went out, and the asserts of thread_send_func hold.  *)
THEOREM TrackingCorrect == InflightSpec => []TrackingInv
  BY TrackingInit, TrackingStep, PTL DEF InflightSpec

(* While no key is used again before its answers are in, a command is      *)
(* ended by an answer to itself.                                           *)
THEOREM AnswerCorrect == InflightSpec => []AnswerIsOwn
  BY TrackingInit, TrackingStep, PTL DEF InflightSpec

-----------------------------------------------------------------------------
(* Each step is a step of the life of one command, or of none. *)
LEMMA LifecycleStep ==
  ASSUME TrackingInv, [InflightNext]_inflightVars
  PROVE  [Lifecycle!Next]_(Lifecycle!vars)
<1> USE DEF Lifecycle!Next, Lifecycle!vars
<1>1. ASSUME NEW c \in Commands,
             TransmitCommand(c) \/ TransmitReply(c) \/ TransmitFails(c)
      PROVE  Lifecycle!Send(c)
  BY <1>1 DEF TransmitCommand, TransmitReply, TransmitFails, Handed, GoesOut,
              AnswersAreDue,
       InflightTypeOK, TrackingInv, Lifecycle!Send
<1>2. ASSUME NEW c \in Commands, TakeAnswer(c), UNCHANGED sends
      PROVE  UNCHANGED <<st, sends>> \/ \E d \in Commands : Lifecycle!Answer(d)
  <2>1. ASSUME NEW i \in DOMAIN list, EndedBy(c, i) PROVE Lifecycle!Answer(list[i].cmd)
    BY <1>2, <2>1, ListedNode DEF EndedBy, TrackingInv, Lifecycle!Answer
  <2> QED
    BY <1>2, <2>1, ListedNode DEF TakeAnswer, TrackingInv
<1>3. ASSUME NEW i \in DOMAIN list, Resend(i) PROVE Lifecycle!Resend(list[i].cmd)
  <2>1. /\ list[i].retried \in 1 .. 2 /\ list[i].cmd \in Commands
        /\ st[list[i].cmd] = "pending" /\ sends[list[i].cmd] = list[i].retried
    BY ListedNode DEF TrackingInv
  <2>2. list[i].retried = 1
    BY <1>3, <2>1 DEF Resend, IsRetried
  <2> QED
    BY <1>3, <2>1, <2>2 DEF Resend, GoesOut, InflightTypeOK, TrackingInv,
                            Lifecycle!Resend
<1>4. ASSUME NEW i \in DOMAIN list, Expire(i) PROVE Lifecycle!Expire(list[i].cmd)
  <2>1. /\ list[i].retried \in 1 .. 2 /\ list[i].cmd \in Commands
        /\ st[list[i].cmd] = "pending" /\ sends[list[i].cmd] = list[i].retried
    BY ListedNode DEF TrackingInv
  <2>2. list[i].retried = 2
    BY <1>4, <2>1 DEF Expire, IsRetried
  <2> QED
    BY <1>4, <2>1, <2>2 DEF Expire, Lifecycle!Expire
<1>5. CASE Wait \/ IntervalOver \/ Release \/ (\E c \in Commands : Elapse(c))
           \/ (\E ok \in BOOLEAN : ReceiveOther(ok)) \/ Aborted \/ UNCHANGED inflightVars
  BY <1>5 DEF Wait, Activate, Arm, LeaveWait, SetIdle, IntervalOver, Release,
              TimeoutTest,
       TimeoutRelease, AckTest, AckStatus, AckRelease, Elapse, ReceiveOther, Aborted,
       inflightVars,
       ghosts
<1>6. ASSUME NEW c \in Commands,
             ReceiveElsewhere(c) \/ \E ok \in BOOLEAN : ReceiveAnswer(c, ok)
      PROVE  TakeAnswer(c) /\ UNCHANGED sends
  BY <1>6 DEF ReceiveElsewhere, ReceiveAnswer
<1>7. ASSUME NEW i \in DOMAIN list PROVE list[i].cmd \in Commands
  BY ListedNode DEF TrackingInv
<1> QED
  BY <1>1, <1>2, <1>3, <1>4, <1>5, <1>6, <1>7 DEF InflightNext, Transmission, Tick,
                                                  Receive

(* The in-flight list keeps what it promises its callers: each command is  *)
(* sent at most twice, ends once, and is never sent after its end.         *)
THEOREM LifecycleRefinement == InflightSpec => ImplementsLifecycle
<1>1. InflightInit => Lifecycle!Init
  BY DEF InflightInit, Lifecycle!Init
<1>2. TrackingInv /\ [InflightNext]_inflightVars => [Lifecycle!Next]_(Lifecycle!vars)
  BY LifecycleStep
<1> QED
  BY <1>1, <1>2, TrackingCorrect, PTL DEF InflightSpec, ImplementsLifecycle,
                                          Lifecycle!Spec
=============================================================================
