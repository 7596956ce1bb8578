-------------------------- MODULE Streaming_proofs --------------------------
(***************************************************************************)
(* Proofs about the live stream, for all values of the constants: of       *)
(* AudioBuffer, that every frame is accounted for and that the reader      *)
(* never blocks; of LiveOutputs and LiveViewers, that no late answer is    *)
(* shown for an earlier stream or template and that a row never has two    *)
(* jobs under way.                                                         *)
(***************************************************************************)
EXTENDS MCStreaming, TLAPS

\* The channel is never over-full.
Bounded == Len(audioCh) <= Capacity

\* The writer holds a frame exactly between receiving and writing it.
HeldIsFresh ==
    /\ writer.pc = "receive" => writer.held = 0
    /\ writer.pc = "write" => writer.held # 0

\* The channel is closed by the reader's last step, which also leaves no run
\* unrecorded; a writer that ended in good order has drained it.
EndsInOrder ==
    /\ closed <=> reader.pc = "over"
    /\ reader.pc = "over" => run = NoRun
    /\ writer.pc = "over" /\ ~torn => closed /\ audioCh = << >> /\ writer.held = 0

\* A frame being offered has been received; frame numbers start at one.
HasFrame == reader.pc \in {"offer", "evict", "push"} => received # 0

IInv ==
    /\ TypeOK /\ HasFrame /\ Bounded /\ NeverBlocks
    /\ HeldIsFresh /\ EndsInOrder /\ Accounted

-----------------------------------------------------------------------------
(* Sequences.                                                              *)

\* What passing the oldest frame on does to the channel.
LEMMA PopFacts ==
    ASSUME NEW s \in Seq(Frames), s # << >>
    PROVE  /\ Head(s) \in Frames /\ Head(s) \in Nat /\ Head(s) # 0
           /\ Tail(s) \in Seq(Frames)
           /\ Len(Tail(s)) = Len(s) - 1
           /\ Len(s) \in Nat /\ Len(s) > 0
  BY DEF Frames

\* What a send does to the channel, or to what the plugin has been sent.
LEMMA PushFacts ==
    ASSUME NEW s \in Seq(Frames), NEW f \in Frames
    PROVE  /\ Append(s, f) \in Seq(Frames)
           /\ Len(Append(s, f)) = Len(s) + 1
           /\ Append(s, f) # << >>
           /\ Len(s) \in Nat
  OBVIOUS

\* A dropped run that is not nil, and what recording it adds.
LEMMA RunFacts ==
    ASSUME TypeOK
    PROVE  /\ run.start \in Nat /\ run.dropped \in Nat
           /\ NoRun \in Run /\ NoRun.dropped = 0
           /\ gaps \cup {run} \in SUBSET Run
           /\ recorded + run.dropped \in Nat
  BY DEF TypeOK, Run, NoRun

\* Everything that Accounted adds up is a number.
LEMMA CountTypes ==
    ASSUME TypeOK
    PROVE  /\ received \in Nat /\ recorded \in Nat
           /\ Len(sent) \in Nat /\ Len(audioCh) \in Nat
           /\ run.dropped \in Nat
           /\ InWriter \in Nat /\ Uncounted \in Nat /\ Offered \in Nat
  <1>1. InWriter \in Nat
    BY DEF InWriter
  <1>2. Uncounted \in Nat
    BY DEF Uncounted
  <1>3. Offered \in Nat
    BY DEF Offered
  <1>4. Len(sent) \in Nat /\ Len(audioCh) \in Nat
    BY DEF TypeOK
  <1> QED BY <1>1, <1>2, <1>3, <1>4, RunFacts DEF TypeOK

-----------------------------------------------------------------------------
(* The inductive invariant.                                                *)

LEMMA IInvInit == Init => IInv
  <1> SUFFICES ASSUME Init PROVE IInv
    OBVIOUS
  <1>1. TypeOK
    <2>1. run \in Run /\ reader \in [pc: ReaderSteps, evicted: Nat]
      BY DEF Init, Run, NoRun, ReaderSteps
    <2>2. writer \in [pc: WriterSteps, held: Nat]
      BY DEF Init, WriterSteps
    <2>3. audioCh \in Seq(Frames) /\ sent \in Seq(Frames)
      BY DEF Init
    <2> QED BY <2>1, <2>2, <2>3 DEF Init, TypeOK
  <1>2. HasFrame /\ Bounded /\ NeverBlocks /\ HeldIsFresh /\ EndsInOrder
    BY ConstantsAssumption
    DEF Init, HasFrame, Bounded, NeverBlocks, HeldIsFresh, EndsInOrder, NoRun
  <1>3. Accounted
    BY DEF Init, Accounted, InWriter, Uncounted, Offered, NoRun
  <1> QED BY <1>1, <1>2, <1>3 DEF IInv

\* A frame is read: one more received, one more on offer.
LEMMA ReadFrameKeeps ==
    ASSUME IInv, ReadFrame
    PROVE  IInv'
  <1> USE ConstantsAssumption DEF IInv
  <1>1. TypeOK'
    <2>1. received' \in Nat
      BY DEF ReadFrame, TypeOK
    <2>2. reader' \in [pc: ReaderSteps, evicted: Nat]
      BY DEF ReadFrame, TypeOK, ReaderSteps
    <2> QED BY <2>1, <2>2 DEF ReadFrame, TypeOK
  <1>2. HasFrame' /\ Bounded' /\ NeverBlocks'
    BY DEF ReadFrame, TypeOK, HasFrame, Bounded, NeverBlocks
  <1>3. HeldIsFresh' /\ EndsInOrder'
    BY DEF ReadFrame, TypeOK, HeldIsFresh, EndsInOrder
  <1>4. Accounted'
    <2>1. InWriter' = InWriter /\ Uncounted' = Uncounted /\ Offered' = Offered + 1
      BY DEF ReadFrame, TypeOK, HeldIsFresh, InWriter, Uncounted, Offered
    <2>2. /\ received' = received + 1 /\ Len(sent)' = Len(sent)
          /\ Len(audioCh)' = Len(audioCh) /\ recorded' = recorded
          /\ run'.dropped = run.dropped /\ torn' = torn
      BY DEF ReadFrame
    <2> DEFINE rest == Len(sent) + Len(audioCh) + recorded + run.dropped
                            + InWriter + Uncounted
    <2>3. rest' = rest
      BY <2>1, <2>2
    <2>a. /\ Len(sent) \in Nat /\ Len(audioCh) \in Nat /\ recorded \in Nat
          /\ run.dropped \in Nat /\ InWriter \in Nat /\ Uncounted \in Nat
          /\ received \in Nat /\ Offered \in Nat
      BY CountTypes
    <2>4. rest \in Nat
      BY <2>a
    <2>5. (~torn => received = rest + Offered) /\ (Accounted' <=> (~torn' => received' = rest' + Offered'))
      BY DEF Accounted
    <2> HIDE DEF rest
    <2> QED BY <2>1, <2>2, <2>3, <2>a, <2>4, <2>5
  <1> QED BY <1>1, <1>2, <1>3, <1>4

\* The client is gone; no frame moves.
LEMMA ReadEndsKeeps ==
    ASSUME IInv, ReadEnds
    PROVE  IInv'
  <1> USE ConstantsAssumption DEF IInv
  <1>1. TypeOK'
    <2>1. reader' \in [pc: ReaderSteps, evicted: Nat]
      BY DEF ReadEnds, TypeOK, ReaderSteps
    <2> QED BY <2>1 DEF ReadEnds, TypeOK
  <1>2. HasFrame' /\ Bounded' /\ NeverBlocks'
    BY DEF ReadEnds, TypeOK, HasFrame, Bounded, NeverBlocks
  <1>3. HeldIsFresh' /\ EndsInOrder'
    BY DEF ReadEnds, TypeOK, HeldIsFresh, EndsInOrder
  <1>4. Accounted'
    <2>1. InWriter' = InWriter /\ Uncounted' = Uncounted /\ Offered' = Offered
      BY DEF ReadEnds, TypeOK, HeldIsFresh, InWriter, Uncounted, Offered
    <2> QED BY <2>1, CountTypes DEF ReadEnds, Accounted
  <1> QED BY <1>1, <1>2, <1>3, <1>4

\* There is room: the frame on offer goes into the channel.
LEMMA OfferKeeps1 ==
    ASSUME IInv, Offer, Len(audioCh) < Capacity
    PROVE  IInv'
  <1> USE ConstantsAssumption DEF IInv
  <1>a. received \in Frames
    BY DEF Offer, HasFrame, TypeOK, Frames
  <1>b. /\ audioCh' \in Seq(Frames) /\ audioCh' # << >>
        /\ Len(audioCh') = Len(audioCh) + 1 /\ Len(audioCh) \in Nat
    BY <1>a, PushFacts DEF Offer, TypeOK
  <1>c. Uncounted = 0 /\ Offered = 1
    BY DEF Offer, Uncounted, Offered
  <1>1. TypeOK'
    <2>1. audioCh' \in Seq(Frames)
      BY <1>b DEF Offer, TypeOK
    <2>2. reader' \in [pc: ReaderSteps, evicted: Nat]
      BY DEF Offer, TypeOK, ReaderSteps
    <2> QED BY <2>1, <2>2 DEF Offer, TypeOK
  <1>2. HasFrame' /\ Bounded' /\ NeverBlocks'
    BY <1>b DEF Offer, TypeOK, HasFrame, Bounded, NeverBlocks
  <1>3. HeldIsFresh' /\ EndsInOrder'
    BY <1>b DEF Offer, TypeOK, HeldIsFresh, EndsInOrder
  <1>4. Accounted'
    <2>1. InWriter' = InWriter /\ Uncounted' = 0 /\ Offered' = 0
      BY <1>b DEF Offer, TypeOK, HeldIsFresh, InWriter, Uncounted, Offered
    <2>a. /\ Len(sent) \in Nat /\ Len(audioCh) \in Nat /\ recorded \in Nat
          /\ run.dropped \in Nat /\ InWriter \in Nat /\ Uncounted \in Nat
          /\ received \in Nat /\ Offered \in Nat
      BY CountTypes
    <2> DEFINE after == recorded + run.dropped + InWriter + Uncounted
    <2>4. after' = after /\ Len(sent)' = Len(sent) /\ received' = received /\ torn' = torn
      BY <1>b, <1>c, <2>1 DEF Offer
    <2>5. after \in Nat
      BY <2>a
    <2>6. ~torn => received = Len(sent) + Len(audioCh) + after + 1
      BY <1>b, <1>c, <2>1, <2>a DEF Accounted
    <2>7. /\ recorded' \in Nat /\ run'.dropped \in Nat /\ InWriter' \in Nat
          /\ Uncounted' \in Nat /\ Len(sent)' \in Nat /\ Len(audioCh)' \in Nat
      BY <1>b, <1>c, <2>1, <2>4, <2>a DEF Offer
    <2>8. Accounted' <=> (~torn' => received' = Len(sent)' + Len(audioCh)' + after' + Offered')
      BY <1>b, <1>c, <2>1, <2>7 DEF Accounted
    <2> HIDE DEF after
    <2> QED BY <1>b, <1>c, <2>1, <2>4, <2>5, <2>6, <2>8, <2>a
  <1> QED BY <1>1, <1>2, <1>3, <1>4

\* The channel is full: the frame stays on offer.
LEMMA OfferKeeps2 ==
    ASSUME IInv, Offer, ~(Len(audioCh) < Capacity)
    PROVE  IInv'
  <1> USE ConstantsAssumption DEF IInv
  <1>1. TypeOK'
    <2>1. reader' \in [pc: ReaderSteps, evicted: Nat]
      BY DEF Offer, TypeOK, ReaderSteps
    <2> QED BY <2>1 DEF Offer, TypeOK
  <1>2. HasFrame' /\ Bounded' /\ NeverBlocks'
    BY DEF Offer, TypeOK, HasFrame, Bounded, NeverBlocks
  <1>3. HeldIsFresh' /\ EndsInOrder'
    BY DEF Offer, TypeOK, HeldIsFresh, EndsInOrder
  <1>4. Accounted'
    <2>1. InWriter' = InWriter /\ Uncounted' = Uncounted /\ Offered' = Offered
      BY DEF Offer, TypeOK, HeldIsFresh, InWriter, Uncounted, Offered
    <2> QED BY <2>1, CountTypes DEF Offer, Accounted
  <1> QED BY <1>1, <1>2, <1>3, <1>4

\* The oldest frame moves from the channel to the reader.
LEMMA EvictKeeps1 ==
    ASSUME IInv, Evict, audioCh # << >>
    PROVE  IInv'
  <1> USE ConstantsAssumption DEF IInv
  <1>a. /\ Head(audioCh) \in Nat /\ Head(audioCh) # 0
        /\ Tail(audioCh) \in Seq(Frames)
        /\ Len(Tail(audioCh)) = Len(audioCh) - 1 /\ Len(audioCh) \in Nat
    BY PopFacts DEF TypeOK
  <1>1. TypeOK'
    <2>1. audioCh' \in Seq(Frames)
      BY <1>a DEF Evict, TypeOK
    <2>2. reader' \in [pc: ReaderSteps, evicted: Nat]
      BY <1>a DEF Evict, TypeOK, ReaderSteps
    <2> QED BY <2>1, <2>2 DEF Evict, TypeOK
  <1>2. HasFrame' /\ Bounded' /\ NeverBlocks'
    BY <1>a DEF Evict, TypeOK, HasFrame, Bounded, NeverBlocks
  <1>3. HeldIsFresh' /\ EndsInOrder'
    BY <1>a DEF Evict, TypeOK, HeldIsFresh, EndsInOrder
  <1>4. Accounted'
    <2>1. InWriter' = InWriter
      BY <1>a DEF Evict, TypeOK, HeldIsFresh, InWriter
    <2>2. Uncounted = 0 /\ Uncounted' = 1
      BY <1>a DEF Evict, TypeOK, Uncounted
    <2>3. Offered' = Offered
      BY <1>a DEF Evict, TypeOK, Offered
    <2>4. Len(audioCh') = Len(audioCh) - 1
      BY <1>a DEF Evict
    <2>5. UNCHANGED <<received, sent, recorded, run, torn>>
      BY DEF Evict
    <2> QED BY <2>1, <2>2, <2>3, <2>4, <2>5, CountTypes DEF Accounted
  <1> QED BY <1>1, <1>2, <1>3, <1>4

\* The writer has emptied the channel meanwhile.
LEMMA EvictKeeps2 ==
    ASSUME IInv, Evict, audioCh = << >>
    PROVE  IInv'
  <1> USE ConstantsAssumption DEF IInv
  <1>1. TypeOK'
    <2>1. reader' \in [pc: ReaderSteps, evicted: Nat]
      BY DEF Evict, TypeOK, ReaderSteps
    <2> QED BY <2>1 DEF Evict, TypeOK
  <1>2. HasFrame' /\ Bounded' /\ NeverBlocks'
    BY DEF Evict, TypeOK, HasFrame, Bounded, NeverBlocks
  <1>3. HeldIsFresh' /\ EndsInOrder'
    BY DEF Evict, TypeOK, HeldIsFresh, EndsInOrder
  <1>4. Accounted'
    <2>1. InWriter' = InWriter /\ Uncounted' = Uncounted /\ Offered' = Offered
      BY DEF Evict, TypeOK, HeldIsFresh, InWriter, Uncounted, Offered
    <2> QED BY <2>1, CountTypes DEF Evict, Accounted
  <1> QED BY <1>1, <1>2, <1>3, <1>4

\* The frame on offer goes into the place made for it.
LEMMA PushKeeps ==
    ASSUME IInv, Push
    PROVE  IInv'
  <1> USE ConstantsAssumption DEF IInv
  <1>a. received \in Frames
    BY DEF Push, HasFrame, TypeOK, Frames
  <1>b. /\ audioCh' \in Seq(Frames) /\ audioCh' # << >>
        /\ Len(audioCh') = Len(audioCh) + 1 /\ Len(audioCh) \in Nat
    BY <1>a, PushFacts DEF Push, TypeOK
  <1>1. TypeOK'
    <2>1. audioCh' \in Seq(Frames)
      BY <1>b DEF Push, TypeOK
    <2>2. reader' \in [pc: ReaderSteps, evicted: Nat]
      BY DEF Push, TypeOK, ReaderSteps
    <2> QED BY <2>1, <2>2 DEF Push, TypeOK
  <1>2. HasFrame' /\ Bounded' /\ NeverBlocks'
    BY <1>b DEF Push, TypeOK, HasFrame, Bounded, NeverBlocks
  <1>3. HeldIsFresh' /\ EndsInOrder'
    BY <1>b DEF Push, TypeOK, HeldIsFresh, EndsInOrder
  <1>4. Accounted'
    <2>1. InWriter' = InWriter
      BY <1>b DEF Push, TypeOK, HeldIsFresh, InWriter
    <2>2. Uncounted' = Uncounted
      BY <1>b DEF Push, TypeOK, Uncounted
    <2>3. Offered = 1 /\ Offered' = 0
      BY <1>b DEF Push, TypeOK, Offered
    <2>a. /\ Len(sent) \in Nat /\ Len(audioCh) \in Nat /\ recorded \in Nat
          /\ run.dropped \in Nat /\ InWriter \in Nat /\ Uncounted \in Nat
          /\ received \in Nat /\ Offered \in Nat
      BY CountTypes
    <2> DEFINE after == recorded + run.dropped + InWriter + Uncounted
    <2>4. after' = after /\ Len(sent)' = Len(sent) /\ received' = received /\ torn' = torn
      BY <1>b, <2>1, <2>2, <2>3 DEF Push
    <2>5. after \in Nat
      BY <2>a
    <2>6. ~torn => received = Len(sent) + Len(audioCh) + after + 1
      BY <1>b, <2>1, <2>2, <2>3, <2>a DEF Accounted
    <2>7. /\ recorded' \in Nat /\ run'.dropped \in Nat /\ InWriter' \in Nat
          /\ Uncounted' \in Nat /\ Len(sent)' \in Nat /\ Len(audioCh)' \in Nat
      BY <1>b, <2>1, <2>2, <2>3, <2>4, <2>a DEF Push
    <2>8. Accounted' <=> (~torn' => received' = Len(sent)' + Len(audioCh)' + after' + Offered')
      BY <1>b, <2>1, <2>2, <2>3, <2>7 DEF Accounted
    <2> HIDE DEF after
    <2> QED BY <1>b, <2>1, <2>2, <2>3, <2>4, <2>5, <2>6, <2>8, <2>a
  <1> QED BY <1>1, <1>2, <1>3, <1>4

\* The oldest frame moves from the channel to the writer.
LEMMA ReceiveKeeps ==
    ASSUME IInv, Receive
    PROVE  IInv'
  <1> USE ConstantsAssumption DEF IInv
  <1>a. /\ Head(audioCh) \in Nat /\ Head(audioCh) # 0
        /\ Tail(audioCh) \in Seq(Frames)
        /\ Len(Tail(audioCh)) = Len(audioCh) - 1 /\ Len(audioCh) \in Nat
    BY PopFacts DEF Receive, TypeOK
  <1>1. TypeOK'
    <2>1. audioCh' \in Seq(Frames)
      BY <1>a DEF Receive, TypeOK
    <2>2. writer' \in [pc: WriterSteps, held: Nat]
      BY <1>a DEF Receive, TypeOK, WriterSteps
    <2> QED BY <2>1, <2>2 DEF Receive, TypeOK
  <1>2. HasFrame' /\ Bounded' /\ NeverBlocks'
    BY <1>a DEF Receive, TypeOK, HasFrame, Bounded, NeverBlocks
  <1>3. HeldIsFresh' /\ EndsInOrder'
    BY <1>a DEF Receive, TypeOK, HeldIsFresh, EndsInOrder
  <1>4. Accounted'
    <2>1. InWriter = 0 /\ InWriter' = 1
      BY <1>a DEF Receive, TypeOK, HeldIsFresh, InWriter
    <2>2. Uncounted' = Uncounted
      BY <1>a DEF Receive, TypeOK, Uncounted
    <2>3. Offered' = Offered
      BY <1>a DEF Receive, TypeOK, Offered
    <2> QED BY <1>a, <2>1, <2>2, <2>3, CountTypes DEF Receive, Accounted
  <1> QED BY <1>1, <1>2, <1>3, <1>4

\* The frame in the writer's hands goes to the plugin.
LEMMA WriteAudioKeeps ==
    ASSUME IInv, WriteAudio
    PROVE  IInv'
  <1> USE ConstantsAssumption DEF IInv
  <1>a. writer.held \in Frames
    BY DEF WriteAudio, HeldIsFresh, TypeOK, Frames
  <1>b. /\ sent' \in Seq(Frames)
        /\ Len(sent') = Len(sent) + 1 /\ Len(sent) \in Nat
    BY <1>a, PushFacts DEF WriteAudio, TypeOK
  <1>1. TypeOK'
    <2>1. sent' \in Seq(Frames)
      BY <1>b DEF WriteAudio, TypeOK
    <2>2. writer' \in [pc: WriterSteps, held: Nat]
      BY DEF WriteAudio, TypeOK, WriterSteps
    <2> QED BY <2>1, <2>2 DEF WriteAudio, TypeOK
  <1>2. HasFrame' /\ Bounded' /\ NeverBlocks'
    BY DEF WriteAudio, TypeOK, HasFrame, Bounded, NeverBlocks
  <1>3. HeldIsFresh' /\ EndsInOrder'
    BY DEF WriteAudio, TypeOK, HeldIsFresh, EndsInOrder
  <1>4. Accounted'
    <2>1. InWriter = 1 /\ InWriter' = 0
      BY <1>b DEF WriteAudio, TypeOK, HeldIsFresh, InWriter
    <2>2. Uncounted' = Uncounted
      BY <1>b DEF WriteAudio, TypeOK, Uncounted
    <2>3. Offered' = Offered
      BY <1>b DEF WriteAudio, TypeOK, Offered
    <2> QED BY <1>b, <2>1, <2>2, <2>3, CountTypes DEF WriteAudio, Accounted
  <1> QED BY <1>1, <1>2, <1>3, <1>4

\* The plugin is gone: the stream is torn down.
LEMMA WriteAudioFailsKeeps ==
    ASSUME IInv, WriteAudioFails
    PROVE  IInv'
  <1> USE ConstantsAssumption DEF IInv
  <1>1. TypeOK'
    <2>1. writer' \in [pc: WriterSteps, held: Nat]
      BY DEF WriteAudioFails, TypeOK, WriterSteps
    <2> QED BY <2>1 DEF WriteAudioFails, TypeOK
  <1>2. HasFrame' /\ Bounded' /\ NeverBlocks'
    BY DEF WriteAudioFails, TypeOK, HasFrame, Bounded, NeverBlocks
  <1>3. HeldIsFresh' /\ EndsInOrder'
    BY DEF WriteAudioFails, TypeOK, HeldIsFresh, EndsInOrder
  <1>4. Accounted'
    <2>1. InWriter' = InWriter /\ Uncounted' = Uncounted /\ Offered' = Offered
      BY DEF WriteAudioFails, TypeOK, HeldIsFresh, InWriter, Uncounted, Offered
    <2> QED BY <2>1, CountTypes DEF WriteAudioFails, Accounted
  <1> QED BY <1>1, <1>2, <1>3, <1>4

\* The writer ends with nothing in its hands.
LEMMA StopKeeps ==
    ASSUME IInv, Stop
    PROVE  IInv'
  <1> USE ConstantsAssumption DEF IInv
  <1>1. TypeOK'
    <2>1. writer' \in [pc: WriterSteps, held: Nat]
      BY DEF Stop, TypeOK, WriterSteps
    <2> QED BY <2>1 DEF Stop, TypeOK
  <1>2. HasFrame' /\ Bounded' /\ NeverBlocks'
    BY DEF Stop, TypeOK, HasFrame, Bounded, NeverBlocks
  <1>3. HeldIsFresh' /\ EndsInOrder'
    BY DEF Stop, TypeOK, HeldIsFresh, EndsInOrder
  <1>4. Accounted'
    <2>1. InWriter = 0 /\ InWriter' = 0
      BY DEF Stop, TypeOK, HeldIsFresh, InWriter
    <2>2. Uncounted' = Uncounted
      BY DEF Stop, TypeOK, Uncounted
    <2>3. Offered' = Offered
      BY DEF Stop, TypeOK, Offered
    <2>4. UNCHANGED <<received, sent, audioCh, recorded, run>>
      BY DEF Stop
    <2>5. ~torn' => ~torn
      BY DEF Stop
    <2> QED BY <2>1, <2>2, <2>3, <2>4, <2>5, CountTypes DEF Accounted
  <1> QED BY <1>1, <1>2, <1>3, <1>4

\* Another goroutine tears the stream down.
LEMMA CloseAllKeeps ==
    ASSUME IInv, CloseAll
    PROVE  IInv'
  <1> USE ConstantsAssumption DEF IInv
  <1>1. TypeOK'
    <2> QED BY DEF CloseAll, TypeOK
  <1>2. HasFrame' /\ Bounded' /\ NeverBlocks'
    BY DEF CloseAll, TypeOK, HasFrame, Bounded, NeverBlocks
  <1>3. HeldIsFresh' /\ EndsInOrder'
    BY DEF CloseAll, TypeOK, HeldIsFresh, EndsInOrder
  <1>4. Accounted'
    <2>1. InWriter' = InWriter /\ Uncounted' = Uncounted /\ Offered' = Offered
      BY DEF CloseAll, TypeOK, HeldIsFresh, InWriter, Uncounted, Offered
    <2> QED BY <2>1, CountTypes DEF CloseAll, Accounted
  <1> QED BY <1>1, <1>2, <1>3, <1>4

\* Whatever becomes of a run that closes, it is no longer pending, and unless
\* the stream is torn down its frames are counted in a gap.
LEMMA RecordGapFacts ==
    ASSUME TypeOK, NEW next \in ReaderSteps, NEW failed \in ReaderSteps,
           RecordGap(next, failed)
    PROVE  /\ run' = NoRun /\ gaps' \in SUBSET Run /\ recorded' \in Nat
           /\ torn' \in BOOLEAN
           /\ reader' \in [pc: ReaderSteps, evicted: Nat]
           /\ reader'.pc \in {next, failed} /\ reader'.evicted = 0
           /\ ~torn' => ~torn /\ recorded' = recorded + run.dropped
  <1>1. CASE /\ gaps' = gaps \cup {run}
             /\ recorded' = recorded + run.dropped
             /\ run' = NoRun
             /\ UNCHANGED torn
             /\ reader' = [pc |-> next, evicted |-> 0]
    <2>1. reader' \in [pc: ReaderSteps, evicted: Nat] /\ reader'.pc = next /\ reader'.evicted = 0
      BY <1>1
    <2>2. gaps' \in SUBSET Run /\ recorded' \in Nat
      BY <1>1, RunFacts
    <2> QED BY <1>1, <2>1, <2>2 DEF TypeOK
  <1>2. CASE /\ run' = NoRun
             /\ UNCHANGED <<gaps, recorded>>
             /\ torn' = TRUE
             /\ reader' = [pc |-> failed, evicted |-> 0]
    <2>1. reader' \in [pc: ReaderSteps, evicted: Nat] /\ reader'.pc = failed /\ reader'.evicted = 0
      BY <1>2
    <2> QED BY <1>2, <2>1 DEF TypeOK
  <1>3. CASE /\ run = NoRun
             /\ UNCHANGED <<run, gaps, recorded, torn>>
             /\ reader' = [pc |-> next, evicted |-> 0]
    <2>1. reader' \in [pc: ReaderSteps, evicted: Nat] /\ reader'.pc = next /\ reader'.evicted = 0
      BY <1>3
    <2>2. recorded \in Nat /\ run.dropped = 0
      BY <1>3, RunFacts DEF TypeOK
    <2>3. recorded' = recorded + run.dropped
      BY <1>3, <2>2
    <2> QED BY <1>3, <2>1, <2>3 DEF TypeOK
  <1> QED BY <1>1, <1>2, <1>3 DEF RecordGap

\* The evicted frame joins the run.
LEMMA ObserveKeeps1 ==
    ASSUME IInv, Observe, reader.evicted # 0
    PROVE  IInv'
  <1> USE DEF IInv
  <1> DEFINE first == IF run = NoRun THEN reader.evicted ELSE run.start
             count == run.dropped + 1
  <1>a. /\ reader.pc = "observe"
        /\ run' = [start |-> first, dropped |-> count]
        /\ reader' = [pc |-> "read", evicted |-> 0]
        /\ UNCHANGED <<gaps, recorded, torn, received, audioCh, closed, writer, sent>>
    BY DEF Observe
  <1>b. first \in Nat
    BY RunFacts DEF TypeOK
  <1>c. count \in Nat /\ count = run.dropped + 1
    BY RunFacts
  <1> HIDE DEF first, count
  <1>d. reader'.pc = "read" /\ reader'.evicted = 0
    BY <1>a
  <1>e. run'.dropped = run.dropped + 1
    BY <1>a, <1>c
  <1>1. TypeOK'
    <2>1. run' \in Run
      BY <1>a, <1>b, <1>c DEF Run
    <2>2. reader' \in [pc: ReaderSteps, evicted: Nat]
      BY <1>a DEF ReaderSteps
    <2> QED BY <1>a, <2>1, <2>2 DEF TypeOK
  <1>2. HasFrame' /\ Bounded' /\ NeverBlocks'
    BY <1>a, <1>d DEF HasFrame, Bounded, NeverBlocks
  <1>3. HeldIsFresh' /\ EndsInOrder'
    BY <1>a, <1>d DEF HeldIsFresh, EndsInOrder
  <1>4. Accounted'
    <2>1. InWriter' = InWriter
      BY <1>a DEF InWriter
    <2>2. Uncounted = 1 /\ Uncounted' = 0
      BY <1>a, <1>d DEF Uncounted
    <2>3. Offered = 0 /\ Offered' = 0
      BY <1>a, <1>d DEF Offered
    <2> QED BY <1>a, <1>e, <2>1, <2>2, <2>3, CountTypes DEF Accounted
  <1> QED BY <1>1, <1>2, <1>3, <1>4

\* A frame that went in without a drop closes the run.
LEMMA ObserveKeeps2 ==
    ASSUME IInv, Observe, reader.evicted = 0
    PROVE  IInv'
  <1> USE DEF IInv
  <1>a. /\ reader.pc = "observe" /\ RecordGap("read", "flush")
        /\ UNCHANGED <<received, audioCh, closed, writer, sent>>
    BY DEF Observe
  <1>b. /\ run' = NoRun /\ gaps' \in SUBSET Run /\ recorded' \in Nat
        /\ torn' \in BOOLEAN
        /\ reader' \in [pc: ReaderSteps, evicted: Nat]
        /\ reader'.pc \in {"read", "flush"} /\ reader'.evicted = 0
        /\ ~torn' => ~torn /\ recorded' = recorded + run.dropped
    BY <1>a, RecordGapFacts DEF ReaderSteps
  <1>c. run' \in Run /\ run'.dropped = 0
    BY <1>b, RunFacts
  <1>1. TypeOK'
    BY <1>a, <1>b, <1>c DEF TypeOK
  <1>2. HasFrame' /\ Bounded' /\ NeverBlocks'
    BY <1>a, <1>b DEF HasFrame, Bounded, NeverBlocks
  <1>3. HeldIsFresh' /\ EndsInOrder'
    BY <1>a, <1>b DEF HeldIsFresh, EndsInOrder
  <1>4. Accounted'
    <2>1. InWriter' = InWriter
      BY <1>a DEF InWriter
    <2>2. Uncounted = 0 /\ Uncounted' = 0
      BY <1>b DEF Uncounted
    <2>3. Offered = 0 /\ Offered' = 0
      BY <1>a, <1>b DEF Offered
    <2>a. /\ Len(sent) \in Nat /\ Len(audioCh) \in Nat /\ recorded \in Nat
          /\ run.dropped \in Nat /\ InWriter \in Nat /\ Uncounted \in Nat
          /\ received \in Nat /\ Offered \in Nat
      BY CountTypes
    <2> DEFINE passed == Len(sent) + Len(audioCh)
    <2>4. passed' = passed
      BY <1>a
    <2>5. passed \in Nat
      BY <2>a
    <2>6. ~torn => received = passed + recorded + run.dropped + InWriter
      BY <2>2, <2>3, <2>5, <2>a DEF Accounted
    <2>7. Accounted' <=> (~torn' => received' = passed' + recorded' + run'.dropped
                                                    + InWriter' + Uncounted' + Offered')
      BY DEF Accounted
    <2> HIDE DEF passed
    <2>8. ~torn' => received = passed + (recorded + run.dropped) + 0 + InWriter + 0 + 0
      BY <1>b, <2>5, <2>6, <2>a
    <2> QED BY <1>a, <1>b, <1>c, <2>1, <2>2, <2>3, <2>4, <2>7, <2>8
  <1> QED BY <1>1, <1>2, <1>3, <1>4

\* The stream is torn down; a pending run may still be recorded.
LEMMA GiveUpKeeps ==
    ASSUME IInv, GiveUp, reader.pc \in {"abort", "push"}
    PROVE  IInv'
  <1> USE DEF IInv
  <1>a. /\ run' = NoRun /\ torn' = TRUE
        /\ reader' = [pc |-> "flush", evicted |-> 0]
        /\ UNCHANGED <<received, audioCh, closed, writer, sent>>
    BY DEF GiveUp
  <1>b. gaps' \in SUBSET Run /\ recorded' \in Nat
    BY RunFacts DEF GiveUp, TypeOK
  <1>c. reader'.pc = "flush"
    BY <1>a
  <1>1. TypeOK'
    <2>1. reader' \in [pc: ReaderSteps, evicted: Nat]
      BY <1>a DEF ReaderSteps
    <2> QED BY <1>a, <1>b, <2>1, RunFacts DEF TypeOK
  <1>2. HasFrame' /\ Bounded' /\ NeverBlocks'
    BY <1>a, <1>c DEF HasFrame, Bounded, NeverBlocks
  <1>3. HeldIsFresh' /\ EndsInOrder'
    BY <1>a, <1>c DEF HeldIsFresh, EndsInOrder
  <1>4. Accounted'
    BY <1>a DEF Accounted
  <1> QED BY <1>1, <1>2, <1>3, <1>4

\* The reader's last step: the pending run is recorded, the channel closed.
LEMMA FlushKeeps ==
    ASSUME IInv, Flush
    PROVE  IInv'
  <1> USE DEF IInv
  <1>a. /\ reader.pc = "flush" /\ RecordGap("over", "over") /\ closed' = TRUE
        /\ UNCHANGED <<received, audioCh, writer, sent>>
    BY DEF Flush
  <1>b. /\ run' = NoRun /\ gaps' \in SUBSET Run /\ recorded' \in Nat
        /\ torn' \in BOOLEAN
        /\ reader' \in [pc: ReaderSteps, evicted: Nat]
        /\ reader'.pc = "over" /\ reader'.evicted = 0
        /\ ~torn' => ~torn /\ recorded' = recorded + run.dropped
    BY <1>a, RecordGapFacts DEF ReaderSteps
  <1>c. run' \in Run /\ run'.dropped = 0
    BY <1>b, RunFacts
  <1>1. TypeOK'
    BY <1>a, <1>b, <1>c DEF TypeOK
  <1>2. HasFrame' /\ Bounded' /\ NeverBlocks'
    BY <1>a, <1>b DEF HasFrame, Bounded, NeverBlocks
  <1>3. HeldIsFresh' /\ EndsInOrder'
    BY <1>a, <1>b DEF HeldIsFresh, EndsInOrder
  <1>4. Accounted'
    <2>1. InWriter' = InWriter
      BY <1>a DEF InWriter
    <2>2. Uncounted = 0 /\ Uncounted' = 0
      BY <1>a, <1>b DEF Uncounted
    <2>3. Offered = 0 /\ Offered' = 0
      BY <1>a, <1>b DEF Offered
    <2>a. /\ Len(sent) \in Nat /\ Len(audioCh) \in Nat /\ recorded \in Nat
          /\ run.dropped \in Nat /\ InWriter \in Nat /\ Uncounted \in Nat
          /\ received \in Nat /\ Offered \in Nat
      BY CountTypes
    <2> DEFINE passed == Len(sent) + Len(audioCh)
    <2>4. passed' = passed
      BY <1>a
    <2>5. passed \in Nat
      BY <2>a
    <2>6. ~torn => received = passed + recorded + run.dropped + InWriter
      BY <2>2, <2>3, <2>5, <2>a DEF Accounted
    <2>7. Accounted' <=> (~torn' => received' = passed' + recorded' + run'.dropped
                                                    + InWriter' + Uncounted' + Offered')
      BY DEF Accounted
    <2> HIDE DEF passed
    <2>8. ~torn' => received = passed + (recorded + run.dropped) + 0 + InWriter + 0 + 0
      BY <1>b, <2>5, <2>6, <2>a
    <2> QED BY <1>a, <1>b, <1>c, <2>1, <2>2, <2>3, <2>4, <2>7, <2>8
  <1> QED BY <1>1, <1>2, <1>3, <1>4

LEMMA IInvStutter ==
    ASSUME IInv, UNCHANGED vars
    PROVE  IInv'
  BY DEF IInv, vars, TypeOK, HasFrame, Bounded, NeverBlocks, HeldIsFresh,
         EndsInOrder, Accounted, InWriter, Uncounted, Offered

LEMMA IInvStep == IInv /\ [Next]_vars => IInv'
  <1> SUFFICES ASSUME IInv, [Next]_vars PROVE IInv'
    OBVIOUS
  <1>1. CASE Offer
    BY <1>1, OfferKeeps1, OfferKeeps2
  <1>2. CASE Evict
    BY <1>2, EvictKeeps1, EvictKeeps2
  <1>3. CASE Observe
    BY <1>3, ObserveKeeps1, ObserveKeeps2
  <1>4. CASE Abort \/ PushCancelled
    BY <1>4, GiveUpKeeps DEF Abort, PushCancelled
  <1>5. CASE Push \/ Flush
    BY <1>5, PushKeeps, FlushKeeps
  <1>6. CASE WriterStep
    BY <1>6, ReceiveKeeps, WriteAudioKeeps, WriteAudioFailsKeeps, StopKeeps DEF WriterStep
  <1>7. CASE ReadFrame \/ ReadEnds \/ CloseAll
    BY <1>7, ReadFrameKeeps, ReadEndsKeeps, CloseAllKeeps
  <1>8. CASE UNCHANGED vars
    BY <1>8, IInvStutter
  <1> QED BY <1>1, <1>2, <1>3, <1>4, <1>5, <1>6, <1>7, <1>8 DEF Next, ReaderStep

-----------------------------------------------------------------------------
(* Theorems.                                                               *)

LEMMA IInvHolds == Spec => []IInv
  BY IInvInit, IInvStep, PTL DEF Spec

\* The reader and the writer keep the channel, the run and the gap rows within
\* their types.
THEOREM TypeCorrect == Spec => []TypeOK
  <1>1. IInv => TypeOK
    BY DEF IInv
  <1> QED BY <1>1, IInvHolds, PTL

\* enqueueAudioFrame's third select never blocks the client's socket, whatever
\* the capacity and however the writer's receives fall between its selects.
THEOREM ReaderNeverBlocks == Spec => []NeverBlocks
  <1>1. IInv => NeverBlocks
    BY DEF IInv
  <1> QED BY <1>1, IInvHolds, PTL

\* Every frame of a stream that has not been torn down is sent, on its way or
\* counted as dropped.
THEOREM FramesAccounted == Spec => []Accounted
  <1>1. IInv => Accounted
    BY DEF IInv
  <1> QED BY <1>1, IInvHolds, PTL

\* When a stream ends in good order, the frames sent to the plugin and the
\* frames recorded as gaps are all the frames the client sent.
THEOREM NothingIsLostSilently == Spec => []NothingLostSilently
  <1>1. IInv => NothingLostSilently
    <2> SUFFICES ASSUME IInv, ~torn, reader.pc = "over", writer.pc = "over"
                 PROVE  received = Len(sent) + recorded
      BY DEF NothingLostSilently
    <2> USE DEF IInv
    <2>1. audioCh = << >> /\ run = NoRun /\ writer.held = 0
      BY DEF EndsInOrder
    <2>2. Len(audioCh) = 0 /\ run.dropped = 0
      BY <2>1, RunFacts
    <2>3. InWriter = 0
      BY <2>1 DEF InWriter
    <2>4. Uncounted = 0 /\ Offered = 0
      BY DEF Uncounted, Offered
    <2> QED BY <2>2, <2>3, <2>4, CountTypes DEF Accounted
  <1> QED BY <1>1, IInvHolds, PTL

-----------------------------------------------------------------------------
(* Live prompts (module LiveOutputs).                                      *)

\* A job that is queued or being run.
Busy == {"pending", "running"}

\* A row that is not there is as it was before it was made.
RowFits(r) == row[r].status = "absent" => row[r] = Live!NoRow

\* A job under way is the active one of its row.
JobFits(j) ==
    /\ job[j].status # "absent" => job[j].row \in Live!Rows
    /\ job[j].status \in Busy => row[job[j].row].active = j

\* The tables of rows and jobs.
TablesFit ==
    /\ row \in [Live!Rows -> Live!OutputRow]
    /\ job \in [Jobs -> Live!JobRow]
    /\ \A r \in Live!Rows : RowFits(r)
    /\ \A j \in Jobs : JobFits(j)

\* What the job of a worker can have become meanwhile.
Held(w) ==
    IF worker[w].pc = "complete" THEN {"running", "done", "absent"}
    ELSE IF worker[w].pc = "terminal" THEN {"failed", "absent"}
    ELSE {"running", "absent"}

\* A worker with a job has one that is where its step left it, unless the row took it along.
WorkerFits(w) ==
    worker[w].pc # "idle" => worker[w].job \in Jobs /\ job[worker[w].job].status \in Held(w)

\* No job has two workers.
WorkersApart ==
    \A v, w \in Workers :
        worker[v].pc # "idle" /\ worker[w].pc # "idle" /\ worker[v].job = worker[w].job => v = w

\* The workers.
WorkersFit ==
    /\ worker \in [Workers -> Live!WorkerState]
    /\ \A w \in Workers : WorkerFits(w)
    /\ WorkersApart

\* The types of the rest.
NoteTypes ==
    /\ template \in [Templates -> {"absent", "after", "during"}]
    /\ stream \in Live!Stream
    /\ trashed \in BOOLEAN
    /\ notified \in BOOLEAN
    /\ bounds \in [edits: 0..MaxEdits, faults: 0..MaxFaults,
                   crashes: 0..MaxCrashes, cancels: 0..MaxCancels, trash: 0..MaxTrash]

\* What is visible is of the stream and of an eligible template.
VisibleFits ==
    /\ trashed => bounds.trash # 0
    /\ bounds.faults = 0 /\ bounds.trash = 0 =>
          \A r \in Live!Rows : row[r].visible =>
              r[2] = stream.id /\ r[1] \in Live!Eligible(template)

\* The inductive invariant.
LiveInv == NoteTypes /\ TablesFit /\ WorkersFit /\ VisibleFits

-----------------------------------------------------------------------------

\* The bounds, as the proofs use them.
LEMMA BoundsAreNumbers ==
    /\ MaxRev \in Nat /\ MaxStreams \in Nat /\ MaxEdits \in Nat /\ MaxFaults \in Nat
    /\ MaxCrashes \in Nat /\ MaxCancels \in Nat /\ MaxTrash \in Nat
    /\ 0 \notin Jobs
BY StreamingAssumption

\* The keys of the output rows.
LEMMA Keys ==
    /\ \A r \in Live!Rows : r[1] \in Templates /\ r[2] \in Live!Streams /\ r = <<r[1], r[2]>>
    /\ \A t \in Templates, n \in Live!Streams : <<t, n>> \in Live!Rows
    /\ Live!NoKey \notin Live!Rows
    /\ 0 \notin Live!Streams /\ Live!Streams \subseteq Nat
BY BoundsAreNumbers DEF Live!Rows, Live!Streams, Live!NoKey, Live!None

\* EligibleLiveTemplatesTx chooses among the templates.
LEMMA EligibleAreTemplates == \A tmpl : Live!Eligible(tmpl) \subseteq Templates
BY Zenon DEF Live!Eligible, Live!Visible

\* A row that is not there.
LEMMA NoRowType ==
    /\ Live!NoRow \in Live!OutputRow
    /\ Live!NoRow.status = "absent" /\ Live!NoRow.active = 0 /\ Live!NoRow.visible = FALSE
BY BoundsAreNumbers DEF Live!NoRow, Live!OutputRow, Live!None

\* A job that is not there.
LEMMA NoJobType ==
    Live!NoJob \in Live!JobRow /\ Live!NoJob.status = "absent" /\ Live!NoJob.row = Live!NoKey
BY BoundsAreNumbers DEF Live!NoJob, Live!JobRow

\* A worker without a job.
LEMMA IdleType == Live!Idle \in Live!WorkerState /\ Live!Idle.pc = "idle"
BY BoundsAreNumbers DEF Live!Idle, Live!WorkerState, Live!None

\* The columns of a row.
LEMMA RowTypes ==
    ASSUME NEW o, o \in Live!OutputRow
    PROVE  /\ o.status \in {"absent", "pending", "running", "ready", "failed"}
           /\ o.active \in Jobs \cup {0} /\ o.desired \in 0..MaxRev /\ o.rendered \in 0..MaxRev
           /\ o.visible \in BOOLEAN /\ o.version \in Nat
BY DEF Live!OutputRow, Live!None

\* A row from its columns.
LEMMA RowMade ==
    ASSUME NEW st \in {"absent", "pending", "running", "ready", "failed"},
           NEW a \in Jobs \cup {0}, NEW d \in 0..MaxRev, NEW e \in 0..MaxRev,
           NEW v \in BOOLEAN, NEW n \in Nat
    PROVE  [status |-> st, active |-> a, desired |-> d, rendered |-> e, visible |-> v,
            version |-> n] \in Live!OutputRow
BY DEF Live!OutputRow, Live!None

\* A row is its columns.
LEMMA RowRecord ==
    ASSUME NEW o, o \in Live!OutputRow
    PROVE  o = [status |-> o.status, active |-> o.active, desired |-> o.desired,
                rendered |-> o.rendered, visible |-> o.visible, version |-> o.version]
BY DEF Live!OutputRow

\* The columns of a job.
LEMMA JobTypes ==
    ASSUME NEW o, o \in Live!JobRow
    PROVE  /\ o.status \in {"absent", "pending", "running", "done", "failed", "cancelled"}
           /\ o.row \in Live!Rows \cup {Live!NoKey} /\ o.target \in 0..MaxRev
           /\ o.attempts \in Nat
BY DEF Live!JobRow

\* Ids for new jobs can be handed out.
Assignable(need) ==
    \E f \in [need -> Live!Fresh] : \A q, r \in need : f[q] = f[r] => q = r

\* A new id for every row that needs a job: of no other row, of no worker, of no job
\* under way.
LEMMA NewJobsAreNew ==
    ASSUME LiveInv, NEW need \in SUBSET Live!Rows, NEW rest \in [Live!Rows \ need -> Jobs \cup {0}],
           NEW hand \in [Workers -> Jobs \cup {0}],
           \A r \in Live!Rows : \/ row[r].active = 0
                                \/ \E w \in Workers : hand[w] = row[r].active
                                \/ r \in Live!Rows \ need /\ rest[r] = row[r].active,
           \A w \in Workers : hand[w] = worker[w].job
    PROVE  Assignable(need)
<1>1. PICK f \in [need -> Jobs] :
          /\ \A q, r \in need : f[q] = f[r] => q = r
          /\ \A r \in need : /\ \A w \in Workers : hand[w] # f[r]
                             /\ \A o \in Live!Rows \ need : rest[o] # f[r]
  <2>1. \A held \in [Workers -> Jobs \cup {0}] :
          \A active \in [Live!Rows \ need -> Jobs \cup {0}] :
             \E f \in [need -> Jobs] :
                /\ \A q, r \in need : f[q] = f[r] => q = r
                /\ \A r \in need : /\ \A w \in Workers : held[w] # f[r]
                                   /\ \A o \in Live!Rows \ need : active[o] # f[r]
    BY ONLY StreamingAssumption, need \in SUBSET Live!Rows, Zenon
  <2>2. \A active \in [Live!Rows \ need -> Jobs \cup {0}] :
             \E f \in [need -> Jobs] :
                /\ \A q, r \in need : f[q] = f[r] => q = r
                /\ \A r \in need : /\ \A w \in Workers : hand[w] # f[r]
                                   /\ \A o \in Live!Rows \ need : active[o] # f[r]
    BY ONLY <2>1, hand \in [Workers -> Jobs \cup {0}], Zenon
  <2> QED
    BY ONLY <2>2, rest \in [Live!Rows \ need -> Jobs \cup {0}], Zenon
<1>2. ASSUME NEW r \in need PROVE f[r] \in Live!Fresh
  <2> DEFINE j == f[r]
  <2>1. j \in Jobs /\ j # 0
    BY <1>1, BoundsAreNumbers
  <2>2. \A q \in Live!Rows : row[q].active # j
    BY <1>1, <2>1
  <2>3. \A w \in Workers : worker[w].job # j
    BY <1>1
  <2>4. job[j].status \notin {"pending", "running"}
    BY <2>1, <2>2, JobTypes DEF LiveInv, TablesFit, JobFits, Busy
  <2> QED
    BY <2>1, <2>2, <2>3, <2>4 DEF Live!Fresh
<1>3. f \in [need -> Live!Fresh]
  BY <1>1, <1>2
<1> QED
  BY <1>1, <1>3 DEF Assignable

\* What the workers hold.
LEMMA WorkerJobs ==
    ASSUME WorkersFit
    PROVE  /\ [w \in Workers |-> worker[w].job] \in [Workers -> Jobs \cup {0}]
           /\ \A w \in Workers : worker[w] \in Live!WorkerState
BY DEF WorkersFit, Live!WorkerState, Live!None

\* A fresh id is of no job under way, no row and no worker.
LEMMA FreshIds ==
    /\ \A j \in Live!Fresh : /\ j \in Jobs /\ j # 0 /\ job[j].status \notin Busy
                             /\ \A r \in Live!Rows : row[r].active # j
                             /\ \A w \in Workers : worker[w].job # j
BY BoundsAreNumbers DEF Live!Fresh, Busy

\* One new job for a row whose job a worker has.
LEMMA OneNewJob ==
    ASSUME LiveInv, NEW r \in Live!Rows, NEW w \in Workers, row[r].active = worker[w].job
    PROVE  Live!NewJobs({r})[r] \in Live!Fresh
<1> DEFINE rest == [q \in Live!Rows \ {r} |-> row[q].active]
           hand == [v \in Workers |-> worker[v].job]
<1>1. {r} \in SUBSET Live!Rows
  OBVIOUS
<1>2. rest \in [Live!Rows \ {r} -> Jobs \cup {0}]
  BY RowTypes DEF LiveInv, TablesFit
<1>3. hand \in [Workers -> Jobs \cup {0}]
  BY WorkerJobs DEF LiveInv
<1>4. \A q \in Live!Rows : \/ row[q].active = 0
                           \/ \E v \in Workers : hand[v] = row[q].active
                           \/ q \in Live!Rows \ {r} /\ rest[q] = row[q].active
  OBVIOUS
<1>5. Assignable({r})
  <2> HIDE DEF rest, hand
  <2>1. \A v \in Workers : hand[v] = worker[v].job
    BY DEF hand
  <2> QED
    BY <1>1, <1>2, <1>3, <1>4, <2>1, NewJobsAreNew
<1>6. Live!NewJobs({r}) \in [{r} -> Live!Fresh]
  BY <1>5 DEF Live!NewJobs, Assignable
<1> QED
  BY <1>6

\* New jobs for the rows of a stream that have none.
LEMMA SomeNewJobs ==
    ASSUME LiveInv, NEW n \in Live!Streams, NEW start \in SUBSET Templates,
           \A t \in start : row[<<t, n>>].active = 0
    PROVE  /\ Live!NewJobs(start) \in [start -> Live!Fresh]
           /\ \A t, u \in start : Live!NewJobs(start)[t] = Live!NewJobs(start)[u] => t = u
<1> DEFINE need == {r \in Live!Rows : r[1] \in start /\ r[2] = n}
           rest == [q \in Live!Rows \ need |-> row[q].active]
           hand == [v \in Workers |-> worker[v].job]
<1>1. need \in SUBSET Live!Rows
  OBVIOUS
<1>2. rest \in [Live!Rows \ need -> Jobs \cup {0}]
  BY RowTypes DEF LiveInv, TablesFit
<1>3. hand \in [Workers -> Jobs \cup {0}]
  BY WorkerJobs DEF LiveInv
<1>4. \A q \in Live!Rows : \/ row[q].active = 0
                           \/ \E v \in Workers : hand[v] = row[q].active
                           \/ q \in Live!Rows \ need /\ rest[q] = row[q].active
  <2> TAKE q \in Live!Rows
  <2>1. CASE q \in need
    BY <2>1, Keys
  <2>2. CASE q \notin need
    BY <2>2
  <2> QED
    BY <2>1, <2>2
<1>5. Assignable(need)
  <2> HIDE DEF need, rest, hand
  <2>1. \A v \in Workers : hand[v] = worker[v].job
    BY DEF hand
  <2> QED
    BY <1>1, <1>2, <1>3, <1>4, <2>1, NewJobsAreNew
<1>6. PICK f \in [need -> Live!Fresh] : \A p, q \in need : f[p] = f[q] => p = q
  BY <1>5 DEF Assignable
<1>7. \A t \in start : <<t, n>> \in need
  BY Keys
<1> DEFINE g == [t \in start |-> f[<<t, n>>]]
<1>8. g \in [start -> Live!Fresh]
  BY <1>6, <1>7
<1>9. ASSUME NEW t \in start, NEW u \in start, g[t] = g[u] PROVE t = u
  <2>1. <<t, n>> = <<u, n>>
    BY <1>6, <1>7, <1>9
  <2> QED
    BY <2>1
<1> HIDE DEF g
<1>10. \E h \in [start -> Live!Fresh] : \A t, u \in start : h[t] = h[u] => t = u
  BY <1>8, <1>9
<1> QED
  BY <1>10 DEF Live!NewJobs

-----------------------------------------------------------------------------
(* What becomes of the tables.                                             *)

\* ON DELETE CASCADE removes a job whose row is gone.
LEMMA CascadeType ==
    ASSUME NEW jobs \in [Jobs -> Live!JobRow], NEW rows
    PROVE  /\ Live!Cascade(jobs, rows) \in [Jobs -> Live!JobRow]
           /\ \A j \in Jobs :
                 \/ /\ Live!Cascade(jobs, rows)[j] = jobs[j]
                    /\ jobs[j].row # Live!NoKey => rows[jobs[j].row].status # "absent"
                 \/ Live!Cascade(jobs, rows)[j] = Live!NoJob
BY NoJobType DEF Live!Cascade

\* Rows are removed, with their jobs, or keep their job.
LEMMA CascadeFits ==
    ASSUME TablesFit, NEW rows \in [Live!Rows -> Live!OutputRow],
           \A r \in Live!Rows : \/ rows[r] = Live!NoRow
                                \/ rows[r].active = row[r].active /\ rows[r].status # "absent",
           row' = rows, job' = Live!Cascade(job, rows)
    PROVE  /\ TablesFit'
           /\ \A j \in Jobs : job'[j].status \in {job[j].status, "absent"}
<1>1. job \in [Jobs -> Live!JobRow]
  BY DEF TablesFit
<1>2. /\ job' \in [Jobs -> Live!JobRow]
      /\ \A j \in Jobs : \/ /\ job'[j] = job[j]
                            /\ job[j].row # Live!NoKey => rows[job[j].row].status # "absent"
                         \/ job'[j] = Live!NoJob
  BY <1>1, CascadeType
<1>3. \A r \in Live!Rows : RowFits(r)'
  BY NoRowType DEF RowFits
<1>4. ASSUME NEW j \in Jobs PROVE JobFits(j)'
  <2>1. CASE job'[j] = Live!NoJob
    BY <2>1, NoJobType DEF JobFits, Busy
  <2>2. CASE /\ job'[j] = job[j]
             /\ job[j].row # Live!NoKey => rows[job[j].row].status # "absent"
    <3>1. JobFits(j)
      BY DEF TablesFit
    <3>2. CASE job[j].status = "absent"
      BY <2>2, <3>2 DEF JobFits, Busy
    <3>3. CASE job[j].status # "absent"
      <4>1. job[j].row \in Live!Rows /\ rows[job[j].row].status # "absent"
        BY <2>2, <3>1, <3>3, Keys DEF JobFits
      <4>2. rows[job[j].row].active = row[job[j].row].active
        BY <4>1, NoRowType
      <4> QED
        BY <2>2, <3>1, <4>1, <4>2 DEF JobFits
    <3> QED
      BY <3>2, <3>3
  <2> QED
    BY <1>2, <2>1, <2>2
<1>5. \A j \in Jobs : job'[j].status \in {job[j].status, "absent"}
  BY <1>2, NoJobType
<1> QED
  BY <1>2, <1>3, <1>4, <1>5 DEF TablesFit

\* The workers do not mind.
LEMMA HoldersStay ==
    ASSUME WorkersFit, worker' = worker,
           \A w \in Workers : worker[w].pc # "idle" =>
               job'[worker[w].job].status \in {job[worker[w].job].status, "absent"}
    PROVE  WorkersFit'
<1>1. ASSUME NEW w \in Workers PROVE WorkerFits(w)'
  BY DEF WorkersFit, WorkerFits, Held
<1> QED
  BY <1>1 DEF WorkersFit, WorkersApart

\* Nor when jobs are removed.
LEMMA CascadeHolders ==
    ASSUME WorkersFit, worker' = worker, \A j \in Jobs : job'[j].status \in {job[j].status, "absent"}
    PROVE  WorkersFit'
BY HoldersStay DEF WorkersFit, WorkerFits

\* A row that is no longer wanted is hidden or gone.
LEMMA RetiredRow ==
    ASSUME NEW o, o \in Live!OutputRow, o.status = "absent" => o = Live!NoRow
    PROVE  /\ Live!Retired(o) \in Live!OutputRow
           /\ Live!Retired(o).visible = FALSE
           /\ \/ Live!Retired(o) = Live!NoRow
              \/ Live!Retired(o).active = o.active /\ Live!Retired(o).status # "absent"
           /\ o = Live!NoRow => Live!Retired(o) = Live!NoRow
<1>1. CASE o.active # 0 /\ o.status = "running"
  <2>1. Live!Retired(o) = [o EXCEPT !.visible = FALSE, !.version = @ + 1]
    BY <1>1 DEF Live!Retired, Live!None
  <2>2. PICK q : q = Live!Retired(o)
    OBVIOUS
  <2>3. q \in Live!OutputRow
    <3>1. q = [status |-> o.status, active |-> o.active, desired |-> o.desired,
               rendered |-> o.rendered, visible |-> FALSE, version |-> o.version + 1]
      BY <2>1, <2>2, RowRecord
    <3>2. o.version + 1 \in Nat /\ FALSE \in BOOLEAN
      BY RowTypes
    <3>3. /\ o.status \in {"absent", "pending", "running", "ready", "failed"}
          /\ o.active \in Jobs \cup {0} /\ o.desired \in 0..MaxRev /\ o.rendered \in 0..MaxRev
      BY RowTypes
    <3> QED
      BY ONLY <3>1, <3>2, <3>3, RowMade, Zenon
  <2>4. q.visible = FALSE /\ q.active = o.active /\ q.status = "running"
    BY <1>1, <2>1, <2>2 DEF Live!OutputRow
  <2>5. o # Live!NoRow
    BY <1>1, NoRowType
  <2> QED
    BY <2>2, <2>3, <2>4, <2>5
<1>2. CASE ~(o.active # 0 /\ o.status = "running")
  <2>1. Live!Retired(o) = Live!NoRow
    BY <1>2 DEF Live!Retired, Live!None
  <2> QED
    BY <2>1, NoRowType
<1> QED
  BY <1>1, <1>2

\* EndLiveTemplateStream hides or removes the rows of the stream.
LEMMA EndStreamFits ==
    ASSUME TablesFit, NEW n, Live!EndLiveTemplateStream(n)
    PROVE  /\ TablesFit'
           /\ \A j \in Jobs : job'[j].status \in {job[j].status, "absent"}
           /\ \A r \in Live!Rows : row'[r].visible => row[r].visible /\ r[2] # n
           /\ notified' = (notified \/ row' # row)
<1> DEFINE rows == [r \in Live!Rows |-> IF r[2] = n THEN Live!Retired(row[r]) ELSE row[r]]
<1>1. row' = rows /\ job' = Live!Cascade(job, rows) /\ notified' = (notified \/ row' # row)
  BY DEF Live!EndLiveTemplateStream
<1>2. \A r \in Live!Rows : row[r] \in Live!OutputRow /\ (row[r].status = "absent" => row[r] = Live!NoRow)
  BY DEF TablesFit, RowFits
<1>3. rows \in [Live!Rows -> Live!OutputRow]
  BY <1>2, RetiredRow
<1>4. \A r \in Live!Rows : \/ rows[r] = Live!NoRow
                           \/ rows[r].active = row[r].active /\ rows[r].status # "absent"
  BY <1>2, RetiredRow
<1>5. \A r \in Live!Rows : rows[r].visible => row[r].visible /\ r[2] # n
  BY <1>2, RetiredRow
<1> HIDE DEF rows
<1> QED
  BY <1>1, <1>3, <1>4, <1>5, CascadeFits
\* A row that is wanted is there, with a job.
LEMMA DemandedRow ==
    ASSUME NEW o, o \in Live!OutputRow, o.status = "absent" => o = Live!NoRow,
           NEW rev \in 1..MaxRev, NEW j \in Jobs \cup {0}, o.active = 0 => j \in Jobs
    PROVE  /\ Live!Demanded(o, rev, j) \in Live!OutputRow
           /\ Live!Demanded(o, rev, j).status # "absent"
           /\ Live!Demanded(o, rev, j).active = IF o.active = 0 THEN j ELSE o.active
<1>1. PICK made : made = IF o.status = "absent"
                THEN [Live!NoRow EXCEPT !.status = "pending", !.desired = rev,
                                   !.visible = TRUE, !.version = 1]
                ELSE IF rev > o.desired
                THEN [o EXCEPT !.desired = rev, !.version = @ + 1]
                ELSE o
  OBVIOUS
<1>2. made \in Live!OutputRow /\ made.status # "absent" /\ made.active = o.active
  <2>1. CASE o.status = "absent"
    <3>1. made = [Live!NoRow EXCEPT !.status = "pending", !.desired = rev,
                                   !.visible = TRUE, !.version = 1]
      BY <1>1, <2>1
    <3>2. made.status = "pending" /\ made.active = 0 /\ made \in Live!OutputRow
      <4>1. made = [status |-> "pending", active |-> 0, desired |-> rev, rendered |-> 0,
                    visible |-> TRUE, version |-> 1]
        BY <3>1 DEF Live!NoRow, Live!None
      <4>2. rev \in 0..MaxRev /\ 0 \in 0..MaxRev
        BY BoundsAreNumbers
      <4> QED
        BY <4>1, <4>2, RowMade
    <3> QED
      BY <2>1, <3>2, NoRowType
  <2>2. CASE o.status # "absent" /\ rev > o.desired
    <3>1. made = [o EXCEPT !.desired = rev, !.version = @ + 1]
      BY <1>1, <2>2
    <3>2. made \in Live!OutputRow
      <4>1. made = [status |-> o.status, active |-> o.active, desired |-> rev,
                    rendered |-> o.rendered, visible |-> o.visible, version |-> o.version + 1]
        <5>1. PICK p : p = o.version + 1
          OBVIOUS
        <5>2. made = [o EXCEPT !.desired = rev, !.version = p]
          BY <3>1, <5>1
        <5>3. o = [status |-> o.status, active |-> o.active, desired |-> o.desired,
                   rendered |-> o.rendered, visible |-> o.visible, version |-> o.version]
          BY RowRecord
        <5> QED
          BY ONLY <5>1, <5>2, <5>3
      <4>2. rev \in 0..MaxRev
        BY BoundsAreNumbers
      <4> QED
        BY <4>1, <4>2, RowTypes, RowMade
    <3>3. made.status = o.status /\ made.active = o.active
      BY <3>1 DEF Live!OutputRow
    <3> QED
      BY <2>2, <3>2, <3>3
  <2>3. CASE o.status # "absent" /\ ~(rev > o.desired)
    BY <1>1, <2>3
  <2> QED
    BY <2>1, <2>2, <2>3
<1>3. Live!Demanded(o, rev, j) = IF made.active = 0 THEN [made EXCEPT !.active = j, !.status = "pending"]
                                 ELSE made
  BY <1>1 DEF Live!Demanded, Live!Scheduled, Live!None
<1>4. CASE made.active = 0
  <2>1. PICK q : q = [made EXCEPT !.active = j, !.status = "pending"]
    OBVIOUS
  <2>2. q \in Live!OutputRow
    BY <1>2, <2>1 DEF Live!OutputRow, Live!None
  <2>3. q.active = j /\ q.status = "pending"
    BY <1>2, <2>1 DEF Live!OutputRow
  <2> QED
    BY <1>2, <1>3, <1>4, <2>1, <2>2, <2>3
<1>5. CASE made.active # 0
  BY <1>2, <1>3, <1>5
<1> QED
  BY <1>4, <1>5

\* The job that is made for a row.
LEMMA ScheduledJobType ==
    ASSUME NEW r \in Live!Rows
    PROVE  /\ Live!ScheduledJob(r) \in Live!JobRow
           /\ Live!ScheduledJob(r).status = "pending" /\ Live!ScheduledJob(r).row = r
BY BoundsAreNumbers DEF Live!ScheduledJob, Live!JobRow

\* Reconciliation: rows of the stream are retired, or kept and demanded; the jobs it
\* makes have new ids, one for each row that has none.
LEMMA ApplyFits ==
    ASSUME LiveInv, NEW tmpl, NEW rows \in [Live!Rows -> Live!OutputRow], NEW rev \in 0..MaxRev,
           stream.id \in Live!Streams,
           \A r \in Live!Rows : \/ rows[r] = row[r]
                                \/ rows[r] = Live!NoRow /\ r[1] \notin Live!Eligible(tmpl),
           Live!ApplyEligibility(tmpl, rows, rev)
    PROVE  /\ TablesFit'
           /\ \A w \in Workers : worker[w].pc # "idle" =>
                 job'[worker[w].job].status \in {job[worker[w].job].status, "absent"}
           /\ \A r \in Live!Rows : row'[r].visible =>
                 \/ r[2] = stream.id /\ r[1] \in Live!Eligible(tmpl)
                 \/ row[r].visible /\ r[2] # stream.id
           /\ notified' \in BOOLEAN
<1>1. PICK n : n = stream.id
  OBVIOUS
<1>2. PICK el : el = Live!Eligible(tmpl)
  OBVIOUS
<1>3. PICK start : start = {t \in el : rev > 0 /\ rows[<<t, n>>].active = 0}
  OBVIOUS
<1>4. PICK new : new = Live!NewJobs(start)
  OBVIOUS
<1>5. PICK after : after = [r \in Live!Rows |->
            IF r[2] # n \/ (r[1] \in el /\ rev = 0) THEN rows[r]
            ELSE IF r[1] \notin el THEN Live!Retired(rows[r])
            ELSE Live!Demanded(rows[r], rev, IF r[1] \in start THEN new[r[1]] ELSE 0)]
  OBVIOUS
<1>6. /\ row' = after
      /\ job' = [j \in Jobs |->
            IF \E t \in start : new[t] = j
            THEN Live!ScheduledJob(<<CHOOSE t \in start : new[t] = j, n>>)
            ELSE Live!Cascade(job, after)[j]]
      /\ notified' = (notified \/ after # row)
  BY <1>1, <1>2, <1>3, <1>4, <1>5 DEF Live!ApplyEligibility, Live!None
<1>7. el \subseteq Templates /\ n \in Live!Streams
  BY <1>1, <1>2, EligibleAreTemplates
<1>8. \A r \in Live!Rows : \/ rows[r] = row[r]
                           \/ rows[r] = Live!NoRow /\ r[1] \notin el
  BY <1>2
<1>9. start \in SUBSET Templates /\ \A t \in start : row[<<t, n>>].active = 0
  <2>1. start \subseteq el
    BY <1>3
  <2>2. ASSUME NEW t \in start PROVE row[<<t, n>>].active = 0
    <3>1. <<t, n>> \in Live!Rows
      BY <1>7, <2>1, Keys
    <3>2. rows[<<t, n>>] = row[<<t, n>>]
      BY <1>8, <2>1, <3>1
    <3> QED
      BY <1>3, <3>2
  <2> QED
    BY <1>7, <2>1, <2>2
<1>10. /\ new \in [start -> Live!Fresh]
       /\ \A t, u \in start : new[t] = new[u] => t = u
  BY <1>4, <1>7, <1>9, SomeNewJobs
<1>11. \A r \in Live!Rows : /\ row[r] \in Live!OutputRow /\ rows[r] \in Live!OutputRow
                            /\ rows[r].status = "absent" => rows[r] = Live!NoRow
  BY DEF LiveInv, TablesFit, RowFits
<1>12. ASSUME NEW r \in Live!Rows
       PROVE  /\ after[r] \in Live!OutputRow
              /\ after[r].status = "absent" => after[r] = Live!NoRow
              /\ \/ after[r] = Live!NoRow /\ (r[2] = n => r[1] \notin start)
                 \/ after[r].status # "absent" /\ after[r].active = row[r].active /\ ~(r[2] = n /\ r[1] \in start)
                 \/ after[r].status # "absent" /\ r[2] = n /\ r[1] \in start /\ after[r].active = new[r[1]]
              /\ after[r].visible => (r[2] = n /\ r[1] \in el) \/ (row[r].visible /\ r[2] # n)
  <2>1. CASE r[2] # n
    <3>1. after[r] = rows[r]
      BY <1>5, <2>1
    <3> QED
      BY <1>8, <1>11, <2>1, <3>1, NoRowType
  <2>2. CASE r[2] = n /\ r[1] \in el /\ rev = 0
    <3>1. after[r] = rows[r] /\ start = {}
      BY <1>3, <1>5, <2>2
    <3> QED
      BY <1>8, <1>11, <2>2, <3>1, NoRowType
  <2>3. CASE r[2] = n /\ r[1] \notin el
    <3>1. after[r] = Live!Retired(rows[r]) /\ r[1] \notin start
      BY <1>3, <1>5, <2>3
    <3>2. rows[r] = row[r] \/ rows[r] = Live!NoRow
      BY <1>8
    <3> QED
      BY <1>11, <2>3, <3>1, <3>2, RetiredRow, NoRowType
  <2>4. CASE r[2] = n /\ r[1] \in el /\ rev # 0
    <3>1. PICK k : k = IF r[1] \in start THEN new[r[1]] ELSE 0
      OBVIOUS
    <3>2. after[r] = Live!Demanded(rows[r], rev, k)
      BY <1>5, <2>4, <3>1
    <3>3. rows[r] = row[r] /\ r = <<r[1], n>>
      BY <1>8, <2>4, Keys
    <3>4. rev \in 1..MaxRev /\ rev > 0
      BY <2>4, BoundsAreNumbers
    <3>5. r[1] \in start <=> row[r].active = 0
      BY <1>3, <2>4, <3>3, <3>4
    <3>6. k \in Jobs \cup {0} /\ (row[r].active = 0 => k \in Jobs)
      BY <1>10, <3>1, <3>5, FreshIds
    <3>7. /\ after[r] \in Live!OutputRow /\ after[r].status # "absent"
          /\ after[r].active = IF row[r].active = 0 THEN k ELSE row[r].active
      BY <1>11, <3>2, <3>3, <3>4, <3>6, DemandedRow
    <3> QED
      BY <2>4, <3>1, <3>5, <3>7
  <2> QED
    BY <2>1, <2>2, <2>3, <2>4
<1>13. after \in [Live!Rows -> Live!OutputRow]
  BY <1>5, <1>12
<1>14. ASSUME NEW j \in Jobs
       PROVE  \/ \E t \in start : new[t] = j /\ job'[j] = Live!ScheduledJob(<<t, n>>)
              \/ (\A t \in start : new[t] # j) /\ job'[j] = Live!Cascade(job, after)[j]
  <2>1. CASE \E t \in start : new[t] = j
    <3>1. PICK t \in start : new[t] = j
      BY <2>1
    <3>2. (CHOOSE u \in start : new[u] = j) = t
      BY <1>10, <3>1
    <3> QED
      BY <1>6, <2>1, <3>1, <3>2
  <2>2. CASE ~ \E t \in start : new[t] = j
    BY <1>6, <2>2
  <2> QED
    BY <2>1, <2>2
<1>15. job \in [Jobs -> Live!JobRow]
  BY DEF LiveInv, TablesFit
<1>16. /\ Live!Cascade(job, after) \in [Jobs -> Live!JobRow]
       /\ \A j \in Jobs : \/ /\ Live!Cascade(job, after)[j] = job[j]
                             /\ job[j].row # Live!NoKey => after[job[j].row].status # "absent"
                          \/ Live!Cascade(job, after)[j] = Live!NoJob
  BY <1>15, CascadeType
<1>17. \A t \in start : /\ <<t, n>> \in Live!Rows /\ <<t, n>>[1] = t /\ <<t, n>>[2] = n
                        /\ after[<<t, n>>].active = new[t]
  <2> TAKE t \in start
  <2>1. <<t, n>> \in Live!Rows /\ <<t, n>>[1] = t /\ <<t, n>>[2] = n
    BY <1>7, <1>9, Keys
  <2> QED
    BY <1>12, <2>1
<1>18. ASSUME NEW j \in Jobs PROVE job'[j] \in Live!JobRow /\ JobFits(j)'
  <2>1. CASE \E t \in start : new[t] = j /\ job'[j] = Live!ScheduledJob(<<t, n>>)
    <3>1. PICK t \in start : new[t] = j /\ job'[j] = Live!ScheduledJob(<<t, n>>)
      BY <2>1
    <3>2. /\ job'[j] \in Live!JobRow /\ job'[j].status = "pending" /\ job'[j].row = <<t, n>>
      BY <1>17, <3>1, ScheduledJobType
    <3> QED
      BY <1>6, <1>17, <3>1, <3>2 DEF JobFits
  <2>2. CASE job'[j] = Live!NoJob
    BY <2>2, NoJobType DEF JobFits, Busy
  <2>3. CASE job'[j] = job[j] /\ (job[j].row # Live!NoKey => after[job[j].row].status # "absent")
    <3>1. JobFits(j) /\ job[j] \in Live!JobRow
      BY <1>15 DEF LiveInv, TablesFit
    <3>2. CASE job[j].status \notin Busy
      BY <2>3, <3>1, <3>2 DEF JobFits
    <3>3. CASE job[j].status \in Busy
      <4>1. PICK r : r = job[j].row
        OBVIOUS
      <4>2. r \in Live!Rows /\ row[r].active = j
        BY <3>1, <3>3, <4>1 DEF JobFits, Busy
      <4>3. after[r].status # "absent"
        BY <2>3, <4>1, <4>2, Keys
      <4>4. ~(r[2] = n /\ r[1] \in start)
        BY <1>9, <4>2, Keys, BoundsAreNumbers
      <4>5. after[r].active = j
        BY <1>12, <4>2, <4>3, <4>4, NoRowType
      <4> QED
        BY <1>6, <2>3, <3>1, <4>1, <4>2, <4>5 DEF JobFits
    <3> QED
      BY <3>2, <3>3
  <2> QED
    BY <1>14, <1>16, <2>1, <2>2, <2>3
<1>19. job' \in [Jobs -> Live!JobRow]
  BY <1>6, <1>18
<1>20. \A r \in Live!Rows : RowFits(r)'
  BY <1>6, <1>12 DEF RowFits
<1>21. ASSUME NEW w \in Workers, worker[w].pc # "idle"
       PROVE  job'[worker[w].job].status \in {job[worker[w].job].status, "absent"}
  <2>1. worker[w].job \in Jobs
    BY <1>21 DEF LiveInv, WorkersFit, WorkerFits
  <2>2. \A t \in start : new[t] # worker[w].job
    BY <1>10, FreshIds
  <2> QED
    BY <1>14, <1>16, <2>1, <2>2, NoJobType
<1>22. \A r \in Live!Rows : row'[r].visible =>
           \/ r[2] = stream.id /\ r[1] \in Live!Eligible(tmpl)
           \/ row[r].visible /\ r[2] # stream.id
  BY <1>1, <1>2, <1>6, <1>12
<1>23. notified' \in BOOLEAN
  BY <1>6
<1> QED
  BY <1>6, <1>13, <1>18, <1>19, <1>20, <1>21, <1>22, <1>23 DEF TablesFit
-----------------------------------------------------------------------------
(* Every operation keeps the invariant.                                    *)

\* Nothing is visible where there is no stream.
LEMMA NoStreamNothingVisible ==
    ASSUME LiveInv, stream.id \notin Live!Streams, bounds.faults = 0, bounds.trash = 0,
           NEW r \in Live!Rows
    PROVE  row[r].visible = FALSE
<1>1. row[r].visible \in BOOLEAN
  BY RowTypes DEF LiveInv, TablesFit
<1>2. ~row[r].visible
  BY Keys DEF LiveInv, VisibleFits
<1> QED
  BY <1>1, <1>2

\* ReconcileOwnerEligibilityTx, after the templates have become tmpl.
LEMMA ReconcileFits ==
    ASSUME LiveInv, NEW tmpl, NEW rows \in [Live!Rows -> Live!OutputRow],
           \A r \in Live!Rows : \/ rows[r] = row[r]
                                \/ rows[r] = Live!NoRow /\ r[1] \notin Live!Eligible(tmpl),
           Live!ReconcileOwnerEligibility(tmpl, rows),
           template' = tmpl, stream' = stream, trashed' = trashed, worker' = worker,
           bounds'.faults = bounds.faults, bounds'.trash = bounds.trash
    PROVE  TablesFit' /\ WorkersFit' /\ VisibleFits' /\ notified' \in BOOLEAN
<1>0. trashed' => bounds'.trash # 0
  BY DEF LiveInv, VisibleFits
<1>1. CASE stream.id \in Live!Streams /\ ~trashed
  <2>1. Live!ApplyEligibility(tmpl, rows, stream.rev) /\ stream.rev \in 0..MaxRev
    BY <1>1 DEF Live!ReconcileOwnerEligibility, Live!HasStream, LiveInv, NoteTypes, Live!Stream
  <2>2. /\ TablesFit'
        /\ \A w \in Workers : worker[w].pc # "idle" =>
              job'[worker[w].job].status \in {job[worker[w].job].status, "absent"}
        /\ \A r \in Live!Rows : row'[r].visible =>
              \/ r[2] = stream.id /\ r[1] \in Live!Eligible(tmpl)
              \/ row[r].visible /\ r[2] # stream.id
        /\ notified' \in BOOLEAN
    BY <1>1, <2>1, ApplyFits
  <2>3. WorkersFit'
    BY <2>2, HoldersStay DEF LiveInv
  <2>4. VisibleFits'
    <3>1. SUFFICES ASSUME bounds'.faults = 0, bounds'.trash = 0,
                          NEW r \in Live!Rows, row'[r].visible
                   PROVE  r[2] = stream'.id /\ r[1] \in Live!Eligible(template')
      BY <1>0 DEF VisibleFits
    <3>2. row[r].visible => r[2] = stream.id
      BY <3>1 DEF LiveInv, VisibleFits
    <3> QED
      BY <2>2, <3>1, <3>2
  <2> QED
    BY <2>2, <2>3, <2>4
<1>2. CASE ~(stream.id \in Live!Streams /\ ~trashed)
  <2>1. row' = rows /\ job' = Live!Cascade(job, rows) /\ notified' = notified
    BY <1>2 DEF Live!ReconcileOwnerEligibility, Live!HasStream
  <2>2. \A r \in Live!Rows : \/ rows[r] = Live!NoRow
                             \/ rows[r].active = row[r].active /\ rows[r].status # "absent"
    BY DEF LiveInv, TablesFit, RowFits
  <2>3. TablesFit' /\ \A j \in Jobs : job'[j].status \in {job[j].status, "absent"}
    BY <2>1, <2>2, CascadeFits DEF LiveInv
  <2>4. WorkersFit'
    BY <2>3, CascadeHolders DEF LiveInv
  <2>5. VisibleFits'
    <3>1. SUFFICES ASSUME bounds'.faults = 0, bounds'.trash = 0,
                          NEW r \in Live!Rows, row'[r].visible
                   PROVE  FALSE
      BY <1>0 DEF VisibleFits
    <3>2. stream.id \notin Live!Streams
      BY <1>2, <3>1 DEF LiveInv, VisibleFits
    <3>3. row[r].visible = FALSE /\ Live!NoRow.visible = FALSE
      BY <3>1, <3>2, NoStreamNothingVisible, NoRowType
    <3> QED
      BY <2>1, <3>1, <3>3
  <2>6. notified' \in BOOLEAN
    BY <2>1 DEF LiveInv, NoteTypes
  <2> QED
    BY <2>3, <2>4, <2>5, <2>6
<1> QED
  BY <1>1, <1>2

\* An edit is counted.
LEMMA EditCounts ==
    ASSUME LiveInv, Live!Edit
    PROVE  /\ bounds' \in [edits: 0..MaxEdits, faults: 0..MaxFaults,
                   crashes: 0..MaxCrashes, cancels: 0..MaxCancels, trash: 0..MaxTrash]
           /\ bounds'.faults = bounds.faults /\ bounds'.trash = bounds.trash
BY BoundsAreNumbers DEF Live!Edit, LiveInv, NoteTypes

\* A template changes, and its rows go if it is deleted.
LEMMA TemplateFits ==
    ASSUME LiveInv, NEW t \in Templates, NEW kind \in {"absent", "after", "during"},
           NEW rows \in [Live!Rows -> Live!OutputRow],
           \A r \in Live!Rows : \/ rows[r] = row[r]
                                \/ rows[r] = Live!NoRow /\ r[1] = t /\ kind = "absent",
           template' = [template EXCEPT ![t] = kind],
           Live!ReconcileOwnerEligibility(template', rows), Live!Edit,
           UNCHANGED <<stream, trashed, worker>>
    PROVE  LiveInv'
<1>1. PICK tmpl : tmpl = template'
  OBVIOUS
<1>2. template' \in [Templates -> {"absent", "after", "during"}] /\ tmpl[t] = kind
  BY <1>1 DEF LiveInv, NoteTypes
<1>3. kind = "absent" => t \notin Live!Eligible(tmpl)
  BY <1>2, Zenon DEF Live!Eligible, Live!Visible
<1>4. \A r \in Live!Rows : \/ rows[r] = row[r]
                           \/ rows[r] = Live!NoRow /\ r[1] \notin Live!Eligible(tmpl)
  BY <1>3
<1>5. Live!ReconcileOwnerEligibility(tmpl, rows)
  BY <1>1
<1>6. TablesFit' /\ WorkersFit' /\ VisibleFits' /\ notified' \in BOOLEAN
  BY <1>1, <1>4, <1>5, EditCounts, ReconcileFits
<1> QED
  BY <1>2, <1>6, EditCounts DEF LiveInv, NoteTypes

\* A template is created or updated.
LEMMA ChangeFits ==
    ASSUME LiveInv, NEW t \in Templates, NEW kind \in {"after", "during"},
           Live!CreateTemplate(t, kind) \/ Live!UpdateTemplate(t, kind)
    PROVE  LiveInv'
<1>1. /\ template' = [template EXCEPT ![t] = kind]
      /\ Live!ReconcileOwnerEligibility(template', row) /\ Live!Edit
      /\ UNCHANGED <<stream, trashed, worker>>
  BY DEF Live!CreateTemplate, Live!UpdateTemplate
<1>2. row \in [Live!Rows -> Live!OutputRow]
  BY DEF LiveInv, TablesFit
<1>3. PICK rows \in [Live!Rows -> Live!OutputRow] : rows = row
  BY <1>2
<1>4. Live!ReconcileOwnerEligibility(template', rows)
  BY <1>1, <1>3
<1>5. \A r \in Live!Rows : rows[r] = row[r]
  BY <1>3
<1> QED
  BY <1>1, <1>4, <1>5, TemplateFits

\* A template is deleted.
LEMMA DeleteTemplateFits ==
    ASSUME LiveInv, NEW t \in Templates, Live!DeleteTemplate(t)
    PROVE  LiveInv'
<1>1. PICK rows : rows = [r \in Live!Rows |-> IF r[1] = t THEN Live!NoRow ELSE row[r]]
  OBVIOUS
<1>2. /\ template' = [template EXCEPT ![t] = "absent"]
      /\ Live!ReconcileOwnerEligibility(template', rows) /\ Live!Edit
      /\ UNCHANGED <<stream, trashed, worker>>
  BY <1>1 DEF Live!DeleteTemplate
<1>3. /\ rows \in [Live!Rows -> Live!OutputRow]
      /\ \A r \in Live!Rows : \/ rows[r] = row[r]
                              \/ rows[r] = Live!NoRow /\ r[1] = t
  BY <1>1, NoRowType DEF LiveInv, TablesFit
<1> QED
  BY <1>2, <1>3, TemplateFits
\* A failure of a best-effort cleanup or reconciliation is counted.
LEMMA FaultCounts ==
    ASSUME LiveInv, bounds.faults < MaxFaults, bounds' = [bounds EXCEPT !.faults = @ + 1]
    PROVE  /\ bounds' \in [edits: 0..MaxEdits, faults: 0..MaxFaults,
                   crashes: 0..MaxCrashes, cancels: 0..MaxCancels, trash: 0..MaxTrash]
           /\ bounds'.faults # 0 /\ bounds'.trash = bounds.trash
BY BoundsAreNumbers DEF LiveInv, NoteTypes

\* Whatever becomes of the cleanup of the stream that ends.
LEMMA CleanupFits ==
    ASSUME LiveInv, Live!EndLiveStreamBestEffort(stream.id),
           UNCHANGED <<template, trashed, worker>>
    PROVE  /\ TablesFit' /\ WorkersFit' /\ VisibleFits' /\ notified' \in BOOLEAN
           /\ bounds' \in [edits: 0..MaxEdits, faults: 0..MaxFaults,
                   crashes: 0..MaxCrashes, cancels: 0..MaxCancels, trash: 0..MaxTrash]
<1>1. CASE Live!EndLiveTemplateStream(stream.id) /\ bounds' = bounds
  <2>1. PICK n : n = stream.id
    OBVIOUS
  <2>2. /\ TablesFit'
        /\ \A j \in Jobs : job'[j].status \in {job[j].status, "absent"}
        /\ \A r \in Live!Rows : row'[r].visible => row[r].visible /\ r[2] # n
        /\ notified' = (notified \/ row' # row)
    BY <1>1, <2>1, EndStreamFits DEF LiveInv
  <2>3. WorkersFit'
    BY <2>2, CascadeHolders DEF LiveInv
  <2>4. VisibleFits'
    BY <1>1, <2>1, <2>2 DEF LiveInv, VisibleFits
  <2> QED
    BY <1>1, <2>2, <2>3, <2>4 DEF LiveInv, NoteTypes
<1>2. CASE /\ bounds.faults < MaxFaults /\ bounds' = [bounds EXCEPT !.faults = @ + 1]
           /\ UNCHANGED <<row, job, notified>>
  <2>1. /\ bounds' \in [edits: 0..MaxEdits, faults: 0..MaxFaults,
                   crashes: 0..MaxCrashes, cancels: 0..MaxCancels, trash: 0..MaxTrash]
        /\ bounds'.faults # 0 /\ bounds'.trash = bounds.trash
    BY <1>2, FaultCounts
  <2>2. TablesFit'
    BY <1>2 DEF LiveInv, TablesFit, RowFits, JobFits
  <2>3. WorkersFit'
    BY <1>2, HoldersStay DEF LiveInv
  <2>4. VisibleFits'
    BY <2>1 DEF LiveInv, VisibleFits
  <2> QED
    BY <1>2, <2>1, <2>2, <2>3, <2>4 DEF LiveInv, NoteTypes
<1> QED
  BY <1>1, <1>2 DEF Live!EndLiveStreamBestEffort

\* Steps that leave the tables and the workers alone.
LEMMA TablesStay ==
    ASSUME TablesFit, UNCHANGED <<row, job>>
    PROVE  TablesFit'
BY DEF TablesFit, RowFits, JobFits

\* A new stream replaces the one before.
LEMMA CreateStreamFits ==
    ASSUME LiveInv, Live!CreateStreamTranscript
    PROVE  LiveInv'
<1>1. /\ stream.last < MaxStreams
      /\ stream' = [id |-> stream.last + 1, last |-> stream.last + 1, rev |-> 0]
      /\ IF stream.id \in Live!Streams THEN Live!EndLiveStreamBestEffort(stream.id)
         ELSE UNCHANGED <<row, job, notified, bounds>>
      /\ UNCHANGED <<template, trashed, worker>>
  BY DEF Live!CreateStreamTranscript, Live!HasStream
<1>2. stream' \in Live!Stream
  BY <1>1, BoundsAreNumbers DEF LiveInv, NoteTypes, Live!Stream
<1>3. CASE stream.id \in Live!Streams
  BY <1>1, <1>2, <1>3, CleanupFits DEF LiveInv, NoteTypes
<1>4. CASE stream.id \notin Live!Streams
  <2>1. TablesFit'
    BY <1>1, <1>4, TablesStay DEF LiveInv
  <2>2. WorkersFit'
    BY <1>1, <1>4, HoldersStay DEF LiveInv
  <2>3. VisibleFits'
    <3>1. bounds.faults = 0 /\ bounds.trash = 0 => \A r \in Live!Rows : row[r].visible = FALSE
      BY <1>4, NoStreamNothingVisible
    <3> QED
      BY <1>1, <1>4, <3>1 DEF LiveInv, VisibleFits
  <2> QED
    BY <1>1, <1>2, <1>4, <2>1, <2>2, <2>3 DEF LiveInv, NoteTypes
<1> QED
  BY <1>3, <1>4

\* The batch pipeline's transcript replaces the stream.
LEMMA SaveTranscriptFits ==
    ASSUME LiveInv, Live!SaveTranscript
    PROVE  LiveInv'
<1>1. /\ stream' = [stream EXCEPT !.id = -1, !.rev = 0]
      /\ Live!EndLiveStreamBestEffort(stream.id)
      /\ UNCHANGED <<template, trashed, worker>>
  BY DEF Live!SaveTranscript
<1>2. stream' \in Live!Stream
  <2>1. stream \in Live!Stream
    BY DEF LiveInv, NoteTypes
  <2>2. stream' = [id |-> -1, last |-> stream.last, rev |-> 0]
    BY <1>1, <2>1 DEF Live!Stream
  <2>3. -1 \in -1..MaxStreams /\ stream.last \in 0..MaxStreams /\ 0 \in 0..MaxRev
    BY <2>1, BoundsAreNumbers DEF Live!Stream
  <2> QED
    BY ONLY <2>2, <2>3 DEF Live!Stream
<1> QED
  BY <1>1, <1>2, CleanupFits DEF LiveInv, NoteTypes

\* A segment raises the demand of the eligible rows.
LEMMA AppendFits ==
    ASSUME LiveInv, Live!AppendStreamSegment
    PROVE  LiveInv'
<1>1. /\ stream.id \in Live!Streams /\ stream.rev < MaxRev
      /\ stream' = [stream EXCEPT !.rev = @ + 1]
      /\ \/ Live!ApplyEligibility(template, row, stream.rev + 1) /\ bounds' = bounds
         \/ /\ bounds.faults < MaxFaults
            /\ bounds' = [bounds EXCEPT !.faults = @ + 1]
            /\ UNCHANGED <<row, job, notified>>
      /\ UNCHANGED <<template, trashed, worker>>
  BY DEF Live!AppendStreamSegment, Live!HasStream
<1>2. stream' \in Live!Stream /\ stream'.id = stream.id /\ stream.rev + 1 \in 0..MaxRev
  BY <1>1, BoundsAreNumbers DEF LiveInv, NoteTypes, Live!Stream
<1>3. CASE Live!ApplyEligibility(template, row, stream.rev + 1) /\ bounds' = bounds
  <2>1. PICK tmpl : tmpl = template
    OBVIOUS
  <2>2. PICK rows \in [Live!Rows -> Live!OutputRow] : rows = row
    BY DEF LiveInv, TablesFit
  <2>3. PICK rev \in 0..MaxRev : rev = stream.rev + 1
    BY <1>2
  <2>4. Live!ApplyEligibility(tmpl, rows, rev)
    BY <1>3, <2>1, <2>2, <2>3
  <2>5. \A r \in Live!Rows : rows[r] = row[r]
    BY <2>2
  <2>6. /\ TablesFit'
        /\ \A w \in Workers : worker[w].pc # "idle" =>
              job'[worker[w].job].status \in {job[worker[w].job].status, "absent"}
        /\ \A r \in Live!Rows : row'[r].visible =>
              \/ r[2] = stream.id /\ r[1] \in Live!Eligible(tmpl)
              \/ row[r].visible /\ r[2] # stream.id
        /\ notified' \in BOOLEAN
    BY <1>1, <2>4, <2>5, ApplyFits
  <2>7. WorkersFit'
    BY <1>1, <2>6, HoldersStay DEF LiveInv
  <2>8. VisibleFits'
    <3>1. SUFFICES ASSUME bounds'.faults = 0, bounds'.trash = 0,
                          NEW r \in Live!Rows, row'[r].visible
                   PROVE  r[2] = stream'.id /\ r[1] \in Live!Eligible(template')
      BY <1>1, <1>3 DEF LiveInv, VisibleFits
    <3>2. row[r].visible => r[2] = stream.id
      BY <1>3, <3>1 DEF LiveInv, VisibleFits
    <3> QED
      BY <1>1, <1>2, <2>1, <2>6, <3>1, <3>2
  <2> QED
    BY <1>1, <1>2, <1>3, <2>6, <2>7, <2>8 DEF LiveInv, NoteTypes
<1>4. CASE /\ bounds.faults < MaxFaults /\ bounds' = [bounds EXCEPT !.faults = @ + 1]
           /\ UNCHANGED <<row, job, notified>>
  <2>1. /\ bounds' \in [edits: 0..MaxEdits, faults: 0..MaxFaults,
                   crashes: 0..MaxCrashes, cancels: 0..MaxCancels, trash: 0..MaxTrash]
        /\ bounds'.faults # 0 /\ bounds'.trash = bounds.trash
    BY <1>4, FaultCounts
  <2>2. TablesFit'
    BY <1>4, TablesStay DEF LiveInv
  <2>3. WorkersFit'
    BY <1>1, <1>4, HoldersStay DEF LiveInv
  <2>4. VisibleFits'
    BY <1>1, <2>1 DEF LiveInv, VisibleFits
  <2> QED
    BY <1>1, <1>2, <1>4, <2>1, <2>2, <2>3, <2>4 DEF LiveInv, NoteTypes
<1> QED
  BY <1>1, <1>3, <1>4

\* The note goes to the trash.
LEMMA DeleteNoteFits ==
    ASSUME LiveInv, Live!DeleteNote
    PROVE  LiveInv'
<1>1. /\ bounds.trash < MaxTrash /\ trashed' = TRUE
      /\ bounds' = [bounds EXCEPT !.trash = @ + 1]
      /\ IF stream.id \in Live!Streams THEN Live!EndLiveTemplateStream(stream.id)
         ELSE UNCHANGED <<row, job, notified>>
      /\ UNCHANGED <<template, stream, worker>>
  BY DEF Live!DeleteNote, Live!HasStream
<1>2. /\ bounds' \in [edits: 0..MaxEdits, faults: 0..MaxFaults,
                   crashes: 0..MaxCrashes, cancels: 0..MaxCancels, trash: 0..MaxTrash]
      /\ bounds'.trash # 0
  BY <1>1, BoundsAreNumbers DEF LiveInv, NoteTypes
<1>3. VisibleFits'
  BY <1>2 DEF VisibleFits
<1>4. CASE stream.id \in Live!Streams
  <2>1. PICK n : n = stream.id
    OBVIOUS
  <2>2. /\ TablesFit' /\ \A j \in Jobs : job'[j].status \in {job[j].status, "absent"}
        /\ notified' = (notified \/ row' # row)
    BY <1>1, <1>4, <2>1, EndStreamFits DEF LiveInv
  <2>3. WorkersFit'
    BY <1>1, <2>2, CascadeHolders DEF LiveInv
  <2> QED
    BY <1>1, <1>2, <1>3, <2>2, <2>3 DEF LiveInv, NoteTypes
<1>5. CASE stream.id \notin Live!Streams
  <2>1. TablesFit'
    BY <1>1, <1>5, TablesStay DEF LiveInv
  <2>2. WorkersFit'
    BY <1>1, <1>5, HoldersStay DEF LiveInv
  <2> QED
    BY <1>1, <1>2, <1>3, <1>5, <2>1, <2>2 DEF LiveInv, NoteTypes
<1> QED
  BY <1>4, <1>5

\* The note comes back.
LEMMA RestoreNoteFits ==
    ASSUME LiveInv, Live!RestoreNote
    PROVE  LiveInv'
<1>1. /\ trashed' = FALSE
      /\ UNCHANGED <<template, stream, row, job, worker, notified, bounds>>
  BY DEF Live!RestoreNote
<1>2. TablesFit' /\ WorkersFit'
  BY <1>1, TablesStay, HoldersStay DEF LiveInv
<1> QED
  BY <1>1, <1>2 DEF LiveInv, NoteTypes, VisibleFits

\* The sweep removes rows of other streams.
LEMMA RecoverFits ==
    ASSUME LiveInv, Live!RecoverLiveTemplateOutputs
    PROVE  LiveInv'
<1>1. PICK stale : stale = {r \in Live!Rows : Live!Exists(r) /\ r[2] # stream.id}
  OBVIOUS
<1>2. PICK rows : rows = [r \in Live!Rows |-> IF r \in stale THEN Live!NoRow ELSE row[r]]
  OBVIOUS
<1>3. /\ row' = rows /\ job' = Live!Cascade(job, rows) /\ notified' = TRUE
      /\ UNCHANGED <<template, stream, trashed, worker, bounds>>
  BY <1>1, <1>2 DEF Live!RecoverLiveTemplateOutputs
<1>4. /\ rows \in [Live!Rows -> Live!OutputRow]
      /\ \A r \in Live!Rows : \/ rows[r] = Live!NoRow
                              \/ rows[r].active = row[r].active /\ rows[r].status # "absent"
  BY <1>2, NoRowType DEF LiveInv, TablesFit, RowFits
<1>5. TablesFit' /\ \A j \in Jobs : job'[j].status \in {job[j].status, "absent"}
  BY <1>3, <1>4, CascadeFits DEF LiveInv
<1>6. WorkersFit'
  BY <1>3, <1>5, CascadeHolders DEF LiveInv
<1>7. VisibleFits'
  <2>1. \A r \in Live!Rows : row'[r].visible => row[r].visible
    BY <1>2, <1>3, NoRowType
  <2> QED
    BY <1>3, <2>1 DEF LiveInv, VisibleFits
<1> QED
  BY <1>3, <1>5, <1>6, <1>7 DEF LiveInv, NoteTypes
-----------------------------------------------------------------------------
(* The workers' steps.                                                     *)

\* A step of one worker on its job: the rows stay, and the job is not made busy unless it
\* was, keeps its row, and no other worker has it.
LEMMA OwnJob ==
    ASSUME LiveInv, NEW j \in Jobs, NEW o \in Live!JobRow,
           o.row = job[j].row, o.status # "absent", job[j].status # "absent",
           o.status \in Busy => job[j].status \in Busy,
           job' = [job EXCEPT ![j] = o], row' = row
    PROVE  /\ TablesFit'
           /\ job'[j] = o /\ \A i \in Jobs \ {j} : job'[i] = job[i]
<1>1. job \in [Jobs -> Live!JobRow]
  BY DEF LiveInv, TablesFit
<1>2. /\ job' \in [Jobs -> Live!JobRow]
      /\ job'[j] = o /\ \A i \in Jobs \ {j} : job'[i] = job[i]
  BY <1>1
<1>3. ASSUME NEW i \in Jobs PROVE JobFits(i)'
  <2>1. JobFits(i)
    BY DEF LiveInv, TablesFit
  <2> QED
    BY <1>2, <2>1 DEF JobFits
<1> QED
  BY <1>2, <1>3 DEF LiveInv, TablesFit, RowFits

\* One worker goes on, with its job or without one; the others' jobs are left alone.
LEMMA OneWorker ==
    ASSUME WorkersFit, NEW w \in Workers, NEW q \in Live!WorkerState,
           worker' = [worker EXCEPT ![w] = q],
           q.pc # "idle" => /\ q.job \in Jobs
                            /\ job'[q.job].status \in
                                 (IF q.pc = "complete" THEN {"running", "done", "absent"}
                                  ELSE IF q.pc = "terminal" THEN {"failed", "absent"}
                                  ELSE {"running", "absent"})
                            /\ \A v \in Workers \ {w} : worker[v].pc # "idle" => worker[v].job # q.job,
           \A v \in Workers \ {w} : worker[v].pc # "idle" =>
               job'[worker[v].job].status \in {job[worker[v].job].status, "absent"}
    PROVE  WorkersFit'
<1>1. /\ worker' \in [Workers -> Live!WorkerState]
      /\ worker'[w] = q /\ \A v \in Workers \ {w} : worker'[v] = worker[v]
  BY DEF WorkersFit
<1>2. ASSUME NEW v \in Workers PROVE WorkerFits(v)'
  <2>1. CASE v = w
    BY <1>1, <2>1 DEF WorkerFits, Held
  <2>2. CASE v # w
    BY <1>1, <2>2 DEF WorkersFit, WorkerFits, Held
  <2> QED
    BY <2>1, <2>2
<1>3. WorkersApart'
  BY <1>1 DEF WorkersFit, WorkersApart
<1> QED
  BY <1>1, <1>2, <1>3 DEF WorkersFit

\* What is known of a worker and its job.
LEMMA WorkerTypes ==
    ASSUME LiveInv, NEW w \in Workers
    PROVE  /\ worker[w] \in Live!WorkerState
           /\ worker[w].pc # "idle" => /\ worker[w].job \in Jobs
                                       /\ job[worker[w].job].status \in Held(w)
           /\ \A v \in Workers \ {w} : worker[v].pc # "idle" /\ worker[w].pc # "idle" =>
                 worker[v].job # worker[w].job
           /\ \A v \in Workers : worker[v].pc # "idle" => worker[v].job \in Jobs
BY DEF LiveInv, WorkersFit, WorkerFits, WorkersApart

\* Only the counters of the step change besides.
LEMMA RestStays ==
    ASSUME LiveInv, TablesFit', WorkersFit', notified' \in BOOLEAN,
           bounds' \in [edits: 0..MaxEdits, faults: 0..MaxFaults,
                   crashes: 0..MaxCrashes, cancels: 0..MaxCancels, trash: 0..MaxTrash],
           bounds'.faults = bounds.faults, bounds'.trash = bounds.trash,
           UNCHANGED <<template, stream, trashed>>,
           \A r \in Live!Rows : row'[r].visible => row[r].visible
    PROVE  LiveInv'
BY DEF LiveInv, NoteTypes, VisibleFits

\* An administrator cancels a pending job, which no worker has.
LEMMA CancelFits ==
    ASSUME LiveInv, NEW j \in Jobs, Live!CancelJob(j)
    PROVE  LiveInv'
<1>1. /\ job[j].status = "pending" /\ bounds.cancels < MaxCancels
      /\ job' = [job EXCEPT ![j].status = "cancelled"]
      /\ bounds' = [bounds EXCEPT !.cancels = @ + 1]
      /\ UNCHANGED <<template, stream, trashed, row, worker, notified>>
  BY DEF Live!CancelJob
<1>2. job[j] \in Live!JobRow
  BY DEF LiveInv, TablesFit
<1>3. PICK o : o = [job[j] EXCEPT !.status = "cancelled"]
  OBVIOUS
<1>4. o \in Live!JobRow /\ o.status = "cancelled" /\ o.row = job[j].row
  BY <1>2, <1>3 DEF Live!JobRow
<1>5. job' = [job EXCEPT ![j] = o]
  BY <1>1, <1>3
<1>6. TablesFit' /\ job'[j] = o /\ \A i \in Jobs \ {j} : job'[i] = job[i]
  BY <1>1, <1>4, <1>5, OwnJob DEF Busy
<1>7. \A w \in Workers : worker[w].pc # "idle" => worker[w].job # j /\ worker[w].job \in Jobs
  BY <1>1, WorkerTypes DEF Held
<1>8. WorkersFit'
  BY <1>1, <1>6, <1>7, HoldersStay DEF LiveInv
<1>9. /\ bounds' \in [edits: 0..MaxEdits, faults: 0..MaxFaults,
                   crashes: 0..MaxCrashes, cancels: 0..MaxCancels, trash: 0..MaxTrash]
      /\ bounds'.faults = bounds.faults /\ bounds'.trash = bounds.trash
  BY <1>1, BoundsAreNumbers DEF LiveInv, NoteTypes
<1>10. notified' \in BOOLEAN
  BY <1>1 DEF LiveInv, NoteTypes
<1> QED
  BY <1>1, <1>6, <1>8, <1>9, <1>10, RestStays

\* A worker takes a pending job, which no other has.
LEMMA ClaimJobFits ==
    ASSUME LiveInv, NEW w \in Workers, NEW j \in Jobs, Live!ClaimJob(w, j)
    PROVE  LiveInv'
<1>1. /\ job[j].status = "pending"
      /\ job' = [job EXCEPT ![j].status = "running", ![j].attempts = @ + 1]
      /\ worker' = [worker EXCEPT ![w] = [Live!Idle EXCEPT !.pc = "trash", !.job = j,
                                            !.attempts = job'[j].attempts]]
      /\ UNCHANGED <<template, stream, trashed, row, notified, bounds>>
  BY DEF Live!ClaimJob
<1>2. job[j] \in Live!JobRow /\ job \in [Jobs -> Live!JobRow]
  BY DEF LiveInv, TablesFit
<1>3. PICK o : o = [job[j] EXCEPT !.status = "running", !.attempts = @ + 1]
  OBVIOUS
<1>4. o \in Live!JobRow /\ o.status = "running" /\ o.row = job[j].row /\ o.attempts \in Nat
  <2>1. PICK p : p = job[j]
    OBVIOUS
  <2>2. o = [status |-> "running", row |-> p.row, target |-> p.target, attempts |-> p.attempts + 1]
    BY <1>2, <1>3, <2>1 DEF Live!JobRow
  <2>3. p.row \in Live!Rows \cup {Live!NoKey} /\ p.target \in 0..MaxRev /\ p.attempts + 1 \in Nat
    BY <1>2, <2>1, JobTypes
  <2>4. o \in Live!JobRow
    BY ONLY <2>2, <2>3 DEF Live!JobRow
  <2> QED
    BY <2>1, <2>2, <2>3, <2>4
<1>5. job' = [job EXCEPT ![j] = o]
  BY <1>1, <1>2, <1>3
<1>6. TablesFit' /\ job'[j] = o /\ \A i \in Jobs \ {j} : job'[i] = job[i]
  BY <1>1, <1>4, <1>5, OwnJob DEF Busy
<1>7. \A v \in Workers : worker[v].pc # "idle" => worker[v].job # j /\ worker[v].job \in Jobs
  BY <1>1, WorkerTypes DEF Held
<1>8. PICK q : q = [Live!Idle EXCEPT !.pc = "trash", !.job = j, !.attempts = o.attempts]
  OBVIOUS
<1>9. q \in Live!WorkerState /\ q.pc = "trash" /\ q.job = j
  BY <1>4, <1>8, IdleType, BoundsAreNumbers DEF Live!WorkerState, Live!Idle, Live!None
<1>10. worker' = [worker EXCEPT ![w] = q]
  BY <1>1, <1>6, <1>8
<1>11. WorkersFit'
  BY <1>4, <1>6, <1>7, <1>9, <1>10, OneWorker DEF LiveInv
<1> QED
  BY <1>1, <1>6, <1>11, RestStays DEF LiveInv, NoteTypes

\* A worker goes from one step of its job to the next and changes nothing else.
LEMMA GoOn ==
    ASSUME LiveInv, NEW w \in Workers, NEW q \in Live!WorkerState, worker[w].pc # "idle",
           worker' = [worker EXCEPT ![w] = q], q.job = worker[w].job,
           UNCHANGED <<template, stream, trashed, row, job, notified, bounds>>,
           \/ q.pc \in {"claim", "publish", "fail"} /\ worker[w].pc \notin {"complete", "terminal"}
           \/ q.pc = "complete" /\ worker[w].pc # "terminal"
    PROVE  LiveInv'
<1>1. TablesFit'
  BY TablesStay DEF LiveInv
<1>2. WorkersFit'
  BY WorkerTypes, OneWorker DEF LiveInv, Held
<1> QED
  BY <1>1, <1>2, RestStays DEF LiveInv, NoteTypes

\* A worker at its next step.
LEMMA NextPc ==
    ASSUME NEW p \in Live!WorkerState, NEW q,
           NEW k \in {"idle", "trash", "claim", "generate", "publish", "complete",
                      "fail", "terminal"},
           q = [p EXCEPT !.pc = k]
    PROVE  q \in Live!WorkerState /\ q.pc = k /\ q.job = p.job
BY DEF Live!WorkerState

\* The work of a trashed note is skipped.
LEMMA NoteIsTrashedFits ==
    ASSUME LiveInv, NEW w \in Workers, Live!NoteIsTrashed(w)
    PROVE  LiveInv'
<1>1. PICK k \in {"complete", "claim"} : k = IF trashed THEN "complete" ELSE "claim"
  OBVIOUS
<1>2. PICK q : q = [worker[w] EXCEPT !.pc = k]
  OBVIOUS
<1>3. /\ worker[w].pc = "trash" /\ worker' = [worker EXCEPT ![w].pc = k]
      /\ UNCHANGED <<template, stream, trashed, row, job, notified, bounds>>
  BY <1>1 DEF Live!NoteIsTrashed
<1>4. worker' = [worker EXCEPT ![w] = q]
  BY <1>2, <1>3
<1>5. q \in Live!WorkerState /\ q.pc = k /\ q.job = worker[w].job
  BY <1>2, WorkerTypes, NextPc
<1> QED
  BY <1>3, <1>4, <1>5, GoOn

\* The plugin answers.
LEMMA RunFits ==
    ASSUME LiveInv, NEW w \in Workers, Live!RunLiveGenerate(w)
    PROVE  LiveInv'
<1>1. /\ worker[w].pc = "generate"
      /\ UNCHANGED <<template, stream, trashed, row, job, notified, bounds>>
      /\ \/ \E k \in {"publish", "complete"} : worker' = [worker EXCEPT ![w].pc = k]
         \/ \E again \in BOOLEAN :
               worker' = [worker EXCEPT ![w].pc = "fail", ![w].retryable = again]
  BY DEF Live!RunLiveGenerate
<1>2. worker[w] \in Live!WorkerState
  BY WorkerTypes
<1>3. ASSUME NEW k \in {"publish", "complete"}, worker' = [worker EXCEPT ![w].pc = k]
      PROVE  LiveInv'
  <2>1. PICK q : q = [worker[w] EXCEPT !.pc = k]
    OBVIOUS
  <2>2. worker' = [worker EXCEPT ![w] = q]
    BY <1>3, <2>1
  <2>3. q \in Live!WorkerState /\ q.pc = k /\ q.job = worker[w].job
    BY <1>2, <2>1, NextPc
  <2> QED
    BY <1>1, <2>2, <2>3, GoOn
<1>4. ASSUME NEW again \in BOOLEAN,
             worker' = [worker EXCEPT ![w].pc = "fail", ![w].retryable = again]
      PROVE  LiveInv'
  <2>1. PICK q : q = [worker[w] EXCEPT !.pc = "fail", !.retryable = again]
    OBVIOUS
  <2>2. worker' = [worker EXCEPT ![w] = q]
    BY <1>4, <2>1 DEF LiveInv, WorkersFit
  <2>3. q \in Live!WorkerState
    BY <1>2, <2>1 DEF Live!WorkerState
  <2>4. q.pc = "fail" /\ q.job = worker[w].job
    BY <1>2, <2>1 DEF Live!WorkerState
  <2> QED
    BY <1>1, <2>2, <2>3, <2>4, GoOn
<1> QED
  BY <1>1, <1>3, <1>4
\* What a job becomes when only its status changes.
LEMMA NewStatus ==
    ASSUME NEW p \in Live!JobRow, NEW o,
           NEW k \in {"absent", "pending", "running", "done", "failed", "cancelled"},
           o = [p EXCEPT !.status = k]
    PROVE  o \in Live!JobRow /\ o.status = k /\ o.row = p.row
BY DEF Live!JobRow

\* A worker changes the status of its job, at most, and goes on to q.
LEMMA OwnStatus ==
    ASSUME LiveInv, NEW w \in Workers, worker[w].pc # "idle", NEW q \in Live!WorkerState,
           NEW k \in {"pending", "running", "done", "failed"},
           job' = IF job[worker[w].job].status = "absent" THEN job
                  ELSE [job EXCEPT ![worker[w].job].status = k],
           k \in Busy => job[worker[w].job].status \in Busy \cup {"absent"},
           worker' = [worker EXCEPT ![w] = q],
           q.pc = "idle" \/ (q.pc = "terminal" /\ k = "failed" /\ q.job = worker[w].job),
           row' = row
    PROVE  TablesFit' /\ WorkersFit'
<1>1. PICK j : j = worker[w].job
  OBVIOUS
<1>2. j \in Jobs /\ job[j] \in Live!JobRow /\ job \in [Jobs -> Live!JobRow]
  BY <1>1, WorkerTypes DEF LiveInv, TablesFit
<1>3. \A v \in Workers \ {w} : worker[v].pc # "idle" => worker[v].job \in Jobs \ {j}
  BY <1>1, WorkerTypes
<1>4. CASE job[j].status = "absent"
  <2>1. job' = job
    BY <1>1, <1>4
  <2>2. TablesFit'
    BY <2>1, TablesStay DEF LiveInv
  <2>3. WorkersFit'
    BY <1>1, <1>2, <1>3, <1>4, <2>1, OneWorker DEF LiveInv
  <2> QED
    BY <2>2, <2>3
<1>5. CASE job[j].status # "absent"
  <2>1. PICK o : o = [job[j] EXCEPT !.status = k]
    OBVIOUS
  <2>2. job' = [job EXCEPT ![j] = o]
    BY <1>1, <1>2, <1>5, <2>1
  <2>3. o \in Live!JobRow /\ o.status = k /\ o.row = job[j].row
    BY <1>2, <2>1, NewStatus
  <2>4. k \in Busy => job[j].status \in Busy
    BY <1>1, <1>5
  <2>5. TablesFit' /\ job'[j] = o /\ \A i \in Jobs \ {j} : job'[i] = job[i]
    BY <1>2, <1>5, <2>2, <2>3, <2>4, OwnJob
  <2>6. WorkersFit'
    <3>1. q.pc # "idle" => /\ q.job \in Jobs
                            /\ job'[q.job].status \in
                                 (IF q.pc = "complete" THEN {"running", "done", "absent"}
                                  ELSE IF q.pc = "terminal" THEN {"failed", "absent"}
                                  ELSE {"running", "absent"})
                            /\ \A v \in Workers \ {w} : worker[v].pc # "idle" => worker[v].job # q.job
      BY <1>1, <1>2, <1>3, <2>3, <2>5
    <3>2. \A v \in Workers \ {w} : worker[v].pc # "idle" =>
               job'[worker[v].job].status \in {job[worker[v].job].status, "absent"}
      BY <1>3, <2>5
    <3>3. WorkersFit
      BY DEF LiveInv
    <3> HIDE DEF Busy
    <3> QED
      BY <3>1, <3>2, <3>3, OneWorker
  <2> QED
    BY <2>5, <2>6
<1> QED
  BY <1>4, <1>5

\* A job is done.
LEMMA CompleteJobFits ==
    ASSUME LiveInv, NEW w \in Workers, Live!CompleteJob(w)
    PROVE  LiveInv'
<1>1. /\ worker[w].pc = "complete"
      /\ job' = IF job[worker[w].job].status = "absent" THEN job
                ELSE [job EXCEPT ![worker[w].job].status = "done"]
      /\ worker' = [worker EXCEPT ![w] = Live!Idle]
      /\ UNCHANGED <<template, stream, trashed, row, notified, bounds>>
  BY DEF Live!CompleteJob
<1>2. TablesFit' /\ WorkersFit'
  BY <1>1, IdleType, OwnStatus DEF Busy
<1> QED
  BY <1>1, <1>2, RestStays DEF LiveInv, NoteTypes

\* A job fails, to be run again or for good.
LEMMA FailJobFits ==
    ASSUME LiveInv, NEW w \in Workers, Live!FailJob(w)
    PROVE  LiveInv'
<1>1. PICK j : j = worker[w].job
  OBVIOUS
<1>2. /\ worker[w].pc = "fail"
      /\ \/ /\ job[j].status = "absent"
            /\ worker' = [worker EXCEPT ![w] = Live!Idle]
            /\ job' = job
         \/ /\ job[j].status # "absent"
            /\ job' = [job EXCEPT ![j].status = "pending"]
            /\ worker' = [worker EXCEPT ![w] = Live!Idle]
         \/ /\ job[j].status # "absent"
            /\ job' = [job EXCEPT ![j].status = "failed"]
            /\ worker' = [worker EXCEPT ![w].pc = "terminal"]
      /\ UNCHANGED <<template, stream, trashed, row, notified, bounds>>
  BY <1>1 DEF Live!FailJob
<1>3. worker[w] \in Live!WorkerState /\ job[j].status \in {"running", "absent"}
  BY <1>1, <1>2, WorkerTypes DEF Held
<1>4. TablesFit' /\ WorkersFit'
  <2>1. CASE job[j].status = "absent" /\ worker' = [worker EXCEPT ![w] = Live!Idle] /\ job' = job
    BY <1>1, <1>2, <2>1, IdleType, OwnStatus DEF Busy
  <2>2. CASE /\ job[j].status # "absent"
             /\ job' = [job EXCEPT ![j].status = "pending"]
             /\ worker' = [worker EXCEPT ![w] = Live!Idle]
    BY <1>1, <1>2, <1>3, <2>2, IdleType, OwnStatus DEF Busy
  <2>3. CASE /\ job[j].status # "absent"
             /\ job' = [job EXCEPT ![j].status = "failed"]
             /\ worker' = [worker EXCEPT ![w].pc = "terminal"]
    <3>1. PICK q : q = [worker[w] EXCEPT !.pc = "terminal"]
      OBVIOUS
    <3>2. worker' = [worker EXCEPT ![w] = q]
      BY <2>3, <3>1
    <3>3. q \in Live!WorkerState /\ q.pc = "terminal" /\ q.job = worker[w].job
      BY <1>3, <3>1, NextPc
    <3> QED
      BY <1>1, <1>2, <2>3, <3>2, <3>3, OwnStatus DEF Busy
  <2> QED
    BY <1>2, <2>1, <2>2, <2>3
<1> QED
  BY <1>2, <1>4, RestStays DEF LiveInv, NoteTypes

\* A worker dies, and its job is queued again.
LEMMA CrashFits ==
    ASSUME LiveInv, NEW w \in Workers, Live!Crash(w)
    PROVE  LiveInv'
<1>1. PICK j : j = worker[w].job
  OBVIOUS
<1>2. /\ worker[w].pc # "idle" /\ bounds.crashes < MaxCrashes
      /\ job' = IF job[j].status = "running" THEN [job EXCEPT ![j].status = "pending"] ELSE job
      /\ worker' = [worker EXCEPT ![w] = Live!Idle]
      /\ bounds' = [bounds EXCEPT !.crashes = @ + 1]
      /\ UNCHANGED <<template, stream, trashed, row, notified>>
  BY <1>1 DEF Live!Crash
<1>3. TablesFit' /\ WorkersFit'
  <2>1. CASE job[j].status = "running"
    <3>1. job' = [job EXCEPT ![j].status = "pending"]
      BY <1>2, <2>1
    <3> QED
      BY <1>1, <1>2, <2>1, <3>1, IdleType, OwnStatus DEF Busy
  <2>2. CASE job[j].status # "running"
    <3>1. job' = job
      BY <1>2, <2>2
    <3>2. TablesFit'
      BY <1>2, <3>1, TablesStay DEF LiveInv
    <3>3. WorkersFit'
      BY <1>2, <3>1, IdleType, OneWorker DEF LiveInv
    <3> QED
      BY <3>2, <3>3
  <2> QED
    BY <2>1, <2>2
<1>4. /\ bounds' \in [edits: 0..MaxEdits, faults: 0..MaxFaults,
                   crashes: 0..MaxCrashes, cancels: 0..MaxCancels, trash: 0..MaxTrash]
      /\ bounds'.faults = bounds.faults /\ bounds'.trash = bounds.trash
  BY <1>2, BoundsAreNumbers DEF LiveInv, NoteTypes
<1>5. notified' \in BOOLEAN
  BY <1>2 DEF LiveInv, NoteTypes
<1> QED
  BY <1>2, <1>3, <1>4, <1>5, RestStays

\* discardIneligibleLiveRowTx: the row goes, and its jobs with it.
LEMMA DropFits ==
    ASSUME LiveInv, NEW r \in Live!Rows, NEW rows, rows = [row EXCEPT ![r] = Live!NoRow],
           row' = rows, job' = Live!Cascade(job, rows)
    PROVE  /\ TablesFit'
           /\ \A j \in Jobs : job'[j].status \in {job[j].status, "absent"}
           /\ \A q \in Live!Rows : row'[q].visible => row[q].visible
<1>1. /\ rows \in [Live!Rows -> Live!OutputRow]
      /\ \A q \in Live!Rows : \/ rows[q] = Live!NoRow
                              \/ rows[q].active = row[q].active /\ rows[q].status # "absent"
  BY NoRowType DEF LiveInv, TablesFit, RowFits
<1>2. TablesFit' /\ \A j \in Jobs : job'[j].status \in {job[j].status, "absent"}
  BY <1>1, CascadeFits DEF LiveInv
<1>3. \A q \in Live!Rows : row'[q].visible => row[q].visible
  BY NoRowType DEF LiveInv, TablesFit
<1> QED
  BY <1>2, <1>3
\* The worker of a job that exists: the job's row is one of the table.
LEMMA JobsRow ==
    ASSUME LiveInv, NEW w \in Workers, worker[w].pc # "idle",
           job[worker[w].job].status # "absent"
    PROVE  /\ worker[w].job \in Jobs /\ job[worker[w].job] \in Live!JobRow
           /\ job[worker[w].job].row \in Live!Rows
           /\ row[job[worker[w].job].row] \in Live!OutputRow
BY WorkerTypes DEF LiveInv, TablesFit, JobFits

\* The claim of a row that is still wanted.
LEMMA ClaimedFits ==
    ASSUME LiveInv, NEW w \in Workers, NEW j \in Jobs, j = worker[w].job,
           worker[w].pc = "claim", NEW r \in Live!Rows, r = job[j].row,
           job[j].status # "absent", row[r].active = j, NEW target \in 0..MaxRev,
           row' = [row EXCEPT ![r].status = "running", ![r].version = @ + 1],
           job' = [job EXCEPT ![j].target = target],
           worker' = [worker EXCEPT ![w].pc = "generate", ![w].target = target]
    PROVE  /\ TablesFit' /\ WorkersFit'
           /\ \A q \in Live!Rows : row'[q].visible => row[q].visible
<1>1. /\ row \in [Live!Rows -> Live!OutputRow] /\ job \in [Jobs -> Live!JobRow]
      /\ row[r] \in Live!OutputRow /\ job[j] \in Live!JobRow
      /\ worker[w] \in Live!WorkerState /\ worker \in [Workers -> Live!WorkerState]
  BY DEF LiveInv, TablesFit, WorkersFit
<1>2. PICK p : p = row[r]
  OBVIOUS
<1>3. PICK o : o = [p EXCEPT !.status = "running", !.version = @ + 1]
  OBVIOUS
<1>4. o \in Live!OutputRow /\ o.status = "running" /\ o.active = p.active /\ o.visible = p.visible
  <2>1. p = [status |-> p.status, active |-> p.active, desired |-> p.desired,
             rendered |-> p.rendered, visible |-> p.visible, version |-> p.version]
    BY <1>1, <1>2, RowRecord
  <2>2. PICK m : m = p.version + 1
    OBVIOUS
  <2>3. o = [p EXCEPT !.status = "running", !.version = m]
    BY <1>3, <2>2
  <2>4. o = [status |-> "running", active |-> p.active, desired |-> p.desired,
             rendered |-> p.rendered, visible |-> p.visible, version |-> m]
    BY ONLY <2>1, <2>3
  <2>5. /\ p.active \in Jobs \cup {0} /\ p.desired \in 0..MaxRev /\ p.rendered \in 0..MaxRev
        /\ p.visible \in BOOLEAN /\ m \in Nat
    BY <1>1, <1>2, <2>2, RowTypes
  <2>6. o \in Live!OutputRow
    BY ONLY <2>4, <2>5, RowMade
  <2> QED
    BY <2>4, <2>6
<1>5. row' = [row EXCEPT ![r] = o]
  BY <1>1, <1>2, <1>3
<1>6. PICK i : i = [job[j] EXCEPT !.target = target]
  OBVIOUS
<1>7. i \in Live!JobRow /\ i.status = job[j].status /\ i.row = r
  BY <1>1, <1>6 DEF Live!JobRow
<1>8. /\ job' \in [Jobs -> Live!JobRow] /\ job'[j] = i /\ \A k \in Jobs \ {j} : job'[k] = job[k]
      /\ row' \in [Live!Rows -> Live!OutputRow]
      /\ row'[r] = o /\ \A q \in Live!Rows \ {r} : row'[q] = row[q]
  BY <1>1, <1>4, <1>5, <1>6, <1>7
<1>9. ASSUME NEW k \in Jobs PROVE JobFits(k)'
  <2>1. JobFits(k)
    BY DEF LiveInv, TablesFit
  <2>2. job'[k].status = job[k].status /\ job'[k].row = job[k].row
    BY <1>7, <1>8
  <2>3. \A q \in Live!Rows : row'[q].active = row[q].active
    BY <1>2, <1>4, <1>8
  <2> QED
    BY <2>1, <2>2, <2>3 DEF JobFits, Busy
<1>10. \A q \in Live!Rows : RowFits(q)'
  BY <1>4, <1>8 DEF LiveInv, TablesFit, RowFits
<1>11. TablesFit'
  BY <1>8, <1>9, <1>10 DEF TablesFit
<1>12. PICK q : q = [worker[w] EXCEPT !.pc = "generate", !.target = target]
  OBVIOUS
<1>13. q \in Live!WorkerState /\ q.pc = "generate" /\ q.job = j
  BY <1>1, <1>12 DEF Live!WorkerState
<1>14. worker' = [worker EXCEPT ![w] = q]
  BY <1>1, <1>12
<1>15. \A k \in Jobs : job'[k].status = job[k].status
  BY <1>7, <1>8
<1>16. job'[j].status \in {"running", "absent"}
  BY <1>15, WorkerTypes DEF Held
<1>17. \A v \in Workers \ {w} : worker[v].pc # "idle" => worker[v].job \in Jobs \ {j}
  BY WorkerTypes
<1>18. WorkersFit'
  <2>1. /\ q.job \in Jobs
        /\ job'[q.job].status \in (IF q.pc = "complete" THEN {"running", "done", "absent"}
                                  ELSE IF q.pc = "terminal" THEN {"failed", "absent"}
                                  ELSE {"running", "absent"})
        /\ \A v \in Workers \ {w} : worker[v].pc # "idle" => worker[v].job # q.job
    BY <1>13, <1>16, <1>17
  <2>2. \A v \in Workers \ {w} : worker[v].pc # "idle" =>
            job'[worker[v].job].status \in {job[worker[v].job].status, "absent"}
    BY <1>15, <1>17
  <2>3. WorkersFit
    BY DEF LiveInv
  <2> QED
    BY <1>13, <1>14, <2>1, <2>2, <2>3, OneWorker
<1>19. \A n \in Live!Rows : row'[n].visible => row[n].visible
  BY <1>2, <1>4, <1>8
<1> QED
  BY <1>11, <1>18, <1>19

\* ClaimLiveGenerateJobTx.
LEMMA ClaimLiveFits ==
    ASSUME LiveInv, NEW w \in Workers, Live!ClaimLiveGenerateJob(w)
    PROVE  LiveInv'
<1>1. PICK j : j = worker[w].job
  OBVIOUS
<1>2. PICK r : r = job[j].row
  OBVIOUS
<1>3. PICK rows : rows = [row EXCEPT ![r] = Live!NoRow]
  OBVIOUS
<1>4. PICK target : target = IF job[j].target = 0 THEN row[r].desired ELSE job[j].target
  OBVIOUS
<1>5. /\ worker[w].pc = "claim"
      /\ \/ /\ job[j].status = "absent"
            /\ worker' = [worker EXCEPT ![w].pc = "complete"]
            /\ UNCHANGED <<row, job, notified>>
         \/ /\ job[j].status # "absent"
            /\ row' = rows
            /\ job' = Live!Cascade(job, rows)
            /\ worker' = [worker EXCEPT ![w].pc = "complete"]
            /\ UNCHANGED notified
         \/ /\ job[j].status # "absent" /\ Live!Fence(j)
            /\ row' = [row EXCEPT ![r].status = "running", ![r].version = @ + 1]
            /\ job' = [job EXCEPT ![j].target = target]
            /\ worker' = [worker EXCEPT ![w].pc = "generate", ![w].target = target]
            /\ notified' = TRUE
      /\ UNCHANGED <<template, stream, trashed, bounds>>
  BY <1>1, <1>2, <1>3, <1>4 DEF Live!ClaimLiveGenerateJob
<1>6. PICK q : q = [worker[w] EXCEPT !.pc = "complete"]
  OBVIOUS
<1>7. q \in Live!WorkerState /\ q.pc = "complete" /\ q.job = j /\ j \in Jobs
  BY <1>1, <1>5, <1>6, WorkerTypes, NextPc
<1>8. job[j].status \in {"running", "absent"}
  BY <1>1, <1>5, WorkerTypes DEF Held
<1>9. CASE /\ job[j].status = "absent"
           /\ worker' = [worker EXCEPT ![w].pc = "complete"]
           /\ UNCHANGED <<row, job, notified>>
  <2>1. worker' = [worker EXCEPT ![w] = q]
    BY <1>6, <1>9
  <2> QED
    BY <1>1, <1>5, <1>7, <1>9, <2>1, GoOn
<1>10. CASE /\ job[j].status # "absent"
            /\ row' = rows
            /\ job' = Live!Cascade(job, rows)
            /\ worker' = [worker EXCEPT ![w].pc = "complete"]
            /\ UNCHANGED notified
  <2>1. worker' = [worker EXCEPT ![w] = q]
    BY <1>6, <1>10
  <2>2. r \in Live!Rows
    BY <1>1, <1>2, <1>5, <1>10, JobsRow
  <2>3. /\ TablesFit'
        /\ \A i \in Jobs : job'[i].status \in {job[i].status, "absent"}
        /\ \A p \in Live!Rows : row'[p].visible => row[p].visible
    BY <1>3, <1>10, <2>2, DropFits
  <2>4. \A v \in Workers \ {w} : worker[v].pc # "idle" => worker[v].job \in Jobs \ {j}
    BY <1>1, <1>5, WorkerTypes
  <2>5. WorkersFit'
    BY <1>7, <1>8, <2>1, <2>3, <2>4, OneWorker DEF LiveInv
  <2> QED
    BY <1>5, <1>10, <2>3, <2>5, RestStays DEF LiveInv, NoteTypes
<1>11. CASE /\ job[j].status # "absent" /\ Live!Fence(j)
            /\ row' = [row EXCEPT ![r].status = "running", ![r].version = @ + 1]
            /\ job' = [job EXCEPT ![j].target = target]
            /\ worker' = [worker EXCEPT ![w].pc = "generate", ![w].target = target]
            /\ notified' = TRUE
  <2>1. r \in Live!Rows /\ job[j] \in Live!JobRow /\ row[r] \in Live!OutputRow
    BY <1>1, <1>2, <1>5, <1>11, JobsRow
  <2>2. row[r].active = j
    BY <1>2, <1>11 DEF Live!Fence
  <2>3. target \in 0..MaxRev
    BY <1>4, <2>1, RowTypes, JobTypes
  <2>4. /\ TablesFit' /\ WorkersFit'
        /\ \A p \in Live!Rows : row'[p].visible => row[p].visible
    BY <1>1, <1>2, <1>5, <1>7, <1>11, <2>1, <2>2, <2>3, ClaimedFits
  <2> QED
    BY <1>5, <1>11, <2>4, RestStays DEF LiveInv, NoteTypes
<1> QED
  BY <1>5, <1>9, <1>10, <1>11
\* The row r becomes o and its job j over; a job i follows it when demand has grown.
Follows(j, r, o, k, i, grown) ==
    /\ row' = [row EXCEPT ![r] = IF grown THEN Live!Scheduled(o, i) ELSE o]
    /\ job' = [n \in Jobs |-> IF n = j THEN [job[j] EXCEPT !.status = k]
                              ELSE IF grown /\ n = i THEN Live!ScheduledJob(r)
                              ELSE job[n]]

\* The end of both completions, of a row that is still wanted: the job of the row is over,
\* and a new one follows it when demand has grown.
LEMMA SettledFits ==
    ASSUME LiveInv, NEW w \in Workers, NEW j \in Jobs, j = worker[w].job, worker[w].pc # "idle",
           NEW r \in Live!Rows, r = job[j].row, job[j].status # "absent", row[r].active = j,
           NEW o \in Live!OutputRow, o.active = 0, o.status # "absent", o.visible = row[r].visible,
           NEW k \in {"done", "failed"}, NEW i \in Live!Fresh, NEW grown \in BOOLEAN,
           Follows(j, r, o, k, i, grown)
    PROVE  /\ TablesFit'
           /\ job'[j].status = k
           /\ \A v \in Workers \ {w} : worker[v].pc # "idle" =>
                 job'[worker[v].job].status \in {job[worker[v].job].status, "absent"}
           /\ \A q \in Live!Rows : row'[q].visible => row[q].visible
<1>1. /\ row \in [Live!Rows -> Live!OutputRow] /\ job \in [Jobs -> Live!JobRow]
      /\ \A n \in Jobs : JobFits(n)
      /\ \A q \in Live!Rows : RowFits(q)
  BY DEF LiveInv, TablesFit
<1>2. /\ i \in Jobs /\ i # 0 /\ i # j /\ job[i].status \notin Busy
      /\ \A v \in Workers : worker[v].job # i
  BY FreshIds
<1>3. PICK s : s = Live!Scheduled(o, i)
  OBVIOUS
<1>4. s \in Live!OutputRow /\ s.status = "pending" /\ s.active = i /\ s.visible = o.visible
  <2>1. s = [o EXCEPT !.active = i, !.status = "pending"]
    BY <1>3 DEF Live!Scheduled
  <2>2. o = [status |-> o.status, active |-> o.active, desired |-> o.desired,
             rendered |-> o.rendered, visible |-> o.visible, version |-> o.version]
    BY RowRecord
  <2>3. s = [status |-> "pending", active |-> i, desired |-> o.desired,
             rendered |-> o.rendered, visible |-> o.visible, version |-> o.version]
    BY ONLY <2>1, <2>2
  <2>4. /\ o.desired \in 0..MaxRev /\ o.rendered \in 0..MaxRev
        /\ o.visible \in BOOLEAN /\ o.version \in Nat
    BY RowTypes
  <2>5. s \in Live!OutputRow
    BY ONLY <1>2, <2>3, <2>4, RowMade
  <2> QED
    BY <2>3, <2>5
<1>5. PICK p : p = [job[j] EXCEPT !.status = k]
  OBVIOUS
<1>6. p \in Live!JobRow /\ p.status = k /\ p.row = r
  BY <1>1, <1>5, NewStatus
<1>7. PICK m : m = Live!ScheduledJob(r)
  OBVIOUS
<1>8. m \in Live!JobRow /\ m.status = "pending" /\ m.row = r
  BY <1>7, ScheduledJobType
<1>9. PICK a : a = IF grown THEN s ELSE o
  OBVIOUS
<1>10. /\ a \in Live!OutputRow /\ a.status # "absent" /\ a.visible = row[r].visible
       /\ grown => a.active = i
  BY <1>4, <1>9
<1>11. /\ row' \in [Live!Rows -> Live!OutputRow]
       /\ row'[r] = a /\ \A q \in Live!Rows \ {r} : row'[q] = row[q]
  BY <1>1, <1>3, <1>9, <1>10 DEF Follows
<1>12. /\ job'[j] = p
       /\ grown => job'[i] = m
       /\ \A n \in Jobs : n = j \/ (grown /\ n = i) \/ job'[n] = job[n]
  BY <1>2, <1>5, <1>7 DEF Follows
<1>13. job' \in [Jobs -> Live!JobRow]
  <2>1. \A n \in Jobs : job'[n] \in Live!JobRow
    BY <1>1, <1>6, <1>8, <1>12
  <2> QED
    BY <2>1 DEF Follows
<1>14. ASSUME NEW n \in Jobs PROVE JobFits(n)'
  <2>1. CASE n = j
    BY <1>6, <1>12, <2>1 DEF JobFits, Busy
  <2>2. CASE grown /\ n = i
    BY <1>8, <1>10, <1>11, <1>12, <2>2 DEF JobFits
  <2>3. CASE job'[n] = job[n] /\ n # j
    <3>1. JobFits(n)
      BY <1>1
    <3>2. job[n].status \in Busy => job[n].row \in Live!Rows \ {r}
      BY <2>3, <3>1 DEF JobFits, Busy
    <3> QED
      BY <1>11, <2>3, <3>1, <3>2 DEF JobFits
  <2> QED
    BY <1>12, <2>1, <2>2, <2>3
<1>15. \A q \in Live!Rows : RowFits(q)'
  BY <1>1, <1>10, <1>11 DEF RowFits
<1>16. \A v \in Workers \ {w} : worker[v].pc # "idle" => worker[v].job \in Jobs \ {j, i}
  BY <1>2, WorkerTypes
<1>17. TablesFit'
  BY <1>11, <1>13, <1>14, <1>15 DEF TablesFit
<1>18. \A v \in Workers \ {w} : worker[v].pc # "idle" =>
           job'[worker[v].job].status \in {job[worker[v].job].status, "absent"}
  BY <1>12, <1>16
<1>19. \A q \in Live!Rows : row'[q].visible => row[q].visible
  BY <1>10, <1>11
<1> QED
  BY <1>6, <1>12, <1>17, <1>18, <1>19

\* o is the row of the job j, if there is still one, with the job's outcome.
Completed(j, o) ==
    job[j].status # "absent" => /\ o \in Live!OutputRow
                                /\ o.active = 0 /\ o.status # "absent"
                                /\ o.visible = row[job[j].row].visible

\* Both completions.
LEMMA SettleFits ==
    ASSUME LiveInv, NEW w \in Workers, NEW j, j = worker[w].job, worker[w].pc # "idle",
           NEW o, NEW k \in {"done", "failed"}, NEW grown \in BOOLEAN,
           Completed(j, o), Live!Settle(j, o, k, grown)
    PROVE  /\ TablesFit' /\ notified' \in BOOLEAN
           /\ job'[j].status \in {job[j].status, k, "absent"}
           /\ \A v \in Workers \ {w} : worker[v].pc # "idle" =>
                 job'[worker[v].job].status \in {job[worker[v].job].status, "absent"}
           /\ \A q \in Live!Rows : row'[q].visible => row[q].visible
<1>0. j \in Jobs /\ \A v \in Workers : worker[v].pc # "idle" => worker[v].job \in Jobs
  BY WorkerTypes
<1>1. PICK r : r = job[j].row
  OBVIOUS
<1>2. PICK rows : rows = [row EXCEPT ![r] = Live!NoRow]
  OBVIOUS
<1>3. PICK i : i = Live!NewJobs({r})[r]
  OBVIOUS
<1>4. \/ job[j].status = "absent" /\ UNCHANGED <<row, job, notified>>
      \/ /\ job[j].status # "absent"
         /\ row' = rows /\ job' = Live!Cascade(job, rows) /\ notified' = TRUE
      \/ /\ job[j].status # "absent" /\ Live!Fence(j)
         /\ Follows(j, r, o, k, i, grown) /\ notified' = TRUE
  BY <1>1, <1>2, <1>3 DEF Live!Settle, Follows
<1>5. CASE job[j].status = "absent" /\ UNCHANGED <<row, job, notified>>
  <2>1. TablesFit' /\ notified' \in BOOLEAN
    BY <1>5, TablesStay DEF LiveInv, NoteTypes
  <2> QED
    BY <1>5, <2>1
<1>6. CASE /\ job[j].status # "absent"
           /\ row' = rows /\ job' = Live!Cascade(job, rows) /\ notified' = TRUE
  <2>1. r \in Live!Rows
    BY <1>1, <1>6, JobsRow
  <2>2. /\ TablesFit'
        /\ \A n \in Jobs : job'[n].status \in {job[n].status, "absent"}
        /\ \A q \in Live!Rows : row'[q].visible => row[q].visible
    BY <1>2, <1>6, <2>1, DropFits
  <2> QED
    BY <1>0, <1>6, <2>2
<1>7. CASE /\ job[j].status # "absent" /\ Live!Fence(j)
           /\ Follows(j, r, o, k, i, grown) /\ notified' = TRUE
  <2>1. r \in Live!Rows
    BY <1>1, <1>7, JobsRow
  <2>2. row[r].active = j
    BY <1>1, <1>7 DEF Live!Fence
  <2>3. i \in Live!Fresh
    BY <1>3, <2>1, <2>2, OneNewJob
  <2>4. /\ o \in Live!OutputRow /\ o.active = 0 /\ o.status # "absent"
        /\ o.visible = row[r].visible
    BY <1>1, <1>7 DEF Completed
  <2>5. /\ TablesFit'
        /\ job'[j].status = k
        /\ \A v \in Workers \ {w} : worker[v].pc # "idle" =>
              job'[worker[v].job].status \in {job[worker[v].job].status, "absent"}
        /\ \A q \in Live!Rows : row'[q].visible => row[q].visible
    BY <1>0, <1>1, <1>7, <2>1, <2>2, <2>3, <2>4, SettledFits
  <2> QED
    BY <1>7, <2>5
<1> QED
  BY <1>4, <1>5, <1>6, <1>7
\* The row that a completion writes.
LEMMA CompletedRow ==
    ASSUME NEW p \in Live!OutputRow, NEW o, NEW k \in {"ready", "failed"}, NEW d \in 0..MaxRev,
           \/ o = [p EXCEPT !.status = k, !.rendered = d, !.active = 0, !.version = @ + 1]
           \/ o = [p EXCEPT !.status = k, !.active = 0, !.version = @ + 1]
    PROVE  o \in Live!OutputRow /\ o.active = 0 /\ o.status # "absent" /\ o.visible = p.visible
<1>1. p = [status |-> p.status, active |-> p.active, desired |-> p.desired,
           rendered |-> p.rendered, visible |-> p.visible, version |-> p.version]
  BY RowRecord
<1>2. PICK m : m = p.version + 1
  OBVIOUS
<1>3. /\ p.desired \in 0..MaxRev /\ p.rendered \in 0..MaxRev
      /\ p.visible \in BOOLEAN /\ m \in Nat
  BY <1>2, RowTypes
<1>4. CASE o = [p EXCEPT !.status = k, !.rendered = d, !.active = 0, !.version = @ + 1]
  <2>1. o = [p EXCEPT !.status = k, !.rendered = d, !.active = 0, !.version = m]
    BY <1>2, <1>4
  <2>2. o = [status |-> k, active |-> 0, desired |-> p.desired,
             rendered |-> d, visible |-> p.visible, version |-> m]
    BY ONLY <1>1, <2>1
  <2>3. o \in Live!OutputRow
    BY ONLY k \in {"ready", "failed"}, d \in 0..MaxRev, <1>3, <2>2, RowMade
  <2> QED
    BY <2>2, <2>3
<1>5. CASE o = [p EXCEPT !.status = k, !.active = 0, !.version = @ + 1]
  <2>1. o = [p EXCEPT !.status = k, !.active = 0, !.version = m]
    BY <1>2, <1>5
  <2>2. o = [status |-> k, active |-> 0, desired |-> p.desired,
             rendered |-> p.rendered, visible |-> p.visible, version |-> m]
    BY ONLY <1>1, <2>1
  <2>3. o \in Live!OutputRow
    BY ONLY k \in {"ready", "failed"}, <1>3, <2>2, RowMade
  <2> QED
    BY <2>2, <2>3
<1> QED
  BY <1>4, <1>5

\* CompleteLiveGenerateSuccessTx.
LEMMA SuccessFits ==
    ASSUME LiveInv, NEW w \in Workers, Live!CompleteLiveGenerateSuccess(w)
    PROVE  LiveInv'
<1>1. PICK j : j = worker[w].job
  OBVIOUS
<1>2. PICK p : p = row[job[j].row]
  OBVIOUS
<1>3. PICK o : o = [p EXCEPT !.status = "ready", !.rendered = worker[w].target,
                              !.active = 0, !.version = @ + 1]
  OBVIOUS
<1>4. PICK grown \in BOOLEAN : grown <=> p.desired > worker[w].target
  OBVIOUS
<1>5. /\ worker[w].pc = "publish"
      /\ Live!Settle(j, o, "done", grown)
      /\ worker' = [worker EXCEPT ![w].pc = "complete"]
      /\ UNCHANGED <<template, stream, trashed, bounds>>
  BY <1>1, <1>2, <1>3, <1>4 DEF Live!CompleteLiveGenerateSuccess, Live!None, Live!Settle
<1>6. worker[w] \in Live!WorkerState /\ job[j].status \in {"running", "absent"} /\ j \in Jobs
  BY <1>1, <1>5, WorkerTypes DEF Held
<1>7. Completed(j, o)
  <2>1. SUFFICES ASSUME job[j].status # "absent"
                 PROVE  o \in Live!OutputRow /\ o.active = 0 /\ o.status # "absent" /\ o.visible = p.visible
    BY <1>2 DEF Completed
  <2>2. p \in Live!OutputRow
    BY <1>1, <1>2, <1>5, <2>1, JobsRow
  <2>3. worker[w].target \in 0..MaxRev
    BY <1>6 DEF Live!WorkerState
  <2> QED
    BY <1>3, <2>2, <2>3, CompletedRow
<1>8. /\ TablesFit' /\ notified' \in BOOLEAN
      /\ job'[j].status \in {job[j].status, "done", "absent"}
      /\ \A v \in Workers \ {w} : worker[v].pc # "idle" =>
            job'[worker[v].job].status \in {job[worker[v].job].status, "absent"}
      /\ \A q \in Live!Rows : row'[q].visible => row[q].visible
  BY <1>1, <1>5, <1>7, SettleFits
<1>9. PICK q : q = [worker[w] EXCEPT !.pc = "complete"]
  OBVIOUS
<1>10. q \in Live!WorkerState /\ q.pc = "complete" /\ q.job = j
  BY <1>1, <1>6, <1>9, NextPc
<1>11. worker' = [worker EXCEPT ![w] = q]
  BY <1>5, <1>9
<1>12. WorkersFit'
  <2>1. \A v \in Workers \ {w} : worker[v].pc # "idle" => worker[v].job # j
    BY <1>1, <1>5, WorkerTypes
  <2>2. WorkersFit /\ job'[j].status \in {"running", "done", "absent"}
    BY <1>6, <1>8 DEF LiveInv
  <2> QED
    BY <1>6, <1>8, <1>10, <1>11, <2>1, <2>2, OneWorker
<1> QED
  BY <1>5, <1>8, <1>12, RestStays DEF LiveInv, NoteTypes

\* CompleteLiveGenerateFailureTx.
LEMMA FailureFits ==
    ASSUME LiveInv, NEW w \in Workers, Live!CompleteLiveGenerateFailure(w)
    PROVE  LiveInv'
<1>1. PICK j : j = worker[w].job
  OBVIOUS
<1>2. PICK p : p = row[job[j].row]
  OBVIOUS
<1>3. PICK o : o = [p EXCEPT !.status = "failed", !.active = 0, !.version = @ + 1]
  OBVIOUS
<1>4. PICK grown \in BOOLEAN : grown = (job[j].target # 0 /\ p.desired > job[j].target)
  OBVIOUS
<1>5. /\ worker[w].pc = "terminal"
      /\ Live!Settle(j, o, "failed", grown)
      /\ worker' = [worker EXCEPT ![w] = Live!Idle]
      /\ UNCHANGED <<template, stream, trashed, bounds>>
  BY <1>1, <1>2, <1>3, <1>4 DEF Live!CompleteLiveGenerateFailure, Live!None
<1>6. Completed(j, o)
  <2>1. SUFFICES ASSUME job[j].status # "absent"
                 PROVE  o \in Live!OutputRow /\ o.active = 0 /\ o.status # "absent" /\ o.visible = p.visible
    BY <1>2 DEF Completed
  <2>2. p \in Live!OutputRow
    BY <1>1, <1>2, <1>5, <2>1, JobsRow
  <2>3. 0 \in 0..MaxRev
    BY BoundsAreNumbers
  <2> QED
    BY <1>3, <2>2, <2>3, CompletedRow
<1>7. /\ TablesFit' /\ notified' \in BOOLEAN
      /\ \A v \in Workers \ {w} : worker[v].pc # "idle" =>
            job'[worker[v].job].status \in {job[worker[v].job].status, "absent"}
      /\ \A q \in Live!Rows : row'[q].visible => row[q].visible
  BY <1>1, <1>5, <1>6, SettleFits
<1>8. WorkersFit'
  BY <1>5, <1>7, IdleType, OneWorker DEF LiveInv
<1> QED
  BY <1>5, <1>7, <1>8, RestStays DEF LiveInv, NoteTypes

-----------------------------------------------------------------------------

\* At first there are no rows and no jobs.
LEMMA LiveInit ==
    ASSUME Live!Init
    PROVE  LiveInv
<1>1. /\ template \in [Templates -> {"absent", "after", "during"}]
      /\ stream = [id |-> 0, last |-> 0, rev |-> 0]
      /\ trashed = FALSE /\ notified = FALSE
      /\ row = [r \in Live!Rows |-> Live!NoRow]
      /\ job = [j \in Jobs |-> Live!NoJob]
      /\ worker = [w \in Workers |-> Live!Idle]
      /\ bounds = [edits |-> 0, faults |-> 0, crashes |-> 0, cancels |-> 0, trash |-> 0]
  BY Zenon DEF Live!Init
<1>2. NoteTypes
  <2>1. stream \in Live!Stream
    BY <1>1, BoundsAreNumbers DEF Live!Stream
  <2>2. bounds \in [edits: 0..MaxEdits, faults: 0..MaxFaults,
                   crashes: 0..MaxCrashes, cancels: 0..MaxCancels, trash: 0..MaxTrash]
    BY <1>1, BoundsAreNumbers
  <2> QED
    BY <1>1, <2>1, <2>2 DEF NoteTypes
<1>3. TablesFit
  BY <1>1, NoRowType, NoJobType DEF TablesFit, RowFits, JobFits, Busy
<1>4. WorkersFit
  BY <1>1, IdleType DEF WorkersFit, WorkerFits, WorkersApart
<1>5. VisibleFits
  BY <1>1, NoRowType DEF VisibleFits
<1> QED
  BY <1>2, <1>3, <1>4, <1>5 DEF LiveInv

\* Steps that leave the note, its rows and its jobs as they are: those of the viewers, the
\* arrival and the loss of a notification, and stuttering.
LEMMA ViewStepFits ==
    ASSUME LiveInv, notified' \in BOOLEAN,
           UNCHANGED <<template, stream, trashed, row, job, worker, bounds>>
    PROVE  LiveInv'
<1>1. TablesFit' /\ WorkersFit'
  BY TablesStay, HoldersStay DEF LiveInv
<1> QED
  BY <1>1, RestStays DEF LiveInv, NoteTypes

\* Every step of LiveOutputs keeps the invariant.
LEMMA LiveStep ==
    ASSUME LiveInv, Live!Next
    PROVE  LiveInv'
<1>1. ASSUME NEW w \in Workers, Live!WorkerStep(w) PROVE LiveInv'
  BY <1>1, ClaimJobFits, NoteIsTrashedFits, ClaimLiveFits, RunFits, SuccessFits,
     CompleteJobFits, FailJobFits, FailureFits DEF Live!WorkerStep
<1> QED
  BY <1>1, ChangeFits, DeleteTemplateFits, CreateStreamFits, SaveTranscriptFits, AppendFits,
     DeleteNoteFits, RestoreNoteFits, RecoverFits, CancelFits, CrashFits DEF Live!Next

\* Every step of LiveViewers does.
LEMMA LiveViewStep ==
    ASSUME LiveInv, [Live!ViewNext]_<<Live!vars, Live!viewVars>>
    PROVE  LiveInv'
<1>0. notified \in BOOLEAN
  BY DEF LiveInv, NoteTypes
<1>1. CASE Live!Next
  BY <1>1, LiveStep
<1>2. CASE Live!Wake \/ Live!LoseNotification
  <2>1. notified' = FALSE /\ UNCHANGED <<template, stream, trashed, row, job, worker, bounds>>
    BY <1>2 DEF Live!Wake, Live!LoseNotification
  <2> QED
    BY <2>1, ViewStepFits
<1>3. CASE UNCHANGED Live!vars
  BY <1>0, <1>3, ViewStepFits DEF Live!vars
<1> QED
  BY <1>1, <1>2, <1>3 DEF Live!ViewNext

\* The invariant holds.
LEMMA LiveInvHolds == Live!ViewSpec => []LiveInv
<1>1. Live!Init => LiveInv
  BY LiveInit
<1>2. LiveInv /\ [Live!ViewNext]_<<Live!vars, Live!viewVars>> => LiveInv'
  BY LiveViewStep
<1> QED
  BY <1>1, <1>2, PTL DEF Live!ViewSpec

\* Of LiveOutputs, whatever late answers, edits, streams, crashes and viewers there are:
\* what is shown is of the stream being recorded and of an eligible template unless a
\* cleanup failed or the note has been in the trash, and no row has two jobs under way.
THEOREM OnlyTheCurrentIsShown == Live!ViewSpec => []VisibleIsCurrent
<1>1. LiveInv => VisibleIsCurrent
  <2>1. SUFFICES ASSUME LiveInv PROVE VisibleIsCurrent
    OBVIOUS
  <2>2. Live!TypeOK
    BY <2>1 DEF LiveInv, NoteTypes, TablesFit, WorkersFit, Live!TypeOK
  <2>3. ASSUME NEW i \in Jobs, NEW j \in Jobs,
               job[i].status \in {"pending", "running"}, job[j].status \in {"pending", "running"},
               job[i].row = job[j].row
        PROVE  i = j
    BY <2>1, <2>3 DEF LiveInv, TablesFit, JobFits, Busy
  <2>4. Live!OneJobPerRow
    BY <2>2, <2>3 DEF Live!OneJobPerRow
  <2>5. bounds.faults \in Nat /\ bounds.trash \in Nat
    BY <2>1, BoundsAreNumbers DEF LiveInv, NoteTypes
  <2>6. bounds.faults + bounds.trash = 0 => bounds.faults = 0 /\ bounds.trash = 0
    BY <2>5
  <2> QED
    BY <2>1, <2>4, <2>6 DEF LiveInv, VisibleFits, VisibleIsCurrent, Live!VisibleIsCurrent
<1> QED
  BY <1>1, LiveInvHolds, PTL
=============================================================================
