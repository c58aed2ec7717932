---------------------------- MODULE UnwindProofs ----------------------------
(***************************************************************************)
(* Proofs about Unwind, for every depth of calls and of try statements and *)
(* every set of functions, of programs that leave a try body by its end or *)
(* by an exception that crosses no native function (Leaves = {}).          *)
(***************************************************************************)
EXTENDS Unwind, TLAPS

-----------------------------------------------------------------------------
(* Facts about stacks.                                                     *)

LEMMA PushFacts ==
  ASSUME NEW S, NEW q \in Seq(S), NEW c \in S
  PROVE  /\ Append(q, c) \in Seq(S) /\ Len(Append(q, c)) = Len(q) + 1
         /\ Append(q, c)[Len(q) + 1] = c
         /\ \A i \in 1..Len(q) : Append(q, c)[i] = q[i]
OBVIOUS

LEMMA PrefixFacts ==
  ASSUME NEW S, NEW q \in Seq(S), NEW n \in 0..Len(q)
  PROVE  /\ SubSeq(q, 1, n) \in Seq(S) /\ Len(SubSeq(q, 1, n)) = n
         /\ \A i \in 1..n : SubSeq(q, 1, n)[i] = q[i]
OBVIOUS

LEMMA PopFacts ==
  ASSUME NEW S, NEW q \in Seq(S), q # <<>>
  PROVE  /\ Len(q) \in 1..Len(q) /\ Top(q) \in S
         /\ Pop(q) \in Seq(S) /\ Len(Pop(q)) = Len(q) - 1
         /\ \A i \in 1..(Len(q) - 1) : Pop(q)[i] = q[i]
<1>1. Len(q) \in 1..Len(q) /\ Len(q) - 1 \in 0..Len(q)
  OBVIOUS
<1>2. q[Len(q)] \in S
  BY <1>1
<1> QED
  BY <1>1, <1>2, PrefixFacts DEF Top, Pop

(* Nothing of `open' is above a depth that bounds it.                      *)
LEMMA UpToAll ==
  ASSUME NEW S, open \in Seq(S), NEW d, \A i \in 1..Len(open) : open[i] <= d
  PROVE  UpTo(d) = open
<1> DEFINE P(n) == \A i \in 1..Len(open) : open[i] <= d <=> i <= n
           m == CHOOSE n \in 0..Len(open) : P(n)
<1>1. Len(open) \in 0..Len(open) /\ P(Len(open))
  OBVIOUS
<1>2. m \in 0..Len(open) /\ P(m)
  BY <1>1
<1>3. UpTo(d) = SubSeq(open, 1, m)
  BY DEF UpTo
<1> HIDE DEF m
<1>4. m = Len(open)
  BY <1>2
<1> QED
  BY <1>3, <1>4

-----------------------------------------------------------------------------
(* The handlers and the callbacks are nested in the frames, and nothing is *)
(* between a try body and the frames it encloses.                          *)
Nested ==
    Running =>
       /\ \A i, j \in 1..Len(open) : i <= j => open[i] <= open[j]
       /\ \A j, k \in 1..Len(syncs) : j < k => syncs[j].depth < syncs[k].depth
       /\ \A i \in 1..Len(open), k \in 1..Len(syncs) : open[i] <= syncs[k].depth

IInv == TypeOK /\ HandlersMatchProgram /\ CallbacksReturnToNatives /\ Nested

USE BoundsAssumption, FnsAssumption

LEMMA Elements ==
  ASSUME TypeOK
  PROVE  /\ Depth \in Nat /\ Len(tries) \in Nat /\ Len(syncs) \in Nat /\ Len(open) \in Nat
         /\ \A i \in 1..Depth : frames[i] \in Frame
         /\ \A i \in 1..Len(tries) : tries[i].frameLen \in 1..MaxFrames
         /\ \A k \in 1..Len(syncs) : syncs[k].depth \in 1..MaxFrames
         /\ \A i \in 1..Len(open) : open[i] \in 1..MaxFrames
<1>1. Depth \in Nat /\ Len(tries) \in Nat /\ Len(syncs) \in Nat /\ Len(open) \in Nat
  BY DEF TypeOK, Depth
<1>2. \A i \in 1..Depth : frames[i] \in Frame
  BY DEF TypeOK, Depth
<1>3. \A i \in 1..Len(tries) : tries[i].frameLen \in 1..MaxFrames
  <2>1. \A i \in 1..Len(tries) : tries[i] \in Handler
    BY DEF TypeOK
  <2>2. \A h \in Handler : h.frameLen \in 1..MaxFrames
    BY DEF Handler
  <2> QED
    BY <2>1, <2>2
<1>4. \A k \in 1..Len(syncs) : syncs[k].depth \in 1..MaxFrames
  <2>1. \A k \in 1..Len(syncs) : syncs[k] \in Sync
    BY DEF TypeOK
  <2>2. \A s \in Sync : s.depth \in 1..MaxFrames
    BY DEF Sync
  <2> QED
    BY <2>1, <2>2
<1>5. \A i \in 1..Len(open) : open[i] \in 1..MaxFrames
  BY DEF TypeOK
<1> QED
  BY <1>1, <1>2, <1>3, <1>4, <1>5

LEMMA InitIInv == Init => IInv
<1> SUFFICES ASSUME Init PROVE IInv
  OBVIOUS
<1> DEFINE c == [fn |-> Main, callback |-> FALSE]
<1>1. c \in Frame /\ c.callback = FALSE
  BY DEF Frame
<1>2. frames = <<c>>
  BY DEF Init
<1> HIDE DEF c
<1>3. frames \in Seq(Frame) /\ Len(frames) = 1 /\ frames[1] = c
  BY <1>1, <1>2
<1>4. /\ tries = <<>> /\ syncs = <<>> /\ open = <<>> /\ outcome = "running"
      /\ Len(tries) = 0 /\ Len(syncs) = 0 /\ Len(open) = 0
  BY DEF Init
<1>5. TypeOK
  BY <1>3, <1>4 DEF TypeOK
<1> QED
  BY <1>1, <1>3, <1>4, <1>5 DEF IInv, HandlersMatchProgram, CallbacksReturnToNatives, Nested, Depth

(* A call or a callback pushes a frame.                                    *)
LEMMA PushKeepsIInv ==
  ASSUME IInv, NEW f \in Fns, NEW cb \in BOOLEAN, NEW d \in BOOLEAN,
         Running, Depth < MaxFrames,
         frames' = Append(frames, [fn |-> f, callback |-> cb]),
         syncs' = IF cb THEN Append(syncs, [depth |-> Depth, destructor |-> d]) ELSE syncs,
         UNCHANGED <<tries, outcome, open>>
  PROVE  IInv'
<1> DEFINE c == [fn |-> f, callback |-> cb]
           s == [depth |-> Depth, destructor |-> d]
<1>1. c \in Frame /\ c.callback = cb
  BY DEF Frame
<1>t. TypeOK /\ outcome' = outcome /\ outcome = "running" /\ open' = open /\ tries' = tries
  BY DEF IInv, Running
<1>2. s \in Sync /\ s.depth = Depth /\ Depth \in 1..MaxFrames
  <2>1. Depth \in 1..MaxFrames
    BY <1>t DEF TypeOK, Depth
  <2> QED
    BY <2>1 DEF Sync
<1>3. frames' = Append(frames, c) /\ syncs' = IF cb THEN Append(syncs, s) ELSE syncs
  OBVIOUS
<1> HIDE DEF c, s
<1>4. /\ frames' \in Seq(Frame) /\ Len(frames') = Depth + 1 /\ frames'[Depth + 1] = c
      /\ \A i \in 1..Depth : frames'[i] = frames[i]
  BY <1>t, <1>1, <1>3, PushFacts DEF TypeOK, Depth
<1>l. Len(frames') <= MaxFrames /\ frames' # <<>>
  BY <1>2, <1>4
<1>5. CASE cb
  <2>1. /\ syncs' \in Seq(Sync) /\ Len(syncs') = Len(syncs) + 1 /\ syncs'[Len(syncs) + 1] = s
        /\ \A k \in 1..Len(syncs) : syncs'[k] = syncs[k]
    BY <1>t, <1>2, <1>3, <1>5, PushFacts DEF TypeOK
  <2>2. TypeOK'
    BY <1>t, <1>4, <1>l, <2>1 DEF TypeOK
  <2>3. HandlersMatchProgram'
    BY <1>t, <1>2, <1>4 DEF IInv, HandlersMatchProgram, Running, Depth, TypeOK
  <2>4. CallbacksReturnToNatives'
    <3>1. \A i \in 1..(Depth + 1) : frames'[i].callback =>
            \E k \in 1..Len(syncs') : syncs'[k].depth = i - 1
      <4> SUFFICES ASSUME NEW i \in 1..(Depth + 1), frames'[i].callback
                   PROVE  \E k \in 1..Len(syncs') : syncs'[k].depth = i - 1
        OBVIOUS
      <4>1. CASE i = Depth + 1
        BY <4>1, <2>1, <1>2, <1>t DEF TypeOK
      <4>2. CASE i \in 1..Depth
        BY <4>2, <2>1, <1>4, <1>t DEF IInv, CallbacksReturnToNatives, TypeOK, Running
      <4> QED
        BY <4>1, <4>2, <1>2
    <3>2. \A k \in 1..Len(syncs') :
             syncs'[k].depth + 1 \in 1..(Depth + 1) /\ frames'[syncs'[k].depth + 1].callback
      <4> SUFFICES ASSUME NEW k \in 1..Len(syncs')
                   PROVE  syncs'[k].depth + 1 \in 1..(Depth + 1) /\ frames'[syncs'[k].depth + 1].callback
        OBVIOUS
      <4>1. CASE k = Len(syncs) + 1
        BY <4>1, <2>1, <1>1, <1>2, <1>4, <1>5
      <4>2. CASE k \in 1..Len(syncs)
        BY <4>2, <2>1, <1>2, <1>4, <1>t DEF IInv, CallbacksReturnToNatives, TypeOK, Running
      <4>3. Len(syncs) \in Nat
        BY <1>t, Elements
      <4>4. k = Len(syncs) + 1 \/ k \in 1..Len(syncs)
        BY <4>3, <2>1
      <4> QED
        BY <4>1, <4>2, <4>4
    <3> QED
      BY <3>1, <3>2, <1>4 DEF CallbacksReturnToNatives, Depth
  <2>5. Nested'
    <3>1. \A k \in 1..Len(syncs) : syncs[k].depth < Depth
      BY <1>t, Elements DEF IInv, CallbacksReturnToNatives, Running
    <3>2. \A i \in 1..Len(open) : open[i] <= Depth
      BY <1>t DEF IInv, HandlersMatchProgram, TypeOK, Running
    <3>3. Len(syncs) \in Nat
      BY <1>t DEF TypeOK
    <3> QED
      BY <1>t, <1>2, <2>1, <3>1, <3>2, <3>3 DEF IInv, Nested, Running
  <2> QED
    BY <2>2, <2>3, <2>4, <2>5 DEF IInv
<1>6. CASE ~cb
  <2>1. syncs' = syncs
    BY <1>3, <1>6
  <2>2. TypeOK'
    BY <1>t, <1>4, <1>l, <2>1 DEF TypeOK
  <2>3. HandlersMatchProgram'
    BY <1>t, <1>2, <1>4 DEF IInv, HandlersMatchProgram, Running, Depth, TypeOK
  <2>4. CallbacksReturnToNatives'
    <3>1. \A i \in 1..(Depth + 1) : frames'[i].callback => i \in 1..Depth
      BY <1>1, <1>2, <1>4, <1>6
    <3> QED
      BY <3>1, <1>2, <1>4, <1>t, <2>1 DEF IInv, CallbacksReturnToNatives, Running, Depth
  <2>5. Nested'
    BY <1>t, <2>1 DEF IInv, Nested, Running
  <2> QED
    BY <2>2, <2>3, <2>4, <2>5 DEF IInv
<1> QED
  BY <1>5, <1>6

(* Op::Return of a frame whose try bodies have all been left: the loop     *)
(* that waits for the frame, if it is a callback, ends with it.            *)
LEMMA ReturnKeepsIInv ==
  ASSUME IInv, Leaves = {}, Return
  PROVE  IInv' /\ \A i \in 1..Len(frames') : i \in 1..Depth /\ frames'[i] = frames[i]
<1>t. TypeOK /\ outcome = "running" /\ Running /\ tries' = tries /\ frames # <<>>
  BY DEF IInv, Running, Return, TypeOK
<1>e. /\ Depth \in Nat /\ Len(tries) \in Nat /\ Len(syncs) \in Nat /\ Len(open) \in Nat
      /\ \A k \in 1..Len(syncs) : syncs[k].depth \in 1..MaxFrames
      /\ \A i \in 1..Len(open) : open[i] \in 1..MaxFrames
  BY <1>t, Elements
<1>1. /\ frames' \in Seq(Frame) /\ Len(frames') = Depth - 1 /\ Depth \in 1..Depth
      /\ \A i \in 1..(Depth - 1) : frames'[i] = frames[i]
  BY <1>t, PopFacts DEF Return, Depth, TypeOK
<1>2. open' = open /\ \A i \in 1..Len(open) : open[i] <= Depth - 1
  <2>1. \A i \in 1..Len(open) : open[i] <= Depth - 1
    BY <1>e DEF Return
  <2>2. open \in Seq(1..MaxFrames)
    BY <1>t DEF TypeOK
  <2> QED
    BY <2>1, <2>2, UpToAll DEF Return
<1>3. outcome' \in {"running", "done"} /\ (outcome' = "running" => Depth # 1)
  BY <1>e DEF Return, Running
<1>s. \A k \in 1..Len(syncs) : syncs[k].depth + 1 \in 1..Depth /\ frames[syncs[k].depth + 1].callback
  BY <1>t DEF IInv, CallbacksReturnToNatives
<1>u. \A j, k \in 1..Len(syncs) : j < k => syncs[j].depth < syncs[k].depth
  BY <1>t DEF IInv, Nested
<1>4. /\ syncs' \in Seq(Sync) /\ Len(syncs') <= Len(syncs) /\ Len(syncs') \in Nat
      /\ \A k \in 1..Len(syncs') : syncs'[k] = syncs[k] /\ syncs[k].depth + 1 < Depth
      /\ \A k \in 1..Len(syncs) : syncs[k].depth + 1 < Depth => k \in 1..Len(syncs')
  <2>1. CASE syncs # <<>> /\ Depth - 1 <= Top(syncs).depth
    <3>1. syncs' = Pop(syncs)
      BY <2>1 DEF Return, ReturnSync
    <3>2. /\ Len(syncs) \in 1..Len(syncs) /\ syncs' \in Seq(Sync) /\ Len(syncs') = Len(syncs) - 1
          /\ \A k \in 1..(Len(syncs) - 1) : syncs'[k] = syncs[k]
      BY <2>1, <3>1, <1>t, PopFacts DEF TypeOK
    <3>3. Depth - 1 <= syncs[Len(syncs)].depth
      BY <2>1 DEF Top
    <3>4. \A k \in 1..(Len(syncs) - 1) : syncs[k].depth + 1 < Depth
      <4> TAKE k \in 1..(Len(syncs) - 1)
      <4>1. k \in 1..Len(syncs) /\ k < Len(syncs)
        BY <3>2
      <4>2. syncs[k].depth < syncs[Len(syncs)].depth /\ syncs[Len(syncs)].depth + 1 <= Depth
        BY <4>1, <3>2, <1>u, <1>s
      <4>3. syncs[k].depth \in Nat /\ syncs[Len(syncs)].depth \in Nat
        BY <4>1, <3>2, <1>e
      <4> QED
        BY <4>2, <4>3, <1>e
    <3>5. \A k \in 1..Len(syncs) : syncs[k].depth + 1 < Depth => k # Len(syncs)
      BY <3>2, <3>3, <1>e
    <3> QED
      BY <3>2, <3>4, <3>5, <1>e
  <2>2. CASE ~(syncs # <<>> /\ Depth - 1 <= Top(syncs).depth)
    <3>1. syncs' = syncs
      BY <2>2 DEF Return, ReturnSync
    <3>2. \A k \in 1..Len(syncs) : syncs[k].depth + 1 < Depth
      <4> SUFFICES ASSUME NEW k \in 1..Len(syncs) PROVE syncs[k].depth + 1 < Depth
        OBVIOUS
      <4>1. syncs # <<>> /\ Len(syncs) \in 1..Len(syncs)
        BY <1>t, <1>e DEF TypeOK
      <4>2. syncs[Len(syncs)].depth < Depth - 1
        BY <4>1, <2>2, <1>e DEF Top
      <4>3. k = Len(syncs) \/ syncs[k].depth < syncs[Len(syncs)].depth
        BY <4>1, <1>u, <1>e
      <4> QED
        BY <4>1, <4>2, <4>3, <1>e
    <3> QED
      BY <3>1, <3>2, <1>e, <1>t DEF TypeOK
  <2> QED
    BY <2>1, <2>2
<1>5. TypeOK'
  <2>1. outcome' = "running" => frames' # <<>>
    BY <1>1, <1>3, <1>e
  <2> QED
    BY <2>1, <1>1, <1>2, <1>3, <1>4, <1>t, <1>e DEF TypeOK, Depth
<1>6. HandlersMatchProgram'
  <2>1. \A i \in 1..Len(tries) : open[i] \in 1..(Depth - 1)
    BY <1>t, <1>e, <1>2 DEF IInv, HandlersMatchProgram
  <2>2. \A i \in 1..Len(tries) : frames'[open[i]] = frames[open[i]] /\ open[i] <= Depth - 1
    BY <2>1, <1>1, <1>e
  <2> QED
    BY <2>2, <1>t, <1>1, <1>2 DEF IInv, HandlersMatchProgram, Depth
<1>7. CallbacksReturnToNatives'
  <2>1. \A i \in 1..(Depth - 1) : frames'[i].callback =>
          \E k \in 1..Len(syncs') : syncs'[k].depth = i - 1
    <3> SUFFICES ASSUME NEW i \in 1..(Depth - 1), frames'[i].callback
                 PROVE  \E k \in 1..Len(syncs') : syncs'[k].depth = i - 1
      OBVIOUS
    <3>1. i \in 1..Depth /\ frames[i].callback
      BY <1>1, <1>e
    <3>2. PICK k \in 1..Len(syncs) : syncs[k].depth = i - 1
      BY <3>1, <1>t DEF IInv, CallbacksReturnToNatives
    <3>3. k \in 1..Len(syncs')
      BY <3>1, <3>2, <1>4, <1>e
    <3> QED
      BY <3>2, <3>3, <1>4
  <2>2. \A k \in 1..Len(syncs') :
           syncs'[k].depth + 1 \in 1..(Depth - 1) /\ frames'[syncs'[k].depth + 1].callback
    <3> SUFFICES ASSUME NEW k \in 1..Len(syncs')
                 PROVE  syncs'[k].depth + 1 \in 1..(Depth - 1) /\ frames'[syncs'[k].depth + 1].callback
      OBVIOUS
    <3>1. k \in 1..Len(syncs) /\ syncs'[k] = syncs[k] /\ syncs[k].depth + 1 < Depth
      BY <1>4, <1>e
    <3>2. syncs[k].depth + 1 \in 1..(Depth - 1)
      BY <3>1, <1>e
    <3> QED
      BY <3>1, <3>2, <1>1, <1>s
  <2> QED
    BY <2>1, <2>2, <1>1 DEF CallbacksReturnToNatives, Depth
<1>8. Nested'
  <2>1. \A k \in 1..Len(syncs') : k \in 1..Len(syncs)
    BY <1>4, <1>e
  <2> QED
    BY <2>1, <1>t, <1>2, <1>4 DEF IInv, Nested
<1>9. \A i \in 1..Len(frames') : i \in 1..Depth /\ frames'[i] = frames[i]
  BY <1>1, <1>e
<1> QED
  BY <1>5, <1>6, <1>7, <1>8, <1>9 DEF IInv

(* Op::TryBegin and Op::TryEnd.                                            *)
LEMMA TryKeepsIInv ==
  ASSUME IInv, Leaves = {}, TryBegin \/ TryEnd
  PROVE  IInv'
<1>t. TypeOK /\ Running /\ outcome = "running" /\ UNCHANGED <<frames, syncs, outcome>>
  BY DEF IInv, TryBegin, TryEnd, Running
<1>e. /\ Depth \in 1..MaxFrames /\ Depth' = Depth
      /\ Len(tries) \in Nat /\ Len(syncs) \in Nat /\ Len(open) \in Nat
      /\ \A i \in 1..Len(open) : open[i] \in 1..MaxFrames /\ open[i] <= Depth
  <2>1. Depth \in 1..MaxFrames /\ Depth' = Depth
    BY <1>t, Elements DEF TypeOK, Depth
  <2> QED
    BY <2>1, <1>t, Elements DEF IInv, HandlersMatchProgram
<1>h. /\ Len(tries) = Len(open)
      /\ \A i \in 1..Len(tries) : /\ tries[i].frameLen = open[i]
                                  /\ open[i] <= Depth /\ tries[i].fn = frames[open[i]].fn
  BY <1>t DEF IInv, HandlersMatchProgram
<1>n. /\ \A i, j \in 1..Len(open) : i <= j => open[i] <= open[j]
      /\ \A j, k \in 1..Len(syncs) : j < k => syncs[j].depth < syncs[k].depth
      /\ \A i \in 1..Len(open), k \in 1..Len(syncs) : open[i] <= syncs[k].depth
  BY <1>t DEF IInv, Nested
<1>c. CallbacksReturnToNatives'
  BY <1>t, <1>e DEF IInv, CallbacksReturnToNatives, Running
<1>1. CASE TryBegin
  <2> DEFINE h == [fn |-> Top(frames).fn, frameLen |-> Depth]
  <2>1. h \in Handler /\ h.frameLen = Depth /\ h.fn = frames[Depth].fn
    <3>1. frames[Depth] \in Frame
      BY <1>e, <1>t, Elements
    <3>2. Top(frames) = frames[Depth] /\ frames[Depth].fn \in Fns
      BY <3>1 DEF Top, Depth, Frame
    <3> QED
      BY <3>2, <1>e DEF Handler
  <2>2. tries' = Append(tries, h) /\ open' = Append(open, Depth) /\ syncs = <<>>
    BY <1>1 DEF TryBegin
  <2> HIDE DEF h
  <2>3. /\ tries' \in Seq(Handler) /\ Len(tries') = Len(tries) + 1 /\ tries'[Len(tries) + 1] = h
        /\ \A i \in 1..Len(tries) : tries'[i] = tries[i]
    BY <2>1, <2>2, <1>t, PushFacts DEF TypeOK
  <2>4. /\ open' \in Seq(1..MaxFrames) /\ Len(open') = Len(open) + 1 /\ open'[Len(open) + 1] = Depth
        /\ \A i \in 1..Len(open) : open'[i] = open[i]
    BY <2>2, <1>t, <1>e, PushFacts DEF TypeOK
  <2>5. TypeOK'
    BY <2>3, <2>4, <1>t DEF TypeOK
  <2>6. \A i \in 1..(Len(open) + 1) : i = Len(open) + 1 \/ i \in 1..Len(open)
    BY <1>e
  <2>7. HandlersMatchProgram'
    BY <2>1, <2>3, <2>4, <2>6, <1>h, <1>e, <1>t DEF HandlersMatchProgram
  <2>8. Nested'
    <3>1. Len(syncs') = 0
      BY <2>2, <1>t
    <3>2. \A i, j \in 1..Len(open') : i <= j => open'[i] <= open'[j]
      <4> SUFFICES ASSUME NEW i \in 1..Len(open'), NEW j \in 1..Len(open'), i <= j
                   PROVE  open'[i] <= open'[j]
        OBVIOUS
      <4>1. CASE j = Len(open) + 1
        <5>1. open'[j] = Depth /\ (i = Len(open) + 1 \/ i \in 1..Len(open))
          BY <4>1, <2>4, <2>6
        <5>2. i \in 1..Len(open) => open'[i] <= Depth
          BY <2>4, <1>e
        <5> QED
          BY <5>1, <5>2, <2>4, <1>e
      <4>2. CASE j \in 1..Len(open)
        <5>1. i \in 1..Len(open)
          BY <4>2, <2>4, <1>e
        <5> QED
          BY <4>2, <5>1, <2>4, <1>n
      <4> QED
        BY <4>1, <4>2, <2>4, <2>6
    <3> QED
      BY <3>1, <3>2 DEF Nested
  <2> QED
    BY <2>5, <2>7, <2>8, <1>c DEF IInv
<1>2. CASE TryEnd
  <2>1. open # <<>> /\ open' = Pop(open) /\ tries # <<>> /\ tries' = Pop(tries)
    <3>1. open # <<>> /\ open' = Pop(open)
      BY <1>2 DEF TryEnd
    <3>2. Len(open) # 0
      BY <3>1, <1>t DEF TypeOK
    <3>3. tries # <<>>
      BY <3>2, <1>h
    <3> QED
      BY <3>1, <3>3, <1>2 DEF TryEnd
  <2>2. /\ tries' \in Seq(Handler) /\ Len(tries') = Len(tries) - 1
        /\ \A i \in 1..(Len(tries) - 1) : tries'[i] = tries[i]
    BY <2>1, <1>t, PopFacts DEF TypeOK
  <2>3. /\ open' \in Seq(1..MaxFrames) /\ Len(open') = Len(open) - 1
        /\ \A i \in 1..(Len(open) - 1) : open'[i] = open[i]
    BY <2>1, <1>t, PopFacts DEF TypeOK
  <2>4. TypeOK'
    BY <2>2, <2>3, <1>t DEF TypeOK
  <2>5. \A i \in 1..(Len(open) - 1) : i \in 1..Len(open)
    BY <1>e
  <2>6. HandlersMatchProgram'
    BY <2>2, <2>3, <2>5, <1>h, <1>e, <1>t DEF HandlersMatchProgram
  <2>7. Nested'
    <3>1. \A i \in 1..Len(open') : i \in 1..Len(open) /\ open'[i] = open[i]
      BY <2>3, <2>5
    <3>2. syncs' = syncs
      BY <1>t
    <3> QED
      BY <3>1, <3>2, <1>n DEF Nested
  <2> QED
    BY <2>4, <2>6, <2>7, <1>c DEF IInv
<1> QED
  BY <1>1, <1>2

(* An exception that no destructor raised: the handler is that of the      *)
(* innermost try body, and no callback is below it.                        *)
LEMMA RaiseKeepsIInv ==
  ASSUME IInv, Leaves = {}, Raise
  PROVE  IInv' /\ \A i \in 1..Len(frames') : i \in 1..Depth /\ frames'[i] = frames[i]
<1>t. TypeOK /\ Running /\ outcome = "running" /\ ToHandler
  BY DEF IInv, Raise, Running
<1>e. /\ Depth \in Nat /\ Len(tries) \in Nat /\ Len(syncs) \in Nat /\ Len(open) \in Nat
      /\ \A i \in 1..Len(open) : open[i] \in 1..MaxFrames
  BY <1>t, Elements
<1>h. /\ Len(tries) = Len(open)
      /\ \A i \in 1..Len(tries) : /\ tries[i].frameLen = open[i]
                                  /\ open[i] <= Depth /\ tries[i].fn = frames[open[i]].fn
  BY <1>t DEF IInv, HandlersMatchProgram
<1>n. /\ \A i, j \in 1..Len(open) : i <= j => open[i] <= open[j]
      /\ \A i \in 1..Len(open), k \in 1..Len(syncs) : open[i] <= syncs[k].depth
  BY <1>t DEF IInv, Nested
<1>1. syncs' = <<>> /\ syncs' \in Seq(Sync) /\ Len(syncs') = 0
  BY <1>t DEF ToHandler
<1>2. CASE tries = <<>>
  <2>1. open = <<>> /\ open' = open /\ tries' = tries /\ frames' = frames /\ outcome' = "uncaught"
    BY <1>2, <1>t, <1>e, <1>h DEF ToHandler, TypeOK
  <2>2. TypeOK' /\ ~Running'
    BY <2>1, <1>1, <1>t DEF TypeOK, Running
  <2> QED
    BY <2>1, <2>2 DEF IInv, HandlersMatchProgram, CallbacksReturnToNatives, Nested, Depth
<1>3. CASE tries # <<>>
  <2> DEFINE n == Top(open)
  <2>1. open # <<>> /\ n = open[Len(open)] /\ Len(open) \in 1..Len(open)
    BY <1>3, <1>t, <1>e, <1>h DEF TypeOK, Top
  <2>2. /\ n \in 1..Depth /\ n \in 1..MaxFrames
        /\ Top(tries).frameLen = n /\ Top(tries).fn = frames[n].fn
    BY <2>1, <1>e, <1>h DEF Top
  <2>3. /\ open' = Pop(open) /\ tries' = Pop(tries) /\ outcome' = "running"
        /\ frames' = Land(Top(tries))
    BY <2>1, <1>3, <1>t DEF ToHandler
  <2> HIDE DEF n
  <2>4. /\ tries' \in Seq(Handler) /\ Len(tries') = Len(tries) - 1
        /\ \A i \in 1..(Len(tries) - 1) : tries'[i] = tries[i]
    BY <2>3, <1>3, <1>t, PopFacts DEF TypeOK
  <2>5. /\ open' \in Seq(1..MaxFrames) /\ Len(open') = Len(open) - 1
        /\ \A i \in 1..(Len(open) - 1) : open'[i] = open[i]
    BY <2>1, <2>3, <1>t, PopFacts DEF TypeOK
  <2>6. /\ frames' \in Seq(Frame) /\ Len(frames') = n
        /\ \A i \in 1..n : frames'[i] = frames[i]
    <3> DEFINE q == SubSeq(frames, 1, n)
    <3>1. q \in Seq(Frame) /\ Len(q) = n /\ \A i \in 1..n : q[i] = frames[i]
      BY <2>2, <1>t, <1>e, PrefixFacts DEF TypeOK, Depth
    <3>2. Land(Top(tries)) = [q EXCEPT ![n].fn = frames[n].fn]
      <4>1. (IF Top(tries).frameLen < Depth THEN Top(tries).frameLen ELSE Depth) = n
        BY <2>2, <1>e
      <4>2. Land(Top(tries)) = [q EXCEPT ![n].fn = Top(tries).fn]
        BY <4>1 DEF Land
      <4> QED
        BY <4>2, <2>2
    <3> HIDE DEF q
    <3>3. q[n] = frames[n] /\ q[n] \in Frame /\ n \in 1..Len(q)
      BY <3>1, <2>2
    <3>4. [q[n] EXCEPT !.fn = frames[n].fn] = q[n]
      BY <3>3 DEF Frame
    <3>5. Land(Top(tries)) = q
      BY <3>1, <3>2, <3>3, <3>4
    <3> QED
      BY <3>1, <3>5, <2>3
  <2>7. TypeOK'
    <3>1. frames' # <<>>
      BY <2>2, <2>6
    <3> QED
      BY <3>1, <2>2, <2>3, <2>4, <2>5, <2>6, <1>1, <1>t DEF TypeOK, Depth
  <2>8. \A i \in 1..(Len(open) - 1) : i \in 1..Len(open) /\ open[i] \in 1..n
    BY <2>1, <1>n, <1>e, <2>2
  <2>9. HandlersMatchProgram'
    <3>1. \A i \in 1..(Len(open) - 1) : frames'[open[i]] = frames[open[i]] /\ open[i] <= n
      BY <2>8, <2>6, <2>2
    <3> QED
      <4>1. Len(tries') = Len(open') /\ Depth' = n
        BY <2>4, <2>5, <2>6, <1>h DEF Depth
      <4>2. \A i \in 1..Len(tries') : i \in 1..(Len(open) - 1) /\ i \in 1..Len(tries)
        BY <2>4, <2>8, <1>h
      <4>3. \A i \in 1..Len(tries') : tries'[i] = tries[i] /\ open'[i] = open[i]
        BY <4>2, <2>4, <2>5, <1>h
      <4> QED
        BY <3>1, <4>1, <4>2, <4>3, <1>h DEF HandlersMatchProgram
  <2>10. CallbacksReturnToNatives'
    <3>1. \A i \in 1..n : ~frames'[i].callback
      <4> SUFFICES ASSUME NEW i \in 1..n, frames[i].callback PROVE FALSE
        BY <2>6
      <4>1. i \in 1..Depth
        BY <2>2, <1>e
      <4>2. PICK k \in 1..Len(syncs) : syncs[k].depth = i - 1
        BY <4>1, <1>t DEF IInv, CallbacksReturnToNatives
      <4>3. n <= i - 1
        BY <4>2, <2>1, <1>n
      <4> QED
        BY <4>3, <2>2
    <3> QED
      BY <3>1, <2>6, <1>1 DEF CallbacksReturnToNatives, Depth
  <2>11. Nested'
    <3>1. \A i \in 1..Len(open') : i \in 1..Len(open) /\ open'[i] = open[i]
      BY <2>5, <2>8
    <3> QED
      BY <3>1, <1>1, <1>n DEF Nested
  <2>12. \A i \in 1..Len(frames') : i \in 1..Depth /\ frames'[i] = frames[i]
    BY <2>6, <2>2, <1>e
  <2> QED
    BY <2>7, <2>9, <2>10, <2>11, <2>12 DEF IInv
<1> QED
  BY <1>2, <1>3

-----------------------------------------------------------------------------
LEMMA NextIInv ==
  ASSUME IInv, Leaves = {}, [Next]_vars
  PROVE  IInv'
<1>1. ASSUME NEW f \in Fns, Call(f) PROVE IInv'
  BY <1>1, PushKeepsIInv DEF Call
<1>2. ASSUME NEW f \in Fns, NEW d \in BOOLEAN, Callback(f, d) PROVE IInv'
  BY <1>2, PushKeepsIInv DEF Callback
<1>3. CASE UNCHANGED vars
  BY <1>3 DEF vars, IInv, TypeOK, HandlersMatchProgram, CallbacksReturnToNatives, Nested,
              Running, Depth
<1> QED
  BY <1>1, <1>2, <1>3, ReturnKeepsIInv, TryKeepsIInv, RaiseKeepsIInv DEF Next

(* Frames that stay keep their code: no step but a landing changes a frame *)
(* that is not the last, and a landing is in the handler's own function.   *)
LEMMA NextKeepsCode ==
  ASSUME IInv, Leaves = {}, [Next]_vars
  PROVE  [\A i \in 1..Depth : i <= Len(frames') => frames'[i].fn = frames[i].fn]_vars
<1> SUFFICES ASSUME Next, NEW i \in 1..Depth, i <= Len(frames')
             PROVE  frames'[i].fn = frames[i].fn
  OBVIOUS
<1>t. TypeOK /\ Depth \in Nat
  BY Elements DEF IInv
<1>1. ASSUME NEW f \in Fns, NEW cb \in BOOLEAN,
             frames' = Append(frames, [fn |-> f, callback |-> cb])
      PROVE  frames'[i].fn = frames[i].fn
  <2> DEFINE c == [fn |-> f, callback |-> cb]
  <2>1. c \in Frame /\ frames' = Append(frames, c)
    BY <1>1 DEF Frame
  <2> HIDE DEF c
  <2> QED
    BY <2>1, <1>t, PushFacts DEF TypeOK, Depth
<1>2. CASE Return \/ Raise
  <2>1. \A j \in 1..Len(frames') : frames'[j] = frames[j]
    BY <1>2, ReturnKeepsIInv, RaiseKeepsIInv
  <2>2. Len(frames') \in Nat
    BY NextIInv DEF IInv, TypeOK
  <2> QED
    BY <2>1, <2>2, <1>t
<1>3. CASE TryBegin \/ TryEnd
  BY <1>3 DEF TryBegin, TryEnd
<1> QED
  BY <1>1, <1>2, <1>3 DEF Next, Call, Callback

-----------------------------------------------------------------------------
THEOREM InductiveInvariant == Leaves = {} => (Spec => []IInv)
<1> SUFFICES ASSUME Leaves = {} PROVE Spec => []IInv
  OBVIOUS
<1>1. Init => IInv
  BY InitIInv
<1>2. IInv /\ [Next]_vars => IInv'
  BY NextIInv
<1> QED
  BY <1>1, <1>2, PTL DEF Spec

(* Every reachable state has the types of the VM's stacks: frames, try     *)
(* handlers and waiting native calls (Vm.frames, Vm.try_stack).            *)
THEOREM UnwindTypeCorrect == Leaves = {} => (Spec => []TypeOK)
<1> SUFFICES ASSUME Leaves = {} PROVE Spec => []TypeOK
  OBVIOUS
<1>1. IInv => TypeOK
  BY DEF IInv
<1> QED
  BY <1>1, InductiveInvariant, PTL

(* An exception is caught by the innermost enclosing try body: try_stack   *)
(* is, handler for handler, the try bodies the program is in.              *)
THEOREM HandlersAreTheTryBodies == Leaves = {} => (Spec => []HandlersMatchProgram)
<1> SUFFICES ASSUME Leaves = {} PROVE Spec => []HandlersMatchProgram
  OBVIOUS
<1>1. IInv => HandlersMatchProgram
  BY DEF IInv
<1> QED
  BY <1>1, InductiveInvariant, PTL

(* A native function that called back gets its answer or is unwound with   *)
(* its caller: no callback frame is left without its invoke_function.      *)
THEOREM CallbacksHaveTheirNatives == Leaves = {} => (Spec => []CallbacksReturnToNatives)
<1> SUFFICES ASSUME Leaves = {} PROVE Spec => []CallbacksReturnToNatives
  OBVIOUS
<1>1. IInv => CallbacksReturnToNatives
  BY DEF IInv
<1> QED
  BY <1>1, InductiveInvariant, PTL

(* A frame executes the code of its own function from its call to its end: *)
(* landing in a handler never gives a frame another function's code.       *)
THEOREM FramesKeepTheirCode == Leaves = {} => (Spec => FrameKeepsItsCode)
<1> SUFFICES ASSUME Leaves = {} PROVE Spec => FrameKeepsItsCode
  OBVIOUS
<1>1. IInv /\ [Next]_vars =>
        [\A i \in 1..Depth : i <= Len(frames') => frames'[i].fn = frames[i].fn]_vars
  BY NextKeepsCode
<1> QED
  BY <1>1, InductiveInvariant, PTL DEF Spec, FrameKeepsItsCode
=============================================================================
