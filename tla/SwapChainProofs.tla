-------------------------- MODULE SwapChainProofs --------------------------
(***************************************************************************)
(* What a frame uses is never in use when it is submitted, for any number  *)
(* of frames in flight and of images, for one queue or two, and also after *)
(* a submission has failed.  The same holds of the semaphores with which   *)
(* images are acquired.  No image is rendered while the engine reads it,   *)
(* and what is presented has been rendered, also after presents were       *)
(* refused; with two queues, of the frames of which no present was dropped. *)
(***************************************************************************)
EXTENDS SwapChain, SequenceTheorems, FiniteSetTheorems, WellFoundedInduction, TLAPS

\* A sequence without its n-th element: the others keep their order.
LEMMA RemoveAtFacts ==
  ASSUME NEW S, NEW s \in Seq(S), NEW n \in DOMAIN s
  PROVE  /\ RemoveAt(s, n) \in Seq(S)
         /\ DOMAIN RemoveAt(s, n) = 1 .. Len(s) - 1
         /\ \A k \in 1 .. Len(s) - 1 :
                RemoveAt(s, n)[k] = IF k < n THEN s[k] ELSE s[k + 1]
  <1> DEFINE p == SubSeq(s, 1, n - 1)
             q == SubSeq(s, n + 1, Len(s))
  <1>1. n \in 1 .. Len(s) /\ Len(s) \in Nat
    OBVIOUS
  <1>2. p \in Seq(S) /\ Len(p) = n - 1 /\ \A k \in 1 .. n - 1 : p[k] = s[k]
    BY <1>1
  <1>3. /\ q \in Seq(S) /\ Len(q) = Len(s) - n
        /\ \A k \in 1 .. Len(s) - n : q[k] = s[n + k]
    BY <1>1
  <1>4. RemoveAt(s, n) = p \o q
    BY DEF RemoveAt
  <1> HIDE DEF p, q
  <1>5. /\ p \o q \in Seq(S) /\ Len(p \o q) = Len(p) + Len(q)
        /\ \A k \in 1 .. Len(p) + Len(q) :
              (p \o q)[k] = IF k =< Len(p) THEN p[k] ELSE q[k - Len(p)]
    BY <1>2, <1>3, ConcatProperties
  <1>6. ASSUME NEW k \in 1 .. Len(s) - 1
        PROVE  (p \o q)[k] = IF k < n THEN s[k] ELSE s[k + 1]
    <2>1. k \in 1 .. Len(p) + Len(q)
      BY <1>1, <1>2, <1>3
    <2>2. CASE k < n
      BY <1>1, <1>2, <1>5, <2>1, <2>2
    <2>3. CASE ~(k < n)
      <3>1. k - (n - 1) \in 1 .. Len(s) - n /\ n + (k - (n - 1)) = k + 1
        BY <1>1, <2>3
      <3>2. (p \o q)[k] = q[k - (n - 1)]
        BY <1>1, <1>2, <1>5, <2>1, <2>3
      <3> QED
        BY <1>3, <2>3, <3>1, <3>2
    <2> QED
      BY <2>2, <2>3
  <1>7. DOMAIN (p \o q) = 1 .. Len(s) - 1
    BY <1>1, <1>2, <1>3, <1>5
  <1> QED
    BY <1>4, <1>5, <1>6, <1>7

\* What is submitted to a queue.
Entry ==
    [kind : {"render", "present", "refused"}, frame : Frames, image : Images]
    \cup [kind : {"copy"}, frame : {NullHandle}, image : {NoImage}]

\* The types of what ResourcesFree depends on.
Types ==
    /\ m_inFlightFences \in [Frames -> BOOLEAN]
    /\ m_imagesInFlight \in [Images -> Frames \cup {NullHandle}]
    /\ m_currentFrame \in Frames
    /\ pc \in {"idle", "acquired"} \cup Calls
    /\ pc \in {"acquired", "prepare", "submit", "present"} => image \in Images
    /\ image \in Images \cup {NoImage}
    /\ pc \in {"idle", "acquire"} => image = NoImage
    /\ work \in Seq(Entry)

\* The n-th submission renders.
IsRender(n) == n \in DOMAIN work /\ work[n].kind = "render"

\* A render in the queue holds its frame's fence and is noted for its image ...
RendersNoted ==
    \A n \in DOMAIN work : IsRender(n) =>
        /\ ~m_inFlightFences[work[n].frame]
        /\ m_imagesInFlight[work[n].image] = work[n].frame

\* ... it is the only one of its frame ...
OneRenderPerFrame ==
    \A m, n \in DOMAIN work :
        IsRender(m) /\ IsRender(n) /\ work[m].frame = work[n].frame => m = n

\* ... and none is of the frame that is being prepared, also while a copy is
\* made in the middle of it.
Preparing ==
    \/ pc \in {"acquired", "prepare", "submit"}
    \/ pc \in {"copy", "waitIdle"} /\ image # NoImage

CurrentFrameFree ==
    Preparing =>
        \A n \in DOMAIN work : IsRender(n) => work[n].frame # m_currentFrame

\* The frame to be submitted is noted, and its fence is reset.
SubmitNoted ==
    pc = "submit" =>
        ~m_inFlightFences[m_currentFrame] /\ m_imagesInFlight[image] = m_currentFrame

\* The inductive invariant of ResourcesFree.
Inv ==
    /\ Types
    /\ RendersNoted
    /\ OneRenderPerFrame
    /\ CurrentFrameFree
    /\ SubmitNoted
    /\ ResourcesFree

\* Frames are counted modulo their number, the null handle is none of them, and
\* no image is no image.
LEMMA FramesFacts ==
  /\ 0 \in Frames
  /\ \A f \in Frames : (f + 1) % ImagesInFlight \in Frames
  /\ NullHandle \notin Frames
  /\ NoImage \notin Images
  BY SwapChainAssumption DEF Frames, NullHandle, Images, NoImage

\* A render in the queue has a frame and an image.
LEMMA EntryFacts ==
  ASSUME Types, NEW n \in DOMAIN work, IsRender(n)
  PROVE  /\ work[n] \in Entry
         /\ work[n].frame \in Frames
         /\ work[n].image \in Images
  <1>1. work[n] \in Entry
    BY DEF Types
  <1> QED
    BY <1>1 DEF Entry, IsRender

\* Nothing is in flight at first.
LEMMA InitInv == Init => Inv
  BY FramesFacts DEF Init, Inv, Types, RendersNoted, OneRenderPerFrame, CurrentFrameFree,
     SubmitNoted, ResourcesFree, IsRender, Entry

\* A step that takes the n-th submission from the queue, and signals at most
\* the fence of its frame, if it is a render.
LEMMA TakeInv ==
  ASSUME Inv, NEW n \in DOMAIN work,
         work' = RemoveAt(work, n),
         \/ /\ work[n].kind = "render"
            /\ m_inFlightFences' = [m_inFlightFences EXCEPT ![work[n].frame] = TRUE]
         \/ m_inFlightFences' = m_inFlightFences,
         UNCHANGED <<m_imagesInFlight, m_currentFrame, pc, image>>
  PROVE  Inv'
  <1> DEFINE old(k) == IF k < n THEN k ELSE k + 1
  <1>1. work \in Seq(Entry)
    BY DEF Inv, Types
  <1>2. /\ work' \in Seq(Entry)
        /\ DOMAIN work' = 1 .. Len(work) - 1
        /\ \A k \in DOMAIN work' :
              old(k) \in DOMAIN work /\ old(k) # n /\ work'[k] = work[old(k)]
    <2>1. /\ RemoveAt(work, n) \in Seq(Entry)
          /\ DOMAIN RemoveAt(work, n) = 1 .. Len(work) - 1
          /\ \A k \in 1 .. Len(work) - 1 :
                RemoveAt(work, n)[k] = IF k < n THEN work[k] ELSE work[k + 1]
      BY <1>1, RemoveAtFacts
    <2>2. DOMAIN work = 1 .. Len(work) /\ Len(work) \in Nat
      BY <1>1
    <2> QED
      BY <2>1, <2>2
  <1>3. \A j, k \in DOMAIN work' : old(j) = old(k) => j = k
    BY <1>2, <1>1
  <1>4. \A k \in DOMAIN work' : IsRender(k)' =>
            /\ IsRender(old(k))
            /\ work'[k].frame \in Frames
            /\ m_inFlightFences'[work'[k].frame] = m_inFlightFences[work'[k].frame]
    <2> SUFFICES ASSUME NEW k \in DOMAIN work', IsRender(k)'
                 PROVE  /\ IsRender(old(k))
                        /\ work'[k].frame \in Frames
                        /\ m_inFlightFences'[work'[k].frame] = m_inFlightFences[work'[k].frame]
      OBVIOUS
    <2>1. IsRender(old(k)) /\ work'[k] = work[old(k)] /\ old(k) # n /\ old(k) \in DOMAIN work
      BY <1>2 DEF IsRender
    <2>2. work'[k].frame \in Frames
      BY <2>1, EntryFacts DEF Inv
    <2>3. work[n].kind = "render" => work[n].frame # work[old(k)].frame
      BY <2>1 DEF Inv, OneRenderPerFrame, IsRender
    <2> HIDE DEF old
    <2> QED
      BY <2>1, <2>2, <2>3 DEF Inv, Types
  <1> HIDE DEF old
  <1>5. Types'
    BY <1>1, <1>2 DEF Inv, Types, Entry
  <1>6. RendersNoted'
    BY <1>2, <1>4 DEF Inv, RendersNoted
  <1>7. OneRenderPerFrame'
    BY <1>2, <1>3, <1>4 DEF Inv, OneRenderPerFrame
  <1>8. CurrentFrameFree' /\ ResourcesFree'
    BY <1>2, <1>4 DEF Inv, CurrentFrameFree, Preparing, ResourcesFree, IsRender
  <1>9. SubmitNoted'
    BY <1>1 DEF Inv, SubmitNoted, Types, CurrentFrameFree, Preparing, IsRender, Entry
  <1> QED
    BY <1>5, <1>6, <1>7, <1>8, <1>9 DEF Inv

\* A step that submits something other than a render.
LEMMA AppendInv ==
  ASSUME Inv, NEW e \in Entry, e.kind # "render",
         work' = Append(work, e),
         UNCHANGED <<m_inFlightFences, m_imagesInFlight>>
  PROVE  /\ work' \in Seq(Entry)
         /\ RendersNoted'
         /\ OneRenderPerFrame'
         /\ \A k \in DOMAIN work' : IsRender(k)' => IsRender(k) /\ work'[k] = work[k]
  <1>1. work \in Seq(Entry)
    BY DEF Inv, Types
  <1>2. /\ work' \in Seq(Entry)
        /\ DOMAIN work' = 1 .. Len(work) + 1
        /\ DOMAIN work = 1 .. Len(work)
        /\ work'[Len(work) + 1] = e
        /\ \A k \in DOMAIN work : work'[k] = work[k]
    BY <1>1
  <1>3. \A k \in DOMAIN work' : IsRender(k)' => IsRender(k) /\ work'[k] = work[k]
    BY <1>2 DEF IsRender
  <1> QED
    BY <1>2, <1>3 DEF Inv, RendersNoted, OneRenderPerFrame, IsRender

\* vkQueuePresentKHR queues a present of the frame, to be shown or refused, or
\* nothing.
LEMMA PresentSubmits ==
  ASSUME Types, Present
  PROVE  \/ /\ UNCHANGED dropped
            /\ \E e \in Entry : /\ e.kind \in {"present", "refused"}
                                /\ e.frame = m_currentFrame /\ e.image = image
                                /\ work' = Append(work, e)
         \/ /\ UNCHANGED work
            /\ dropped' = dropped \cup {[frame |-> m_currentFrame, image |-> image]}
  <1>1. m_currentFrame \in Frames /\ image \in Images
    BY DEF Types, Present
  <1>2. ASSUME NEW k \in {"present", "refused"}
        PROVE  [kind |-> k, frame |-> m_currentFrame, image |-> image] \in Entry
    BY <1>1 DEF Entry
  <1>3. CASE UNCHANGED dropped /\ \E k \in {"present", "refused"} :
                work' = Append(work, [kind |-> k, frame |-> m_currentFrame, image |-> image])
    BY <1>2, <1>3
  <1> QED
    BY <1>3 DEF Present, QueuePresent

\* Every step keeps the invariant: Prepare waits until no render of its image is
\* left, Submit adds the only one of its frame, and Render takes it away.
LEMMA NextInv == Inv /\ [Next]_vars => Inv'
  <1> SUFFICES ASSUME Inv, [Next]_vars PROVE Inv'
    OBVIOUS
  <1> USE FramesFacts DEF gpu, Preparing, Calls
  <1>1. CASE Acquire
    BY <1>1 DEF Acquire, Inv, Types, RendersNoted, OneRenderPerFrame, CurrentFrameFree,
       SubmitNoted, ResourcesFree, IsRender
  <1>2. ASSUME NEW i \in Images, Acquired(i) PROVE Inv'
    BY <1>2 DEF Acquired, Inv, Types, RendersNoted, OneRenderPerFrame, CurrentFrameFree,
       SubmitNoted, ResourcesFree, IsRender
  <1>3. CASE AcquireFails
    BY <1>3 DEF AcquireFails, Inv, Types, RendersNoted, OneRenderPerFrame,
       CurrentFrameFree, SubmitNoted, ResourcesFree, IsRender
  <1>4. CASE Prepare
    <2>1. \A n \in DOMAIN work : IsRender(n) =>
              /\ work[n].image \in Images /\ work[n].frame \in Frames
              /\ work[n].image # image
              /\ work[n].frame # m_currentFrame
      <3> SUFFICES ASSUME NEW n \in DOMAIN work, IsRender(n)
                   PROVE  /\ work[n].image \in Images /\ work[n].frame \in Frames
                          /\ work[n].image # image
                          /\ work[n].frame # m_currentFrame
        OBVIOUS
      <3>1. work[n].image \in Images /\ work[n].frame \in Frames
        BY EntryFacts DEF Inv
      <3>2. ~m_inFlightFences[work[n].frame] /\ m_imagesInFlight[work[n].image] = work[n].frame
        BY DEF Inv, RendersNoted
      <3>3. work[n].image # image
        BY <1>4, <3>1, <3>2 DEF Prepare
      <3>4. work[n].frame # m_currentFrame
        BY <1>4 DEF Prepare, Inv, CurrentFrameFree
      <3> QED
        BY <3>1, <3>3, <3>4
    <2>2. Types'
      BY <1>4 DEF Prepare, Inv, Types
    <2>3. RendersNoted' /\ OneRenderPerFrame'
      BY <1>4, <2>1 DEF Prepare, Inv, Types, RendersNoted, OneRenderPerFrame, IsRender
    <2>4. CurrentFrameFree' /\ ResourcesFree'
      BY <1>4, <2>1 DEF Prepare, CurrentFrameFree, ResourcesFree, IsRender
    <2>5. SubmitNoted'
      BY <1>4 DEF Prepare, Inv, Types, SubmitNoted
    <2> QED
      BY <2>2, <2>3, <2>4, <2>5 DEF Inv
  <1>5. CASE Submit
    <2> DEFINE e == [kind |-> "render", frame |-> m_currentFrame, image |-> image]
    <2>1. e \in Entry /\ work \in Seq(Entry) /\ work' = Append(work, e)
      BY <1>5 DEF Submit, Inv, Types, Entry
    <2>2. /\ work' \in Seq(Entry)
          /\ DOMAIN work' = 1 .. Len(work) + 1
          /\ DOMAIN work = 1 .. Len(work)
          /\ work'[Len(work) + 1] = e
          /\ \A k \in DOMAIN work : work'[k] = work[k]
      BY <2>1
    <2>3. Types'
      BY <1>5, <2>2 DEF Submit, Inv, Types
    <2>4. RendersNoted'
      BY <1>5, <2>1, <2>2 DEF Submit, Inv, RendersNoted, SubmitNoted, IsRender
    <2>5. OneRenderPerFrame'
      BY <1>5, <2>1, <2>2 DEF Submit, Inv, OneRenderPerFrame, CurrentFrameFree, IsRender
    <2>6. CurrentFrameFree' /\ SubmitNoted' /\ ResourcesFree'
      BY <1>5 DEF Submit, CurrentFrameFree, SubmitNoted, ResourcesFree
    <2> QED
      BY <2>3, <2>4, <2>5, <2>6 DEF Inv
  <1>6. CASE SubmitFails
    BY <1>6 DEF SubmitFails, Inv, Types, RendersNoted, OneRenderPerFrame,
       CurrentFrameFree, SubmitNoted, ResourcesFree, IsRender
  <1>7. CASE Present
    <2>1. CurrentFrameFree' /\ SubmitNoted' /\ ResourcesFree'
      BY <1>7 DEF Present, CurrentFrameFree, SubmitNoted, ResourcesFree
    <2>2. UNCHANGED <<m_inFlightFences, m_imagesInFlight>>
      BY <1>7 DEF Present
    <2>3. CASE UNCHANGED work
      BY <1>7, <2>1, <2>3 DEF Present, Inv, Types, RendersNoted, OneRenderPerFrame, IsRender
    <2>4. CASE ~UNCHANGED work
      <3>1. PICK e \in Entry : e.kind # "render" /\ work' = Append(work, e)
        BY <1>7, <2>4, PresentSubmits DEF Inv
      <3>2. work' \in Seq(Entry) /\ RendersNoted' /\ OneRenderPerFrame'
        BY <2>2, <3>1, AppendInv
      <3>3. Types'
        BY <1>7, <3>2 DEF Present, Inv, Types
      <3> QED
        BY <2>1, <3>2, <3>3 DEF Inv
    <2> QED
      BY <2>3, <2>4
  <1>8. ASSUME NEW n \in DOMAIN work, Render(n) PROVE Inv'
    BY <1>8, TakeInv DEF Render, CanRender
  <1>9. ASSUME NEW n \in DOMAIN work, Show(n) \/ Refuse(n) PROVE Inv'
    BY <1>9, TakeInv DEF Show, Refuse
  <1>10. CASE Release
    BY <1>10 DEF Release, Inv, Types, RendersNoted, OneRenderPerFrame, CurrentFrameFree,
       SubmitNoted, ResourcesFree, IsRender
  <1>11. ASSUME NEW f \in Frames, Available(f) PROVE Inv'
    BY <1>11 DEF Available, Inv, Types, RendersNoted, OneRenderPerFrame, CurrentFrameFree,
       SubmitNoted, ResourcesFree, IsRender
  <1>12. CASE UNCHANGED vars
    BY <1>12 DEF vars, Inv, Types, RendersNoted, OneRenderPerFrame, CurrentFrameFree,
       SubmitNoted, ResourcesFree, IsRender
  <1>13. CASE SubmitCommandBuffers
    BY <1>13 DEF SubmitCommandBuffers, Inv, Types, RendersNoted, OneRenderPerFrame,
       CurrentFrameFree, SubmitNoted, ResourcesFree, IsRender
  <1>14. CASE BeginCopy
    BY <1>14 DEF BeginCopy, Inv, Types, RendersNoted, OneRenderPerFrame, CurrentFrameFree,
       SubmitNoted, ResourcesFree, IsRender
  <1>15. CASE SubmitCopy
    <2>1. CASE UNCHANGED work
      BY <1>15, <2>1 DEF SubmitCopy, Inv, Types, RendersNoted, OneRenderPerFrame,
         CurrentFrameFree, SubmitNoted, ResourcesFree, IsRender
    <2>2. CASE ~UNCHANGED work
      <3> DEFINE e == [kind |-> "copy", frame |-> NullHandle, image |-> NoImage]
      <3>1. e \in Entry /\ e.kind # "render"
        BY DEF Entry
      <3>2. work' = Append(work, e) /\ UNCHANGED <<m_inFlightFences, m_imagesInFlight>>
        BY <1>15, <2>2 DEF SubmitCopy
      <3> HIDE DEF e
      <3>3. /\ work' \in Seq(Entry) /\ RendersNoted' /\ OneRenderPerFrame'
            /\ \A k \in DOMAIN work' : IsRender(k)' => IsRender(k) /\ work'[k] = work[k]
        BY <3>1, <3>2, AppendInv
      <3>4. Types'
        BY <1>15, <3>3 DEF SubmitCopy, Inv, Types
      <3>5. CurrentFrameFree' /\ SubmitNoted' /\ ResourcesFree'
        BY <1>15, <3>3 DEF SubmitCopy, Inv, CurrentFrameFree, SubmitNoted, ResourcesFree, IsRender
      <3> QED
        BY <3>3, <3>4, <3>5 DEF Inv
    <2> QED
      BY <2>1, <2>2
  <1>16. CASE FinishCopy
    BY <1>16 DEF FinishCopy, Inv, Types, RendersNoted, OneRenderPerFrame, CurrentFrameFree,
       SubmitNoted, ResourcesFree, IsRender
  <1>17. ASSUME NEW n \in DOMAIN work, Copy(n) PROVE Inv'
    BY <1>17, TakeInv DEF Copy
  <1> QED
    BY <1>1, <1>2, <1>3, <1>4, <1>5, <1>6, <1>7, <1>8, <1>9, <1>10, <1>11, <1>12,
       <1>13, <1>14, <1>15, <1>16, <1>17
    DEF Next, CallProgress, Engine

\* A frame is submitted only when nothing that was submitted before still uses
\* its fence, its semaphore, or the command buffer and depth image of its image.
THEOREM ResourcesNeverShared == Spec => []ResourcesFree
  <1>1. Inv => ResourcesFree
    BY DEF Inv
  <1> QED
    BY InitInv, NextInv, <1>1, PTL DEF Spec

-----------------------------------------------------------------------------
(***************************************************************************)
(* Counting the presents.                                                  *)
(***************************************************************************)

\* How many of the first m submissions are presents.
PresentsUpTo(w, m) == Cardinality({k \in 1 .. m : w[k].kind = "present"})

\* These are numbers, and every present counts for one.
LEMMA CountType ==
  ASSUME NEW w, NEW m \in Nat
  PROVE  /\ IsFiniteSet({k \in 1 .. m : w[k].kind = "present"})
         /\ PresentsUpTo(w, m) \in Nat
         /\ PresentsUpTo(w, m) =< m
         /\ m > 0 /\ w[m].kind = "present" => PresentsUpTo(w, m) > 0
  <1> DEFINE S == {k \in 1 .. m : w[k].kind = "present"}
  <1>1. IsFiniteSet(1 .. m) /\ Cardinality(1 .. m) = m
    BY FS_Interval
  <1>2. S \in SUBSET (1 .. m)
    OBVIOUS
  <1> HIDE DEF S
  <1>3. IsFiniteSet(S) /\ Cardinality(S) =< m
    BY <1>1, <1>2, FS_Subset
  <1>4. Cardinality(S) \in Nat
    BY <1>3, FS_CardinalityType
  <1>5. S # {} => Cardinality(S) # 0
    BY <1>3, FS_EmptySet
  <1> QED
    BY <1>3, <1>4, <1>5 DEF S, PresentsUpTo

\* The count depends only on the submissions counted.
LEMMA CountSame ==
  ASSUME NEW w, NEW v, NEW m \in Nat, \A k \in 1 .. m : w[k] = v[k]
  PROVE  PresentsUpTo(w, m) = PresentsUpTo(v, m)
  <1>1. {k \in 1 .. m : w[k].kind = "present"} = {k \in 1 .. m : v[k].kind = "present"}
    OBVIOUS
  <1> QED
    BY <1>1 DEF PresentsUpTo

\* It grows with them.
LEMMA CountGrows ==
  ASSUME NEW w, NEW m \in Nat, NEW l \in 0 .. m
  PROVE  PresentsUpTo(w, l) =< PresentsUpTo(w, m)
  <1> DEFINE S == {k \in 1 .. m : w[k].kind = "present"}
             T == {k \in 1 .. l : w[k].kind = "present"}
  <1>1. T \in SUBSET S
    OBVIOUS
  <1>2. IsFiniteSet(S)
    BY CountType
  <1>3. Cardinality(T) =< Cardinality(S)
    BY <1>1, <1>2, FS_Subset
  <1> QED
    BY <1>3 DEF PresentsUpTo

\* Without the n-th submission there is one less of those that follow, if it
\* was a present.
LEMMA CountRemoved ==
  ASSUME NEW w, NEW v, NEW m \in Nat, NEW n \in 1 .. m + 1,
         \A k \in 1 .. m : v[k] = IF k < n THEN w[k] ELSE w[k + 1]
  PROVE  PresentsUpTo(v, m) =
            PresentsUpTo(w, m + 1) - (IF w[n].kind = "present" THEN 1 ELSE 0)
  <1> DEFINE S == {k \in 1 .. m : v[k].kind = "present"}
             A == {k \in 1 .. m + 1 : w[k].kind = "present"}
             T == A \ {n}
             f == [k \in S |-> IF k < n THEN k ELSE k + 1]
  <1>0. m + 1 \in Nat
    OBVIOUS
  <1>1. IsFiniteSet(S) /\ IsFiniteSet(A)
    BY <1>0, CountType
  <1>2. f \in [S -> T]
    OBVIOUS
  <1>3. f \in Injection(S, T)
    <2>1. \A j, k \in S : f[j] = f[k] => j = k
      OBVIOUS
    <2> HIDE DEF f, S, T
    <2> QED
      BY <1>2, <2>1 DEF Injection, IsInjective
  <1>4. f \in Surjection(S, T)
    <2>1. ASSUME NEW t \in T
          PROVE  \E k \in S : f[k] = t
      <3>1. CASE t < n
        BY <3>1
      <3>2. CASE ~(t < n)
        <4>1. t - 1 \in S /\ f[t - 1] = t
          BY <3>2
        <4> QED
          BY <4>1
      <3> QED
        BY <3>1, <3>2
    <2> HIDE DEF f, S, T
    <2> QED
      BY <1>2, <2>1 DEF Surjection
  <1>5. Cardinality(T) = Cardinality(S)
    <2> HIDE DEF f, S, T
    <2>1. ExistsBijection(S, T)
      BY <1>3, <1>4 DEF ExistsBijection, Bijection
    <2> QED
      BY <1>1, <2>1, FS_Bijection
  <1>6. Cardinality(T) = IF n \in A THEN Cardinality(A) - 1 ELSE Cardinality(A)
    BY <1>1, FS_RemoveElement
  <1>7. n \in A <=> w[n].kind = "present"
    OBVIOUS
  <1>8. Cardinality(A) \in Nat
    BY <1>1, FS_CardinalityType
  <1>9. PresentsUpTo(v, m) = Cardinality(S) /\ PresentsUpTo(w, m + 1) = Cardinality(A)
    BY DEF PresentsUpTo
  <1> HIDE DEF A, S, T
  <1>10. CASE n \in A
    BY <1>5, <1>6, <1>7, <1>8, <1>9, <1>10
  <1>11. CASE n \notin A
    <2>1. Cardinality(S) = Cardinality(A)
      BY <1>5, <1>6, <1>11
    <2>2. PresentsUpTo(v, m) = PresentsUpTo(w, m + 1) /\ PresentsUpTo(w, m + 1) \in Nat
      BY <1>8, <1>9, <2>1
    <2> QED
      BY <1>7, <1>11, <2>2
  <1> QED
    BY <1>10, <1>11

\* Max is the greatest of a bounded set of numbers.
LEMMA GreatestIs ==
  ASSUME NEW S \in SUBSET Nat, S # {}, NEW b \in Nat, \A x \in S : x =< b
  PROVE  Max(S) \in S /\ \A x \in S : x =< Max(S)
  <1> DEFINE T == {b - x : x \in S}
  <1>0. \A x \in S : b - x \in Nat
    OBVIOUS
  <1>1. T \in SUBSET Nat /\ T # {}
    BY <1>0
  <1>2. PICK t \in T : \A y \in T : ~(<<y, t>> \in OpToRel(<, Nat))
    BY <1>1, NatLessThanWellFounded, WFMin
  <1>3. PICK x \in S : t = b - x
    OBVIOUS
  <1>4. \A y \in S : y =< x
    <2> SUFFICES ASSUME NEW y \in S, y > x PROVE FALSE
      OBVIOUS
    <2>1. b - y \in T /\ b - y \in Nat /\ t \in Nat /\ b - y < t
      BY <1>3
    <2>2. <<b - y, t>> \in Nat \X Nat /\ <<b - y, t>>[1] < <<b - y, t>>[2]
      BY <2>1
    <2> HIDE DEF T
    <2> QED
      BY <1>2, <2>1, <2>2 DEF OpToRel
  <1> QED
    BY <1>4 DEF Max

-----------------------------------------------------------------------------
(***************************************************************************)
(* The fences and the semaphore imageAvailable of a frame.                 *)
(***************************************************************************)

\* The types of the other variables.
MoreTypes ==
    /\ imageAvailable \in [Frames -> BOOLEAN]
    /\ renderFinished \in [Frames -> BOOLEAN]
    /\ reading \in Seq(Images)
    /\ ahead \in [Frames -> Nat \cup {NotDue}]
    /\ failed \in BOOLEAN
    /\ dropped \subseteq [frame : Frames, image : Images]

\* A fence that is not signalled is that of a render in the queue, or of the one
\* about to be submitted, unless a submission has failed.
FencesDue ==
    \A f \in Frames : ~m_inFlightFences[f] =>
        \/ failed
        \/ pc = "submit" /\ f = m_currentFrame
        \/ \E n \in DOMAIN work : IsRender(n) /\ work[n].frame = f

\* The caller has an image and has not yet reset the fence of its frame.
Holds == Preparing /\ pc # "submit"

\* The signal of imageAvailable is due, or given, or consumed, and it is
\* consumed when the fence is signalled.
SemaphoreFree ==
    \A f \in Frames :
        /\ imageAvailable[f] => ahead[f] = NotDue
        /\ m_inFlightFences[f] /\ ~(f = m_currentFrame /\ Holds) =>
                ~imageAvailable[f] /\ ahead[f] = NotDue

\* The invariant of the fences and of imageAvailable.
FenceInv == MoreTypes /\ FencesDue /\ SemaphoreFree

\* The n-th submission presents.
IsPresent(n) == n \in DOMAIN work /\ work[n].kind = "present"

\* Image i is used only by the first k releases, among those of the images that
\* the engine reads and of the presents before the n-th submission.
UsesWithin(i, n, k) ==
    /\ \A p \in DOMAIN reading : reading[p] = i => p =< k
    /\ \A m \in 1 .. n - 1 : IsPresent(m) /\ work[m].image = i => Turn(m) =< k

\* There are as many releases until the last use of an image as are counted.
LEMMA ReleasesFacts ==
  ASSUME reading \in Seq(Images), work \in Seq(Entry), NEW i
  PROVE  ReleasesUntil(i) \in Nat /\ UsesWithin(i, Len(work) + 1, ReleasesUntil(i))
  <1> DEFINE R == {p \in DOMAIN reading : reading[p] = i}
             M == {m \in DOMAIN work : work[m].kind = "present" /\ work[m].image = i}
             P == {Turn(m) : m \in M}
             S == {0} \cup R \cup P
             b == Len(reading) + Len(work)
  <1>1. /\ DOMAIN reading = 1 .. Len(reading) /\ Len(reading) \in Nat
        /\ DOMAIN work = 1 .. Len(work) /\ Len(work) \in Nat
    OBVIOUS
  <1>2. ASSUME NEW m \in DOMAIN work
        PROVE  Turn(m) \in Nat /\ Turn(m) =< b
    <2>0. m \in Nat /\ m =< Len(work)
      BY <1>1
    <2>1. PresentsUpTo(work, m) \in Nat /\ PresentsUpTo(work, m) =< m
      BY <2>0, CountType
    <2>2. Turn(m) = Len(reading) + PresentsUpTo(work, m)
      BY DEF Turn, PresentsUpTo
    <2> QED
      BY <1>1, <2>0, <2>1, <2>2
  <1>3. \A x \in S : x \in Nat /\ x =< b
    BY <1>1, <1>2
  <1>4. S \in SUBSET Nat /\ S # {} /\ b \in Nat
    <2>1. 0 \in S
      OBVIOUS
    <2>2. b \in Nat
      BY <1>1
    <2> HIDE DEF S, b
    <2> QED
      BY <1>3, <2>1, <2>2
  <1>5. Max(S) \in S /\ \A x \in S : x =< Max(S)
    <2> HIDE DEF S, b
    <2> QED
      BY <1>3, <1>4, GreatestIs
  <1>6. ReleasesUntil(i) = Max(S)
    BY DEF ReleasesUntil
  <1>7. \A p \in DOMAIN reading : reading[p] = i => p =< Max(S)
    BY <1>5
  <1>8. \A m \in 1 .. (Len(work) + 1) - 1 : IsPresent(m) /\ work[m].image = i => Turn(m) =< Max(S)
    BY <1>1, <1>5 DEF IsPresent
  <1> QED
    BY <1>3, <1>5, <1>6, <1>7, <1>8 DEF UsesWithin

\* All fences are signalled at first, and no semaphore is.
LEMMA InitFences == Init => FenceInv
  <1> SUFFICES ASSUME Init PROVE FenceInv
    OBVIOUS
  <1>1. MoreTypes
    <2>1. reading \in Seq(Images)
      BY DEF Init
    <2>2. /\ imageAvailable \in [Frames -> BOOLEAN]
          /\ renderFinished \in [Frames -> BOOLEAN]
          /\ failed \in BOOLEAN
          /\ dropped \subseteq [frame : Frames, image : Images]
      BY DEF Init
    <2>3. ahead \in [Frames -> Nat \cup {NotDue}]
      BY DEF Init
    <2> QED
      BY <2>1, <2>2, <2>3 DEF MoreTypes
  <1>2. FencesDue
    BY DEF Init, FencesDue
  <1>3. SemaphoreFree
    BY DEF Init, SemaphoreFree
  <1> QED
    BY <1>1, <1>2, <1>3 DEF FenceInv

\* Taking a submission from the queue takes no render of another frame.
LEMMA TakeKeeps ==
  ASSUME Types, NEW n \in DOMAIN work, work' = RemoveAt(work, n),
         NEW f, \E k \in DOMAIN work : IsRender(k) /\ work[k].frame = f,
         work[n].kind # "render" \/ work[n].frame # f
  PROVE  \E k \in DOMAIN work' : IsRender(k)' /\ work'[k].frame = f
  <1>1. PICK k \in DOMAIN work : IsRender(k) /\ work[k].frame = f
    OBVIOUS
  <1>2. work \in Seq(Entry) /\ k # n
    BY <1>1 DEF Types, IsRender
  <1>3. /\ DOMAIN work' = 1 .. Len(work) - 1
        /\ \A j \in 1 .. Len(work) - 1 : work'[j] = IF j < n THEN work[j] ELSE work[j + 1]
    BY <1>2, RemoveAtFacts
  <1>4. /\ DOMAIN work = 1 .. Len(work) /\ Len(work) \in Nat
    BY <1>2
  <1>5. CASE k < n
    BY <1>1, <1>3, <1>4, <1>5 DEF IsRender
  <1>6. CASE ~(k < n)
    <2>1. k - 1 \in DOMAIN work' /\ ~(k - 1 < n) /\ (k - 1) + 1 = k
      BY <1>2, <1>3, <1>4, <1>6
    <2>2. work'[k - 1] = work[k]
      BY <1>3, <2>1
    <2> QED
      BY <1>1, <2>1, <2>2 DEF IsRender
  <1> QED
    BY <1>5, <1>6

\* Appending one takes none.
LEMMA AppendKeeps ==
  ASSUME Types, NEW e, work' = Append(work, e),
         NEW f, \E k \in DOMAIN work : IsRender(k) /\ work[k].frame = f
  PROVE  \E k \in DOMAIN work' : IsRender(k)' /\ work'[k].frame = f
  <1>1. PICK k \in DOMAIN work : IsRender(k) /\ work[k].frame = f
    OBVIOUS
  <1>2. k \in DOMAIN work' /\ work'[k] = work[k]
    BY DEF Types
  <1> QED
    BY <1>1, <1>2 DEF IsRender

\* Every step keeps them: a fence is reset only to be submitted with a render,
\* whose execution consumes the semaphore.
LEMMA FenceStep ==
  ASSUME Inv, FenceInv, [Next]_vars
  PROVE  FenceInv'
  <1> USE DEF gpu
  <1>0. Types /\ MoreTypes
    BY DEF Inv, FenceInv
  <1>n. NotDue \notin Nat
    BY DEF NotDue
  <1>1. CASE Acquire
    BY <1>1 DEF Acquire, FenceInv, MoreTypes, FencesDue, SemaphoreFree, Holds, Preparing, IsRender
  <1>2. ASSUME NEW j \in Images, Acquired(j) PROVE FenceInv'
    <2>1. ReleasesUntil(j) \in Nat
      BY <1>0, ReleasesFacts DEF Types, MoreTypes
    <2>2. PICK k \in Nat : k = ReleasesUntil(j)
      BY <2>1
    <2>3. ahead' = [ahead EXCEPT ![m_currentFrame] = k]
      BY <1>2, <2>2 DEF Acquired
    <2>4. MoreTypes'
      BY <1>0, <1>2, <2>3 DEF Acquired, MoreTypes, Types
    <2>5. FencesDue'
      BY <1>2 DEF Acquired, FenceInv, FencesDue, IsRender
    <2>6. ~imageAvailable[m_currentFrame]
      BY <1>0, <1>2 DEF Acquired, FenceInv, SemaphoreFree, Holds, Preparing, Types
    <2>7. SemaphoreFree'
      BY <1>0, <1>2, <2>3, <2>6
      DEF Acquired, FenceInv, SemaphoreFree, Holds, Preparing, Types, MoreTypes
    <2> QED
      BY <2>4, <2>5, <2>7 DEF FenceInv
  <1>3. CASE AcquireFails
    BY <1>3 DEF AcquireFails, FenceInv, MoreTypes, FencesDue, SemaphoreFree, Holds, Preparing,
       IsRender
  <1>4. CASE Prepare
    <2>1. MoreTypes'
      BY <1>0, <1>4 DEF Prepare, MoreTypes
    <2>2. FencesDue'
      BY <1>0, <1>4 DEF Prepare, FenceInv, FencesDue, IsRender, Types
    <2>3. SemaphoreFree'
      BY <1>0, <1>4 DEF Prepare, FenceInv, SemaphoreFree, Holds, Preparing, Types
    <2> QED
      BY <2>1, <2>2, <2>3 DEF FenceInv
  <1>5. CASE Submit
    <2>1. MoreTypes'
      BY <1>0, <1>5 DEF Submit, MoreTypes
    <2>2. FencesDue'
      <3> SUFFICES ASSUME NEW f \in Frames, ~m_inFlightFences'[f], ~failed'
                   PROVE  \E n \in DOMAIN work' : IsRender(n)' /\ work'[n].frame = f
        BY DEF FencesDue
      <3> DEFINE e == [kind |-> "render", frame |-> m_currentFrame, image |-> image]
      <3>1. work' = Append(work, e)
        BY <1>5 DEF Submit
      <3>2. CASE f = m_currentFrame
        <4>1. /\ Len(work) + 1 \in DOMAIN work' /\ work'[Len(work) + 1] = e
          BY <1>0, <3>1 DEF Types
        <4> QED
          BY <3>2, <4>1 DEF IsRender
      <3>3. CASE f # m_currentFrame
        <4>1. \E k \in DOMAIN work : IsRender(k) /\ work[k].frame = f
          BY <1>5, <3>3 DEF Submit, FenceInv, FencesDue
        <4> HIDE DEF e
        <4> QED
          BY <1>0, <3>1, <4>1, AppendKeeps
      <3> QED
        BY <3>2, <3>3
    <2>3. SemaphoreFree'
      BY <1>0, <1>5 DEF Submit, FenceInv, SemaphoreFree, Holds, Preparing, Types
    <2> QED
      BY <2>1, <2>2, <2>3 DEF FenceInv
  <1>6. CASE SubmitFails
    <2>1. ~m_inFlightFences[m_currentFrame]
      BY <1>6 DEF SubmitFails, Inv, SubmitNoted
    <2>2. MoreTypes' /\ FencesDue'
      BY <1>0, <1>6 DEF SubmitFails, MoreTypes, FencesDue
    <2>3. SemaphoreFree'
      BY <1>6, <2>1 DEF SubmitFails, FenceInv, SemaphoreFree, Holds, Preparing
    <2> QED
      BY <2>2, <2>3 DEF FenceInv
  <1>7. CASE Present
    <2>1. MoreTypes'
      <3>1. dropped' \subseteq [frame : Frames, image : Images]
        BY <1>0, <1>7, PresentSubmits DEF Present, MoreTypes, Types
      <3> QED
        BY <1>0, <1>7, <3>1 DEF Present, MoreTypes
    <2>2. FencesDue'
      <3> SUFFICES ASSUME NEW f \in Frames, ~m_inFlightFences'[f], ~failed'
                   PROVE  \E n \in DOMAIN work' : IsRender(n)' /\ work'[n].frame = f
        BY DEF FencesDue
      <3>1. \E k \in DOMAIN work : IsRender(k) /\ work[k].frame = f
        BY <1>7 DEF Present, FenceInv, FencesDue
      <3>2. CASE UNCHANGED work
        BY <3>1, <3>2 DEF IsRender
      <3>3. CASE ~UNCHANGED work
        <4>1. PICK e : work' = Append(work, e)
          BY <1>0, <1>7, <3>3, PresentSubmits
        <4> QED
          BY <1>0, <3>1, <4>1, AppendKeeps
      <3> QED
        BY <3>2, <3>3
    <2>3. SemaphoreFree'
      BY <1>0, <1>7, FramesFacts DEF Present, FenceInv, SemaphoreFree, Holds, Preparing, Types
    <2> QED
      BY <2>1, <2>2, <2>3 DEF FenceInv
  <1>8. ASSUME NEW n \in DOMAIN work, Render(n) PROVE FenceInv'
    <2>0. PICK f \in Frames : f = work[n].frame
      BY <1>0, <1>8, EntryFacts DEF Render, CanRender, IsRender
    <2>1. /\ imageAvailable[f] /\ work' = RemoveAt(work, n) /\ IsRender(n)
          /\ imageAvailable' = [imageAvailable EXCEPT ![f] = FALSE]
          /\ renderFinished' = [renderFinished EXCEPT ![f] = TRUE]
          /\ m_inFlightFences' = [m_inFlightFences EXCEPT ![f] = TRUE]
          /\ UNCHANGED <<m_imagesInFlight, m_currentFrame, pc, image, reading, ahead, failed,
                         dropped>>
      BY <1>8, <2>0 DEF Render, CanRender, IsRender
    <2>2. MoreTypes'
      BY <1>0, <2>1 DEF MoreTypes
    <2>3. FencesDue'
      <3> SUFFICES ASSUME NEW g \in Frames, ~m_inFlightFences'[g], ~failed',
                          ~(pc' = "submit" /\ g = m_currentFrame')
                   PROVE  \E k \in DOMAIN work' : IsRender(k)' /\ work'[k].frame = g
        BY DEF FencesDue
      <3>1. g # f /\ ~m_inFlightFences[g]
        BY <1>0, <2>1 DEF Types
      <3>2. \E k \in DOMAIN work : IsRender(k) /\ work[k].frame = g
        BY <2>1, <3>1 DEF FenceInv, FencesDue
      <3> QED
        BY <1>0, <2>0, <2>1, <3>1, <3>2, TakeKeeps
    <2>4. SemaphoreFree'
      BY <1>0, <2>1 DEF FenceInv, SemaphoreFree, Holds, Preparing, Types, MoreTypes
    <2> QED
      BY <2>2, <2>3, <2>4 DEF FenceInv
  <1>9. ASSUME NEW n \in DOMAIN work, Show(n) \/ Refuse(n) \/ Copy(n) PROVE FenceInv'
    <2>1. /\ work' = RemoveAt(work, n) /\ work[n].kind # "render"
          /\ UNCHANGED <<m_inFlightFences, imageAvailable, m_currentFrame, pc, image, ahead,
                         failed, dropped>>
      BY <1>9 DEF Show, CanShow, Refuse, Copy
    <2>2. MoreTypes'
      <3>1. CASE Copy(n)
        BY <1>0, <3>1 DEF Copy, MoreTypes
      <3>3. CASE Refuse(n)
        BY <1>0, <3>3 DEF Refuse, MoreTypes
      <3>2. CASE Show(n)
        <4>1. work[n].image \in Images
          <5>1. work[n] \in Entry /\ work[n].kind = "present"
            BY <1>0, <3>2 DEF Types, Show, CanShow
          <5> QED
            BY <5>1 DEF Entry
        <4>2. reading' \in Seq(Images)
          BY <1>0, <3>2, <4>1 DEF Show, MoreTypes
        <4>3. renderFinished' \in [Frames -> BOOLEAN]
          BY <1>0, <3>2 DEF Show, MoreTypes
        <4> QED
          BY <1>0, <2>1, <4>2, <4>3 DEF MoreTypes
      <3> QED
        BY <1>9, <3>1, <3>2, <3>3
    <2>3. FencesDue'
      <3> SUFFICES ASSUME NEW g \in Frames, ~m_inFlightFences'[g], ~failed',
                          ~(pc' = "submit" /\ g = m_currentFrame')
                   PROVE  \E k \in DOMAIN work' : IsRender(k)' /\ work'[k].frame = g
        BY DEF FencesDue
      <3>1. \E k \in DOMAIN work : IsRender(k) /\ work[k].frame = g
        BY <2>1 DEF FenceInv, FencesDue
      <3> QED
        BY <1>0, <2>1, <3>1, TakeKeeps
    <2>4. SemaphoreFree'
      BY <2>1 DEF FenceInv, SemaphoreFree, Holds, Preparing
    <2> QED
      BY <2>2, <2>3, <2>4 DEF FenceInv
  <1>10. CASE Release
    <2>1. ahead' = [f \in Frames |-> IF ahead[f] > 0 THEN ahead[f] - 1 ELSE ahead[f]]
      BY <1>10 DEF Release
    <2>2. \A f \in Frames : /\ ahead[f] \in Nat \cup {NotDue}
                            /\ ahead'[f] \in Nat \cup {NotDue}
                            /\ ahead[f] = NotDue => ahead'[f] = NotDue
      BY <1>0, <2>1 DEF MoreTypes, NotDue
    <2>3. ahead' \in [Frames -> Nat \cup {NotDue}]
      BY <2>1, <2>2
    <2>4. reading' \in Seq(Images)
      BY <1>0, <1>10 DEF Release, MoreTypes
    <2>5. MoreTypes'
      BY <1>0, <1>10, <2>3, <2>4 DEF Release, MoreTypes
    <2>6. FencesDue'
      BY <1>10 DEF Release, FenceInv, FencesDue, IsRender
    <2>7. SemaphoreFree'
      BY <1>10, <2>2 DEF Release, FenceInv, SemaphoreFree, Holds, Preparing
    <2> QED
      BY <2>5, <2>6, <2>7 DEF FenceInv
  <1>11. ASSUME NEW f \in Frames, Available(f) PROVE FenceInv'
    <2>1. MoreTypes'
      BY <1>0, <1>11 DEF Available, MoreTypes
    <2>2. FencesDue'
      BY <1>11 DEF Available, FenceInv, FencesDue, IsRender
    <2>3. SemaphoreFree'
      BY <1>0, <1>n, <1>11
      DEF Available, FenceInv, SemaphoreFree, Holds, Preparing, MoreTypes
    <2> QED
      BY <2>1, <2>2, <2>3 DEF FenceInv
  <1>12. CASE UNCHANGED vars
    BY <1>12 DEF vars, FenceInv, MoreTypes, FencesDue, SemaphoreFree, Holds, Preparing, IsRender
  <1>13. CASE SubmitCommandBuffers
    BY <1>13 DEF SubmitCommandBuffers, FenceInv, MoreTypes, FencesDue, SemaphoreFree, Holds,
       Preparing, IsRender
  <1>14. CASE BeginCopy
    <2>1. MoreTypes' /\ FencesDue'
      BY <1>0, <1>14 DEF BeginCopy, FenceInv, MoreTypes, FencesDue, IsRender
    <2>2. Holds' <=> Holds
      BY <1>0, <1>14, FramesFacts DEF BeginCopy, Holds, Preparing, Types
    <2>3. SemaphoreFree'
      BY <1>14, <2>2 DEF BeginCopy, FenceInv, SemaphoreFree
    <2> QED
      BY <2>1, <2>3 DEF FenceInv
  <1>15. CASE SubmitCopy
    <2>1. MoreTypes'
      BY <1>0, <1>15 DEF SubmitCopy, MoreTypes
    <2>2. FencesDue'
      <3> SUFFICES ASSUME NEW f \in Frames, ~m_inFlightFences'[f], ~failed'
                   PROVE  \E n \in DOMAIN work' : IsRender(n)' /\ work'[n].frame = f
        BY DEF FencesDue
      <3>1. \E k \in DOMAIN work : IsRender(k) /\ work[k].frame = f
        BY <1>15 DEF SubmitCopy, FenceInv, FencesDue
      <3>2. CASE work' = work
        BY <3>1, <3>2 DEF IsRender
      <3>3. CASE work' # work
        <4>1. PICK e : work' = Append(work, e)
          BY <1>15, <3>3 DEF SubmitCopy
        <4> QED
          BY <1>0, <3>1, <4>1, AppendKeeps
      <3> QED
        BY <3>2, <3>3
    <2>3. SemaphoreFree'
      BY <1>15 DEF SubmitCopy, FenceInv, SemaphoreFree, Holds, Preparing
    <2> QED
      BY <2>1, <2>2, <2>3 DEF FenceInv
  <1>16. CASE FinishCopy
    BY <1>0, <1>16 DEF FinishCopy, FenceInv, MoreTypes, FencesDue, SemaphoreFree, Holds,
       Preparing, IsRender, Types
  <1> QED
    BY <1>1, <1>2, <1>3, <1>4, <1>5, <1>6, <1>7, <1>8, <1>9, <1>10, <1>11, <1>12,
       <1>13, <1>14, <1>15, <1>16
    DEF Next, CallProgress, Engine

\* The variables have their types, in every state that is reached.
THEOREM SwapChainTypes == Spec => []TypeOK
  <1>1. Inv /\ FenceInv => TypeOK
    <2> SUFFICES ASSUME Types, MoreTypes PROVE TypeOK
      BY DEF Inv, FenceInv
    <2>1. work \in Seq([kind : {"render", "present", "refused"}, frame : Frames,
                        image : Images]
                       \cup [kind : {"copy"}, frame : {NullHandle}, image : {NoImage}])
      BY DEF Types, Entry
    <2> QED
      BY <2>1 DEF TypeOK, Types, MoreTypes
  <1>2. Init => Inv /\ FenceInv
    BY InitInv, InitFences
  <1>3. Inv /\ FenceInv /\ [Next]_vars => Inv' /\ FenceInv'
    BY NextInv, FenceStep
  <1> QED
    BY <1>1, <1>2, <1>3, PTL DEF Spec

\* acquireNextImage never gives vkAcquireNextImageKHR a semaphore that is
\* signalled or to be signalled: it waited for the frame's fence, and the render
\* that signalled it had consumed the semaphore.
THEOREM AcquiresWithFreeSemaphore == Spec => AcquireSemaphoreFree
  <1>1. Inv /\ FenceInv /\ [Next]_vars =>
            [pc = "acquire" /\ pc' = "acquired" =>
                ~imageAvailable[m_currentFrame] /\ ahead[m_currentFrame] = NotDue]_vars
    <2> SUFFICES ASSUME Inv, FenceInv, [Next]_vars, pc = "acquire", pc' = "acquired"
                 PROVE  ~imageAvailable[m_currentFrame] /\ ahead[m_currentFrame] = NotDue
      OBVIOUS
    <2>1. m_inFlightFences[m_currentFrame]
      BY DEF Next, CallProgress, Engine, Acquire, Acquired, AcquireFails, SubmitCommandBuffers,
         Prepare, Submit, SubmitFails, Present, BeginCopy, SubmitCopy, FinishCopy, Render,
         Copy, Show, Refuse, Release, Available, vars
    <2> QED
      BY <2>1 DEF Inv, Types, FenceInv, SemaphoreFree, Holds, Preparing
  <1>2. Init => Inv /\ FenceInv
    BY InitInv, InitFences
  <1>3. Inv /\ FenceInv /\ [Next]_vars => Inv' /\ FenceInv'
    BY NextInv, FenceStep
  <1> QED
    BY <1>1, <1>2, <1>3, PTL DEF Spec, AcquireSemaphoreFree

\* When copyBuffer or copyBufferToImage returns, no frame is in flight.
THEOREM CopiesDrainFrames == Spec => CopyDrainsFrames
  <1>1. Inv /\ FenceInv /\ [Next]_vars =>
            [pc = "waitIdle" /\ pc' # "waitIdle" =>
                failed \/ \A f \in Frames : m_inFlightFences[f]]_vars
    <2> SUFFICES ASSUME Inv, FenceInv, [Next]_vars, pc = "waitIdle", pc' # "waitIdle"
                 PROVE  failed \/ \A f \in Frames : m_inFlightFences[f]
      OBVIOUS
    <2>1. \A n \in DOMAIN work : work[n].kind # "render"
      BY DEF Next, CallProgress, Engine, Acquire, Acquired, AcquireFails, SubmitCommandBuffers,
         Prepare, Submit, SubmitFails, Present, BeginCopy, SubmitCopy, FinishCopy, Graphics,
         Render, Copy, Show, Refuse, Release, Available, vars
    <2> QED
      BY <2>1 DEF FenceInv, FencesDue, IsRender
  <1>2. Init => Inv /\ FenceInv
    BY InitInv, InitFences
  <1>3. Inv /\ FenceInv /\ [Next]_vars => Inv' /\ FenceInv'
    BY NextInv, FenceStep
  <1> QED
    BY <1>1, <1>2, <1>3, PTL DEF Spec, CopyDrainsFrames

-----------------------------------------------------------------------------
(***************************************************************************)
(* Where the submissions are in the queue when the n-th is taken from it.  *)
(***************************************************************************)

\* The place before the n-th was taken of what is k-th after it, and conversely.
Old(k, n) == IF k < n THEN k ELSE k + 1
New(k, n) == IF k < n THEN k ELSE k - 1

\* Those that are left are the others, in their order.
LEMMA TakeFacts ==
  ASSUME work \in Seq(Entry), NEW n \in DOMAIN work, work' = RemoveAt(work, n)
  PROVE  /\ work' \in Seq(Entry)
         /\ DOMAIN work = 1 .. Len(work) /\ Len(work) \in Nat
         /\ DOMAIN work' = 1 .. Len(work) - 1 /\ Len(work') = Len(work) - 1
         /\ \A k \in DOMAIN work' :
                /\ Old(k, n) \in DOMAIN work /\ Old(k, n) # n
                /\ work'[k] = work[Old(k, n)]
                /\ New(Old(k, n), n) = k
         /\ \A k \in DOMAIN work : k # n =>
                /\ New(k, n) \in DOMAIN work'
                /\ work'[New(k, n)] = work[k]
                /\ Old(New(k, n), n) = k
         /\ \A j, k \in DOMAIN work' : j < k <=> Old(j, n) < Old(k, n)
         /\ \A j, k \in DOMAIN work : j # n /\ k # n => (j < k <=> New(j, n) < New(k, n))
  <1>1. /\ work' \in Seq(Entry)
        /\ DOMAIN work' = 1 .. Len(work) - 1
        /\ \A k \in 1 .. Len(work) - 1 : work'[k] = IF k < n THEN work[k] ELSE work[k + 1]
    BY RemoveAtFacts
  <1>2. DOMAIN work = 1 .. Len(work) /\ Len(work) \in Nat
    OBVIOUS
  <1>3. Len(work') = Len(work) - 1
    <2>1. Len(work') \in Nat /\ DOMAIN work' = 1 .. Len(work')
      BY <1>1
    <2>2. Len(work) - 1 \in Nat
      BY <1>2
    <2>3. ASSUME NEW a \in Nat, NEW b \in Nat, 1 .. a = 1 .. b, a < b PROVE FALSE
      <3>1. b \in 1 .. b /\ b \notin 1 .. a
        BY <2>3
      <3> QED
        BY <2>3, <3>1
    <2> QED
      BY <1>1, <2>1, <2>2, <2>3
  <1>4. \A k \in DOMAIN work' :
            /\ Old(k, n) \in DOMAIN work /\ Old(k, n) # n
            /\ work'[k] = work[Old(k, n)]
            /\ New(Old(k, n), n) = k
    BY <1>1, <1>2 DEF Old, New
  <1>5. \A k \in DOMAIN work : k # n =>
            /\ New(k, n) \in DOMAIN work'
            /\ work'[New(k, n)] = work[k]
            /\ Old(New(k, n), n) = k
    <2> SUFFICES ASSUME NEW k \in DOMAIN work, k # n
                 PROVE  /\ New(k, n) \in DOMAIN work'
                        /\ work'[New(k, n)] = work[k]
                        /\ Old(New(k, n), n) = k
      OBVIOUS
    <2>1. New(k, n) \in DOMAIN work' /\ Old(New(k, n), n) = k
      BY <1>1, <1>2 DEF Old, New
    <2> QED
      BY <1>4, <2>1
  <1>6. \A j, k \in DOMAIN work' : j < k <=> Old(j, n) < Old(k, n)
    BY <1>1, <1>2 DEF Old
  <1>7. \A j, k \in DOMAIN work : j # n /\ k # n => (j < k <=> New(j, n) < New(k, n))
    BY <1>2 DEF New
  <1> QED
    BY <1>1, <1>2, <1>3, <1>4, <1>5, <1>6, <1>7

\* The turn of a present changes by what is taken and by what is read.
LEMMA TurnFacts ==
  ASSUME work \in Seq(Entry), reading \in Seq(Images), reading' \in Seq(Images),
         NEW n \in DOMAIN work, work' = RemoveAt(work, n), NEW k \in DOMAIN work'
  PROVE  /\ Turn(Old(k, n)) \in Nat
         /\ Turn(k)' = Turn(Old(k, n)) + Len(reading') - Len(reading)
                        - (IF n =< k /\ work[n].kind = "present" THEN 1 ELSE 0)
  <1>0. DOMAIN work = 1 .. Len(work) /\ Len(work) \in Nat
    OBVIOUS
  <1>1. /\ DOMAIN work' = 1 .. Len(work) - 1
        /\ \A j \in 1 .. Len(work) - 1 : work'[j] = IF j < n THEN work[j] ELSE work[j + 1]
    BY RemoveAtFacts
  <1>2. k \in Nat /\ k + 1 \in Nat /\ Len(reading) \in Nat /\ Len(reading') \in Nat
    BY <1>1
  <1>3. \A m : /\ Turn(m) = Len(reading) + PresentsUpTo(work, m)
               /\ Turn(m)' = Len(reading') + PresentsUpTo(work', m)
    BY DEF Turn, PresentsUpTo
  <1>4. PresentsUpTo(work, k) \in Nat /\ PresentsUpTo(work, k + 1) \in Nat
    BY <1>2, CountType
  <1>5. CASE k < n
    <2>1. PresentsUpTo(work', k) = PresentsUpTo(work, k)
      <3>1. \A j \in 1 .. k : work'[j] = work[j]
        BY <1>1, <1>5
      <3> QED
        BY <1>2, <3>1, CountSame
    <2>2. Old(k, n) = k /\ ~(n =< k)
      BY <1>0, <1>1, <1>5 DEF Old
    <2> HIDE DEF Turn, PresentsUpTo
    <2>3. Turn(k) = Len(reading) + PresentsUpTo(work, k) /\ Turn(k)' = Len(reading') + PresentsUpTo(work, k)
      BY <1>3, <2>1
    <2> QED
      BY <1>2, <1>4, <2>2, <2>3
  <1>6. CASE ~(k < n)
    <2>1. PresentsUpTo(work', k) =
              PresentsUpTo(work, k + 1) - (IF work[n].kind = "present" THEN 1 ELSE 0)
      <3>1. \A j \in 1 .. k : work'[j] = IF j < n THEN work[j] ELSE work[j + 1]
        BY <1>1
      <3>2. n \in 1 .. k + 1
        BY <1>0, <1>1, <1>6
      <3> QED
        BY <1>2, <3>1, <3>2, CountRemoved
    <2>2. Old(k, n) = k + 1 /\ n =< k
      BY <1>0, <1>1, <1>6 DEF Old
    <2>3. /\ Turn(k + 1) = Len(reading) + PresentsUpTo(work, k + 1)
          /\ Turn(k)' = Len(reading') + PresentsUpTo(work', k)
      BY <1>3
    <2> HIDE DEF Turn, PresentsUpTo
    <2>4. CASE work[n].kind = "present"
      <3>1. PresentsUpTo(work', k) = PresentsUpTo(work, k + 1) - 1
        BY <2>1, <2>4
      <3> QED
        BY <1>2, <1>4, <2>2, <2>3, <2>4, <3>1
    <2>5. CASE work[n].kind # "present"
      <3>1. PresentsUpTo(work', k) = PresentsUpTo(work, k + 1)
        BY <1>4, <2>1, <2>5
      <3> QED
        BY <1>2, <1>4, <2>2, <2>3, <2>5, <3>1
    <2> QED
      BY <2>4, <2>5
  <1> QED
    BY <1>5, <1>6

-----------------------------------------------------------------------------
(***************************************************************************)
(* The order of the renders and the presents.                              *)
(***************************************************************************)

\* The frame that is about to be presented is noted for its image.
PresentNoted ==
    pc \in {"submit", "present"} => m_imagesInFlight[image] = m_currentFrame

\* The n-th submission is a present, to be shown or refused, which consumes the
\* signal of renderFinished.
Consumes(n) == n \in DOMAIN work /\ work[n].kind \in {"present", "refused"}

\* A present of frame f was not queued.
Skipped(f) == \E d \in dropped : d.frame = f

\* A render is followed by a present of its frame, or the caller is about to
\* call vkQueuePresentKHR, unless a present of the frame was not queued.
PresentFollows ==
    \A n \in DOMAIN work : IsRender(n) =>
        \/ \E m \in DOMAIN work : m > n /\ Consumes(m) /\ work[m].frame = work[n].frame
        \/ pc = "present" /\ work[n].frame = m_currentFrame
        \/ Skipped(work[n].frame)

\* A present after a render of the same image is the present of that frame.
OwnPresent ==
    \A m, n \in DOMAIN work :
        IsRender(n) /\ Consumes(m) /\ n < m /\ work[m].image = work[n].image =>
            work[m].frame = work[n].frame

\* A signal of renderFinished is for a present before any new render of the
\* frame, unless a present of the frame was not queued.
FinishedConsumed ==
    \A f \in Frames : renderFinished[f] =>
        \/ \E m \in DOMAIN work :
              /\ Consumes(m) /\ work[m].frame = f
              /\ \A n \in DOMAIN work : IsRender(n) /\ work[n].frame = f => m < n
        \/ /\ pc = "present" /\ f = m_currentFrame
           /\ \A n \in DOMAIN work : IsRender(n) => work[n].frame # f
        \/ Skipped(f)

\* The invariant of the order in the queue.
OrderInv == PresentNoted /\ PresentFollows /\ OwnPresent /\ FinishedConsumed

\* Nothing is submitted at first.
LEMMA InitOrder == Init => OrderInv
  <1> SUFFICES ASSUME Init PROVE OrderInv
    OBVIOUS
  <1>1. work = << >> /\ pc = "idle" /\ renderFinished = [f \in Frames |-> FALSE]
    BY DEF Init
  <1> QED
    BY <1>1 DEF OrderInv, PresentNoted, PresentFollows, OwnPresent, FinishedConsumed

\* A present has a frame and an image.
LEMMA PresentFacts ==
  ASSUME Types, NEW n \in DOMAIN work, Consumes(n)
  PROVE  work[n].frame \in Frames /\ work[n].image \in Images
  <1>1. work[n] \in Entry
    BY DEF Types
  <1> QED
    BY <1>1 DEF Entry, Consumes

\* The present that is executed is the first of the presents.  When its frame's
\* presents are ordered it comes before every render of its frame, for one of
\* which its semaphore is signalled, and before every render of its image.
LEMMA ShownFirst ==
  ASSUME Inv, OrderInv, NEW n \in DOMAIN work, Consumes(n), NextInQueue(n),
         renderFinished[work[n].frame]
  PROVE  /\ \A m \in DOMAIN work : Consumes(m) => n =< m
         /\ Ordered(work[n].frame) =>
                \A m \in DOMAIN work :
                    IsRender(m) /\ work[m].frame = work[n].frame => n < m
         /\ \A m \in DOMAIN work :
                /\ IsRender(m) /\ work[m].image = work[n].image
                /\ Ordered(work[m].frame) \/ Ordered(work[n].frame)
                => n < m
  <1>0. /\ Types /\ work \in Seq(Entry) /\ DOMAIN work = 1 .. Len(work) /\ Len(work) \in Nat
        /\ FinishedConsumed /\ OwnPresent
    BY DEF Inv, Types, OrderInv
  <1>1. \A m \in DOMAIN work : Consumes(m) => n =< m
    <2> SUFFICES ASSUME NEW m \in DOMAIN work, Consumes(m), m < n PROVE FALSE
      BY <1>0
    <2>1. m \in 1 .. n - 1
      BY <1>0
    <2> QED
      BY <2>1 DEF NextInQueue, Consumes, Graphics
  <1>2. PICK f \in Frames : f = work[n].frame /\ renderFinished[f]
    BY <1>0, PresentFacts
  <1>3. ASSUME Ordered(f), NEW m \in DOMAIN work, IsRender(m), work[m].frame = f
        PROVE  n < m
    <2>1. CASE SameQueue
      <3>1. 1 .. n - 1 = {} /\ n # m
        BY <1>3, <2>1 DEF NextInQueue, IsRender, Consumes
      <3> QED
        BY <1>0, <3>1
    <2>2. CASE ~SameQueue
      <3>1. ~Skipped(f)
        BY <1>3, <2>2 DEF Ordered, Skipped
      <3>2. PICK l \in DOMAIN work : Consumes(l) /\ l < m
        BY <1>0, <1>2, <1>3, <3>1 DEF FinishedConsumed
      <3> QED
        BY <1>0, <1>1, <3>2
    <2> QED
      BY <2>1, <2>2
  <1>4. ASSUME NEW m \in DOMAIN work, IsRender(m), work[m].image = work[n].image,
               Ordered(work[m].frame) \/ Ordered(work[n].frame)
        PROVE  n < m
    <2> SUFFICES ASSUME ~(n < m) PROVE FALSE
      OBVIOUS
    <2>1. m # n
      BY <1>4 DEF Consumes, IsRender
    <2>2. m < n
      BY <1>0, <2>1
    <2>3. work[m].frame = f
      BY <1>0, <1>2, <1>4, <2>2 DEF OwnPresent
    <2>4. Ordered(f)
      BY <1>2, <1>4, <2>3
    <2> QED
      BY <1>3, <1>4, <2>3, <2>4
  <1> QED
    BY <1>1, <1>2, <1>3, <1>4

\* Submissions are added at the end of the queue.
LEMMA AppendFacts ==
  ASSUME work \in Seq(Entry), NEW e, work' = Append(work, e)
  PROVE  /\ DOMAIN work = 1 .. Len(work) /\ Len(work) \in Nat
         /\ DOMAIN work' = 1 .. Len(work) + 1 /\ Len(work') = Len(work) + 1
         /\ work'[Len(work) + 1] = e
         /\ \A k \in DOMAIN work : work'[k] = work[k]
  OBVIOUS

\* What is a render or a present among them stays one.
LEMMA AppendKinds ==
  ASSUME work \in Seq(Entry), NEW e, work' = Append(work, e)
  PROVE  /\ Len(work) + 1 \in DOMAIN work'
         /\ \A k \in DOMAIN work :
                /\ k \in DOMAIN work' /\ k < Len(work) + 1
                /\ IsRender(k)' <=> IsRender(k)
                /\ Consumes(k)' <=> Consumes(k)
         /\ \A k \in DOMAIN work' : k \in DOMAIN work \/ k = Len(work) + 1
         /\ \A k \in DOMAIN work' : IsRender(k)' /\ e.kind # "render" => k \in DOMAIN work
         /\ \A k \in DOMAIN work' : Consumes(k)' /\ e.kind \notin {"present", "refused"} => k \in DOMAIN work
  <1>1. /\ DOMAIN work = 1 .. Len(work) /\ Len(work) \in Nat
        /\ DOMAIN work' = 1 .. Len(work) + 1
        /\ work'[Len(work) + 1] = e
        /\ \A k \in DOMAIN work : work'[k] = work[k]
    BY AppendFacts
  <1>2. /\ Len(work) + 1 \in DOMAIN work'
        /\ \A k \in DOMAIN work : k \in DOMAIN work' /\ k < Len(work) + 1
        /\ \A k \in DOMAIN work' : k \in DOMAIN work \/ k = Len(work) + 1
    BY <1>1
  <1>3. ASSUME NEW k \in DOMAIN work
        PROVE  (IsRender(k)' <=> IsRender(k)) /\ (Consumes(k)' <=> Consumes(k))
    BY <1>1, <1>2 DEF IsRender, Consumes
  <1>4. ASSUME NEW k \in DOMAIN work'
        PROVE  /\ IsRender(k)' /\ e.kind # "render" => k \in DOMAIN work
               /\ Consumes(k)' /\ e.kind \notin {"present", "refused"} => k \in DOMAIN work
    BY <1>1, <1>2 DEF IsRender, Consumes
  <1> QED
    BY <1>2, <1>3, <1>4

\* A step that takes a submission from the queue keeps the order of the others.
LEMMA OrderTaken ==
  ASSUME Inv, FenceInv, OrderInv, NEW n \in DOMAIN work,
         Render(n) \/ Copy(n) \/ Show(n) \/ Refuse(n)
  PROVE  OrderInv'
  <1>0. /\ Types /\ work \in Seq(Entry) /\ work' = RemoveAt(work, n) /\ MoreTypes
        /\ UNCHANGED <<m_imagesInFlight, m_currentFrame, pc, image, dropped>>
    BY DEF Inv, Types, FenceInv, Render, Copy, Show, Refuse
  <1>1. /\ DOMAIN work = 1 .. Len(work) /\ Len(work) \in Nat
        /\ DOMAIN work' = 1 .. Len(work) - 1
        /\ \A k \in DOMAIN work' :
              Old(k, n) \in DOMAIN work /\ Old(k, n) # n /\ work'[k] = work[Old(k, n)]
        /\ \A k \in DOMAIN work : k # n =>
              New(k, n) \in DOMAIN work' /\ work'[New(k, n)] = work[k] /\ Old(New(k, n), n) = k
        /\ \A j, k \in DOMAIN work' : j < k <=> Old(j, n) < Old(k, n)
    BY <1>0, TakeFacts
  <1>2. \A k \in DOMAIN work' : /\ IsRender(k)' <=> IsRender(Old(k, n))
                                /\ Consumes(k)' <=> Consumes(Old(k, n))
    BY <1>1 DEF IsRender, Consumes
  <1>3. PresentNoted'
    BY <1>0 DEF OrderInv, PresentNoted
  <1>4. PresentFollows'
    <2> SUFFICES ASSUME NEW k \in DOMAIN work', IsRender(k)',
                        ~(pc' = "present" /\ work'[k].frame = m_currentFrame'),
                        ~Skipped(work[k].frame)'
                 PROVE  \E m \in DOMAIN work' :
                            m > k /\ Consumes(m)' /\ work'[m].frame = work'[k].frame
      BY DEF PresentFollows
    <2>1. PICK j \in DOMAIN work : j = Old(k, n) /\ j # n /\ work'[k] = work[j] /\ IsRender(j)
      BY <1>1, <1>2
    <2>0. ~Skipped(work[j].frame)
      BY <1>0, <2>1 DEF Skipped
    <2>2. PICK m \in DOMAIN work : m > j /\ Consumes(m) /\ work[m].frame = work[j].frame
      BY <1>0, <2>0, <2>1 DEF OrderInv, PresentFollows
    <2>3. m # n
      <3>1. CASE Show(n) \/ Refuse(n)
        <4>1. Ordered(work[j].frame)
          BY <2>0 DEF Ordered, Skipped
        <4>2. Consumes(n) /\ NextInQueue(n) /\ renderFinished[work[n].frame]
          BY <3>1 DEF Show, CanShow, Refuse, Consumes
        <4>3. work[j].frame = work[n].frame => n < j
          BY <2>1, <4>1, <4>2, ShownFirst
        <4> QED
          BY <1>1, <2>2, <4>3
      <3>2. CASE ~(Show(n) \/ Refuse(n))
        BY <2>2, <3>2 DEF Render, CanRender, Copy, Consumes
      <3> QED
        BY <3>1, <3>2
    <2>4. PICK l \in DOMAIN work' : l = New(m, n) /\ work'[l] = work[m] /\ Old(l, n) = m
      BY <1>1, <2>3
    <2>5. l > k
      BY <1>1, <2>1, <2>2, <2>4
    <2>6. Consumes(l)'
      BY <1>2, <2>2, <2>4
    <2> QED
      BY <2>1, <2>2, <2>4, <2>5, <2>6
  <1>5. OwnPresent'
    <2> SUFFICES ASSUME NEW l \in DOMAIN work', NEW k \in DOMAIN work',
                        IsRender(k)', Consumes(l)', k < l, work'[l].image = work'[k].image
                 PROVE  work'[l].frame = work'[k].frame
      BY DEF OwnPresent
    <2>1. /\ Old(k, n) \in DOMAIN work /\ Old(l, n) \in DOMAIN work /\ Old(k, n) < Old(l, n)
          /\ IsRender(Old(k, n)) /\ Consumes(Old(l, n))
      BY <1>1, <1>2
    <2>2. work'[k] = work[Old(k, n)] /\ work'[l] = work[Old(l, n)]
      BY <1>1
    <2> QED
      BY <2>1, <2>2 DEF OrderInv, OwnPresent
  <1>6. FinishedConsumed'
    <2> SUFFICES ASSUME NEW f \in Frames, renderFinished'[f], ~Skipped(f)'
                 PROVE  \/ \E m \in DOMAIN work' :
                              /\ Consumes(m)' /\ work'[m].frame = f
                              /\ \A k \in DOMAIN work' :
                                    IsRender(k)' /\ work'[k].frame = f => m < k
                        \/ /\ pc' = "present" /\ f = m_currentFrame'
                           /\ \A k \in DOMAIN work' : IsRender(k)' => work'[k].frame # f
      BY DEF FinishedConsumed
    <2>0. ~Skipped(f)
      BY <1>0 DEF Skipped
    <2>1. ASSUME NEW m \in DOMAIN work, m # n, Consumes(m), work[m].frame = f,
                 \A k \in DOMAIN work : k # n /\ IsRender(k) /\ work[k].frame = f => m < k
          PROVE  \E l \in DOMAIN work' :
                    /\ Consumes(l)' /\ work'[l].frame = f
                    /\ \A k \in DOMAIN work' : IsRender(k)' /\ work'[k].frame = f => l < k
      <3>1. PICK l \in DOMAIN work' : work'[l] = work[m] /\ Old(l, n) = m
        BY <1>1, <2>1
      <3>2. Consumes(l)' /\ work'[l].frame = f
        BY <1>2, <2>1, <3>1
      <3>3. ASSUME NEW k \in DOMAIN work', IsRender(k)', work'[k].frame = f PROVE l < k
        <4>1. m < Old(k, n)
          BY <1>1, <1>2, <2>1, <3>3
        <4> QED
          BY <1>1, <3>1, <4>1
      <3> QED
        BY <3>2, <3>3
    <2>2. ASSUME \A k \in DOMAIN work : k # n /\ IsRender(k) => work[k].frame # f
          PROVE  \A k \in DOMAIN work' : IsRender(k)' => work'[k].frame # f
      BY <1>1, <1>2, <2>2
    <2>3. CASE Render(n) /\ f = work[n].frame
      <3>1. IsRender(n)
        BY <2>3 DEF Render, CanRender, IsRender
      <3>2. \A k \in DOMAIN work : k # n /\ IsRender(k) => work[k].frame # f
        BY <2>3, <3>1 DEF Inv, OneRenderPerFrame
      <3>3. CASE pc = "present" /\ f = m_currentFrame
        BY <1>0, <2>2, <3>2, <3>3
      <3>4. CASE ~(pc = "present" /\ f = m_currentFrame)
        <4>1. PICK m \in DOMAIN work : m > n /\ Consumes(m) /\ work[m].frame = f
          BY <2>0, <2>3, <3>1, <3>4 DEF OrderInv, PresentFollows
        <4> QED
          BY <1>1, <2>1, <3>2, <4>1
      <3> QED
        BY <3>3, <3>4
    <2>4. CASE ~(Render(n) /\ f = work[n].frame)
      <3>1. renderFinished[f] /\ (Show(n) \/ Refuse(n) => work[n].frame # f)
        <4>1. CASE Render(n)
          BY <1>0, <2>4, <4>1 DEF Render, CanRender, Show, CanShow, Refuse, MoreTypes
        <4>2. CASE Copy(n)
          BY <4>2 DEF Copy, Show, CanShow, Refuse
        <4>3. CASE Show(n) \/ Refuse(n)
          BY <1>0, <4>3 DEF Show, Refuse, MoreTypes
        <4> QED
          BY <4>1, <4>2, <4>3
      <3>2. CASE pc = "present" /\ f = m_currentFrame
                    /\ \A k \in DOMAIN work : IsRender(k) => work[k].frame # f
        BY <1>0, <2>2, <3>2
      <3>3. CASE ~(pc = "present" /\ f = m_currentFrame
                    /\ \A k \in DOMAIN work : IsRender(k) => work[k].frame # f)
        <4>1. PICK m \in DOMAIN work :
                 /\ Consumes(m) /\ work[m].frame = f
                 /\ \A k \in DOMAIN work : IsRender(k) /\ work[k].frame = f => m < k
          BY <2>0, <3>1, <3>3 DEF OrderInv, FinishedConsumed
        <4>2. m # n
          BY <3>1, <4>1 DEF Consumes, Render, CanRender, Copy
        <4> QED
          BY <2>1, <4>1, <4>2
      <3> QED
        BY <3>2, <3>3
    <2> QED
      BY <2>3, <2>4
  <1> QED
    BY <1>3, <1>4, <1>5, <1>6 DEF OrderInv

\* Every step keeps the order: the render and the present of a frame are
\* submitted one after the other, when no other render of it is left.
LEMMA OrderStep ==
  ASSUME Inv, FenceInv, OrderInv, [Next]_vars
  PROVE  OrderInv'
  <1> USE DEF gpu
  <1>0. Types /\ MoreTypes /\ work \in Seq(Entry)
    BY DEF Inv, FenceInv, Types
  <1>1. ASSUME UNCHANGED <<m_currentFrame, work, renderFinished, m_imagesInFlight, image,
                           dropped>>,
               pc \notin {"submit", "present"}, pc' \notin {"submit", "present"}
        PROVE  OrderInv'
    BY <1>1 DEF OrderInv, PresentNoted, PresentFollows, OwnPresent, FinishedConsumed,
       IsRender, Consumes, Skipped
  <1>2. CASE Acquire
    BY <1>1, <1>2 DEF Acquire
  <1>3. ASSUME NEW j \in Images, Acquired(j) PROVE OrderInv'
    BY <1>3 DEF Acquired, OrderInv, PresentNoted, PresentFollows, OwnPresent,
       FinishedConsumed, IsRender, Consumes, Skipped
  <1>4. CASE AcquireFails
    BY <1>1, <1>4 DEF AcquireFails
  <1>5. CASE Prepare
    <2>1. PresentNoted'
      BY <1>0, <1>5 DEF Prepare, PresentNoted, Types
    <2>2. PresentFollows' /\ OwnPresent' /\ FinishedConsumed'
      BY <1>5 DEF Prepare, OrderInv, PresentFollows, OwnPresent, FinishedConsumed,
         IsRender, Consumes, Skipped
    <2> QED
      BY <2>1, <2>2 DEF OrderInv
  <1>6. CASE Submit
    <2> DEFINE e == [kind |-> "render", frame |-> m_currentFrame, image |-> image]
               l == Len(work) + 1
    <2>1. work' = Append(work, e) /\ pc = "submit" /\ pc' = "present"
          /\ UNCHANGED <<m_currentFrame, renderFinished, m_imagesInFlight, image, dropped>>
      BY <1>6 DEF Submit
    <2>2. /\ DOMAIN work = 1 .. Len(work) /\ Len(work) \in Nat
          /\ DOMAIN work' = 1 .. Len(work) + 1
          /\ work'[l] = e
          /\ \A k \in DOMAIN work : work'[k] = work[k]
      BY <1>0, <2>1, AppendFacts
    <2>3. /\ e.kind = "render" /\ e.frame = m_currentFrame
      OBVIOUS
    <2>4. /\ l \in DOMAIN work'
          /\ \A k \in DOMAIN work :
                /\ k \in DOMAIN work' /\ k < l
                /\ IsRender(k)' <=> IsRender(k)
                /\ Consumes(k)' <=> Consumes(k)
          /\ \A k \in DOMAIN work' : k \in DOMAIN work \/ k = l
          /\ \A k \in DOMAIN work' : Consumes(k)' => k \in DOMAIN work
      <3> HIDE DEF e
      <3> QED
        BY <1>0, <2>1, <2>3, AppendKinds
    <2> HIDE DEF e, l
    <2>5. PresentNoted'
      BY <2>1 DEF OrderInv, PresentNoted
    <2>6. PresentFollows'
      <3>1. \A k \in DOMAIN work : IsRender(k) /\ ~Skipped(work[k].frame) =>
                \E m \in DOMAIN work : m > k /\ Consumes(m) /\ work[m].frame = work[k].frame
        BY <2>1 DEF OrderInv, PresentFollows
      <3> QED
        BY <2>1, <2>2, <2>3, <2>4, <3>1 DEF PresentFollows, Skipped
    <2>7. OwnPresent'
      <3> SUFFICES ASSUME NEW m \in DOMAIN work', NEW k \in DOMAIN work',
                          IsRender(k)', Consumes(m)', k < m, work'[m].image = work'[k].image
                   PROVE  work'[m].frame = work'[k].frame
        BY DEF OwnPresent
      <3>1. m \in DOMAIN work
        BY <2>4
      <3>2. k \in DOMAIN work
        BY <2>2, <2>4, <3>1 DEF l
      <3> QED
        BY <2>2, <2>4, <3>1, <3>2 DEF OrderInv, OwnPresent
    <2>8. FinishedConsumed'
      <3> SUFFICES ASSUME NEW f \in Frames, renderFinished[f], ~Skipped(f)
                   PROVE  \E m \in DOMAIN work' :
                              /\ Consumes(m)' /\ work'[m].frame = f
                              /\ \A k \in DOMAIN work' :
                                    IsRender(k)' /\ work'[k].frame = f => m < k
        BY <2>1 DEF FinishedConsumed, Skipped
      <3>1. PICK m \in DOMAIN work :
               /\ Consumes(m) /\ work[m].frame = f
               /\ \A k \in DOMAIN work : IsRender(k) /\ work[k].frame = f => m < k
        BY <2>1 DEF OrderInv, FinishedConsumed
      <3>2. m \in DOMAIN work' /\ Consumes(m)' /\ work'[m].frame = f
        BY <2>2, <2>4, <3>1
      <3>3. ASSUME NEW k \in DOMAIN work', IsRender(k)', work'[k].frame = f PROVE m < k
        BY <2>2, <2>4, <3>1, <3>3
      <3> QED
        BY <3>2, <3>3
    <2> QED
      BY <2>5, <2>6, <2>7, <2>8 DEF OrderInv
  <1>7. CASE SubmitFails
    BY <1>7 DEF SubmitFails, OrderInv, PresentNoted, PresentFollows, OwnPresent,
       FinishedConsumed, IsRender, Consumes, Skipped
  <1>8. CASE Present
    <2>1. ASSUME NEW e \in Entry, e.kind \in {"present", "refused"},
                 e.frame = m_currentFrame, e.image = image, work' = Append(work, e),
                 UNCHANGED dropped
          PROVE  OrderInv'
      <3> DEFINE l == Len(work) + 1
      <3>1. work' = Append(work, e) /\ pc = "present" /\ pc' = "idle"
            /\ UNCHANGED <<renderFinished, dropped>>
        BY <1>8, <2>1 DEF Present
      <3>2. /\ DOMAIN work = 1 .. Len(work) /\ Len(work) \in Nat
            /\ DOMAIN work' = 1 .. Len(work) + 1
            /\ work'[l] = e
            /\ \A k \in DOMAIN work : work'[k] = work[k]
        BY <1>0, <3>1, AppendFacts
      <3>3. /\ l \in DOMAIN work'
            /\ \A k \in DOMAIN work :
                  /\ k \in DOMAIN work' /\ k < l
                  /\ IsRender(k)' <=> IsRender(k)
                  /\ Consumes(k)' <=> Consumes(k)
            /\ \A k \in DOMAIN work' : k \in DOMAIN work \/ k = l
            /\ \A k \in DOMAIN work' : IsRender(k)' => k \in DOMAIN work
        BY <1>0, <3>1, <2>1, AppendKinds
      <3> HIDE DEF l
      <3>p. \A k \in DOMAIN work' : k = l => Consumes(k)'
        BY <3>2, <2>1, <3>3 DEF Consumes
      <3>5. PresentNoted'
        BY <3>1 DEF PresentNoted
      <3>6. PresentFollows'
        <4> SUFFICES ASSUME NEW k \in DOMAIN work', IsRender(k)', ~Skipped(work[k].frame)'
                     PROVE  \E m \in DOMAIN work' :
                                m > k /\ Consumes(m)' /\ work'[m].frame = work'[k].frame
          BY DEF PresentFollows
        <4>1. k \in DOMAIN work /\ IsRender(k) /\ work'[k] = work[k] /\ l > k
          BY <3>2, <3>3
        <4>2. CASE work[k].frame = m_currentFrame
          BY <3>p, <3>2, <2>1, <3>3, <4>1, <4>2
        <4>3. CASE work[k].frame # m_currentFrame
          <5>1. PICK m \in DOMAIN work : m > k /\ Consumes(m) /\ work[m].frame = work[k].frame
            BY <3>1, <4>1, <4>3 DEF OrderInv, PresentFollows, Skipped
          <5> QED
            BY <3>2, <3>3, <4>1, <5>1
        <4> QED
          BY <4>2, <4>3
      <3>7. OwnPresent'
        <4> SUFFICES ASSUME NEW m \in DOMAIN work', NEW k \in DOMAIN work',
                            IsRender(k)', Consumes(m)', k < m, work'[m].image = work'[k].image
                     PROVE  work'[m].frame = work'[k].frame
          BY DEF OwnPresent
        <4>1. k \in DOMAIN work /\ IsRender(k) /\ work'[k] = work[k]
          BY <3>2, <3>3
        <4>2. CASE m \in DOMAIN work
          BY <3>2, <3>3, <4>1, <4>2 DEF OrderInv, OwnPresent
        <4>3. CASE m = l
          <5>1. m_imagesInFlight[work[k].image] = work[k].frame
            BY <4>1 DEF Inv, RendersNoted
          <5>2. m_imagesInFlight[image] = m_currentFrame
            BY <3>1 DEF OrderInv, PresentNoted
          <5> QED
            BY <3>2, <2>1, <4>1, <4>3, <5>1, <5>2
        <4> QED
          BY <3>3, <4>2, <4>3
      <3>8. FinishedConsumed'
        <4> SUFFICES ASSUME NEW f \in Frames, renderFinished[f], ~Skipped(f)
                     PROVE  \E m \in DOMAIN work' :
                                /\ Consumes(m)' /\ work'[m].frame = f
                                /\ \A k \in DOMAIN work' :
                                      IsRender(k)' /\ work'[k].frame = f => m < k
          BY <3>1 DEF FinishedConsumed, Skipped
        <4>1. CASE f = m_currentFrame /\ \A k \in DOMAIN work : IsRender(k) => work[k].frame # f
          BY <3>p, <3>2, <2>1, <3>3, <4>1
        <4>2. CASE ~(f = m_currentFrame /\ \A k \in DOMAIN work : IsRender(k) => work[k].frame # f)
          <5>1. PICK m \in DOMAIN work :
                   /\ Consumes(m) /\ work[m].frame = f
                   /\ \A k \in DOMAIN work : IsRender(k) /\ work[k].frame = f => m < k
            BY <4>2 DEF OrderInv, FinishedConsumed
          <5>2. m \in DOMAIN work' /\ Consumes(m)' /\ work'[m].frame = f
            BY <3>2, <3>3, <5>1
          <5>3. ASSUME NEW k \in DOMAIN work', IsRender(k)', work'[k].frame = f PROVE m < k
            BY <3>2, <3>3, <5>1, <5>3
          <5> QED
            BY <5>2, <5>3
        <4> QED
          BY <4>1, <4>2
      <3> QED
        BY <3>5, <3>6, <3>7, <3>8 DEF OrderInv
    <2>2. CASE /\ UNCHANGED work
               /\ dropped' = dropped \cup {[frame |-> m_currentFrame, image |-> image]}
      <3>1. /\ UNCHANGED <<work, renderFinished>> /\ pc' = "idle"
            /\ \A f : Skipped(f) \/ f = m_currentFrame => Skipped(f)'
        <4>1. UNCHANGED <<work, renderFinished>> /\ pc' = "idle"
          BY <1>8, <2>2 DEF Present
        <4>2. PICK d : d = [frame |-> m_currentFrame, image |-> image]
          OBVIOUS
        <4>3. d \in dropped' /\ d.frame = m_currentFrame /\ dropped \subseteq dropped'
          BY <2>2, <4>2
        <4> QED
          BY <4>1, <4>3 DEF Skipped
      <3>2. PresentNoted'
        BY <3>1 DEF PresentNoted
      <3>3. PresentFollows'
        BY <3>1 DEF OrderInv, PresentFollows, IsRender, Consumes, Skipped
      <3>4. OwnPresent'
        BY <3>1 DEF OrderInv, OwnPresent, IsRender, Consumes
      <3>5. FinishedConsumed'
        BY <3>1 DEF OrderInv, FinishedConsumed, IsRender, Consumes
      <3> QED
        BY <3>2, <3>3, <3>4, <3>5 DEF OrderInv
    <2> QED
      BY <1>0, <1>8, <2>1, <2>2, PresentSubmits
  <1>9. ASSUME NEW n \in DOMAIN work, Render(n) \/ Copy(n) \/ Show(n) \/ Refuse(n)
        PROVE  OrderInv'
    BY <1>9, OrderTaken
  <1>10. CASE Release
    BY <1>10 DEF Release, OrderInv, PresentNoted, PresentFollows, OwnPresent,
       FinishedConsumed, IsRender, Consumes, Skipped
  <1>11. ASSUME NEW f \in Frames, Available(f) PROVE OrderInv'
    BY <1>11 DEF Available, OrderInv, PresentNoted, PresentFollows, OwnPresent,
       FinishedConsumed, IsRender, Consumes, Skipped
  <1>12. CASE UNCHANGED vars
    BY <1>12 DEF vars, OrderInv, PresentNoted, PresentFollows, OwnPresent,
       FinishedConsumed, IsRender, Consumes, Skipped
  <1>13. CASE SubmitCommandBuffers
    BY <1>1, <1>13 DEF SubmitCommandBuffers
  <1>14. CASE BeginCopy
    BY <1>1, <1>14 DEF BeginCopy
  <1>15. CASE SubmitCopy
    <2>0. pc = "copy" /\ pc' = "waitIdle"
          /\ UNCHANGED <<m_currentFrame, renderFinished, m_imagesInFlight, image, dropped>>
      BY <1>15 DEF SubmitCopy
    <2>1. CASE UNCHANGED work
      BY <1>1, <2>0, <2>1
    <2>2. CASE ~UNCHANGED work
      <3> DEFINE e == [kind |-> "copy", frame |-> NullHandle, image |-> NoImage]
                 l == Len(work) + 1
      <3>1. work' = Append(work, e)
        BY <1>15, <2>2 DEF SubmitCopy
      <3>2. /\ DOMAIN work = 1 .. Len(work) /\ Len(work) \in Nat
            /\ DOMAIN work' = 1 .. Len(work) + 1
            /\ work'[l] = e
            /\ \A k \in DOMAIN work : work'[k] = work[k]
        BY <1>0, <3>1, AppendFacts
      <3>3. e.kind = "copy"
        OBVIOUS
      <3> HIDE DEF e, l
      <3>4. /\ \A k \in DOMAIN work : k \in DOMAIN work'
                    /\ (IsRender(k)' <=> IsRender(k)) /\ (Consumes(k)' <=> Consumes(k))
            /\ \A k \in DOMAIN work' : IsRender(k)' \/ Consumes(k)' => k \in DOMAIN work
        BY <3>2, <3>3 DEF IsRender, Consumes, l
      <3>5. PresentNoted'
        BY <2>0 DEF PresentNoted
      <3>6. PresentFollows'
        <4>1. \A k \in DOMAIN work : IsRender(k) /\ ~Skipped(work[k].frame) =>
                  \E m \in DOMAIN work : m > k /\ Consumes(m) /\ work[m].frame = work[k].frame
          BY <2>0 DEF OrderInv, PresentFollows
        <4> QED
          BY <2>0, <3>2, <3>4, <4>1 DEF PresentFollows, Skipped
      <3>7. OwnPresent'
        BY <3>2, <3>4 DEF OrderInv, OwnPresent
      <3>8. FinishedConsumed'
        <4> SUFFICES ASSUME NEW f \in Frames, renderFinished[f], ~Skipped(f)
                     PROVE  \E m \in DOMAIN work' :
                                /\ Consumes(m)' /\ work'[m].frame = f
                                /\ \A k \in DOMAIN work' :
                                      IsRender(k)' /\ work'[k].frame = f => m < k
          BY <2>0 DEF FinishedConsumed, Skipped
        <4>1. PICK m \in DOMAIN work :
                 /\ Consumes(m) /\ work[m].frame = f
                 /\ \A k \in DOMAIN work : IsRender(k) /\ work[k].frame = f => m < k
          BY <2>0 DEF OrderInv, FinishedConsumed
        <4>2. m \in DOMAIN work' /\ Consumes(m)' /\ work'[m].frame = f
          BY <3>2, <3>4, <4>1
        <4>3. ASSUME NEW k \in DOMAIN work', IsRender(k)', work'[k].frame = f PROVE m < k
          BY <3>2, <3>4, <4>1, <4>3
        <4> QED
          BY <4>2, <4>3
      <3> QED
        BY <3>5, <3>6, <3>7, <3>8 DEF OrderInv
    <2> QED
      BY <2>1, <2>2
  <1>16. CASE FinishCopy
    BY <1>1, <1>16 DEF FinishCopy
  <1> QED
    BY <1>2, <1>3, <1>4, <1>5, <1>6, <1>7, <1>8, <1>9, <1>10, <1>11, <1>12,
       <1>13, <1>14, <1>15, <1>16
    DEF Next, CallProgress, Engine

-----------------------------------------------------------------------------
(***************************************************************************)
(* When the engine has released an image.                                  *)
(***************************************************************************)

\* What frame f waits for before it renders image i as the n-th submission: all
\* earlier uses of the image by the engine.
Pending(f, i, n) ==
    /\ imageAvailable[f] => UsesWithin(i, n, 0)
    /\ ahead[f] # NotDue => UsesWithin(i, n, ahead[f])

\* That is so of every render in the queue whose frame's presents are ordered,
\* and of the frame being prepared.
ImagesPending ==
    /\ \A n \in DOMAIN work :
            IsRender(n) /\ Ordered(work[n].frame) => Pending(work[n].frame, work[n].image, n)
    /\ Preparing => Pending(m_currentFrame, image, Len(work) + 1)

\* Nothing is rendered at first.
LEMMA InitPending == Init => ImagesPending
  BY DEF Init, ImagesPending, Preparing, IsRender

\* What is submitted later is not counted.
LEMMA UsesAppended ==
  ASSUME work \in Seq(Entry), NEW e, work' = Append(work, e), UNCHANGED reading,
         NEW i, NEW n \in 1 .. Len(work) + 1, NEW k, UsesWithin(i, n, k)
  PROVE  /\ UsesWithin(i, n, k)'
         /\ e.kind # "present" /\ n = Len(work) + 1 => UsesWithin(i, n + 1, k)'
  <1>1. /\ DOMAIN work = 1 .. Len(work) /\ Len(work) \in Nat
        /\ work'[Len(work) + 1] = e
        /\ \A m \in DOMAIN work : work'[m] = work[m]
    BY AppendFacts
  <1>2. ASSUME NEW m \in DOMAIN work PROVE Turn(m)' = Turn(m)
    <2>1. m \in Nat /\ \A j \in 1 .. m : work'[j] = work[j]
      BY <1>1
    <2>2. PresentsUpTo(work', m) = PresentsUpTo(work, m)
      BY <2>1, CountSame
    <2> QED
      BY <2>2 DEF Turn, PresentsUpTo
  <1>3. ASSUME NEW m \in 1 .. n - 1, IsPresent(m)', work'[m].image = i
        PROVE  Turn(m)' =< k
    <2>1. m \in DOMAIN work /\ IsPresent(m) /\ work[m].image = i
      BY <1>1, <1>3 DEF IsPresent
    <2> QED
      BY <1>2, <2>1 DEF UsesWithin
  <1>4. \A p \in DOMAIN reading' : reading'[p] = i => p =< k
    BY DEF UsesWithin
  <1>5. UsesWithin(i, n, k)'
    BY <1>3, <1>4 DEF UsesWithin
  <1>6. ASSUME e.kind # "present", n = Len(work) + 1
        PROVE  UsesWithin(i, n + 1, k)'
    <2>1. ASSUME NEW m \in 1 .. (n + 1) - 1, IsPresent(m)' PROVE m \in 1 .. n - 1
      BY <1>1, <1>6, <2>1 DEF IsPresent
    <2> QED
      BY <1>3, <1>4, <2>1 DEF UsesWithin
  <1> QED
    BY <1>5, <1>6

\* When a render or a copy is taken from the queue the presents have the same
\* turns.
LEMMA UsesTaken ==
  ASSUME work \in Seq(Entry), reading \in Seq(Images), NEW n \in DOMAIN work,
         work' = RemoveAt(work, n), work[n].kind # "present", UNCHANGED reading,
         NEW i, NEW l \in 1 .. Len(work) + 1, l # n, NEW k, UsesWithin(i, l, k)
  PROVE  UsesWithin(i, New(l, n), k)'
  <1>1. /\ DOMAIN work = 1 .. Len(work) /\ Len(work) \in Nat
        /\ DOMAIN work' = 1 .. Len(work) - 1
        /\ \A m \in DOMAIN work' : Old(m, n) \in DOMAIN work /\ work'[m] = work[Old(m, n)]
    BY TakeFacts
  <1>2. ASSUME NEW m \in 1 .. New(l, n) - 1, IsPresent(m)', work'[m].image = i
        PROVE  Turn(m)' =< k
    <2>1. m \in DOMAIN work'
      BY <1>2 DEF IsPresent
    <2>2. Old(m, n) \in 1 .. l - 1
      BY <1>1, <2>1 DEF Old, New
    <2>3. IsPresent(Old(m, n)) /\ work[Old(m, n)].image = i
      BY <1>1, <1>2, <2>1 DEF IsPresent
    <2>4. Turn(Old(m, n)) =< k
      BY <2>2, <2>3 DEF UsesWithin
    <2>5. Turn(Old(m, n)) \in Nat /\ Turn(m)' = Turn(Old(m, n)) + Len(reading) - Len(reading)
      BY <2>1, TurnFacts
    <2>6. Len(reading) \in Nat
      OBVIOUS
    <2> HIDE DEF Turn
    <2> QED
      BY <2>4, <2>5, <2>6
  <1>3. \A p \in DOMAIN reading' : reading'[p] = i => p =< k
    BY DEF UsesWithin
  <1> QED
    BY <1>2, <1>3 DEF UsesWithin

\* When the first present is executed its image is read at its turn, and the
\* other presents have the same turns.
LEMMA UsesShown ==
  ASSUME work \in Seq(Entry), reading \in Seq(Images), NEW n \in DOMAIN work,
         work' = RemoveAt(work, n), work[n].kind = "present",
         reading' = Append(reading, work[n].image), reading' \in Seq(Images),
         \A m \in DOMAIN work : IsPresent(m) => n =< m,
         NEW i, NEW l \in 1 .. Len(work) + 1, l # n, work[n].image = i => n < l,
         NEW k \in Nat, UsesWithin(i, l, k)
  PROVE  UsesWithin(i, New(l, n), k)'
  <1>1. /\ DOMAIN work = 1 .. Len(work) /\ Len(work) \in Nat
        /\ DOMAIN work' = 1 .. Len(work) - 1
        /\ \A m \in DOMAIN work' : Old(m, n) \in DOMAIN work /\ work'[m] = work[Old(m, n)]
    BY TakeFacts
  <1>2. /\ Len(reading) \in Nat /\ Len(reading') = Len(reading) + 1
        /\ DOMAIN reading' = 1 .. Len(reading) + 1 /\ DOMAIN reading = 1 .. Len(reading)
        /\ reading'[Len(reading) + 1] = work[n].image
        /\ \A p \in DOMAIN reading : reading'[p] = reading[p]
    OBVIOUS
  <1>3. ASSUME NEW m \in 1 .. New(l, n) - 1, IsPresent(m)', work'[m].image = i
        PROVE  Turn(m)' =< k
    <2>1. m \in DOMAIN work'
      BY <1>3 DEF IsPresent
    <2>2. Old(m, n) \in 1 .. l - 1
      BY <1>1, <2>1 DEF Old, New
    <2>3. IsPresent(Old(m, n)) /\ work[Old(m, n)].image = i
      BY <1>1, <1>3, <2>1 DEF IsPresent
    <2>4. Turn(Old(m, n)) =< k
      BY <2>2, <2>3 DEF UsesWithin
    <2>5. n =< m
      BY <1>1, <2>1, <2>3 DEF Old
    <2>6. /\ Turn(Old(m, n)) \in Nat
          /\ Turn(m)' = Turn(Old(m, n)) + Len(reading') - Len(reading) - 1
      BY <2>1, <2>5, TurnFacts
    <2> QED
      BY <1>2, <2>4, <2>6
  <1>4. ASSUME NEW p \in DOMAIN reading', reading'[p] = i
        PROVE  p =< k
    <2>1. CASE p \in DOMAIN reading
      BY <1>2, <1>4, <2>1 DEF UsesWithin
    <2>2. CASE p \notin DOMAIN reading
      <3>1. p = Len(reading) + 1 /\ work[n].image = i
        BY <1>2, <1>4, <2>2
      <3>2. n \in 1 .. l - 1 /\ IsPresent(n)
        BY <1>1, <3>1 DEF IsPresent
      <3>3. Turn(n) =< k
        BY <3>1, <3>2 DEF UsesWithin
      <3>4. PresentsUpTo(work, n) \in Nat /\ PresentsUpTo(work, n) > 0
        <4>1. n \in Nat /\ n > 0
          BY <1>1
        <4> QED
          BY <4>1, CountType
      <3>5. Turn(n) = Len(reading) + PresentsUpTo(work, n)
        BY DEF Turn, PresentsUpTo
      <3> QED
        BY <1>2, <3>1, <3>3, <3>4, <3>5
    <2> QED
      BY <2>1, <2>2
  <1> QED
    BY <1>3, <1>4 DEF UsesWithin

\* A release brings every later one nearer.
LEMMA UsesReleased ==
  ASSUME work \in Seq(Entry), reading \in Seq(Images), reading # << >>,
         reading' = Tail(reading), UNCHANGED work,
         NEW i, NEW l, NEW k \in Nat, UsesWithin(i, l, k), l \in 1 .. Len(work) + 1
  PROVE  UsesWithin(i, l, IF k > 0 THEN k - 1 ELSE k)'
  <1>1. /\ Len(reading) \in Nat /\ Len(reading') = Len(reading) - 1
        /\ DOMAIN reading' = 1 .. Len(reading) - 1 /\ DOMAIN reading = 1 .. Len(reading)
        /\ \A p \in DOMAIN reading' : reading'[p] = reading[p + 1]
    OBVIOUS
  <1>2. DOMAIN work = 1 .. Len(work) /\ Len(work) \in Nat
    OBVIOUS
  <1>3. ASSUME NEW m \in 1 .. l - 1, IsPresent(m)', work'[m].image = i
        PROVE  Turn(m)' =< (IF k > 0 THEN k - 1 ELSE k)
    <2>1. IsPresent(m) /\ work[m].image = i
      BY <1>3 DEF IsPresent
    <2>2. Turn(m) =< k
      BY <2>1 DEF UsesWithin
    <2>3. PresentsUpTo(work, m) \in Nat /\ PresentsUpTo(work, m) > 0
      <3>1. m \in Nat /\ m > 0 /\ work[m].kind = "present"
        BY <1>2, <2>1 DEF IsPresent
      <3> QED
        BY <3>1, CountType
    <2>4. /\ Turn(m) = Len(reading) + PresentsUpTo(work, m)
          /\ Turn(m)' = Len(reading') + PresentsUpTo(work, m)
      BY DEF Turn, PresentsUpTo
    <2> QED
      BY <1>1, <2>2, <2>3, <2>4
  <1>4. ASSUME NEW p \in DOMAIN reading', reading'[p] = i
        PROVE  p =< (IF k > 0 THEN k - 1 ELSE k)
    <2>1. p + 1 \in DOMAIN reading /\ reading[p + 1] = i /\ p \in Nat
      BY <1>1, <1>4
    <2>2. p + 1 =< k
      BY <2>1 DEF UsesWithin
    <2> QED
      BY <2>1, <2>2
  <1> QED
    BY <1>3, <1>4 DEF UsesWithin

\* A step that takes a submission from the queue keeps what a later render, or
\* the frame that is being prepared, waits for.
LEMMA PendingTaken ==
  ASSUME Inv, FenceInv, OrderInv, NEW n \in DOMAIN work,
         Render(n) \/ Copy(n) \/ Show(n) \/ Refuse(n),
         NEW f \in Frames, NEW i, NEW l \in 1 .. Len(work) + 1, l # n,
         l \in DOMAIN work => /\ IsRender(l) /\ work[l].image = i
                              /\ Ordered(work[l].frame),
         Pending(f, i, l)
  PROVE  Pending(f, i, New(l, n))'
  <1>0. /\ Types /\ work \in Seq(Entry) /\ work' = RemoveAt(work, n) /\ MoreTypes
        /\ reading \in Seq(Images) /\ UNCHANGED ahead
    BY DEF Inv, Types, FenceInv, MoreTypes, Render, Copy, Show, Refuse
  <1>1. DOMAIN work = 1 .. Len(work) /\ Len(work) \in Nat
    BY <1>0
  <1>2. imageAvailable'[f] => imageAvailable[f]
    BY <1>0 DEF MoreTypes, Render, Copy, Show, Refuse
  <1>3. ASSUME NEW k \in Nat, UsesWithin(i, l, k)
        PROVE  UsesWithin(i, New(l, n), k)'
    <2>1. CASE Show(n)
      <3>1. /\ work[n].kind = "present" /\ reading' = Append(reading, work[n].image)
            /\ Consumes(n) /\ NextInQueue(n) /\ renderFinished[work[n].frame]
        BY <2>1 DEF Show, CanShow, Consumes
      <3>2. \A m \in DOMAIN work : IsPresent(m) => n =< m
        BY <3>1, ShownFirst DEF IsPresent, Consumes
      <3>3. work[n].image = i => n < l
        <4>1. CASE l \in DOMAIN work
          BY <3>1, <4>1, ShownFirst
        <4>2. CASE l \notin DOMAIN work
          BY <1>1, <4>2
        <4> QED
          BY <4>1, <4>2
      <3>4. reading' \in Seq(Images)
        BY <1>0, <3>1, PresentFacts
      <3> QED
        BY <1>0, <1>3, <3>1, <3>2, <3>3, <3>4, UsesShown
    <2>2. CASE ~Show(n)
      <3>1. work[n].kind # "present" /\ UNCHANGED reading
        BY <2>2 DEF Render, CanRender, Copy, Refuse
      <3> QED
        BY <1>0, <1>3, <3>1, UsesTaken
    <2> QED
      BY <2>1, <2>2
  <1>4. imageAvailable'[f] => UsesWithin(i, New(l, n), 0)'
    BY <1>2, <1>3 DEF Pending
  <1>5. PICK a \in Nat \cup {NotDue} : a = ahead[f] /\ a = ahead'[f]
    BY <1>0 DEF MoreTypes
  <1>6. a # NotDue => UsesWithin(i, New(l, n), a)'
    BY <1>3, <1>5 DEF Pending
  <1> QED
    BY <1>4, <1>5, <1>6 DEF Pending, UsesWithin

\* Every step keeps them: vkAcquireNextImageKHR counts the releases up to the
\* last use of the image, and the render of it waits for them.
LEMMA PendingStep ==
  ASSUME Inv, FenceInv, OrderInv, ImagesPending, [Next]_vars
  PROVE  ImagesPending'
  <1> USE DEF gpu
  <1>0. /\ Types /\ MoreTypes /\ work \in Seq(Entry) /\ reading \in Seq(Images)
        /\ DOMAIN work = 1 .. Len(work) /\ Len(work) \in Nat
    BY DEF Inv, FenceInv, Types, MoreTypes
  <1>1. ASSUME UNCHANGED <<imageAvailable, m_currentFrame, work, reading, ahead, dropped>>,
               Preparing' => Preparing /\ UNCHANGED image
        PROVE  ImagesPending'
    BY <1>1 DEF ImagesPending, Pending, UsesWithin, Turn, IsRender, IsPresent, Ordered
  <1>2. CASE Acquire
    BY <1>0, <1>1, <1>2 DEF Acquire, Preparing
  <1>3. ASSUME NEW j \in Images, Acquired(j) PROVE ImagesPending'
    <2>1. ReleasesUntil(j) \in Nat /\ UsesWithin(j, Len(work) + 1, ReleasesUntil(j))
      BY <1>0, ReleasesFacts
    <2>2. PICK k \in Nat : k = ReleasesUntil(j)
      BY <2>1
    <2>3. /\ ahead' = [ahead EXCEPT ![m_currentFrame] = k] /\ image' = j
          /\ pc = "acquire" /\ m_inFlightFences[m_currentFrame]
          /\ UNCHANGED <<imageAvailable, m_currentFrame, work, reading, dropped>>
      BY <1>3, <2>2 DEF Acquired
    <2>4. ~imageAvailable[m_currentFrame]
      BY <1>0, <2>3 DEF FenceInv, SemaphoreFree, Holds, Preparing, Types
    <2>5. ahead'[m_currentFrame] = k
      BY <1>0, <2>3 DEF MoreTypes, Types
    <2>6. UsesWithin(j, Len(work) + 1, k)'
      BY <2>1, <2>2, <2>3 DEF UsesWithin, Turn, IsPresent
    <2>7. Pending(m_currentFrame, image, Len(work) + 1)'
      BY <2>3, <2>4, <2>5, <2>6 DEF Pending, UsesWithin
    <2>8. ASSUME NEW n \in DOMAIN work, IsRender(n), Ordered(work[n].frame)
          PROVE  Pending(work[n].frame, work[n].image, n)'
      <3>1. work[n].frame \in Frames /\ work[n].frame # m_currentFrame
        BY <1>0, <2>3, <2>8, EntryFacts DEF Inv, RendersNoted
      <3>2. ahead'[work[n].frame] = ahead[work[n].frame]
        BY <1>0, <2>3, <3>1 DEF MoreTypes
      <3>3. Pending(work[n].frame, work[n].image, n)
        BY <2>8 DEF ImagesPending
      <3> QED
        BY <2>3, <3>2, <3>3 DEF Pending, UsesWithin, Turn, IsPresent
    <2> QED
      BY <2>3, <2>7, <2>8 DEF ImagesPending, IsRender, Ordered
  <1>4. CASE AcquireFails
    BY <1>0, <1>1, <1>4 DEF AcquireFails, Preparing
  <1>5. CASE Prepare
    BY <1>1, <1>5 DEF Prepare, Preparing
  <1>6. ASSUME NEW e, work' = Append(work, e),
               UNCHANGED <<imageAvailable, reading, ahead, dropped>>,
               e.kind = "render" => e.frame = m_currentFrame /\ e.image = image /\ Preparing,
               Preparing' => /\ Preparing /\ e.kind # "present"
                             /\ UNCHANGED <<m_currentFrame, image>>
        PROVE  ImagesPending'
    <2>1. PICK l \in Nat : l = Len(work) + 1
      BY <1>0
    <2>2. /\ DOMAIN work' = 1 .. l /\ Len(work') = l /\ work'[l] = e
          /\ \A m \in DOMAIN work : work'[m] = work[m]
      BY <1>0, <1>6, <2>1, AppendFacts
    <2>3. ASSUME NEW f, NEW i, NEW n \in 1 .. l, Pending(f, i, n)
          PROVE  /\ Pending(f, i, n)'
                 /\ e.kind # "present" /\ n = l => Pending(f, i, n + 1)'
      <3>1. PICK a : a = ahead[f]
        OBVIOUS
      <3>2. /\ imageAvailable[f] => UsesWithin(i, n, 0)
            /\ a # NotDue => UsesWithin(i, n, a)
        BY <2>3, <3>1 DEF Pending
      <3>3. \A k : UsesWithin(i, n, k) =>
                /\ UsesWithin(i, n, k)'
                /\ e.kind # "present" /\ n = l => UsesWithin(i, n + 1, k)'
        BY <1>0, <1>6, <2>1, UsesAppended
      <3>4. imageAvailable' = imageAvailable /\ ahead' = ahead
        BY <1>6
      <3> QED
        BY <3>1, <3>2, <3>3, <3>4 DEF Pending, UsesWithin
    <2>4. ASSUME NEW n \in DOMAIN work', IsRender(n)', Ordered(work[n].frame)'
          PROVE  Pending(work[n].frame, work[n].image, n)'
      <3>1. CASE n \in DOMAIN work
        <4>1. work'[n] = work[n] /\ IsRender(n) /\ Ordered(work[n].frame)
          BY <1>6, <2>2, <2>4, <3>1 DEF IsRender, Ordered
        <4>2. Pending(work[n].frame, work[n].image, n)
          BY <3>1, <4>1 DEF ImagesPending
        <4>3. PICK f, i : f = work[n].frame /\ i = work[n].image
          OBVIOUS
        <4>4. Pending(f, i, n)'
          BY <2>2, <2>3, <4>2, <4>3
        <4> QED
          BY <4>1, <4>3, <4>4 DEF Pending, UsesWithin
      <3>2. CASE n \notin DOMAIN work
        <4>1. n = l
          BY <1>0, <2>1, <2>2, <3>2
        <4>2. e.frame = m_currentFrame /\ e.image = image /\ Preparing
          BY <1>6, <2>2, <2>4, <4>1 DEF IsRender
        <4>3. Pending(m_currentFrame, image, l)
          BY <2>1, <4>2 DEF ImagesPending
        <4>4. PICK f, i : f = m_currentFrame /\ i = image
          OBVIOUS
        <4>5. Pending(f, i, n)'
          BY <2>2, <2>3, <4>1, <4>3, <4>4
        <4> QED
          BY <2>2, <4>1, <4>2, <4>4, <4>5 DEF Pending, UsesWithin
      <3> QED
        BY <3>1, <3>2
    <2>5. ASSUME Preparing' PROVE Pending(m_currentFrame, image, Len(work) + 1)'
      <3>1. PICK f, i : f = m_currentFrame /\ i = image
        OBVIOUS
      <3>2. Pending(f, i, l)
        BY <1>6, <2>1, <2>5, <3>1 DEF ImagesPending
      <3>3. Pending(f, i, l + 1)'
        BY <1>6, <2>1, <2>3, <2>5, <3>2
      <3>4. m_currentFrame' = f /\ image' = i /\ Len(work') + 1 = l + 1
        BY <1>6, <2>2, <2>5, <3>1
      <3> QED
        BY <3>3, <3>4 DEF Pending, UsesWithin
    <2> QED
      BY <2>4, <2>5 DEF ImagesPending
  <1>7. CASE Submit
    <2> DEFINE e == [kind |-> "render", frame |-> m_currentFrame, image |-> image]
    <2>1. /\ work' = Append(work, e)
          /\ UNCHANGED <<imageAvailable, m_currentFrame, reading, ahead, dropped>>
          /\ Preparing /\ ~Preparing'
      BY <1>7 DEF Submit, Preparing
    <2>2. e.frame = m_currentFrame /\ e.image = image
      OBVIOUS
    <2> HIDE DEF e
    <2> QED
      BY <1>6, <2>1, <2>2
  <1>8. CASE SubmitFails
    BY <1>1, <1>8 DEF SubmitFails, Preparing
  <1>9. CASE Present
    <2>1. ~Preparing' /\ UNCHANGED <<imageAvailable, reading, ahead>>
      BY <1>9 DEF Present, Preparing
    <2>2. ASSUME NEW e \in Entry, e.kind \in {"present", "refused"}, work' = Append(work, e),
                 UNCHANGED dropped
          PROVE  ImagesPending'
      BY <1>6, <2>1, <2>2
    <2>3. CASE UNCHANGED work /\ dropped \subseteq dropped'
      <3>1. \A n \in DOMAIN work : Ordered(work[n].frame)' => Ordered(work[n].frame)
        BY <2>3 DEF Ordered
      <3> QED
        BY <2>1, <2>3, <3>1
        DEF ImagesPending, Pending, UsesWithin, Turn, IsRender, IsPresent
    <2> QED
      BY <1>0, <1>9, <2>2, <2>3, PresentSubmits
  <1>10. ASSUME NEW n \in DOMAIN work, Render(n) \/ Copy(n) \/ Show(n) \/ Refuse(n)
         PROVE  ImagesPending'
    <2>0. /\ work' = RemoveAt(work, n)
          /\ UNCHANGED <<m_currentFrame, pc, image, dropped>>
      BY <1>10 DEF Render, Copy, Show, Refuse
    <2>1. /\ Len(work') = Len(work) - 1
          /\ \A k \in DOMAIN work' :
                /\ Old(k, n) \in DOMAIN work /\ Old(k, n) # n
                /\ work'[k] = work[Old(k, n)]
                /\ New(Old(k, n), n) = k
      BY <1>0, <2>0, TakeFacts
    <2>2. ASSUME NEW k \in DOMAIN work', IsRender(k)', Ordered(work[k].frame)'
          PROVE  Pending(work[k].frame, work[k].image, k)'
      <3>1. PICK l \in DOMAIN work : l = Old(k, n) /\ l # n /\ work'[k] = work[l] /\ New(l, n) = k
        BY <2>1
      <3>2. IsRender(l) /\ Ordered(work[l].frame)
        BY <2>0, <2>2, <3>1 DEF IsRender, Ordered
      <3>3. PICK f \in Frames, i \in Images : f = work[l].frame /\ i = work[l].image
        BY <1>0, <3>2, EntryFacts
      <3>4. Pending(f, i, l)
        BY <3>2, <3>3 DEF ImagesPending
      <3>5. l \in 1 .. Len(work) + 1
        BY <1>0
      <3>6. Pending(f, i, New(l, n))'
        BY <1>10, <3>1, <3>2, <3>3, <3>4, <3>5, PendingTaken
      <3> QED
        BY <3>1, <3>3, <3>6 DEF Pending, UsesWithin
    <2>3. ASSUME Preparing' PROVE Pending(m_currentFrame, image, Len(work) + 1)'
      <3>1. PICK f \in Frames, i \in {image}, l \in {Len(work) + 1} :
                   f = m_currentFrame /\ i = image /\ l = Len(work) + 1
        BY <1>0 DEF Types
      <3>2. Preparing
        BY <2>0, <2>3 DEF Preparing
      <3>3. Pending(f, i, l) /\ l \notin DOMAIN work /\ l \in 1 .. Len(work) + 1 /\ l # n
        BY <1>0, <3>1, <3>2 DEF ImagesPending
      <3>4. Pending(f, i, New(l, n))'
        BY <1>10, <3>3, PendingTaken
      <3>5. New(l, n) = Len(work') + 1
        <4>1. Len(work') = Len(work) - 1 /\ Len(work) \in Nat /\ n \in 1 .. Len(work)
          BY <1>0, <2>1
        <4>2. ~(l < n)
          BY <3>1, <4>1
        <4> QED
          BY <3>1, <4>1, <4>2 DEF New
      <3> QED
        BY <2>0, <3>1, <3>4, <3>5 DEF Pending, UsesWithin
    <2> QED
      BY <2>2, <2>3 DEF ImagesPending
  <1>11. CASE Release
    <2>1. /\ reading' = Tail(reading) /\ reading # << >>
          /\ ahead' = [f \in Frames |-> IF ahead[f] > 0 THEN ahead[f] - 1 ELSE ahead[f]]
          /\ UNCHANGED <<imageAvailable, m_currentFrame, pc, image, work, dropped>>
      BY <1>0, <1>11 DEF Release
    <2>2. ASSUME NEW f \in Frames, NEW i, NEW l \in 1 .. Len(work) + 1, Pending(f, i, l)
          PROVE  Pending(f, i, l)'
      <3>1. PICK a \in Nat \cup {NotDue} : a = ahead[f]
        BY <1>0 DEF MoreTypes
      <3>2. \A k \in Nat : UsesWithin(i, l, k) =>
                UsesWithin(i, l, IF k > 0 THEN k - 1 ELSE k)'
        BY <1>0, <2>1, UsesReleased
      <3>3. imageAvailable'[f] => UsesWithin(i, l, 0)'
        <4>1. imageAvailable[f] => UsesWithin(i, l, 0)
          BY <2>2 DEF Pending
        <4>2. UsesWithin(i, l, 0) => UsesWithin(i, l, 0)'
          <5>1. 0 \in Nat /\ (IF 0 > 0 THEN 0 - 1 ELSE 0) = 0
            OBVIOUS
          <5> QED
            BY <3>2, <5>1
        <4> QED
          BY <2>1, <4>1, <4>2
      <3>4. PICK b : b = IF a > 0 THEN a - 1 ELSE a
        OBVIOUS
      <3>5. ahead'[f] = b /\ (b # NotDue => a \in Nat /\ a # NotDue)
        BY <2>1, <3>1, <3>4 DEF NotDue
      <3>6. b # NotDue => UsesWithin(i, l, b)'
        BY <2>2, <3>1, <3>2, <3>4, <3>5 DEF Pending
      <3> QED
        BY <3>3, <3>5, <3>6 DEF Pending, UsesWithin
    <2>3. ASSUME NEW n \in DOMAIN work, IsRender(n), Ordered(work[n].frame)
          PROVE  Pending(work[n].frame, work[n].image, n)'
      <3>1. PICK f \in Frames, i \in Images : f = work[n].frame /\ i = work[n].image
        BY <1>0, <2>3, EntryFacts
      <3>2. Pending(f, i, n)'
        BY <1>0, <2>2, <2>3, <3>1 DEF ImagesPending
      <3> QED
        BY <2>1, <3>1, <3>2 DEF Pending, UsesWithin
    <2>4. ASSUME Preparing PROVE Pending(m_currentFrame, image, Len(work) + 1)'
      <3>1. PICK f \in Frames, i \in {image}, l \in {Len(work) + 1} :
                   f = m_currentFrame /\ i = image /\ l = Len(work) + 1
        BY <1>0 DEF Types
      <3>2. Pending(f, i, l)'
        BY <1>0, <2>2, <2>4, <3>1 DEF ImagesPending
      <3> QED
        BY <2>1, <3>1, <3>2 DEF Pending, UsesWithin
    <2> QED
      BY <2>1, <2>3, <2>4 DEF ImagesPending, IsRender, Preparing, Ordered
  <1>12. ASSUME NEW f \in Frames, Available(f) PROVE ImagesPending'
    <2>1. /\ ahead[f] = 0 /\ ahead' = [ahead EXCEPT ![f] = NotDue]
          /\ imageAvailable' = [imageAvailable EXCEPT ![f] = TRUE]
          /\ UNCHANGED <<m_currentFrame, pc, image, work, reading, dropped>>
      BY <1>12 DEF Available
    <2>2. ASSUME NEW g \in Frames, NEW i, NEW l, Pending(g, i, l)
          PROVE  Pending(g, i, l)'
      <3>1. CASE g = f
        <4>1. UsesWithin(i, l, 0)
          BY <2>1, <2>2, <3>1 DEF Pending, NotDue
        <4>2. UsesWithin(i, l, 0)'
          BY <2>1, <4>1 DEF UsesWithin, Turn, IsPresent
        <4>3. ahead'[g] = NotDue
          BY <1>0, <2>1, <3>1 DEF MoreTypes
        <4> QED
          BY <4>2, <4>3 DEF Pending
      <3>2. CASE g # f
        <4>1. ahead'[g] = ahead[g] /\ imageAvailable'[g] = imageAvailable[g]
          BY <1>0, <2>1, <3>2 DEF MoreTypes
        <4> QED
          BY <2>1, <2>2, <4>1 DEF Pending, UsesWithin, Turn, IsPresent
      <3> QED
        BY <3>1, <3>2
    <2>3. ASSUME NEW n \in DOMAIN work, IsRender(n), Ordered(work[n].frame)
          PROVE  Pending(work[n].frame, work[n].image, n)'
      <3>1. PICK g \in Frames, i \in Images : g = work[n].frame /\ i = work[n].image
        BY <1>0, <2>3, EntryFacts
      <3>2. Pending(g, i, n)'
        BY <2>2, <2>3, <3>1 DEF ImagesPending
      <3> QED
        BY <2>1, <3>1, <3>2 DEF Pending, UsesWithin
    <2>4. ASSUME Preparing PROVE Pending(m_currentFrame, image, Len(work) + 1)'
      <3>1. PICK g \in Frames, i \in {image}, l \in {Len(work) + 1} :
                   g = m_currentFrame /\ i = image /\ l = Len(work) + 1
        BY <1>0 DEF Types
      <3>2. Pending(g, i, l)'
        BY <2>2, <2>4, <3>1 DEF ImagesPending
      <3> QED
        BY <2>1, <3>1, <3>2 DEF Pending, UsesWithin
    <2> QED
      BY <2>1, <2>3, <2>4 DEF ImagesPending, IsRender, Preparing, Ordered
  <1>13. CASE UNCHANGED vars
    BY <1>1, <1>13 DEF vars, Preparing
  <1>14. CASE SubmitCommandBuffers
    BY <1>1, <1>14 DEF SubmitCommandBuffers, Preparing
  <1>15. CASE BeginCopy
    BY <1>0, <1>1, <1>15 DEF BeginCopy, Preparing, Types
  <1>16. CASE SubmitCopy
    <2>1. /\ UNCHANGED <<imageAvailable, m_currentFrame, image, reading, ahead, dropped>>
          /\ Preparing' => Preparing
      BY <1>16 DEF SubmitCopy, Preparing
    <2>2. CASE UNCHANGED work
      BY <1>1, <2>1, <2>2
    <2>3. CASE ~UNCHANGED work
      <3> DEFINE e == [kind |-> "copy", frame |-> NullHandle, image |-> NoImage]
      <3>1. work' = Append(work, e) /\ e.kind = "copy"
        BY <1>16, <2>3 DEF SubmitCopy
      <3> HIDE DEF e
      <3> QED
        BY <1>6, <2>1, <3>1
    <2> QED
      BY <2>2, <2>3
  <1>17. CASE FinishCopy
    BY <1>0, <1>1, <1>17 DEF FinishCopy, Preparing, Types
  <1> QED
    BY <1>2, <1>3, <1>4, <1>5, <1>7, <1>8, <1>9, <1>10, <1>11, <1>12,
       <1>13, <1>14, <1>15, <1>16, <1>17
    DEF Next, CallProgress, Engine

\* A render never writes an image that the engine reads or is to read: when
\* imageAvailable is signalled all earlier uses of the image are over.  With two
\* queues that is so of the frames whose presents were all queued.
THEOREM EngineNeverTears == Spec => []NoTearing
  <1>1. Inv /\ FenceInv /\ OrderInv /\ ImagesPending => NoTearing
    <2> SUFFICES ASSUME Inv, FenceInv, OrderInv, ImagesPending,
                        NEW n \in DOMAIN work, CanRender(n), Ordered(work[n].frame)
                 PROVE  /\ \A r \in DOMAIN reading : reading[r] # work[n].image
                        /\ \A m \in 1 .. n - 1 :
                              work[m].kind # "refused" => work[m].image # work[n].image
      BY DEF NoTearing
    <2>0. /\ Types /\ work \in Seq(Entry) /\ DOMAIN work = 1 .. Len(work) /\ Len(work) \in Nat
          /\ DOMAIN reading = 1 .. Len(reading) /\ Len(reading) \in Nat
      BY DEF Inv, Types, FenceInv, MoreTypes
    <2>1. IsRender(n) /\ imageAvailable[work[n].frame] /\ work[n].image \in Images
      BY <2>0, EntryFacts DEF CanRender, IsRender
    <2>2. UsesWithin(work[n].image, n, 0)
      BY <2>0, <2>1 DEF ImagesPending, Pending
    <2>3. \A r \in DOMAIN reading : reading[r] # work[n].image
      BY <2>0, <2>2 DEF UsesWithin
    <2>4. ASSUME NEW m \in 1 .. n - 1, work[m].kind # "refused",
                 work[m].image = work[n].image
          PROVE  FALSE
      <3>1. m \in DOMAIN work /\ m < n /\ m \in Nat /\ m > 0
        BY <2>0
      <3>2. work[m] \in Entry
        BY <2>0, <3>1
      <3>3. CASE work[m].kind = "present"
        <4>1. Turn(m) =< 0
          BY <2>2, <2>4, <3>1, <3>3 DEF UsesWithin, IsPresent
        <4>2. PresentsUpTo(work, m) \in Nat /\ PresentsUpTo(work, m) > 0
          BY <3>1, <3>3, CountType
        <4>3. Turn(m) = Len(reading) + PresentsUpTo(work, m)
          BY DEF Turn, PresentsUpTo
        <4> QED
          BY <2>0, <4>1, <4>2, <4>3
      <3>4. CASE work[m].kind = "render"
        BY <2>1, <2>4, <3>1, <3>4 DEF Inv, RendersNoted, OneRenderPerFrame, IsRender
      <3>5. CASE work[m].kind = "copy"
        <4>1. work[m].image = NoImage
          BY <3>2, <3>5 DEF Entry
        <4> QED
          BY <2>1, <2>4, <4>1, FramesFacts
      <3> QED
        BY <2>4, <3>2, <3>3, <3>4, <3>5 DEF Entry
    <2> QED
      BY <2>3, <2>4
  <1>2. Init => Inv /\ FenceInv /\ OrderInv /\ ImagesPending
    BY InitInv, InitFences, InitOrder, InitPending
  <1>3. Inv /\ FenceInv /\ OrderInv /\ ImagesPending /\ [Next]_vars =>
            Inv' /\ FenceInv' /\ OrderInv' /\ ImagesPending'
    BY NextInv, FenceStep, OrderStep, PendingStep
  <1> QED
    BY <1>1, <1>2, <1>3, PTL DEF Spec

\* What is presented has been rendered: no present is executed before the render
\* of its image, also when the present of the frame before is late or was
\* refused.  With two queues that is so of the frames whose presents were all
\* queued.
THEOREM RenderedBeforeShown == Spec => []PresentsRendered
  <1>1. Inv /\ OrderInv => PresentsRendered
    <2> SUFFICES ASSUME Inv, OrderInv, NEW n \in DOMAIN work, CanShow(n),
                        Ordered(work[n].frame),
                        NEW m \in 1 .. n - 1, work[m].image = work[n].image
                 PROVE  FALSE
      BY DEF PresentsRendered
    <2>0. Types /\ work \in Seq(Entry) /\ DOMAIN work = 1 .. Len(work) /\ Len(work) \in Nat
      BY DEF Inv, Types
    <2>1. /\ Consumes(n) /\ NextInQueue(n) /\ renderFinished[work[n].frame]
          /\ work[n].image \in Images
      BY <2>0, PresentFacts DEF CanShow, Consumes
    <2>2. m \in DOMAIN work /\ m < n /\ work[m] \in Entry
      BY <2>0
    <2>3. CASE work[m].kind \in {"present", "refused"}
      <3>1. Consumes(m)
        BY <2>2, <2>3 DEF Consumes
      <3>2. n =< m
        BY <2>1, <2>2, <3>1, ShownFirst
      <3> QED
        BY <2>0, <2>2, <3>2
    <2>4. CASE work[m].kind = "render"
      <3>1. IsRender(m)
        BY <2>2, <2>4 DEF IsRender
      <3>2. n < m
        BY <2>1, <2>2, <3>1, ShownFirst
      <3> QED
        BY <2>0, <2>2, <3>2
    <2>5. CASE work[m].kind = "copy"
      BY <2>1, <2>2, <2>5, FramesFacts DEF Entry
    <2> QED
      BY <2>2, <2>3, <2>4, <2>5 DEF Entry
  <1>2. Init => Inv /\ FenceInv /\ OrderInv
    BY InitInv, InitFences, InitOrder
  <1>3. Inv /\ FenceInv /\ OrderInv /\ [Next]_vars => Inv' /\ FenceInv' /\ OrderInv'
    BY NextInv, FenceStep, OrderStep
  <1> QED
    BY <1>1, <1>2, <1>3, PTL DEF Spec
=============================================================================
