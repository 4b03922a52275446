------------------------ MODULE SwapChainSetupProofs ------------------------
(***************************************************************************)
(* Theorems about SwapChainSetup, for whatever drivers offer, for any      *)
(* number of images and of frames in flight.                               *)
(*                                                                         *)
(* The stages of the constructor and the destructor are numbered in the    *)
(* order in which they are passed.  Of each kind of object one stage makes *)
(* and one stage destroys a number, in a loop over objects of one kind or  *)
(* of three: at any moment those exist that are made and not destroyed.    *)
(***************************************************************************)
EXTENDS SwapChainSetup, WellFoundedInduction, TLAPS

\* The number of the stage.
At ==
    CASE pc = "createSwapChain" -> 1
      [] pc = "createImageViews" -> 2
      [] pc = "createRenderPass" -> 3
      [] pc = "createDepthResources" -> 4
      [] pc = "createFramebuffers" -> 5
      [] pc = "createSyncObjects" -> 6
      [] pc = "constructed" -> 7
      [] pc = "vkDestroyImageView" -> 8
      [] pc = "vkDestroySwapchainKHR" -> 9
      [] pc = "~depth" -> 10
      [] pc = "vkDestroyFramebuffer" -> 11
      [] pc = "vkDestroyRenderPass" -> 12
      [] pc = "~sync" -> 13
      [] pc = "destroyed" -> 14
      [] OTHER -> 0

\* The kinds of objects: those made three by three, and all.
Depth == {"depthImage", "depthMemory", "depthView"}
Sync == {"imageAvailable", "renderFinished", "inFlightFence"}
Kinds == {"swapChain", "imageView", "renderPass", "framebuffer"} \cup Depth \cup Sync

\* How many objects of a kind a swap chain has.
Number(kind) ==
    CASE kind \in {"swapChain", "renderPass"} -> 1
      [] kind \in Sync -> ImagesInFlight
      [] OTHER -> imageCount

\* The stages that make and destroy them, and the place of the kind in the
\* loops of those stages.
Loop(kind) == IF kind \in Depth \cup Sync THEN 3 ELSE 1

MadeIn(kind) ==
    CASE kind = "swapChain" -> 1
      [] kind = "imageView" -> 2
      [] kind = "renderPass" -> 3
      [] kind \in Depth -> 4
      [] kind = "framebuffer" -> 5
      [] OTHER -> 6

MadeAs(kind) ==
    CASE kind \in {"depthMemory", "renderFinished"} -> 1
      [] kind \in {"depthView", "inFlightFence"} -> 2
      [] OTHER -> 0

GoneIn(kind) ==
    CASE kind = "imageView" -> 8
      [] kind = "swapChain" -> 9
      [] kind \in Depth -> 10
      [] kind = "framebuffer" -> 11
      [] kind = "renderPass" -> 12
      [] OTHER -> 13

GoneAs(kind) ==
    CASE kind \in {"depthImage", "imageAvailable"} -> 1
      [] kind \in {"depthMemory", "inFlightFence"} -> 2
      [] OTHER -> 0

\* How many of n objects a stage has dealt with, before the j-th call of stage
\* at, when every l-th of its calls is about such an object, the p-th first.
Progress(stage, p, l, n, at, j) ==
    IF at < stage THEN 0
    ELSE IF at = stage THEN (j + (l - 1 - p)) \div l
    ELSE n

\* How many objects of a kind were made so far, and destroyed.
Made(kind) == Progress(MadeIn(kind), MadeAs(kind), Loop(kind), Number(kind), At, i)
Gone(kind) == Progress(GoneIn(kind), GoneAs(kind), Loop(kind), Number(kind), At, i)

\* How many calls the stage makes.
Calls ==
    CASE At \in {4, 10} -> 3 * imageCount
      [] At \in {2, 5, 8, 11} -> imageCount
      [] At \in {6, 13} -> 3 * ImagesInFlight
      [] OTHER -> 1

\* Those exist that were made and not destroyed; unless the constructor threw,
\* which leaves what it had made.
LiveInv ==
    pc # "failed" =>
        /\ At \in 1 .. 14
        /\ i < Calls
        /\ At > 1 => imageCount > 0
        /\ \A kind \in Kinds, n \in Nat :
              <<kind, n>> \in live <=> Gone(kind) <= n /\ n < Made(kind)

\* The memory of the depth images is of a type that suits the GPU and the image.
MemoryOK ==
    memoryType # None =>
        /\ memoryType \in driver.memoryTypeBits
        /\ "device_local" \in driver.memoryTypes[memoryType]

\* The types of the variables.
Types ==
    /\ driver \in Drivers
    /\ pc \in ToSet(Constructor) \cup ToSet(Destructor) \cup {"failed"}
    /\ i \in Nat
    /\ live \subseteq Kinds \X Nat
    /\ createInfo = NoInfo \/ createInfo.imageFormat \in Formats
    /\ imageCount \in Nat
    /\ memoryType \in Nat

\* The inductive invariant; what a constructor that threw has left is part of a
\* complete chain, and views are backed by images.
SetupInv ==
    /\ Types
    /\ LiveInv
    /\ MemoryOK
    /\ ChoicesSupported
    /\ pc = "failed" => live \subseteq Complete /\ ImagesOutliveViews

-----------------------------------------------------------------------------
(***************************************************************************)
(* Minima, maxima and searches.                                            *)
(***************************************************************************)

\* Min is the least of a set of numbers.
LEMMA MinIs ==
    ASSUME NEW S \in SUBSET Nat, S # {}
    PROVE  Min(S) \in S /\ \A y \in S : Min(S) =< y
PROOF
  <1>1. PICK x \in S : \A y \in S : ~(<<y, x>> \in OpToRel(<, Nat))
    BY NatLessThanWellFounded, WFMin
  <1>2. \A y \in S : x =< y
    <2> SUFFICES ASSUME NEW y \in S, y < x PROVE FALSE
      OBVIOUS
    <2>1. <<y, x>> \in Nat \X Nat /\ <<y, x>>[1] < <<y, x>>[2]
      OBVIOUS
    <2> QED
      BY <1>1, <2>1 DEF OpToRel
  <1> QED
    BY <1>2 DEF Min

\* Those of two numbers.
LEMMA MinOfTwo ==
    ASSUME NEW a \in Nat, NEW b \in Nat
    PROVE  Min({a, b}) = IF a =< b THEN a ELSE b
PROOF
  <1>1. Min({a, b}) \in {a, b} /\ \A y \in {a, b} : Min({a, b}) =< y
    BY MinIs
  <1> QED
    BY <1>1

\* The greater of two numbers.
LEMMA MaxOfTwo ==
    ASSUME NEW a \in Nat, NEW b \in Nat
    PROVE  Max({a, b}) = IF a >= b THEN a ELSE b
PROOF
  <1> DEFINE m == IF a >= b THEN a ELSE b
  <1>1. m \in {a, b} /\ \A y \in {a, b} : m >= y
    OBVIOUS
  <1>2. \A x \in {a, b} : (\A y \in {a, b} : x >= y) => x = m
    OBVIOUS
  <1>3. Max({a, b}) = CHOOSE x \in {a, b} : \A y \in {a, b} : x >= y
    BY DEF Max
  <1> HIDE DEF m
  <1>4. Max({a, b}) = m
    BY <1>1, <1>2, <1>3
  <1> QED
    BY <1>4 DEF m

\* The stage after the n-th of a list.
LEMMA NextStage ==
    ASSUME NEW stages, NEW n \in 1 .. Len(stages), stages[n] = pc,
           \A m \in 1 .. Len(stages) : stages[m] = pc => m = n,
           NEW calls, Advance(stages, calls), ~(i + 1 < calls)
    PROVE  i' = 0 /\ pc' = stages[n + 1]
PROOF
  <1> DEFINE I == {m \in 1 .. Len(stages) : stages[m] = pc}
  <1>1. I = {n} /\ n \in Nat
    OBVIOUS
  <1>2. Min(I) \in I
    BY <1>1, MinIs
  <1>3. SelectInSeq(stages, LAMBDA s : s = pc) = n
    BY <1>1, <1>2 DEF SelectInSeq
  <1> QED
    BY <1>3 DEF Advance

\* The first memory type with a property.
LEMMA MemoryTypeFound ==
    ASSUME NEW d \in Driver, NEW property, findMemoryType(d, property) # None
    PROVE  /\ findMemoryType(d, property) \in d.memoryTypeBits
           /\ property \in d.memoryTypes[findMemoryType(d, property)]
           /\ findMemoryType(d, property) \in Nat
PROOF
  <1> DEFINE seq == [t \in DOMAIN d.memoryTypes |->
                        IF t \in d.memoryTypeBits THEN d.memoryTypes[t] ELSE {}]
  <1> DEFINE I == {m \in 1 .. Len(seq) : property \in seq[m]}
  <1>1. findMemoryType(d, property) = IF I # {} THEN Min(I) ELSE 0
    BY DEF findMemoryType, SelectInSeq
  <1>2. DOMAIN d.memoryTypes = 1 .. Len(d.memoryTypes) /\ Len(d.memoryTypes) \in Nat
    BY DEF Driver
  <1>3. Len(seq) = Len(d.memoryTypes)
    BY <1>2
  <1>4. I \in SUBSET Nat
    BY <1>2, <1>3
  <1>5. I # {}
    BY <1>1 DEF None
  <1>6. findMemoryType(d, property) \in I
    BY <1>1, <1>4, <1>5, MinIs
  <1> QED
    BY <1>2, <1>3, <1>4, <1>6

-----------------------------------------------------------------------------
(***************************************************************************)
(* How the stages progress.                                                *)
(***************************************************************************)

\* The quotients by three of three consecutive numbers.
LEMMA Thirds ==
    ASSUME NEW j \in Nat
    PROVE  /\ j % 3 = 0 => (j + 1) \div 3 = j \div 3 /\ (j + 2) \div 3 = j \div 3
           /\ j % 3 = 1 => (j + 1) \div 3 = j \div 3 /\ (j + 2) \div 3 = (j \div 3) + 1
           /\ j % 3 = 2 => (j + 1) \div 3 = (j \div 3) + 1 /\ (j + 2) \div 3 = (j \div 3) + 1
           /\ (j + 3) \div 3 = (j \div 3) + 1
           /\ j % 3 \in 0 .. 2
           /\ j \div 3 \in Nat
PROOF
  OBVIOUS

\* The place of a call in the loop.
LEMMA PlaceInLoop ==
    ASSUME NEW j \in Nat, NEW l \in {1, 3}
    PROVE  j % l \in 0 .. l - 1 /\ (j % l) + 1 \in 1 .. l
PROOF
  <1>1. CASE l = 1
    BY <1>1
  <1>2. CASE l = 3
    BY <1>2, Thirds
  <1> QED
    BY <1>1, <1>2

\* A stage that is not at work does nothing.
LEMMA OtherStage ==
    ASSUME NEW stage \in Nat, NEW l \in {1, 3}, NEW p \in 0 .. l - 1, NEW n, NEW m,
           NEW at \in Nat, NEW j, NEW at2, NEW j2,
           stage # at, n = m \/ at < stage,
           at2 = at \/ (at2 = at + 1 /\ j2 = 0)
    PROVE  Progress(stage, p, l, m, at2, j2) = Progress(stage, p, l, n, at, j)
PROOF
  <1>1. CASE at2 = at
    BY <1>1 DEF Progress
  <1>2. CASE at2 = at + 1 /\ at2 # stage
    BY <1>2 DEF Progress
  <1>3. CASE at2 = at + 1 /\ at2 = stage /\ j2 = 0
    <2>1. (0 + (l - 1 - p)) \div l = 0
      BY Thirds
    <2> QED
      BY <1>3, <2>1 DEF Progress
  <1> QED
    BY <1>1, <1>2, <1>3

\* What the j-th call of stage at, in a loop over l kinds, does to the p-th of
\* them: it is about the next object of the kind whose turn it is.
Deals(l, p, n, at, j, at2, j2) ==
    /\ j % l = p => Progress(at, p, l, n, at, j) = j \div l
    /\ Progress(at, p, l, n, at2, j2) =
            Progress(at, p, l, n, at, j) + (IF j % l = p THEN 1 ELSE 0)
    /\ Progress(at, p, l, n, at, j) \in Nat

\* A call of a loop deals with one object: the j-th call with an object of the
\* p-th kind of l if p is what j leaves.
LEMMA ThisStage ==
    ASSUME NEW l \in {1, 3}, NEW p \in 0 .. l - 1, NEW n \in Nat,
           NEW at \in Nat, NEW j \in Nat, j < l * n, NEW at2 \in Nat, NEW j2 \in Nat,
           IF j + 1 < l * n THEN at2 = at /\ j2 = j + 1 ELSE at2 = at + 1
    PROVE  Deals(l, p, n, at, j, at2, j2)
PROOF
  <1>1. CASE l = 1
    <2>1. p = 0 /\ j % 1 = 0 /\ j \div 1 = j /\ (j + 1) \div 1 = j + 1
      BY <1>1
    <2> QED
      BY <1>1, <2>1 DEF Progress, Deals
  <1>2. CASE l = 3
    <2>1. p \in {0, 1, 2}
      BY <1>2
    <2>2. CASE j + 1 < l * n
      <3>1. at2 = at /\ j2 = j + 1
        BY <1>2, <2>2
      <3>2. Progress(at, p, 3, n, at, j) = (j + (2 - p)) \div 3
        BY <2>1 DEF Progress
      <3>3. Progress(at, p, 3, n, at, j + 1) = (j + (3 - p)) \div 3
        BY <2>1 DEF Progress
      <3>4. /\ j % 3 = p => (j + (2 - p)) \div 3 = j \div 3
            /\ (j + (3 - p)) \div 3 = ((j + (2 - p)) \div 3) + (IF j % 3 = p THEN 1 ELSE 0)
            /\ (j + (2 - p)) \div 3 \in Nat
        BY <2>1
      <3> QED
        BY <1>2, <3>1, <3>2, <3>3, <3>4 DEF Deals
    <2>3. CASE ~(j + 1 < l * n)
      <3>1. j + 1 = 3 * n
        BY <1>2, <2>3
      <3>2. j % 3 = 2 /\ j \div 3 = n - 1
        BY <3>1
      <3> QED
        BY <1>2, <2>1, <2>3, <3>1, <3>2, Thirds DEF Progress, Deals
    <2> QED
      BY <2>2, <2>3
  <1> QED
    BY <1>1, <1>2

\* The stages follow one another, each when its calls are made.
LEMMA ConstructorAdvances ==
    ASSUME At \in 1 .. 6, NEW calls, Advance(Constructor, calls)
    PROVE  IF i + 1 < calls THEN At' = At /\ i' = i + 1 ELSE At' = At + 1 /\ i' = 0
PROOF
  <1>1. CASE i + 1 < calls
    <2>1. pc' = pc /\ i' = i + 1
      BY <1>1 DEF Advance
    <2> QED
      BY <1>1, <2>1 DEF At
  <1>2. CASE ~(i + 1 < calls)
    <2>1. Len(Constructor) = 7
      BY DEF Constructor
    <2>2. \A m \in 1 .. 7 : Constructor[m] = pc <=> m = At
      BY DEF At, Constructor
    <2>3. PICK n : n = At
      OBVIOUS
    <2>4. pc' = Constructor[At + 1] /\ i' = 0
      <3>1. n \in 1 .. Len(Constructor) /\ Constructor[n] = pc
        BY <2>1, <2>2, <2>3
      <3>2. \A m \in 1 .. Len(Constructor) : Constructor[m] = pc => m = n
        BY <2>1, <2>2, <2>3
      <3> QED
        BY <1>2, <2>3, <3>1, <3>2, NextStage
    <2>5. \A m \in 1 .. 7 : pc' = Constructor[m] => At' = m
      BY DEF At, Constructor
    <2>6. At + 1 \in 1 .. 7
      OBVIOUS
    <2> QED
      BY <1>2, <2>4, <2>5, <2>6
  <1> QED
    BY <1>1, <1>2

\* After a call the destructor is at the next call, or at the next stage.
LEMMA DestructorAdvances ==
    ASSUME At \in 7 .. 13, NEW calls, Advance(Destructor, calls)
    PROVE  IF i + 1 < calls THEN At' = At /\ i' = i + 1 ELSE At' = At + 1 /\ i' = 0
PROOF
  <1>1. CASE i + 1 < calls
    <2>1. pc' = pc /\ i' = i + 1
      BY <1>1 DEF Advance
    <2> QED
      BY <1>1, <2>1 DEF At
  <1>2. CASE ~(i + 1 < calls)
    <2>1. Len(Destructor) = 8
      BY DEF Destructor
    <2>2. \A m \in 1 .. 8 : Destructor[m] = pc <=> m = At - 6
      BY DEF At, Destructor
    <2>3. PICK n : n = At - 6
      OBVIOUS
    <2>4. pc' = Destructor[(At - 6) + 1] /\ i' = 0
      <3>1. n \in 1 .. Len(Destructor) /\ Destructor[n] = pc
        BY <2>1, <2>2, <2>3
      <3>2. \A m \in 1 .. Len(Destructor) : Destructor[m] = pc => m = n
        BY <2>1, <2>2, <2>3
      <3> QED
        BY <1>2, <2>3, <3>1, <3>2, NextStage
    <2>5. \A m \in 1 .. 8 : pc' = Destructor[m] => At' = m + 6
      BY DEF At, Destructor
    <2>6. (At - 6) + 1 \in 1 .. 8 /\ ((At - 6) + 1) + 6 = At + 1
      OBVIOUS
    <2> QED
      BY <1>2, <2>4, <2>5, <2>6
  <1> QED
    BY <1>1, <1>2

\* The tables.
LEMMA TableTypes ==
    ASSUME NEW kind \in Kinds
    PROVE  /\ Loop(kind) \in {1, 3}
           /\ MadeIn(kind) \in 1 .. 6 /\ GoneIn(kind) \in 8 .. 13
           /\ MadeAs(kind) \in 0 .. Loop(kind) - 1
           /\ GoneAs(kind) \in 0 .. Loop(kind) - 1
           /\ imageCount \in Nat => Number(kind) \in Nat
PROOF
  BY SetupAssumption
  DEF Kinds, Depth, Sync, Loop, MadeIn, GoneIn, MadeAs, GoneAs, Number

\* A stage of the constructor with this list of kinds.
MakesKinds(kinds) ==
    /\ Len(kinds) \in {1, 3}
    /\ \A kind \in Kinds : MadeIn(kind) = At <=> \E p \in 1 .. Len(kinds) : kinds[p] = kind
    /\ \A p \in 1 .. Len(kinds) :
        /\ kinds[p] \in Kinds
        /\ MadeAs(kinds[p]) = p - 1
        /\ Loop(kinds[p]) = Len(kinds)
        /\ Len(kinds) * Number(kinds[p]) = Calls

\* A call of the constructor makes the next object.
LEMMA CreateMakes ==
    ASSUME LiveInv, Types, At \in 1 .. 6, NEW kinds, MakesKinds(kinds),
           NEW count, Len(kinds) * count = Calls, Create(kinds, count),
           imageCount' \in Nat, imageCount' > 0, At = 1 \/ imageCount' = imageCount
    PROVE  LiveInv' /\ At' \in 1 .. 14 /\ i' \in Nat
PROOF
  <1>a. pc # "failed"
    BY DEF At
  <1>0. /\ i \in Nat /\ imageCount \in Nat /\ ImagesInFlight \in Nat \ {0} /\ pc # "failed"
        /\ i < Calls
    BY <1>a, SetupAssumption DEF Types, LiveInv
  <1>1. IF i + 1 < Calls THEN At' = At /\ i' = i + 1 ELSE At' = At + 1 /\ i' = 0
    BY ConstructorAdvances DEF Create
  <1>2. ASSUME NEW kind \in Kinds
        PROVE  Number(kind)' = Number(kind) \/ At < MadeIn(kind)
    BY DEF Number, MadeIn, Kinds, Depth, Sync
  <1>3. ASSUME NEW kind \in Kinds
        PROVE  Gone(kind)' = 0 /\ Gone(kind) = 0
    <2>1. GoneIn(kind) > At /\ GoneIn(kind) > At'
      BY <1>1, TableTypes
    <2> QED
      BY <2>1 DEF Gone, Progress
  <1>4. ASSUME NEW kind \in Kinds, MadeIn(kind) # At
        PROVE  Made(kind)' = Made(kind) /\ \A n : Item(kinds) # <<kind, n>>
    <2>1. Made(kind)' = Progress(MadeIn(kind), MadeAs(kind), Loop(kind), Number(kind)', At', i')
      BY DEF Made
    <2>2. Made(kind)' = Made(kind)
      BY <1>1, <1>2, <1>4, <2>1, TableTypes, OtherStage DEF Made
    <2>3. (i % Len(kinds)) + 1 \in 1 .. Len(kinds)
      BY <1>0, PlaceInLoop DEF MakesKinds
    <2> QED
      BY <1>4, <2>2, <2>3 DEF Item, MakesKinds
  <1>5. ASSUME NEW kind \in Kinds, MadeIn(kind) = At
        PROVE  /\ Made(kind)' = Made(kind) + (IF i % Len(kinds) = MadeAs(kind) THEN 1 ELSE 0)
               /\ Made(kind) \in Nat
               /\ \A n \in Nat : Item(kinds) = <<kind, n>> <=>
                                    i % Len(kinds) = MadeAs(kind) /\ n = Made(kind)
    <2>1. PICK p \in 1 .. Len(kinds) : kinds[p] = kind
      BY <1>5 DEF MakesKinds
    <2>2. /\ MadeAs(kind) = p - 1 /\ Loop(kind) = Len(kinds)
          /\ Len(kinds) * Number(kind) = Calls
          /\ \A r \in 1 .. Len(kinds) : kinds[r] = kind => r = p
      BY <2>1 DEF MakesKinds
    <2>3. Number(kind)' = Number(kind) /\ Number(kind) \in Nat
      BY <1>0, <1>2, <1>5, TableTypes
    <2>4. /\ Made(kind) = Progress(At, p - 1, Len(kinds), Number(kind), At, i)
          /\ Made(kind)' = Progress(At, p - 1, Len(kinds), Number(kind), At', i')
      BY <1>5, <2>2, <2>3 DEF Made
    <2>5. Len(kinds) \in {1, 3} /\ p - 1 \in 0 .. Len(kinds) - 1
      BY <2>1 DEF MakesKinds
    <2>6. /\ i % Len(kinds) = p - 1 => Made(kind) = i \div Len(kinds)
          /\ Made(kind)' = Made(kind) + (IF i % Len(kinds) = p - 1 THEN 1 ELSE 0)
          /\ Made(kind) \in Nat
      <3>1. i < Len(kinds) * Number(kind)
        BY <1>0, <2>2
      <3>2. IF i + 1 < Len(kinds) * Number(kind) THEN At' = At /\ i' = i + 1 ELSE At' = At + 1
        BY <1>1, <2>2
      <3>3. At \in Nat /\ At' \in Nat /\ i' \in Nat
        BY <1>0, <1>1
      <3>4. Deals(Len(kinds), p - 1, Number(kind), At, i, At', i')
        BY <1>0, <2>3, <2>5, <3>1, <3>2, <3>3, ThisStage
      <3> QED
        BY <2>4, <3>4 DEF Deals
    <2>7. kinds[(i % Len(kinds)) + 1] = kind <=> i % Len(kinds) = p - 1
      <3>1. i % Len(kinds) \in 0 .. Len(kinds) - 1 /\ (i % Len(kinds)) + 1 \in 1 .. Len(kinds)
        BY <1>0, <2>5, PlaceInLoop
      <3>2. PICK q : q = i % Len(kinds)
        OBVIOUS
      <3> QED
        BY <2>1, <2>2, <2>5, <3>1, <3>2
    <2> QED
      BY <2>2, <2>6, <2>7 DEF Item
  <1>6. \A kind \in Kinds, n \in Nat :
            <<kind, n>> \in live' <=> Gone(kind)' <= n /\ n < Made(kind)'
    <2> SUFFICES ASSUME NEW kind \in Kinds, NEW n \in Nat
                 PROVE  <<kind, n>> \in live' <=> Gone(kind)' <= n /\ n < Made(kind)'
      OBVIOUS
    <2>1. <<kind, n>> \in live' <=> <<kind, n>> \in live \/ Item(kinds) = <<kind, n>>
      BY DEF Create
    <2>2. <<kind, n>> \in live <=> 0 <= n /\ n < Made(kind)
      BY <1>0, <1>3 DEF LiveInv
    <2>3. CASE MadeIn(kind) # At
      BY <1>3, <1>4, <2>1, <2>2, <2>3
    <2>4. CASE MadeIn(kind) = At
      BY <1>3, <1>5, <2>1, <2>2, <2>4
    <2> QED
      BY <2>3, <2>4
  <1>7. At' \in 1 .. 14 /\ i' < Calls'
    <2>1. CASE At' = At
      BY <1>0, <1>1, <2>1 DEF Calls
    <2>2. CASE At' = At + 1
      BY <1>0, <1>1, <2>2 DEF Calls
    <2> QED
      BY <1>1, <2>1, <2>2
  <1> QED
    BY <1>0, <1>1, <1>6, <1>7 DEF LiveInv

\* A stage of the destructor with this list of kinds.
FreesKinds(kinds) ==
    /\ Len(kinds) \in {1, 3}
    /\ \A kind \in Kinds : GoneIn(kind) = At <=> \E p \in 1 .. Len(kinds) : kinds[p] = kind
    /\ \A p \in 1 .. Len(kinds) :
        /\ kinds[p] \in Kinds
        /\ GoneAs(kinds[p]) = p - 1
        /\ Loop(kinds[p]) = Len(kinds)
        /\ Len(kinds) * Number(kinds[p]) = Calls

\* A call of the destructor destroys the next object.
LEMMA DestroysFrees ==
    ASSUME LiveInv, Types, At \in 8 .. 13, NEW kinds, FreesKinds(kinds),
           NEW count, Len(kinds) * count = Calls, NEW stage, Destroys(stage, kinds, count)
    PROVE  LiveInv' /\ At' \in 1 .. 14 /\ i' \in Nat
PROOF
  <1>a. pc # "failed"
    BY DEF At
  <1>0. /\ i \in Nat /\ imageCount \in Nat /\ ImagesInFlight \in Nat \ {0} /\ pc # "failed"
        /\ i < Calls /\ imageCount' = imageCount /\ imageCount > 0
    BY <1>a, SetupAssumption DEF Types, LiveInv, Destroys
  <1>1. IF i + 1 < Calls THEN At' = At /\ i' = i + 1 ELSE At' = At + 1 /\ i' = 0
    BY DestructorAdvances DEF Destroys
  <1>2. \A kind \in Kinds : Number(kind)' = Number(kind)
    BY <1>0 DEF Number
  <1>3. ASSUME NEW kind \in Kinds
        PROVE  Made(kind)' = Made(kind)
    <2>1. MadeIn(kind) < At /\ MadeIn(kind) < At'
      BY <1>1, TableTypes
    <2>2. Made(kind)' = Progress(MadeIn(kind), MadeAs(kind), Loop(kind), Number(kind)', At', i')
      BY DEF Made
    <2>3. MadeIn(kind) \in Nat
      BY TableTypes
    <2> QED
      BY <1>1, <1>2, <2>1, <2>2, <2>3 DEF Made, Progress
  <1>4. ASSUME NEW kind \in Kinds, GoneIn(kind) # At
        PROVE  Gone(kind)' = Gone(kind) /\ \A n : Item(kinds) # <<kind, n>>
    <2>1. Gone(kind)' = Progress(GoneIn(kind), GoneAs(kind), Loop(kind), Number(kind)', At', i')
      BY DEF Gone
    <2>2. Gone(kind)' = Gone(kind)
      BY <1>1, <1>2, <1>4, <2>1, TableTypes, OtherStage DEF Gone
    <2>3. (i % Len(kinds)) + 1 \in 1 .. Len(kinds)
      BY <1>0, PlaceInLoop DEF FreesKinds
    <2> QED
      BY <1>4, <2>2, <2>3 DEF Item, FreesKinds
  <1>5. ASSUME NEW kind \in Kinds, GoneIn(kind) = At
        PROVE  /\ Gone(kind)' = Gone(kind) + (IF i % Len(kinds) = GoneAs(kind) THEN 1 ELSE 0)
               /\ Gone(kind) \in Nat
               /\ \A n \in Nat : Item(kinds) = <<kind, n>> <=>
                                    i % Len(kinds) = GoneAs(kind) /\ n = Gone(kind)
    <2>1. PICK p \in 1 .. Len(kinds) : kinds[p] = kind
      BY <1>5 DEF FreesKinds
    <2>2. /\ GoneAs(kind) = p - 1 /\ Loop(kind) = Len(kinds)
          /\ Len(kinds) * Number(kind) = Calls
          /\ \A r \in 1 .. Len(kinds) : kinds[r] = kind => r = p
      BY <2>1 DEF FreesKinds
    <2>3. Number(kind)' = Number(kind) /\ Number(kind) \in Nat
      BY <1>0, <1>2, TableTypes
    <2>4. /\ Gone(kind) = Progress(At, p - 1, Len(kinds), Number(kind), At, i)
          /\ Gone(kind)' = Progress(At, p - 1, Len(kinds), Number(kind), At', i')
      BY <1>5, <2>2, <2>3 DEF Gone
    <2>5. Len(kinds) \in {1, 3} /\ p - 1 \in 0 .. Len(kinds) - 1
      BY <2>1 DEF FreesKinds
    <2>6. /\ i % Len(kinds) = p - 1 => Gone(kind) = i \div Len(kinds)
          /\ Gone(kind)' = Gone(kind) + (IF i % Len(kinds) = p - 1 THEN 1 ELSE 0)
          /\ Gone(kind) \in Nat
      <3>1. i < Len(kinds) * Number(kind)
        BY <1>0, <2>2
      <3>2. IF i + 1 < Len(kinds) * Number(kind) THEN At' = At /\ i' = i + 1 ELSE At' = At + 1
        BY <1>1, <2>2
      <3>3. At \in Nat /\ At' \in Nat /\ i' \in Nat
        BY <1>0, <1>1
      <3>4. Deals(Len(kinds), p - 1, Number(kind), At, i, At', i')
        BY <1>0, <2>3, <2>5, <3>1, <3>2, <3>3, ThisStage
      <3> QED
        BY <2>4, <3>4 DEF Deals
    <2>7. kinds[(i % Len(kinds)) + 1] = kind <=> i % Len(kinds) = p - 1
      <3>1. i % Len(kinds) \in 0 .. Len(kinds) - 1 /\ (i % Len(kinds)) + 1 \in 1 .. Len(kinds)
        BY <1>0, <2>5, PlaceInLoop
      <3>2. PICK q : q = i % Len(kinds)
        OBVIOUS
      <3> QED
        BY <2>1, <2>2, <2>5, <3>1, <3>2
    <2> QED
      BY <2>2, <2>6, <2>7 DEF Item
  <1>6. \A kind \in Kinds, n \in Nat :
            <<kind, n>> \in live' <=> Gone(kind)' <= n /\ n < Made(kind)'
    <2> SUFFICES ASSUME NEW kind \in Kinds, NEW n \in Nat
                 PROVE  <<kind, n>> \in live' <=> Gone(kind)' <= n /\ n < Made(kind)'
      OBVIOUS
    <2>1. <<kind, n>> \in live' <=> <<kind, n>> \in live /\ Item(kinds) # <<kind, n>>
      BY DEF Destroys
    <2>2. <<kind, n>> \in live <=> Gone(kind) <= n /\ n < Made(kind)
      BY <1>0 DEF LiveInv
    <2>3. CASE GoneIn(kind) # At
      BY <1>3, <1>4, <2>1, <2>2, <2>3
    <2>4. CASE GoneIn(kind) = At
      BY <1>3, <1>5, <2>1, <2>2, <2>4
    <2> QED
      BY <2>3, <2>4
  <1>7. At' \in 1 .. 14 /\ i' < Calls'
    <2>1. CASE At' = At
      BY <1>0, <1>1, <2>1 DEF Calls
    <2>2. CASE At' = At + 1
      BY <1>0, <1>1, <2>2 DEF Calls
    <2> QED
      BY <1>1, <2>1, <2>2
  <1> QED
    BY <1>0, <1>1, <1>6, <1>7 DEF LiveInv

-----------------------------------------------------------------------------
(***************************************************************************)
(* What exists at each stage.                                              *)
(***************************************************************************)

\* The calls of a stage serve each of its kinds equally often.
LEMMA CallsPerKind ==
    ASSUME NEW kind \in Kinds, MadeIn(kind) = At \/ GoneIn(kind) = At, imageCount \in Nat
    PROVE  Calls = Loop(kind) * Number(kind)
PROOF
  <1>1. PICK at : at = At
    OBVIOUS
  <1>2. CASE kind \in {"swapChain", "imageView", "renderPass", "framebuffer"}
    <2>1. Loop(kind) = 1
      BY <1>2 DEF Loop, Depth, Sync
    <2>2. CASE kind \in {"swapChain", "renderPass"}
      BY <1>1, <2>1, <2>2 DEF Calls, Number, MadeIn, GoneIn, Depth, Sync
    <2>3. CASE kind \in {"imageView", "framebuffer"}
      BY <1>1, <2>1, <2>3 DEF Calls, Number, MadeIn, GoneIn, Depth, Sync
    <2> QED
      BY <1>2, <2>2, <2>3
  <1>3. CASE kind \in Depth
    BY <1>1, <1>3 DEF Calls, Loop, Number, MadeIn, GoneIn, Depth, Sync
  <1>4. CASE kind \in Sync
    BY <1>1, <1>4 DEF Calls, Loop, Number, MadeIn, GoneIn, Depth, Sync
  <1> QED
    BY <1>2, <1>3, <1>4 DEF Kinds

\* A stage deals with no more objects than there are.
LEMMA ProgressBound ==
    ASSUME NEW stage \in Nat, NEW l \in {1, 3}, NEW p \in 0 .. l - 1, NEW n \in Nat,
           NEW at \in Nat, NEW j \in Nat, at = stage => j < l * n
    PROVE  Progress(stage, p, l, n, at, j) \in 0 .. n
PROOF
  <1>1. CASE at # stage
    BY <1>1 DEF Progress
  <1>2. CASE at = stage /\ l = 1
    BY <1>2 DEF Progress
  <1>3. CASE at = stage /\ l = 3
    <2>1. j < 3 * n /\ p \in {0, 1, 2}
      BY <1>3
    <2>2. (j + (2 - p)) \div 3 \in 0 .. n
      BY <2>1
    <2> QED
      BY <1>3, <2>2 DEF Progress
  <1> QED
    BY <1>1, <1>2, <1>3

\* What exists of a kind lies between what is destroyed and what is made.
LEMMA MadeBound ==
    ASSUME Types, LiveInv, pc # "failed", NEW kind \in Kinds
    PROVE  /\ Made(kind) \in 0 .. Number(kind) /\ Gone(kind) \in 0 .. Number(kind)
           /\ Number(kind) \in Nat
PROOF
  <1>1. i \in Nat /\ imageCount \in Nat /\ At \in Nat /\ i < Calls
    BY DEF Types, LiveInv
  <1>2. /\ Loop(kind) \in {1, 3}
        /\ MadeIn(kind) \in Nat /\ GoneIn(kind) \in Nat
        /\ MadeAs(kind) \in 0 .. Loop(kind) - 1
        /\ GoneAs(kind) \in 0 .. Loop(kind) - 1
        /\ Number(kind) \in Nat
    BY <1>1, TableTypes
  <1>3. At = MadeIn(kind) => i < Loop(kind) * Number(kind)
    BY <1>1, CallsPerKind
  <1>4. At = GoneIn(kind) => i < Loop(kind) * Number(kind)
    BY <1>1, CallsPerKind
  <1>5. Made(kind) \in 0 .. Number(kind)
    BY <1>1, <1>2, <1>3, ProgressBound DEF Made
  <1>6. Gone(kind) \in 0 .. Number(kind)
    BY <1>1, <1>2, <1>4, ProgressBound DEF Gone
  <1> QED
    BY <1>2, <1>5, <1>6

\* Nothing exists that no swap chain has.
LEMMA LiveComplete ==
    ASSUME Types, LiveInv, pc # "failed"
    PROVE  live \subseteq Complete
PROOF
  <1> SUFFICES ASSUME NEW o \in live PROVE o \in Complete
    OBVIOUS
  <1>1. PICK kind \in Kinds, n \in Nat : o = <<kind, n>>
    BY DEF Types
  <1>2. n < Made(kind)
    BY <1>1 DEF LiveInv
  <1>3. n \in 0 .. Number(kind) - 1
    BY <1>2, MadeBound
  <1>4. o \in Of(kind, Number(kind))
    BY <1>1, <1>3 DEF Of
  <1>5. CASE kind \in {"swapChain", "renderPass"}
    <2>1. Number(kind) = 1
      BY <1>5 DEF Number, Sync
    <2>2. o \in Of("swapChain", 1) \/ o \in Of("renderPass", 1)
      BY <1>4, <1>5, <2>1
    <2> QED
      BY <2>2 DEF Complete
  <1>6. CASE kind \in Sync
    <2>1. Number(kind) = ImagesInFlight
      BY <1>6 DEF Number, Sync
    <2> QED
      BY <1>4, <1>6, <2>1 DEF Complete, FrameObjects, Sync
  <1>7. CASE kind \in Depth \cup {"imageView", "framebuffer"}
    <2>1. Number(kind) = imageCount
      BY <1>7 DEF Number, Sync, Depth
    <2> QED
      BY <1>4, <1>7, <2>1 DEF Complete, ImageObjects, Depth
  <1> QED
    BY <1>5, <1>6, <1>7 DEF Kinds

\* An object of a chain is one of its kinds.
LEMMA CompleteKinds ==
    ASSUME NEW o \in Complete, imageCount \in Nat
    PROVE  \E kind \in Kinds, n \in Nat : o = <<kind, n>> /\ n < Number(kind)
PROOF
  <1>1. CASE o \in ImageObjects
    <2>1. PICK kind \in {"imageView", "depthImage", "depthMemory", "depthView", "framebuffer"},
               n \in 0 .. imageCount - 1 : o = <<kind, n>>
      BY <1>1 DEF Of, ImageObjects
    <2>2. kind \in Kinds /\ Number(kind) = imageCount
      BY DEF Kinds, Depth, Sync, Number
    <2> QED
      BY <2>1, <2>2
  <1>2. CASE o \in FrameObjects
    <2>1. PICK kind \in {"imageAvailable", "renderFinished", "inFlightFence"},
               n \in 0 .. ImagesInFlight - 1 : o = <<kind, n>>
      BY <1>2 DEF Of, FrameObjects
    <2>2. kind \in Kinds /\ Number(kind) = ImagesInFlight /\ ImagesInFlight \in Nat
      BY SetupAssumption DEF Kinds, Depth, Sync, Number
    <2> QED
      BY <2>1, <2>2
  <1>3. CASE o \in Of("swapChain", 1) \cup Of("renderPass", 1)
    <2>1. PICK kind \in {"swapChain", "renderPass"} : o = <<kind, 0>>
      BY <1>3 DEF Of
    <2>2. kind \in Kinds /\ Number(kind) = 1
      BY DEF Kinds, Number, Sync
    <2> QED
      BY <2>1, <2>2
  <1> QED
    BY <1>1, <1>2, <1>3 DEF Complete

\* Of a kind whose stage has not come nothing is made, of one whose stage is
\* past all: so it is for what is destroyed.
LEMMA ProgressOutside ==
    ASSUME NEW kind \in Kinds
    PROVE  /\ At < MadeIn(kind) => Made(kind) = 0
           /\ At > MadeIn(kind) => Made(kind) = Number(kind)
           /\ At < GoneIn(kind) => Gone(kind) = 0
           /\ At > GoneIn(kind) => Gone(kind) = Number(kind)
PROOF
  BY TableTypes DEF Made, Gone, Progress, At

\* The constructor leaves everything, the destructor nothing.
LEMMA BuiltReleased ==
    ASSUME Types, LiveInv
    PROVE  BuiltAndReleased
PROOF
  <1>1. ASSUME pc = "constructed"
        PROVE  Complete \subseteq live
    <2> SUFFICES ASSUME NEW o \in Complete PROVE o \in live
      OBVIOUS
    <2>1. PICK kind \in Kinds, n \in Nat : o = <<kind, n>> /\ n < Number(kind)
      BY CompleteKinds DEF Types
    <2>2. At = 7 /\ MadeIn(kind) < 7 /\ GoneIn(kind) > 7
      BY <1>1, TableTypes DEF At
    <2>3. Made(kind) = Number(kind) /\ Gone(kind) = 0
      BY <2>2, ProgressOutside
    <2> QED
      BY <1>1, <2>1, <2>3 DEF LiveInv
  <1>2. ASSUME pc = "constructed"
        PROVE  live \subseteq Complete
    BY <1>2, LiveComplete
  <1>3. ASSUME pc = "destroyed", NEW o \in live
        PROVE  FALSE
    <2>1. PICK kind \in Kinds, n \in Nat : o = <<kind, n>>
      BY <1>3 DEF Types
    <2>2. At = 14 /\ MadeIn(kind) < 14 /\ GoneIn(kind) < 14
      BY <1>3, TableTypes DEF At
    <2>3. Made(kind) = Number(kind) /\ Gone(kind) = Number(kind) /\ Number(kind) \in Nat
      BY <1>3, <2>2, ProgressOutside, MadeBound
    <2> QED
      BY <1>3, <2>1, <2>3 DEF LiveInv
  <1> QED
    BY <1>1, <1>2, <1>3 DEF BuiltAndReleased

\* A framebuffer comes after what it is made of.
LEMMA Attachments ==
    ASSUME Types, LiveInv
    PROVE  AttachmentsExist
PROOF
  <1> SUFFICES ASSUME pc \in ToSet(Constructor), NEW n \in 0 .. imageCount - 1,
                      <<"framebuffer", n>> \in live
               PROVE  {<<"imageView", n>>, <<"depthView", n>>, <<"renderPass", 0>>} \subseteq live
    BY DEF AttachmentsExist
  <1>1. pc # "failed" /\ At \in 1 .. 7
    BY DEF ToSet, Constructor, At
  <1>2. imageCount \in Nat /\ n \in Nat /\ n < imageCount
    BY DEF Types
  <1>3. {"framebuffer", "imageView", "depthView", "renderPass"} \subseteq Kinds
    BY DEF Kinds, Depth
  <1>4. n < Made("framebuffer")
    BY <1>1, <1>2, <1>3 DEF LiveInv
  <1>5. At >= 5
    BY <1>1, <1>2, <1>3, <1>4, ProgressOutside DEF MadeIn, Depth
  <1>6. ASSUME NEW kind \in {"imageView", "depthView", "renderPass"}
        PROVE  Made(kind) = Number(kind) /\ Gone(kind) = 0
    <2>1. /\ MadeIn(kind) =< 4 /\ GoneIn(kind) >= 8
          /\ MadeIn(kind) \in Nat /\ GoneIn(kind) \in Nat
      BY DEF MadeIn, GoneIn, Depth
    <2>2. At > MadeIn(kind) /\ At < GoneIn(kind) /\ kind \in Kinds
      BY <1>1, <1>3, <1>5, <2>1
    <2> QED
      BY <2>2, ProgressOutside
  <1>7. /\ Number("imageView") = imageCount /\ Number("depthView") = imageCount
        /\ Number("renderPass") = 1
    BY DEF Number, Sync
  <1> QED
    BY <1>1, <1>2, <1>3, <1>6, <1>7 DEF LiveInv

\* Quotients are monotone.
LEMMA ThirdsOrdered ==
    ASSUME NEW j \in Nat
    PROVE  /\ (j + (3 - 1 - 2)) \div 3 =< (j + (3 - 1 - 1)) \div 3
           /\ (j + (3 - 1 - 1)) \div 3 =< (j + (3 - 1 - 0)) \div 3
PROOF
  OBVIOUS

\* Of what a depth image needs the constructor makes the image, its memory and
\* its view in this order, and the destructor destroys first the view.
LEMMA DepthOrder ==
    ASSUME Types, LiveInv, pc # "failed"
    PROVE  /\ Made("depthView") =< Made("depthMemory")
           /\ Made("depthMemory") =< Made("depthImage")
           /\ Gone("depthMemory") =< Gone("depthImage")
           /\ Gone("depthImage") =< Gone("depthView")
PROOF
  <1>1. i \in Nat /\ imageCount \in Nat /\ At \in Nat
    BY DEF Types, LiveInv
  <1>2. ASSUME NEW kind \in Depth
        PROVE  /\ Made(kind) = Progress(4, MadeAs(kind), 3, imageCount, At, i)
               /\ Gone(kind) = Progress(10, GoneAs(kind), 3, imageCount, At, i)
    <2>1. /\ MadeIn(kind) = 4 /\ GoneIn(kind) = 10 /\ Loop(kind) = 3
          /\ Number(kind) = imageCount
      BY DEF Depth, Sync, MadeIn, GoneIn, Loop, Number
    <2> QED
      BY <2>1 DEF Made, Gone
  <1>3. /\ MadeAs("depthView") = 2 /\ MadeAs("depthMemory") = 1 /\ MadeAs("depthImage") = 0
        /\ GoneAs("depthView") = 0 /\ GoneAs("depthImage") = 1 /\ GoneAs("depthMemory") = 2
    BY DEF MadeAs, GoneAs
  <1>4. ASSUME NEW stage \in {4, 10}
        PROVE  /\ Progress(stage, 2, 3, imageCount, At, i) =<
                    Progress(stage, 1, 3, imageCount, At, i)
               /\ Progress(stage, 1, 3, imageCount, At, i) =<
                    Progress(stage, 0, 3, imageCount, At, i)
    BY <1>1, ThirdsOrdered DEF Progress
  <1> QED
    BY <1>2, <1>3, <1>4 DEF Depth

\* An image and its memory exist as long as a view of it.
LEMMA ViewsHaveImages ==
    ASSUME Types, LiveInv, pc # "failed"
    PROVE  ImagesOutliveViews
PROOF
  <1>0. i \in Nat /\ imageCount \in Nat /\ At \in Nat /\ i < Calls
    BY DEF Types, LiveInv
  <1>k. {"imageView", "swapChain", "depthView", "depthImage", "depthMemory"} \subseteq Kinds
    BY DEF Kinds, Depth
  <1>1. ASSUME NEW n \in 0 .. imageCount - 1, <<"imageView", n>> \in live
        PROVE  <<"swapChain", 0>> \in live
    <2>1. n \in Nat /\ Gone("imageView") <= n /\ n < Made("imageView")
      BY <1>0, <1>1, <1>k DEF LiveInv
    <2>2. Number("imageView") = imageCount /\ Number("swapChain") = 1
      BY DEF Number, Sync
    <2>3. /\ MadeIn("imageView") = 2 /\ GoneIn("imageView") = 8
          /\ MadeIn("swapChain") = 1 /\ GoneIn("swapChain") = 9
      BY DEF MadeIn, GoneIn, Depth, Sync
    <2>4. At >= 2
      BY <1>0, <1>k, <2>1, <2>3, ProgressOutside
    <2>5. At =< 8
      <3> SUFFICES ASSUME At > 8 PROVE FALSE
        BY <1>0
      <3>1. Gone("imageView") = imageCount
        BY <1>k, <2>2, <2>3, ProgressOutside
      <3> QED
        BY <1>0, <2>1, <3>1
    <2>6. Made("swapChain") = 1 /\ Gone("swapChain") = 0
      BY <1>0, <1>k, <2>2, <2>3, <2>4, <2>5, ProgressOutside
    <2> QED
      BY <1>k, <2>6 DEF LiveInv
  <1>2. ASSUME NEW n \in 0 .. imageCount - 1, <<"depthView", n>> \in live
        PROVE  <<"depthImage", n>> \in live /\ <<"depthMemory", n>> \in live
    <2>1. n \in Nat /\ Gone("depthView") <= n /\ n < Made("depthView")
      BY <1>0, <1>2, <1>k DEF LiveInv
    <2>2. /\ Made("depthView") \in Nat /\ Made("depthMemory") \in Nat
          /\ Made("depthImage") \in Nat /\ Gone("depthView") \in Nat
          /\ Gone("depthMemory") \in Nat /\ Gone("depthImage") \in Nat
      BY <1>k, MadeBound
    <2>3. /\ Gone("depthImage") <= n /\ n < Made("depthImage")
          /\ Gone("depthMemory") <= n /\ n < Made("depthMemory")
      BY <2>1, <2>2, DepthOrder
    <2> QED
      BY <1>k, <2>1, <2>3 DEF LiveInv
  <1> QED
    BY <1>1, <1>2 DEF ImagesOutliveViews

-----------------------------------------------------------------------------
(***************************************************************************)
(* The steps.                                                              *)
(***************************************************************************)

\* The choices of the constructor, for any driver.
LEMMA ChoicesOffered ==
    ASSUME NEW d \in Drivers
    PROVE  /\ chooseSwapSurfaceFormat(d.formats) \in ToSet(d.formats)
           /\ chooseSwapSurfaceFormat(d.formats) \in Formats
           /\ chooseSwapPresentMode(d.presentModes) \in ToSet(d.presentModes)
           /\ Within(chooseSwapExtent(d), d)
           /\ RequestedImages(d) >= d.minImageCount
           /\ d.maxImageCount = 0 \/ RequestedImages(d) <= d.maxImageCount
           /\ RequestedImages(d) \in Nat /\ RequestedImages(d) > 0
PROOF
  <1>1. d \in Driver /\ d.minImageCount \in Nat \ {0} /\ d.maxImageCount \in Nat
    BY SetupAssumption DEF Driver
  <1>2. /\ d.maxImageCount # 0 => d.minImageCount <= d.maxImageCount
        /\ d.currentExtent.width = Bad \/ Within(d.currentExtent, d)
        /\ Within(d.minImageExtent, d)
        /\ d.formats # << >>
        /\ "fifo" \in ToSet(d.presentModes)
    BY SetupAssumption
  <1>3. d.formats \in Seq(Formats)
    BY <1>1 DEF Driver
  <1>4. /\ chooseSwapSurfaceFormat(d.formats) \in ToSet(d.formats)
        /\ chooseSwapSurfaceFormat(d.formats) \in Formats
    BY <1>2, <1>3 DEF chooseSwapSurfaceFormat, ToSet
  <1>5. chooseSwapPresentMode(d.presentModes) \in ToSet(d.presentModes)
    BY <1>2 DEF chooseSwapPresentMode
  <1>6. Within(chooseSwapExtent(d), d)
    <2>1. CASE d.currentExtent.width # Bad
      BY <1>2, <2>1 DEF chooseSwapExtent
    <2>2. CASE d.currentExtent.width = Bad
      <3>1. /\ d.minImageExtent.width \in Nat /\ d.minImageExtent.height \in Nat
            /\ d.maxImageExtent.width \in Nat /\ d.maxImageExtent.height \in Nat
        <4>1. d.minImageExtent \in Extent /\ d.maxImageExtent \in Extent
          BY <1>1 DEF Driver
        <4> QED
          BY <4>1 DEF Extent, Bad
      <3>2. ASSUME NEW a \in Nat, NEW b \in Nat
            PROVE  Max({a, Min({b, 0})}) = a
        <4>1. Min({b, 0}) = 0
          BY MinOfTwo
        <4>2. Max({a, 0}) = a
          BY MaxOfTwo
        <4> QED
          BY <4>1, <4>2
      <3>3. chooseSwapExtent(d) =
                [side \in {"width", "height"} |->
                    Max({d.minImageExtent[side],
                         Min({d.maxImageExtent[side], m_windowExtent[side]})})]
        BY <2>2 DEF chooseSwapExtent
      <3>4. /\ chooseSwapExtent(d).width = d.minImageExtent.width
            /\ chooseSwapExtent(d).height = d.minImageExtent.height
        BY <3>1, <3>2, <3>3 DEF m_windowExtent
      <3> QED
        BY <1>2, <3>4 DEF Within
    <2> QED
      BY <2>1, <2>2
  <1>7. /\ RequestedImages(d) >= d.minImageCount
        /\ d.maxImageCount = 0 \/ RequestedImages(d) <= d.maxImageCount
        /\ RequestedImages(d) \in Nat /\ RequestedImages(d) > 0
    BY <1>1, <1>2, MinOfTwo DEF RequestedImages
  <1> QED
    BY <1>4, <1>5, <1>6, <1>7

\* The lists of the loops.
LEMMA ConstructorLoops ==
    ASSUME SetupInv
    PROVE  /\ pc = "createSwapChain" => At = 1 /\ MakesKinds(<<"swapChain">>) /\ Calls = 1
           /\ pc = "createImageViews" =>
                At = 2 /\ MakesKinds(<<"imageView">>) /\ Calls = imageCount
           /\ pc = "createRenderPass" => At = 3 /\ MakesKinds(<<"renderPass">>) /\ Calls = 1
           /\ pc = "createDepthResources" =>
                /\ At = 4 /\ MakesKinds(<<"depthImage", "depthMemory", "depthView">>)
                /\ Calls = 3 * imageCount
           /\ pc = "createFramebuffers" =>
                At = 5 /\ MakesKinds(<<"framebuffer">>) /\ Calls = imageCount
           /\ pc = "createSyncObjects" =>
                /\ At = 6
                /\ MakesKinds(<<"imageAvailable", "renderFinished", "inFlightFence">>)
                /\ Calls = 3 * ImagesInFlight
PROOF
  <1>0. imageCount \in Nat
    BY DEF SetupInv, Types
  <1>1. ASSUME pc = "createSwapChain"
        PROVE  At = 1 /\ MakesKinds(<<"swapChain">>) /\ Calls = 1
    <2>1. At = 1
      BY <1>1 DEF At
    <2>2. Calls = 1
      BY <2>1 DEF Calls
    <2> QED
      BY <1>0, <2>1, <2>2
      DEF MakesKinds, Kinds, MadeIn, MadeAs, Loop, Number, Depth, Sync
  <1>2. ASSUME pc = "createImageViews"
        PROVE  At = 2 /\ MakesKinds(<<"imageView">>) /\ Calls = imageCount
    <2>1. At = 2
      BY <1>2 DEF At
    <2>2. Calls = imageCount
      BY <2>1 DEF Calls
    <2> QED
      BY <1>0, <2>1, <2>2
      DEF MakesKinds, Kinds, MadeIn, MadeAs, Loop, Number, Depth, Sync
  <1>3. ASSUME pc = "createRenderPass"
        PROVE  At = 3 /\ MakesKinds(<<"renderPass">>) /\ Calls = 1
    <2>1. At = 3
      BY <1>3 DEF At
    <2>2. Calls = 1
      BY <2>1 DEF Calls
    <2> QED
      BY <1>0, <2>1, <2>2
      DEF MakesKinds, Kinds, MadeIn, MadeAs, Loop, Number, Depth, Sync
  <1>4. ASSUME pc = "createDepthResources"
        PROVE  /\ At = 4 /\ MakesKinds(<<"depthImage", "depthMemory", "depthView">>)
               /\ Calls = 3 * imageCount
    <2>1. At = 4
      BY <1>4 DEF At
    <2>2. Calls = 3 * imageCount
      BY <2>1 DEF Calls
    <2> QED
      BY <1>0, <2>1, <2>2
      DEF MakesKinds, Kinds, MadeIn, MadeAs, Loop, Number, Depth, Sync
  <1>5. ASSUME pc = "createFramebuffers"
        PROVE  At = 5 /\ MakesKinds(<<"framebuffer">>) /\ Calls = imageCount
    <2>1. At = 5
      BY <1>5 DEF At
    <2>2. Calls = imageCount
      BY <2>1 DEF Calls
    <2> QED
      BY <1>0, <2>1, <2>2
      DEF MakesKinds, Kinds, MadeIn, MadeAs, Loop, Number, Depth, Sync
  <1>6. ASSUME pc = "createSyncObjects"
        PROVE  /\ At = 6
               /\ MakesKinds(<<"imageAvailable", "renderFinished", "inFlightFence">>)
               /\ Calls = 3 * ImagesInFlight
    <2>1. At = 6
      BY <1>6 DEF At
    <2>2. Calls = 3 * ImagesInFlight
      BY <2>1 DEF Calls
    <2> QED
      BY <1>0, <2>1, <2>2
      DEF MakesKinds, Kinds, MadeIn, MadeAs, Loop, Number, Depth, Sync
  <1> QED
    BY <1>1, <1>2, <1>3, <1>4, <1>5, <1>6

\* Those of the destructor, and that the last stage makes one call.
LEMMA DestructorLoops ==
    ASSUME SetupInv
    PROVE  /\ pc = "vkDestroyImageView" =>
                At = 8 /\ FreesKinds(<<"imageView">>) /\ Calls = imageCount
           /\ pc = "vkDestroySwapchainKHR" => At = 9 /\ FreesKinds(<<"swapChain">>) /\ Calls = 1
           /\ pc = "~depth" =>
                /\ At = 10 /\ FreesKinds(<<"depthView", "depthImage", "depthMemory">>)
                /\ Calls = 3 * imageCount
           /\ pc = "vkDestroyFramebuffer" =>
                At = 11 /\ FreesKinds(<<"framebuffer">>) /\ Calls = imageCount
           /\ pc = "vkDestroyRenderPass" => At = 12 /\ FreesKinds(<<"renderPass">>) /\ Calls = 1
           /\ pc = "~sync" =>
                /\ At = 13
                /\ FreesKinds(<<"renderFinished", "imageAvailable", "inFlightFence">>)
                /\ Calls = 3 * ImagesInFlight
PROOF
  <1>0. imageCount \in Nat
    BY DEF SetupInv, Types
  <1>1. ASSUME pc = "vkDestroyImageView"
        PROVE  At = 8 /\ FreesKinds(<<"imageView">>) /\ Calls = imageCount
    <2>1. At = 8
      BY <1>1 DEF At
    <2>2. Calls = imageCount
      BY <2>1 DEF Calls
    <2> QED
      BY <1>0, <2>1, <2>2
      DEF FreesKinds, Kinds, GoneIn, GoneAs, Loop, Number, Depth, Sync
  <1>2. ASSUME pc = "vkDestroySwapchainKHR"
        PROVE  At = 9 /\ FreesKinds(<<"swapChain">>) /\ Calls = 1
    <2>1. At = 9
      BY <1>2 DEF At
    <2>2. Calls = 1
      BY <2>1 DEF Calls
    <2> QED
      BY <1>0, <2>1, <2>2
      DEF FreesKinds, Kinds, GoneIn, GoneAs, Loop, Number, Depth, Sync
  <1>3. ASSUME pc = "~depth"
        PROVE  /\ At = 10 /\ FreesKinds(<<"depthView", "depthImage", "depthMemory">>)
               /\ Calls = 3 * imageCount
    <2>1. At = 10
      BY <1>3 DEF At
    <2>2. Calls = 3 * imageCount
      BY <2>1 DEF Calls
    <2> QED
      BY <1>0, <2>1, <2>2
      DEF FreesKinds, Kinds, GoneIn, GoneAs, Loop, Number, Depth, Sync
  <1>4. ASSUME pc = "vkDestroyFramebuffer"
        PROVE  At = 11 /\ FreesKinds(<<"framebuffer">>) /\ Calls = imageCount
    <2>1. At = 11
      BY <1>4 DEF At
    <2>2. Calls = imageCount
      BY <2>1 DEF Calls
    <2> QED
      BY <1>0, <2>1, <2>2
      DEF FreesKinds, Kinds, GoneIn, GoneAs, Loop, Number, Depth, Sync
  <1>5. ASSUME pc = "vkDestroyRenderPass"
        PROVE  At = 12 /\ FreesKinds(<<"renderPass">>) /\ Calls = 1
    <2>1. At = 12
      BY <1>5 DEF At
    <2>2. Calls = 1
      BY <2>1 DEF Calls
    <2> QED
      BY <1>0, <2>1, <2>2
      DEF FreesKinds, Kinds, GoneIn, GoneAs, Loop, Number, Depth, Sync
  <1>6. ASSUME pc = "~sync"
        PROVE  /\ At = 13
               /\ FreesKinds(<<"renderFinished", "imageAvailable", "inFlightFence">>)
               /\ Calls = 3 * ImagesInFlight
    <2>1. At = 13
      BY <1>6 DEF At
    <2>2. Calls = 3 * ImagesInFlight
      BY <2>1 DEF Calls
    <2> QED
      BY <1>0, <2>1, <2>2
      DEF FreesKinds, Kinds, GoneIn, GoneAs, Loop, Number, Depth, Sync
  <1> QED
    BY <1>1, <1>2, <1>3, <1>4, <1>5, <1>6

\* The current stage makes the next object of the given kinds, of which there
\* are count each, and may have set imageCount if it is the first.
Making(kinds, count) ==
    /\ At \in 1 .. 6 /\ MakesKinds(kinds) /\ Create(kinds, count) /\ Len(kinds) * count = Calls
    /\ imageCount' \in Nat /\ imageCount' > 0 /\ (At = 1 \/ imageCount' = imageCount)

\* A stage of the constructor that does not throw makes its next object.
LEMMA CreateSteps ==
    ASSUME SetupInv, ~Throw,
           \/ CreateSwapChain \/ CreateImageViews \/ CreateRenderPass
           \/ CreateDepthResources \/ CreateFramebuffers \/ CreateSyncObjects
    PROVE  LiveInv' /\ At' \in 1 .. 14 /\ i' \in Nat /\ live' \subseteq Kinds \X Nat
PROOF
  <1>0. /\ LiveInv /\ Types /\ i \in Nat /\ imageCount \in Nat /\ driver \in Drivers
        /\ ImagesInFlight \in Nat \ {0}
        /\ At \in 2 .. 6 => imageCount > 0
    <2>1. At \in 2 .. 6 => pc # "failed"
      BY DEF At
    <2> QED
      BY <2>1, SetupAssumption DEF SetupInv, Types, LiveInv
  <1>1. ASSUME NEW kinds, NEW count, Making(kinds, count)
        PROVE  LiveInv' /\ At' \in 1 .. 14 /\ i' \in Nat /\ live' \subseteq Kinds \X Nat
    <2>1. LiveInv' /\ At' \in 1 .. 14 /\ i' \in Nat
      BY <1>0, <1>1, CreateMakes DEF Making
    <2>2. (i % Len(kinds)) + 1 \in 1 .. Len(kinds) /\ Len(kinds) \in {1, 3}
      BY <1>0, <1>1, PlaceInLoop DEF Making, MakesKinds
    <2>3. kinds[(i % Len(kinds)) + 1] \in Kinds
      BY <1>1, <2>2 DEF Making, MakesKinds
    <2>4. i \div Len(kinds) \in Nat
      <3>1. CASE Len(kinds) = 1
        BY <1>0, <3>1
      <3>2. CASE Len(kinds) = 3
        BY <1>0, <3>2
      <3> QED
        BY <2>2, <3>1, <3>2
    <2>5. Item(kinds) \in Kinds \X Nat
      BY <2>3, <2>4 DEF Item
    <2> QED
      BY <1>0, <1>1, <2>1, <2>5 DEF Making, Create, Types
  <1>2. CASE CreateSwapChain
    <2> DEFINE kinds == <<"swapChain">>
    <2>1. At = 1 /\ MakesKinds(kinds) /\ Calls = 1
      BY <1>2, ConstructorLoops DEF CreateSwapChain
    <2>2. Create(kinds, 1)
      BY <1>2 DEF CreateSwapChain
    <2>3. imageCount' \in Nat /\ imageCount' > 0
      <3>1. imageCount' \in RequestedImages(driver) .. RequestedImages(driver) + ExtraImages
        BY <1>2 DEF CreateSwapChain
      <3> QED
        BY <1>0, <3>1, ChoicesOffered, SetupAssumption
    <2>4. Len(kinds) * 1 = Calls
      BY <1>0, <2>1
    <2> HIDE DEF kinds
    <2>5. Making(kinds, 1)
      BY <1>0, <2>1, <2>2, <2>3, <2>4 DEF Making
    <2> QED
      BY <1>1, <2>5
  <1>3. CASE CreateImageViews
    <2> DEFINE kinds == <<"imageView">>
    <2>1. At = 2 /\ MakesKinds(kinds) /\ Calls = imageCount
      BY <1>3, ConstructorLoops DEF CreateImageViews
    <2>2. Create(kinds, imageCount)
      BY <1>3 DEF CreateImageViews
    <2>3. imageCount' = imageCount /\ imageCount > 0
      BY <1>3, <1>0, <2>1 DEF CreateImageViews
    <2>4. Len(kinds) * imageCount = Calls
      BY <1>0, <2>1
    <2> HIDE DEF kinds
    <2>5. Making(kinds, imageCount)
      BY <1>0, <2>1, <2>2, <2>3, <2>4 DEF Making
    <2> QED
      BY <1>1, <2>5
  <1>4. CASE CreateRenderPass
    <2> DEFINE kinds == <<"renderPass">>
    <2>1. At = 3 /\ MakesKinds(kinds) /\ Calls = 1
      BY <1>4, ConstructorLoops DEF CreateRenderPass
    <2>2. Create(kinds, 1)
      BY <1>4 DEF CreateRenderPass
    <2>3. imageCount' = imageCount /\ imageCount > 0
      BY <1>4, <1>0, <2>1 DEF CreateRenderPass
    <2>4. Len(kinds) * 1 = Calls
      BY <1>0, <2>1
    <2> HIDE DEF kinds
    <2>5. Making(kinds, 1)
      BY <1>0, <2>1, <2>2, <2>3, <2>4 DEF Making
    <2> QED
      BY <1>1, <2>5
  <1>5. CASE CreateDepthResources
    <2> DEFINE kinds == <<"depthImage", "depthMemory", "depthView">>
    <2>1. At = 4 /\ MakesKinds(kinds) /\ Calls = 3 * imageCount
      BY <1>5, ConstructorLoops DEF CreateDepthResources
    <2>2. Create(kinds, imageCount)
      BY <1>5 DEF CreateDepthResources
    <2>3. imageCount' = imageCount /\ imageCount > 0
      BY <1>5, <1>0, <2>1 DEF CreateDepthResources
    <2>4. Len(kinds) * imageCount = Calls
      BY <1>0, <2>1
    <2> HIDE DEF kinds
    <2>5. Making(kinds, imageCount)
      BY <1>0, <2>1, <2>2, <2>3, <2>4 DEF Making
    <2> QED
      BY <1>1, <2>5
  <1>6. CASE CreateFramebuffers
    <2> DEFINE kinds == <<"framebuffer">>
    <2>1. At = 5 /\ MakesKinds(kinds) /\ Calls = imageCount
      BY <1>6, ConstructorLoops DEF CreateFramebuffers
    <2>2. Create(kinds, imageCount)
      BY <1>6 DEF CreateFramebuffers
    <2>3. imageCount' = imageCount /\ imageCount > 0
      BY <1>6, <1>0, <2>1 DEF CreateFramebuffers
    <2>4. Len(kinds) * imageCount = Calls
      BY <1>0, <2>1
    <2> HIDE DEF kinds
    <2>5. Making(kinds, imageCount)
      BY <1>0, <2>1, <2>2, <2>3, <2>4 DEF Making
    <2> QED
      BY <1>1, <2>5
  <1>7. CASE CreateSyncObjects
    <2> DEFINE kinds == <<"imageAvailable", "renderFinished", "inFlightFence">>
    <2>1. At = 6 /\ MakesKinds(kinds) /\ Calls = 3 * ImagesInFlight
      BY <1>7, ConstructorLoops DEF CreateSyncObjects
    <2>2. Create(kinds, ImagesInFlight)
      BY <1>7 DEF CreateSyncObjects
    <2>3. imageCount' = imageCount /\ imageCount > 0
      BY <1>7, <1>0, <2>1 DEF CreateSyncObjects
    <2>4. Len(kinds) * ImagesInFlight = Calls
      BY <1>0, <2>1
    <2> HIDE DEF kinds
    <2>5. Making(kinds, ImagesInFlight)
      BY <1>0, <2>1, <2>2, <2>3, <2>4 DEF Making
    <2> QED
      BY <1>1, <2>5
  <1> QED
    BY <1>2, <1>3, <1>4, <1>5, <1>6, <1>7

\* The current stage destroys the next object of the given kinds.
Freeing(kinds, count) ==
    At \in 8 .. 13 /\ FreesKinds(kinds) /\ Destroys(pc, kinds, count) /\ Len(kinds) * count = Calls

\* A stage of the destructor destroys its next object.
LEMMA DestroySteps ==
    ASSUME SetupInv,
           \/ DestroyImageViews \/ DestroySwapchain \/ DestroyDepthResources
           \/ DestroyFramebuffers \/ DestroyRenderPass \/ DestroySyncObjects
    PROVE  /\ LiveInv' /\ At' \in 1 .. 14 /\ i' \in Nat /\ live' \subseteq live
           /\ UNCHANGED <<createInfo, imageCount, memoryType>>
PROOF
  <1>0. /\ LiveInv /\ Types /\ imageCount \in Nat /\ ImagesInFlight \in Nat \ {0}
    BY SetupAssumption DEF SetupInv, Types
  <1>1. ASSUME NEW kinds, NEW count, Freeing(kinds, count)
        PROVE  /\ LiveInv' /\ At' \in 1 .. 14 /\ i' \in Nat /\ live' \subseteq live
               /\ UNCHANGED <<createInfo, imageCount, memoryType>>
    <2>1. LiveInv' /\ At' \in 1 .. 14 /\ i' \in Nat
      BY <1>0, <1>1, DestroysFrees DEF Freeing
    <2> QED
      BY <1>1, <2>1 DEF Freeing, Destroys
  <1>2. CASE DestroyImageViews
    <2> DEFINE kinds == <<"imageView">>
    <2>1. At = 8 /\ FreesKinds(kinds) /\ Calls = imageCount
      BY <1>2, DestructorLoops DEF DestroyImageViews, Destroys
    <2>2. Destroys(pc, kinds, imageCount)
      BY <1>2 DEF DestroyImageViews, Destroys
    <2>4. Len(kinds) * imageCount = Calls
      BY <1>0, <2>1
    <2> HIDE DEF kinds
    <2>5. Freeing(kinds, imageCount)
      BY <1>0, <2>1, <2>2, <2>4 DEF Freeing
    <2> QED
      BY <1>1, <2>5
  <1>3. CASE DestroySwapchain
    <2> DEFINE kinds == <<"swapChain">>
    <2>1. At = 9 /\ FreesKinds(kinds) /\ Calls = 1
      BY <1>3, DestructorLoops DEF DestroySwapchain, Destroys
    <2>2. Destroys(pc, kinds, 1)
      BY <1>3 DEF DestroySwapchain, Destroys
    <2>4. Len(kinds) * 1 = Calls
      BY <1>0, <2>1
    <2> HIDE DEF kinds
    <2>5. Freeing(kinds, 1)
      BY <1>0, <2>1, <2>2, <2>4 DEF Freeing
    <2> QED
      BY <1>1, <2>5
  <1>4. CASE DestroyDepthResources
    <2> DEFINE kinds == <<"depthView", "depthImage", "depthMemory">>
    <2>1. At = 10 /\ FreesKinds(kinds) /\ Calls = 3 * imageCount
      BY <1>4, DestructorLoops DEF DestroyDepthResources, Destroys
    <2>2. Destroys(pc, kinds, imageCount)
      BY <1>4 DEF DestroyDepthResources, Destroys
    <2>4. Len(kinds) * imageCount = Calls
      BY <1>0, <2>1
    <2> HIDE DEF kinds
    <2>5. Freeing(kinds, imageCount)
      BY <1>0, <2>1, <2>2, <2>4 DEF Freeing
    <2> QED
      BY <1>1, <2>5
  <1>5. CASE DestroyFramebuffers
    <2> DEFINE kinds == <<"framebuffer">>
    <2>1. At = 11 /\ FreesKinds(kinds) /\ Calls = imageCount
      BY <1>5, DestructorLoops DEF DestroyFramebuffers, Destroys
    <2>2. Destroys(pc, kinds, imageCount)
      BY <1>5 DEF DestroyFramebuffers, Destroys
    <2>4. Len(kinds) * imageCount = Calls
      BY <1>0, <2>1
    <2> HIDE DEF kinds
    <2>5. Freeing(kinds, imageCount)
      BY <1>0, <2>1, <2>2, <2>4 DEF Freeing
    <2> QED
      BY <1>1, <2>5
  <1>6. CASE DestroyRenderPass
    <2> DEFINE kinds == <<"renderPass">>
    <2>1. At = 12 /\ FreesKinds(kinds) /\ Calls = 1
      BY <1>6, DestructorLoops DEF DestroyRenderPass, Destroys
    <2>2. Destroys(pc, kinds, 1)
      BY <1>6 DEF DestroyRenderPass, Destroys
    <2>4. Len(kinds) * 1 = Calls
      BY <1>0, <2>1
    <2> HIDE DEF kinds
    <2>5. Freeing(kinds, 1)
      BY <1>0, <2>1, <2>2, <2>4 DEF Freeing
    <2> QED
      BY <1>1, <2>5
  <1>7. CASE DestroySyncObjects
    <2> DEFINE kinds == <<"renderFinished", "imageAvailable", "inFlightFence">>
    <2>1. At = 13 /\ FreesKinds(kinds) /\ Calls = 3 * ImagesInFlight
      BY <1>7, DestructorLoops DEF DestroySyncObjects, Destroys
    <2>2. Destroys(pc, kinds, ImagesInFlight)
      BY <1>7 DEF DestroySyncObjects, Destroys
    <2>4. Len(kinds) * ImagesInFlight = Calls
      BY <1>0, <2>1
    <2> HIDE DEF kinds
    <2>5. Freeing(kinds, ImagesInFlight)
      BY <1>0, <2>1, <2>2, <2>4 DEF Freeing
    <2> QED
      BY <1>1, <2>5
  <1> QED
    BY <1>2, <1>3, <1>4, <1>5, <1>6, <1>7

\* A numbered stage is one of the stages.
LEMMA StageOfNumber ==
    /\ At \in 1 .. 14 => pc \in ToSet(Constructor) \cup ToSet(Destructor) /\ pc # "failed"
    /\ At' \in 1 .. 14 => pc' \in ToSet(Constructor) \cup ToSet(Destructor) /\ pc' # "failed"
PROOF
  <1>1. ToSet(Constructor) = {"createSwapChain", "createImageViews", "createRenderPass",
            "createDepthResources", "createFramebuffers", "createSyncObjects", "constructed"}
    BY DEF ToSet, Constructor
  <1>2. ToSet(Destructor) = {"constructed", "vkDestroyImageView", "vkDestroySwapchainKHR",
            "~depth", "vkDestroyFramebuffer", "vkDestroyRenderPass", "~sync", "destroyed"}
    BY DEF ToSet, Destructor
  <1> QED
    BY <1>1, <1>2 DEF At

\* Nothing exists and nothing is chosen at first.
LEMMA SetupStart ==
    ASSUME Init
    PROVE  SetupInv
PROOF
  <1>1. At = 1 /\ pc # "failed"
    BY DEF Init, Constructor, At
  <1>2. Types
    BY <1>1, StageOfNumber DEF Init, Types, None, NoInfo
  <1>3. ASSUME NEW kind \in Kinds
        PROVE  Made(kind) = 0
    <2>1. CASE MadeIn(kind) # 1
      <3>1. At < MadeIn(kind)
        BY <1>1, <2>1, TableTypes
      <3> QED
        BY <3>1, ProgressOutside
    <2>2. CASE MadeIn(kind) = 1
      <3>1. kind = "swapChain"
        BY <2>2 DEF MadeIn, Kinds, Depth, Sync
      <3>2. MadeAs(kind) = 0 /\ Loop(kind) = 1 /\ i = 0
        BY <3>1 DEF MadeAs, Loop, Depth, Sync, Init
      <3> QED
        BY <1>1, <2>2, <3>2 DEF Made, Progress
    <2> QED
      BY <2>1, <2>2
  <1>4. LiveInv
    <2>1. i < Calls
      BY <1>1 DEF Init, Calls
    <2>2. ASSUME NEW kind \in Kinds, NEW n \in Nat
          PROVE  <<kind, n>> \notin live /\ ~(n < Made(kind))
      BY <1>3 DEF Init
    <2> QED
      BY <1>1, <2>1, <2>2 DEF LiveInv
  <1> QED
    BY <1>1, <1>2, <1>4 DEF Init, SetupInv, MemoryOK, ChoicesSupported

\* An exception leaves everything as it is.
LEMMA ThrowStep ==
    ASSUME SetupInv, Throw, UNCHANGED driver, pc # "failed"
    PROVE  SetupInv'
PROOF
  <1>1. live \subseteq Complete /\ ImagesOutliveViews
    BY LiveComplete, ViewsHaveImages DEF SetupInv
  <1>2. Types'
    BY DEF SetupInv, Types, Throw
  <1>3. LiveInv'
    BY DEF LiveInv, Throw
  <1>4. MemoryOK' /\ ChoicesSupported'
    BY DEF SetupInv, MemoryOK, ChoicesSupported, Throw
  <1>5. Complete' = Complete
    BY DEF Complete, ImageObjects, FrameObjects, Of, Throw
  <1>6. ImagesOutliveViews'
    BY <1>1 DEF ImagesOutliveViews, Throw
  <1> QED
    BY <1>1, <1>2, <1>3, <1>4, <1>5, <1>6 DEF SetupInv, Throw

\* So does a step in which nothing happens.
LEMMA SetupStutters ==
    ASSUME SetupInv, UNCHANGED vars
    PROVE  SetupInv'
PROOF
  <1>1. Types' /\ MemoryOK' /\ ChoicesSupported' /\ ImagesOutliveViews' = ImagesOutliveViews
    BY DEF SetupInv, Types, MemoryOK, ChoicesSupported, ImagesOutliveViews, vars
  <1>2. Complete' = Complete
    BY DEF Complete, ImageObjects, FrameObjects, Of, vars
  <1>3. At' = At /\ Calls' = Calls
    BY DEF At, Calls, vars
  <1>4. \A kind \in Kinds : Made(kind)' = Made(kind) /\ Gone(kind)' = Gone(kind)
    BY DEF Made, Gone, At, Number, vars
  <1>5. LiveInv'
    BY <1>3, <1>4 DEF SetupInv, LiveInv, vars
  <1> QED
    BY <1>1, <1>2, <1>5 DEF SetupInv, vars

\* A call that succeeds keeps the choices: only createSwapChain chooses, and
\* only createDepthResources looks for memory.
LEMMA ChoicesKept ==
    ASSUME SetupInv, UNCHANGED driver,
           \/ UNCHANGED <<createInfo, imageCount, memoryType>>
           \/ CreateSwapChain /\ ~Throw
           \/ CreateDepthResources /\ ~Throw
    PROVE  /\ createInfo' = NoInfo \/ createInfo'.imageFormat \in Formats
           /\ imageCount' \in Nat /\ memoryType' \in Nat
           /\ MemoryOK' /\ ChoicesSupported'
PROOF
  <1>0. /\ driver \in Drivers /\ driver \in Driver /\ imageCount \in Nat /\ memoryType \in Nat
        /\ MemoryOK /\ ChoicesSupported
        /\ createInfo = NoInfo \/ createInfo.imageFormat \in Formats
    BY SetupAssumption DEF SetupInv, Types
  <1>1. CASE UNCHANGED <<createInfo, imageCount, memoryType>>
    BY <1>0, <1>1 DEF MemoryOK, ChoicesSupported
  <1>2. CASE CreateSwapChain /\ ~Throw
    <2>1. /\ createInfo' = [imageFormat |-> chooseSwapSurfaceFormat(driver.formats),
                            presentMode |-> chooseSwapPresentMode(driver.presentModes),
                            imageExtent |-> chooseSwapExtent(driver),
                            minImageCount |-> RequestedImages(driver)]
          /\ imageCount' \in
                RequestedImages(driver) .. RequestedImages(driver) + ExtraImages
          /\ memoryType' = memoryType
      BY <1>2 DEF CreateSwapChain
    <2>2. imageCount' \in Nat
      BY <1>0, <2>1, ChoicesOffered, SetupAssumption
    <2>3. MemoryOK'
      BY <1>0, <2>1 DEF MemoryOK
    <2>4. /\ createInfo'.imageFormat = chooseSwapSurfaceFormat(driver.formats)
          /\ createInfo'.presentMode = chooseSwapPresentMode(driver.presentModes)
          /\ createInfo'.imageExtent = chooseSwapExtent(driver)
          /\ createInfo'.minImageCount = RequestedImages(driver)
      BY <2>1
    <2>5. ChoicesSupported'
      BY <1>0, <2>3, <2>4, ChoicesOffered DEF ChoicesSupported, MemoryOK
    <2> QED
      BY <1>0, <2>1, <2>2, <2>3, <2>4, <2>5, ChoicesOffered
  <1>3. CASE CreateDepthResources /\ ~Throw
    <2>1. /\ createInfo' = createInfo /\ imageCount' = imageCount
          /\ \/ memoryType' = memoryType
             \/ memoryType' = findMemoryType(driver, "device_local") /\ memoryType' # None
      BY <1>3 DEF CreateDepthResources
    <2>2. memoryType' \in Nat /\ MemoryOK'
      BY <1>0, <2>1, MemoryTypeFound DEF MemoryOK
    <2> QED
      BY <1>0, <2>1, <2>2 DEF ChoicesSupported, MemoryOK
  <1> QED
    BY <1>1, <1>2, <1>3

\* Every step keeps the invariant.
LEMMA SetupStep ==
    ASSUME SetupInv, [Next]_vars
    PROVE  SetupInv'
PROOF
  <1>1. CASE UNCHANGED vars
    BY <1>1, SetupStutters
  <1> SUFFICES ASSUME Next
               PROVE  SetupInv'
    BY <1>1
  <1>0. UNCHANGED driver /\ Types
    BY DEF Next, SetupInv
  <1>2. ASSUME LiveInv', At' \in 1 .. 14, i' \in Nat, live' \subseteq Kinds \X Nat,
               \/ UNCHANGED <<createInfo, imageCount, memoryType>>
               \/ CreateSwapChain /\ ~Throw
               \/ CreateDepthResources /\ ~Throw
        PROVE  SetupInv'
    <2>1. /\ createInfo' = NoInfo \/ createInfo'.imageFormat \in Formats
          /\ imageCount' \in Nat /\ memoryType' \in Nat
          /\ MemoryOK' /\ ChoicesSupported'
      BY <1>0, <1>2, ChoicesKept
    <2>2. pc' \in ToSet(Constructor) \cup ToSet(Destructor) /\ pc' # "failed"
      BY <1>2, StageOfNumber
    <2>3. Types'
      BY <1>0, <1>2, <2>1, <2>2 DEF Types
    <2> QED
      BY <1>2, <2>1, <2>2, <2>3 DEF SetupInv
  <1>3. CASE Throw /\ pc # "failed"
    BY <1>0, <1>3, ThrowStep
  <1>4. CASE CreateSwapChain \/ CreateImageViews \/ CreateRenderPass
             \/ CreateDepthResources \/ CreateFramebuffers \/ CreateSyncObjects
    <2>1. pc # "failed"
      BY <1>4 DEF CreateSwapChain, CreateImageViews, CreateRenderPass, CreateDepthResources,
                  CreateFramebuffers, CreateSyncObjects
    <2>2. CASE ~Throw
      <3>1. LiveInv' /\ At' \in 1 .. 14 /\ i' \in Nat /\ live' \subseteq Kinds \X Nat
        BY <1>4, <2>2, CreateSteps
      <3>2. \/ UNCHANGED <<createInfo, imageCount, memoryType>>
            \/ CreateSwapChain \/ CreateDepthResources
        BY <1>4, <2>2
        DEF CreateImageViews, CreateRenderPass, CreateFramebuffers, CreateSyncObjects
      <3> QED
        BY <1>2, <2>2, <3>1, <3>2
    <2> QED
      BY <1>3, <2>1, <2>2
  <1>5. CASE Destroy
    <2>1. At = 7 /\ pc # "failed"
      BY <1>5 DEF Destroy, At
    <2>2. LiveInv /\ i \in Nat /\ Calls = 1 /\ imageCount > 0
      BY <2>1 DEF SetupInv, Types, LiveInv, Calls
    <2>3. At' = 8 /\ i' = 0 /\ UNCHANGED <<live, createInfo, imageCount, memoryType>>
      <3>1. i = 0
        BY <2>1, <2>2 DEF LiveInv
      <3>2. IF i + 1 < 1 THEN At' = At /\ i' = i + 1 ELSE At' = At + 1 /\ i' = 0
        BY <1>5, <2>1, DestructorAdvances DEF Destroy
      <3> QED
        BY <1>5, <2>1, <3>1, <3>2 DEF Destroy
    <2>4. ASSUME NEW kind \in Kinds
          PROVE  Made(kind)' = Made(kind) /\ Gone(kind)' = Gone(kind)
      <3>1. Number(kind)' = Number(kind)
        BY <2>3 DEF Number
      <3>2. MadeIn(kind) \in 1 .. 6
        BY TableTypes
      <3>3. Made(kind)' = Number(kind)' /\ Made(kind) = Number(kind)
        BY <2>1, <2>3, <3>2 DEF Made, Progress
      <3>4. Gone(kind) = 0
        BY <2>1, TableTypes DEF Gone, Progress
      <3>5. Gone(kind)' = Progress(GoneIn(kind), GoneAs(kind), Loop(kind), Number(kind)', 8, 0)
        BY <2>3 DEF Gone
      <3>6. Progress(GoneIn(kind), GoneAs(kind), Loop(kind), Number(kind)', 8, 0)
              = Progress(GoneIn(kind), GoneAs(kind), Loop(kind), Number(kind), 7, i)
        BY <2>1, <3>1, TableTypes, OtherStage
      <3> QED
        BY <2>1, <3>1, <3>3, <3>5, <3>6 DEF Gone
    <2>5. LiveInv'
      <3>1. Calls' > 0
        BY <2>2, <2>3 DEF Calls
      <3> QED
        BY <2>1, <2>2, <2>3, <2>4, <3>1 DEF LiveInv
    <2> QED
      BY <1>0, <1>2, <2>3, <2>5 DEF Types
  <1>6. CASE DestroyImageViews \/ DestroySwapchain \/ DestroyDepthResources
             \/ DestroyFramebuffers \/ DestroyRenderPass \/ DestroySyncObjects
    BY <1>0, <1>2, <1>6, DestroySteps DEF Types
  <1> QED
    BY <1>4, <1>5, <1>6 DEF Next

\* Whatever the driver offers, and whichever call fails.
LEMMA SetupInvariant == Spec => []SetupInv
PROOF
  <1>1. Init => SetupInv
    BY SetupStart
  <1>2. SetupInv /\ [Next]_vars => SetupInv'
    BY SetupStep
  <1> QED
    BY <1>1, <1>2, PTL DEF Spec

\* The states of a swap chain that is made and destroyed are those of its type,
\* and nothing exists that no swap chain has.
THEOREM SetupTypes == Spec => []TypeOK
PROOF
  <1>1. SetupInv => TypeOK
    BY LiveComplete DEF SetupInv, Types, TypeOK
  <1> QED
    BY <1>1, SetupInvariant, PTL

\* Format, present mode, extent, number of images and memory type are among
\* those that the driver offers, whatever it offers.
THEOREM ChoicesAreSupported == Spec => []ChoicesSupported
PROOF
  <1>1. SetupInv => ChoicesSupported
    BY DEF SetupInv
  <1> QED
    BY <1>1, SetupInvariant, PTL

\* createFramebuffers finds the views and the render pass it attaches.
THEOREM AttachmentsAlwaysExist == Spec => []AttachmentsExist
PROOF
  <1>1. SetupInv => AttachmentsExist
    BY Attachments DEF SetupInv
  <1> QED
    BY <1>1, SetupInvariant, PTL

\* No view outlives its image, in the constructor, in the destructor, and in
\* what a constructor that threw has left behind.
THEOREM ViewsAlwaysBacked == Spec => []ImagesOutliveViews
PROOF
  <1>1. SetupInv => ImagesOutliveViews
    BY ViewsHaveImages DEF SetupInv
  <1> QED
    BY <1>1, SetupInvariant, PTL

\* The constructor returns with all the objects of a swap chain, and the
\* destructor with none left, for any number of images and of frames in flight.
THEOREM AlwaysBuiltAndReleased == Spec => []BuiltAndReleased
PROOF
  <1>1. SetupInv => BuiltAndReleased
    BY BuiltReleased DEF SetupInv
  <1> QED
    BY <1>1, SetupInvariant, PTL
=============================================================================
