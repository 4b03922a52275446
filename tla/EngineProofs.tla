---------------------------- MODULE EngineProofs ----------------------------
(***************************************************************************)
(* Engine destroys its objects in a safe order, and all of them, whatever  *)
(* devices there are and whichever stage throws; it picks the first device *)
(* that is suitable, and finds a family for each queue.                    *)
(***************************************************************************)
EXTENDS Engine, WellFoundedInduction, TLAPS

\* The calls of the unwinding that are still to come when pc is one of them.
AfterWindow == (Teardown \ {"~GenericWindow"}) \cup {"unwound"}
AfterPool == AfterWindow \ {"~Pipeline", "vkDestroyCommandPool"}
AfterDevice == AfterPool \ {"vkDestroyDevice"}
AfterMessenger == AfterDevice \ {"DestroyDebugUtilsMessengerEXT"}
AfterSurface == AfterMessenger \ {"vkDestroySurfaceKHR"}

\* What each stage can rely on: what was created before it ...
Created ==
    /\ pc \in Setup \ {"init"} => {"glfw", "window"} \subseteq live
    /\ pc \in Setup \ {"init", "createVulkanInstance"} => "instance" \in live
    /\ pc \in {"createCommandPool", "createGraphicsPipeline"} => "device" \in live
    /\ pc = "createVulkanInstance" => live = {"glfw", "window"}
    /\ "messenger" \in live => "debugUtils" \in extensions
    /\ "debugUtils" \in extensions => ValidationLayersEnabled
    /\ pc \in {"init", "createVulkanInstance"} => extensions = {}

\* ... and what was destroyed before it.
Destroyed ==
    /\ pc \in AfterWindow => "window" \notin live
    /\ pc \in AfterWindow /\ "glfw" \in live => extensions = {}
    /\ pc \in AfterPool => "pool" \notin live
    /\ pc \in AfterDevice => "device" \notin live
    /\ pc \in AfterMessenger => "messenger" \notin live
    /\ pc \in AfterSurface => "surface" \notin live
    /\ pc = "unwound" => "instance" \notin live

\* All of that, with an invariant of Engine.
Inv ==
    /\ pc \in Setup \cup Teardown \cup Ended
    /\ live \subseteq Objects
    /\ ValidationLayersEnabled \in BOOLEAN
    /\ ChildrenFirst
    /\ Created
    /\ Destroyed

\* Nothing exists at first.
LEMMA InitInv == Init => Inv
  BY DEF Init, Inv, ChildrenFirst, Created, Destroyed, Setup, Teardown, Ended, Objects,
         AfterWindow, AfterPool, AfterDevice, AfterMessenger, AfterSurface

\* Every stage of the set-up and every destructor keeps the invariant.
LEMMA NextInv == Inv /\ [Next]_vars => Inv'
  <1> SUFFICES ASSUME Inv, [Next]_vars PROVE Inv'
    OBVIOUS
  <1> USE DEF Inv, ChildrenFirst, Created, Destroyed, Setup, Teardown, Ended, Objects,
              AfterWindow, AfterPool, AfterDevice, AfterMessenger, AfterSurface,
              Goto, Throw, Crash, inputs, created
  <1>1. CASE InitWindow
    BY <1>1 DEF InitWindow
  <1>2. CASE CreateVulkanInstance
    BY <1>2 DEF CreateVulkanInstance, requiredGlfwExtensions
  <1>3. CASE SetupDebugger
    BY <1>3 DEF SetupDebugger
  <1>4. CASE CreatePresentationSurface
    BY <1>4 DEF CreatePresentationSurface
  <1>5. CASE PickGpu
    BY <1>5 DEF PickGpu
  <1>6. CASE CreateLogicalDevice
    BY <1>6 DEF CreateLogicalDevice
  <1>7. CASE CreateCommandPool
    BY <1>7 DEF CreateCommandPool
  <1>8. CASE CreateGraphicsPipeline
    BY <1>8 DEF CreateGraphicsPipeline
  <1>9. CASE DestroyWindow
    BY <1>9 DEF DestroyWindow, Destroys
  <1>10. CASE DestroyPipeline
    BY <1>10 DEF DestroyPipeline, Destroys, MayCrash
  <1>11. CASE DestroyCommandPool
    BY <1>11 DEF DestroyCommandPool, Destroys, MayCrash
  <1>12. CASE DestroyDevice
    BY <1>12 DEF DestroyDevice, Destroys
  <1>13. CASE DestroyDebugUtilsMessenger
    BY <1>13 DEF DestroyDebugUtilsMessenger, Destroys
  <1>14. CASE DestroySurface
    BY <1>14 DEF DestroySurface, Destroys, MayCrash
  <1>15. CASE DestroyInstance
    BY <1>15 DEF DestroyInstance, Destroys
  <1>16. CASE UNCHANGED vars
    BY <1>16 DEF vars
  <1>17. CASE CreateInstanceFails
    BY <1>17 DEF CreateInstanceFails
  <1> QED
    BY <1>1, <1>2, <1>3, <1>4, <1>5, <1>6, <1>7, <1>8, <1>9, <1>10, <1>11, <1>12,
       <1>13, <1>14, <1>15, <1>16, <1>17 DEF Next

\* What each stage relies on holds when it is reached.
THEOREM EngineInvariant == Spec => []Inv
  BY InitInv, NextInv, PTL DEF Spec

\* No object outlives the one that it was created from: a failed set-up is
\* taken down in an order that Vulkan allows, but for the window.
THEOREM ChildrenDestroyedFirst == Spec => []ChildrenFirst
  <1>1. Inv => ChildrenFirst
    BY DEF Inv
  <1> QED
    BY <1>1, EngineInvariant, PTL

\* cleanUp releases all that setupForWindow created, wherever it stopped, and the
\* window goes with GLFW once it was constructed.
THEOREM EverythingReleased == Spec => []AllReleased
  <1>1. Inv => AllReleased
    BY DEF Inv, Destroyed, AllReleased, Objects, AfterWindow, AfterPool, AfterDevice,
           AfterMessenger, AfterSurface, Teardown
  <1> QED
    BY <1>1, EngineInvariant, PTL

-----------------------------------------------------------------------------
(***************************************************************************)
(* What findQueueFamilies and the loop of pickGpu find, on any list.  The  *)
(* recursive function of the one and the least element of the other are    *)
(* reasoned about with the least number that would be an exception.        *)
(***************************************************************************)

\* No family found yet.
NoFamily == [graphicsFamily |-> None, presentFamily |-> None]

\* The pair after family i, from the pair before it.
Looked(indices, families, operations, i) ==
    IF isComplete(indices) THEN indices
    ELSE [graphicsFamily |-> IF HasOperations(families[i], operations)
                             THEN i ELSE indices.graphicsFamily,
          presentFamily |-> IF HasPresentation(families[i])
                            THEN i ELSE indices.presentFamily]

\* The pairs that the loop of findQueueFamilies passes through, up to family m.
Pass(pairs, families, operations, m) ==
    pairs = [i \in 0 .. m |-> IF i = 0 THEN NoFamily
                              ELSE Looked(pairs[i - 1], families, operations, i)]

\* A property of numbers that holds of 0 and passes to the next holds of all.
LEMMA Numbers ==
  ASSUME NEW P, 0 \in P, \A n \in Nat : n \in P => n + 1 \in P
  PROVE  \A n \in Nat : n \in P
  <1> SUFFICES ASSUME NEW n \in Nat, n \notin P PROVE FALSE
    OBVIOUS
  <1> DEFINE T == {k \in Nat : k \notin P}
  <1>1. T \in SUBSET Nat /\ T # {}
    OBVIOUS
  <1>2. PICK t \in T : \A y \in T : ~(<<y, t>> \in OpToRel(<, Nat))
    BY <1>1, NatLessThanWellFounded, WFMin
  <1>3. t - 1 \in Nat /\ (t - 1) + 1 = t
    OBVIOUS
  <1>4. t - 1 \in P
    <2> SUFFICES ASSUME t - 1 \notin P PROVE FALSE
      OBVIOUS
    <2>1. t - 1 \in T /\ <<t - 1, t>> \in Nat \X Nat /\ <<t - 1, t>>[1] < <<t - 1, t>>[2]
      BY <1>3
    <2> HIDE DEF T
    <2> QED
      BY <1>2, <2>1 DEF OpToRel
  <1> QED
    BY <1>3, <1>4

\* For every number of families there is a table of the pairs, by extending a
\* table by one family.
LEMMA PassExists ==
  ASSUME NEW families, NEW operations, NEW m \in Nat
  PROVE  \E pairs : Pass(pairs, families, operations, m)
  <1> DEFINE P == {n \in Nat : \E pairs : Pass(pairs, families, operations, n)}
  <1>1. 0 \in P
    <2> DEFINE g == [i \in 0 .. 0 |-> NoFamily]
    <2>1. g = [i \in 0 .. 0 |-> IF i = 0 THEN NoFamily
                                ELSE Looked(g[i - 1], families, operations, i)]
      OBVIOUS
    <2> HIDE DEF g
    <2> QED
      BY <2>1 DEF Pass
  <1>2. ASSUME NEW n \in Nat, n \in P PROVE n + 1 \in P
    <2>1. PICK g : Pass(g, families, operations, n)
      BY <1>2
    <2> DEFINE h == [i \in 0 .. n + 1 |->
                        IF i = 0 THEN NoFamily
                        ELSE Looked(g[i - 1], families, operations, i)]
    <2>2. \A i \in 0 .. n : h[i] = g[i]
      BY <2>1 DEF Pass
    <2>3. h = [i \in 0 .. n + 1 |-> IF i = 0 THEN NoFamily
                                    ELSE Looked(h[i - 1], families, operations, i)]
      <3>1. ASSUME NEW i \in 0 .. n + 1, i # 0 PROVE h[i - 1] = g[i - 1]
        <4>1. i - 1 \in 0 .. n
          BY <3>1
        <4> HIDE DEF h
        <4> QED
          BY <2>2, <4>1
      <3> DEFINE k == [i \in 0 .. n + 1 |-> IF i = 0 THEN NoFamily
                                    ELSE Looked(h[i - 1], families, operations, i)]
      <3>2. \A i \in 0 .. n + 1 : h[i] = k[i]
        BY <3>1
      <3>3. h = k
        BY <3>2
      <3> QED
        BY <3>3
    <2> HIDE DEF h
    <2> QED
      BY <2>3 DEF Pass
  <1> HIDE DEF P
  <1>3. m \in P
    BY <1>1, <1>2, Numbers
  <1> QED
    BY <1>3 DEF P

\* The recursive function of findQueueFamilies is such a table, because there
\* is one, and its last pair is what findQueueFamilies returns.
LEMMA FindIsPass ==
  ASSUME NEW families \in Seq(Family), NEW operations
  PROVE  \E pairs : /\ Pass(pairs, families, operations, Len(families))
                    /\ findQueueFamilies(families, operations) = pairs[Len(families)]
  <1> DEFINE found[i \in 0 .. Len(families)] ==
            IF i = 0 THEN [graphicsFamily |-> None, presentFamily |-> None]
            ELSE IF isComplete(found[i - 1]) THEN found[i - 1]
            ELSE [graphicsFamily |-> IF HasOperations(families[i], operations)
                                     THEN i ELSE found[i - 1].graphicsFamily,
                  presentFamily |-> IF HasPresentation(families[i])
                                    THEN i ELSE found[i - 1].presentFamily]
  <1>0. Len(families) \in Nat
    OBVIOUS
  <1>1. \E g : Pass(g, families, operations, Len(families))
    BY <1>0, PassExists
  <1>2. Pass(found, families, operations, Len(families))
    BY <1>1 DEF Pass, Looked, NoFamily
  <1>3. findQueueFamilies(families, operations) = found[Len(families)]
    BY DEF findQueueFamilies
  <1> HIDE DEF found
  <1> QED
    BY <1>2, <1>3

\* What the pair is after i families.
Seen(indices, families, operations, i) ==
    /\ indices \in [graphicsFamily : 0 .. i, presentFamily : 0 .. i]
    /\ indices.graphicsFamily # None =>
            HasOperations(families[indices.graphicsFamily], operations)
    /\ indices.presentFamily # None => HasPresentation(families[indices.presentFamily])
    /\ (\E f \in 1 .. i : HasOperations(families[f], operations)) =>
            indices.graphicsFamily # None
    /\ (\E f \in 1 .. i : HasPresentation(families[f])) => indices.presentFamily # None

\* One more family keeps what is said of the pair.
LEMMA LookedFacts ==
  ASSUME NEW indices, NEW families, NEW operations, NEW i \in Nat,
         Seen(indices, families, operations, i)
  PROVE  Seen(Looked(indices, families, operations, i + 1), families, operations, i + 1)
  <1>1. CASE isComplete(indices)
    BY <1>1 DEF Looked, Seen, isComplete, None
  <1>2. CASE ~isComplete(indices)
    <2> DEFINE r == [graphicsFamily |-> IF HasOperations(families[i + 1], operations)
                                        THEN i + 1 ELSE indices.graphicsFamily,
                     presentFamily |-> IF HasPresentation(families[i + 1])
                                       THEN i + 1 ELSE indices.presentFamily]
    <2>1. Looked(indices, families, operations, i + 1) = r
      BY <1>2 DEF Looked
    <2>2. r \in [graphicsFamily : 0 .. i + 1, presentFamily : 0 .. i + 1]
      BY DEF Seen
    <2>3. r.graphicsFamily # None => HasOperations(families[r.graphicsFamily], operations)
      BY DEF Seen
    <2>4. r.presentFamily # None => HasPresentation(families[r.presentFamily])
      BY DEF Seen
    <2>5. (\E f \in 1 .. i + 1 : HasOperations(families[f], operations)) =>
            r.graphicsFamily # None
      BY DEF Seen, None
    <2>6. (\E f \in 1 .. i + 1 : HasPresentation(families[f])) => r.presentFamily # None
      BY DEF Seen, None
    <2> HIDE DEF r
    <2> QED
      BY <2>1, <2>2, <2>3, <2>4, <2>5, <2>6 DEF Seen
  <1> QED
    BY <1>1, <1>2

\* So it is true of the pair that findQueueFamilies returns.
LEMMA FindFacts ==
  ASSUME NEW families \in Seq(Family), NEW operations
  PROVE  Seen(findQueueFamilies(families, operations), families, operations, Len(families))
  <1>1. PICK pairs : /\ Pass(pairs, families, operations, Len(families))
                     /\ findQueueFamilies(families, operations) = pairs[Len(families)]
    BY FindIsPass
  <1>2. Len(families) \in Nat
    OBVIOUS
  <1> DEFINE P == {n \in Nat : n =< Len(families) => Seen(pairs[n], families, operations, n)}
  <1>3. 0 \in P
    <2>1. pairs[0] = NoFamily
      BY <1>1, <1>2 DEF Pass
    <2> QED
      BY <2>1 DEF Seen, NoFamily, None
  <1>4. ASSUME NEW n \in Nat, n \in P PROVE n + 1 \in P
    <2> SUFFICES ASSUME n + 1 =< Len(families)
                 PROVE  Seen(pairs[n + 1], families, operations, n + 1)
      OBVIOUS
    <2>1. Seen(pairs[n], families, operations, n)
      BY <1>2, <1>4
    <2>2. n + 1 \in 0 .. Len(families) /\ n + 1 # 0 /\ (n + 1) - 1 = n
      BY <1>2
    <2>3. pairs[n + 1] = Looked(pairs[n], families, operations, n + 1)
      BY <1>1, <2>2 DEF Pass
    <2> QED
      BY <2>1, <2>3, LookedFacts
  <1> HIDE DEF P
  <1>5. Len(families) \in P
    BY <1>2, <1>3, <1>4, Numbers
  <1> QED
    BY <1>1, <1>2, <1>5 DEF P

\* isGpuGood, which asks findQueueFamilies for the pair and takes it to be
\* complete, says the same as Suitable, which asks whether the families exist.
LEMMA GoodIsSuitable ==
  ASSUME NEW gpu \in Gpu
  PROVE  isGpuGood(gpu, Operations) <=> Suitable(gpu)
  <1>1. gpu.families \in Seq(Family)
    BY DEF Gpu
  <1>2. PICK r : r = findQueueFamilies(gpu.families, Operations)
    OBVIOUS
  <1>3. Seen(r, gpu.families, Operations, Len(gpu.families))
    BY <1>1, <1>2, FindFacts
  <1>4. DOMAIN gpu.families = 1 .. Len(gpu.families) /\ Len(gpu.families) \in Nat
    BY <1>1
  <1>5. isComplete(r) <=>
            /\ \E f \in DOMAIN gpu.families : HasOperations(gpu.families[f], Operations)
            /\ \E f \in DOMAIN gpu.families : HasPresentation(gpu.families[f])
    <2>1. r.graphicsFamily # None => r.graphicsFamily \in DOMAIN gpu.families
      BY <1>3, <1>4 DEF Seen, None
    <2>2. r.presentFamily # None => r.presentFamily \in DOMAIN gpu.families
      BY <1>3, <1>4 DEF Seen, None
    <2> QED
      BY <1>3, <1>4, <2>1, <2>2 DEF Seen, isComplete
  <1> QED
    BY <1>2, <1>5 DEF isGpuGood, Suitable

\* The least element of a set of numbers.
LEMMA LeastIs ==
  ASSUME NEW S \in SUBSET Nat, S # {}
  PROVE  Min(S) \in S /\ \A x \in S : Min(S) =< x
  <1>1. PICK t \in S : \A y \in S : ~(<<y, t>> \in OpToRel(<, Nat))
    BY NatLessThanWellFounded, WFMin
  <1>2. \A y \in S : t =< y
    <2> SUFFICES ASSUME NEW y \in S, y < t PROVE FALSE
      OBVIOUS
    <2>1. <<y, t>> \in Nat \X Nat /\ <<y, t>>[1] < <<y, t>>[2]
      OBVIOUS
    <2> QED
      BY <1>1, <2>1 DEF OpToRel
  <1> QED
    BY <1>2 DEF Min

\* The device at which the loop of pickGpu ends is the first that throws or is
\* suitable, if there is one.
LEMMA Deciding ==
  ASSUME NEW list \in Seq(Gpu), NEW n, n = DecidingGpu(list)
  PROVE  /\ n # None =>
                /\ n \in DOMAIN list
                /\ Throws(list[n]) \/ Suitable(list[n])
                /\ \A k \in 1 .. n - 1 : ~Throws(list[k]) /\ ~Suitable(list[k])
         /\ n = None => \A k \in DOMAIN list : ~Throws(list[k]) /\ ~Suitable(list[k])
         /\ n \in {None} \cup DOMAIN list
  <1> DEFINE I == {i \in 1 .. Len(list) : Throws(list[i]) \/ isGpuGood(list[i], Operations)}
  <1>1. DOMAIN list = 1 .. Len(list) /\ Len(list) \in Nat
    OBVIOUS
  <1>2. n = IF I # {} THEN Min(I) ELSE 0
    BY DEF DecidingGpu, SelectInSeq
  <1>3. \A k \in DOMAIN list : list[k] \in Gpu
    OBVIOUS
  <1>4. \A k \in DOMAIN list : k \in I <=> Throws(list[k]) \/ Suitable(list[k])
    BY <1>1, <1>3, GoodIsSuitable
  <1>5. I \in SUBSET Nat /\ \A k \in I : k \in DOMAIN list
    BY <1>1
  <1> HIDE DEF I
  <1>6. CASE I = {}
    BY <1>2, <1>4, <1>6 DEF None
  <1>7. CASE I # {}
    <2>1. n = Min(I) /\ n \in I /\ \A k \in I : n =< k
      BY <1>2, <1>5, <1>7, LeastIs
    <2>2. n # None /\ n \in DOMAIN list
      BY <1>1, <1>5, <2>1 DEF None
    <2>3. \A k \in 1 .. n - 1 : k \in DOMAIN list /\ k \notin I
      BY <1>1, <1>5, <2>1, <2>2
    <2> QED
      BY <1>4, <2>1, <2>2, <2>3
  <1> QED
    BY <1>6, <1>7

-----------------------------------------------------------------------------
(***************************************************************************)
(* The device that is picked, and its queues.                              *)
(***************************************************************************)

\* The stages before the surface, and before the device.
BeforeSurface == {"init", "createVulkanInstance", "setupDebugger", "createPresentationSurface"}
BeforePick == BeforeSurface \cup {"pickGpu"}

\* The types, and what is not yet there.
Chosen ==
    /\ gpus \in Seq(Gpu)
    /\ extensions \subseteq {"glfw", "debugUtils"}
    /\ m_gpu \in {None} \cup DOMAIN gpus
    /\ m_queues \in [graphicsFamily : Nat, presentFamily : Nat]
    /\ requestedFamilies \subseteq Nat
    /\ poolFamily \in Nat
    /\ pc \in BeforeSurface => "surface" \notin live
    /\ pc \in BeforePick => m_gpu = None /\ "device" \notin live
    /\ pc \in {"createLogicalDevice", "createCommandPool"} => m_gpu # None

\* The device was created from a suitable one, with the queues of one search.
DeviceChosen ==
    "device" \in live =>
        /\ m_gpu # None
        /\ Suitable(gpus[m_gpu])
        /\ m_queues = findQueueFamilies(gpus[m_gpu].families, Operations)
        /\ requestedFamilies = {m_queues.graphicsFamily, m_queues.presentFamily}

\* The invariant of the choice of the device.
ChoiceInv == Inv /\ Chosen /\ DeviceChosen /\ FirstSuitablePicked

\* Nothing is chosen at first.
LEMMA InitChoice == Init => ChoiceInv
  <1> SUFFICES ASSUME Init PROVE ChoiceInv
    OBVIOUS
  <1>1. gpus \in Seq(Gpu)
    BY GpuListsAssumption DEF Init
  <1>2. Chosen /\ DeviceChosen /\ FirstSuitablePicked
    BY <1>1 DEF Init, Chosen, DeviceChosen, FirstSuitablePicked, NoFamilies, None,
       BeforeSurface, BeforePick
  <1> QED
    BY <1>2, InitInv DEF ChoiceInv

\* A device has a search of its families that found numbers.
LEMMA FindType ==
  ASSUME NEW gpu \in Gpu, NEW operations
  PROVE  findQueueFamilies(gpu.families, operations) \in
            [graphicsFamily : Nat, presentFamily : Nat]
  <1>1. gpu.families \in Seq(Family) /\ Len(gpu.families) \in Nat
    BY DEF Gpu
  <1> QED
    BY <1>1, FindFacts DEF Seen

\* Every step keeps them.
LEMMA ChoiceStep ==
  ASSUME ChoiceInv, [Next]_vars
  PROVE  ChoiceInv'
  <1>0. Inv' /\ Chosen /\ DeviceChosen /\ FirstSuitablePicked /\ Inv
    BY NextInv DEF ChoiceInv
  <1> SUFFICES Chosen' /\ DeviceChosen' /\ FirstSuitablePicked'
    BY <1>0 DEF ChoiceInv
  <1> USE DEF inputs, created, choices, BeforeSurface, BeforePick, Goto, Throw, Crash
  <1>1. CASE InitWindow
    BY <1>0, <1>1 DEF InitWindow, Chosen, DeviceChosen, FirstSuitablePicked
  <1>2. CASE CreateVulkanInstance
    BY <1>0, <1>2 DEF CreateVulkanInstance, requiredGlfwExtensions, Chosen, DeviceChosen,
       FirstSuitablePicked
  <1>3. CASE CreateInstanceFails
    BY <1>0, <1>3 DEF CreateInstanceFails, Chosen, DeviceChosen, FirstSuitablePicked
  <1>4. CASE SetupDebugger
    BY <1>0, <1>4 DEF SetupDebugger, Chosen, DeviceChosen, FirstSuitablePicked
  <1>5. CASE CreatePresentationSurface
    BY <1>0, <1>5 DEF CreatePresentationSurface, Chosen, DeviceChosen, FirstSuitablePicked
  <1>6. CASE PickGpu
    <2>1. PICK n : n = DecidingGpu(gpus)
      OBVIOUS
    <2>2. /\ n # None =>
                /\ n \in DOMAIN gpus
                /\ Throws(gpus[n]) \/ Suitable(gpus[n])
                /\ \A k \in 1 .. n - 1 : ~Throws(gpus[k]) /\ ~Suitable(gpus[k])
          /\ n = None => \A k \in DOMAIN gpus : ~Throws(gpus[k]) /\ ~Suitable(gpus[k])
          /\ n \in {None} \cup DOMAIN gpus
      BY <1>0, <2>1, Deciding DEF Chosen
    <2>3. /\ pc = "pickGpu" /\ m_gpu = None /\ "device" \notin live
          /\ UNCHANGED <<gpus, live, extensions, m_queues, requestedFamilies, poolFamily>>
          /\ \/ /\ n = None \/ Throws(gpus[n])
                /\ m_gpu' = m_gpu /\ pc' \in {"terminated", "~GenericWindow"}
             \/ /\ ~(n = None \/ Throws(gpus[n]))
                /\ m_gpu' = n /\ pc' = "createLogicalDevice"
      BY <1>0, <1>6, <2>1 DEF PickGpu, Chosen
    <2>4. Chosen' /\ DeviceChosen'
      BY <1>0, <2>2, <2>3 DEF Chosen, DeviceChosen
    <2>5. FirstSuitablePicked'
      <3>1. CASE n = None \/ Throws(gpus[n])
        <4>1. ASSUME NEW j \in DOMAIN gpus, Suitable(gpus[j])
              PROVE  \E k \in 1 .. j - 1 : Throws(gpus[k])
          <5>1. n # None /\ Throws(gpus[n]) /\ n \in DOMAIN gpus
            BY <2>2, <3>1, <4>1
          <5>2. DOMAIN gpus = 1 .. Len(gpus) /\ Len(gpus) \in Nat
            BY <1>0 DEF Chosen
          <5>3. j # n
            BY <4>1, <5>1 DEF Throws, Suitable
          <5>4. ~(j \in 1 .. n - 1)
            BY <2>2, <4>1, <5>1
          <5> QED
            BY <5>1, <5>2, <5>3, <5>4
        <4> QED
          BY <2>3, <3>1, <4>1 DEF FirstSuitablePicked
      <3>2. CASE ~(n = None \/ Throws(gpus[n]))
        BY <2>2, <2>3, <3>2 DEF FirstSuitablePicked
      <3> QED
        BY <3>1, <3>2
    <2> QED
      BY <2>4, <2>5
  <1>7. CASE CreateLogicalDevice
    <2>1. PICK indices : indices = findQueueFamilies(gpus[m_gpu].families, Operations)
      OBVIOUS
    <2>2. pc = "createLogicalDevice" /\ m_gpu # None /\ m_gpu \in DOMAIN gpus
          /\ Suitable(gpus[m_gpu])
      BY <1>0, <1>7 DEF CreateLogicalDevice, Chosen, FirstSuitablePicked
    <2>3. gpus[m_gpu] \in Gpu
      BY <1>0, <2>2 DEF Chosen
    <2>4. indices \in [graphicsFamily : Nat, presentFamily : Nat]
      BY <2>1, <2>3, FindType
    <2>5. /\ UNCHANGED <<gpus, extensions, m_gpu, poolFamily>>
          /\ \/ /\ requestedFamilies' = {indices.graphicsFamily, indices.presentFamily}
                /\ m_queues' = indices /\ live' = live \cup {"device"}
                /\ pc' = "createCommandPool"
             \/ /\ UNCHANGED <<live, m_queues, requestedFamilies>>
                /\ pc' \in {"terminated", "~GenericWindow"}
      BY <1>7, <2>1 DEF CreateLogicalDevice
    <2>6. Chosen'
      BY <1>0, <2>2, <2>4, <2>5 DEF Chosen
    <2>7. DeviceChosen'
      BY <1>0, <2>1, <2>2, <2>5 DEF DeviceChosen
    <2>8. FirstSuitablePicked'
      BY <2>2, <2>5 DEF FirstSuitablePicked
    <2> QED
      BY <2>6, <2>7, <2>8
  <1>8. CASE CreateCommandPool
    <2>1. PICK family :
             family = findQueueFamilies(gpus[m_gpu].families, {"graphics"}).graphicsFamily
      OBVIOUS
    <2>2. pc = "createCommandPool" /\ m_gpu # None /\ m_gpu \in DOMAIN gpus
      BY <1>0, <1>8 DEF CreateCommandPool, Chosen
    <2>3. gpus[m_gpu] \in Gpu
      BY <1>0, <2>2 DEF Chosen
    <2>4. family \in Nat
      BY <2>1, <2>3, FindType
    <2>5. /\ UNCHANGED <<gpus, extensions, m_gpu, m_queues, requestedFamilies>>
          /\ poolFamily' = family \/ poolFamily' = poolFamily
          /\ live' = live \cup {"pool"} \/ live' = live
          /\ pc' \in {"createGraphicsPipeline", "terminated", "~GenericWindow"}
      BY <1>8, <2>1 DEF CreateCommandPool
    <2>6. Chosen' /\ DeviceChosen'
      BY <1>0, <2>2, <2>4, <2>5 DEF Chosen, DeviceChosen
    <2>7. FirstSuitablePicked'
      BY <2>2, <2>5 DEF FirstSuitablePicked
    <2> QED
      BY <2>6, <2>7
  <1>9. CASE CreateGraphicsPipeline
    BY <1>0, <1>9 DEF CreateGraphicsPipeline, Chosen, DeviceChosen, FirstSuitablePicked, Inv, Created
  <1>10. ASSUME UNCHANGED <<gpus, extensions, choices>>, live' \subseteq live,
                pc' \notin Setup \cup {"~GenericWindow"}
         PROVE  Chosen' /\ DeviceChosen' /\ FirstSuitablePicked'
    BY <1>0, <1>10 DEF Chosen, DeviceChosen, FirstSuitablePicked, Setup
  <1>11. CASE DestroyWindow \/ DestroyPipeline \/ DestroyCommandPool \/ DestroyDevice
              \/ DestroyDebugUtilsMessenger \/ DestroySurface \/ DestroyInstance
    <2>1. /\ UNCHANGED <<gpus, extensions, choices>> /\ live' \subseteq live
          /\ pc' \notin Setup \cup {"~GenericWindow"}
      BY <1>11 DEF DestroyWindow, DestroyPipeline, DestroyCommandPool, DestroyDevice,
         DestroyDebugUtilsMessenger, DestroySurface, DestroyInstance, Destroys, MayCrash, Setup
    <2> QED
      BY <1>10, <2>1
  <1>12. CASE UNCHANGED vars
    BY <1>0, <1>12 DEF vars, Chosen, DeviceChosen, FirstSuitablePicked
  <1> QED
    BY <1>1, <1>2, <1>3, <1>4, <1>5, <1>6, <1>7, <1>8, <1>9, <1>11, <1>12 DEF Next

\* The variables have their types, and a device is only created, and a pool only
\* made, for a device that was picked.
THEOREM EngineTypes == Spec => []TypeOK
  <1>1. ChoiceInv => TypeOK
    <2>1. Chosen => m_queues \in [{"graphicsFamily", "presentFamily"} -> Nat]
      BY DEF Chosen
    <2> QED
      BY <2>1 DEF ChoiceInv, Inv, Chosen, TypeOK
  <1> QED
    BY <1>1, InitChoice, ChoiceStep, PTL DEF Spec

\* pickGpu picks the first suitable device, whatever the list, and misses one
\* only because the search threw at another before it.
THEOREM PicksFirstSuitable == Spec => []FirstSuitablePicked
  <1>1. ChoiceInv => FirstSuitablePicked
    BY DEF ChoiceInv
  <1> QED
    BY <1>1, InitChoice, ChoiceStep, PTL DEF Spec

\* The queues that createLogicalDevice takes belong to families that it asked
\* for, and that have a queue: for m_presentQueue one that can present, and for
\* m_graphicsQueue one that offers any of the three kinds of operations.
THEOREM QueuesAlwaysFound == Spec => []QueuesFound
  <1>1. ChoiceInv => QueuesFound
    <2> SUFFICES ASSUME ChoiceInv, "device" \in live
                 PROVE  /\ {m_queues.graphicsFamily, m_queues.presentFamily}
                                \subseteq requestedFamilies
                        /\ HasOperations(gpus[m_gpu].families[m_queues.graphicsFamily],
                                         Operations)
                        /\ HasPresentation(gpus[m_gpu].families[m_queues.presentFamily])
      BY DEF QueuesFound
    <2>1. /\ m_gpu # None /\ Suitable(gpus[m_gpu])
          /\ m_queues = findQueueFamilies(gpus[m_gpu].families, Operations)
          /\ requestedFamilies = {m_queues.graphicsFamily, m_queues.presentFamily}
      BY DEF ChoiceInv, DeviceChosen
    <2>2. gpus[m_gpu] \in Gpu
      BY <2>1 DEF ChoiceInv, Chosen
    <2>3. isComplete(m_queues)
      BY <2>1, <2>2, GoodIsSuitable DEF isGpuGood
    <2>4. gpus[m_gpu].families \in Seq(Family)
      BY <2>2 DEF Gpu
    <2>5. Seen(m_queues, gpus[m_gpu].families, Operations, Len(gpus[m_gpu].families))
      BY <2>1, <2>4, FindFacts
    <2> QED
      BY <2>1, <2>3, <2>5 DEF Seen, isComplete
  <1> QED
    BY <1>1, InitChoice, ChoiceStep, PTL DEF Spec
=============================================================================
